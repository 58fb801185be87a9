------------------------------ MODULE Migrate ------------------------------
(***************************************************************************)
(* shunt-models --migrate-from-opencode [--apply].  A run reads            *)
(* opencode.json, providers.json and models.json without a lock and makes  *)
(* a plan, waits for the user, and applies the plan under the models lock: *)
(*                                                                         *)
(*   idle -> plan (per provider) -> confirm -> lock -> backup              *)
(*        -> keyring (per key) -> relock -> write -> plaintext (per key)   *)
(*        -> models -> save -> idle                                        *)
(*                                                                         *)
(* The providers lock is held for the backup of its file and again from    *)
(* relock to the last plaintext key.  Meanwhile the user goes on with      *)
(* `provider set`, `key set` and edits of the registry, and any run may be *)
(* stopped between two steps and started again.                            *)
(***************************************************************************)
EXTENDS Providers

CONSTANTS
    OpenCode,   \* provider -> what opencode.json and auth.json say of it
    Seeds,      \* the providers files to start from
    DefaultRef, \* provider -> the variable SHUNT_<PROVIDER>_KEY
    MaxRuns     \* bound: migration runs

Storage == {"keyring", "env", "plaintext", "skip"}
Migrator == "migrator"

\* An entry of the plan may say nothing about the key.
PlanEntry ==
    [transport : {"http", "opencode"}, base_url : BOOLEAN, type : KeyType \cup {Nil},
     ref : Ref \cup {Nil}, healthcheck : BOOLEAN]

PlanItem ==
    [state : {"done", "skip", "pending", "new"}, storage : Storage \cup {"none", "stored"},
     ref : Ref \cup {Nil}, source : {"literal", "file", "auth.json", Nil},
     entry : PlanEntry \cup {Nil}]

ASSUME MigrateAssumption ==
    /\ OpenCode \in [Provider -> [base_url : BOOLEAN, key : {"none", "env", "file", "literal"},
                                  ref : Ref \cup {Nil}, auth : BOOLEAN,
                                  effort : BOOLEAN, limit : BOOLEAN]]
    /\ \A p \in Provider : OpenCode[p].key = "env" => OpenCode[p].ref \in Ref
    /\ Seeds \subseteq [Provider -> Entry \cup {Nil}]
    /\ Nil \notin {"user", "effort", "limit", "detected", "literal", "file", "auth.json", "error"}
    /\ Nil \notin PlanEntry /\ Nil \notin PlanItem
    /\ NoProc # Migrator
    /\ DefaultRef \in [Provider -> Ref]
    /\ MaxRuns \in Nat

VARIABLES
    models,     \* provider -> body and context of its registered model
    mlock,      \* who holds the models lock
    mig,        \* the migration that is running
    runs,       \* migration runs so far
    backups,    \* the providers files that were backed up
    touched,    \* history: providers the user edited since the plan was begun
    since,      \* history: providers the user edited since the last backup
    moved,      \* history: providers a run switched to http with a copied key
    cutoff,     \* history: providers whose run stopped before their key was stored
    settled     \* history: provider -> the storage a run that just succeeded chose, or Nil

historyVars == <<touched, since, moved, cutoff, settled>>
vars == <<providerVars, models, mlock, mig, runs, backups, historyVars>>

Unsettled == [p \in Provider |-> Nil]
NoPlan == [p \in Provider |-> Nil]
Resting == [pc |-> "idle", todo |-> {}, plan |-> NoPlan, doc |-> Nil]

MigrateInit ==
    /\ providers \in Seeds
    /\ ProvidersInit
    /\ models \in [Provider -> [body : {Nil, "user"}, context : {Nil, "user"}]]
    /\ mlock = NoProc
    /\ mig = Resting
    /\ runs = 0
    /\ backups = {}
    /\ touched = {} /\ since = {} /\ moved = {} /\ cutoff = {}
    /\ settled = Unsettled

(***************************************************************************)
(* The plan                                                                *)
(***************************************************************************)

\* _key_source: where a key would be copied from; a file may be unreadable.
KeySources(p) ==
    CASE OpenCode[p].key = "literal" -> {"literal"}
      [] OpenCode[p].key = "file" -> {"file", "error"}
      [] OpenCode[p].key = "none" /\ OpenCode[p].auth -> {"auth.json"}
      [] OTHER -> {Nil}

\* _already_stored: the key type that is configured has its key.
AlreadyStored(p) == key_type(p) \in {"keyring", "plaintext"} /\ Resolves(p)

\* resolve_storage, given where the key comes from and what the user chose.
resolve_storage(p, source, choice) ==
    IF source = Nil THEN OpenCode[p].key
    ELSE IF AlreadyStored(p) THEN "stored"
    ELSE IF choice = "keyring" /\ ~Backend THEN "skip"
    ELSE choice

\* initial_used_refs and the ones the plan took so far.
UsedRefs(plan) ==
    {OpenCode[q].ref : q \in Provider}
    \cup {providers[q].ref : q \in {r \in Provider : key_type(r) = "env"}}
    \cup {plan[q].ref : q \in {r \in Provider : plan[r] # Nil}}

\* default_env_ref: the provider's own variable, else one of its suffixed ones.
default_env_refs(p, plan) ==
    IF DefaultRef[p] \notin UsedRefs(plan) THEN {DefaultRef[p]}
    ELSE Ref \ (UsedRefs(plan) \cup {DefaultRef[q] : q \in Provider})

\* Mutant of make_entry: a key that stays behind does not keep its provider back.
make_entry_http(storage, ref) ==
    [transport |-> "http",
     base_url |-> TRUE,
     type |-> CASE storage \in {"keyring", "plaintext", "env", "none"} -> storage
                [] storage = "skip" -> "keyring"
                [] storage = "stored" -> Nil,
     ref |-> IF storage = "env" THEN ref ELSE Nil,
     healthcheck |-> TRUE]

\* make_entry: without its key a provider stays on opencode; type Nil is an
\* entry that says nothing about the key.
make_entry(storage, ref) ==
    [transport |-> IF storage = "skip" THEN "opencode" ELSE "http",
     base_url |-> TRUE,
     type |-> CASE storage \in {"keyring", "plaintext", "env", "none"} -> storage
                [] storage = "skip" -> "keyring"
                [] storage = "stored" -> Nil,
     ref |-> IF storage = "env" THEN ref ELSE Nil,
     healthcheck |-> TRUE]

Item(state, storage, ref, source, entry) ==
    [state |-> state, storage |-> storage, ref |-> ref, source |-> source, entry |-> entry]

Done == Item("done", "none", Nil, Nil, Nil)
Skipped == Item("skip", "none", Nil, Nil, Nil)

\* The item of a key from one source under one choice of the user.
Planned(p, plan, source, choice) ==
    LET storage == resolve_storage(p, source, choice)
        refs == IF storage # "env" THEN {Nil}
                ELSE IF source = Nil THEN {OpenCode[p].ref}
                ELSE default_env_refs(p, plan)
    IN  {Item(IF storage = "skip" THEN "pending" ELSE "new", storage, ref, source,
              make_entry(storage, ref)) : ref \in refs}

\* plan_provider: what may become of a provider, over the choices of the user.
plan_provider(p, plan) ==
    IF transport(p) = "http" THEN {Done}
    ELSE IF ~OpenCode[p].base_url THEN {Skipped}
    ELSE (IF "error" \in KeySources(p) THEN {Skipped} ELSE {})
         \cup UNION {Planned(p, plan, source, choice) :
                      source \in KeySources(p) \ {"error"}, choice \in Storage}

Start ==
    /\ mig.pc = "idle" /\ runs < MaxRuns
    /\ runs' = runs + 1
    /\ mig' = [Resting EXCEPT !.pc = "plan", !.todo = Provider]
    /\ touched' = {}
    /\ settled' = Unsettled
    /\ UNCHANGED <<providerVars, models, mlock, backups, since, moved, cutoff>>

\* build_plan: one provider after the other, each against the file as it is.
PlanProvider ==
    /\ mig.pc = "plan" /\ mig.todo # {}
    /\ LET p == CHOOSE q \in mig.todo : TRUE
       IN  \E item \in plan_provider(p, mig.plan) :
              mig' = [mig EXCEPT !.todo = @ \ {p}, !.plan[p] = item]
    /\ UNCHANGED <<providerVars, models, mlock, runs, backups, historyVars>>

\* providers_doc: the entry is laid over the old one, whose healthcheck stays.
Merged(old, entry) ==
    IF old = Nil THEN [entry EXCEPT !.type = IF @ = Nil THEN "none" ELSE @]
    ELSE [entry EXCEPT !.type = IF @ = Nil THEN old.type ELSE @,
                       !.ref = IF entry.type = Nil THEN old.ref ELSE @,
                       !.healthcheck = IF old.healthcheck = Nil THEN @ ELSE old.healthcheck]

providers_doc(plan) ==
    [p \in Provider |-> IF plan[p] = Nil \/ plan[p].entry = Nil THEN providers[p]
                        ELSE Merged(providers[p], plan[p].entry)]

\* plan_models: what a model of a migrated provider lacks and opencode.json
\* or the provider (when it is asked) knows.
Lacks(plan, p) == plan[p].state \in {"new", "done"}

model_fills(plan, p, detected) ==
    [body |-> IF Lacks(plan, p) /\ OpenCode[p].effort THEN "effort" ELSE Nil,
     context |-> IF ~Lacks(plan, p) THEN Nil
                 ELSE IF p \in detected THEN "detected"
                 ELSE IF OpenCode[p].limit THEN "limit" ELSE Nil]

\* models_doc: a field that is set stays.
models_doc(fills) ==
    [p \in Provider |-> [body |-> IF models[p].body = Nil THEN fills[p].body ELSE models[p].body,
                         context |-> IF models[p].context = Nil THEN fills[p].context
                                     ELSE models[p].context]]

has_changes(plan, detected) ==
    \/ providers # providers_doc(plan)
    \/ models # models_doc([p \in Provider |-> model_fills(plan, p, detected)])

\* The plan is shown: a dry run ends here, a plan without changes too, and
\* the user may say no.  A model whose key is not yet confirmed is not asked.
ShowPlan ==
    LET deferred == {p \in Provider : mig.plan[p].state = "new" /\ mig.plan[p].storage # "none"}
    IN  /\ mig.pc = "plan" /\ mig.todo = {}
        /\ \/ mig' = Resting
           \/ /\ \E detected \in SUBSET (Provider \ deferred) : has_changes(mig.plan, detected)
              /\ mig' = [mig EXCEPT !.pc = "lock"]
        /\ UNCHANGED <<providerVars, models, mlock, runs, backups, historyVars>>

(***************************************************************************)
(* Applying it                                                             *)
(***************************************************************************)

\* Mutant of LockModels: the lock is not waited for and not taken.
LockNothing ==
    /\ mig.pc = "lock"
    /\ mig' = [mig EXCEPT !.pc = "backup"]
    /\ UNCHANGED <<providerVars, models, mlock, runs, backups, historyVars>>

\* The models lock, and the backup of models.json.
LockModels ==
    /\ mig.pc = "lock"
    /\ mlock = NoProc
    /\ mlock' = Migrator
    /\ mig' = [mig EXCEPT !.pc = "backup"]
    /\ UNCHANGED <<providerVars, models, runs, backups, historyVars>>

\* The keys _store_keys has to store.
ToStore(storage) == {p \in Provider : mig.plan[p].storage = storage /\ mig.plan[p].state = "new"}

\* Mutant of Backup: an existing backup is taken for the one of this run.
BackupOnce ==
    /\ mig.pc = "backup"
    /\ plock = NoProc
    /\ backups' = IF backups = {} THEN {providers} ELSE backups
    /\ since' = {}
    /\ mig' = [mig EXCEPT !.pc = "keyring",
                          !.todo = ToStore("keyring")]
    /\ UNCHANGED <<providerVars, models, mlock, runs, touched, moved, cutoff, settled>>

\* The backup of providers.json, under its lock, which is dropped again.
Backup ==
    /\ mig.pc = "backup"
    /\ plock = NoProc
    /\ backups' = backups \cup {providers}
    /\ since' = {}
    /\ mig' = [mig EXCEPT !.pc = "keyring",
                          !.todo = ToStore("keyring")]
    /\ UNCHANGED <<providerVars, models, mlock, runs, touched, moved, cutoff, settled>>

\* _store_keyring: a key that cannot be read or stored leaves its provider
\* pending on opencode.
StoreKeyring ==
    /\ mig.pc = "keyring" /\ mig.todo # {}
    /\ LET p == CHOOSE q \in mig.todo : TRUE
       IN  \/ /\ keyring' = [keyring EXCEPT ![p] = Copied]
              /\ mig' = [mig EXCEPT !.todo = @ \ {p}]
           \/ /\ mig' = [mig EXCEPT !.todo = @ \ {p},
                                    !.plan[p] = [@ EXCEPT !.storage = "skip", !.state = "pending",
                                                          !.entry = make_entry("skip", Nil)]]
              /\ UNCHANGED keyring
    /\ UNCHANGED <<providers, plock, typing, edits, models, mlock, runs, backups, historyVars>>

\* The providers lock again: the document is built from the file as it is now,
\* whose read does not fail here (in the code it would then count as absent).
Relock ==
    /\ mig.pc = "keyring" /\ mig.todo = {}
    /\ plock = NoProc
    /\ plock' = Migrator
    /\ mig' = [mig EXCEPT !.pc = "write", !.doc = providers_doc(mig.plan)]
    /\ UNCHANGED <<providers, keyring, typing, edits, models, mlock, runs, backups, historyVars>>

\* Providers with a key to copy that the plan takes to http.
Moving == {p \in Provider : /\ mig.plan[p].source # Nil /\ mig.plan[p].entry # Nil
                            /\ mig.plan[p].entry.transport = "http"}

WriteProviders ==
    /\ mig.pc = "write"
    /\ providers' = mig.doc
    /\ mig' = [mig EXCEPT !.pc = "plaintext", !.doc = Nil,
                          !.todo = ToStore("plaintext")]
    /\ moved' = (moved \cup Moving) \ touched
    /\ UNCHANGED <<keyring, plock, typing, edits, models, mlock, runs, backups, touched, since, cutoff, settled>>

\* _store_plaintext: a key that cannot be read or stored ends the run.
StoreKey ==
    /\ mig.pc = "plaintext" /\ mig.todo # {}
    /\ LET p == CHOOSE q \in mig.todo : TRUE
       IN  /\ plaintext_store(p, Copied)
           /\ mig' = [mig EXCEPT !.todo = @ \ {p}]
    /\ UNCHANGED <<keyring, plock, typing, edits, models, mlock, runs, backups, historyVars>>

\* Mutant of PlanModels: the models of providers that were done already are
\* not looked at again.
PlanModelsOfNew ==
    /\ mig.pc = "plaintext" /\ mig.todo = {}
    /\ plock' = NoProc
    /\ mig' = [mig EXCEPT !.pc = "save",
                          !.doc = models_doc([p \in Provider |->
                                     IF mig.plan[p].state = "done" THEN [body |-> Nil, context |-> Nil]
                                     ELSE model_fills(mig.plan, p, {})])]
    /\ UNCHANGED <<providers, keyring, typing, edits, models, mlock, runs, backups, historyVars>>

\* The providers lock is dropped; every model is planned anew, and asked for
\* its context, and the registry is built from the file as it is now.
PlanModels ==
    /\ mig.pc = "plaintext" /\ mig.todo = {}
    /\ plock' = NoProc
    /\ \E detected \in SUBSET Provider :
          mig' = [mig EXCEPT !.pc = "save",
                             !.doc = models_doc([p \in Provider |-> model_fills(mig.plan, p, detected)])]
    /\ UNCHANGED <<providers, keyring, typing, edits, models, mlock, runs, backups, historyVars>>

SaveModels ==
    /\ mig.pc = "save"
    /\ models' = mig.doc
    /\ mlock' = NoProc
    /\ mig' = Resting
    /\ settled' = IF touched = {} THEN [p \in Provider |-> mig.plan[p].storage] ELSE Unsettled
    /\ UNCHANGED <<providerVars, runs, backups, touched, since, moved, cutoff>>

\* A lock timed out, a file could not be written, or a signal ended the run.
Stop ==
    /\ mig.pc # "idle"
    /\ mig' = Resting
    /\ mlock' = IF mlock = Migrator THEN NoProc ELSE mlock
    /\ plock' = IF plock = Migrator THEN NoProc ELSE plock
    /\ cutoff' = IF mig.pc = "plaintext" THEN cutoff \cup mig.todo ELSE cutoff
    /\ UNCHANGED <<providers, keyring, typing, edits, models, runs, backups, touched, since, moved, settled>>

MigrateStep ==
    \/ Start \/ PlanProvider \/ ShowPlan \/ LockModels \/ Backup \/ StoreKeyring \/ Relock
    \/ WriteProviders \/ StoreKey \/ PlanModels \/ SaveModels \/ Stop

(***************************************************************************)
(* The user, meanwhile                                                     *)
(***************************************************************************)

\* request-body, set-context: one edit of models.json under its lock.
SetModel(p) ==
    /\ edits < MaxEdits /\ edits' = edits + 1
    /\ mlock = NoProc
    /\ \E field \in {"body", "context"} : models' = [models EXCEPT ![p][field] = "user"]
    /\ UNCHANGED <<providers, keyring, plock, typing>>

\* Whose entry, key or model a command of the user's changed.
Changed ==
    {p \in Provider : \/ providers'[p] # providers[p]
                      \/ keyring'[p] # keyring[p]
                      \/ models'[p] # models[p]}

UserStep ==
    /\ \/ ProviderCommands /\ UNCHANGED models
       \/ \E p \in Provider : SetModel(p)
    /\ touched' = touched \cup Changed
    /\ since' = since \cup Changed
    /\ moved' = moved \ Changed
    /\ settled' = IF Changed = {} THEN settled ELSE Unsettled
    /\ UNCHANGED <<mlock, mig, runs, backups, cutoff>>

Next == MigrateStep \/ UserStep

Spec == MigrateInit /\ [][Next]_vars

(***************************************************************************)
(* Properties                                                              *)
(***************************************************************************)

ProvidersFile == [Provider -> Entry \cup {Nil}]
ModelsFile ==
    [Provider -> [body : {Nil, "user", "effort"}, context : {Nil, "user", "limit", "detected"}]]

Pcs == {"idle", "plan", "lock", "backup", "keyring", "write", "plaintext", "save"}

\* Each variable has its type.
TypeOK ==
    /\ ProvidersTypeOK
    /\ models \in ModelsFile
    /\ {plock, mlock} \subseteq {Migrator, NoProc}
    /\ mig \in [pc : Pcs, todo : SUBSET Provider, plan : [Provider -> PlanItem \cup {Nil}],
               doc : {Nil} \cup ProvidersFile \cup ModelsFile]
    /\ runs \in 0..MaxRuns
    /\ backups \subseteq ProvidersFile
    /\ {touched, since, moved, cutoff} \subseteq SUBSET Provider
    /\ settled \in [Provider -> Storage \cup {"none", "stored", Nil}]

\* A provider that a run switched to http with a key to copy has that key,
\* once the run is past it: whatever failed on the way, and whoever ran next,
\* only a run stopped between the entry and its plaintext key leaves it without.
KeyBeforeHttp ==
    \A p \in moved \ cutoff :
        transport(p) = "http" /\ ~(mig.pc = "plaintext" /\ p \in mig.todo) => Resolves(p)

\* A run never overwrites a key that only providers.json holds: it is in a
\* backup, unless the user stored it after the backup was made.
KeysRecoverable ==
    [][\A p \in Provider :
          /\ mig' # mig /\ providers[p] # Nil
          /\ providers[p].ref = Typed /\ providers'[p].ref # Typed
          => p \in since \/ \E b \in backups : b[p] = providers[p]]_vars

\* What the user chose stays as it is: no run changes a body, a context or a
\* healthcheck that is set, however long ago it made its plan.
ChoicesKept ==
    [][mig' # mig => \A p \in Provider :
          /\ models[p].body # Nil => models'[p].body = models[p].body
          /\ models[p].context # Nil => models'[p].context = models[p].context
          /\ providers[p] # Nil /\ providers[p].healthcheck # Nil
                => providers'[p].healthcheck = providers[p].healthcheck]_vars

\* "Running it again reports nothing to do" (reference.md:384): after a run
\* nobody interfered with, the plan made from the same answers changes
\* nothing, if the providers still do not tell a context.
RerunFindsNothing ==
    settled # Unsettled /\ mig.pc = "idle" =>
        \A plan \in [Provider -> UNION {plan_provider(p, NoPlan) : p \in Provider}] :
            (\A p \in Provider : /\ plan[p] \in plan_provider(p, NoPlan)
                                 /\ plan[p].state \in {"done", "skip"} \/ plan[p].storage = settled[p])
                => ~has_changes(plan, {})
=============================================================================
