---------------------------- MODULE MigrateProofs ----------------------------
(***************************************************************************)
(* Proofs about Migrate and Providers, for any providers, any OpenCode     *)
(* configuration, any providers file to start from and any number of runs  *)
(* and commands of the user.                                               *)
(*                                                                         *)
(* A migration believes for a long time what it read when it planned: that *)
(* a provider is on opencode, that its key is stored.  PlanIsTrue says     *)
(* that this is so of every provider the user left alone, and what the     *)
(* entries make of it once they are written.  What the run reads again     *)
(* under its locks (DocInv) needs no such care.                            *)
(*                                                                         *)
(* Nothing is asked of the file to start from: its entries may be faulty   *)
(* ones.  Only EntriesAreSound asks for sound ones.                        *)
(***************************************************************************)
EXTENDS Migrate, TLAPS

(***************************************************************************)
(* The inductive invariant                                                 *)
(***************************************************************************)

BeforeWrite == {"plan", "lock", "backup", "keyring", "write"}
AfterWrite == {"plaintext", "save"}

\* Each lock is held where the migration needs it, and nowhere else.
LockInv ==
    /\ mig.pc \in {"write", "plaintext"} <=> plock = Migrator
    /\ mig.pc \in {"backup", "keyring", "write", "plaintext", "save"} <=> mlock = Migrator

\* What the planner makes for a provider, and what is left of it when its key
\* could not be stored in the keyring.
ItemOf(p, it) ==
    \/ /\ it.state \in {"done", "skip"} /\ it.storage = "none" /\ it.entry = Nil
       /\ it.state = "skip" => ~OpenCode[p].base_url \/ OpenCode[p].key = "file"
    \/ /\ it.state = "pending" /\ it.storage = "skip"
       /\ it.entry = make_entry("skip", Nil)
    \/ /\ it.state = "new" /\ it.storage \in {"none", "env", "keyring", "plaintext", "stored"}
       /\ it.entry = make_entry(it.storage, it.ref)
       /\ it.storage = "env" => it.ref \in Ref
       /\ it.storage = "keyring" => Backend

\* The plan grows provider by provider, and is whole when it is shown.
PlanInv ==
    /\ \A p \in Provider : mig.plan[p] # Nil => ItemOf(p, mig.plan[p])
    /\ mig.pc = "idle" => mig.plan = NoPlan
    /\ mig.pc # "idle" => \A p \in Provider : mig.plan[p] = Nil => mig.pc = "plan" /\ p \in mig.todo

\* Planning the provider again with its key left behind changes nothing.
Fixed(p) == providers[p] # Nil /\ Merged(providers[p], make_entry("skip", Nil)) = providers[p]

\* What the plan says of a provider is true as long as the user leaves it alone.
TrueOf(p, it) ==
    /\ it.state = "done" => transport(p) = "http"
    /\ it.state = "skip" => transport(p) # "http"
    /\ mig.pc \in BeforeWrite /\ it.state = "new" /\ it.storage = "stored" => AlreadyStored(p)
    /\ mig.pc \in AfterWrite /\ it.state = "new" => transport(p) = "http"
    /\ mig.pc \in AfterWrite /\ it.state = "pending" => transport(p) # "http" /\ Fixed(p)

PlanIsTrue == \A p \in Provider \ touched : mig.plan[p] # Nil => TrueOf(p, mig.plan[p])

\* A key the plan counts on is stored once the run is past it, and until then
\* its place is free.
KeysInv ==
    /\ mig.pc = "keyring" => mig.todo \subseteq ToStore("keyring")
    /\ mig.pc \in {"keyring", "write"} =>
          \A p \in ToStore("keyring") : keyring[p] # Nil \/ (mig.pc = "keyring" /\ p \in mig.todo)
    /\ mig.pc = "plaintext" =>
          /\ mig.todo \subseteq ToStore("plaintext")
          /\ \A p \in mig.todo : /\ providers[p] # Nil
                                 /\ providers[p].type = "plaintext" /\ providers[p].ref = Nil

\* A model's body and context stay, and those the plan has are filled in.
Keeps(doc) ==
    \A p \in Provider : /\ models[p].body # Nil => doc[p].body = models[p].body
                        /\ models[p].context # Nil => doc[p].context = models[p].context

Filled(doc, p) ==
    /\ OpenCode[p].effort => doc[p].body # Nil
    /\ OpenCode[p].limit => doc[p].context # Nil

\* The documents a run is about to write are made from the files as they are.
DocInv ==
    /\ mig.pc = "write" => mig.doc = providers_doc(mig.plan)
    /\ mig.pc = "save" => /\ mig.doc \in ModelsFile
                          /\ Keeps(mig.doc)
                          /\ \A p \in Provider : Lacks(mig.plan, p) => Filled(mig.doc, p)

\* A provider that was moved to http stays there, with its key or on the way
\* to it, and no plan is about it.
MovedInv ==
    \A p \in moved :
        /\ transport(p) = "http"
        /\ Resolves(p) \/ p \in cutoff \/ (mig.pc = "plaintext" /\ p \in mig.todo)
        /\ mig.pc \in BeforeWrite /\ mig.plan[p] # Nil => mig.plan[p].entry = Nil

\* Until the entries are written the backup has what the user did not change.
BackupInv ==
    mig.pc \in {"keyring", "write"} =>
        \A p \in Provider \ since : \E b \in backups : b[p] = providers[p]

\* A provider a whole run is through with, and the storage chosen for it.
AtRest(p, storage) ==
    \/ transport(p) = "http" /\ Filled(models, p)
    \/ /\ transport(p) # "http" /\ storage = "none"
       /\ ~OpenCode[p].base_url \/ OpenCode[p].key = "file"
    \/ transport(p) # "http" /\ storage = "skip" /\ Fixed(p)

SettledInv ==
    settled # Unsettled => mig.pc = "idle" /\ \A p \in Provider : AtRest(p, settled[p])

IInv ==
    /\ TypeOK /\ LockInv /\ PlanInv /\ PlanIsTrue /\ KeysInv
    /\ DocInv /\ MovedInv /\ BackupInv /\ SettledInv

\* The entry of a provider is sound, if there is one; and a step leaves it so.
SoundAt(p) == providers[p] # Nil => KeyInPlace(providers[p])

SoundStays == \A p \in Provider : SoundAt(p) => SoundAt(p)'

(***************************************************************************)
(* What the operators make                                                 *)
(***************************************************************************)

Storages == Storage \cup {"none", "stored"}

\* The fields of an entry the planner makes.
LEMMA MadeEntries ==
    ASSUME NEW storage \in Storages, NEW ref, NEW e, e = make_entry(storage, ref)
    PROVE  /\ e = [transport |-> e.transport, base_url |-> TRUE, type |-> e.type,
                   ref |-> e.ref, healthcheck |-> TRUE]
           /\ e.transport = (IF storage = "skip" THEN "opencode" ELSE "http")
           /\ storage \in {"keyring", "plaintext", "env", "none"} => e.type = storage
           /\ storage = "skip" => e.type = "keyring"
           /\ storage = "stored" => e.type = Nil
           /\ e.ref = (IF storage = "env" THEN ref ELSE Nil)
<1>1. CASE storage \in {"keyring", "plaintext", "env", "none"}
  BY <1>1 DEF make_entry
<1>2. CASE storage = "skip"
  BY <1>2 DEF make_entry
<1>3. CASE storage = "stored"
  BY <1>3 DEF make_entry
<1>. QED
  BY <1>1, <1>2, <1>3 DEF Storages, Storage

\* They are entries of a plan if their variable is one.
LEMMA MadeTypes ==
    ASSUME NEW storage \in Storages, NEW ref, storage = "env" => ref \in Ref
    PROVE  make_entry(storage, ref) \in PlanEntry /\ make_entry(storage, ref) # Nil
<1>1. PICK e : e = make_entry(storage, ref)
  OBVIOUS
<1>2. e.transport \in {"http", "opencode"} /\ e.ref \in Ref \cup {Nil}
  BY <1>1, MadeEntries
<1>3. e.type \in KeyType \cup {Nil}
  BY <1>1, MadeEntries DEF Storages, Storage, KeyType
<1>4. e = [transport |-> e.transport, base_url |-> TRUE, type |-> e.type, ref |-> e.ref, healthcheck |-> TRUE]
  BY <1>1, MadeEntries
<1>5. \A b, h \in BOOLEAN :
        [transport |-> e.transport, base_url |-> b, type |-> e.type,
         ref |-> e.ref, healthcheck |-> h] \in PlanEntry
  BY <1>2, <1>3 DEF PlanEntry
<1>6. e \in PlanEntry
  BY <1>4, <1>5, Zenon
<1>. QED
  BY <1>1, <1>6, MigrateAssumption

\* What a plan says of a provider is well-formed, and true when it is made.
LEMMA PlannedItems ==
    ASSUME NEW p \in Provider, NEW plan, NEW it \in plan_provider(p, plan)
    PROVE  /\ it \in PlanItem /\ it # Nil /\ ItemOf(p, it)
           /\ it.state = "done" <=> transport(p) = "http"
           /\ it.state = "new" /\ it.storage = "stored" => AlreadyStored(p)
<1>1. CASE transport(p) = "http"
  BY <1>1, MigrateAssumption DEF plan_provider, Done, Item, PlanItem, ItemOf
<1>2. CASE /\ transport(p) # "http" /\ it = Skipped
           /\ ~OpenCode[p].base_url \/ "error" \in KeySources(p)
  <2>1. ~OpenCode[p].base_url \/ OpenCode[p].key = "file"
    BY <1>2, MigrateAssumption DEF KeySources
  <2>. QED
    BY <1>2, <2>1, MigrateAssumption DEF Skipped, Item, PlanItem, ItemOf
<1>3. ASSUME transport(p) # "http", NEW source \in KeySources(p) \ {"error"}, NEW choice \in Storage,
             it \in Planned(p, plan, source, choice)
      PROVE  /\ it \in PlanItem /\ it # Nil /\ ItemOf(p, it) /\ it.state # "done"
             /\ it.state = "new" /\ it.storage = "stored" => AlreadyStored(p)
  <2> DEFINE storage == resolve_storage(p, source, choice)
             refs == IF storage # "env" THEN {Nil}
                     ELSE IF source = Nil THEN {OpenCode[p].ref}
                     ELSE default_env_refs(p, plan)
  <2>1. source \in {"literal", "file", "auth.json", Nil}
    BY <1>3 DEF KeySources
  <2>2. /\ OpenCode[p].key \in {"none", "env", "file", "literal"}
        /\ OpenCode[p].key = "env" => OpenCode[p].ref \in Ref
        /\ source = Nil => OpenCode[p].key \in {"none", "env"}
    BY <1>3, MigrateAssumption DEF KeySources
  <2>3. /\ storage \in Storages
        /\ storage = "stored" => AlreadyStored(p)
        /\ storage = "keyring" => Backend
        /\ storage = "skip" => source # Nil
        /\ source = Nil => storage = OpenCode[p].key
    BY <2>2 DEF resolve_storage, Storages, Storage
  <2>4. default_env_refs(p, plan) \subseteq Ref
    BY MigrateAssumption DEF default_env_refs
  <2>5. PICK ref \in refs : it = Item(IF storage = "skip" THEN "pending" ELSE "new", storage, ref, source,
                                      make_entry(storage, ref))
    BY <1>3 DEF Planned
  <2>6. storage = "env" => ref \in Ref
    BY <2>2, <2>3, <2>4, <2>5
  <2>7. storage # "env" => ref = Nil
    BY <2>5
  <2> HIDE DEF storage, refs
  <2>8. make_entry(storage, ref) \in PlanEntry
    BY <2>3, <2>6, MadeTypes
  <2>9. it \in PlanItem
    BY <2>1, <2>3, <2>5, <2>6, <2>7, <2>8 DEF Item, PlanItem, Storages
  <2>. QED
    BY <2>3, <2>5, <2>6, <2>7, <2>9, MigrateAssumption DEF Item, ItemOf, Storages, Storage
<1>. QED
  BY <1>1, <1>2, <1>3 DEF plan_provider

\* What an entry of the plan says of transport and key.
LEMMA PlannedEntries ==
    ASSUME NEW it \in PlanItem, NEW p \in Provider, ItemOf(p, it), it.entry # Nil
    PROVE  /\ it.state \in {"pending", "new"}
           /\ it.state = "pending" => it.storage = "skip" /\ it.entry.type = "keyring"
           /\ it.entry.transport = (IF it.state = "new" THEN "http" ELSE "opencode")
           /\ it.entry.base_url = TRUE
           /\ it.storage = "stored" <=> it.entry.type = Nil
           /\ it.storage \in {"none", "env", "keyring", "plaintext"} => it.entry.type = it.storage
           /\ it.entry.type = "env" => it.entry.ref \in Ref
           /\ it.entry.type # "env" => it.entry.ref = Nil
<1>1. Nil \notin KeyType
  BY ProvidersAssumption
<1>2. CASE it.state = "pending"
  <2>1. it.entry = make_entry("skip", Nil) /\ it.storage = "skip"
    BY <1>2 DEF ItemOf
  <2>. QED
    BY <1>1, <1>2, <2>1 DEF make_entry, KeyType
<1>3. CASE it.state = "new"
  <2>1. /\ it.storage \in {"none", "env", "keyring", "plaintext", "stored"}
        /\ it.entry = make_entry(it.storage, it.ref)
        /\ it.storage = "env" => it.ref \in Ref
    BY <1>3 DEF ItemOf
  <2>2. CASE it.storage \in {"none", "keyring", "plaintext"}
    BY <1>1, <1>3, <2>1, <2>2 DEF make_entry, KeyType
  <2>3. CASE it.storage = "env"
    BY <1>1, <1>3, <2>1, <2>3 DEF make_entry, KeyType
  <2>4. CASE it.storage = "stored"
    <3>1. it.entry = make_entry("stored", it.ref)
      BY <2>1, <2>4
    <3>. QED
      BY <1>1, <1>3, <2>4, <3>1 DEF make_entry, KeyType
  <2>. QED
    BY <2>1, <2>2, <2>3, <2>4
<1>. QED
  BY <1>2, <1>3 DEF ItemOf

\* The fields of an entry that is laid over another.
LEMMA MergedFields ==
    ASSUME NEW e \in PlanEntry, NEW old \in Entry \cup {Nil}, NEW m, m = Merged(old, e),
           e.type # "env" => e.ref = Nil
    PROVE  /\ m \in Entry
           /\ m.transport = e.transport /\ m.base_url = e.base_url
           /\ old = Nil => /\ m.type = (IF e.type = Nil THEN "none" ELSE e.type)
                           /\ m.ref = e.ref /\ m.healthcheck = e.healthcheck
           /\ old # Nil =>
                 /\ m.type = (IF e.type = Nil THEN old.type ELSE e.type)
                 /\ m.ref = (IF e.type = Nil THEN old.ref ELSE e.ref)
                 /\ m.healthcheck = (IF old.healthcheck = Nil THEN e.healthcheck ELSE old.healthcheck)
<1> DEFINE type == IF e.type # Nil THEN e.type ELSE IF old = Nil THEN "none" ELSE old.type
           ref == IF e.type # Nil \/ old = Nil THEN e.ref ELSE old.ref
           healthcheck == IF old = Nil THEN e.healthcheck
                          ELSE IF old.healthcheck = Nil THEN e.healthcheck ELSE old.healthcheck
<1>1. m = [transport |-> e.transport, base_url |-> e.base_url, type |-> type,
           ref |-> ref, healthcheck |-> healthcheck]
  <2>1. CASE old = Nil
    BY <2>1 DEF PlanEntry, Merged
  <2>2. CASE old # Nil
    BY <2>2 DEF PlanEntry, Merged
  <2>. QED
    BY <2>1, <2>2
<1>2. type \in KeyType /\ ref \in Key \cup Ref \cup {Nil} /\ healthcheck \in BOOLEAN \cup {Nil}
  BY DEF PlanEntry, Entry, KeyType
<1>3. e.transport \in {"http", "opencode"} /\ e.base_url \in BOOLEAN
  BY DEF PlanEntry
<1>4. m \in Entry
  BY <1>1, <1>2, <1>3 DEF Entry
<1>. QED
  BY <1>1, <1>4

\* An entry of the plan makes a sound entry of any sound one: http only with
\* its key or with what was stored before, and pending lies over itself unseen.
LEMMA MergedEntries ==
    ASSUME NEW p \in Provider, NEW old \in Entry \cup {Nil},
           NEW it \in PlanItem, ItemOf(p, it), it.entry # Nil,
           NEW m, m = Merged(old, it.entry)
    PROVE  /\ m \in Entry /\ m # Nil
           /\ (old # Nil => KeyInPlace(old)) => KeyInPlace(m)
           /\ m.transport = (IF it.state = "new" THEN "http" ELSE "opencode")
           /\ it.storage # "stored" => m.type = it.entry.type /\ m.ref = it.entry.ref
           /\ it.storage = "stored" /\ old # Nil => m.type = old.type /\ m.ref = old.ref
           /\ old # Nil /\ old.healthcheck # Nil => m.healthcheck = old.healthcheck
<1>1. PICK e : e = it.entry
  OBVIOUS
<1>2. e \in PlanEntry
  BY <1>1 DEF PlanItem
<1>3. /\ e.transport = (IF it.state = "new" THEN "http" ELSE "opencode")
      /\ e.base_url = TRUE
      /\ it.storage = "stored" <=> e.type = Nil
      /\ e.type = "env" => e.ref \in Ref
      /\ e.type # "env" => e.ref = Nil
  BY <1>1, PlannedEntries
<1>4. /\ m \in Entry
      /\ m.transport = e.transport /\ m.base_url = e.base_url
      /\ old = Nil => /\ m.type = (IF e.type = Nil THEN "none" ELSE e.type)
                      /\ m.ref = e.ref /\ m.healthcheck = e.healthcheck
      /\ old # Nil =>
            /\ m.type = (IF e.type = Nil THEN old.type ELSE e.type)
            /\ m.ref = (IF e.type = Nil THEN old.ref ELSE e.ref)
            /\ m.healthcheck = (IF old.healthcheck = Nil THEN e.healthcheck ELSE old.healthcheck)
  BY <1>1, <1>2, <1>3, MergedFields
<1>5. m # Nil
  BY <1>4, ProvidersAssumption
<1>6. ASSUME old # Nil => KeyInPlace(old)
      PROVE  KeyInPlace(m)
  <2>1. CASE e.type # Nil
    <3>1. m.type = e.type /\ m.ref = e.ref
      BY <1>4, <2>1
    <3>2. m.ref \notin Key
      BY <1>3, <3>1, ProvidersAssumption
    <3>. QED
      BY <1>3, <1>4, <3>1, <3>2 DEF KeyInPlace, Sound
  <2>2. CASE e.type = Nil /\ old = Nil
    <3>1. m.type = "none" /\ m.ref = Nil
      BY <1>3, <1>4, <2>2, ProvidersAssumption DEF KeyType
    <3>. QED
      BY <1>3, <1>4, <3>1, ProvidersAssumption DEF KeyInPlace, Sound
  <2>3. CASE e.type = Nil /\ old # Nil
    BY <1>3, <1>4, <1>6, <2>3 DEF KeyInPlace, Sound
  <2>. QED
    BY <2>1, <2>2, <2>3
<1>7. it.storage # "stored" => m.type = e.type /\ m.ref = e.ref
  BY <1>3, <1>4
<1>8. it.storage = "stored" /\ old # Nil => m.type = old.type /\ m.ref = old.ref
  BY <1>3, <1>4
<1>. QED
  BY <1>1, <1>3, <1>4, <1>5, <1>6, <1>7, <1>8

\* The entry of a provider whose key is left behind: planned anew it stays.
LEMMA PendingStays ==
    ASSUME NEW old \in Entry \cup {Nil}, NEW m, m = Merged(old, make_entry("skip", Nil)), m \in Entry
    PROVE  Merged(m, make_entry("skip", Nil)) = m
<1> DEFINE e == make_entry("skip", Nil)
<1>1. e \in PlanEntry
  BY MadeTypes DEF Storages, Storage
<1>2. e.transport = "opencode" /\ e.type = "keyring" /\ e.ref = Nil /\ e.type # Nil
  BY ProvidersAssumption DEF make_entry, KeyType
<1>3. e.healthcheck # Nil
  BY <1>1, ProvidersAssumption DEF PlanEntry
<1>4. m # Nil
  BY ProvidersAssumption
<1>5. PICK n : n = Merged(m, e)
  OBVIOUS
<1> HIDE DEF e
<1>6. /\ m.transport = e.transport /\ m.base_url = e.base_url
      /\ m.type = e.type /\ m.ref = e.ref
      /\ m.healthcheck # Nil
  BY <1>1, <1>2, <1>3, MergedFields DEF e
<1>7. /\ n \in Entry
      /\ n.transport = e.transport /\ n.base_url = e.base_url
      /\ n.type = e.type /\ n.ref = e.ref
      /\ n.healthcheck = m.healthcheck
  BY <1>1, <1>2, <1>3, <1>4, <1>5, <1>6, MergedFields
<1>8. n = m
  BY <1>6, <1>7 DEF Entry
<1>. QED
  BY <1>5, <1>8 DEF e

\* What `provider set` writes is an entry, and its key is where its type says.
LEMMA SetEntries ==
    ASSUME NEW old \in Entry, NEW s \in Setting, NEW e, e = SetEntry(old, s), Sound(e)
    PROVE  e \in Entry /\ e # Nil /\ (KeyInPlace(old) => KeyInPlace(e))
<1>1. PICK key : key = NewKey(old, s)
  OBVIOUS
<1>2. /\ key[1] \in KeyType /\ key[2] \in Key \cup Ref \cup {Nil}
      /\ KeyInPlace(old) /\ key[2] \in Key => key[1] = "plaintext"
  <2>1. CASE s.type = Nil
    BY <1>1, <2>1, ProvidersAssumption DEF NewKey, Entry, KeyInPlace, KeyType
  <2>2. CASE s.type = "env"
    BY <1>1, <2>2, ProvidersAssumption DEF NewKey, Setting, KeyType
  <2>3. CASE s.type = "plaintext" /\ old.type = "plaintext"
    BY <1>1, <2>3, ProvidersAssumption DEF NewKey, Entry, KeyType
  <2>4. CASE s.type # Nil /\ s.type # "env" /\ ~(s.type = "plaintext" /\ old.type = "plaintext")
    BY <1>1, <2>4, ProvidersAssumption DEF NewKey, Setting
  <2>. QED
    BY <2>1, <2>2, <2>3, <2>4
<1>3. PICK tr, hc : /\ tr = (IF s.transport = Nil THEN old.transport ELSE s.transport)
                    /\ hc = (IF s.healthcheck = Nil THEN old.healthcheck ELSE s.healthcheck)
  OBVIOUS
<1>4. tr \in {"http", "opencode"} /\ hc \in BOOLEAN \cup {Nil}
  BY <1>3 DEF Entry, Setting
<1>5. PICK b \in BOOLEAN : b = (s.base_url \/ old.base_url)
  OBVIOUS
<1>6. e = [transport |-> tr, base_url |-> b, type |-> key[1], ref |-> key[2], healthcheck |-> hc]
  BY <1>1, <1>3, <1>5, Zenon DEF SetEntry
<1>7. e \in Entry
  BY <1>2, <1>4, <1>5, <1>6 DEF Entry
<1>8. e.type = key[1] /\ e.ref = key[2]
  BY <1>6
<1>. QED
  BY <1>2, <1>7, <1>8, ProvidersAssumption DEF KeyInPlace

\* A key that is stored in its entry leaves a sound entry sound.
LEMMA StoredKeys ==
    ASSUME TypeOK, NEW p \in Provider, NEW key \in Key, plaintext_store(p, key)
    PROVE  /\ providers' \in ProvidersFile
           /\ SoundStays
           /\ \A q \in Provider \ {p} : providers'[q] = providers[q]
           /\ providers[p] # Nil /\ providers'[p] # Nil
           /\ providers[p].type = "plaintext"
           /\ providers'[p] = [providers[p] EXCEPT !.ref = key]
<1>1. providers \in ProvidersFile
  BY DEF TypeOK, ProvidersTypeOK, ProvidersFile
<1>2. providers[p] # Nil /\ providers[p].type = "plaintext" /\ providers[p] \in Entry
  BY <1>1 DEF plaintext_store, key_type, ProvidersFile
<1>3. PICK new : new = [providers[p] EXCEPT !.ref = key]
  OBVIOUS
<1>4. new \in Entry /\ new # Nil
  BY <1>2, <1>3, ProvidersAssumption DEF Entry
<1>5. providers' = [providers EXCEPT ![p] = new]
  BY <1>1, <1>2, <1>3 DEF plaintext_store, ProvidersFile
<1>6. KeyInPlace(providers[p]) => KeyInPlace(new)
  BY <1>2, <1>3 DEF KeyInPlace, Sound, Entry
<1>7. providers' \in ProvidersFile /\ providers'[p] = new /\ \A q \in Provider \ {p} : providers'[q] = providers[q]
  BY <1>1, <1>4, <1>5 DEF ProvidersFile
<1>8. SoundStays
  BY <1>2, <1>6, <1>7 DEF SoundStays, SoundAt
<1>. QED
  BY <1>2, <1>3, <1>4, <1>7, <1>8

\* What the user may do while a migration runs, or none does.
LEMMA UserFacts ==
    ASSUME TypeOK, UserStep
    PROVE  /\ providers' \in ProvidersFile /\ SoundStays
           /\ keyring' \in [Provider -> Key \cup {Nil}]
           /\ typing' \in [Provider -> {"keyring", "plaintext", Nil}]
           /\ edits' \in 0..MaxEdits
           /\ models' \in ModelsFile
           /\ UNCHANGED plock
           /\ plock = Migrator => providers' = providers
           /\ mlock = Migrator => models' = models
           /\ \A p \in Provider : keyring[p] # Nil => keyring'[p] # Nil
<1>1. /\ providers \in ProvidersFile
      /\ keyring \in [Provider -> Key \cup {Nil}]
      /\ typing \in [Provider -> {"keyring", "plaintext", Nil}]
      /\ edits \in 0..MaxEdits
      /\ models \in ModelsFile
  BY DEF TypeOK, ProvidersTypeOK, ProvidersFile
<1>2. NoProc # Migrator /\ Nil \notin Key /\ Typed \in Key
  BY MigrateAssumption, ProvidersAssumption DEF Key
<1>3. ASSUME edits < MaxEdits, edits' = edits + 1
      PROVE  edits' \in 0..MaxEdits
  BY <1>1, <1>3, ProvidersAssumption
<1>4. ASSUME NEW s \in Settings, set_provider(s), UNCHANGED models
      PROVE  /\ providers' \in ProvidersFile /\ SoundStays /\ edits' \in 0..MaxEdits
             /\ plock = NoProc /\ UNCHANGED <<keyring, plock, typing, models>>
  <2> DEFINE p == s.name
             old == IF providers[p] = Nil THEN NewProvider ELSE providers[p]
  <2>1. s \in Setting /\ p \in Provider
    BY <1>4, ProvidersAssumption DEF Setting
  <2>2. NewProvider \in Entry /\ KeyInPlace(NewProvider)
    BY ProvidersAssumption DEF NewProvider, Entry, KeyInPlace, Sound, KeyType
  <2>3. old \in Entry /\ (SoundAt(p) => KeyInPlace(old))
    BY <1>1, <2>1, <2>2 DEF SoundAt, ProvidersFile
  <2>4. PICK e : e = SetEntry(old, s)
    OBVIOUS
  <2>5. Sound(e) /\ providers' = [providers EXCEPT ![p] = e]
    BY <1>4, <2>4 DEF set_provider
  <2> HIDE DEF old
  <2>6. e \in Entry /\ (SoundAt(p) => KeyInPlace(e))
    BY <2>1, <2>3, <2>4, <2>5, SetEntries
  <2>7. providers' \in ProvidersFile
    BY <1>1, <2>5, <2>6 DEF ProvidersFile
  <2>8. SoundStays
    BY <1>1, <2>1, <2>5, <2>6 DEF SoundStays, SoundAt, ProvidersFile
  <2>. QED
    BY <1>3, <1>4, <2>7, <2>8 DEF set_provider
<1>5. ASSUME NEW p \in Provider, AskKey(p) \/ CloseWindow(p) \/ GiveUpKey(p), UNCHANGED models
      PROVE  /\ typing' \in [Provider -> {"keyring", "plaintext", Nil}] /\ edits' \in 0..MaxEdits
             /\ UNCHANGED <<providers, keyring, plock, models>>
  BY <1>1, <1>3, <1>5 DEF AskKey, CloseWindow, GiveUpKey, Settable
<1>6. ASSUME NEW p \in Provider, StoreInKeyring(p), UNCHANGED models
      PROVE  /\ keyring' \in [Provider -> Key \cup {Nil}]
             /\ \A q \in Provider : keyring[q] # Nil => keyring'[q] # Nil
             /\ typing' \in [Provider -> {"keyring", "plaintext", Nil}]
             /\ UNCHANGED <<providers, plock, edits, models>>
  BY <1>1, <1>2, <1>6 DEF StoreInKeyring
<1>7. ASSUME NEW p \in Provider, StorePlaintext(p), UNCHANGED models
      PROVE  /\ providers' \in ProvidersFile /\ SoundStays /\ plock = NoProc
             /\ typing' \in [Provider -> {"keyring", "plaintext", Nil}]
             /\ UNCHANGED <<keyring, plock, edits, models>>
  BY <1>1, <1>2, <1>7, StoredKeys DEF StorePlaintext
<1>8. ASSUME NEW p \in Provider, SetModel(p)
      PROVE  /\ models' \in ModelsFile /\ mlock = NoProc /\ edits' \in 0..MaxEdits
             /\ UNCHANGED <<providers, keyring, plock, typing>>
  <2>1. PICK field \in {"body", "context"} : models' = [models EXCEPT ![p][field] = "user"]
    BY <1>8 DEF SetModel
  <2>2. models' \in ModelsFile
    BY <1>1, <2>1 DEF ModelsFile
  <2>. QED
    BY <1>3, <1>8, <2>2 DEF SetModel
<1>9. UNCHANGED providers => SoundStays
  BY DEF SoundStays, SoundAt
<1>10. CASE \E p \in Provider : SetModel(p)
  BY <1>1, <1>2, <1>8, <1>9, <1>10
<1>11. CASE ProviderCommands /\ UNCHANGED models
  <2>1. CASE \E s \in Settings : set_provider(s)
    BY <1>1, <1>2, <1>4, <1>11, <2>1
  <2>2. CASE \E p \in Provider : AskKey(p) \/ CloseWindow(p) \/ GiveUpKey(p)
    BY <1>1, <1>2, <1>5, <1>9, <1>11, <2>2
  <2>3. CASE \E p \in Provider : StoreInKeyring(p)
    BY <1>1, <1>2, <1>6, <1>9, <1>11, <2>3
  <2>4. CASE \E p \in Provider : StorePlaintext(p)
    BY <1>1, <1>2, <1>7, <1>11, <2>4
  <2>. QED
    BY <1>11, <2>1, <2>2, <2>3, <2>4 DEF ProviderCommands
<1>. QED
  BY <1>10, <1>11 DEF UserStep

(***************************************************************************)
(* Steps that leave a provider alone                                       *)
(***************************************************************************)

\* What is said of a provider rests on its entry and its key.
LEMMA SameProvider ==
    ASSUME NEW p \in Provider, providers'[p] = providers[p]
    PROVE  /\ transport(p)' = transport(p) /\ key_type(p)' = key_type(p)
           /\ Fixed(p)' <=> Fixed(p)
           /\ keyring'[p] = keyring[p] => /\ Resolves(p)' <=> Resolves(p)
                                          /\ AlreadyStored(p)' <=> AlreadyStored(p)
<1>1. transport(p)' = transport(p) /\ key_type(p)' = key_type(p)
  BY DEF transport, key_type
<1>2. Fixed(p)' <=> Fixed(p)
  BY DEF Fixed, Merged, make_entry
<1>3. keyring'[p] = keyring[p] => (Resolves(p)' <=> Resolves(p))
  BY <1>1 DEF Resolves
<1>. QED
  BY <1>1, <1>2, <1>3 DEF AlreadyStored

\* A stored key is one that is stored under a new key too.
LEMMA StoredStays ==
    ASSUME NEW p \in Provider, providers'[p] = providers[p], keyring[p] # Nil => keyring'[p] # Nil
    PROVE  /\ Resolves(p) => Resolves(p)'
           /\ AlreadyStored(p) => AlreadyStored(p)'
<1>1. key_type(p)' = key_type(p)
  BY SameProvider
<1>2. Resolves(p) => Resolves(p)'
  BY <1>1 DEF Resolves
<1>. QED
  BY <1>1, <1>2 DEF AlreadyStored

\* The plan stays true of the providers nobody touches.
LEMMA SamePlanIsTrue ==
    ASSUME PlanIsTrue, mig'.plan = mig.plan,
           mig'.pc \in BeforeWrite => mig.pc \in BeforeWrite,
           mig'.pc \in AfterWrite => mig.pc \in AfterWrite,
           \A p \in Provider \ touched' : /\ p \notin touched /\ providers'[p] = providers[p]
                                          /\ keyring[p] # Nil => keyring'[p] # Nil
    PROVE  PlanIsTrue'
<1> SUFFICES ASSUME NEW p \in Provider \ touched', mig.plan[p] # Nil
             PROVE  TrueOf(p, mig.plan[p])'
  BY DEF PlanIsTrue
<1>1. TrueOf(p, mig.plan[p])
  BY DEF PlanIsTrue
<1>2. transport(p)' = transport(p) /\ (Fixed(p)' <=> Fixed(p)) /\ (AlreadyStored(p) => AlreadyStored(p)')
  BY SameProvider, StoredStays
<1>. QED
  BY <1>1, <1>2 DEF TrueOf

\* The moved providers stay where they are if nobody touches them.
LEMMA SameMoved ==
    ASSUME MovedInv, cutoff \subseteq cutoff',
           mig'.pc \in BeforeWrite => mig.pc \in BeforeWrite /\ mig'.plan = mig.plan,
           \A p \in moved' : /\ p \in moved /\ p \in Provider /\ providers'[p] = providers[p]
                             /\ keyring[p] # Nil => keyring'[p] # Nil
                             /\ mig.pc = "plaintext" /\ p \in mig.todo
                                   => p \in cutoff' \/ (mig'.pc = "plaintext" /\ p \in mig'.todo)
    PROVE  MovedInv'
<1> SUFFICES ASSUME NEW p \in moved'
             PROVE  /\ transport(p)' = "http"
                    /\ Resolves(p)' \/ p \in cutoff' \/ (mig'.pc = "plaintext" /\ p \in mig'.todo)
                    /\ mig'.pc \in BeforeWrite /\ mig'.plan[p] # Nil => mig'.plan[p].entry = Nil
  BY DEF MovedInv
<1>1. transport(p)' = transport(p) /\ (Resolves(p) => Resolves(p)')
  BY SameProvider, StoredStays
<1>. QED
  BY <1>1 DEF MovedInv

\* A run that ends leaves nothing to say of its plan.
LEMMA RestFacts ==
    ASSUME mig' = Resting
    PROVE  PlanInv' /\ PlanIsTrue' /\ KeysInv' /\ DocInv' /\ BackupInv'
<1>1. mig'.pc = "idle" /\ mig'.plan = NoPlan /\ \A p \in Provider : mig'.plan[p] = Nil
  BY DEF Resting, NoPlan
<1>2. PlanInv'
  BY <1>1 DEF PlanInv
<1>3. PlanIsTrue'
  BY <1>1 DEF PlanIsTrue
<1>4. KeysInv'
  BY <1>1 DEF KeysInv
<1>5. DocInv'
  BY <1>1 DEF DocInv
<1>6. BackupInv'
  BY <1>1 DEF BackupInv
<1>. QED
  BY <1>2, <1>3, <1>4, <1>5, <1>6

\* While a run is on nothing is settled.
LEMMA Unrested ==
    ASSUME SettledInv, mig.pc # "idle", settled' = settled
    PROVE  SettledInv'
  BY DEF SettledInv, Unsettled

(***************************************************************************)
(* The plan                                                                *)
(***************************************************************************)

\* A run begins with an empty plan.
LEMMA StartKeeps ==
    ASSUME IInv, Start
    PROVE  IInv'
<1> USE DEF IInv
<1>1. mig' = [pc |-> "plan", todo |-> Provider, plan |-> NoPlan, doc |-> Nil]
  BY DEF Start, Resting
<1>2. UNCHANGED <<providers, keyring, plock, typing, edits, models, mlock, backups, since, moved, cutoff>>
  BY DEF Start, providerVars
<1>3. \A p \in Provider : mig'.plan[p] = Nil
  BY <1>1 DEF NoPlan
<1>4. TypeOK'
  <2>1. NoPlan \in [Provider -> PlanItem \cup {Nil}]
    BY DEF NoPlan
  <2>2. runs' \in 0..MaxRuns
    BY MigrateAssumption DEF Start, TypeOK
  <2>3. mig' \in [pc : Pcs, todo : SUBSET Provider, plan : [Provider -> PlanItem \cup {Nil}],
                  doc : {Nil} \cup ProvidersFile \cup ModelsFile]
    BY <1>1, <2>1 DEF Pcs
  <2>4. touched' = {} /\ settled' \in [Provider -> Storage \cup {"none", "stored", Nil}]
    BY DEF Start, Unsettled
  <2>. QED
    BY <1>2, <2>2, <2>3, <2>4 DEF TypeOK, ProvidersTypeOK
<1>5. LockInv'
  BY <1>1, <1>2 DEF LockInv, Start
<1>6. PlanInv' /\ PlanIsTrue'
  BY <1>1, <1>3 DEF PlanInv, PlanIsTrue
<1>7. KeysInv' /\ DocInv' /\ BackupInv'
  BY <1>1 DEF KeysInv, DocInv, BackupInv
<1>8. MovedInv'
  <2>. SUFFICES ASSUME NEW p \in moved
                PROVE  /\ transport(p)' = "http" /\ (Resolves(p)' \/ p \in cutoff')
                       /\ p \in Provider
    BY <1>1, <1>2, <1>3 DEF MovedInv
  <2>1. p \in Provider /\ mig.pc = "idle"
    BY DEF TypeOK, Start
  <2>. QED
    BY <1>2, <2>1, SameProvider DEF MovedInv
<1>9. SettledInv'
  BY DEF SettledInv, Start, Unsettled
<1>. QED
  BY <1>4, <1>5, <1>6, <1>7, <1>8, <1>9

\* The item of a provider is true of it when it is made.
LEMMA PlanProviderKeeps ==
    ASSUME IInv, PlanProvider
    PROVE  IInv'
<1> USE DEF IInv
<1>0. PICK p \in mig.todo : \E it \in plan_provider(p, mig.plan) :
           mig' = [mig EXCEPT !.todo = @ \ {p}, !.plan[p] = it]
  BY DEF PlanProvider
<1>1. PICK it \in plan_provider(p, mig.plan) : mig' = [mig EXCEPT !.todo = @ \ {p}, !.plan[p] = it]
  BY <1>0
<1>2. /\ UNCHANGED <<providers, keyring, plock, typing, edits, models, mlock, runs, backups>>
      /\ UNCHANGED <<touched, since, moved, cutoff, settled>>
      /\ mig.pc = "plan"
  BY DEF PlanProvider, providerVars, historyVars
<1>3. p \in Provider
  BY DEF TypeOK
<1>4. /\ it \in PlanItem /\ it # Nil /\ ItemOf(p, it)
      /\ it.state = "done" <=> transport(p) = "http"
      /\ it.state = "new" /\ it.storage = "stored" => AlreadyStored(p)
  BY <1>3, PlannedItems
<1>5. /\ mig'.pc = "plan" /\ mig'.todo = mig.todo \ {p} /\ mig'.doc = mig.doc
      /\ mig'.plan[p] = it /\ \A q \in Provider \ {p} : mig'.plan[q] = mig.plan[q]
  BY <1>1, <1>2, <1>3 DEF TypeOK
<1>6. TypeOK'
  <2>1. mig' \in [pc : Pcs, todo : SUBSET Provider, plan : [Provider -> PlanItem \cup {Nil}],
                  doc : {Nil} \cup ProvidersFile \cup ModelsFile]
    BY <1>1, <1>3, <1>4 DEF TypeOK
  <2>. QED
    BY <1>2, <2>1 DEF TypeOK, ProvidersTypeOK
<1>7. LockInv'
  BY <1>2, <1>5 DEF LockInv
<1>8. PlanInv'
  BY <1>2, <1>3, <1>4, <1>5 DEF PlanInv, ItemOf
<1>9. PlanIsTrue'
  <2>. SUFFICES ASSUME NEW q \in Provider \ touched, mig'.plan[q] # Nil
                PROVE  TrueOf(q, mig.plan[q])'
    BY <1>2 DEF PlanIsTrue
  <2>1. /\ transport(q)' = transport(q) /\ (AlreadyStored(q)' <=> AlreadyStored(q))
        /\ mig'.pc \in BeforeWrite /\ mig'.pc \notin AfterWrite
    BY <1>2, <1>5, SameProvider DEF BeforeWrite, AfterWrite
  <2>2. CASE q = p
    BY <1>4, <1>5, <2>1, <2>2 DEF TrueOf
  <2>3. CASE q # p
    BY <1>2, <1>5, <2>1, <2>3 DEF TrueOf, PlanIsTrue, BeforeWrite
  <2>. QED
    BY <2>2, <2>3
<1>10. KeysInv' /\ DocInv' /\ BackupInv'
  BY <1>5 DEF KeysInv, DocInv, BackupInv
<1>11. MovedInv'
  <2>. SUFFICES ASSUME NEW q \in moved
                PROVE  /\ transport(q)' = "http" /\ (Resolves(q)' \/ q \in cutoff')
                       /\ mig'.plan[q] # Nil => mig'.plan[q].entry = Nil
    BY <1>2 DEF MovedInv
  <2>1. q \in Provider
    BY DEF TypeOK
  <2>2. transport(q) = "http" /\ (Resolves(q) \/ q \in cutoff)
    BY <1>2 DEF MovedInv
  <2>3. mig'.plan[q] # Nil => mig'.plan[q].entry = Nil
    BY <1>2, <1>4, <1>5, <2>1, <2>2 DEF MovedInv, BeforeWrite, ItemOf
  <2>. QED
    BY <1>2, <2>1, <2>2, <2>3, SameProvider
<1>12. SettledInv'
  BY <1>2, Unrested
<1>. QED
  BY <1>6, <1>7, <1>8, <1>9, <1>10, <1>11, <1>12

\* A run that ends without a write leaves everything true.
LEMMA EndKeeps ==
    ASSUME IInv, mig.pc # "idle", mig' = Resting,
           UNCHANGED <<providers, keyring, typing, edits, models, runs, backups>>,
           UNCHANGED <<touched, since, moved, settled>>,
           mlock' = (IF mlock = Migrator THEN NoProc ELSE mlock),
           plock' = (IF plock = Migrator THEN NoProc ELSE plock),
           cutoff' = (IF mig.pc = "plaintext" THEN cutoff \cup mig.todo ELSE cutoff)
    PROVE  IInv'
<1> USE DEF IInv
<1>1. mig' = [pc |-> "idle", todo |-> {}, plan |-> NoPlan, doc |-> Nil]
  BY DEF Resting
<1>2. TypeOK'
  <2>1. NoPlan \in [Provider -> PlanItem \cup {Nil}]
    BY DEF NoPlan
  <2>2. mig' \in [pc : Pcs, todo : SUBSET Provider, plan : [Provider -> PlanItem \cup {Nil}],
                  doc : {Nil} \cup ProvidersFile \cup ModelsFile]
    BY <1>1, <2>1 DEF Pcs
  <2>3. cutoff' \subseteq Provider /\ plock' \in {Migrator, NoProc} /\ mlock' \in {Migrator, NoProc}
    BY DEF TypeOK
  <2>. QED
    BY <2>2, <2>3 DEF TypeOK, ProvidersTypeOK
<1>3. LockInv'
  BY <1>1, MigrateAssumption DEF LockInv
<1>4. MovedInv'
  <2>1. moved \subseteq Provider
    BY DEF TypeOK
  <2>. QED
    BY <1>1, <2>1, SameMoved DEF BeforeWrite
<1>. QED
  BY <1>2, <1>3, <1>4, RestFacts, Unrested

\* The plan is shown, and the user goes on or not.
LEMMA ShowPlanKeeps ==
    ASSUME IInv, ShowPlan
    PROVE  IInv'
<1> USE DEF IInv
<1>1. /\ UNCHANGED <<providers, keyring, plock, typing, edits, models, mlock, runs, backups>>
      /\ UNCHANGED <<touched, since, moved, cutoff, settled>>
      /\ mig.pc = "plan" /\ mig.todo = {}
  BY DEF ShowPlan, providerVars, historyVars
<1>2. plock # Migrator /\ mlock # Migrator
  BY <1>1 DEF LockInv
<1>3. CASE mig' = Resting
  BY <1>1, <1>2, <1>3, EndKeeps
<1>4. CASE mig' = [mig EXCEPT !.pc = "lock"]
  <2>1. mig'.pc = "lock" /\ mig'.plan = mig.plan /\ mig'.todo = mig.todo /\ mig'.doc = mig.doc
    BY <1>4 DEF TypeOK
  <2>2. TypeOK'
    <3>1. mig' \in [pc : Pcs, todo : SUBSET Provider, plan : [Provider -> PlanItem \cup {Nil}],
                    doc : {Nil} \cup ProvidersFile \cup ModelsFile]
      BY <1>4 DEF TypeOK, Pcs
    <3>. QED
      BY <1>1, <3>1 DEF TypeOK, ProvidersTypeOK
  <2>3. LockInv' /\ PlanInv' /\ KeysInv' /\ DocInv' /\ BackupInv'
    BY <1>1, <1>2, <2>1 DEF LockInv, PlanInv, KeysInv, DocInv, BackupInv, ItemOf
  <2>4. PlanIsTrue'
    BY <1>1, <2>1, SamePlanIsTrue DEF BeforeWrite, AfterWrite
  <2>5. MovedInv'
    <3>1. moved \subseteq Provider
      BY DEF TypeOK
    <3>. QED
      BY <1>1, <2>1, <3>1, SameMoved DEF BeforeWrite
  <2>. QED
    BY <1>1, <2>2, <2>3, <2>4, <2>5, Unrested
<1>. QED
  BY <1>3, <1>4 DEF ShowPlan

\* An item that is new has an entry.
LEMMA NewHasEntry ==
    ASSUME NEW p \in Provider, NEW it, ItemOf(p, it), it.state \in {"new", "pending"}
    PROVE  it.entry # Nil
<1>1. CASE it.state = "pending"
  <2>1. it.entry = make_entry("skip", Nil)
    BY <1>1 DEF ItemOf
  <2>. QED
    BY <2>1, MadeTypes DEF Storages, Storage
<1>2. CASE it.state = "new"
  <2>1. /\ it.storage \in {"none", "env", "keyring", "plaintext", "stored"}
        /\ it.entry = make_entry(it.storage, it.ref)
        /\ it.storage = "env" => it.ref \in Ref
    BY <1>2 DEF ItemOf
  <2>. QED
    BY <2>1, MadeTypes DEF Storages, Storage
<1>. QED
  BY <1>1, <1>2

\* The document a run is about to write is a providers file without faults.
LEMMA DocSound ==
    ASSUME TypeOK, PlanInv
    PROVE  /\ providers_doc(mig.plan) \in ProvidersFile
           /\ \A p \in Provider :
                 SoundAt(p) /\ providers_doc(mig.plan)[p] # Nil => KeyInPlace(providers_doc(mig.plan)[p])
<1> DEFINE doc == providers_doc(mig.plan)
<1>1. providers \in ProvidersFile /\ mig.plan \in [Provider -> PlanItem \cup {Nil}]
  BY DEF TypeOK, ProvidersTypeOK, ProvidersFile
<1>2. ASSUME NEW p \in Provider
      PROVE  doc[p] \in Entry \cup {Nil} /\ (SoundAt(p) /\ doc[p] # Nil => KeyInPlace(doc[p]))
  <2>1. providers[p] \in Entry \cup {Nil} /\ (SoundAt(p) => (providers[p] # Nil => KeyInPlace(providers[p])))
    BY <1>1 DEF SoundAt, ProvidersFile
  <2>2. CASE mig.plan[p] = Nil \/ mig.plan[p].entry = Nil
    BY <2>1, <2>2 DEF providers_doc
  <2>3. CASE mig.plan[p] # Nil /\ mig.plan[p].entry # Nil
    <3>1. doc[p] = Merged(providers[p], mig.plan[p].entry)
      BY <2>3 DEF providers_doc
    <3>2. mig.plan[p] \in PlanItem /\ ItemOf(p, mig.plan[p])
      BY <1>1, <2>3 DEF PlanInv
    <3> HIDE DEF doc
    <3>. QED
      BY <2>1, <2>3, <3>1, <3>2, MergedEntries
  <2>. QED
    BY <2>2, <2>3
<1>3. doc = [p \in Provider |-> doc[p]]
  BY DEF providers_doc
<1> HIDE DEF doc
<1>4. doc \in ProvidersFile
  BY <1>2, <1>3 DEF ProvidersFile
<1>. QED
  BY <1>2, <1>4 DEF doc

(***************************************************************************)
(* Up to the write                                                         *)
(***************************************************************************)

\* The models lock is taken.
LEMMA LockModelsKeeps ==
    ASSUME IInv, LockModels
    PROVE  IInv'
<1> USE DEF IInv
<1>1. /\ UNCHANGED <<providers, keyring, plock, typing, edits, models, runs, backups>>
      /\ UNCHANGED <<touched, since, moved, cutoff, settled>>
      /\ mig.pc = "lock" /\ mlock' = Migrator
      /\ mig' = [mig EXCEPT !.pc = "backup"]
  BY DEF LockModels, providerVars, historyVars
<1>2. mig'.pc = "backup" /\ mig'.plan = mig.plan /\ mig'.todo = mig.todo /\ mig'.doc = mig.doc
  BY <1>1 DEF TypeOK
<1>3. TypeOK'
  <2>1. mig' \in [pc : Pcs, todo : SUBSET Provider, plan : [Provider -> PlanItem \cup {Nil}],
                  doc : {Nil} \cup ProvidersFile \cup ModelsFile]
    BY <1>1 DEF TypeOK, Pcs
  <2>. QED
    BY <1>1, <2>1 DEF TypeOK, ProvidersTypeOK
<1>4. LockInv' /\ PlanInv' /\ KeysInv' /\ DocInv' /\ BackupInv'
  BY <1>1, <1>2 DEF LockInv, PlanInv, KeysInv, DocInv, BackupInv, ItemOf
<1>5. PlanIsTrue'
  BY <1>1, <1>2, SamePlanIsTrue DEF BeforeWrite, AfterWrite
<1>6. MovedInv'
  <2>1. moved \subseteq Provider
    BY DEF TypeOK
  <2>. QED
    BY <1>1, <1>2, <2>1, SameMoved DEF BeforeWrite
<1>. QED
  BY <1>1, <1>3, <1>4, <1>5, <1>6, Unrested

\* The backup has every entry.
LEMMA BackupKeeps ==
    ASSUME IInv, Backup
    PROVE  IInv'
<1> USE DEF IInv
<1>1. /\ UNCHANGED <<providers, keyring, plock, typing, edits, models, mlock, runs>>
      /\ UNCHANGED <<touched, moved, cutoff, settled>>
      /\ mig.pc = "backup" /\ since' = {} /\ backups' = backups \cup {providers}
      /\ mig' = [mig EXCEPT !.pc = "keyring", !.todo = ToStore("keyring")]
  BY DEF Backup, providerVars
<1>2. /\ mig'.pc = "keyring" /\ mig'.plan = mig.plan /\ mig'.todo = ToStore("keyring") /\ mig'.doc = mig.doc
      /\ ToStore("keyring")' = ToStore("keyring")
  BY <1>1 DEF TypeOK, ToStore
<1>3. TypeOK'
  <2>1. ToStore("keyring") \subseteq Provider
    BY DEF ToStore
  <2>2. mig' \in [pc : Pcs, todo : SUBSET Provider, plan : [Provider -> PlanItem \cup {Nil}],
                  doc : {Nil} \cup ProvidersFile \cup ModelsFile]
    BY <1>1, <2>1 DEF TypeOK, Pcs
  <2>3. backups' \subseteq ProvidersFile
    BY <1>1 DEF TypeOK, ProvidersTypeOK, ProvidersFile
  <2>. QED
    BY <1>1, <2>2, <2>3 DEF TypeOK, ProvidersTypeOK
<1>4. LockInv' /\ PlanInv' /\ DocInv'
  BY <1>1, <1>2 DEF LockInv, PlanInv, DocInv, ItemOf
<1>5. KeysInv'
  BY <1>2 DEF KeysInv
<1>6. PlanIsTrue'
  BY <1>1, <1>2, SamePlanIsTrue DEF BeforeWrite, AfterWrite
<1>7. MovedInv'
  <2>1. moved \subseteq Provider
    BY DEF TypeOK
  <2>. QED
    BY <1>1, <1>2, <2>1, SameMoved DEF BeforeWrite
<1>8. BackupInv'
  BY <1>1 DEF BackupInv
<1>. QED
  BY <1>1, <1>3, <1>4, <1>5, <1>6, <1>7, <1>8, Unrested

\* A key is in the keyring, or its provider is pending.
LEMMA StoreKeyringKeeps ==
    ASSUME IInv, StoreKeyring
    PROVE  IInv'
<1> USE DEF IInv
<1> DEFINE left(p) == [mig.plan[p] EXCEPT !.storage = "skip", !.state = "pending",
                                          !.entry = make_entry("skip", Nil)]
<1>1. PICK p \in mig.todo :
        \/ /\ keyring' = [keyring EXCEPT ![p] = Copied]
           /\ mig' = [mig EXCEPT !.todo = @ \ {p}]
        \/ /\ mig' = [mig EXCEPT !.todo = @ \ {p}, !.plan[p] = left(p)]
           /\ UNCHANGED keyring
  BY DEF StoreKeyring
<1>2. /\ UNCHANGED <<providers, plock, typing, edits, models, mlock, runs, backups>>
      /\ UNCHANGED <<touched, since, moved, cutoff, settled>>
      /\ mig.pc = "keyring"
  BY DEF StoreKeyring, historyVars
<1>3. /\ p \in Provider /\ p \in ToStore("keyring") /\ mig.todo \subseteq ToStore("keyring")
      /\ mig.plan \in [Provider -> PlanItem \cup {Nil}] /\ keyring \in [Provider -> Key \cup {Nil}]
  BY <1>2 DEF TypeOK, ProvidersTypeOK, KeysInv
<1>4. Copied # Nil /\ Copied \in Key
  BY ProvidersAssumption DEF Key
<1>5. /\ mig.plan[p] # Nil /\ mig.plan[p] \in PlanItem /\ ItemOf(p, mig.plan[p])
      /\ mig.plan[p].state = "new" /\ mig.plan[p].storage = "keyring" /\ mig.plan[p].entry # Nil
  <2>1. mig.plan[p] # Nil
    BY <1>2, <1>3 DEF PlanInv
  <2>2. ItemOf(p, mig.plan[p]) /\ mig.plan[p].state = "new" /\ mig.plan[p].storage = "keyring"
    BY <1>3, <2>1 DEF PlanInv, ToStore
  <2>. QED
    BY <1>3, <2>1, <2>2, NewHasEntry
<1>6. PICK it : it = left(p)
  OBVIOUS
<1> HIDE DEF left
<1>7. /\ it \in PlanItem /\ it # Nil /\ ItemOf(p, it)
      /\ it.state = "pending" /\ it.storage = "skip"
  <2>1. make_entry("skip", Nil) \in PlanEntry
    BY MadeTypes DEF Storages, Storage
  <2>2. it \in PlanItem
    BY <1>5, <1>6, <2>1 DEF PlanItem, Storage, left
  <2>3. it.state = "pending" /\ it.storage = "skip" /\ it.entry = make_entry("skip", Nil)
    BY <1>5, <1>6 DEF PlanItem, left
  <2>. QED
    BY <2>2, <2>3, MigrateAssumption DEF ItemOf
<1>8. /\ mig'.pc = "keyring" /\ mig'.todo = mig.todo \ {p} /\ mig'.doc = mig.doc
      /\ \A q \in Provider \ {p} : mig'.plan[q] = mig.plan[q] /\ keyring'[q] = keyring[q]
      /\ \/ keyring'[p] = Copied /\ mig'.plan[p] = mig.plan[p]
         \/ keyring'[p] = keyring[p] /\ mig'.plan[p] = it
  <2>1. /\ mig'.pc = mig.pc /\ mig'.doc = mig.doc /\ mig'.todo = mig.todo \ {p}
        /\ \A q \in Provider \ {p} : mig'.plan[q] = mig.plan[q]
        /\ \/ keyring' = [keyring EXCEPT ![p] = Copied] /\ mig'.plan[p] = mig.plan[p]
           \/ keyring' = keyring /\ mig'.plan[p] = it
    <3>1. CASE /\ keyring' = [keyring EXCEPT ![p] = Copied]
               /\ mig' = [mig EXCEPT !.todo = @ \ {p}]
      BY <3>1 DEF TypeOK
    <3>2. CASE /\ mig' = [mig EXCEPT !.todo = @ \ {p}, !.plan[p] = left(p)]
               /\ UNCHANGED keyring
      BY <1>3, <1>6, <3>2 DEF TypeOK
    <3>. QED
      BY <1>1, <3>1, <3>2
  <2>. QED
    BY <1>2, <1>3, <2>1
<1>9. TypeOK'
  <2>1. mig' \in [pc : Pcs, todo : SUBSET Provider, plan : [Provider -> PlanItem \cup {Nil}],
                  doc : {Nil} \cup ProvidersFile \cup ModelsFile]
    <3>1. CASE mig' = [mig EXCEPT !.todo = @ \ {p}]
      BY <1>3, <3>1 DEF TypeOK
    <3>2. CASE mig' = [mig EXCEPT !.todo = @ \ {p}, !.plan[p] = left(p)]
      BY <1>3, <1>6, <1>7, <3>2 DEF TypeOK
    <3>. QED
      BY <1>1, <3>1, <3>2
  <2>2. keyring' \in [Provider -> Key \cup {Nil}]
    BY <1>1, <1>3, <1>4
  <2>. QED
    BY <1>2, <2>1, <2>2 DEF TypeOK, ProvidersTypeOK
<1>10. LockInv' /\ DocInv'
  BY <1>2, <1>8 DEF LockInv, DocInv
<1>11. \A q \in Provider : keyring[q] # Nil => keyring'[q] # Nil
  BY <1>4, <1>8
<1>12. PlanInv'
  BY <1>2, <1>3, <1>5, <1>7, <1>8 DEF PlanInv, ItemOf
<1>13. PlanIsTrue'
  <2>. SUFFICES ASSUME NEW q \in Provider \ touched, mig'.plan[q] # Nil
                PROVE  TrueOf(q, mig.plan[q])'
    BY <1>2 DEF PlanIsTrue
  <2>1. /\ transport(q)' = transport(q) /\ (AlreadyStored(q) => AlreadyStored(q)')
        /\ mig'.pc \in BeforeWrite /\ mig'.pc \notin AfterWrite
    BY <1>2, <1>8, <1>11, SameProvider, StoredStays DEF BeforeWrite, AfterWrite
  <2>2. CASE mig'.plan[q] = mig.plan[q]
    BY <1>2, <2>1, <2>2 DEF TrueOf, PlanIsTrue, BeforeWrite
  <2>3. CASE q = p /\ mig'.plan[q] = it
    BY <1>7, <2>1, <2>3 DEF TrueOf
  <2>. QED
    BY <1>8, <2>2, <2>3
<1>14. KeysInv'
  <2>1. ToStore("keyring")' = {q \in Provider : mig'.plan[q].storage = "keyring" /\ mig'.plan[q].state = "new"}
    BY DEF ToStore
  <2>2. \A q \in Provider \ {p} : q \in ToStore("keyring")' <=> q \in ToStore("keyring")
    BY <1>8, <2>1 DEF ToStore
  <2>3. p \in ToStore("keyring")' => keyring'[p] = Copied
    BY <1>7, <1>8, <2>1
  <2>4. mig'.todo \subseteq ToStore("keyring")'
    BY <1>3, <1>8, <2>2 DEF ToStore
  <2>5. \A q \in ToStore("keyring")' : keyring'[q] # Nil \/ q \in mig'.todo
    BY <1>2, <1>4, <1>8, <1>11, <2>1, <2>2, <2>3 DEF KeysInv
  <2>. QED
    BY <1>8, <2>4, <2>5 DEF KeysInv
<1>15. MovedInv'
  <2>. SUFFICES ASSUME NEW q \in moved
                PROVE  /\ transport(q)' = "http" /\ (Resolves(q)' \/ q \in cutoff')
                       /\ mig'.plan[q] # Nil => mig'.plan[q].entry = Nil
    BY <1>2 DEF MovedInv
  <2>1. q \in Provider
    BY DEF TypeOK
  <2>2. transport(q) = "http" /\ (Resolves(q) \/ q \in cutoff)
        /\ (mig.plan[q] # Nil => mig.plan[q].entry = Nil)
    BY <1>2 DEF MovedInv, BeforeWrite
  <2>3. q # p
    BY <1>5, <2>2
  <2>. QED
    BY <1>2, <1>8, <1>11, <2>1, <2>2, <2>3, SameProvider, StoredStays
<1>16. BackupInv' /\ SettledInv'
  BY <1>2, <1>8, Unrested DEF BackupInv
<1>. QED
  BY <1>9, <1>10, <1>12, <1>13, <1>14, <1>15, <1>16

\* The document is made from the file as it is under the lock.
LEMMA RelockKeeps ==
    ASSUME IInv, Relock
    PROVE  IInv'
<1> USE DEF IInv
<1>1. /\ UNCHANGED <<providers, keyring, typing, edits, models, mlock, runs, backups>>
      /\ UNCHANGED <<touched, since, moved, cutoff, settled>>
      /\ mig.pc = "keyring" /\ mig.todo = {} /\ plock' = Migrator
      /\ mig' = [mig EXCEPT !.pc = "write", !.doc = providers_doc(mig.plan)]
  BY DEF Relock, historyVars
<1>2. /\ mig'.pc = "write" /\ mig'.plan = mig.plan /\ mig'.todo = {} /\ mig'.doc = providers_doc(mig.plan)
      /\ ToStore("keyring")' = ToStore("keyring")
      /\ providers_doc(mig.plan)' = providers_doc(mig.plan)
  BY <1>1 DEF TypeOK, ToStore, providers_doc
<1>3. TypeOK'
  <2>1. providers_doc(mig.plan) \in ProvidersFile
    BY DocSound
  <2>2. mig' \in [pc : Pcs, todo : SUBSET Provider, plan : [Provider -> PlanItem \cup {Nil}],
                  doc : {Nil} \cup ProvidersFile \cup ModelsFile]
    BY <1>1, <2>1 DEF TypeOK, Pcs
  <2>. QED
    BY <1>1, <2>2 DEF TypeOK, ProvidersTypeOK
<1>4. LockInv' /\ PlanInv' /\ DocInv' /\ BackupInv'
  BY <1>1, <1>2 DEF LockInv, PlanInv, DocInv, ItemOf, BackupInv
<1>5. KeysInv'
  BY <1>1, <1>2 DEF KeysInv
<1>6. PlanIsTrue'
  BY <1>1, <1>2, SamePlanIsTrue DEF BeforeWrite, AfterWrite
<1>7. MovedInv'
  <2>1. moved \subseteq Provider
    BY DEF TypeOK
  <2>. QED
    BY <1>1, <1>2, <2>1, SameMoved DEF BeforeWrite
<1>. QED
  BY <1>1, <1>3, <1>4, <1>5, <1>6, <1>7, Unrested

(***************************************************************************)
(* The write and what follows it                                           *)
(***************************************************************************)

\* What the written entries are, given what the plan says of them.
LEMMA WrittenEntries ==
    ASSUME IInv, WriteProviders, NEW p \in Provider
    PROVE  /\ mig.plan[p] # Nil /\ mig.plan[p] \in PlanItem /\ ItemOf(p, mig.plan[p])
           /\ mig.plan[p].entry = Nil => providers'[p] = providers[p]
           /\ mig.plan[p].entry # Nil =>
                 /\ providers'[p] = Merged(providers[p], mig.plan[p].entry)
                 /\ providers'[p] \in Entry /\ providers'[p] # Nil
                 /\ mig.plan[p].state \in {"pending", "new"}
                 /\ providers'[p].transport = (IF mig.plan[p].state = "new" THEN "http" ELSE "opencode")
                 /\ mig.plan[p].entry.transport = providers'[p].transport
                 /\ mig.plan[p].storage \in {"none", "env", "keyring", "plaintext"}
                       => providers'[p].type = mig.plan[p].storage
                 /\ mig.plan[p].storage \in {"none", "keyring", "plaintext"} => providers'[p].ref = Nil
                 /\ mig.plan[p].storage = "stored" /\ providers[p] # Nil
                       => providers'[p].type = providers[p].type /\ providers'[p].ref = providers[p].ref
<1> USE DEF IInv
<1>1. mig.pc = "write" /\ providers' = providers_doc(mig.plan)
  BY DEF WriteProviders, DocInv
<1>2. /\ providers[p] \in Entry \cup {Nil}
      /\ mig.plan[p] \in PlanItem \cup {Nil}
  BY DEF TypeOK, ProvidersTypeOK
<1>3. mig.plan[p] # Nil /\ mig.plan[p] \in PlanItem /\ ItemOf(p, mig.plan[p])
  BY <1>1, <1>2 DEF PlanInv
<1>4. /\ mig.plan[p].entry = Nil => providers'[p] = providers[p]
      /\ mig.plan[p].entry # Nil => providers'[p] = Merged(providers[p], mig.plan[p].entry)
  BY <1>1, <1>3 DEF providers_doc
<1>5. PICK it : it = mig.plan[p]
  OBVIOUS
<1>6. PICK m : m = providers'[p]
  OBVIOUS
<1>7. ASSUME it.entry # Nil
      PROVE  /\ m \in Entry /\ m # Nil
             /\ it.state \in {"pending", "new"}
             /\ m.transport = (IF it.state = "new" THEN "http" ELSE "opencode")
             /\ it.entry.transport = m.transport
             /\ it.storage \in {"none", "env", "keyring", "plaintext"} => m.type = it.storage
             /\ it.storage \in {"none", "keyring", "plaintext"} => m.ref = Nil
             /\ it.storage = "stored" /\ providers[p] # Nil
                  => m.type = providers[p].type /\ m.ref = providers[p].ref
  <2>1. m = Merged(providers[p], it.entry) /\ it \in PlanItem /\ ItemOf(p, it)
    BY <1>3, <1>4, <1>5, <1>6, <1>7
  <2>2. /\ m \in Entry /\ m # Nil
        /\ m.transport = (IF it.state = "new" THEN "http" ELSE "opencode")
        /\ it.storage # "stored" => m.type = it.entry.type /\ m.ref = it.entry.ref
        /\ it.storage = "stored" /\ providers[p] # Nil => m.type = providers[p].type /\ m.ref = providers[p].ref
    BY <1>2, <1>7, <2>1, MergedEntries
  <2>3. /\ it.state \in {"pending", "new"}
        /\ it.entry.transport = (IF it.state = "new" THEN "http" ELSE "opencode")
        /\ it.storage \in {"none", "env", "keyring", "plaintext"} => it.entry.type = it.storage
        /\ it.entry.type # "env" => it.entry.ref = Nil
    BY <1>7, <2>1, PlannedEntries
  <2>. QED
    BY <2>2, <2>3
<1>. QED
  BY <1>3, <1>4, <1>5, <1>6, <1>7

\* The entries are as the plan has them, and those on http have their key or
\* are in line for it.
LEMMA WriteProvidersKeeps ==
    ASSUME IInv, WriteProviders
    PROVE  IInv'
<1> USE DEF IInv
<1>1. /\ UNCHANGED <<keyring, plock, typing, edits, models, mlock, runs, backups>>
      /\ UNCHANGED <<touched, since, cutoff, settled>>
      /\ mig.pc = "write" /\ providers' = mig.doc /\ mig.doc = providers_doc(mig.plan)
      /\ mig' = [mig EXCEPT !.pc = "plaintext", !.doc = Nil, !.todo = ToStore("plaintext")]
      /\ moved' = (moved \cup Moving) \ touched
  BY DEF WriteProviders, DocInv
<1>2. /\ mig'.pc = "plaintext" /\ mig'.plan = mig.plan /\ mig'.todo = ToStore("plaintext")
      /\ ToStore("plaintext")' = ToStore("plaintext")
  BY <1>1 DEF TypeOK, ToStore
<1>3. providers' \in ProvidersFile
  BY <1>1, DocSound
<1>4. TypeOK'
  <2>1. ToStore("plaintext") \subseteq Provider /\ Moving \subseteq Provider
    BY DEF ToStore, Moving
  <2>2. mig' \in [pc : Pcs, todo : SUBSET Provider, plan : [Provider -> PlanItem \cup {Nil}],
                  doc : {Nil} \cup ProvidersFile \cup ModelsFile]
    BY <1>1, <2>1 DEF TypeOK, Pcs
  <2>. QED
    BY <1>1, <1>3, <2>1, <2>2 DEF TypeOK, ProvidersTypeOK, ProvidersFile
<1>5. LockInv' /\ PlanInv' /\ DocInv' /\ BackupInv'
  BY <1>1, <1>2, <1>3 DEF LockInv, PlanInv, DocInv, ItemOf, BackupInv
<1>6. KeysInv'
  <2>. SUFFICES ASSUME NEW p \in ToStore("plaintext")
                PROVE  providers'[p] # Nil /\ providers'[p].type = "plaintext" /\ providers'[p].ref = Nil
    BY <1>2 DEF KeysInv
  <2>1. p \in Provider /\ mig.plan[p].storage = "plaintext" /\ mig.plan[p].state = "new"
    BY DEF ToStore
  <2>. QED
    BY <2>1, WrittenEntries, NewHasEntry
<1>7. PlanIsTrue'
  <2>. SUFFICES ASSUME NEW p \in Provider \ touched
                PROVE  TrueOf(p, mig.plan[p])'
    BY <1>1 DEF PlanIsTrue
  <2>1. mig.plan[p] # Nil /\ TrueOf(p, mig.plan[p]) /\ ItemOf(p, mig.plan[p])
    BY WrittenEntries DEF PlanIsTrue
  <2>2. mig'.pc \in AfterWrite /\ mig'.pc \notin BeforeWrite
    BY <1>2 DEF AfterWrite, BeforeWrite
  <2>3. CASE mig.plan[p].state \in {"done", "skip"}
    <3>1. providers'[p] = providers[p]
      BY <2>1, <2>3, WrittenEntries DEF ItemOf
    <3>2. transport(p)' = transport(p)
      BY <3>1, SameProvider
    <3>. QED
      BY <1>2, <2>1, <2>2, <2>3, <3>2 DEF TrueOf
  <2>4. CASE mig.plan[p].state = "new"
    <3>1. providers'[p] # Nil /\ providers'[p].transport = "http"
      BY <2>1, <2>4, WrittenEntries, NewHasEntry
    <3>2. transport(p)' = "http"
      BY <3>1 DEF transport
    <3>. QED
      BY <1>2, <2>2, <2>4, <3>2 DEF TrueOf
  <2>5. CASE mig.plan[p].state = "pending"
    <3>1. mig.plan[p].entry # Nil /\ mig.plan[p].entry = make_entry("skip", Nil)
      BY <2>1, <2>5, NewHasEntry DEF ItemOf
    <3>2. /\ providers'[p] # Nil /\ providers'[p].transport = "opencode" /\ providers'[p] \in Entry
          /\ providers'[p] = Merged(providers[p], make_entry("skip", Nil))
      BY <2>5, <3>1, WrittenEntries
    <3>3. providers[p] \in Entry \cup {Nil}
      BY DEF TypeOK, ProvidersTypeOK
    <3>4. Merged(providers'[p], make_entry("skip", Nil)) = providers'[p]
      BY <3>2, <3>3, PendingStays
    <3>5. Fixed(p)'
      BY <3>2, <3>4 DEF Fixed, Merged, make_entry
    <3>6. transport(p)' # "http"
      BY <3>2 DEF transport
    <3>. QED
      BY <1>2, <2>2, <2>5, <3>5, <3>6 DEF TrueOf
  <2>. QED
    BY <2>1, <2>3, <2>4, <2>5 DEF ItemOf
<1>8. MovedInv'
  <2>. SUFFICES ASSUME NEW p \in moved'
                PROVE  /\ transport(p)' = "http"
                       /\ Resolves(p)' \/ p \in cutoff' \/ p \in mig'.todo
    BY <1>2 DEF MovedInv, BeforeWrite
  <2>1. p \in Provider /\ p \notin touched
    BY <1>1 DEF TypeOK, Moving
  <2>2. CASE p \in moved
    <3>1. mig.plan[p].entry = Nil
      BY <1>1, <2>1, <2>2, WrittenEntries DEF MovedInv, BeforeWrite
    <3>2. providers'[p] = providers[p]
      BY <2>1, <3>1, WrittenEntries
    <3>. QED
      BY <1>1, <2>1, <2>2, <3>2, SameProvider DEF MovedInv
  <2>3. CASE p \in Moving
    <3>1. mig.plan[p].entry # Nil /\ mig.plan[p].entry.transport = "http"
      BY <2>3 DEF Moving
    <3>2. mig.plan[p].state = "new" /\ providers'[p] # Nil /\ providers'[p].transport = "http"
      BY <2>1, <3>1, WrittenEntries
    <3>3. /\ mig.plan[p].storage \in {"none", "env", "keyring", "plaintext", "stored"}
          /\ mig.plan[p].storage = "keyring" => Backend
      BY <2>1, <3>2, WrittenEntries DEF ItemOf
    <3>4. transport(p)' = "http" /\ key_type(p)' = providers'[p].type
      BY <3>2 DEF transport, key_type
    <3>5. CASE mig.plan[p].storage \in {"none", "env"}
      <4>1. key_type(p)' \in {"none", "env"}
        BY <2>1, <3>1, <3>4, <3>5, WrittenEntries
      <4>. QED
        BY <3>4, <4>1 DEF Resolves
    <3>6. CASE mig.plan[p].storage = "keyring"
      <4>1. key_type(p)' = "keyring"
        BY <2>1, <3>1, <3>4, <3>6, WrittenEntries
      <4>2. p \in ToStore("keyring")
        BY <2>1, <3>2, <3>6 DEF ToStore
      <4>3. keyring'[p] # Nil
        BY <1>1, <4>2 DEF KeysInv
      <4>. QED
        BY <3>3, <3>4, <3>6, <4>1, <4>3 DEF Resolves
    <3>7. CASE mig.plan[p].storage = "plaintext"
      BY <1>2, <2>1, <3>2, <3>4, <3>7 DEF ToStore
    <3>8. CASE mig.plan[p].storage = "stored"
      <4>1. AlreadyStored(p)
        BY <1>1, <2>1, <3>2, <3>8, WrittenEntries DEF PlanIsTrue, TrueOf, BeforeWrite
      <4>2. providers[p] # Nil /\ key_type(p) = providers[p].type
        BY <4>1 DEF AlreadyStored, key_type
      <4>3. providers'[p].type = providers[p].type /\ providers'[p].ref = providers[p].ref
        BY <2>1, <3>1, <3>8, <4>2, WrittenEntries
      <4>4. key_type(p)' = key_type(p)
        BY <3>4, <4>2, <4>3
      <4>5. Resolves(p)'
        BY <1>1, <4>1, <4>3, <4>4 DEF AlreadyStored, Resolves
      <4>. QED
        BY <3>4, <4>5
    <3>. QED
      BY <3>3, <3>5, <3>6, <3>7, <3>8
  <2>. QED
    BY <1>1, <2>2, <2>3
<1>. QED
  BY <1>1, <1>4, <1>5, <1>6, <1>7, <1>8, Unrested

\* A key is stored in its entry.
LEMMA StoreKeyKeeps ==
    ASSUME IInv, StoreKey
    PROVE  IInv'
<1> USE DEF IInv
<1>1. PICK p \in mig.todo : plaintext_store(p, Copied) /\ mig' = [mig EXCEPT !.todo = @ \ {p}]
  BY DEF StoreKey
<1>2. /\ UNCHANGED <<keyring, plock, typing, edits, models, mlock, runs, backups>>
      /\ UNCHANGED <<touched, since, moved, cutoff, settled>>
      /\ mig.pc = "plaintext"
  BY DEF StoreKey, historyVars
<1>3. p \in Provider /\ p \in ToStore("plaintext") /\ mig.todo \subseteq ToStore("plaintext")
  BY <1>2 DEF TypeOK, KeysInv
<1>4. /\ mig'.pc = "plaintext" /\ mig'.plan = mig.plan /\ mig'.todo = mig.todo \ {p} /\ mig'.doc = mig.doc
      /\ ToStore("plaintext")' = ToStore("plaintext")
  BY <1>1, <1>2 DEF TypeOK, ToStore
<1>5. Copied # Nil /\ Copied \in Key
  BY ProvidersAssumption DEF Key
<1>6. /\ providers' \in ProvidersFile
      /\ \A q \in Provider \ {p} : providers'[q] = providers[q]
      /\ providers[p] # Nil /\ providers'[p] # Nil
      /\ providers[p].type = "plaintext"
      /\ providers'[p] = [providers[p] EXCEPT !.ref = Copied]
  BY <1>1, <1>3, <1>5, StoredKeys
<1>7. providers[p] \in Entry
  BY <1>3, <1>6 DEF TypeOK, ProvidersTypeOK
<1>8. /\ providers'[p].type = "plaintext" /\ providers'[p].ref = Copied
      /\ transport(p)' = transport(p) /\ key_type(p)' = "plaintext"
  BY <1>6, <1>7 DEF transport, key_type, Entry
<1>9. TypeOK'
  <2>1. mig' \in [pc : Pcs, todo : SUBSET Provider, plan : [Provider -> PlanItem \cup {Nil}],
                  doc : {Nil} \cup ProvidersFile \cup ModelsFile]
    BY <1>1 DEF TypeOK
  <2>. QED
    BY <1>2, <1>6, <2>1 DEF TypeOK, ProvidersTypeOK, ProvidersFile
<1>10. LockInv' /\ PlanInv' /\ DocInv' /\ BackupInv'
  BY <1>2, <1>4 DEF LockInv, PlanInv, DocInv, ItemOf, BackupInv
<1>11. KeysInv'
  BY <1>2, <1>3, <1>4, <1>6 DEF KeysInv, ToStore
<1>12. PlanIsTrue'
  <2>. SUFFICES ASSUME NEW q \in Provider \ touched, mig.plan[q] # Nil
                PROVE  TrueOf(q, mig.plan[q])'
    BY <1>2, <1>4 DEF PlanIsTrue
  <2>1. TrueOf(q, mig.plan[q]) /\ mig'.pc \notin BeforeWrite
    BY <1>4 DEF PlanIsTrue, BeforeWrite
  <2>2. CASE q = p
    <3>1. mig.plan[q].state = "new"
      BY <1>3, <2>2 DEF ToStore
    <3>. QED
      BY <1>2, <1>4, <1>8, <2>1, <2>2, <3>1 DEF TrueOf, AfterWrite
  <2>3. CASE q # p
    <3>1. transport(q)' = transport(q) /\ (Fixed(q)' <=> Fixed(q))
      BY <1>6, <2>3, SameProvider
    <3>. QED
      BY <1>2, <1>4, <2>1, <3>1 DEF TrueOf
  <2>. QED
    BY <2>2, <2>3
<1>13. MovedInv'
  <2>. SUFFICES ASSUME NEW q \in moved
                PROVE  /\ transport(q)' = "http"
                       /\ Resolves(q)' \/ q \in cutoff \/ q \in mig'.todo
    BY <1>2, <1>4 DEF MovedInv, BeforeWrite
  <2>1. q \in Provider
    BY DEF TypeOK
  <2>2. CASE q = p
    <3>1. Resolves(q)'
      BY <1>5, <1>8, <2>2 DEF Resolves
    <3>. QED
      BY <1>8, <2>2, <3>1 DEF MovedInv
  <2>3. CASE q # p
    BY <1>2, <1>4, <1>6, <2>1, <2>3, SameProvider DEF MovedInv
  <2>. QED
    BY <2>2, <2>3
<1>. QED
  BY <1>2, <1>6, <1>9, <1>10, <1>11, <1>12, <1>13, Unrested

\* What is filled into the registry leaves what it has, and fills what the
\* OpenCode configuration knows.
LEMMA FilledModels ==
    ASSUME TypeOK, NEW detected \in SUBSET Provider, NEW doc,
           doc = models_doc([p \in Provider |-> model_fills(mig.plan, p, detected)])
    PROVE  /\ doc \in ModelsFile
           /\ Keeps(doc)
           /\ \A p \in Provider : Lacks(mig.plan, p) => Filled(doc, p)
<1> DEFINE fill(p) == model_fills(mig.plan, p, detected)
<1>1. models \in ModelsFile
  BY DEF TypeOK
<1>2. Nil \notin {"effort", "limit", "detected"}
  BY MigrateAssumption
<1>3. ASSUME NEW p \in Provider
      PROVE  /\ fill(p).body \in {Nil, "effort"} /\ fill(p).context \in {Nil, "limit", "detected"}
             /\ Lacks(mig.plan, p) /\ OpenCode[p].effort => fill(p).body # Nil
             /\ Lacks(mig.plan, p) /\ OpenCode[p].limit => fill(p).context # Nil
  BY <1>2 DEF model_fills
<1> HIDE DEF fill
<1>4. doc = [p \in Provider |->
                [body |-> IF models[p].body = Nil THEN fill(p).body ELSE models[p].body,
                 context |-> IF models[p].context = Nil THEN fill(p).context ELSE models[p].context]]
  BY DEF models_doc, fill
<1>5. \A p \in Provider :
        /\ models[p].body \in {Nil, "user", "effort"}
        /\ models[p].context \in {Nil, "user", "limit", "detected"}
  BY <1>1 DEF ModelsFile
<1>6. doc \in ModelsFile
  BY <1>3, <1>4, <1>5 DEF ModelsFile
<1>7. Keeps(doc)
  BY <1>4 DEF Keeps
<1>8. \A p \in Provider : Lacks(mig.plan, p) => Filled(doc, p)
  BY <1>3, <1>4 DEF Filled
<1>. QED
  BY <1>6, <1>7, <1>8

\* The registry is made from the file as it is under the models lock.
LEMMA PlanModelsKeeps ==
    ASSUME IInv, PlanModels
    PROVE  IInv'
<1> USE DEF IInv
<1>1. PICK detected \in SUBSET Provider :
        mig' = [mig EXCEPT !.pc = "save",
                           !.doc = models_doc([p \in Provider |-> model_fills(mig.plan, p, detected)])]
  BY DEF PlanModels
<1>2. /\ UNCHANGED <<providers, keyring, typing, edits, models, mlock, runs, backups>>
      /\ UNCHANGED <<touched, since, moved, cutoff, settled>>
      /\ mig.pc = "plaintext" /\ mig.todo = {} /\ plock' = NoProc
  BY DEF PlanModels, historyVars
<1>3. PICK doc : doc = models_doc([p \in Provider |-> model_fills(mig.plan, p, detected)])
  OBVIOUS
<1>4. /\ doc \in ModelsFile /\ Keeps(doc)
      /\ \A p \in Provider : Lacks(mig.plan, p) => Filled(doc, p)
  BY <1>3, FilledModels
<1>5. mig' = [mig EXCEPT !.pc = "save", !.doc = doc]
  BY <1>1, <1>3
<1>6. mig'.pc = "save" /\ mig'.plan = mig.plan /\ mig'.todo = {} /\ mig'.doc = doc
  BY <1>2, <1>5 DEF TypeOK
<1>7. TypeOK'
  <2>1. mig' \in [pc : Pcs, todo : SUBSET Provider, plan : [Provider -> PlanItem \cup {Nil}],
                  doc : {Nil} \cup ProvidersFile \cup ModelsFile]
    BY <1>4, <1>5 DEF TypeOK, Pcs
  <2>. QED
    BY <1>2, <2>1 DEF TypeOK, ProvidersTypeOK
<1>8. LockInv' /\ PlanInv' /\ KeysInv' /\ BackupInv'
  BY <1>2, <1>6, MigrateAssumption DEF LockInv, PlanInv, ItemOf, KeysInv, BackupInv
<1>9. DocInv'
  <2>1. Keeps(doc)' /\ \A p \in Provider : Lacks(mig.plan, p)' => Filled(doc, p)'
    BY <1>2, <1>4, <1>6 DEF Keeps, Lacks, Filled
  <2>. QED
    BY <1>4, <1>6, <2>1 DEF DocInv, Keeps, Lacks, Filled
<1>10. PlanIsTrue'
  BY <1>2, <1>6, SamePlanIsTrue DEF BeforeWrite, AfterWrite
<1>11. MovedInv'
  <2>1. moved \subseteq Provider
    BY DEF TypeOK
  <2>. QED
    BY <1>2, <1>6, <2>1, SameMoved DEF BeforeWrite
<1>. QED
  BY <1>2, <1>7, <1>8, <1>9, <1>10, <1>11, Unrested

\* A run nobody interfered with leaves every provider at rest.
LEMMA SaveModelsKeeps ==
    ASSUME IInv, SaveModels
    PROVE  IInv'
<1> USE DEF IInv
<1>1. /\ UNCHANGED <<providers, keyring, plock, typing, edits, runs, backups, touched, since, moved, cutoff>>
      /\ mig.pc = "save" /\ models' = mig.doc /\ mlock' = NoProc
      /\ mig' = Resting
      /\ settled' = IF touched = {} THEN [p \in Provider |-> mig.plan[p].storage] ELSE Unsettled
  BY DEF SaveModels, providerVars
<1>2. /\ mig.doc \in ModelsFile
      /\ \A p \in Provider : Lacks(mig.plan, p) => Filled(mig.doc, p)
  BY <1>1 DEF DocInv
<1>3. mig' = [pc |-> "idle", todo |-> {}, plan |-> NoPlan, doc |-> Nil]
  BY <1>1 DEF Resting
<1>4. \A p \in Provider : mig.plan[p] # Nil /\ mig.plan[p] \in PlanItem /\ ItemOf(p, mig.plan[p])
  BY <1>1 DEF TypeOK, PlanInv
<1>5. TypeOK'
  <2>1. NoPlan \in [Provider -> PlanItem \cup {Nil}]
    BY DEF NoPlan
  <2>2. mig' \in [pc : Pcs, todo : SUBSET Provider, plan : [Provider -> PlanItem \cup {Nil}],
                  doc : {Nil} \cup ProvidersFile \cup ModelsFile]
    BY <1>3, <2>1 DEF Pcs
  <2>3. settled' \in [Provider -> Storage \cup {"none", "stored", Nil}]
    BY <1>1, <1>4 DEF Unsettled, PlanItem
  <2>. QED
    BY <1>1, <1>2, <2>2, <2>3 DEF TypeOK, ProvidersTypeOK
<1>6. LockInv'
  BY <1>1, <1>3, MigrateAssumption DEF LockInv
<1>7. MovedInv'
  <2>1. moved \subseteq Provider
    BY DEF TypeOK
  <2>. QED
    BY <1>1, <1>3, <2>1, SameMoved DEF BeforeWrite
<1>8. SettledInv'
  <2>. SUFFICES ASSUME touched = {}, NEW p \in Provider
                PROVE  AtRest(p, settled[p])'
    BY <1>1, <1>3 DEF SettledInv, Unsettled
  <2>1. settled'[p] = mig.plan[p].storage
    BY <1>1
  <2>2. TrueOf(p, mig.plan[p]) /\ mig.pc \in AfterWrite
    BY <1>1, <1>4 DEF PlanIsTrue, AfterWrite
  <2>3. transport(p)' = transport(p) /\ (Fixed(p)' <=> Fixed(p))
    BY <1>1, SameProvider
  <2>4. Lacks(mig.plan, p) => Filled(models, p)'
    BY <1>1, <1>2 DEF Filled
  <2>5. CASE mig.plan[p].state \in {"new", "done"}
    BY <2>2, <2>3, <2>4, <2>5 DEF TrueOf, AtRest, Lacks
  <2>6. CASE mig.plan[p].state = "skip"
    BY <1>4, <2>1, <2>2, <2>3, <2>6 DEF TrueOf, AtRest, ItemOf
  <2>7. CASE mig.plan[p].state = "pending"
    BY <1>4, <2>1, <2>2, <2>3, <2>7 DEF TrueOf, AtRest, ItemOf
  <2>. QED
    BY <1>4, <2>5, <2>6, <2>7 DEF PlanItem
<1>. QED
  BY <1>1, <1>5, <1>6, <1>7, <1>8, RestFacts

(***************************************************************************)
(* The user, and the theorems                                              *)
(***************************************************************************)

\* The user changes what no lock of the migration holds.
LEMMA UserKeeps ==
    ASSUME IInv, UserStep
    PROVE  IInv'
<1> USE DEF IInv
<1>1. /\ providers' \in ProvidersFile
      /\ keyring' \in [Provider -> Key \cup {Nil}]
      /\ typing' \in [Provider -> {"keyring", "plaintext", Nil}]
      /\ edits' \in 0..MaxEdits
      /\ models' \in ModelsFile
      /\ UNCHANGED plock
      /\ plock = Migrator => providers' = providers
      /\ mlock = Migrator => models' = models
      /\ \A p \in Provider : keyring[p] # Nil => keyring'[p] # Nil
  BY UserFacts
<1>2. /\ UNCHANGED <<mlock, mig, runs, backups, cutoff>>
      /\ touched' = touched \cup Changed /\ since' = since \cup Changed /\ moved' = moved \ Changed
      /\ settled' = IF Changed = {} THEN settled ELSE Unsettled
  BY DEF UserStep
<1>3. Changed \subseteq Provider
  BY DEF Changed
<1>4. \A p \in Provider \ Changed :
        providers'[p] = providers[p] /\ keyring'[p] = keyring[p] /\ models'[p] = models[p]
  BY DEF Changed
<1> HIDE DEF Changed
<1>5. TypeOK'
  <2>1. settled' \in [Provider -> Storage \cup {"none", "stored", Nil}]
    BY <1>2 DEF TypeOK, Unsettled
  <2>. QED
    BY <1>1, <1>2, <1>3, <2>1 DEF TypeOK, ProvidersTypeOK, ProvidersFile
<1>6. LockInv' /\ PlanInv'
  BY <1>1, <1>2 DEF LockInv, PlanInv, ItemOf
<1>7. PlanIsTrue'
  <2>1. \A p \in Provider \ touched' : /\ p \notin touched /\ providers'[p] = providers[p]
                                       /\ keyring[p] # Nil => keyring'[p] # Nil
    BY <1>2, <1>4
  <2>. QED
    BY <1>2, <2>1, SamePlanIsTrue
<1>8. KeysInv'
  <2>1. \A storage : ToStore(storage)' = ToStore(storage)
    BY <1>2 DEF ToStore
  <2>2. mig.pc = "plaintext" => providers' = providers
    BY <1>1 DEF LockInv
  <2>. QED
    BY <1>1, <1>2, <2>1, <2>2 DEF KeysInv, ToStore
<1>9. DocInv'
  <2>1. mig.pc = "write" => providers' = providers
    BY <1>1 DEF LockInv
  <2>2. mig.pc = "save" => models' = models
    BY <1>1 DEF LockInv
  <2>3. mig'.pc = "write" => mig'.doc = providers_doc(mig.plan)'
    BY <1>2, <2>1 DEF DocInv, providers_doc
  <2>4. mig'.pc = "save" => /\ mig'.doc \in ModelsFile
                            /\ Keeps(mig.doc)'
                            /\ \A p \in Provider : Lacks(mig.plan, p)' => Filled(mig.doc, p)'
    BY <1>2, <2>2 DEF DocInv, Keeps, Lacks, Filled
  <2>. QED
    BY <2>3, <2>4 DEF DocInv
<1>10. MovedInv'
  <2>1. moved \subseteq Provider
    BY DEF TypeOK
  <2>. QED
    BY <1>2, <1>4, <2>1, SameMoved
<1>11. BackupInv'
  BY <1>2, <1>4 DEF BackupInv
<1>12. SettledInv'
  <2>1. CASE Changed # {}
    BY <1>2, <2>1 DEF SettledInv, Unsettled
  <2>2. CASE Changed = {} /\ settled # Unsettled
    <3>1. mig.pc = "idle"
      BY <2>2 DEF SettledInv
    <3>2. ASSUME NEW p \in Provider
          PROVE  AtRest(p, settled[p])'
      <4>1. AtRest(p, settled[p])
        BY <2>2 DEF SettledInv
      <4>2. transport(p)' = transport(p) /\ (Fixed(p)' <=> Fixed(p)) /\ models'[p] = models[p]
        BY <1>4, <2>2, SameProvider
      <4>. QED
        BY <1>2, <2>2, <4>1, <4>2 DEF AtRest, Filled
    <3>. QED
      BY <1>2, <3>1, <3>2 DEF SettledInv
  <2>3. CASE Changed = {} /\ settled = Unsettled
    BY <1>2, <2>3 DEF SettledInv, Unsettled
  <2>. QED
    BY <2>1, <2>2, <2>3
<1>. QED
  BY <1>1, <1>5, <1>6, <1>7, <1>8, <1>9, <1>10, <1>11, <1>12

\* Nothing holds a lock and no run is on at the start.
LEMMA InitInv == MigrateInit => IInv
<1> SUFFICES ASSUME MigrateInit PROVE IInv
  OBVIOUS
<1>1. /\ mig = [pc |-> "idle", todo |-> {}, plan |-> NoPlan, doc |-> Nil]
      /\ plock = NoProc /\ mlock = NoProc
      /\ moved = {} /\ settled = Unsettled
  BY DEF MigrateInit, ProvidersInit, Resting
<1>2. providers \in ProvidersFile
  BY MigrateAssumption DEF MigrateInit, ProvidersFile
<1>3. TypeOK
  <2>1. NoPlan \in [Provider -> PlanItem \cup {Nil}]
    BY DEF NoPlan
  <2>2. mig \in [pc : Pcs, todo : SUBSET Provider, plan : [Provider -> PlanItem \cup {Nil}],
                 doc : {Nil} \cup ProvidersFile \cup ModelsFile]
    BY <1>1, <2>1 DEF Pcs
  <2>3. ProvidersTypeOK
    BY <1>2, ProvidersAssumption DEF MigrateInit, ProvidersInit, ProvidersTypeOK, ProvidersFile
  <2>4. models \in ModelsFile
    BY DEF MigrateInit, ModelsFile
  <2>5. settled \in [Provider -> Storage \cup {"none", "stored", Nil}]
    BY <1>1 DEF Unsettled
  <2>. QED
    BY <1>1, <2>2, <2>3, <2>4, <2>5, MigrateAssumption DEF MigrateInit, TypeOK
<1>4. LockInv /\ KeysInv /\ DocInv /\ MovedInv /\ BackupInv /\ SettledInv
  BY <1>1, MigrateAssumption DEF LockInv, KeysInv, DocInv, MovedInv, BackupInv, SettledInv
<1>5. \A p \in Provider : mig.plan[p] = Nil
  BY <1>1 DEF NoPlan
<1>6. PlanInv /\ PlanIsTrue
  BY <1>1, <1>5 DEF PlanInv, PlanIsTrue
<1>. QED
  BY <1>2, <1>3, <1>4, <1>6 DEF IInv

\* Every step of the run, and every command of the user's, keeps the invariant.
LEMMA Inductive == IInv /\ [Next]_vars => IInv'
<1> SUFFICES ASSUME IInv, [Next]_vars PROVE IInv'
  OBVIOUS
<1>1. CASE MigrateStep
  <2>1. CASE Stop
    BY <2>1, EndKeeps DEF Stop
  <2>. QED
    BY <1>1, <2>1, StartKeeps, PlanProviderKeeps, ShowPlanKeeps, LockModelsKeeps, BackupKeeps, StoreKeyringKeeps,
       RelockKeeps, WriteProvidersKeeps, StoreKeyKeeps, PlanModelsKeeps, SaveModelsKeeps DEF MigrateStep
<1>2. CASE UserStep
  BY <1>2, UserKeeps
<1>3. CASE UNCHANGED vars
  BY <1>3 DEF vars, providerVars, historyVars, IInv, TypeOK, ProvidersTypeOK, LockInv, PlanInv,
     ItemOf, PlanIsTrue, TrueOf, transport, key_type, Fixed, Resolves, AlreadyStored, KeysInv, ToStore, DocInv,
     providers_doc, Keeps, Lacks, Filled, MovedInv, BackupInv, SettledInv, AtRest
<1>. QED
  BY <1>1, <1>2, <1>3 DEF Next

\* Spec keeps the inductive invariant, for any providers, configuration and
\* file to start from.
THEOREM Invariant == Spec => []IInv
BY InitInv, Inductive, PTL DEF Spec

\* Each variable of a migration and of the files it works on has its type.
THEOREM TypeCorrect == Spec => []TypeOK
<1>1. IInv => TypeOK
  BY DEF IInv
<1>. QED
  BY <1>1, Invariant, PTL

\* A step of a run leaves sound what was sound.
LEMMA RunsKeepSound ==
    ASSUME IInv, MigrateStep
    PROVE  SoundStays
<1> USE DEF IInv
<1>1. CASE UNCHANGED providers
  BY <1>1 DEF SoundStays, SoundAt
<1>2. CASE WriteProviders
  BY <1>2, DocSound DEF WriteProviders, DocInv, SoundStays, SoundAt
<1>3. CASE StoreKey
  <2>1. PICK p \in mig.todo : plaintext_store(p, Copied)
    BY <1>3 DEF StoreKey
  <2>2. p \in Provider /\ Copied \in Key
    BY DEF TypeOK, Key
  <2>. QED
    BY <2>1, <2>2, StoredKeys
<1>. QED
  BY <1>1, <1>2, <1>3 DEF MigrateStep, Start, PlanProvider, ShowPlan, LockModels, Backup, StoreKeyring,
     Relock, PlanModels, SaveModels, Stop, providerVars

\* No command of the user's and no step of a run, in whatever order they come
\* and whatever file they find, makes a sound entry one the transport cannot
\* use, or one whose key is left in the file under another type than plaintext.
THEOREM SoundEntriesStaySound == Spec => [][SoundStays]_vars
<1>1. IInv /\ [Next]_vars => [SoundStays]_vars
  BY UserFacts, RunsKeepSound DEF IInv, Next
<1>. QED
  BY <1>1, Invariant, PTL DEF Spec

\* So every entry is sound if those of the file to start from are.  One put in
\* by hand with http and no base_url, or with its key under another type,
\* passes entry_problem and stays until it is set again.
THEOREM EntriesAreSound ==
    ASSUME \A seed \in Seeds : \A p \in Provider : seed[p] # Nil => KeyInPlace(seed[p])
    PROVE  Spec => []EntriesSound
<1>1. MigrateInit => EntriesSound
  BY DEF MigrateInit, EntriesSound
<1>2. IInv /\ EntriesSound /\ [Next]_vars => EntriesSound'
  <2>1. SoundStays /\ EntriesSound => EntriesSound'
    BY DEF SoundStays, SoundAt, EntriesSound
  <2>2. UNCHANGED vars /\ EntriesSound => EntriesSound'
    BY DEF vars, providerVars, EntriesSound
  <2>. QED
    BY <2>1, <2>2, UserFacts, RunsKeepSound DEF IInv, Next
<1>. QED
  BY <1>1, <1>2, Invariant, PTL DEF Spec

\* Whatever was stored before, went wrong in between or ran since, a provider
\* that a run switched to http with a key to copy has that key, unless the run
\* was stopped between the entry and its plaintext key.
THEOREM KeysComeBeforeHttp == Spec => []KeyBeforeHttp
<1>1. IInv => KeyBeforeHttp
  BY DEF IInv, MovedInv, KeyBeforeHttp
<1>. QED
  BY <1>1, Invariant, PTL

\* A run that overwrites a key the user typed into providers.json has it in a
\* backup, unless the user stored it after the backup was made.
THEOREM KeysStayRecoverable == Spec => KeysRecoverable
<1>1. ASSUME IInv, [Next]_vars, mig' # mig, NEW p \in Provider,
             providers[p] # Nil, providers[p].ref = Typed, providers'[p].ref # Typed
      PROVE  p \in since \/ \E b \in backups : b[p] = providers[p]
  <2>1. MigrateStep
    BY <1>1 DEF Next, UserStep, vars
  <2>2. CASE UNCHANGED providers
    BY <1>1, <2>2
  <2>3. CASE WriteProviders
    BY <1>1, <2>3 DEF IInv, BackupInv, WriteProviders
  <2>4. CASE StoreKey
    <3>1. PICK q \in mig.todo : plaintext_store(q, Copied)
      BY <2>4 DEF StoreKey
    <3>2. mig.pc = "plaintext" /\ q \in Provider /\ providers[q].ref = Nil
      BY <1>1, <2>4 DEF IInv, KeysInv, TypeOK, StoreKey
    <3>3. q # p
      BY <1>1, <3>2, ProvidersAssumption DEF Key
    <3>4. providers'[p] = providers[p]
      BY <1>1, <3>1, <3>2, <3>3, StoredKeys DEF IInv, Key
    <3>. QED
      BY <1>1, <3>4
  <2>. QED
    BY <2>1, <2>2, <2>3, <2>4 DEF MigrateStep, Start, PlanProvider, ShowPlan, LockModels, Backup, StoreKeyring,
       Relock, PlanModels, SaveModels, Stop, providerVars
<1>2. IInv /\ [Next]_vars =>
        [\A p \in Provider :
          /\ mig' # mig /\ providers[p] # Nil
          /\ providers[p].ref = Typed /\ providers'[p].ref # Typed
          => p \in since \/ \E b \in backups : b[p] = providers[p]]_vars
  BY <1>1
<1>. QED
  BY <1>2, Invariant, PTL DEF Spec, KeysRecoverable

\* The entry a run writes keeps the healthcheck that is set.
LEMMA HealthcheckKept ==
    ASSUME IInv, MigrateStep, NEW p \in Provider, providers[p] # Nil, providers[p].healthcheck # Nil
    PROVE  providers'[p].healthcheck = providers[p].healthcheck
<1> USE DEF IInv
<1>1. CASE UNCHANGED providers
  BY <1>1
<1>2. CASE WriteProviders
  <2>1. providers[p] \in Entry
    BY DEF TypeOK, ProvidersTypeOK
  <2>2. CASE mig.plan[p].entry = Nil
    BY <1>2, <2>2, WrittenEntries
  <2>3. CASE mig.plan[p].entry # Nil
    <3>1. /\ mig.plan[p] \in PlanItem /\ ItemOf(p, mig.plan[p])
          /\ providers'[p] = Merged(providers[p], mig.plan[p].entry)
      BY <1>2, <2>3, WrittenEntries
    <3>. QED
      BY <2>1, <2>3, <3>1, MergedEntries
  <2>. QED
    BY <2>2, <2>3
<1>3. CASE StoreKey
  <2>1. PICK q \in mig.todo : plaintext_store(q, Copied)
    BY <1>3 DEF StoreKey
  <2>2. q \in Provider /\ Copied \in Key
    BY DEF TypeOK, Key
  <2>3. CASE q # p
    BY <2>1, <2>2, <2>3, StoredKeys
  <2>4. CASE q = p
    <3>1. providers'[p] = [providers[p] EXCEPT !.ref = Copied] /\ providers[p] \in Entry
      BY <2>1, <2>2, <2>4, StoredKeys DEF TypeOK, ProvidersTypeOK
    <3>. QED
      BY <3>1 DEF Entry
  <2>. QED
    BY <2>3, <2>4
<1>. QED
  BY <1>1, <1>2, <1>3 DEF MigrateStep, Start, PlanProvider, ShowPlan, LockModels, Backup, StoreKeyring,
     Relock, PlanModels, SaveModels, Stop, providerVars

\* However long ago its plan was made, no run changes a body, a context or a
\* healthcheck that is set.
THEOREM ChoicesAreKept == Spec => ChoicesKept
<1>1. ASSUME IInv, [Next]_vars, mig' # mig, NEW p \in Provider
      PROVE  /\ models[p].body # Nil => models'[p].body = models[p].body
             /\ models[p].context # Nil => models'[p].context = models[p].context
             /\ providers[p] # Nil /\ providers[p].healthcheck # Nil
                   => providers'[p].healthcheck = providers[p].healthcheck
  <2>1. MigrateStep
    BY <1>1 DEF Next, UserStep, vars
  <2>2. CASE UNCHANGED models
    BY <1>1, <2>1, <2>2, HealthcheckKept
  <2>3. CASE SaveModels
    <3>1. models' = mig.doc /\ Keeps(mig.doc)
      BY <1>1, <2>3 DEF IInv, DocInv, SaveModels
    <3>. QED
      BY <1>1, <2>1, <3>1, HealthcheckKept DEF Keeps
  <2>. QED
    BY <2>1, <2>2, <2>3 DEF MigrateStep, Start, PlanProvider, ShowPlan, LockModels, Backup, StoreKeyring,
       Relock, WriteProviders, StoreKey, PlanModels, Stop
<1>2. IInv /\ [Next]_vars =>
        [mig' # mig => \A p \in Provider :
          /\ models[p].body # Nil => models'[p].body = models[p].body
          /\ models[p].context # Nil => models'[p].context = models[p].context
          /\ providers[p] # Nil /\ providers[p].healthcheck # Nil
                => providers'[p].healthcheck = providers[p].healthcheck]_vars
  BY <1>1
<1>. QED
  BY <1>2, Invariant, PTL DEF Spec, ChoicesKept

\* A key that is in the OpenCode configuration is stored somewhere, left
\* behind, or was stored before: its provider is not taken for one without.
LEMMA KeysAreNotDropped ==
    ASSUME NEW p \in Provider, NEW plan, NEW it \in plan_provider(p, plan), it.state = "new",
           ~OpenCode[p].base_url \/ OpenCode[p].key = "file"
    PROVE  it.storage # "none"
<1>1. transport(p) # "http" /\ OpenCode[p].base_url /\ OpenCode[p].key = "file"
  BY DEF plan_provider, Done, Skipped, Item
<1>2. PICK source \in KeySources(p) \ {"error"}, choice \in Storage : it \in Planned(p, plan, source, choice)
  BY <1>1 DEF plan_provider, Skipped, Item
<1>3. source # Nil
  BY <1>1, <1>2, MigrateAssumption DEF KeySources
<1>4. resolve_storage(p, source, choice) # "none"
  BY <1>3 DEF resolve_storage, Storage
<1>5. it.storage = resolve_storage(p, source, choice)
  <2>1. PICK storage : storage = resolve_storage(p, source, choice)
    OBVIOUS
  <2>2. PICK state, ref, entry : it = Item(state, storage, ref, source, entry)
    BY <1>2, <2>1 DEF Planned
  <2>. QED
    BY <2>1, <2>2 DEF Item
<1>. QED
  BY <1>4, <1>5

\* A run nobody interfered with is through: planned again, from the same
\* answers and with nothing new from the providers, nothing is to be written.
THEOREM RerunsFindNothing == Spec => []RerunFindsNothing
<1>1. ASSUME IInv, settled # Unsettled,
             NEW plan \in [Provider -> UNION {plan_provider(p, NoPlan) : p \in Provider}],
             \A p \in Provider : /\ plan[p] \in plan_provider(p, NoPlan)
                                 /\ plan[p].state \in {"done", "skip"} \/ plan[p].storage = settled[p]
      PROVE  ~has_changes(plan, {})
  <2>1. providers \in ProvidersFile /\ models \in ModelsFile
    BY <1>1 DEF IInv, TypeOK, ProvidersTypeOK, ProvidersFile
  <2>2. ASSUME NEW p \in Provider
        PROVE  /\ plan[p].entry = Nil \/ Merged(providers[p], plan[p].entry) = providers[p]
               /\ Lacks(plan, p) => Filled(models, p)
    <3>1. PICK it : it = plan[p]
      OBVIOUS
    <3>2. /\ it \in PlanItem /\ ItemOf(p, it)
          /\ it.state = "done" <=> transport(p) = "http"
          /\ it.state \in {"done", "skip"} \/ it.storage = settled[p]
      BY <1>1, <3>1, PlannedItems
    <3>3. AtRest(p, settled[p])
      BY <1>1 DEF IInv, SettledInv
    <3>4. CASE it.state \in {"done", "skip"}
      BY <3>1, <3>2, <3>3, <3>4 DEF ItemOf, AtRest, Lacks
    <3>5. CASE it.state = "pending"
      <4>1. it.storage = "skip" /\ it.entry = make_entry("skip", Nil)
        BY <3>2, <3>5 DEF ItemOf
      <4>2. Fixed(p)
        BY <3>2, <3>3, <3>5, <4>1 DEF AtRest
      <4>. QED
        BY <3>1, <3>5, <4>1, <4>2 DEF Fixed, Lacks
    <3>6. CASE it.state = "new"
      <4>1. it.storage = settled[p] /\ it.storage # "skip" /\ transport(p) # "http"
        BY <3>2, <3>6 DEF ItemOf
      <4>2. it.storage = "none" /\ (~OpenCode[p].base_url \/ OpenCode[p].key = "file")
        BY <3>3, <4>1 DEF AtRest
      <4>. QED
        BY <1>1, <3>1, <3>6, <4>2, KeysAreNotDropped
    <3>. QED
      BY <3>2, <3>4, <3>5, <3>6 DEF PlanItem
  <2>3. providers = providers_doc(plan)
    BY <2>1, <2>2 DEF providers_doc, ProvidersFile
  <2>4. models = models_doc([p \in Provider |-> model_fills(plan, p, {})])
    <3>1. ASSUME NEW p \in Provider
          PROVE  /\ models[p].body = Nil => model_fills(plan, p, {}).body = Nil
                 /\ models[p].context = Nil => model_fills(plan, p, {}).context = Nil
      BY <2>2 DEF model_fills, Filled
    <3>2. \A p \in Provider :
            models[p] = [body |-> models[p].body, context |-> models[p].context]
      BY <2>1 DEF ModelsFile
    <3>. QED
      BY <2>1, <3>1, <3>2 DEF models_doc, ModelsFile
  <2>. QED
    BY <2>3, <2>4 DEF has_changes
<1>2. IInv => RerunFindsNothing
  BY <1>1 DEF RerunFindsNothing
<1>. QED
  BY <1>2, Invariant, PTL
=============================================================================
