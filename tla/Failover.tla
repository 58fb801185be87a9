------------------------------ MODULE Failover ------------------------------
(***************************************************************************)
(* failover.py: a call tries the candidate models of its role in order     *)
(* until one answers.  Each call is a process of its own; the calls meet   *)
(* in the models registry, the circuit breaker and the healthcheck cache,  *)
(* next to background probes and to an operator who edits the registry.    *)
(*                                                                         *)
(*   idle -> pick -> dispatch -> ask [-> note] -> judge [-> record] -> pick *)
(*                                                                         *)
(* Each breaker operation is one step here: BreakerFile shows that the     *)
(* file, its lock and its rename make it so.                               *)
(***************************************************************************)
EXTENDS Naturals, Sequences, FiniteSets, Functions

CONSTANTS
    Call,          \* the calls, one process each
    Model,         \* the ids that may be in the registry
    Readers,       \* the models with the bulk-read role
    Writers,       \* the models with the code-write role
    HealthChecked, \* the http models of a provider with a healthcheck
    Threshold, Cooldown, UnreachCool,   \* the breaker's limits
    Retry, TTL,    \* how long an unhealthy and a healthy status stay fresh
    Seeds,         \* what a run starts from: order, active model, the keys that are paused
    MaxParts,      \* bound: requests of one chunked attempt
    MaxEdits,      \* bound: operator commands
    MaxClock,      \* bound: the last second of the run
    NoModel

Role == {"bulk-read", "code-write"}
Key == Model \X Role
Zero == [failures |-> 0, until |-> 0]
Paused == [failures |-> Threshold, until |-> Cooldown]   \* since the first second

ASSUME FailoverAssumption ==
    /\ Readers \subseteq Model /\ Writers \subseteq Model
    /\ HealthChecked \subseteq Model
    /\ IsFiniteSet(Call) /\ IsFiniteSet(Model)
    /\ NoModel \notin Model
    /\ Seeds \subseteq [registry : Seq(Model), active : Model \cup {NoModel}, paused : SUBSET Key]
    /\ \A seed \in Seeds : IsInjective(seed.registry)   \* validate refuses duplicate ids
    /\ {Threshold, Cooldown, UnreachCool, Retry, TTL} \subseteq Nat
    /\ {MaxParts, MaxEdits, MaxClock} \subseteq Nat

VARIABLES
    registry,      \* the registered models, in priority order
    enabled,       \* the models that are not disabled
    active,        \* the active model, or NoModel
    leftovers,     \* removed models whose agent files and breaker state remain
    entry,         \* key -> the breaker's state of it
    health,        \* model -> its status in the healthcheck cache
    probe,         \* model -> its background probe
    call,          \* call -> where it is
    clock,
    edits,         \* operator commands so far
    blame,         \* history: key -> attempts in which the model failed
    excused,       \* history: keys whose count something may have reset
    seen           \* history: call -> model -> what became of the attempt

registryVars == <<registry, enabled, active, leftovers, edits>>
healthVars == <<health, probe>>
historyVars == <<blame, excused, seen>>
vars == <<registryVars, entry, healthVars, call, clock, historyVars>>

Idle == [pc |-> "idle", role |-> "bulk-read", todo |-> <<>>, model |-> NoModel,
         gated |-> FALSE, parts |-> 0, status |-> "none", stamp |-> 0,
         tried |-> FALSE, oversize |-> FALSE, reason |-> "none"]

Capable(r) == IF r = "bulk-read" THEN Readers ELSE Writers

Registered == Range(registry)

\* The members of set S in sequence s, in its order: the n-th is at the index
\* up to which there are n of them.
Kept(s, S) ==
    LET Index == {i \in DOMAIN s : s[i] \in S}
        UpTo(i) == Cardinality({j \in Index : j <= i})
    IN  [n \in 1..Cardinality(Index) |-> s[CHOOSE i \in Index : UpTo(i) = n]]

Usable(r) == Registered \cap enabled \cap Capable(r)

\* candidates: the active model first, then the enabled ones in order.
Candidates(r) ==
    IF active \in Usable(r)
        THEN <<active>> \o Kept(registry, Usable(r) \ {active})
        ELSE Kept(registry, Usable(r))

KeyOf(c) == <<call[c].model, call[c].role>>

IsOpen(k) == entry[k].failures >= Threshold /\ clock < entry[k].until

\* verdict: a fresh unhealthy status blocks, a stale or missing one is due.
Age(m) == clock - health[m].at
Blocked(m) == health[m].status = "unhealthy" /\ Age(m) < Retry
Due(m) ==
    \/ health[m].status = "none"
    \/ health[m].status = "unhealthy" /\ Age(m) >= Retry
    \/ health[m].status = "healthy" /\ Age(m) >= TTL

Noted(m, s) == [health EXCEPT ![m] = [status |-> s, at |-> clock]]

\* spawn: one probe of a model at a time.
Spawned(m) == IF probe[m] = "none" THEN [probe EXCEPT ![m] = "running"] ELSE probe

Cleared(m) == [k \in Key |-> IF k[1] = m THEN Zero ELSE entry[k]]

KeysOf(m) == {k \in Key : k[1] = m}

Init ==
    /\ \E seed \in Seeds :
          /\ registry = seed.registry /\ active = seed.active
          /\ entry = [k \in Key |-> IF k \in seed.paused THEN Paused ELSE Zero]
          /\ blame = [k \in Key |-> IF k \in seed.paused THEN Threshold ELSE 0]
    /\ enabled = Model
    /\ leftovers = {}
    /\ health = [m \in Model |-> [status |-> "none", at |-> 0]]
    /\ probe = [m \in Model |-> "none"]
    /\ call = [c \in Call |-> Idle]
    /\ clock = 0
    /\ edits = 0
    /\ excused = {}
    /\ seen = [c \in Call |-> [m \in Model |-> "no"]]

(***************************************************************************)
(* A call                                                                  *)
(***************************************************************************)

\* The call ends; what only the running call needs is forgotten.
Ended(c, why) ==
    [Idle EXCEPT !.pc = "ended", !.role = call[c].role, !.reason = why]

\* The attempt is over, the next candidate's turn.
NextCandidate(c) ==
    [call[c] EXCEPT !.pc = "pick", !.model = NoModel, !.gated = FALSE,
                    !.parts = 0, !.status = "none", !.stamp = 0]

\* The candidates are read once, when the call starts.
Start(c) ==
    /\ call[c].pc = "idle"
    /\ \E r \in Role :
          call' = [call EXCEPT ![c] =
                      IF Candidates(r) = <<>>
                          THEN [Ended(c, "nocandidates") EXCEPT !.role = r]
                          ELSE [Idle EXCEPT !.pc = "pick", !.role = r, !.todo = Candidates(r)]]
    /\ UNCHANGED <<registryVars, entry, healthVars, clock, historyVars>>

\* A candidate whose breaker is open is passed over.
PassOver(c) ==
    /\ call[c].pc = "pick" /\ call[c].todo # <<>>
    /\ IsOpen(<<Head(call[c].todo), call[c].role>>)
    /\ call' = [call EXCEPT ![c].todo = Tail(@)]
    /\ seen' = [seen EXCEPT ![c][Head(call[c].todo)] = "paused"]
    /\ UNCHANGED <<registryVars, entry, healthVars, clock, blame, excused>>

\* Mutant of Pick: that a candidate was tried is not noted.
PickUnnoticed(c) ==
    /\ call[c].pc = "pick" /\ call[c].todo # <<>>
    /\ ~IsOpen(<<Head(call[c].todo), call[c].role>>)
    /\ call' = [call EXCEPT ![c].pc = "dispatch",
                            ![c].model = Head(call[c].todo), ![c].todo = Tail(@)]
    /\ UNCHANGED <<registryVars, entry, healthVars, clock, historyVars>>

Pick(c) ==
    /\ call[c].pc = "pick" /\ call[c].todo # <<>>
    /\ ~IsOpen(<<Head(call[c].todo), call[c].role>>)
    /\ call' = [call EXCEPT ![c].pc = "dispatch", ![c].tried = TRUE,
                            ![c].model = Head(call[c].todo), ![c].todo = Tail(@)]
    /\ UNCHANGED <<registryVars, entry, healthVars, clock, historyVars>>

\* Mutant of Exhausted: a call whose input was too large goes on for ever.
ExhaustedUnlessOversize(c) ==
    /\ call[c].pc = "pick" /\ call[c].todo = <<>> /\ ~call[c].oversize
    /\ call' = [call EXCEPT ![c] =
                   Ended(c, IF ~call[c].tried THEN "paused"
                            ELSE IF call[c].oversize THEN "nodelegate" ELSE "allfailed")]
    /\ UNCHANGED <<registryVars, entry, healthVars, clock, historyVars>>

\* No candidate is left: the reason the call fails with.
Exhausted(c) ==
    /\ call[c].pc = "pick" /\ call[c].todo = <<>>
    /\ call' = [call EXCEPT ![c] =
                   Ended(c, IF ~call[c].tried THEN "paused"
                            ELSE IF call[c].oversize THEN "nodelegate" ELSE "allfailed")]
    /\ UNCHANGED <<registryVars, entry, healthVars, clock, historyVars>>

\* The transport refuses before it sends anything: a config problem (always,
\* once the model and its agent file are gone) or an input too large.
Refuse(c) ==
    /\ call[c].pc = "dispatch"
    /\ \E s \in {"config", "oversize"} :
          /\ s = "oversize" => call[c].model \in Registered \cup leftovers
          /\ call' = [call EXCEPT ![c].pc = "judge", ![c].status = s]
    /\ UNCHANGED <<registryVars, entry, healthVars, clock, historyVars>>

\* The gate: a fresh unhealthy status ends the attempt, a missing or stale
\* one starts a probe and goes on.  A model the operator is removing has no
\* provider any more, but its agent file still runs.
Dispatch(c) ==
    LET m == call[c].model
        gated == m \in Registered \cap HealthChecked
    IN  /\ call[c].pc = "dispatch"
        /\ m \in Registered \cup leftovers
        /\ IF gated /\ Blocked(m)
               THEN call' = [call EXCEPT ![c].pc = "judge", ![c].status = "skipped"]
               ELSE call' = [call EXCEPT ![c].pc = "ask", ![c].gated = gated]
        /\ probe' = IF gated /\ Due(m) THEN Spawned(m) ELSE probe
        /\ UNCHANGED <<registryVars, entry, health, clock, historyVars>>

\* One request is answered: the whole attempt, or one part of a chunked one.
\* The first answer of a gated attempt is noted as healthy.
AskAnswered(c) ==
    /\ call[c].pc = "ask"
    /\ \E s \in {"answer", "partial"} :
          LET first == call[c].gated /\ call[c].parts = 0
          IN  /\ s = "partial" => /\ call[c].role = "bulk-read"
                                  /\ call[c].parts + 1 < MaxParts
              /\ call' = [call EXCEPT ![c].status = s, ![c].parts = @ + 1,
                                      ![c].pc = IF first THEN "note"
                                                ELSE IF s = "answer" THEN "judge" ELSE "ask"]
              /\ health' = IF first THEN Noted(call[c].model, "healthy") ELSE health
    /\ UNCHANGED <<registryVars, entry, probe, clock, historyVars>>

\* note_call's clear_breaker after a good answer; a failed write is ignored.
ClearNoted(c) ==
    /\ call[c].pc = "note"
    /\ entry' \in {Cleared(call[c].model), entry}
    /\ call' = [call EXCEPT ![c].pc = IF call[c].status = "answer" THEN "judge" ELSE "ask"]
    /\ excused' = excused \cup (KeysOf(call[c].model) \ {KeyOf(c)})
    /\ UNCHANGED <<registryVars, healthVars, clock, blame, seen>>

\* "failed" stands for TIMEOUT, ERROR, EMPTY and DEADLINE, which failover
\* treats alike.
AskFailed(c) ==
    /\ call[c].pc = "ask"
    /\ \E s \in {"failed", "auth", "config"} :
          /\ call' = [call EXCEPT ![c].pc = "judge", ![c].status = s]
          /\ blame' = IF s = "failed" THEN [blame EXCEPT ![KeyOf(c)] = @ + 1] ELSE blame
    /\ UNCHANGED <<registryVars, entry, healthVars, clock, excused, seen>>

\* No connection: with a healthcheck it only starts a probe.
AskNoConnection(c) ==
    /\ call[c].pc = "ask"
    /\ call[c].gated \/ call[c].model \notin HealthChecked
    /\ call' = [call EXCEPT ![c].pc = "judge", ![c].status = "unreachable"]
    /\ probe' = IF call[c].gated THEN Spawned(call[c].model) ELSE probe
    /\ blame' = IF call[c].gated THEN blame ELSE [blame EXCEPT ![KeyOf(c)] = @ + 1]
    /\ UNCHANGED <<registryVars, entry, health, clock, excused, seen>>

\* HTTP 404 or 5xx of a provider with a healthcheck.
AskBrokenRoute(c) ==
    /\ call[c].pc = "ask" /\ call[c].gated
    /\ call' = [call EXCEPT ![c].pc = "judge", ![c].status = "unreachable"]
    /\ health' = Noted(call[c].model, "unhealthy")
    /\ UNCHANGED <<registryVars, entry, probe, clock, historyVars>>

\* accept: a bulk-read answer is taken as it is, a code-write answer may be
\* unusable, or impossible to check.
JudgeAnswer(c) ==
    /\ call[c].pc = "judge" /\ call[c].status = "answer"
    /\ \/ /\ call' = [call EXCEPT ![c].pc = "record", ![c].status = "success"]
          /\ seen' = [seen EXCEPT ![c][call[c].model] = "success"]
          /\ UNCHANGED blame
       \/ /\ call[c].role = "code-write"
          /\ call' = [call EXCEPT ![c].pc = "record", ![c].status = "failed", ![c].stamp = clock]
          /\ seen' = [seen EXCEPT ![c][call[c].model] = "failed"]
          /\ blame' = [blame EXCEPT ![KeyOf(c)] = @ + 1]
       \/ /\ call[c].role = "code-write"
          /\ call' = [call EXCEPT ![c] = Ended(c, "aborted")]
          /\ seen' = [seen EXCEPT ![c][call[c].model] = "aborted"]
          /\ UNCHANGED blame
    /\ UNCHANGED <<registryVars, entry, healthVars, clock, excused>>

\* Mutant of HealthOwns: an unreachable model is always the breaker's.
HealthOwnsNothing(c) == call[c].status = "unreachable" /\ call[c].model = NoModel

\* owns_unreachable: the healthcheck is on and its cache folder is trusted.
HealthOwns(c) == call[c].status = "unreachable" /\ call[c].model \in HealthChecked

\* What a failed attempt costs the model: nothing for a rejected key, a
\* config problem, a skip, an oversize input or a status the healthcheck owns.
JudgeFailure(c) ==
    /\ call[c].pc = "judge" /\ call[c].status # "answer"
    /\ call' = [call EXCEPT ![c] =
                   IF call[c].status \in {"auth", "config", "skipped"} \/ HealthOwns(c)
                       THEN NextCandidate(c)
                   ELSE IF call[c].status = "oversize"
                       THEN [NextCandidate(c) EXCEPT !.oversize = TRUE]
                   ELSE [call[c] EXCEPT !.pc = "record", !.stamp = clock]]
    /\ seen' = [seen EXCEPT ![c][call[c].model] = call[c].status]
    /\ UNCHANGED <<registryVars, entry, healthVars, clock, blame, excused>>

\* Mutant of Bumped: each failure is counted as the first one.
BumpedAnew(c) ==
    LET cooldown == IF call[c].status = "unreachable" THEN UnreachCool ELSE Cooldown
    IN  [failures |-> 1, until |-> IF 1 >= Threshold THEN call[c].stamp + cooldown ELSE 0]

\* record_failure's bump, with the time it read before it took the lock.
Bumped(c) ==
    LET e == entry[KeyOf(c)]
        cooldown == IF call[c].status = "unreachable" THEN UnreachCool ELSE Cooldown
    IN  [failures |-> e.failures + 1,
         until |-> IF e.failures + 1 >= Threshold THEN call[c].stamp + cooldown ELSE e.until]

\* Mutant of Record: the outcome of every role goes to the plain key.
RecordPlainKey(c) ==
    LET k == <<call[c].model, "bulk-read">>
        success == call[c].status = "success"
    IN  /\ call[c].pc = "record"
        /\ entry' = [entry EXCEPT ![k] = IF success THEN Zero ELSE Bumped(c)]
        /\ excused' = IF success THEN excused \cup {k} ELSE excused
        /\ call' = [call EXCEPT ![c] = IF success THEN Ended(c, "answered") ELSE NextCandidate(c)]
        /\ UNCHANGED <<registryVars, healthVars, clock, blame, seen>>

\* _record: the breaker is updated, or the write fails with a warning.
Record(c) ==
    LET k == KeyOf(c)
        success == call[c].status = "success"
    IN  /\ call[c].pc = "record"
        /\ \/ /\ entry' = [entry EXCEPT ![k] = IF success THEN Zero ELSE Bumped(c)]
              /\ excused' = IF success THEN excused \cup {k} ELSE excused
           \/ /\ excused' = excused \cup {k}
              /\ UNCHANGED entry
        /\ call' = [call EXCEPT ![c] = IF success THEN Ended(c, "answered") ELSE NextCandidate(c)]
        /\ UNCHANGED <<registryVars, healthVars, clock, blame, seen>>

\* A signal kills the process of the call.
Kill(c) ==
    /\ call[c].pc \notin {"idle", "ended"}
    /\ call' = [call EXCEPT ![c] = Ended(c, "killed")]
    /\ excused' = excused \cup (KeysOf(call[c].model) \cap {KeyOf(c)})
    /\ UNCHANGED <<registryVars, entry, healthVars, clock, blame, seen>>

(***************************************************************************)
(* Background probes                                                       *)
(***************************************************************************)

\* At session start: a probe for every enabled model whose status is due.
WarmUp ==
    /\ probe' = [m \in Model |->
                    IF /\ m \in Registered \cap enabled \cap HealthChecked
                       /\ probe[m] = "none" /\ Due(m)
                        THEN "running" ELSE probe[m]]
    /\ probe' # probe
    /\ UNCHANGED <<registryVars, entry, health, call, clock, historyVars>>

\* A probe ends with a verdict, or without one (it could not start, read its
\* config or finish in time).
ProbeEnds(m) ==
    /\ probe[m] = "running"
    /\ \/ /\ health' = Noted(m, "healthy")
          /\ probe' = [probe EXCEPT ![m] = "clearing"]
       \/ /\ health' = Noted(m, "unhealthy")
          /\ probe' = [probe EXCEPT ![m] = "none"]
       \/ /\ probe' = [probe EXCEPT ![m] = "none"]
          /\ UNCHANGED health
    /\ UNCHANGED <<registryVars, entry, call, clock, historyVars>>

ProbeClears(m) ==
    /\ probe[m] = "clearing"
    /\ entry' \in {Cleared(m), entry}
    /\ probe' = [probe EXCEPT ![m] = "none"]
    /\ excused' = excused \cup KeysOf(m)
    /\ UNCHANGED <<registryVars, health, call, clock, blame, seen>>

(***************************************************************************)
(* The operator                                                            *)
(***************************************************************************)

Edit ==
    /\ edits < MaxEdits
    /\ edits' = edits + 1
    /\ UNCHANGED <<entry, healthVars, call, clock, historyVars>>

SetEnabled(m) ==
    /\ Edit
    /\ m \in Registered
    /\ enabled' \in {enabled \cup {m}, enabled \ {m}}
    /\ UNCHANGED <<registry, active, leftovers>>

Activate(m) ==
    /\ Edit
    /\ m \in Registered \cap enabled
    /\ active' = m
    /\ UNCHANGED <<registry, enabled, leftovers>>

\* cmd_remove: the registry first, then the agent files and the breaker state.
Remove(m) ==
    /\ Edit
    /\ m \in Registered
    /\ registry' = Kept(registry, Model \ {m})
    /\ active' = IF active = m THEN NoModel ELSE active
    /\ leftovers' = leftovers \cup {m}
    /\ UNCHANGED enabled

DropLeftovers(m) ==
    /\ m \in leftovers
    /\ leftovers' = leftovers \ {m}
    /\ entry' = Cleared(m)
    /\ excused' = excused \cup KeysOf(m)
    /\ UNCHANGED <<registry, enabled, active, edits, healthVars, call, clock, blame, seen>>

Add(m) ==
    /\ Edit
    /\ m \notin Registered
    /\ registry' = Append(registry, m)
    /\ enabled' = enabled \cup {m}
    /\ UNCHANGED <<active, leftovers>>

Tick ==
    /\ clock < MaxClock
    /\ clock' = clock + 1
    /\ UNCHANGED <<registryVars, entry, healthVars, call, historyVars>>

CallStep(c) ==
    \/ PassOver(c) \/ Pick(c) \/ Exhausted(c) \/ Refuse(c) \/ Dispatch(c)
    \/ AskAnswered(c) \/ ClearNoted(c) \/ AskFailed(c) \/ AskNoConnection(c)
    \/ AskBrokenRoute(c) \/ JudgeAnswer(c) \/ JudgeFailure(c) \/ Record(c)

\* The calls among themselves; ReadGate adds the probes and the operator.
Next ==
    \/ \E c \in Call : Start(c) \/ CallStep(c) \/ Kill(c)
    \/ Tick

Spec == Init /\ [][Next]_vars

(***************************************************************************)
(* Properties                                                              *)
(***************************************************************************)

Status == {"none", "config", "oversize", "skipped", "answer", "partial",
           "failed", "auth", "unreachable", "success"}

CallState ==
    [pc : {"idle", "pick", "dispatch", "ask", "note", "judge", "record", "ended"},
     role : Role, todo : Seq(Model), model : Model \cup {NoModel},
     gated : BOOLEAN, parts : 0..MaxParts, status : Status,
     stamp : 0..MaxClock, tried : BOOLEAN, oversize : BOOLEAN,
     reason : {"none", "nocandidates", "paused", "nodelegate", "allfailed",
               "answered", "aborted", "killed"}]

\* Each variable has its type.
TypeOK ==
    /\ registry \in Seq(Model)
    /\ enabled \subseteq Model
    /\ active \in Model \cup {NoModel}
    /\ leftovers \subseteq Model
    /\ entry \in [Key -> [failures : Nat, until : Nat]]
    /\ health \in [Model -> [status : {"none", "healthy", "unhealthy"}, at : 0..MaxClock]]
    /\ probe \in [Model -> {"none", "running", "clearing"}]
    /\ call \in [Call -> CallState]
    /\ clock \in 0..MaxClock
    /\ edits \in 0..MaxEdits
    /\ blame \in [Key -> Nat]
    /\ excused \subseteq Key
    /\ seen \in [Call -> [Model -> {"no", "paused", "aborted"} \cup Status]]

\* A breaker never counts more failures than attempts in which its model
\* failed in its role: a rejected key, a config problem, an input too large,
\* a skip or a status the healthcheck owns never pauses a model.
CountsAreEarned == \A k \in Key : entry[k].failures <= blame[k]

\* The failures of key k add up: once Threshold of them came since nothing
\* excused it (an accepted answer, a good probe, an operator, a write that was
\* lost) it is at its threshold, when the calls on it are over.
FailuresAddUp(k) ==
    blame[k] >= Threshold /\ (\A c \in Call : KeyOf(c) # k)
        => entry[k].failures >= Threshold

\* The failures of a model without a healthcheck pause it, whatever other calls
\* do to it in its other role meanwhile.
FailuresPause == \A k \in Key \ excused : k[1] \notin HealthChecked => FailuresAddUp(k)

\* README.md: "N consecutive failures on a model pause it", with no such
\* condition.
ConsecutiveFailuresPause == \A k \in Key \ excused : FailuresAddUp(k)

\* The breaker state of a key moves only when a call judged under that very
\* key records its outcome, or when its model is cleared as a whole.
RolesApart ==
    [][\A k \in Key : entry'[k] # entry[k] =>
          \/ \E c \in Call : /\ KeyOf(c) = k /\ call[c].pc = "record"
                              /\ call'[c].pc # "record"
          \/ \E c \in Call : call[c].model = k[1] /\ call[c].pc = "note"
          \/ probe[k[1]] = "clearing"
          \/ k[1] \in leftovers]_vars

\* The reason a call ends with is the truth about every candidate: "paused"
\* only if nothing was tried, "nodelegate" only if a model refused the size,
\* "answered" for one answer.  With a registry nobody edits, a call gives up
\* only after it looked at every enabled candidate.
ReasonHonest ==
    \A c \in Call :
        LET why == call[c].reason
            With(s) == {m \in Model : seen[c][m] \in s}
            tried == Model \ With({"no", "paused"})
        IN  /\ why = "paused" => tried = {} /\ With({"paused"}) # {}
            /\ why = "nodelegate" => With({"oversize"}) # {}
            /\ why = "allfailed" => tried # {} /\ With({"oversize"}) = {}
            /\ why = "answered" => Cardinality(With({"success"})) = 1
            /\ why \in {"nodelegate", "allfailed"} => With({"success"}) = {}
            /\ why \in {"paused", "nodelegate", "allfailed"} /\ edits = 0
                  => Capable(call[c].role) \cap Registered \subseteq Model \ With({"no"})

\* A started call ends, whatever the other processes do to the files.
EveryCallEnds == \A c \in Call : call[c].pc = "pick" ~> call[c].pc = "ended"
=============================================================================
