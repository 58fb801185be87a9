----------------------------- MODULE HealthProbe -----------------------------
(***************************************************************************)
(* healthcheck_bg.py and healthcheck.py: callers start background probes,  *)
(* one lock file per model, and probes and real calls note what they saw   *)
(* in the status cache, a file they read and replace without a lock.       *)
(*                                                                         *)
(*   caller  idle -> try [-> stat -> drop -> try] -> ... -> launch -> done *)
(*   child   none -> next -> probe -> [note] -> release -> next ... done   *)
(*   note    idle -> load -> store -> idle                                 *)
(*                                                                         *)
(* A caller launches one child, which probes the models the caller could   *)
(* lock, one after the other.                                              *)
(***************************************************************************)
EXTENDS Integers, Sequences, FiniteSets, FiniteSetsExt, SequencesExt

CONSTANTS
    Model,         \* models of one provider with a healthcheck
    Caller,        \* processes that start probes
    Call,          \* real calls that note their outcome
    Cap,           \* the time cap of one probe
    Verdict,       \* the statuses a check may find
    Prompt,        \* no caller takes as long as a second
    MaxKills,      \* bound: processes killed by SIGKILL
    MaxEdits,      \* bound: edits of the provider's base_url
    MaxClock,      \* bound: the last second of the run
    NoLock         \* no lock file

ASSUME HealthAssumption ==
    /\ IsFiniteSet(Model) /\ Cap \in Nat \ {0} /\ {MaxKills, MaxEdits, MaxClock} \subseteq Nat
    /\ NoLock \notin Nat /\ Prompt \in BOOLEAN
    /\ Verdict \subseteq {"healthy", "unhealthy"} /\ Caller \cap Call = {}

VARIABLES
    cache,         \* model -> [status, at], as in the cache file
    lock,          \* model -> the time its lock file was made, or NoLock
    caller, child, \* caller -> where it is, and where the child it started is
    note,          \* writer -> its update of the cache
    usable,        \* whether the provider has a usable base_url
    edits, kills, clock,
    given,         \* history: model -> the verdicts given on it
    twice,         \* history: models probed while another probe of it ran
    lost,          \* history: models whose lock a process left when it was stopped
    aged           \* history: models with a lock that outlived twice the cap

envVars == <<usable, edits, kills, clock>>
historyVars == <<given, twice, lost, aged>>
vars == <<cache, lock, caller, child, note, envVars, historyVars>>

Writer == Caller \cup Call
Unknown == [status |-> "none", at |-> 0]
IdleNote == [pc |-> "idle", model |-> CHOOSE m \in Model : TRUE, verdict |-> Unknown,
             snap |-> [m \in Model |-> Unknown]]
IdleCaller == [pc |-> "idle", todo |-> <<>>, tries |-> 0, claimed |-> <<>>]
NoChild == [pc |-> "none", queue |-> <<>>, stop |-> 0]

Init ==
    /\ cache = [m \in Model |-> Unknown]
    /\ lock = [m \in Model |-> NoLock]
    /\ caller = [p \in Caller |-> IdleCaller]
    /\ child = [p \in Caller |-> NoChild]
    /\ note = [w \in Writer |-> IF w \in Call THEN [IdleNote EXCEPT !.pc = "new"] ELSE IdleNote]
    /\ usable = TRUE /\ edits = 0 /\ kills = 0 /\ clock = 0
    /\ given = [m \in Model |-> {}]
    /\ twice = {} /\ lost = {} /\ aged = {}

(***************************************************************************)
(* A caller: spawn_many                                                    *)
(***************************************************************************)

CallerAt(p, pc) == caller[p].pc = pc
Unlock(ms) == [m \in Model |-> IF m \in ms THEN NoLock ELSE lock[m]]

\* The gate wants one probe, the session start one for every model that is
\* due, a failed connection one whatever the status.
Ask(p) ==
    /\ CallerAt(p, "idle")
    /\ \E ms \in (SUBSET Model) \ {{}} :
          caller' = [caller EXCEPT ![p].pc = "try", ![p].todo = SetToSeq(ms)]
    /\ UNCHANGED <<cache, lock, child, note, envVars, historyVars>>

\* On to the next model, or to the launch.
NextModel(p) ==
    LET rest == Tail(caller[p].todo)
    IN  [caller[p] EXCEPT !.todo = rest, !.tries = 0,
                          !.pc = IF rest # <<>> THEN "try"
                                 ELSE IF caller[p].claimed = <<>> THEN "done" ELSE "launch"]

\* O_EXCL: the lock file is made, unless there is one.  In a folder that is not
\* trusted, or after another error, the model is left out.
TryLock(p) ==
    LET m == Head(caller[p].todo)
        rest == Tail(caller[p].todo)
    IN  /\ CallerAt(p, "try")
        /\ \/ /\ lock[m] = NoLock
              /\ lock' = [lock EXCEPT ![m] = clock]
              /\ caller' = [caller EXCEPT ![p] =
                     [pc |-> IF rest = <<>> THEN "launch" ELSE "try", todo |-> rest,
                      tries |-> 0, claimed |-> Append(caller[p].claimed, m)]]
           \/ /\ lock[m] # NoLock
              /\ caller' = [caller EXCEPT ![p].pc = "stat"]
              /\ UNCHANGED lock
           \/ caller' = [caller EXCEPT ![p] = NextModel(p)] /\ UNCHANGED lock
        /\ UNCHANGED <<cache, child, note, envVars, historyVars>>

\* _expired: a lock that is gone by now is not stale.
Expired(m, now) == lock[m] # NoLock /\ now - lock[m] > 2 * Cap

\* Mutant of StatLock: every lock is stale, and no stat fails.
StatLockStale(p) ==
    /\ CallerAt(p, "stat")
    /\ caller' = [caller EXCEPT ![p].pc = "drop"]
    /\ UNCHANGED <<cache, lock, child, note, envVars, historyVars>>

\* A lock that is not stale, or whose stat fails, is left alone.
StatLock(p) ==
    LET m == Head(caller[p].todo)
    IN  /\ CallerAt(p, "stat")
        /\ \/ Expired(m, clock) /\ caller' = [caller EXCEPT ![p].pc = "drop"]
           \/ caller' = [caller EXCEPT ![p] = NextModel(p)]
        /\ UNCHANGED <<cache, lock, child, note, envVars, historyVars>>

\* The stale lock, or the one that took its place, is removed; two tries.
DropLock(p) ==
    LET m == Head(caller[p].todo)
    IN  /\ CallerAt(p, "drop")
        /\ lock' = Unlock({m})
        /\ caller' = [caller EXCEPT ![p] =
               IF caller[p].tries = 0
                   THEN [caller[p] EXCEPT !.pc = "try", !.tries = 1]
                   ELSE NextModel(p)]
        /\ lost' = lost \ {m}
        /\ UNCHANGED <<cache, child, note, envVars, given, twice, aged>>

\* Mutant of Launch: a launch that fails keeps its locks.
LaunchKeepsLocks(p) ==
    /\ CallerAt(p, "launch")
    /\ caller' = [caller EXCEPT ![p] = [IdleCaller EXCEPT !.pc = "done"]]
    /\ \/ /\ child' = [child EXCEPT ![p] = [pc |-> "next", queue |-> caller[p].claimed,
                                            stop |-> clock + Cap * Len(caller[p].claimed)]]
          /\ UNCHANGED lock
       \/ UNCHANGED <<lock, child>>
    /\ UNCHANGED <<cache, note, envVars, historyVars>>

\* One child for all locked models, or a problem that frees the locks.
Launch(p) ==
    /\ CallerAt(p, "launch")
    /\ caller' = [caller EXCEPT ![p] = [IdleCaller EXCEPT !.pc = "done"]]
    /\ \/ /\ child' = [child EXCEPT ![p] = [pc |-> "next", queue |-> caller[p].claimed,
                                            stop |-> clock + Cap * Len(caller[p].claimed)]]
          /\ UNCHANGED lock
       \/ /\ lock' = Unlock(ToSet(caller[p].claimed))
          /\ UNCHANGED child
    /\ UNCHANGED <<cache, note, envVars, historyVars>>

(***************************************************************************)
(* The child: run and _probe                                               *)
(***************************************************************************)

ChildAt(p, pc) == child[p].pc = pc
Probing(m) == {p \in Caller : child[p].pc \in {"probe", "release"} /\ Head(child[p].queue) = m}

NextInQueue(p) ==
    LET rest == Tail(child[p].queue)
    IN  IF rest = <<>> THEN [NoChild EXCEPT !.pc = "done"]
                       ELSE [child[p] EXCEPT !.pc = "next", !.queue = rest]

\* Without a usable base_url the child cannot name the lock and leaves it.
StartProbe(p) ==
    LET m == Head(child[p].queue)
    IN  /\ ChildAt(p, "next")
        /\ IF usable
               THEN /\ child' = [child EXCEPT ![p].pc = "probe"]
                    /\ twice' = IF Probing(m) = {} THEN twice ELSE twice \cup {m}
               ELSE /\ child' = [child EXCEPT ![p] = NextInQueue(p)]
                    /\ UNCHANGED twice
        /\ UNCHANGED <<cache, lock, caller, note, envVars, given, lost, aged>>

\* A verdict is noted, or the probe fails without one.
EndProbe(p) ==
    LET m == Head(child[p].queue)
    IN  /\ ChildAt(p, "probe") /\ note[p].pc = "idle"
        /\ child' = [child EXCEPT ![p].pc = "release"]
        /\ \/ UNCHANGED <<note, given>>
           \/ \E s \in Verdict :
                 LET v == [status |-> s, at |-> clock]
                 IN  /\ note' = [note EXCEPT ![p] = [IdleNote EXCEPT !.pc = "load", !.model = m,
                                                                     !.verdict = v]]
                     /\ given' = [given EXCEPT ![m] = @ \cup {v}]
        /\ UNCHANGED <<cache, lock, caller, envVars, twice, lost, aged>>

\* The lock file is removed by its name, whoever made it.
Release(p) ==
    LET m == Head(child[p].queue)
    IN  /\ ChildAt(p, "release") /\ note[p].pc = "idle"
        /\ lock' = Unlock({m})
        /\ lost' = lost \ {m}
        /\ child' = [child EXCEPT ![p] = NextInQueue(p)]
        /\ UNCHANGED <<cache, caller, note, envVars, given, twice, aged>>

\* The time cap of all its models: the lock of the present one is freed.
HardStop(p) ==
    /\ child[p].pc \in {"next", "probe", "release"} /\ clock >= child[p].stop
    /\ lock' = IF ChildAt(p, "next") THEN lock ELSE Unlock({Head(child[p].queue)})
    /\ child' = [child EXCEPT ![p] = [NoChild EXCEPT !.pc = "done"]]
    /\ note' = [note EXCEPT ![p] = IdleNote]
    /\ lost' = lost \cup ToSet(IF ChildAt(p, "next") THEN child[p].queue ELSE Tail(child[p].queue))
    /\ UNCHANGED <<cache, caller, envVars, given, twice, aged>>

(***************************************************************************)
(* The status cache: remember                                              *)
(***************************************************************************)

\* A real call was answered, or met a broken route.
NoteCall(c) ==
    /\ note[c].pc = "new"
    /\ \E m \in Model, s \in Verdict :
          LET v == [status |-> s, at |-> clock]
          IN  /\ note' = [note EXCEPT ![c] = [IdleNote EXCEPT !.pc = "load", !.model = m,
                                                              !.verdict = v]]
              /\ given' = [given EXCEPT ![m] = @ \cup {v}]
    /\ UNCHANGED <<cache, lock, caller, child, envVars, twice, lost, aged>>

Load(w) ==
    /\ note[w].pc = "load"
    /\ note' = [note EXCEPT ![w].pc = "store", ![w].snap = cache]
    /\ UNCHANGED <<cache, lock, caller, child, envVars, historyVars>>

\* Mutant of Stored: every entry gets the time of this check.
StoredAnew(n) ==
    [m \in Model |-> IF m = n.model THEN n.verdict ELSE [n.snap[m] EXCEPT !.at = n.verdict.at]]

\* The other entries as they were read, without those from the future.
Stored(n) ==
    [m \in Model |-> IF m = n.model THEN n.verdict
                     ELSE IF n.snap[m].at > n.verdict.at THEN Unknown ELSE n.snap[m]]

\* The file is replaced; a folder that is not trusted or a failed write
\* leaves it as it is.
Store(w) ==
    LET n == note[w]
    IN  /\ n.pc = "store"
        /\ cache' = Stored(n) \/ UNCHANGED cache
        /\ note' = [note EXCEPT ![w] = IdleNote]
        /\ UNCHANGED <<lock, caller, child, envVars, given, twice, lost, aged>>

(***************************************************************************)
(* The environment                                                         *)
(***************************************************************************)

\* SIGKILL: a caller or a child leaves the locks it made.
Kill(p) ==
    /\ kills < MaxKills /\ kills' = kills + 1
    /\ \/ /\ caller[p].pc \notin {"idle", "done"}
          /\ lost' = lost \cup ToSet(caller[p].claimed)
          /\ caller' = [caller EXCEPT ![p] = [IdleCaller EXCEPT !.pc = "done"]]
          /\ UNCHANGED <<child, note>>
       \/ /\ child[p].pc \notin {"none", "done"}
          /\ lost' = lost \cup ToSet(child[p].queue)
          /\ child' = [child EXCEPT ![p] = [NoChild EXCEPT !.pc = "done"]]
          /\ note' = [note EXCEPT ![p] = IdleNote]
          /\ UNCHANGED caller
    /\ UNCHANGED <<cache, lock, usable, edits, clock, given, twice, aged>>

EditProvider ==
    /\ edits < MaxEdits /\ edits' = edits + 1
    /\ usable' = ~usable
    /\ UNCHANGED <<cache, lock, caller, child, note, kills, clock, historyVars>>

\* The timer of a child is punctual.
Tick ==
    /\ clock < MaxClock /\ clock' = clock + 1
    /\ \A p \in Caller : child[p].pc \in {"none", "done"} \/ clock < child[p].stop
    /\ Prompt => \A p \in Caller : caller[p].pc \in {"idle", "done"}
    /\ aged' = aged \cup {m \in Model : Expired(m, clock')}
    /\ UNCHANGED <<cache, lock, caller, child, note, usable, edits, kills, given, twice, lost>>

Next ==
    \/ \E p \in Caller :
          \/ Ask(p) \/ TryLock(p) \/ StatLock(p) \/ DropLock(p) \/ Launch(p)
          \/ StartProbe(p) \/ EndProbe(p) \/ Release(p) \/ HardStop(p) \/ Kill(p)
    \/ \E c \in Call : NoteCall(c)
    \/ \E w \in Writer : Load(w) \/ Store(w)
    \/ EditProvider \/ Tick

Spec == Init /\ [][Next]_vars

(***************************************************************************)
(* Properties                                                              *)
(***************************************************************************)

Entry == [status : Verdict \cup {"none"}, at : 0..MaxClock]

\* Each variable has its type, and a caller or a child deals with each model
\* once.
TypeOK ==
    /\ cache \in [Model -> Entry]
    /\ lock \in [Model -> (0..MaxClock) \cup {NoLock}]
    /\ \A p \in Caller :
          /\ caller[p].pc \in {"idle", "try", "stat", "drop", "launch", "done"}
          /\ caller[p].tries \in 0..1
          /\ IsInjective(caller[p].todo \o caller[p].claimed)
          /\ child[p].pc \in {"none", "next", "probe", "release", "done"}
          /\ IsInjective(child[p].queue)
    /\ \A w \in Writer :
          /\ note[w].pc \in {"new", "idle", "load", "store"} /\ note[w].model \in Model
          /\ note[w].verdict \in Entry /\ note[w].snap \in [Model -> Entry]
    /\ usable \in BOOLEAN /\ edits \in 0..MaxEdits /\ kills \in 0..MaxKills /\ clock \in 0..MaxClock
    /\ given \in [Model -> SUBSET Entry]
    /\ twice \subseteq Model /\ lost \subseteq Model /\ aged \subseteq Model

\* The processes that will still remove a lock file of model m.
Keepers(m) ==
    {p \in Caller : m \in ToSet(caller[p].claimed)} \cup {p \in Caller : m \in ToSet(child[p].queue)}

\* A status in the cache is a verdict that was given on that very model at
\* that very time, however the updates of the file overlap: no model is
\* passed over for longer than the retry time after it was found unhealthy.
StatusGenuine ==
    \A m \in Model : cache[m].status # "none" => cache[m] \in given[m]

\* While the provider's base_url stays usable, a lock file is there only as
\* long as a process will remove it, or because that process was stopped.
LocksAreKept ==
    edits = 0 => \A m \in Model : lock[m] # NoLock => Keepers(m) # {} \/ m \in lost

\* No model is probed twice at a time, unless a lock file of it was there for
\* more than twice the cap: its process was killed, or its queue was too long.
ProbedOnce == twice \subseteq aged
=============================================================================
