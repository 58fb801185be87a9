---------------------------- MODULE BreakerFile ----------------------------
(***************************************************************************)
(* breaker.py, lockfile.py and jsonio.py: how one operation on the breaker *)
(* state file runs in a process of its own, next to others.                *)
(*                                                                         *)
(*   start -> check | wait -> load -> write -> replace -> done -> ended    *)
(*                                                                         *)
(* and "failed" instead of "done" after an error inside the locked part.   *)
(*                                                                         *)
(* A process that is killed loses its flock with its descriptors and       *)
(* leaves at most a temporary file nobody reads.  The file is missing,     *)
(* corrupt, or a document in which a key may be absent.                    *)
(***************************************************************************)
EXTENDS Naturals

CONSTANTS
    Proc, Model, Role, Cooldown, UnreachCool, Threshold, MaxClock,
    LockTimeout,   \* SHUNT_PROVIDERS_LOCK_TIMEOUT, in seconds
    NoProc,        \* the value of lock when nobody holds it
    Absent         \* a key the document does not have

Key == Model \X Role
Value == [failures : Nat, until : Nat]
Zero == [failures |-> 0, until |-> 0]
Kind == {"failure", "unreachable", "success", "clear"}
Op == [kind : Kind, key : Key, thr : Nat, at : Nat]

\* An operation as it starts: only a failure reads the limits and the time.
NewOp(kind, k, thr, at) ==
    IF kind \in {"failure", "unreachable"}
        THEN [kind |-> kind, key |-> k, thr |-> thr, at |-> at]
        ELSE [kind |-> kind, key |-> k, thr |-> 0, at |-> 0]

NoOp == NewOp("success", CHOOSE k \in Key : TRUE, 0, 0)

ASSUME BreakerFileAssumption ==
    /\ Cooldown \in Nat /\ UnreachCool \in Nat /\ LockTimeout \in Nat
    /\ Threshold \subseteq Nat
    /\ MaxClock \in Nat
    /\ Key # {}
    /\ NoProc \notin Proc
    /\ Absent \notin Value

VARIABLES
    file,          \* "missing", "corrupt" or "doc"
    doc,           \* key -> value or Absent: the document in the file
    lock,          \* the process that holds the flock on <file>.lock
    threshold,     \* the threshold in the breaker config
    clock,
    pc,            \* process -> its next step
    op,            \* process -> its operation, with the limits it read
    deadline,      \* process -> when it stops polling for the lock
    tmp,           \* process -> the document it is about to write
    result         \* process -> what its caller was told

vars == <<file, doc, lock, threshold, clock, pc, op, deadline, tmp, result>>

Doc == [Key -> Value \cup {Absent}]
NoKeys == [k \in Key |-> Absent]

(***************************************************************************)
(* The document                                                            *)
(***************************************************************************)

\* _entry and _parse: an absent key reads as no failure and no pause.
Parse(e) == IF e = Absent THEN Zero ELSE e

CooldownOf(o) == IF o.kind = "unreachable" THEN UnreachCool ELSE Cooldown

BumpAddsUp(v, o) ==
    [failures |-> v.failures + 1,
     until    |-> IF v.failures + 1 >= o.thr THEN v.until + o.at + CooldownOf(o) ELSE v.until]

\* record_failure's bump.
Bump(v, o) ==
    [failures |-> v.failures + 1,
     until    |-> IF v.failures + 1 >= o.thr THEN o.at + CooldownOf(o) ELSE v.until]

\* Mutant of WithEntry: the other keys of the document are forgotten.
WithEntryAlone(d, o) ==
    [NoKeys EXCEPT ![o.key] = IF o.kind = "success" THEN Zero ELSE Bump(Parse(d[o.key]), o)]

\* _with_entry over the loaded document; a missing or corrupt one is empty.
WithEntry(d, o) ==
    [d EXCEPT ![o.key] = IF o.kind = "success" THEN Zero ELSE Bump(Parse(d[o.key]), o)]

\* clear_state's drop: every role's key of the model goes.
Dropped(d, m) == [k \in Key |-> IF k[1] = m THEN Absent ELSE d[k]]

NewDoc(d, o) == IF o.kind = "clear" THEN Dropped(d, o.key[1]) ELSE WithEntry(d, o)

(***************************************************************************)
(* Actions                                                                 *)
(***************************************************************************)

Init ==
    /\ file \in {"missing", "corrupt"}
    /\ doc = NoKeys
    /\ lock = NoProc
    /\ threshold \in Threshold
    /\ clock = 0
    /\ pc = [p \in Proc |-> "start"]
    /\ op = [p \in Proc |-> NoOp]
    /\ deadline = [p \in Proc |-> 0]
    /\ tmp = [p \in Proc |-> NoKeys]
    /\ result = [p \in Proc |-> "none"]

Step(p, from, to) ==
    /\ pc[p] = from
    /\ pc' = [pc EXCEPT ![p] = to]

\* The limits and the time are read before the lock is asked for.
Call(p) ==
    \E kind \in Kind, k \in Key :
        /\ Step(p, "start", IF kind = "clear" THEN "check" ELSE "wait")
        /\ op' = [op EXCEPT ![p] = NewOp(kind, k, threshold, clock)]
        /\ deadline' = [deadline EXCEPT ![p] = clock + LockTimeout]
        /\ UNCHANGED <<file, doc, lock, threshold, clock, tmp, result>>

\* clear_state looks for the file before it takes the lock.
CheckExists(p) ==
    /\ \/ /\ file = "missing"
          /\ Step(p, "check", "done")
          /\ UNCHANGED deadline
       \/ /\ file # "missing"
          /\ Step(p, "check", "wait")
          /\ deadline' = [deadline EXCEPT ![p] = clock + LockTimeout]
    /\ UNCHANGED <<file, doc, lock, threshold, clock, op, tmp, result>>

\* Mutant of Lock: the flock is not asked for.
LockUnguarded(p) ==
    /\ Step(p, "wait", "load")
    /\ lock' = p
    /\ deadline' = [deadline EXCEPT ![p] = 0]
    /\ UNCHANGED <<file, doc, threshold, clock, op, tmp, result>>

Lock(p) ==
    /\ Step(p, "wait", "load")
    /\ lock = NoProc
    /\ lock' = p
    /\ deadline' = [deadline EXCEPT ![p] = 0]
    /\ UNCHANGED <<file, doc, threshold, clock, op, tmp, result>>

\* The poll finds the lock taken and the deadline passed.
GiveUp(p) ==
    /\ Step(p, "wait", "ended")
    /\ lock # NoProc
    /\ clock >= deadline[p]
    /\ result' = [result EXCEPT ![p] = "error"]
    /\ deadline' = [deadline EXCEPT ![p] = 0]
    /\ UNCHANGED <<file, doc, lock, threshold, clock, op, tmp>>

\* _load and fn: clear refuses a corrupt file, and writes nothing when the
\* file went away or holds no key of the model.  The read itself does not fail
\* here; in the code a file that cannot be read counts as missing.
Load(p) ==
    /\ LET clears == op[p].kind = "clear"
           new == NewDoc(doc, op[p])
       IN  \/ /\ clears /\ file = "corrupt"
              /\ Step(p, "load", "failed")
              /\ UNCHANGED tmp
           \/ /\ clears /\ file # "corrupt" /\ new = doc
              /\ Step(p, "load", "done")
              /\ UNCHANGED tmp
           \/ /\ ~clears \/ new # doc
              /\ Step(p, "load", "write")
              /\ tmp' = [tmp EXCEPT ![p] = new]
    /\ UNCHANGED <<file, doc, lock, threshold, clock, op, deadline, result>>

\* mkstemp, write and fsync of the temporary file, or its failure and unlink.
WriteTmp(p) ==
    /\ \/ /\ Step(p, "write", "replace")
          /\ UNCHANGED tmp
       \/ /\ Step(p, "write", "failed")
          /\ tmp' = [tmp EXCEPT ![p] = NoKeys]
    /\ UNCHANGED <<file, doc, lock, threshold, clock, op, deadline, result>>

\* os.replace: the file becomes the new document in one step, or stays.
Replace(p) ==
    /\ \/ /\ Step(p, "replace", "done")
          /\ file' = "doc"
          /\ doc' = tmp[p]
       \/ /\ Step(p, "replace", "failed")
          /\ UNCHANGED <<file, doc>>
    /\ tmp' = [tmp EXCEPT ![p] = NoKeys]
    /\ UNCHANGED <<lock, threshold, clock, op, deadline, result>>

\* The end of the call: the lock's descriptor, if there is one, is closed and
\* the caller is answered.
Answer(p) ==
    /\ \/ /\ Step(p, "done", "ended")
          /\ result' = [result EXCEPT ![p] = "ok"]
       \/ /\ Step(p, "failed", "ended")
          /\ result' = [result EXCEPT ![p] = "error"]
    /\ lock' = IF lock = p THEN NoProc ELSE lock
    /\ UNCHANGED <<file, doc, threshold, clock, op, deadline, tmp>>

\* Mutant of Crash: the lock outlives its holder, as a lock file would.
CrashKeepsLock(p) ==
    /\ pc[p] \notin {"start", "ended"}
    /\ pc' = [pc EXCEPT ![p] = "ended"]
    /\ tmp' = [tmp EXCEPT ![p] = NoKeys]
    /\ result' = [result EXCEPT ![p] = "crashed"]
    /\ UNCHANGED <<file, doc, lock, threshold, clock, op, deadline>>

\* A signal kills the process: the kernel closes its descriptors.
Crash(p) ==
    /\ pc[p] \notin {"start", "ended"}
    /\ pc' = [pc EXCEPT ![p] = "ended"]
    /\ tmp' = [tmp EXCEPT ![p] = NoKeys]
    /\ result' = [result EXCEPT ![p] = "crashed"]
    /\ lock' = IF lock = p THEN NoProc ELSE lock
    /\ UNCHANGED <<file, doc, threshold, clock, op, deadline>>

\* External: between two updates the file is removed or damaged by hand.
Damage ==
    /\ lock = NoProc
    /\ file' \in {"missing", "corrupt"}
    /\ doc' = NoKeys
    /\ UNCHANGED <<lock, threshold, clock, pc, op, deadline, tmp, result>>

SetThreshold ==
    /\ threshold' \in Threshold
    /\ UNCHANGED <<file, doc, lock, clock, pc, op, deadline, tmp, result>>

Tick ==
    /\ clock < MaxClock
    /\ clock' = clock + 1
    /\ UNCHANGED <<file, doc, lock, threshold, pc, op, deadline, tmp, result>>

ProcStep(p) ==
    \/ Call(p) \/ CheckExists(p) \/ Lock(p) \/ GiveUp(p) \/ Load(p)
    \/ WriteTmp(p) \/ Replace(p) \/ Answer(p)

Next ==
    \/ \E p \in Proc : ProcStep(p) \/ Crash(p)
    \/ Damage \/ SetThreshold \/ Tick

Spec == Init /\ [][Next]_vars

\* A started process keeps running until it ends.
Fairness == \A p \in Proc : WF_vars(pc[p] # "start" /\ ProcStep(p))

FairSpec == Spec /\ Fairness

(***************************************************************************)
(* Properties                                                              *)
(***************************************************************************)

\* Each variable has its type.
TypeOK ==
    /\ file \in {"missing", "corrupt", "doc"}
    /\ doc \in Doc
    /\ lock \in Proc \cup {NoProc}
    /\ threshold \in Threshold
    /\ clock \in 0..MaxClock
    /\ pc \in [Proc -> {"start", "check", "wait", "load", "write", "replace",
                        "done", "failed", "ended"}]
    /\ op \in [Proc -> Op]
    /\ deadline \in [Proc -> Nat]
    /\ tmp \in [Proc -> Doc]
    /\ result \in [Proc -> {"none", "ok", "error", "crashed"}]

\* Only the holder of the lock is between its read and the end of its write,
\* and the lock never outlives the process that took it.
LockInv ==
    /\ \A p \in Proc : pc[p] \in {"load", "write", "replace", "failed"} => lock = p
    /\ lock # NoProc => pc[lock] \in {"load", "write", "replace", "done", "failed"}

\* Only a "clear" looks for the file before it takes the lock.
CheckInv == \A p \in Proc : pc[p] = "check" => op[p].kind = "clear"

\* What a process is about to write is still its operation applied to what
\* the file holds now: no update made since its read can be overwritten.
SnapshotFresh ==
    \A p \in Proc : pc[p] \in {"write", "replace"} => tmp[p] = NewDoc(doc, op[p])

\* However late a failure is written, no model pauses for longer from now on
\* than the longer of the two cooldowns.
PauseBounded ==
    \A k \in Key :
        \/ Parse(doc[k]).until <= clock + Cooldown
        \/ Parse(doc[k]).until <= clock + UnreachCool

\* A call that waits for the lock is answered, or its process is killed,
\* whatever the other processes do: a crashed holder blocks nobody.
EveryCallEnds == \A p \in Proc : pc[p] = "wait" ~> pc[p] = "ended"

\* The refinement: the file's document is the breaker's state, and an
\* operation has been applied once nothing is left to do but to answer.
AbsEntry == [k \in Key |-> Parse(doc[k])]
AbsPhase ==
    [p \in Proc |-> IF pc[p] = "start" THEN "new"
                    ELSE IF pc[p] = "ended" THEN result[p]
                    ELSE IF pc[p] = "done" THEN "applied"
                    ELSE "pending"]

Abs == INSTANCE Breaker WITH entry <- AbsEntry, phase <- AbsPhase

\* Every operation on the file behaves as one atomic operation of Breaker.
Atomic == Abs!AbsSpec
=============================================================================
