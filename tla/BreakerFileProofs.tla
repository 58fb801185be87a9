------------------------- MODULE BreakerFileProofs -------------------------
(***************************************************************************)
(* For any set of processes, models, roles, thresholds and cooldowns: the  *)
(* types, mutual exclusion on the state file, and that every operation on  *)
(* it is one atomic operation of Breaker.                                  *)
(***************************************************************************)
EXTENDS BreakerFile, TLAPS

\* No document is read where there is none.
DocInv == file # "doc" => doc = NoKeys

\* The inductive invariant behind SnapshotFresh and Atomic.
IInv == TypeOK /\ LockInv /\ SnapshotFresh /\ DocInv /\ CheckInv

(***************************************************************************)
(* Lemmas about the document                                               *)
(***************************************************************************)

\* A key of a well-typed document reads as a value.
LEMMA ParseType ==
    ASSUME NEW e \in Value \cup {Absent}
    PROVE  Parse(e) \in Value
  BY DEF Parse, Zero, Value

\* One more failure is again a value.
LEMMA BumpType ==
    ASSUME NEW v \in Value, NEW o \in Op
    PROVE  Bump(v, o) \in Value
  BY BreakerFileAssumption DEF Bump, CooldownOf, Value, Op

\* Applying an operation to a document gives a document.
LEMMA NewDocType ==
    ASSUME NEW d \in Doc, NEW o \in Op
    PROVE  NewDoc(d, o) \in Doc
<1>1. o.key \in Key
  BY DEF Op
<1>2. Dropped(d, o.key[1]) \in Doc
  BY DEF Dropped, Doc
<1>3. Bump(Parse(d[o.key]), o) \in Value
  BY <1>1, ParseType, BumpType DEF Doc
<1>4. WithEntry(d, o) \in Doc
  BY <1>1, <1>3 DEF WithEntry, Doc, Zero, Value
<1>. QED
  BY <1>2, <1>4 DEF NewDoc

\* The first operation of a process is well typed.
LEMMA NoOpType == NoOp \in Op
<1>1. (CHOOSE k \in Key : TRUE) \in Key
  BY BreakerFileAssumption
<1>. QED
  BY <1>1 DEF NoOp, NewOp, Op, Kind

\* So is every later one.
LEMMA NewOpType ==
    ASSUME NEW kind \in Kind, NEW k \in Key, NEW t \in Nat, NEW c \in Nat
    PROVE  NewOp(kind, k, t, c) \in Op
  BY DEF NewOp, Op

\* Where there is no document, dropping keys changes nothing.
LEMMA DroppedNoKeys ==
    ASSUME NEW m PROVE Dropped(NoKeys, m) = NoKeys
  BY DEF Dropped, NoKeys

(***************************************************************************)
(* Types                                                                   *)
(***************************************************************************)

\* The initial state is well typed.
LEMMA InitType == Init => TypeOK
  BY NoOpType, BreakerFileAssumption DEF Init, TypeOK, Doc, NoKeys

\* Every step keeps the types: the numbers stay natural numbers, the document
\* keeps its keys.
LEMMA NextType == TypeOK /\ [Next]_vars => TypeOK'
<1>. SUFFICES ASSUME TypeOK, [Next]_vars PROVE TypeOK'
  OBVIOUS
<1>. USE DEF TypeOK
<1>a. NoKeys \in Doc
  BY DEF NoKeys, Doc
<1>1. ASSUME NEW p \in Proc, Call(p) PROVE TypeOK'
  <2>1. PICK kind \in Kind, k \in Key :
            /\ Step(p, "start", IF kind = "clear" THEN "check" ELSE "wait")
            /\ op' = [op EXCEPT ![p] = NewOp(kind, k, threshold, clock)]
            /\ deadline' = [deadline EXCEPT ![p] = clock + LockTimeout]
            /\ UNCHANGED <<file, doc, lock, threshold, clock, tmp, result>>
    BY <1>1 DEF Call
  <2>2. threshold \in Nat /\ clock \in Nat /\ LockTimeout \in Nat
    BY BreakerFileAssumption
  <2>3. NewOp(kind, k, threshold, clock) \in Op
    BY <2>2, NewOpType
  <2>. QED
    BY <2>1, <2>2, <2>3 DEF Step
<1>2. ASSUME NEW p \in Proc, CheckExists(p) PROVE TypeOK'
  BY <1>2, BreakerFileAssumption DEF CheckExists, Step
<1>3. ASSUME NEW p \in Proc, Lock(p) PROVE TypeOK'
  BY <1>3 DEF Lock, Step
<1>4. ASSUME NEW p \in Proc, GiveUp(p) PROVE TypeOK'
  BY <1>4 DEF GiveUp, Step
<1>5. ASSUME NEW p \in Proc, Load(p) PROVE TypeOK'
  <2>1. NewDoc(doc, op[p]) \in Doc
    BY NewDocType
  <2>. QED
    BY <1>5, <2>1 DEF Load, Step
<1>6. ASSUME NEW p \in Proc, WriteTmp(p) PROVE TypeOK'
  BY <1>6, <1>a DEF WriteTmp, Step
<1>7. ASSUME NEW p \in Proc, Replace(p) PROVE TypeOK'
  BY <1>7, <1>a DEF Replace, Step
<1>8. ASSUME NEW p \in Proc, Answer(p) PROVE TypeOK'
  BY <1>8 DEF Answer, Step
<1>9. ASSUME NEW p \in Proc, Crash(p) PROVE TypeOK'
  BY <1>9, <1>a DEF Crash
<1>10. CASE Damage
  BY <1>10, <1>a DEF Damage
<1>11. CASE SetThreshold
  BY <1>11 DEF SetThreshold
<1>12. CASE Tick
  BY <1>12, BreakerFileAssumption DEF Tick
<1>13. CASE UNCHANGED vars
  BY <1>13 DEF vars
<1>. QED
  BY <1>1, <1>2, <1>3, <1>4, <1>5, <1>6, <1>7, <1>8, <1>9, <1>10, <1>11, <1>12, <1>13
     DEF Next, ProcStep

\* THE TYPES: in every reachable state the document maps keys to natural
\* numbers of failures and seconds, or to nothing.
THEOREM TypeCorrect == Spec => []TypeOK
  BY InitType, NextType, PTL DEF Spec

(***************************************************************************)
(* Mutual exclusion and the freshness of what is written                   *)
(***************************************************************************)

\* The conjuncts of the invariant that are not types.
Held == LockInv /\ SnapshotFresh /\ DocInv /\ CheckInv

\* Nothing is locked or loaded at the start.
LEMMA InitHeld == Init => Held
  BY DEF Init, Held, LockInv, SnapshotFresh, DocInv, CheckInv

\* Every step keeps the lock with the process between its read and its write,
\* and no other process changes the document meanwhile.
LEMMA NextHeld == TypeOK /\ Held /\ [Next]_vars => Held'
<1>. SUFFICES ASSUME TypeOK, Held, [Next]_vars PROVE Held'
  OBVIOUS
<1>. USE DEF Held, TypeOK, LockInv, SnapshotFresh, DocInv, CheckInv
<1>a. NoProc \notin Proc
  BY BreakerFileAssumption
<1>1. ASSUME NEW p \in Proc, Call(p) PROVE Held'
  BY <1>1, <1>a DEF Call, Step, NewOp
<1>2. ASSUME NEW p \in Proc, CheckExists(p) PROVE Held'
  BY <1>2, <1>a DEF CheckExists, Step
<1>3. ASSUME NEW p \in Proc, Lock(p) PROVE Held'
  BY <1>3, <1>a DEF Lock, Step
<1>4. ASSUME NEW p \in Proc, GiveUp(p) PROVE Held'
  BY <1>4, <1>a DEF GiveUp, Step
<1>5. ASSUME NEW p \in Proc, Load(p) PROVE Held'
  BY <1>5, <1>a DEF Load, Step
<1>6. ASSUME NEW p \in Proc, WriteTmp(p) PROVE Held'
  BY <1>6, <1>a DEF WriteTmp, Step
<1>7. ASSUME NEW p \in Proc, Replace(p) PROVE Held'
  BY <1>7, <1>a DEF Replace, Step
<1>8. ASSUME NEW p \in Proc, Answer(p) PROVE Held'
  BY <1>8, <1>a DEF Answer, Step
<1>9. ASSUME NEW p \in Proc, Crash(p) PROVE Held'
  BY <1>9, <1>a DEF Crash
<1>10. CASE Damage
  BY <1>10, <1>a DEF Damage
<1>11. CASE SetThreshold
  BY <1>11 DEF SetThreshold
<1>12. CASE Tick
  BY <1>12 DEF Tick
<1>13. CASE UNCHANGED vars
  BY <1>13 DEF vars
<1>. QED
  BY <1>1, <1>2, <1>3, <1>4, <1>5, <1>6, <1>7, <1>8, <1>9, <1>10, <1>11, <1>12, <1>13
     DEF Next, ProcStep

\* The inductive invariant holds in every reachable state.
LEMMA Invariance == Spec => []IInv
<1>1. Init => IInv
  BY InitType, InitHeld DEF IInv, Held
<1>2. IInv /\ [Next]_vars => IInv'
  BY NextType, NextHeld DEF IInv, Held
<1>. QED
  BY <1>1, <1>2, PTL DEF Spec

\* MUTUAL EXCLUSION: the lock is with the one process that is between its read
\* and the end of its write, and never with one that ended or was killed.
THEOREM MutualExclusion == Spec => []LockInv
  BY Invariance, PTL DEF IInv

\* NO LOST UPDATE: what a process is about to write was computed from what the
\* file still holds.
THEOREM NoStaleWrite == Spec => []SnapshotFresh
  BY Invariance, PTL DEF IInv

(***************************************************************************)
(* Refinement                                                              *)
(***************************************************************************)

\* The document after an operation reads, key by key, as the breaker's state
\* after the operation took effect.
LEMMA EffectOfNewDoc ==
    ASSUME NEW d \in Doc, NEW o \in Op, NEW k \in Key
    PROVE  Parse(NewDoc(d, o)[k]) = Abs!Effect(o, k, Parse(d[k]))
<1>1. CASE o.kind = "clear"
  <2>1. NewDoc(d, o)[k] = IF k[1] = o.key[1] THEN Absent ELSE d[k]
    BY <1>1 DEF NewDoc, Dropped
  <2>. QED
    BY <1>1, <2>1 DEF Abs!Effect, Parse, Abs!Zero, Zero
<1>2. CASE o.kind # "clear"
  <2>1. NewDoc(d, o)[k] = IF k # o.key THEN d[k]
                          ELSE IF o.kind = "success" THEN Zero ELSE Bump(Parse(d[k]), o)
    BY <1>2 DEF NewDoc, WithEntry, Doc, Op
  <2>2. Zero # Absent
    BY BreakerFileAssumption DEF Zero, Value
  <2>3. Bump(Parse(d[k]), o) \in Value
    BY ParseType, BumpType DEF Doc
  <2>4. Bump(Parse(d[k]), o) # Absent
    BY <2>3, BreakerFileAssumption
  <2>. QED
    BY <1>2, <2>1, <2>2, <2>4
       DEF Abs!Effect, Parse, Abs!Zero, Zero, Abs!Bump, Bump, Abs!CooldownOf, CooldownOf
<1>. QED
  BY <1>1, <1>2

\* The initial states of the file are the closed breaker.
LEMMA InitRefines == Init => Abs!AbsInit
<1>. SUFFICES ASSUME Init PROVE Abs!AbsInit
  OBVIOUS
<1>1. AbsEntry = [k \in Abs!Key |-> Abs!Zero]
  BY DEF Init, AbsEntry, NoKeys, Parse, Abs!Key, Key, Abs!Zero, Zero
<1>2. op \in [Proc -> Abs!Op]
  BY InitType DEF TypeOK, Op, Abs!Op, Kind, Abs!Kind, Key, Abs!Key
<1>3. AbsPhase = [p \in Proc |-> "new"]
  BY DEF Init, AbsPhase
<1>. QED
  BY <1>1, <1>2, <1>3 DEF Init, Abs!AbsInit

\* The entries of a document do not change when the document does not.
LEMMA SameEntry == doc' = doc => AbsEntry' = AbsEntry
  BY DEF AbsEntry

\* An operation that has taken effect is applied.
LEMMA PhaseApplies ==
    ASSUME TypeOK, NEW p \in Proc, NEW from, Step(p, from, "done"),
           from \notin {"start", "done", "ended"}, UNCHANGED result
    PROVE  /\ AbsPhase[p] = "pending"
           /\ AbsPhase' = [AbsPhase EXCEPT ![p] = "applied"]
  BY DEF TypeOK, Step, AbsPhase

\* An operation that ends has the phase its caller was told.
LEMMA PhaseEnds ==
    ASSUME TypeOK, NEW p \in Proc, NEW from, Step(p, from, "ended"),
           from \notin {"start", "ended"},
           NEW r, result' = [result EXCEPT ![p] = r]
    PROVE  /\ from = "done" => AbsPhase[p] = "applied"
           /\ from # "done" => AbsPhase[p] = "pending"
           /\ AbsPhase' = [AbsPhase EXCEPT ![p] = r]
  BY DEF TypeOK, Step, AbsPhase

\* The same for the first step.
LEMMA PhaseStarts ==
    ASSUME TypeOK, NEW p \in Proc, NEW to \in {"check", "wait"},
           Step(p, "start", to), UNCHANGED result
    PROVE  /\ AbsPhase[p] = "new"
           /\ AbsPhase' = [AbsPhase EXCEPT ![p] = "pending"]
  BY DEF TypeOK, Step, AbsPhase

\* A step that leaves a pending operation pending changes no phase.
LEMMA PhaseStays ==
    ASSUME TypeOK, NEW p \in Proc, NEW from, NEW to, Step(p, from, to),
           from \notin {"start", "ended", "done"}, to \notin {"start", "ended", "done"},
           UNCHANGED result
    PROVE  AbsPhase' = AbsPhase
  BY DEF TypeOK, Step, AbsPhase

\* The variables of the breaker that BreakerFile maps.
absState == <<AbsEntry, threshold, clock, op, AbsPhase>>

\* A call starts its operation.
LEMMA CallRefines ==
    ASSUME TypeOK, NEW p \in Proc, Call(p) PROVE Abs!AbsCall(p)
<1>1. PICK kind \in Kind, k \in Key :
          /\ Step(p, "start", IF kind = "clear" THEN "check" ELSE "wait")
          /\ op' = [op EXCEPT ![p] = NewOp(kind, k, threshold, clock)]
          /\ UNCHANGED <<doc, threshold, clock, result>>
  BY DEF Call
<1>2. AbsPhase[p] = "new" /\ AbsPhase' = [AbsPhase EXCEPT ![p] = "pending"]
  BY <1>1, PhaseStarts
<1>3. kind \in Abs!Kind /\ k \in Abs!Key
  BY DEF Kind, Abs!Kind, Key, Abs!Key
<1>4. op' = [op EXCEPT ![p] = Abs!NewOp(kind, k, threshold, clock)]
  BY <1>1 DEF NewOp, Abs!NewOp
<1>. QED
  BY <1>1, <1>2, <1>3, <1>4, SameEntry DEF Abs!AbsCall, Abs!Goto

\* An operation that finds nothing to clear has been applied: dropping the
\* model's keys changes nothing.
LEMMA NothingToClear ==
    ASSUME TypeOK, NEW o \in Op, o.kind = "clear", NewDoc(doc, o) = doc
    PROVE  AbsEntry = [k \in Abs!Key |-> Abs!Effect(o, k, AbsEntry[k])]
<1>1. \A k \in Key : Parse(doc[k]) = Abs!Effect(o, k, Parse(doc[k]))
  BY EffectOfNewDoc DEF TypeOK
<1>. QED
  BY <1>1 DEF AbsEntry, Key, Abs!Key

\* A missing file leaves nothing to clear.
LEMMA CheckExistsRefines ==
    ASSUME IInv, NEW p \in Proc, CheckExists(p)
    PROVE  Abs!AbsApply(p) \/ UNCHANGED absState
<1>1. UNCHANGED <<doc, threshold, clock, op, result>>
  BY DEF CheckExists
<1>2. CASE Step(p, "check", "done") /\ file = "missing"
  <2>1. op[p] \in Op /\ op[p].kind = "clear" /\ doc = NoKeys
    BY <1>2 DEF IInv, CheckInv, TypeOK, Step, DocInv
  <2>2. NewDoc(doc, op[p]) = doc
    BY <2>1, DroppedNoKeys DEF NewDoc
  <2>3. AbsEntry' = [k \in Abs!Key |-> Abs!Effect(op[p], k, AbsEntry[k])]
    BY <1>1, <2>1, <2>2, NothingToClear, SameEntry DEF IInv
  <2>4. AbsPhase[p] = "pending" /\ AbsPhase' = [AbsPhase EXCEPT ![p] = "applied"]
    BY <1>1, <1>2, PhaseApplies DEF IInv
  <2>. QED
    BY <1>1, <2>3, <2>4 DEF Abs!AbsApply, Abs!Goto
<1>3. CASE Step(p, "check", "wait")
  BY <1>1, <1>3, PhaseStays, SameEntry DEF absState, IInv
<1>. QED
  BY <1>2, <1>3 DEF CheckExists

\* Taking the lock is no step of the breaker.
LEMMA LockRefines ==
    ASSUME TypeOK, NEW p \in Proc, Lock(p) PROVE UNCHANGED absState
<1>1. Step(p, "wait", "load") /\ UNCHANGED <<doc, threshold, clock, op, result>>
  BY DEF Lock
<1>. QED
  BY <1>1, PhaseStays, SameEntry DEF absState

\* Giving up on the lock fails the operation.
LEMMA GiveUpRefines ==
    ASSUME TypeOK, NEW p \in Proc, GiveUp(p) PROVE Abs!AbsFail(p)
<1>1. /\ Step(p, "wait", "ended") /\ UNCHANGED <<doc, threshold, clock, op>>
      /\ result' = [result EXCEPT ![p] = "error"]
  BY DEF GiveUp
<1>2. AbsPhase[p] = "pending" /\ AbsPhase' = [AbsPhase EXCEPT ![p] = "error"]
  BY <1>1 DEF TypeOK, Step, AbsPhase
<1>. QED
  BY <1>1, <1>2, SameEntry DEF Abs!AbsFail, Abs!Goto

\* Reading the document is no step of the breaker, unless there is nothing to
\* clear in it.
LEMMA LoadRefines ==
    ASSUME IInv, NEW p \in Proc, Load(p)
    PROVE  Abs!AbsApply(p) \/ UNCHANGED absState
<1>1. UNCHANGED <<doc, threshold, clock, op, result>>
  BY DEF Load
<1>2. CASE Step(p, "load", "done") /\ op[p].kind = "clear" /\ NewDoc(doc, op[p]) = doc
  <2>1. op[p] \in Op
    BY DEF IInv, TypeOK
  <2>2. AbsEntry' = [k \in Abs!Key |-> Abs!Effect(op[p], k, AbsEntry[k])]
    BY <1>1, <1>2, <2>1, NothingToClear, SameEntry DEF IInv
  <2>3. AbsPhase[p] = "pending" /\ AbsPhase' = [AbsPhase EXCEPT ![p] = "applied"]
    BY <1>1, <1>2, PhaseApplies DEF IInv
  <2>. QED
    BY <1>1, <2>2, <2>3 DEF Abs!AbsApply, Abs!Goto
<1>3. CASE Step(p, "load", "failed") \/ Step(p, "load", "write")
  BY <1>1, <1>3, PhaseStays, SameEntry DEF absState, IInv
<1>. QED
  BY <1>2, <1>3 DEF Load

\* Nor is writing the temporary file.
LEMMA WriteTmpRefines ==
    ASSUME TypeOK, NEW p \in Proc, WriteTmp(p) PROVE UNCHANGED absState
<1>1. /\ Step(p, "write", "replace") \/ Step(p, "write", "failed")
      /\ UNCHANGED <<doc, threshold, clock, op, result>>
  BY DEF WriteTmp
<1>. QED
  BY <1>1, PhaseStays, SameEntry DEF absState

\* The rename is the instant at which the operation takes effect: what it
\* writes is its effect on what the file holds now.
LEMMA ReplaceRefines ==
    ASSUME IInv, NEW p \in Proc, Replace(p)
    PROVE  Abs!AbsApply(p) \/ UNCHANGED absState
<1>1. UNCHANGED <<threshold, clock, op, result>>
  BY DEF Replace
<1>2. CASE Step(p, "replace", "done") /\ doc' = tmp[p]
  <2>1. tmp[p] = NewDoc(doc, op[p]) /\ op[p] \in Op /\ doc \in Doc
    BY <1>2 DEF IInv, SnapshotFresh, TypeOK, Step
  <2>2. \A k \in Key : Parse(doc'[k]) = Abs!Effect(op[p], k, Parse(doc[k]))
    BY <1>2, <2>1, EffectOfNewDoc
  <2>3. AbsEntry' = [k \in Abs!Key |-> Abs!Effect(op[p], k, AbsEntry[k])]
    BY <2>2 DEF AbsEntry, Key, Abs!Key
  <2>4. AbsPhase[p] = "pending" /\ AbsPhase' = [AbsPhase EXCEPT ![p] = "applied"]
    BY <1>1, <1>2, PhaseApplies DEF IInv
  <2>. QED
    BY <1>1, <2>3, <2>4 DEF Abs!AbsApply, Abs!Goto
<1>3. CASE Step(p, "replace", "failed") /\ UNCHANGED doc
  BY <1>1, <1>3, PhaseStays, SameEntry DEF absState, IInv
<1>. QED
  BY <1>2, <1>3 DEF Replace

\* Answering returns an applied operation and fails a pending one.
LEMMA AnswerRefines ==
    ASSUME TypeOK, NEW p \in Proc, Answer(p)
    PROVE  Abs!AbsReturn(p) \/ Abs!AbsFail(p)
<1>1. UNCHANGED <<doc, threshold, clock, op>>
  BY DEF Answer
<1>2. CASE Step(p, "done", "ended") /\ result' = [result EXCEPT ![p] = "ok"]
  <2>1. AbsPhase[p] = "applied" /\ AbsPhase' = [AbsPhase EXCEPT ![p] = "ok"]
    BY <1>2, PhaseEnds
  <2>. QED
    BY <1>1, <2>1, SameEntry DEF Abs!AbsReturn, Abs!Goto
<1>3. CASE Step(p, "failed", "ended") /\ result' = [result EXCEPT ![p] = "error"]
  <2>1. AbsPhase[p] = "pending" /\ AbsPhase' = [AbsPhase EXCEPT ![p] = "error"]
    BY <1>3 DEF TypeOK, Step, AbsPhase
  <2>. QED
    BY <1>1, <2>1, SameEntry DEF Abs!AbsFail, Abs!Goto
<1>. QED
  BY <1>2, <1>3 DEF Answer

\* A killed process leaves its operation applied or not, never half done.
LEMMA CrashRefines ==
    ASSUME TypeOK, NEW p \in Proc, Crash(p) PROVE Abs!AbsCrash(p)
<1>1. /\ pc[p] \notin {"start", "ended"} /\ Step(p, pc[p], "ended")
      /\ result' = [result EXCEPT ![p] = "crashed"]
      /\ UNCHANGED <<doc, threshold, clock, op>>
  BY DEF Crash, Step
<1>2. AbsPhase[p] \in {"pending", "applied"}
  BY <1>1, PhaseEnds
<1>3. AbsPhase' = [AbsPhase EXCEPT ![p] = "crashed"]
  BY <1>1, PhaseEnds
<1>. QED
  BY <1>1, <1>2, <1>3, SameEntry DEF Abs!AbsCrash, Abs!Goto

\* A damaged file is a closed breaker.
LEMMA DamageRefines == Damage => Abs!AbsForget
<1>. SUFFICES ASSUME Damage PROVE Abs!AbsForget
  OBVIOUS
<1>1. AbsEntry' = [k \in Abs!Key |-> Abs!Zero]
  BY DEF Damage, AbsEntry, NoKeys, Parse, Abs!Key, Key, Abs!Zero, Zero
<1>2. AbsPhase' = AbsPhase
  BY DEF Damage, AbsPhase
<1>. QED
  BY <1>1, <1>2 DEF Damage, Abs!AbsForget

\* Every step of the system is a step of the breaker, or none.
LEMMA NextRefines == IInv /\ [Next]_vars => [Abs!AbsNext]_(Abs!absVars)
<1>. SUFFICES ASSUME IInv, [Next]_vars PROVE Abs!AbsNext \/ UNCHANGED absState
  BY DEF Abs!absVars, absState
<1>. TypeOK
  BY DEF IInv
<1>1. ASSUME NEW p \in Proc, ProcStep(p) \/ Crash(p)
      PROVE  Abs!AbsNext \/ UNCHANGED absState
  <2>1. \/ Abs!AbsCall(p) \/ Abs!AbsApply(p) \/ Abs!AbsReturn(p)
        \/ Abs!AbsFail(p) \/ Abs!AbsCrash(p) \/ UNCHANGED absState
    BY <1>1, CallRefines, CheckExistsRefines, LockRefines, GiveUpRefines, LoadRefines,
       WriteTmpRefines, ReplaceRefines, AnswerRefines, CrashRefines DEF ProcStep
  <2>. QED
    BY <2>1 DEF Abs!AbsNext
<1>2. CASE Damage
  BY <1>2, DamageRefines DEF Abs!AbsNext
<1>3. CASE SetThreshold
  <2>1. UNCHANGED <<AbsEntry, AbsPhase>>
    BY <1>3, SameEntry DEF SetThreshold, AbsPhase
  <2>. QED
    BY <1>3, <2>1 DEF SetThreshold, Abs!AbsSetThreshold, Abs!AbsNext
<1>4. CASE Tick
  <2>1. UNCHANGED <<AbsEntry, AbsPhase>>
    BY <1>4, SameEntry DEF Tick, AbsPhase
  <2>. QED
    BY <1>4, <2>1 DEF Tick, Abs!AbsTick, Abs!AbsNext
<1>5. CASE UNCHANGED vars
  BY <1>5, SameEntry DEF vars, absState, AbsPhase
<1>. QED
  BY <1>1, <1>2, <1>3, <1>4, <1>5 DEF Next

\* ATOMICITY: every operation on the breaker file, whatever runs next to it and
\* wherever processes are killed, behaves as one atomic operation of Breaker.
THEOREM Refinement == Spec => Atomic
<1>1. Init => Abs!AbsInit
  BY InitRefines
<1>2. IInv /\ [Next]_vars => [Abs!AbsNext]_(Abs!absVars)
  BY NextRefines
<1>. QED
  BY <1>1, <1>2, Invariance, PTL DEF Spec, Atomic, Abs!AbsSpec

(***************************************************************************)
(* The length of a pause                                                   *)
(***************************************************************************)

\* The end of a pause is no further from now than the longer cooldown.
Bounded(until, now) == until <= now + Cooldown \/ until <= now + UnreachCool

\* What makes the bound inductive: no operation has read a time still to come.
TimeInv ==
    /\ \A p \in Proc : op[p].at <= clock
    /\ \A k \in Key : Bounded(Parse(doc[k]).until, clock)

\* An operation that was called by now keeps every pause of the document bounded.
LEMMA NewDocBounded ==
    ASSUME NEW d \in Doc, NEW o \in Op, NEW now \in Nat, o.at <= now,
           \A k \in Key : Bounded(Parse(d[k]).until, now)
    PROVE  \A k \in Key : Bounded(Parse(NewDoc(d, o)[k]).until, now)
<1>. SUFFICES ASSUME NEW k \in Key
              PROVE  Bounded(Abs!Effect(o, k, Parse(d[k])).until, now)
  BY EffectOfNewDoc
<1>1. Parse(d[k]) \in Value /\ Bounded(Parse(d[k]).until, now)
  BY ParseType DEF Doc
<1>2. Bounded(0, now)
  BY BreakerFileAssumption DEF Bounded
<1>3. Bounded(Abs!Bump(Parse(d[k]), o).until, now)
  BY <1>1, BreakerFileAssumption DEF Abs!Bump, Abs!CooldownOf, Bounded, Value, Op
<1>. QED
  BY <1>1, <1>2, <1>3 DEF Abs!Effect, Abs!Zero

\* Time only passes: what is bounded now is bounded later.
LEMMA NextTime == IInv /\ TimeInv /\ [Next]_vars => TimeInv'
<1>. SUFFICES ASSUME IInv, TimeInv, [Next]_vars PROVE TimeInv'
  OBVIOUS
<1>0. clock \in Nat /\ doc \in Doc /\ op \in [Proc -> Op]
  BY BreakerFileAssumption DEF IInv, TypeOK
<1>1. ASSUME NEW p \in Proc, Call(p) PROVE TimeInv'
  <2>1. PICK kind \in Kind, k \in Key :
            op' = [op EXCEPT ![p] = NewOp(kind, k, threshold, clock)]
    BY <1>1 DEF Call
  <2>2. NewOp(kind, k, threshold, clock).at <= clock
    BY <1>0 DEF NewOp
  <2>3. doc' = doc /\ clock' = clock
    BY <1>1 DEF Call
  <2>. QED
    BY <1>0, <2>1, <2>2, <2>3 DEF TimeInv
<1>2. ASSUME UNCHANGED <<doc, op, clock>> PROVE TimeInv'
  BY <1>2 DEF TimeInv
<1>3. ASSUME NEW p \in Proc, Replace(p) PROVE TimeInv'
  <2>1. CASE Step(p, "replace", "done") /\ doc' = tmp[p]
    <3>1. doc' = NewDoc(doc, op[p]) /\ op[p] \in Op
      BY <1>0, <2>1 DEF IInv, SnapshotFresh, Step
    <3>2. \A k \in Key : Bounded(Parse(doc'[k]).until, clock)
      BY <1>0, <3>1, NewDocBounded DEF TimeInv
    <3>. QED
      BY <1>3, <3>2 DEF Replace, TimeInv
  <2>2. CASE UNCHANGED doc
    BY <1>2, <1>3, <2>2 DEF Replace
  <2>. QED
    BY <1>3, <2>1, <2>2 DEF Replace
<1>4. CASE Damage
  <2>1. \A k \in Key : Parse(doc'[k]).until = 0
    BY <1>4 DEF Damage, NoKeys, Parse, Zero
  <2>2. Bounded(0, clock)
    BY <1>0, BreakerFileAssumption DEF Bounded
  <2>. QED
    BY <1>4, <2>1, <2>2 DEF Damage, TimeInv
<1>5. CASE Tick
  <2>1. \A p \in Proc : op[p].at <= clock + 1
    BY <1>0 DEF TimeInv, Op
  <2>2. ASSUME NEW k \in Key PROVE Bounded(Parse(doc[k]).until, clock + 1)
    <3>1. Parse(doc[k]) \in Value /\ Bounded(Parse(doc[k]).until, clock)
      BY <1>0, ParseType DEF Doc, TimeInv
    <3>. QED
      BY <1>0, <3>1, BreakerFileAssumption DEF Bounded, Value
  <2>. QED
    BY <1>5, <2>1, <2>2 DEF Tick, TimeInv
<1>6. ASSUME NEW p \in Proc,
             \/ CheckExists(p) \/ Lock(p) \/ GiveUp(p) \/ Load(p)
             \/ WriteTmp(p) \/ Answer(p) \/ Crash(p)
      PROVE  TimeInv'
  BY <1>2, <1>6 DEF CheckExists, Lock, GiveUp, Load, WriteTmp, Answer, Crash
<1>7. CASE SetThreshold \/ UNCHANGED vars
  BY <1>2, <1>7 DEF SetThreshold, vars
<1>. QED
  BY <1>1, <1>3, <1>4, <1>5, <1>6, <1>7 DEF Next, ProcStep

\* THE LENGTH OF A PAUSE: however long a failure waited for the lock, the pause
\* it starts ends within a cooldown from now.
THEOREM PauseEnds == Spec => []PauseBounded
<1>1. Init => TimeInv
  BY BreakerFileAssumption DEF Init, TimeInv, Bounded, NoKeys, Parse, Zero, NoOp, NewOp
<1>2. IInv /\ TimeInv /\ [Next]_vars => TimeInv'
  BY NextTime
<1>3. TimeInv => PauseBounded
  BY DEF TimeInv, Bounded, PauseBounded
<1>. QED
  BY <1>1, <1>2, <1>3, Invariance, PTL DEF Spec
=============================================================================
