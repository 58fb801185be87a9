------------------------- MODULE HealthProbeProofs -------------------------
(***************************************************************************)
(* Proofs about HealthProbe, for any number of models, callers, calls,     *)
(* kills and edits.                                                        *)
(*                                                                         *)
(* A verdict travels from the one who gave it into an update and from      *)
(* there into the file, while other updates carry older copies of the      *)
(* whole file: Genuine says that each of these holds given verdicts only.  *)
(* A lock has a keeper, and the keeper changes: the caller that made it    *)
(* hands it to its child, which loses no model of its queue (Handed).      *)
(***************************************************************************)
EXTENDS HealthProbe, TLAPS, FiniteSetTheorems

(***************************************************************************)
(* Sequences of models                                                     *)
(***************************************************************************)

\* The models of a set, in some order.
LEMMA SomeOrder ==
    ASSUME NEW S \in SUBSET Model, S # {}
    PROVE  SetToSeq(S) \in Seq(Model) /\ SetToSeq(S) # <<>>
<1>1. IsFiniteSet(S)
  BY HealthAssumption, FS_Subset
<1>2. /\ Cardinality(S) \in Nat /\ Cardinality(S) # 0
      /\ \E f \in [1..Cardinality(S) -> S] : IsInjective(f)
  BY <1>1, FS_CardinalityType, FS_EmptySet DEF ExistsBijection, Bijection, Injection
<1>3. SetToSeq(S) \in [1..Cardinality(S) -> S]
  BY <1>2 DEF SetToSeq
<1>. QED
  BY <1>2, <1>3

\* One model more.
LEMMA Longer ==
    ASSUME NEW s \in Seq(Model), NEW m \in Model
    PROVE  /\ Append(s, m) \in Seq(Model) /\ Append(s, m) # <<>>
           /\ ToSet(Append(s, m)) = ToSet(s) \cup {m}
<1> DEFINE t == Append(s, m)
<1>1. /\ t \in Seq(Model) /\ t # <<>> /\ DOMAIN t = DOMAIN s \cup {Len(s) + 1}
      /\ t[Len(s) + 1] = m /\ \A i \in DOMAIN s : t[i] = s[i]
  OBVIOUS
<1> HIDE DEF t
<1>2. ToSet(t) = ToSet(s) \cup {m}
  BY <1>1 DEF ToSet
<1>. QED
  BY <1>1, <1>2 DEF t

\* The first model and the others.
LEMMA Shorter ==
    ASSUME NEW s \in Seq(Model), s # <<>>
    PROVE  /\ Head(s) \in Model /\ Tail(s) \in Seq(Model)
           /\ ToSet(s) = {Head(s)} \cup ToSet(Tail(s))
<1>1. /\ Head(s) \in Model /\ Tail(s) \in Seq(Model)
      /\ Len(s) \in Nat \ {0} /\ Len(Tail(s)) = Len(s) - 1
      /\ Head(s) = s[1] /\ \A i \in 1..Len(s) - 1 : Tail(s)[i] = s[i + 1]
  OBVIOUS
<1>2. ASSUME NEW i \in DOMAIN s PROVE s[i] \in {Head(s)} \cup ToSet(Tail(s))
  <2>1. CASE i = 1
    BY <1>1, <2>1
  <2>2. CASE i # 1
    <3>1. i - 1 \in DOMAIN Tail(s) /\ Tail(s)[i - 1] = s[i]
      BY <1>1, <2>2
    <3>. QED
      BY <3>1 DEF ToSet
  <2>. QED
    BY <2>1, <2>2
<1>3. ASSUME NEW i \in DOMAIN Tail(s) PROVE Tail(s)[i] \in ToSet(s)
  <2>1. i + 1 \in DOMAIN s /\ Tail(s)[i] = s[i + 1]
    BY <1>1
  <2>. QED
    BY <2>1 DEF ToSet
<1>4. Head(s) \in ToSet(s)
  BY <1>1 DEF ToSet
<1>. QED
  BY <1>1, <1>2, <1>3, <1>4 DEF ToSet

\* No model at all.
LEMMA None == ToSet(<<>>) = {} /\ <<>> \in Seq(Model)
  BY DEF ToSet

(***************************************************************************)
(* The inductive invariant                                                 *)
(***************************************************************************)

\* A caller with models to try, and with the models it locked.
FineCaller(c) ==
    /\ DOMAIN c = {"pc", "todo", "tries", "claimed"}
    /\ c.pc \in {"idle", "try", "stat", "drop", "launch", "done"}
    /\ c.todo \in Seq(Model) /\ c.claimed \in Seq(Model)
    /\ c.pc \in {"try", "stat", "drop"} => c.todo # <<>>
    /\ c.pc = "launch" => c.claimed # <<>>
    /\ c.pc \in {"idle", "done"} => c.claimed = <<>>

\* A child has models to probe as long as it runs.
FineChild(d) ==
    /\ DOMAIN d = {"pc", "queue", "stop"}
    /\ d.pc \in {"none", "next", "probe", "release", "done"}
    /\ d.queue \in Seq(Model)
    /\ d.pc \in {"next", "probe", "release"} <=> d.queue # <<>>

\* A child runs only after its caller is done.
Handed ==
    /\ DOMAIN caller = Caller /\ DOMAIN child = Caller
    /\ \A p \in Caller : /\ FineCaller(caller[p]) /\ FineChild(child[p])
                         /\ caller[p].pc # "done" => child[p].pc = "none"

\* The models whose lock p will remove.
Holds(p) == ToSet(caller[p].claimed) \cup ToSet(child[p].queue)

Honest(c) == \A m \in Model : c[m].status # "none" => c[m] \in given[m]

\* What is on its way into the cache, and what is there, was given.
Genuine ==
    /\ DOMAIN given = Model /\ DOMAIN note = Writer
    /\ Honest(cache)
    /\ \A w \in Writer :
          /\ DOMAIN note[w] = {"pc", "model", "verdict", "snap"}
          /\ note[w].pc \in {"load", "store"} =>
                note[w].model \in Model /\ note[w].verdict \in given[note[w].model]
          /\ note[w].pc = "store" => Honest(note[w].snap)

Usable == edits \in Nat /\ (edits = 0 => usable)

IInv == Handed /\ Genuine /\ Usable /\ DOMAIN lock = Model /\ LocksAreKept


(***************************************************************************)
(* Each step keeps it                                                      *)
(***************************************************************************)

ProcessStep(p) ==
    \/ Ask(p) \/ TryLock(p) \/ StatLock(p) \/ DropLock(p) \/ Launch(p)
    \/ StartProbe(p) \/ EndProbe(p) \/ Release(p) \/ HardStop(p) \/ Kill(p)

\* Nobody but p moves.
Only(p) == /\ DOMAIN caller' = Caller /\ DOMAIN child' = Caller
           /\ \A q \in Caller \ {p} : caller'[q] = caller[q] /\ child'[q] = child[q]

\* A step of a caller or of its child moves nobody else.
LEMMA OnlyOne ==
    ASSUME Handed, NEW p \in Caller, ProcessStep(p)
    PROVE  Only(p)
  BY DEF ProcessStep, Ask, TryLock, StatLock, DropLock, Launch, StartProbe, EndProbe, Release,
         HardStop, Kill, Handed, Only

\* The caller's next model keeps what the caller locked.
LEMMA NextModelShape ==
    ASSUME NEW p \in Caller, FineCaller(caller[p]), caller[p].todo # <<>>,
           caller[p].pc \in {"try", "stat", "drop"}
    PROVE  /\ FineCaller(NextModel(p))
           /\ NextModel(p).claimed = caller[p].claimed
<1>1. Tail(caller[p].todo) \in Seq(Model)
  BY Shorter DEF FineCaller
<1>. QED
  BY <1>1 DEF FineCaller, NextModel

\* The lock of the next model is made.
GotLock(p) ==
    /\ lock[Head(caller[p].todo)] = NoLock
    /\ lock' = [lock EXCEPT ![Head(caller[p].todo)] = clock]
    /\ caller' = [caller EXCEPT ![p] =
           [pc |-> IF Tail(caller[p].todo) = <<>> THEN "launch" ELSE "try",
            todo |-> Tail(caller[p].todo), tries |-> 0,
            claimed |-> Append(caller[p].claimed, Head(caller[p].todo))]]

\* Else the caller looks at the lock, or leaves the model out.
NoLockGot(p) ==
    /\ lock' = lock
    /\ \/ caller' = [caller EXCEPT ![p].pc = "stat"]
       \/ caller' = [caller EXCEPT ![p] = NextModel(p)]

\* What a try can come to.
LEMMA TryCases ==
    ASSUME NEW p \in Caller, TryLock(p)
    PROVE  GotLock(p) \/ NoLockGot(p)
  BY DEF TryLock, GotLock, NoLockGot

\* The child's next model, or its end.
LEMMA NextInQueueShape ==
    ASSUME NEW p \in Caller, FineChild(child[p]), child[p].queue # <<>>
    PROVE  /\ FineChild(NextInQueue(p))
           /\ NextInQueue(p).queue = Tail(child[p].queue)
<1>1. Tail(child[p].queue) \in Seq(Model)
  BY Shorter DEF FineChild
<1>. QED
  BY <1>1 DEF FineChild, NextInQueue, NoChild

\* Callers hand their models on to their children.
LEMMA StepHands ==
    ASSUME Handed, NEW p \in Caller, ProcessStep(p)
    PROVE  Handed'
<1> DEFINE Fine == /\ FineCaller(caller'[p]) /\ FineChild(child'[p])
                   /\ caller'[p].pc # "done" => child'[p].pc = "none"
<1>a. SUFFICES Fine
  BY OnlyOne DEF Handed, Only
<1>b. /\ DOMAIN caller = Caller /\ DOMAIN child = Caller
      /\ FineCaller(caller[p]) /\ FineChild(child[p])
      /\ caller[p].pc # "done" => child[p].pc = "none"
  BY DEF Handed
<1>1. CASE Ask(p)
  <2>1. PICK ms \in (SUBSET Model) \ {{}} :
           caller' = [caller EXCEPT ![p].pc = "try", ![p].todo = SetToSeq(ms)]
    BY <1>1 DEF Ask
  <2>2. SetToSeq(ms) \in Seq(Model) /\ SetToSeq(ms) # <<>>
    <3>1. ms \in SUBSET Model /\ ms # {}
      BY <2>1
    <3>. QED
      BY <3>1, SomeOrder
  <2>3. /\ DOMAIN caller'[p] = DOMAIN caller[p] /\ caller'[p].pc = "try"
        /\ caller'[p].todo = SetToSeq(ms) /\ caller'[p].claimed = caller[p].claimed
    BY <1>b, <2>1 DEF FineCaller
  <2>4. child' = child /\ caller[p].pc = "idle"
    BY <1>1 DEF Ask, CallerAt
  <2>. QED
    BY <1>b, <2>2, <2>3, <2>4 DEF FineCaller
<1>2. CASE TryLock(p)
  <2>1. /\ Head(caller[p].todo) \in Model /\ Tail(caller[p].todo) \in Seq(Model)
        /\ Append(caller[p].claimed, Head(caller[p].todo)) \in Seq(Model)
        /\ Append(caller[p].claimed, Head(caller[p].todo)) # <<>>
    BY <1>2, <1>b, Shorter, Longer DEF TryLock, CallerAt, FineCaller
  <2>2. child' = child /\ caller[p].pc = "try"
    BY <1>2 DEF TryLock, CallerAt
  <2>3. CASE GotLock(p)
    <3>1. caller'[p] = [pc |-> IF Tail(caller[p].todo) = <<>> THEN "launch" ELSE "try",
                        todo |-> Tail(caller[p].todo), tries |-> 0,
                        claimed |-> Append(caller[p].claimed, Head(caller[p].todo))]
      BY <1>b, <2>3 DEF GotLock
    <3>2. FineCaller(caller'[p])
      BY <2>1, <3>1 DEF FineCaller
    <3>. QED
      BY <1>b, <2>2, <3>2
  <2>4. CASE NoLockGot(p)
    <3>1. caller[p].todo # <<>>
      BY <1>b, <2>2 DEF FineCaller
    <3>2. FineCaller(NextModel(p)) /\ FineCaller([caller[p] EXCEPT !.pc = "stat"])
      BY <1>b, <2>2, <3>1, NextModelShape DEF FineCaller
    <3>3. caller'[p] \in {NextModel(p), [caller[p] EXCEPT !.pc = "stat"]}
      BY <1>b, <2>4 DEF NoLockGot
    <3>. QED
      BY <1>b, <2>2, <3>2, <3>3
  <2>. QED
    BY <1>2, <2>3, <2>4, TryCases
<1>3. CASE StatLock(p)
  <2>1. caller[p].todo # <<>> /\ caller[p].pc = "stat"
    BY <1>3, <1>b DEF StatLock, CallerAt, FineCaller
  <2>2. FineCaller(NextModel(p))
    BY <1>b, <2>1, NextModelShape
  <2>3. FineCaller([caller[p] EXCEPT !.pc = "drop"])
    BY <1>b, <2>1 DEF FineCaller
  <2>4. caller'[p] \in {NextModel(p), [caller[p] EXCEPT !.pc = "drop"]}
    BY <1>3, <1>b DEF StatLock
  <2>. QED
    BY <1>3, <1>b, <2>1, <2>2, <2>3, <2>4 DEF StatLock
<1>4. CASE DropLock(p)
  <2>1. caller[p].todo # <<>> /\ caller[p].pc = "drop"
    BY <1>4, <1>b DEF DropLock, CallerAt, FineCaller
  <2>2. FineCaller(NextModel(p))
    BY <1>b, <2>1, NextModelShape
  <2>3. FineCaller([caller[p] EXCEPT !.pc = "try", !.tries = 1])
    BY <1>b, <2>1 DEF FineCaller
  <2>4. caller'[p] \in {NextModel(p), [caller[p] EXCEPT !.pc = "try", !.tries = 1]}
    BY <1>4, <1>b DEF DropLock
  <2>. QED
    BY <1>4, <1>b, <2>1, <2>2, <2>3, <2>4 DEF DropLock
<1>5. CASE Launch(p)
  <2>1. caller'[p] = [IdleCaller EXCEPT !.pc = "done"]
    BY <1>5, <1>b DEF Launch
  <2>2. FineCaller(caller'[p]) /\ caller'[p].pc = "done"
    BY <2>1, None DEF IdleCaller, FineCaller
  <2>3. FineChild(child'[p])
    BY <1>5, <1>b DEF Launch, CallerAt, FineCaller, FineChild
  <2>. QED
    BY <2>2, <2>3
<1>6. CASE StartProbe(p)
  <2>1. child[p].queue # <<>>
    BY <1>6, <1>b DEF StartProbe, ChildAt, FineChild
  <2>2. FineChild(child'[p])
    BY <1>6, <1>b, <2>1, NextInQueueShape DEF StartProbe, ChildAt, FineChild
  <2>. QED
    BY <1>6, <1>b, <2>2 DEF StartProbe, ChildAt
<1>7. CASE EndProbe(p)
  BY <1>7, <1>b DEF EndProbe, ChildAt, FineChild
<1>8. CASE Release(p)
  <2>1. child[p].queue # <<>>
    BY <1>8, <1>b DEF Release, ChildAt, FineChild
  <2>2. FineChild(child'[p])
    BY <1>8, <1>b, <2>1, NextInQueueShape DEF Release
  <2>. QED
    BY <1>8, <1>b, <2>2 DEF Release, ChildAt
<1>9. CASE HardStop(p)
  BY <1>9, <1>b, None DEF HardStop, FineChild, NoChild
<1>10. CASE Kill(p)
  BY <1>10, <1>b, None DEF Kill, FineCaller, FineChild, IdleCaller, NoChild
<1>. QED
  BY <1>1, <1>2, <1>3, <1>4, <1>5, <1>6, <1>7, <1>8, <1>9, <1>10 DEF ProcessStep

\* An update that is dropped, and one that begins with a verdict given now.
LEMMA StepGenuine ==
    ASSUME Handed, Genuine, NEW p \in Caller, ProcessStep(p)
    PROVE  Genuine'
<1> USE DEF Genuine, Honest, Writer
<1>1. CASE UNCHANGED <<cache, note, given>>
  BY <1>1
<1>2. CASE EndProbe(p)
  <2>1. Head(child[p].queue) \in Model
    BY <1>2, Shorter DEF EndProbe, ChildAt, Handed, FineChild
  <2>2. \A m \in Model : given[m] \subseteq given'[m]
    BY <1>2 DEF EndProbe
  <2>3. /\ cache' = cache /\ DOMAIN given' = Model /\ DOMAIN note' = Writer
        /\ \A w \in Writer \ {p} : note'[w] = note[w]
    BY <1>2 DEF EndProbe
  <2>4. /\ DOMAIN note'[p] = {"pc", "model", "verdict", "snap"} /\ note'[p].pc # "store"
        /\ note'[p].pc = "load" =>
              note'[p].model \in Model /\ note'[p].verdict \in given'[note'[p].model]
    <3>1. CASE UNCHANGED <<note, given>>
      BY <1>2, <3>1 DEF EndProbe
    <3>2. CASE note' # note \/ given' # given
      <4>1. PICK s \in Verdict :
               LET v == [status |-> s, at |-> clock]
               IN  /\ note' = [note EXCEPT ![p] = [IdleNote EXCEPT
                                  !.pc = "load", !.model = Head(child[p].queue), !.verdict = v]]
                   /\ given' = [given EXCEPT ![Head(child[p].queue)] = @ \cup {v}]
        BY <1>2, <3>2 DEF EndProbe
      <4>2. /\ DOMAIN note'[p] = DOMAIN IdleNote /\ note'[p].pc = "load"
            /\ note'[p].model = Head(child[p].queue)
            /\ note'[p].verdict = [status |-> s, at |-> clock]
        BY <4>1 DEF IdleNote
      <4>3. [status |-> s, at |-> clock] \in given'[Head(child[p].queue)]
        BY <2>1, <4>1
      <4>. QED
        BY <2>1, <4>2, <4>3 DEF IdleNote
    <3>. QED
      BY <3>1, <3>2
  <2>. QED
    BY <2>2, <2>3, <2>4
<1>3. CASE /\ UNCHANGED <<cache, given>>
           /\ note' = [note EXCEPT ![p] = IdleNote]
  BY <1>3 DEF IdleNote
<1>. QED
  BY <1>1, <1>2, <1>3
     DEF ProcessStep, Ask, TryLock, StatLock, DropLock, Launch, StartProbe, Release, HardStop,
         Kill, historyVars

\* It is enough to look at p: what it locks it holds, and what it no longer
\* holds is unlocked or lost.
LEMMA KeepersStep ==
    ASSUME LocksAreKept, NEW p \in Caller, Only(p), edits' = 0 => edits = 0,
           edits' = 0 => \A m \in Model : lock'[m] # NoLock =>
               \/ m \in Holds(p)' \/ m \in lost'
               \/ lock[m] # NoLock /\ m \notin Holds(p) /\ (m \in lost => m \in lost')
    PROVE  LocksAreKept'
<1> SUFFICES ASSUME edits' = 0, NEW m \in Model, lock'[m] # NoLock, m \notin lost'
             PROVE  \E q \in Caller : m \in Holds(q)'
  BY DEF LocksAreKept, Keepers, Holds
<1>1. CASE m \in Holds(p)'
  BY <1>1
<1>2. CASE lock[m] # NoLock /\ m \notin Holds(p) /\ m \notin lost
  <2>1. PICK q \in Caller : m \in Holds(q)
    BY <1>2 DEF LocksAreKept, Keepers, Holds
  <2>2. m \in Holds(q)'
    BY <1>2, <2>1 DEF Only, Holds
  <2>. QED
    BY <2>2
<1>. QED
  BY <1>1, <1>2

\* Every lock keeps a keeper, unless that one is stopped.
LEMMA StepKeepsLocks ==
    ASSUME IInv, NEW p \in Caller, ProcessStep(p)
    PROVE  DOMAIN lock' = Model /\ LocksAreKept'
<1> DEFINE Kept == \A m \in Model : lock'[m] # NoLock =>
                      \/ m \in Holds(p)' \/ m \in lost'
                      \/ lock[m] # NoLock /\ m \notin Holds(p) /\ (m \in lost => m \in lost')
<1>a. Only(p) /\ LocksAreKept /\ edits' = edits
  BY OnlyOne DEF IInv, ProcessStep, Ask, TryLock, StatLock, DropLock, Launch, StartProbe,
                 EndProbe, Release, HardStop, Kill, envVars
<1>b. /\ DOMAIN caller = Caller /\ DOMAIN child = Caller /\ DOMAIN lock = Model
      /\ FineCaller(caller[p]) /\ FineChild(child[p])
      /\ caller[p].pc # "done" => child[p].pc = "none"
      /\ edits = 0 => usable
  BY DEF IInv, Handed, Usable
<1>e. DOMAIN lock' = Model
  BY <1>b DEF ProcessStep, Ask, TryLock, StatLock, DropLock, Launch, StartProbe, EndProbe,
              Release, HardStop, Kill, Unlock
<1> SUFFICES edits = 0 => Kept
  BY <1>a, <1>e, KeepersStep
<1>c. ASSUME lock' = lock, lost' = lost, Holds(p)' = Holds(p) PROVE Kept
  BY <1>c
<1>d. ASSUME NEW m \in Model, lock' = Unlock({m}), lost' = lost \ {m},
             Holds(p) \ {m} \subseteq Holds(p)'
      PROVE  Kept
  BY <1>d DEF Unlock
<1>1. CASE Ask(p)
  <2>1. caller'[p].claimed = caller[p].claimed /\ child' = child
    BY <1>1, <1>b DEF Ask, FineCaller
  <2>. QED
    BY <1>1, <1>c, <2>1 DEF Ask, Holds, historyVars
<1>2. CASE TryLock(p)
  <2>1. /\ Head(caller[p].todo) \in Model
        /\ ToSet(Append(caller[p].claimed, Head(caller[p].todo))) =
              ToSet(caller[p].claimed) \cup {Head(caller[p].todo)}
    BY <1>2, <1>b, Shorter, Longer DEF TryLock, CallerAt, FineCaller
  <2>2. child' = child /\ lost' = lost
    BY <1>2 DEF TryLock, historyVars
  <2>3. CASE GotLock(p)
    <3>1. caller'[p].claimed = Append(caller[p].claimed, Head(caller[p].todo))
      BY <1>b, <2>3 DEF GotLock
    <3>2. \A m \in Model : lock'[m] # NoLock => lock[m] # NoLock \/ m = Head(caller[p].todo)
      BY <1>b, <2>3 DEF GotLock
    <3>. QED
      BY <2>1, <2>2, <3>1, <3>2 DEF Holds
  <2>4. CASE NoLockGot(p)
    <3>0. NextModel(p).claimed = caller[p].claimed
      BY <1>2, <1>b, NextModelShape DEF TryLock, CallerAt, FineCaller
    <3>1. caller'[p].claimed = caller[p].claimed /\ lock' = lock
      BY <1>b, <2>4, <3>0 DEF NoLockGot, FineCaller
    <3>. QED
      BY <1>c, <2>2, <3>1 DEF Holds
  <2>. QED
    BY <1>2, <2>3, <2>4, TryCases
<1>3. CASE StatLock(p)
  <2>1. NextModel(p).claimed = caller[p].claimed
    BY <1>3, <1>b, NextModelShape DEF StatLock, CallerAt, FineCaller
  <2>2. caller'[p].claimed = caller[p].claimed
    BY <1>3, <1>b, <2>1 DEF StatLock, FineCaller
  <2>. QED
    BY <1>3, <1>c, <2>2 DEF StatLock, Holds, historyVars
<1>4. CASE DropLock(p)
  <2>1. NextModel(p).claimed = caller[p].claimed /\ Head(caller[p].todo) \in Model
    BY <1>4, <1>b, NextModelShape, Shorter DEF DropLock, CallerAt, FineCaller
  <2>2. caller'[p].claimed = caller[p].claimed
    BY <1>4, <1>b, <2>1 DEF DropLock, FineCaller
  <2>. QED
    BY <1>4, <1>d, <2>1, <2>2 DEF DropLock, Holds
<1>5. CASE Launch(p)
  <2>1. Holds(p) = ToSet(caller[p].claimed)
    BY <1>5, <1>b, None DEF Launch, CallerAt, FineChild, Holds
  <2>2. lost' = lost
    BY <1>5 DEF Launch, historyVars
  <2>3. CASE lock' = lock /\ child'[p].queue = caller[p].claimed
    BY <2>1, <2>2, <2>3 DEF Holds
  <2>4. CASE lock' = Unlock(ToSet(caller[p].claimed))
    BY <2>1, <2>2, <2>4 DEF Unlock
  <2>. QED
    BY <1>5, <1>b, <2>3, <2>4 DEF Launch
<1>6. CASE StartProbe(p)
  <2>1. /\ edits = 0 => child'[p].queue = child[p].queue
        /\ caller' = caller /\ lock' = lock /\ lost' = lost
    BY <1>6, <1>b DEF StartProbe, FineChild
  <2>. QED
    BY <1>c, <2>1 DEF Holds
<1>7. CASE EndProbe(p)
  <2>1. /\ child'[p].queue = child[p].queue
        /\ caller' = caller /\ lock' = lock /\ lost' = lost
    BY <1>7, <1>b DEF EndProbe, FineChild
  <2>. QED
    BY <1>c, <2>1 DEF Holds
<1>8. CASE Release(p)
  <2>1. child[p].queue # <<>> /\ child[p].queue \in Seq(Model)
    BY <1>8, <1>b DEF Release, ChildAt, FineChild
  <2>2. /\ child'[p].queue = Tail(child[p].queue) /\ Head(child[p].queue) \in Model
        /\ ToSet(child[p].queue) = {Head(child[p].queue)} \cup ToSet(child'[p].queue)
    BY <1>8, <1>b, <2>1, NextInQueueShape, Shorter DEF Release
  <2>. QED
    BY <1>8, <1>d, <2>2 DEF Release, Holds
<1>9. CASE HardStop(p)
  <2>1. child[p].queue # <<>> /\ child[p].queue \in Seq(Model)
    BY <1>9, <1>b DEF HardStop, FineChild
  <2>2. ToSet(child[p].queue) = {Head(child[p].queue)} \cup ToSet(Tail(child[p].queue))
    BY <2>1, Shorter
  <2>3. \A m \in Model : lock'[m] # NoLock =>
           lock[m] # NoLock /\ (m \in ToSet(child[p].queue) => m \in lost')
    BY <1>9, <2>2 DEF HardStop, Unlock
  <2>4. caller' = caller /\ lost \subseteq lost'
    BY <1>9 DEF HardStop
  <2>. QED
    BY <2>3, <2>4 DEF Holds
<1>10. CASE Kill(p)
  <2>1. lock' = lock /\ lost \subseteq lost'
    BY <1>10 DEF Kill
  <2>2. Holds(p) \subseteq lost' \cup Holds(p)'
    BY <1>10, <1>b DEF Kill, Holds
  <2>. QED
    BY <2>1, <2>2
<1>. QED
  BY <1>1, <1>2, <1>3, <1>4, <1>5, <1>6, <1>7, <1>8, <1>9, <1>10 DEF ProcessStep

\* A real call gives a verdict of its own.
LEMMA NoteCallGenuine ==
    ASSUME Genuine, NEW c \in Call, NoteCall(c)
    PROVE  Genuine'
<1>1. \A m \in Model : given[m] \subseteq given'[m]
  BY DEF NoteCall, Genuine
<1>. QED
  BY <1>1 DEF NoteCall, IdleNote, Genuine, Honest, Writer

\* The file is read and replaced: every entry was given, or is unknown.
LEMMA UpdateGenuine ==
    ASSUME Genuine, NEW w \in Writer, Load(w) \/ Store(w)
    PROVE  Genuine'
<1> USE DEF Genuine, Honest
<1>1. CASE Load(w)
  BY <1>1 DEF Load, historyVars
<1>2. CASE Store(w)
  <2>1. UNCHANGED given /\ note' = [note EXCEPT ![w] = IdleNote]
    BY <1>2 DEF Store
  <2>2. Honest(Stored(note[w]))
    BY <1>2 DEF Store, Stored, Unknown
  <2>3. Honest(cache)'
    BY <1>2, <2>1, <2>2 DEF Store
  <2>. QED
    BY <2>1, <2>3 DEF IdleNote
<1>. QED
  BY <1>1, <1>2

\* Any step keeps the invariant.
LEMMA StepKeeps == IInv /\ [Next]_vars => IInv'
<1> SUFFICES ASSUME IInv, [Next]_vars PROVE IInv'
  OBVIOUS
<1>1. ASSUME NEW p \in Caller, ProcessStep(p) PROVE IInv'
  <2>1. Usable'
    BY <1>1 DEF IInv, Usable, ProcessStep, Ask, TryLock, StatLock, DropLock, Launch, StartProbe,
                EndProbe, Release, HardStop, Kill, envVars
  <2>. QED
    BY <1>1, <2>1, StepHands, StepGenuine, StepKeepsLocks DEF IInv
<1>2. ASSUME NEW c \in Call, NoteCall(c) PROVE IInv'
  <2>1. UNCHANGED <<lock, caller, child, envVars, lost>>
    BY <1>2 DEF NoteCall
  <2>. QED
    BY <1>2, <2>1, NoteCallGenuine DEF IInv, Handed, Usable, LocksAreKept, Keepers, envVars
<1>3. ASSUME NEW w \in Writer, Load(w) \/ Store(w) PROVE IInv'
  <2>1. UNCHANGED <<lock, caller, child, envVars, lost>>
    BY <1>3 DEF Load, Store, historyVars
  <2>. QED
    BY <1>3, <2>1, UpdateGenuine DEF IInv, Handed, Usable, LocksAreKept, Keepers, envVars
<1>4. ASSUME EditProvider \/ Tick PROVE IInv'
  <2>1. /\ UNCHANGED <<cache, lock, caller, child, note, given, lost>>
        /\ (edits' = edits /\ usable' = usable) \/ edits' = edits + 1
    BY <1>4 DEF EditProvider, Tick, historyVars
  <2>2. Genuine' /\ Handed'
    BY <2>1 DEF IInv, Handed, Genuine, Honest
  <2>3. edits' = 0 => edits = 0 /\ usable' = usable
    BY <2>1 DEF IInv, Usable
  <2>. QED
    BY <2>1, <2>2, <2>3 DEF IInv, Usable, LocksAreKept, Keepers
<1>5. CASE UNCHANGED vars
  BY <1>5 DEF vars, envVars, historyVars, IInv, Handed, Genuine, Honest, Usable, LocksAreKept,
              Keepers
<1>. QED
  BY <1>1, <1>2, <1>3, <1>4, <1>5 DEF Next, ProcessStep

\* At first there is no lock, no child and no status.
LEMMA InitKeeps == Init => IInv
<1> SUFFICES ASSUME Init PROVE IInv
  OBVIOUS
<1>1. Handed
  BY None DEF Init, Handed, FineCaller, FineChild, IdleCaller, NoChild
<1>2. Genuine
  BY DEF Init, Genuine, Honest, Unknown, IdleNote, Writer
<1>3. Usable /\ DOMAIN lock = Model /\ LocksAreKept
  BY DEF Init, Usable, LocksAreKept
<1>. QED
  BY <1>1, <1>2, <1>3 DEF IInv

(***************************************************************************)
(* One probe at a time                                                     *)
(***************************************************************************)

\* A model is in the sequence at most once.
OnceIn(s, m) == \A i, j \in DOMAIN s : s[i] = m /\ s[j] = m => i = j

\* The lock of m works: one process holds it, as long as it is there, and no
\* caller is about to take it for stale.
Once(m) ==
    /\ \A p, q \in Caller : m \in Holds(p) /\ m \in Holds(q) => p = q
    /\ \A p \in Caller : m \in Holds(p) => lock[m] # NoLock
    /\ \A p \in Caller : OnceIn(caller[p].claimed, m) /\ OnceIn(child[p].queue, m)
    /\ \A p \in Caller : CallerAt(p, "drop") => Head(caller[p].todo) # m
    /\ ~Expired(m, clock) /\ m \notin twice

OnceInv ==
    /\ clock \in Nat /\ twice \subseteq Model
    /\ \A m \in Model \ aged : Once(m)

\* A model that is not in a sequence is in the longer one once.
LEMMA OnceLonger ==
    ASSUME NEW s \in Seq(Model), NEW x \in Model, NEW m \in Model,
           OnceIn(s, m), x = m => m \notin ToSet(s)
    PROVE  OnceIn(Append(s, x), m)
<1>1. /\ DOMAIN Append(s, x) = 1..Len(s) + 1 /\ DOMAIN s = 1..Len(s) /\ Len(s) \in Nat
      /\ Append(s, x)[Len(s) + 1] = x
      /\ \A i \in 1..Len(s) : Append(s, x)[i] = s[i]
  OBVIOUS
<1>2. x = m => \A i \in 1..Len(s) : s[i] # m
  BY <1>1 DEF ToSet
<1>. QED
  BY <1>1, <1>2 DEF OnceIn

\* Without its head the sequence does not hold a model twice either, and does
\* not hold the head.
LEMMA OnceShorter ==
    ASSUME NEW s \in Seq(Model), s # <<>>, NEW m \in Model, OnceIn(s, m)
    PROVE  OnceIn(Tail(s), m) /\ (Head(s) = m => m \notin ToSet(Tail(s)))
<1>1. /\ Len(s) \in Nat \ {0} /\ DOMAIN s = 1..Len(s) /\ DOMAIN Tail(s) = 1..Len(s) - 1
      /\ Head(s) = s[1] /\ \A i \in 1..Len(s) - 1 : Tail(s)[i] = s[i + 1]
  OBVIOUS
<1>2. OnceIn(Tail(s), m)
  <2> SUFFICES ASSUME NEW i \in DOMAIN Tail(s), NEW j \in DOMAIN Tail(s),
                      Tail(s)[i] = m, Tail(s)[j] = m
               PROVE  i = j
    BY DEF OnceIn
  <2>1. i + 1 \in DOMAIN s /\ j + 1 \in DOMAIN s /\ s[i + 1] = m /\ s[j + 1] = m
    BY <1>1
  <2>2. i + 1 = j + 1
    BY <2>1 DEF OnceIn
  <2>. QED
    BY <1>1, <2>2
<1>3. ASSUME Head(s) = m, NEW i \in DOMAIN Tail(s), Tail(s)[i] = m PROVE FALSE
  <2>1. i + 1 \in DOMAIN s /\ 1 \in DOMAIN s /\ s[i + 1] = m /\ s[1] = m /\ i + 1 # 1
    BY <1>1, <1>3
  <2>. QED
    BY <2>1 DEF OnceIn
<1>. QED
  BY <1>2, <1>3 DEF ToSet

\* No model is in the empty sequence.
LEMMA OnceNone == \A m : OnceIn(<<>>, m)
  BY DEF OnceIn

\* A step of p: it takes a lock only when there is none, and frees only what it
\* holds.
LEMMA OnceStep ==
    ASSUME NEW p \in Caller, NEW m \in Model, Once(m), Only(p), clock' = clock, clock \in Nat,
           m \in Holds(p)' => lock'[m] # NoLock /\ (m \in Holds(p) \/ lock[m] = NoLock),
           \/ lock'[m] = lock[m]
           \/ lock'[m] = NoLock /\ m \in Holds(p)
           \/ lock'[m] = clock /\ lock[m] = NoLock,
           OnceIn(caller'[p].claimed, m), OnceIn(child'[p].queue, m),
           caller'[p].pc = "drop" => Head(caller'[p].todo) # m,
           m \notin twice'
    PROVE  Once(m)'
<1>1. \A q \in Caller \ {p} : Holds(q)' = Holds(q) /\ (m \in Holds(q) => m \notin Holds(p)')
  BY DEF Once, Only, Holds
<1>2. \A q, r \in Caller : m \in Holds(q)' /\ m \in Holds(r)' => q = r
  BY <1>1 DEF Once
<1>3. \A q \in Caller : m \in Holds(q)' => lock'[m] # NoLock
  BY <1>1, HealthAssumption DEF Once
<1>4. \A q \in Caller : OnceIn(caller'[q].claimed, m) /\ OnceIn(child'[q].queue, m)
  BY DEF Once, Only
<1>5. \A q \in Caller : caller'[q].pc = "drop" => Head(caller'[q].todo) # m
  BY DEF Once, Only, CallerAt
<1>6. ~Expired(m, clock)'
  BY HealthAssumption DEF Once, Expired
<1>. QED
  BY <1>2, <1>3, <1>4, <1>5, <1>6 DEF Once, CallerAt

\* No step of a process makes a lock useless that was not stale.
LEMMA StepOnce ==
    ASSUME IInv, OnceInv, NEW p \in Caller, ProcessStep(p)
    PROVE  OnceInv'
<1>a. Only(p) /\ clock' = clock /\ clock \in Nat /\ aged' = aged
  BY OnlyOne DEF IInv, OnceInv, ProcessStep, Ask, TryLock, StatLock, DropLock, Launch, StartProbe,
                 EndProbe, Release, HardStop, Kill, envVars, historyVars
<1>b. /\ DOMAIN caller = Caller /\ DOMAIN child = Caller /\ DOMAIN lock = Model
      /\ FineCaller(caller[p]) /\ FineChild(child[p])
      /\ caller[p].pc # "done" => child[p].pc = "none"
  BY DEF IInv, Handed
<1>c. twice' \subseteq Model
  <2>1. StartProbe(p) => Head(child[p].queue) \in Model
    BY <1>b, Shorter DEF StartProbe, ChildAt, FineChild
  <2>. QED
    BY <2>1 DEF OnceInv, ProcessStep, Ask, TryLock, StatLock, DropLock, Launch, StartProbe,
                EndProbe, Release, HardStop, Kill, historyVars
<1> SUFFICES ASSUME NEW m \in Model \ aged PROVE Once(m)'
  BY <1>a, <1>c DEF OnceInv
<1>d. Once(m)
  BY DEF OnceInv
<1>e. /\ OnceIn(caller[p].claimed, m) /\ OnceIn(child[p].queue, m) /\ m \notin twice
      /\ caller[p].pc = "drop" => Head(caller[p].todo) # m
      /\ m \in Holds(p) => lock[m] # NoLock
      /\ ~Expired(m, clock)
  BY <1>d DEF Once, CallerAt
<1>1. CASE Ask(p)
  <2>1. caller'[p].claimed = caller[p].claimed /\ caller'[p].pc = "try" /\ child' = child
    BY <1>1, <1>b DEF Ask, FineCaller
  <2>2. lock' = lock /\ twice' = twice
    BY <1>1 DEF Ask, historyVars
  <2>. QED
    BY <1>a, <1>d, <1>e, <2>1, <2>2, OnceStep DEF Holds
<1>2. CASE TryLock(p)
  <2>1. /\ Head(caller[p].todo) \in Model /\ caller[p].claimed \in Seq(Model)
        /\ ToSet(Append(caller[p].claimed, Head(caller[p].todo))) =
              ToSet(caller[p].claimed) \cup {Head(caller[p].todo)}
    BY <1>2, <1>b, Shorter, Longer DEF TryLock, CallerAt, FineCaller
  <2>2. child' = child /\ twice' = twice /\ clock # NoLock
    BY <1>2, <1>a, HealthAssumption DEF TryLock, historyVars
  <2>3. CASE GotLock(p)
    <3>1. /\ caller'[p].claimed = Append(caller[p].claimed, Head(caller[p].todo))
          /\ caller'[p].pc # "drop" /\ lock[Head(caller[p].todo)] = NoLock
          /\ lock' = [lock EXCEPT ![Head(caller[p].todo)] = clock]
      BY <1>b, <2>3 DEF GotLock
    <3>2. OnceIn(caller'[p].claimed, m)
      BY <1>e, <2>1, <2>3, <3>1, OnceLonger DEF Holds
    <3>3. Holds(p)' = Holds(p) \cup {Head(caller[p].todo)}
      BY <2>1, <2>2, <3>1 DEF Holds
    <3>. QED
      BY <1>a, <1>b, <1>d, <1>e, <2>1, <2>2, <2>3, <3>1, <3>2, <3>3, OnceStep
  <2>4. CASE NoLockGot(p)
    <3>0. NextModel(p).claimed = caller[p].claimed /\ NextModel(p).pc # "drop"
      BY <1>2, <1>b, NextModelShape DEF TryLock, CallerAt, FineCaller, NextModel
    <3>1. caller'[p].claimed = caller[p].claimed /\ caller'[p].pc # "drop" /\ lock' = lock
      BY <1>b, <2>4, <3>0 DEF NoLockGot, FineCaller
    <3>. QED
      BY <1>a, <1>d, <1>e, <2>2, <3>1, OnceStep DEF Holds
  <2>. QED
    BY <1>2, <2>3, <2>4, TryCases
<1>3. CASE StatLock(p)
  <2>1. NextModel(p).claimed = caller[p].claimed /\ NextModel(p).pc # "drop"
    BY <1>3, <1>b, NextModelShape DEF StatLock, CallerAt, FineCaller, NextModel
  <2>2. /\ caller'[p].claimed = caller[p].claimed
        /\ caller'[p].pc = "drop" => /\ caller'[p].todo = caller[p].todo
                                     /\ Expired(Head(caller[p].todo), clock)
    BY <1>3, <1>b, <2>1 DEF StatLock, FineCaller
  <2>3. child' = child /\ lock' = lock /\ twice' = twice
    BY <1>3 DEF StatLock, historyVars
  <2>. QED
    BY <1>a, <1>d, <1>e, <2>2, <2>3, OnceStep DEF Holds
<1>4. CASE DropLock(p)
  <2>1. NextModel(p).claimed = caller[p].claimed /\ NextModel(p).pc # "drop"
    BY <1>4, <1>b, NextModelShape DEF DropLock, CallerAt, FineCaller, NextModel
  <2>2. caller'[p].claimed = caller[p].claimed /\ caller'[p].pc # "drop"
    BY <1>4, <1>b, <2>1 DEF DropLock, FineCaller
  <2>3. child' = child /\ lock'[m] = lock[m] /\ twice' = twice
    BY <1>4, <1>e DEF DropLock, CallerAt, Unlock
  <2>. QED
    BY <1>a, <1>d, <1>e, <2>2, <2>3, OnceStep DEF Holds
<1>5. CASE Launch(p)
  <2>1. Holds(p) = ToSet(caller[p].claimed)
    BY <1>5, <1>b, None DEF Launch, CallerAt, FineChild, Holds
  <2>2. caller'[p] = [IdleCaller EXCEPT !.pc = "done"] /\ twice' = twice
    BY <1>5, <1>b DEF Launch, historyVars
  <2>3. caller'[p].claimed = <<>> /\ caller'[p].pc = "done"
    BY <2>2 DEF IdleCaller
  <2>4. CASE lock' = lock /\ child'[p].queue = caller[p].claimed
    <3>1. Holds(p)' = Holds(p)
      BY <2>1, <2>3, <2>4, None DEF Holds
    <3>. QED
      BY <1>a, <1>d, <1>e, <2>2, <2>3, <2>4, <3>1, OnceStep, OnceNone
  <2>5. CASE lock' = Unlock(ToSet(caller[p].claimed)) /\ child' = child
    <3>1. Holds(p)' = {}
      BY <1>5, <1>b, <2>3, <2>5, None DEF Launch, CallerAt, FineChild, Holds
    <3>2. lock'[m] = lock[m] \/ (lock'[m] = NoLock /\ m \in Holds(p))
      BY <2>1, <2>5 DEF Unlock
    <3>3. /\ OnceIn(caller'[p].claimed, m) /\ OnceIn(child'[p].queue, m) /\ m \notin twice'
          /\ m \notin Holds(p)' /\ caller'[p].pc # "drop"
      BY <1>e, <2>2, <2>3, <2>5, <3>1, OnceNone
    <3>. QED
      BY <1>a, <1>d, <3>2, <3>3, OnceStep
  <2>. QED
    BY <1>5, <1>b, <2>4, <2>5 DEF Launch
<1>6. CASE StartProbe(p)
  <2>1. /\ child[p].queue # <<>> /\ child[p].queue \in Seq(Model)
        /\ Head(child[p].queue) \in ToSet(child[p].queue)
        /\ ToSet(Tail(child[p].queue)) \subseteq ToSet(child[p].queue)
    BY <1>6, <1>b, Shorter DEF StartProbe, ChildAt, FineChild
  <2>2. lock' = lock /\ caller' = caller
    BY <1>6 DEF StartProbe
  <2>3. CASE usable
    <3>1. child'[p].queue = child[p].queue
      BY <1>6, <1>b, <2>3 DEF StartProbe, FineChild
    <3>2. m \notin twice'
      <4>1. ASSUME m = Head(child[p].queue), NEW q \in Probing(m) PROVE FALSE
        <5>1. /\ q \in Caller /\ child[q].pc \in {"probe", "release"}
              /\ Head(child[q].queue) = m /\ FineChild(child[q])
          BY <4>1 DEF Probing, IInv, Handed
        <5>2. m \in ToSet(child[q].queue)
          BY <5>1, Shorter DEF FineChild
        <5>3. q = p
          BY <1>d, <2>1, <4>1, <5>1, <5>2 DEF Once, Holds
        <5>. QED
          BY <1>6, <5>1, <5>3 DEF StartProbe, ChildAt
      <4>. QED
        BY <1>6, <1>e, <2>3, <4>1 DEF StartProbe
    <3>. QED
      BY <1>a, <1>d, <1>e, <2>2, <3>1, <3>2, OnceStep DEF Holds
  <2>4. CASE ~usable
    <3>1. child'[p].queue = Tail(child[p].queue) /\ twice' = twice
      BY <1>6, <1>b, <2>1, <2>4, NextInQueueShape DEF StartProbe
    <3>2. OnceIn(child'[p].queue, m)
      BY <1>e, <2>1, <3>1, OnceShorter
    <3>. QED
      BY <1>a, <1>d, <1>e, <2>1, <2>2, <3>1, <3>2, OnceStep DEF Holds
  <2>. QED
    BY <2>3, <2>4
<1>7. CASE EndProbe(p)
  <2>1. child'[p].queue = child[p].queue /\ caller' = caller /\ lock' = lock /\ twice' = twice
    BY <1>7, <1>b DEF EndProbe, FineChild
  <2>. QED
    BY <1>a, <1>d, <1>e, <2>1, OnceStep DEF Holds
<1>8. CASE Release(p)
  <2>1. child[p].queue # <<>> /\ child[p].queue \in Seq(Model) /\ caller[p].claimed = <<>>
    BY <1>8, <1>b DEF Release, ChildAt, FineChild, FineCaller
  <2>2. /\ child'[p].queue = Tail(child[p].queue) /\ Head(child[p].queue) \in Model
        /\ ToSet(child[p].queue) = {Head(child[p].queue)} \cup ToSet(child'[p].queue)
    BY <1>8, <1>b, <2>1, NextInQueueShape, Shorter DEF Release
  <2>3. /\ OnceIn(child'[p].queue, m)
        /\ Head(child[p].queue) = m => m \notin ToSet(child'[p].queue)
    BY <1>e, <2>1, <2>2, OnceShorter
  <2>4. caller' = caller /\ twice' = twice /\ lock' = Unlock({Head(child[p].queue)})
    BY <1>8 DEF Release
  <2>5. Holds(p)' = ToSet(child'[p].queue) /\ Holds(p) = ToSet(child[p].queue)
    BY <2>1, <2>4, None DEF Holds
  <2>6. \/ m # Head(child[p].queue) /\ lock'[m] = lock[m]
        \/ m = Head(child[p].queue) /\ lock'[m] = NoLock
    BY <2>4 DEF Unlock
  <2>. QED
    BY <1>a, <1>d, <1>e, <2>2, <2>3, <2>4, <2>5, <2>6, OnceStep
<1>9. CASE HardStop(p)
  <2>1. /\ child[p].queue # <<>> /\ child[p].queue \in Seq(Model) /\ caller[p].claimed = <<>>
    BY <1>9, <1>b DEF HardStop, FineChild, FineCaller
  <2>2. Head(child[p].queue) \in Holds(p)
    BY <2>1, Shorter DEF Holds
  <2>3. /\ child'[p].queue = <<>> /\ caller' = caller /\ twice' = twice
        /\ lock'[m] = lock[m] \/ (lock'[m] = NoLock /\ m = Head(child[p].queue))
    BY <1>9, <1>b DEF HardStop, NoChild, Unlock
  <2>4. Holds(p)' = {}
    BY <2>1, <2>3, None DEF Holds
  <2>. QED
    BY <1>a, <1>d, <1>e, <2>2, <2>3, <2>4, OnceStep, OnceNone
<1>10. CASE Kill(p)
  <2>1. lock' = lock /\ twice' = twice
    BY <1>10 DEF Kill
  <2>2. /\ caller'[p].claimed \in {caller[p].claimed, <<>>}
        /\ child'[p].queue \in {child[p].queue, <<>>}
        /\ caller'[p].pc = "drop" => caller'[p] = caller[p]
    BY <1>10, <1>b DEF Kill, IdleCaller, NoChild
  <2>3. Holds(p)' \subseteq Holds(p)
    BY <2>2, None DEF Holds
  <2>4. OnceIn(caller'[p].claimed, m) /\ OnceIn(child'[p].queue, m)
    BY <1>e, <2>2, OnceNone
  <2>5. caller'[p].pc = "drop" => Head(caller'[p].todo) # m
    BY <1>e, <2>2
  <2>. QED
    BY <1>a, <1>d, <1>e, <2>1, <2>3, <2>4, <2>5, OnceStep
<1>. QED
  BY <1>1, <1>2, <1>3, <1>4, <1>5, <1>6, <1>7, <1>8, <1>9, <1>10 DEF ProcessStep

\* Nor does anybody else; a lock that grows stale is noted as aged.
LEMMA OthersOnce == IInv /\ OnceInv /\ [Next]_vars => OnceInv'
<1> SUFFICES ASSUME IInv, OnceInv, [Next]_vars PROVE OnceInv'
  OBVIOUS
<1>1. ASSUME NEW p \in Caller, ProcessStep(p) PROVE OnceInv'
  BY <1>1, StepOnce
<1>2. ASSUME UNCHANGED <<lock, caller, child, clock, twice, aged>> PROVE OnceInv'
  BY <1>2 DEF OnceInv, Once, Holds, Expired, CallerAt
<1>3. ASSUME Tick PROVE OnceInv'
  <2>1. /\ UNCHANGED <<lock, caller, child, twice>> /\ clock' \in Nat
        /\ aged' = aged \cup {m \in Model : Expired(m, clock')}
    BY <1>3, HealthAssumption DEF Tick, OnceInv
  <2>. QED
    BY <2>1 DEF OnceInv, Once, Holds, Expired, CallerAt
<1>4. CASE \E c \in Call : NoteCall(c)
  BY <1>2, <1>4 DEF NoteCall, envVars
<1>5. CASE \E w \in Writer : Load(w) \/ Store(w)
  BY <1>2, <1>5 DEF Load, Store, envVars, historyVars
<1>6. CASE EditProvider \/ UNCHANGED vars
  BY <1>2, <1>6 DEF EditProvider, vars, envVars, historyVars
<1>. QED
  BY <1>1, <1>3, <1>4, <1>5, <1>6 DEF Next, ProcessStep

\* At first nobody holds a lock.
LEMMA InitOnce == Init => OnceInv
<1> SUFFICES ASSUME Init PROVE OnceInv
  OBVIOUS
<1>1. \A p \in Caller : /\ caller[p].claimed = <<>> /\ child[p].queue = <<>>
                        /\ caller[p].pc = "idle"
  BY DEF Init, IdleCaller, NoChild
<1>2. \A m \in Model : lock[m] = NoLock
  BY DEF Init
<1>3. clock = 0 /\ twice = {}
  BY DEF Init
<1>. QED
  BY <1>1, <1>2, <1>3, None, OnceNone DEF OnceInv, Once, Holds, Expired, CallerAt

(***************************************************************************)
(* The theorems                                                            *)
(***************************************************************************)

\* The invariant holds of every run.
THEOREM Inductive == Spec => []IInv
  BY InitKeeps, StepKeeps, PTL DEF Spec

\* remember (healthcheck.py:126-155) replaces the whole file without a lock:
\* updates may be lost, but no model ever gets a status nobody gave it.
THEOREM StatusIsGenuine == Spec => []StatusGenuine
<1>1. IInv => StatusGenuine
  BY DEF IInv, Genuine, Honest, StatusGenuine
<1>. QED
  BY <1>1, Inductive, PTL

\* spawn_many and run (healthcheck_bg.py:99-209) hand the locks from caller to
\* child: one without a keeper means a process was stopped, or an edit.
THEOREM LocksHaveKeepers == Spec => []LocksAreKept
<1>1. IInv => LocksAreKept
  BY DEF IInv
<1>. QED
  BY <1>1, Inductive, PTL

\* _acquire and _release (healthcheck_bg.py:55-83) know a lock by its name only,
\* so a stale lock taken over may be anybody's: but while no lock of a model
\* is that old, one child at a time probes it.
THEOREM ModelsAreProbedOnce == Spec => []ProbedOnce
<1>1. OnceInv => ProbedOnce
  BY DEF OnceInv, Once, ProbedOnce
<1>. QED
  BY <1>1, InitOnce, OthersOnce, Inductive, PTL DEF Spec
=============================================================================
