--------------------------- MODULE FailoverProofs ---------------------------
(***************************************************************************)
(* For any number of calls and models, under the hook, the probes and the  *)
(* operator of ReadGate: the breaker never counts a failure that was not   *)
(* earned, the calls of one role leave the breaker of the other alone, a   *)
(* call gives up for a true reason, and a read that is denied has a        *)
(* delegate.                                                               *)
(*                                                                         *)
(* CountsAreEarned is not inductive: between an attempt that fails and the *)
(* record of it the call owes the breaker one failure.  What the breaker   *)
(* holds and what the calls owe it together are never more than the blame. *)
(* Nor is the reason of a call: it is derived from two flags, so the flags *)
(* are related to what was seen, and the candidates to come to what was    *)
(* not.                                                                    *)
(***************************************************************************)
EXTENDS ReadGate, FiniteSetTheorems, TLAPS

Field == {"pc", "role", "todo", "model", "gated", "parts", "status", "stamp",
          "tried", "oversize", "reason"}

\* The shapes of what the proofs look into.
Shape ==
    /\ entry \in [Key -> [failures : Nat, until : Nat]]
    /\ blame \in [Key -> Nat]
    /\ clock \in Nat
    /\ DOMAIN call = Call
    /\ \A c \in Call : DOMAIN call[c] = Field /\ call[c].stamp \in Nat

\* What a judged attempt may have come to, and whose a gated one is.
Judged == {"config", "oversize", "skipped", "answer", "failed", "auth", "unreachable"}

AttemptInv ==
    \A c \in Call :
        /\ call[c].pc = "judge" => call[c].status \in Judged
        /\ call[c].gated => call[c].model \in HealthChecked
        /\ call[c].pc = "note" => call[c].gated
        /\ call[c].pc \in {"idle", "pick", "dispatch"} => ~call[c].gated

\* The call has failed on key k in a way that counts, and has not recorded it.
Owes(c, k) ==
    /\ KeyOf(c) = k
    /\ \/ call[c].pc = "judge" /\ call[c].status = "failed"
       \/ call[c].pc = "judge" /\ call[c].status = "unreachable" /\ call[c].model \notin HealthChecked
       \/ call[c].pc = "record" /\ call[c].status # "success"

Owing(k) == {c \in Call : Owes(c, k)}

Earned == \A k \in Key : entry[k].failures + Cardinality(Owing(k)) <= blame[k]

\* Nothing is lost on the way, where nothing excuses it.
Paid ==
    \A k \in Key \ excused : k[1] \notin HealthChecked =>
        blame[k] <= entry[k].failures + Cardinality(Owing(k))

IInv == Shape /\ AttemptInv /\ Earned /\ Paid

(***************************************************************************)
(* What calls owe                                                          *)
(***************************************************************************)

\* The calls that owe something are finitely many.
LEMMA OwingFinite ==
    ASSUME NEW k
    PROVE  IsFiniteSet(Owing(k)) /\ Cardinality(Owing(k)) \in Nat
<1>1. IsFiniteSet(Owing(k))
  BY FailoverAssumption, FS_Subset DEF Owing
<1>. QED
  BY <1>1, FS_CardinalityType

\* A step of one call changes what is owed by at most that call's debt.
LEMMA OwingStep ==
    ASSUME NEW k, NEW c \in Call,
           \A d \in Call \ {c} : call'[d] = call[d]
    PROVE  /\ Owes(c, k) /\ Owes(c, k)' => Cardinality(Owing(k)') = Cardinality(Owing(k))
           /\ ~Owes(c, k) /\ ~Owes(c, k)' => Cardinality(Owing(k)') = Cardinality(Owing(k))
           /\ Owes(c, k) /\ ~Owes(c, k)' => Cardinality(Owing(k)') = Cardinality(Owing(k)) - 1
           /\ ~Owes(c, k) /\ Owes(c, k)' => Cardinality(Owing(k)') = Cardinality(Owing(k)) + 1
<1>. \A d \in Call \ {c} : Owes(d, k)' <=> Owes(d, k)
  BY DEF Owes, KeyOf
<1>1. CASE (Owes(c, k) /\ Owes(c, k)') \/ (~Owes(c, k) /\ ~Owes(c, k)')
  <2>1. Owing(k)' = Owing(k)
    BY <1>1 DEF Owing
  <2>. QED
    BY <1>1, <2>1
<1>2. CASE Owes(c, k) /\ ~Owes(c, k)'
  <2>1. Owing(k)' = Owing(k) \ {c} /\ c \in Owing(k)
    BY <1>2 DEF Owing
  <2>. QED
    BY <1>2, <2>1, OwingFinite, FS_RemoveElement
<1>3. CASE ~Owes(c, k) /\ Owes(c, k)'
  <2>1. Owing(k)' = Owing(k) \cup {c} /\ c \notin Owing(k)
    BY <1>3 DEF Owing
  <2>. QED
    BY <1>3, <2>1, OwingFinite, FS_AddElement
<1>. QED
  BY <1>1, <1>2, <1>3

(***************************************************************************)
(* Shapes                                                                  *)
(***************************************************************************)

\* A call that ended, or goes on to its next candidate, has the shape of one.
LEMMA EndedShape ==
    ASSUME Shape, NEW c \in Call, NEW why
    PROVE  /\ DOMAIN Ended(c, why) = Field /\ Ended(c, why).stamp \in Nat
           /\ Ended(c, why).pc = "ended" /\ ~Ended(c, why).gated
  BY DEF Ended, Idle, Field, Shape

\* A call that goes on has the shape of one, and is about to pick.
LEMMA NextCandidateShape ==
    ASSUME Shape, NEW c \in Call
    PROVE  /\ DOMAIN NextCandidate(c) = Field /\ NextCandidate(c).stamp \in Nat
           /\ NextCandidate(c).pc = "pick" /\ ~NextCandidate(c).gated
  BY DEF NextCandidate, Field, Shape

\* One more failure to blame on key k, which is all it changes.
LEMMA BlameShape ==
    ASSUME Shape, NEW k
    PROVE  /\ [blame EXCEPT ![k] = @ + 1] \in [Key -> Nat]
           /\ \A x \in Key : [blame EXCEPT ![k] = @ + 1][x] = IF x = k THEN blame[x] + 1 ELSE blame[x]
<1>. DEFINE b == [blame EXCEPT ![k] = @ + 1]
<1>1. DOMAIN blame = Key /\ \A x \in Key : blame[x] \in Nat
  BY DEF Shape
<1>2. b = [x \in Key |-> IF x = k THEN blame[k] + 1 ELSE blame[x]]
  BY <1>1
<1>. HIDE DEF b
<1>3. \A x \in Key : b[x] = (IF x = k THEN blame[x] + 1 ELSE blame[x]) /\ b[x] \in Nat
  BY <1>1, <1>2
<1>4. b \in [Key -> Nat]
  BY <1>2, <1>3
<1>. QED
  BY <1>3, <1>4 DEF b

\* One failure more is a state of a key.
LEMMA BumpedShape ==
    ASSUME Shape, NEW c \in Call, KeyOf(c) \in Key
    PROVE  Bumped(c) \in [failures : Nat, until : Nat]
<1>1. entry[KeyOf(c)].failures \in Nat /\ entry[KeyOf(c)].until \in Nat
  BY DEF Shape
<1>2. call[c].stamp \in Nat
  BY DEF Shape
<1>3. UnreachCool \in Nat /\ Cooldown \in Nat
  BY FailoverAssumption
<1>. QED
  BY <1>1, <1>2, <1>3 DEF Bumped

\* So is the state of every key of a model that is cleared.
LEMMA ClearedShape ==
    ASSUME Shape, NEW m
    PROVE  Cleared(m) \in [Key -> [failures : Nat, until : Nat]]
  BY DEF Shape, Cleared, Zero

(***************************************************************************)
(* The steps of a call                                                     *)
(***************************************************************************)

\* A call that starts has ended at once or goes to its first candidate.
LEMMA StartMoves ==
    ASSUME Shape, NEW c \in Call, Start(c)
    PROVE  /\ DOMAIN call' = Call /\ \A d \in Call \ {c} : call'[d] = call[d]
           /\ DOMAIN call'[c] = Field /\ call'[c].stamp \in Nat
           /\ call'[c].pc \in {"ended", "pick"} /\ ~call'[c].gated
           /\ UNCHANGED <<entry, blame, clock>>
<1>1. PICK r \in Role : call' = [call EXCEPT ![c] =
             IF Candidates(r) = <<>>
                 THEN [Ended(c, "nocandidates") EXCEPT !.role = r]
                 ELSE [Idle EXCEPT !.pc = "pick", !.role = r, !.todo = Candidates(r)]]
  BY DEF Start
<1>2. /\ DOMAIN [Ended(c, "nocandidates") EXCEPT !.role = r] = Field
      /\ [Ended(c, "nocandidates") EXCEPT !.role = r].pc = "ended"
      /\ ~[Ended(c, "nocandidates") EXCEPT !.role = r].gated
      /\ [Ended(c, "nocandidates") EXCEPT !.role = r].stamp \in Nat
  BY EndedShape DEF Field
<1>3. /\ DOMAIN [Idle EXCEPT !.pc = "pick", !.role = r, !.todo = Candidates(r)] = Field
      /\ [Idle EXCEPT !.pc = "pick", !.role = r, !.todo = Candidates(r)].pc = "pick"
      /\ ~[Idle EXCEPT !.pc = "pick", !.role = r, !.todo = Candidates(r)].gated
      /\ [Idle EXCEPT !.pc = "pick", !.role = r, !.todo = Candidates(r)].stamp \in Nat
  BY DEF Idle, Field
<1>4. DOMAIN call' = Call /\ \A d \in Call \ {c} : call'[d] = call[d]
  BY <1>1 DEF Shape
<1>5. /\ DOMAIN call'[c] = Field /\ call'[c].stamp \in Nat
      /\ call'[c].pc \in {"ended", "pick"} /\ ~call'[c].gated
  BY <1>1, <1>2, <1>3 DEF Shape
<1>6. UNCHANGED <<entry, blame, clock>>
  BY DEF Start, historyVars
<1>. QED
  BY <1>4, <1>5, <1>6

\* A step of a call keeps the shapes, moves that call only, and leaves the
\* attempt as the judgement expects it.
LEMMA CallMoves ==
    ASSUME Shape, AttemptInv, NEW c \in Call, Start(c) \/ CallStep(c) \/ Kill(c)
    PROVE  Shape' /\ AttemptInv' /\ \A d \in Call \ {c} : call'[d] = call[d]
<1>1. CASE Start(c)
  BY <1>1, StartMoves DEF Shape, AttemptInv
<1>2. CASE Kill(c)
  BY <1>2, EndedShape DEF Kill, Shape, AttemptInv, Judged, Field, Zero, historyVars
<1>3. CASE PassOver(c)
  <2>1. DOMAIN call' = Call /\ \A d \in Call \ {c} : call'[d] = call[d]
    BY <1>3 DEF PassOver, Shape
  <2>2. call'[c] = [call[c] EXCEPT !.todo = Tail(@)] /\ call[c].pc = "pick"
    BY <1>3 DEF PassOver, Shape
  <2>3. /\ DOMAIN call'[c] = Field /\ call'[c].stamp \in Nat /\ call'[c].pc = "pick"
        /\ ~call'[c].gated
    BY <2>2 DEF Shape, Field, AttemptInv
  <2>4. UNCHANGED <<entry, blame, clock>>
    BY <1>3 DEF PassOver
  <2>. QED
    BY <2>1, <2>3, <2>4 DEF Shape, AttemptInv
<1>4. CASE Pick(c)
  <2>1. DOMAIN call' = Call /\ \A d \in Call \ {c} : call'[d] = call[d]
    BY <1>4 DEF Pick, Shape
  <2>2. /\ DOMAIN call'[c] = Field /\ call'[c].stamp \in Nat /\ call'[c].pc = "dispatch"
        /\ call'[c].gated = call[c].gated
    BY <1>4 DEF Pick, Shape, Field
  <2>3. ~call[c].gated
    BY <1>4 DEF Pick, AttemptInv
  <2>. QED
    BY <1>4, <2>1, <2>2, <2>3 DEF Pick, Shape, AttemptInv, historyVars
<1>5. CASE Exhausted(c)
  BY <1>5, EndedShape, FailoverAssumption DEF Exhausted, Shape, AttemptInv, Judged, Field, Zero, historyVars
<1>6. CASE Refuse(c)
  BY <1>6, FailoverAssumption DEF Refuse, Shape, AttemptInv, Judged, Field, Zero, historyVars
<1>7. CASE Dispatch(c)
  <2>1. DOMAIN call' = Call /\ \A d \in Call \ {c} : call'[d] = call[d]
    BY <1>7 DEF Dispatch, Shape
  <2>2. \/ call'[c] = [call[c] EXCEPT !.pc = "judge", !.status = "skipped"]
        \/ call'[c] = [call[c] EXCEPT !.pc = "ask",
                            !.gated = call[c].model \in Registered \cap HealthChecked]
    BY <1>7 DEF Dispatch, Shape
  <2>3. /\ DOMAIN call'[c] = Field /\ call'[c].stamp \in Nat
        /\ call'[c].pc = "judge" => call'[c].status \in Judged
        /\ call'[c].gated => call'[c].model \in HealthChecked
        /\ call'[c].pc \in {"ask", "judge"}
    <3>. DOMAIN call[c] = Field /\ call[c].stamp \in Nat
      BY DEF Shape
    <3>1. CASE call'[c] = [call[c] EXCEPT !.pc = "judge", !.status = "skipped"]
      BY <3>1 DEF AttemptInv, Field, Judged
    <3>2. CASE call'[c] = [call[c] EXCEPT !.pc = "ask",
                               !.gated = call[c].model \in Registered \cap HealthChecked]
      BY <3>2 DEF Field
    <3>. QED
      BY <2>2, <3>1, <3>2
  <2>4. UNCHANGED <<entry, blame, clock>>
    BY <1>7 DEF Dispatch, historyVars
  <2>. QED
    BY <2>1, <2>3, <2>4 DEF Shape, AttemptInv
<1>8. CASE AskAnswered(c)
  BY <1>8, FailoverAssumption DEF AskAnswered, Shape, AttemptInv, Judged, Field, Zero, historyVars
<1>9. CASE ClearNoted(c)
  <2>1. entry' \in [Key -> [failures : Nat, until : Nat]]
    BY <1>9, ClearedShape DEF ClearNoted, Shape
  <2>2. UNCHANGED <<blame, clock>>
    BY <1>9 DEF ClearNoted
  <2>. QED
    BY <1>9, <2>1, <2>2 DEF ClearNoted, Shape, AttemptInv, Judged, Field
<1>10. CASE AskFailed(c)
  <2>1. PICK s \in {"failed", "auth", "config"} :
           /\ call' = [call EXCEPT ![c].pc = "judge", ![c].status = s]
           /\ blame' = IF s = "failed" THEN [blame EXCEPT ![KeyOf(c)] = @ + 1] ELSE blame
    BY <1>10 DEF AskFailed
  <2>2. blame' \in [Key -> Nat]
    BY <2>1, BlameShape DEF Shape
  <2>3. UNCHANGED <<entry, clock>>
    BY <1>10 DEF AskFailed
  <2>. QED
    BY <2>1, <2>2, <2>3 DEF Shape, AttemptInv, Field, Judged
<1>11. CASE AskNoConnection(c)
  <2>1. blame' \in [Key -> Nat]
    BY <1>11, BlameShape DEF AskNoConnection, Shape
  <2>2. /\ call' = [call EXCEPT ![c].pc = "judge", ![c].status = "unreachable"]
        /\ UNCHANGED <<entry, clock>>
    BY <1>11 DEF AskNoConnection
  <2>. QED
    BY <2>1, <2>2 DEF Shape, AttemptInv, Field, Judged
<1>12. CASE AskBrokenRoute(c)
  BY <1>12, FailoverAssumption DEF AskBrokenRoute, Shape, AttemptInv, Judged, Field, Zero, historyVars
<1>13. CASE JudgeAnswer(c)
  <2>1. UNCHANGED <<entry, clock>>
    BY <1>13 DEF JudgeAnswer
  <2>2. CASE /\ call' = [call EXCEPT ![c].pc = "record", ![c].status = "success"]
             /\ UNCHANGED blame
    BY <2>1, <2>2 DEF Shape, AttemptInv, Field
  <2>3. CASE /\ call' = [call EXCEPT ![c].pc = "record", ![c].status = "failed",
                                       ![c].stamp = clock]
             /\ blame' = [blame EXCEPT ![KeyOf(c)] = @ + 1]
    <3>1. blame' \in [Key -> Nat]
      BY <2>3, BlameShape
    <3>. QED
      BY <2>1, <2>3, <3>1 DEF Shape, AttemptInv, Field
  <2>4. CASE call' = [call EXCEPT ![c] = Ended(c, "aborted")] /\ UNCHANGED blame
    BY <2>1, <2>4, EndedShape DEF Shape, AttemptInv
  <2>. QED
    BY <1>13, <2>2, <2>3, <2>4 DEF JudgeAnswer
<1>14. CASE JudgeFailure(c)
  BY <1>14, NextCandidateShape, FailoverAssumption DEF JudgeFailure, Shape, AttemptInv, Judged, Field, Zero, historyVars
<1>15. CASE Record(c)
  <2>1. UNCHANGED <<blame, clock>>
    BY <1>15 DEF Record
  <2>2. call' = [call EXCEPT ![c] = IF call[c].status = "success" THEN Ended(c, "answered")
                                    ELSE NextCandidate(c)]
    BY <1>15 DEF Record
  <2>3. entry' \in [Key -> [failures : Nat, until : Nat]]
    <3>1. Zero \in [failures : Nat, until : Nat]
      BY DEF Zero
    <3>2. \/ entry' = entry
          \/ entry' = [entry EXCEPT ![KeyOf(c)] = Zero]
          \/ entry' = [entry EXCEPT ![KeyOf(c)] = Bumped(c)]
      BY <1>15 DEF Record
    <3>. QED
      BY <3>1, <3>2, BumpedShape DEF Shape
  <2>4. DOMAIN call' = Call /\ \A d \in Call \ {c} : call'[d] = call[d]
    BY <2>2 DEF Shape
  <2>5. /\ DOMAIN call'[c] = Field /\ call'[c].stamp \in Nat
        /\ call'[c].pc \in {"ended", "pick"} /\ ~call'[c].gated
    BY <2>2, EndedShape, NextCandidateShape DEF Shape
  <2>. QED
    BY <2>1, <2>3, <2>4, <2>5 DEF Shape, AttemptInv
<1>. QED
  BY <1>1, <1>2, <1>3, <1>4, <1>5, <1>6, <1>7, <1>8, <1>9, <1>10, <1>11, <1>12, <1>13, <1>14, <1>15 DEF CallStep

Debt(c, k) == IF Owes(c, k) THEN 1 ELSE 0

\* What a step of call c adds to the breaker and to its debt on key k it adds
\* to the blame, and the other way round unless k is excused.
Balanced(c, k) ==
    /\ entry'[k].failures + Debt(c, k)' + blame[k] <= entry[k].failures + Debt(c, k) + blame'[k]
    /\ k \notin excused' /\ k[1] \notin HealthChecked =>
          entry'[k].failures + Debt(c, k)' + blame[k] = entry[k].failures + Debt(c, k) + blame'[k]

\* A balanced step keeps the account of every key.
LEMMA BalancedStep ==
    ASSUME Shape, Shape', Earned, Paid, NEW c \in Call,
           \A d \in Call \ {c} : call'[d] = call[d],
           \A k \in Key : Balanced(c, k),
           excused \subseteq excused'
    PROVE  Earned' /\ Paid'
<1>. SUFFICES ASSUME NEW k \in Key
              PROVE  /\ entry'[k].failures + Cardinality(Owing(k)') <= blame'[k]
                     /\ k \notin excused' /\ k[1] \notin HealthChecked =>
                            blame'[k] <= entry'[k].failures + Cardinality(Owing(k)')
  BY DEF Earned, Paid
<1>1. /\ entry[k].failures + Cardinality(Owing(k)) <= blame[k]
      /\ k \notin excused' /\ k[1] \notin HealthChecked =>
             blame[k] <= entry[k].failures + Cardinality(Owing(k))
  BY DEF Earned, Paid
<1>2. /\ entry[k].failures \in Nat /\ entry'[k].failures \in Nat
      /\ blame[k] \in Nat /\ blame'[k] \in Nat
  BY DEF Shape
<1>3. Cardinality(Owing(k)) \in Nat
  BY OwingFinite
<1>4. Cardinality(Owing(k)') + Debt(c, k) = Cardinality(Owing(k)) + Debt(c, k)'
  BY <1>3, OwingStep DEF Debt
<1>5. Debt(c, k) \in {0, 1} /\ Debt(c, k)' \in {0, 1}
  BY DEF Debt
<1>6. Cardinality(Owing(k)') \in Int
  <2>. DEFINE was == Cardinality(Owing(k))
              is == Cardinality(Owing(k)')
  <2>1. is = was \/ is = was - 1 \/ is = was + 1
    BY OwingStep
  <2>. QED
    BY <1>3, <2>1
<1>. QED
  BY <1>1, <1>2, <1>3, <1>4, <1>5, <1>6 DEF Balanced

\* Most steps leave breaker and blame alone, with no debt before or after.
LEMMA QuietStep ==
    ASSUME Shape, NEW c \in Call, NEW k \in Key,
           entry' = entry, blame' = blame, ~Owes(c, k), ~Owes(c, k)'
    PROVE  Balanced(c, k)
<1>1. entry[k].failures \in Nat /\ blame[k] \in Nat
  BY DEF Shape
<1>. QED
  BY <1>1 DEF Balanced, Debt

\* A step of a call keeps the accounts.
LEMMA CallKeepsAccounts ==
    ASSUME IInv, NEW c \in Call, Start(c) \/ CallStep(c) \/ Kill(c)
    PROVE  IInv'
<1>. Shape /\ AttemptInv /\ Earned /\ Paid
  BY DEF IInv
<1>0. Shape' /\ AttemptInv' /\ \A d \in Call \ {c} : call'[d] = call[d]
  BY CallMoves
<1>. DOMAIN call = Call /\ DOMAIN call[c] = Field
  BY DEF Shape
<1>00. excused \subseteq excused'
  BY DEF CallStep, Start, Kill, PassOver, Pick, Exhausted, Refuse, Dispatch, AskAnswered,
         ClearNoted, AskFailed, AskNoConnection, AskBrokenRoute, JudgeAnswer, JudgeFailure,
         Record, historyVars
<1>. SUFFICES ASSUME NEW k \in Key
              PROVE  Balanced(c, k)
  BY <1>0, <1>00, BalancedStep DEF IInv
<1>01. /\ entry[k].failures \in Nat /\ entry'[k].failures \in Nat
       /\ blame[k] \in Nat /\ blame'[k] \in Nat
       /\ Debt(c, k) \in {0, 1} /\ Debt(c, k)' \in {0, 1}
  BY <1>0 DEF Shape, Debt
<1>1. CASE Start(c)
  BY <1>1, QuietStep, StartMoves DEF Start, Owes
<1>2. CASE Kill(c)
  <2>1. call'[c].pc = "ended"
    BY <1>2, EndedShape DEF Kill
  <2>2. CASE Owes(c, k)
    <3>1. k \in excused'
      BY <1>2, <2>2 DEF Kill, Owes, KeyOf, KeysOf
    <3>2. Debt(c, k) = 1 /\ Debt(c, k)' = 0
      BY <2>1, <2>2 DEF Debt, Owes
    <3>3. entry' = entry /\ blame' = blame
      BY <1>2 DEF Kill
    <3>. QED
      BY <1>01, <3>1, <3>2, <3>3 DEF Balanced
  <2>3. CASE ~Owes(c, k)
    <3>1. ~Owes(c, k)'
      BY <2>1 DEF Owes
    <3>. QED
      BY <1>2, <2>3, <3>1, QuietStep DEF Kill
  <2>. QED
    BY <2>2, <2>3
<1>3. CASE PassOver(c)
  <2>1. call'[c].pc = "pick"
    BY <1>3 DEF PassOver, Field
  <2>. QED
    BY <1>3, QuietStep, <2>1 DEF PassOver, Owes
<1>4. CASE Pick(c)
  <2>1. call'[c].pc = "dispatch"
    BY <1>4 DEF Pick, Field
  <2>. QED
    BY <1>4, QuietStep, <2>1 DEF Pick, historyVars, Owes
<1>5. CASE Exhausted(c)
  <2>1. call'[c].pc = "ended"
    BY <1>5, EndedShape DEF Exhausted
  <2>. QED
    BY <1>5, QuietStep, <2>1 DEF Exhausted, historyVars, Owes
<1>6. CASE Refuse(c)
  <2>1. call'[c].pc = "judge" /\ call'[c].status \in {"config", "oversize"}
    BY <1>6 DEF Refuse, Field
  <2>. QED
    BY <1>6, QuietStep, <2>1 DEF Refuse, historyVars, Owes
<1>7. CASE Dispatch(c)
  <2>1. call'[c].pc = "ask" \/ (call'[c].pc = "judge" /\ call'[c].status = "skipped")
    BY <1>7 DEF Dispatch, Field
  <2>. QED
    BY <1>7, QuietStep, <2>1 DEF Dispatch, historyVars, Owes
<1>8. CASE AskAnswered(c)
  <2>1. call'[c].pc \in {"ask", "note"} \/ (call'[c].pc = "judge" /\ call'[c].status = "answer")
    BY <1>8 DEF AskAnswered, Field
  <2>. QED
    BY <1>8, QuietStep, <2>1 DEF AskAnswered, historyVars, Owes
<1>9. CASE ClearNoted(c)
  <2>1. call'[c].pc = "ask" \/ (call'[c].pc = "judge" /\ call'[c].status = "answer")
    BY <1>9 DEF ClearNoted, Field
  <2>2. /\ entry'[k].failures <= entry[k].failures
        /\ k[1] \notin HealthChecked => entry'[k] = entry[k]
    BY <1>9, <1>01 DEF ClearNoted, Cleared, Zero, AttemptInv
  <2>3. Debt(c, k) = 0 /\ Debt(c, k)' = 0 /\ blame' = blame
    BY <1>9, <2>1 DEF ClearNoted, Debt, Owes
  <2>. QED
    BY <1>01, <2>2, <2>3 DEF Balanced
<1>10. CASE AskFailed(c)
  <2>1. PICK s \in {"failed", "auth", "config"} :
           /\ call' = [call EXCEPT ![c].pc = "judge", ![c].status = s]
           /\ blame' = IF s = "failed" THEN [blame EXCEPT ![KeyOf(c)] = @ + 1] ELSE blame
    BY <1>10 DEF AskFailed
  <2>2. entry' = entry /\ call[c].pc = "ask"
    BY <1>10 DEF AskFailed
  <2>3. call'[c].pc = "judge" /\ call'[c].status = s /\ KeyOf(c)' = KeyOf(c)
    BY <2>1 DEF Field, KeyOf
  <2>4. CASE s = "failed" /\ k = KeyOf(c)
    <3>1. blame'[k] = blame[k] + 1 /\ Debt(c, k) = 0 /\ Debt(c, k)' = 1
      BY <2>1, <2>2, <2>3, <2>4, BlameShape DEF Debt, Owes
    <3>. QED
      BY <1>01, <2>2, <3>1 DEF Balanced
  <2>5. CASE s = "failed" /\ k # KeyOf(c)
    <3>1. blame'[k] = blame[k] /\ Debt(c, k) = 0 /\ Debt(c, k)' = 0
      BY <2>1, <2>3, <2>5, BlameShape DEF Debt, Owes
    <3>. QED
      BY <1>01, <2>2, <3>1 DEF Balanced
  <2>6. CASE s # "failed"
    BY QuietStep, <2>1, <2>2, <2>3, <2>6 DEF Owes
  <2>. QED
    BY <2>4, <2>5, <2>6
<1>11. CASE AskNoConnection(c)
  <2>1. /\ call' = [call EXCEPT ![c].pc = "judge", ![c].status = "unreachable"]
        /\ entry' = entry /\ call[c].pc = "ask"
    BY <1>11 DEF AskNoConnection
  <2>2. call'[c].pc = "judge" /\ call'[c].status = "unreachable" /\ KeyOf(c)' = KeyOf(c)
        /\ call'[c].model = call[c].model
    BY <2>1 DEF Field, KeyOf
  <2>3. CASE call[c].gated
    <3>1. call[c].model \in HealthChecked /\ blame' = blame
      BY <1>11, <2>3 DEF AttemptInv, AskNoConnection
    <3>. QED
      BY QuietStep, <2>1, <2>2, <3>1 DEF Owes
  <2>4. CASE ~call[c].gated /\ k = KeyOf(c)
    <3>1. blame'[k] = blame[k] + 1 /\ call[c].model \notin HealthChecked
      BY <1>11, <2>1, <2>4, BlameShape DEF AskNoConnection
    <3>2. Debt(c, k) = 0 /\ Debt(c, k)' = 1
      BY <2>1, <2>2, <2>4, <3>1 DEF Debt, Owes
    <3>. QED
      BY <1>01, <2>1, <3>1, <3>2 DEF Balanced
  <2>5. CASE ~call[c].gated /\ k # KeyOf(c)
    <3>1. blame'[k] = blame[k]
      BY <1>11, <2>5, BlameShape DEF AskNoConnection
    <3>2. Debt(c, k) = 0 /\ Debt(c, k)' = 0
      BY <2>2, <2>5 DEF Debt, Owes
    <3>. QED
      BY <1>01, <2>1, <3>1, <3>2 DEF Balanced
  <2>. QED
    BY <2>3, <2>4, <2>5
<1>12. CASE AskBrokenRoute(c)
  <2>1. /\ call'[c].pc = "judge" /\ call'[c].status = "unreachable"
        /\ call'[c].model = call[c].model
    BY <1>12 DEF AskBrokenRoute, Field
  <2>2. call[c].model \in HealthChecked
    BY <1>12 DEF AskBrokenRoute, AttemptInv
  <2>. QED
    BY <1>12, QuietStep, <2>1, <2>2 DEF AskBrokenRoute, historyVars, Owes
<1>13. CASE JudgeAnswer(c)
  <2>1. entry' = entry /\ call[c].pc = "judge" /\ call[c].status = "answer"
    BY <1>13 DEF JudgeAnswer
  <2>2. CASE /\ call' = [call EXCEPT ![c].pc = "record", ![c].status = "success"]
             /\ UNCHANGED blame
    <3>1. call'[c].pc = "record" /\ call'[c].status = "success"
      BY <2>2 DEF Field
    <3>. QED
      BY QuietStep, <2>1, <2>2, <3>1 DEF Owes
  <2>3. CASE /\ call' = [call EXCEPT ![c].pc = "record", ![c].status = "failed",
                                       ![c].stamp = clock]
             /\ blame' = [blame EXCEPT ![KeyOf(c)] = @ + 1]
    <3>1. KeyOf(c)' = KeyOf(c)
      BY <2>3 DEF KeyOf, Field
    <3>2. CASE k = KeyOf(c)
      <4>1. blame'[k] = blame[k] + 1
        BY <2>3, <3>2, BlameShape
      <4>2. Debt(c, k) = 0 /\ Debt(c, k)' = 1
        BY <2>1, <2>3, <3>1, <3>2 DEF Debt, Owes, Field
      <4>. QED
        BY <1>01, <2>1, <4>1, <4>2 DEF Balanced
    <3>3. CASE k # KeyOf(c)
      <4>1. blame'[k] = blame[k]
        BY <2>3, <3>3, BlameShape
      <4>2. Debt(c, k) = 0 /\ Debt(c, k)' = 0
        BY <3>1, <3>3 DEF Debt, Owes
      <4>. QED
        BY <1>01, <2>1, <4>1, <4>2 DEF Balanced
    <3>. QED
      BY <3>2, <3>3
  <2>4. CASE call' = [call EXCEPT ![c] = Ended(c, "aborted")] /\ UNCHANGED blame
    <3>1. call'[c].pc = "ended"
      BY <2>4, EndedShape
    <3>. QED
      BY QuietStep, <2>1, <2>4, <3>1 DEF Owes
  <2>. QED
    BY <1>13, <2>2, <2>3, <2>4 DEF JudgeAnswer
<1>14. CASE JudgeFailure(c)
  <2>1. entry' = entry /\ blame' = blame /\ call[c].pc = "judge" /\ call[c].status # "answer"
    BY <1>14 DEF JudgeFailure
  <2>2. CASE \/ call[c].status \in {"auth", "config", "skipped", "oversize"}
             \/ HealthOwns(c)
    <3>1. call'[c].pc = "pick"
      <4>1. call'[c] \in {NextCandidate(c), [NextCandidate(c) EXCEPT !.oversize = TRUE]}
        BY <1>14, <2>2 DEF JudgeFailure
      <4>. QED
        BY <4>1, NextCandidateShape DEF Field
    <3>. QED
      BY QuietStep, <2>1, <2>2, <3>1 DEF Owes, HealthOwns
  <2>3. CASE /\ call[c].status \notin {"auth", "config", "skipped", "oversize"}
             /\ ~HealthOwns(c)
    <3>1. call'[c] = [call[c] EXCEPT !.pc = "record", !.stamp = clock]
      BY <1>14, <2>3 DEF JudgeFailure
    <3>2. /\ call'[c].pc = "record" /\ call'[c].status = call[c].status
          /\ KeyOf(c)' = KeyOf(c)
      BY <3>1 DEF Field, KeyOf
    <3>3. call[c].status \in {"failed", "unreachable"}
      BY <2>1, <2>3 DEF AttemptInv, Judged
    <3>4. Owes(c, k)' <=> Owes(c, k)
      BY <2>1, <2>3, <3>2, <3>3 DEF Owes, HealthOwns
    <3>. QED
      BY <1>01, <2>1, <3>4 DEF Debt, Balanced
  <2>. QED
    BY <2>2, <2>3
<1>15. CASE Record(c)
  <2>1. blame' = blame /\ call[c].pc = "record"
    BY <1>15 DEF Record
  <2>2. call'[c].pc \in {"ended", "pick"}
    BY <1>15, EndedShape, NextCandidateShape DEF Record
  <2>3. ~Owes(c, k)'
    BY <2>2 DEF Owes
  <2>4. CASE k # KeyOf(c)
    <3>1. entry'[k] = entry[k]
      BY <1>15, <2>4 DEF Record, Shape
    <3>2. ~Owes(c, k)
      BY <2>4 DEF Owes
    <3>. QED
      BY <1>01, <2>1, <2>3, <3>1, <3>2 DEF Balanced, Debt
  <2>5. CASE k = KeyOf(c) /\ entry'[k].failures <= entry[k].failures /\ k \in excused'
    BY <1>01, <2>1, <2>3, <2>5 DEF Balanced, Debt
  <2>6. CASE /\ k = KeyOf(c) /\ call[c].status # "success"
             /\ entry' = [entry EXCEPT ![KeyOf(c)] = Bumped(c)]
    <3>1. entry'[k].failures = entry[k].failures + 1
      BY <2>6 DEF Bumped, Shape
    <3>2. Debt(c, k) = 1 /\ Debt(c, k)' = 0
      BY <2>1, <2>3, <2>6 DEF Debt, Owes
    <3>. QED
      BY <1>01, <2>1, <3>1, <3>2 DEF Balanced
  <2>7. CASE k = KeyOf(c) /\ call[c].status = "success" /\ entry' = [entry EXCEPT ![KeyOf(c)] = Zero]
             /\ k \in excused'
    <3>1. entry'[k].failures = 0
      BY <2>7 DEF Zero, Shape
    <3>. QED
      BY <1>01, <2>5, <2>7, <3>1
  <2>8. CASE k = KeyOf(c) /\ entry' = entry /\ k \in excused'
    BY <1>01, <2>5, <2>8
  <2>. QED
    BY <1>15, <2>4, <2>6, <2>7, <2>8 DEF Record
<1>. QED
  BY <1>1, <1>2, <1>3, <1>4, <1>5, <1>6, <1>7, <1>8, <1>9, <1>10, <1>11, <1>12, <1>13, <1>14,
     <1>15 DEF CallStep

(***************************************************************************)
(* The steps of the others                                                 *)
(***************************************************************************)

\* A step that moves no call, and changes no key but those of a model that
\* are cleared and excused.
LEMMA ClearingStep ==
    ASSUME IInv, NEW m, call' = call, blame' = blame, clock' \in Nat,
           excused \subseteq excused',
           entry' = entry \/ (entry' = Cleared(m) /\ KeysOf(m) \subseteq excused')
    PROVE  IInv'
<1>1. Shape' /\ AttemptInv'
  BY ClearedShape DEF IInv, Shape, AttemptInv
<1>2. \A k : Owing(k)' = Owing(k)
  BY DEF Owing, Owes, KeyOf
<1>3. \A k \in Key : /\ entry'[k].failures <= entry[k].failures
                     /\ k \notin excused' => entry'[k] = entry[k]
  BY <1>1 DEF IInv, Shape, Cleared, Zero, KeysOf
<1>4. ASSUME NEW k \in Key
      PROVE  /\ Cardinality(Owing(k)) \in Nat /\ Cardinality(Owing(k)') = Cardinality(Owing(k))
             /\ entry[k].failures \in Nat /\ entry'[k].failures \in Nat /\ blame[k] \in Nat
  BY <1>1, <1>2, OwingFinite DEF IInv, Shape
<1>5. Earned'
  BY <1>3, <1>4 DEF IInv, Earned
<1>6. Paid'
  BY <1>3, <1>4 DEF IInv, Paid
<1>. QED
  BY <1>1, <1>5, <1>6 DEF IInv

\* Every step there is, with the reader's own ones as stuttering.
AnyStep ==
    \/ \E c \in Call : Start(c) \/ CallStep(c) \/ Kill(c)
    \/ \E m \in Model : ProbeEnds(m) \/ ProbeClears(m) \/ Operator(m)
    \/ WarmUp \/ Tick
    \/ UNCHANGED vars

\* A step of anyone keeps the inductive invariant.
LEMMA StepKeeps ==
    ASSUME IInv, AnyStep
    PROVE  IInv'
<1>1. CASE \E c \in Call : Start(c) \/ CallStep(c) \/ Kill(c)
  BY <1>1, CallKeepsAccounts
<1>0. clock \in Nat
  BY DEF IInv, Shape
<1>2. ASSUME NEW m \in Model, ProbeEnds(m)
      PROVE  IInv'
  BY <1>0, <1>2, ClearingStep DEF ProbeEnds, historyVars
<1>3. ASSUME NEW m \in Model, ProbeClears(m)
      PROVE  IInv'
  BY <1>0, <1>3, ClearingStep DEF ProbeClears
<1>4. ASSUME NEW m \in Model, Operator(m)
      PROVE  IInv'
  BY <1>0, <1>4, ClearingStep
     DEF Operator, SetEnabled, Activate, Remove, DropLeftovers, Add, Edit, historyVars
<1>5. CASE WarmUp
  BY <1>0, <1>5, ClearingStep DEF WarmUp, historyVars
<1>6. CASE Tick
  BY <1>0, <1>6, ClearingStep DEF Tick, historyVars
<1>7. CASE UNCHANGED vars
  BY <1>0, <1>7, ClearingStep DEF vars, historyVars
<1>. QED
  BY <1>1, <1>2, <1>3, <1>4, <1>5, <1>6, <1>7 DEF AnyStep

\* The calls among themselves, and a whole session, take such steps.
LEMMA NextSteps == [Next]_vars => AnyStep
  BY DEF Next, AnyStep

\* The same of a session: the gate, the probes and the operator.
LEMMA GateSteps == [GateNext]_gateVars => AnyStep
<1>1. ReaderStep => AnyStep
  BY DEF ReaderStep, decide_read, ReadCandidates, ReadBreaker, FailOpen, CallOver, Delegate, AnyStep
<1>2. Others => AnyStep
  BY DEF Others, OtherCall, AnyStep
<1>. QED
  BY <1>1, <1>2 DEF GateNext, gateVars, AnyStep

\* At first nobody owes anything, and a pause is what earlier failures earned.
LEMMA InitKeeps == Init => IInv
<1>. SUFFICES ASSUME Init PROVE IInv
  OBVIOUS
<1>1. PICK seed \in Seeds :
         /\ entry = [k \in Key |-> IF k \in seed.paused THEN Paused ELSE Zero]
         /\ blame = [k \in Key |-> IF k \in seed.paused THEN Threshold ELSE 0]
  BY DEF Init
<1>2. Threshold \in Nat /\ Cooldown \in Nat
  BY FailoverAssumption
<1>3. call = [c \in Call |-> Idle] /\ clock = 0 /\ excused = {}
  BY DEF Init
<1>4. Shape /\ AttemptInv
  BY <1>1, <1>2, <1>3 DEF Shape, AttemptInv, Idle, Field, Paused, Zero
<1>5. \A k : Owing(k) = {}
  BY <1>3 DEF Owing, Owes, Idle
<1>6. \A k \in Key : entry[k].failures = blame[k] /\ blame[k] \in Nat
  BY <1>1, <1>2 DEF Paused, Zero
<1>7. Cardinality({}) = 0
  BY FS_EmptySet
<1>8. Earned /\ Paid
  BY <1>5, <1>6, <1>7 DEF Earned, Paid
<1>. QED
  BY <1>4, <1>8 DEF IInv

(***************************************************************************)
(* What follows                                                            *)
(***************************************************************************)

\* A count is what was earned, even before what is owed is added to it.
LEMMA EarnedCounts == IInv => CountsAreEarned
<1>. SUFFICES ASSUME IInv, NEW k \in Key
              PROVE  entry[k].failures <= blame[k]
  BY DEF CountsAreEarned
<1>1. /\ entry[k].failures \in Nat /\ blame[k] \in Nat
      /\ entry[k].failures + Cardinality(Owing(k)) <= blame[k]
  BY DEF IInv, Shape, Earned
<1>. QED
  BY <1>1, OwingFinite

\* When the calls on a key are over nothing is owed on it.
LEMMA PaidPauses == IInv => FailuresPause
<1>. SUFFICES ASSUME IInv, NEW k \in Key \ excused, k[1] \notin HealthChecked,
                     blame[k] >= Threshold, \A c \in Call : KeyOf(c) # k
              PROVE  entry[k].failures >= Threshold
  BY DEF FailuresPause, FailuresAddUp
<1>1. Owing(k) = {}
  BY DEF Owing, Owes
<1>2. blame[k] <= entry[k].failures + 0
  BY <1>1, FS_EmptySet DEF IInv, Paid
<1>3. entry[k].failures \in Nat /\ blame[k] \in Nat /\ Threshold \in Nat
  BY FailoverAssumption DEF IInv, Shape
<1>. QED
  BY <1>2, <1>3

\* Each step moves the breaker of a role only for a call of that role, or
\* clears a model as a whole.
LEMMA StepsApart ==
    ASSUME IInv, AnyStep, NEW k \in Key, entry'[k] # entry[k]
    PROVE  \/ \E c \in Call : KeyOf(c) = k /\ call[c].pc = "record" /\ call'[c].pc # "record"
           \/ \E c \in Call : call[c].model = k[1] /\ call[c].pc = "note"
           \/ probe[k[1]] = "clearing"
           \/ k[1] \in leftovers
<1>. Shape
  BY DEF IInv
<1>. DOMAIN entry = Key /\ DOMAIN call = Call
  BY DEF Shape
<1>1. ASSUME NEW c \in Call, Start(c) \/ CallStep(c) \/ Kill(c)
      PROVE  Record(c) \/ ClearNoted(c)
  BY <1>1, StartMoves
     DEF CallStep, Kill, PassOver, Pick, Exhausted, Refuse, Dispatch, AskAnswered, AskFailed,
         AskNoConnection, AskBrokenRoute, JudgeAnswer, JudgeFailure
<1>2. ASSUME NEW c \in Call, Record(c)
      PROVE  KeyOf(c) = k /\ call[c].pc = "record" /\ call'[c].pc # "record"
  <2>1. KeyOf(c) = k
    BY <1>2 DEF Record
  <2>2. call'[c].pc \in {"ended", "pick"}
    BY <1>2, EndedShape, NextCandidateShape DEF Record
  <2>. QED
    BY <1>2, <2>1, <2>2 DEF Record
<1>3. ASSUME NEW c \in Call, ClearNoted(c)
      PROVE  call[c].model = k[1] /\ call[c].pc = "note"
  BY <1>3 DEF ClearNoted, Cleared
<1>4. ASSUME NEW m \in Model, ProbeEnds(m) \/ ProbeClears(m) \/ Operator(m)
      PROVE  (probe[m] = "clearing" \/ m \in leftovers) /\ k[1] = m
  BY <1>4 DEF ProbeEnds, ProbeClears, Operator, SetEnabled, Activate, Remove, DropLeftovers,
              Add, Edit, Cleared
<1>5. ~WarmUp /\ ~Tick /\ ~UNCHANGED vars
  BY DEF WarmUp, Tick, vars
<1>. QED
  BY <1>1, <1>2, <1>3, <1>4, <1>5 DEF AnyStep

(***************************************************************************)
(* The candidates                                                          *)
(*                                                                         *)
(* A call looks at each capable model of the registry it started from once *)
(* and remembers what became of it in two flags.  With that, the reason it *)
(* ends with can be followed back to what happened to its candidates.      *)
(***************************************************************************)

Busy == {"dispatch", "ask", "note", "judge", "record"}
Running(c) == call[c].pc \notin {"idle", "ended"}

\* Some candidate of call c came to one of S; each it saw so far was paused.
Met(c, S) == \E m \in Model : seen[c][m] \in S
AllPaused(c) == \A m \in Model : seen[c][m] \in {"no", "paused"}

RegistryInv ==
    /\ registry \in Seq(Model) /\ IsInjective(registry)
    /\ edits \in Nat
    /\ edits = 0 => enabled = Model

\* The candidates to come are new ones, and so is the current one until its
\* attempt is judged.
TodoInv(c) ==
    /\ call[c].role \in Role
    /\ call[c].todo \in Seq(Model) /\ IsInjective(call[c].todo)
    /\ DOMAIN seen[c] = Model
    /\ call[c].pc = "idle" => \A m \in Model : seen[c][m] = "no"
    /\ \A m \in Range(call[c].todo) : seen[c][m] = "no" /\ m # call[c].model
    /\ call[c].pc \in Busy => call[c].model \in Model
    /\ call[c].pc \in Busy \ {"record"} => seen[c][call[c].model] = "no"
    /\ call[c].pc = "record" =>
           /\ seen[c][call[c].model] = call[c].status
           /\ call[c].status \in {"failed", "unreachable", "success"}

\* The flags say what was seen, and an answer was seen once and ends the call.
FlagsInv(c) ==
    /\ call[c].tried \in BOOLEAN /\ call[c].oversize \in BOOLEAN
    /\ call[c].pc \in Busy => call[c].tried
    /\ call[c].pc = "pick" /\ ~call[c].tried =>
           AllPaused(c) /\ (call[c].todo # <<>> \/ Met(c, {"paused"}))
    /\ call[c].pc \in {"pick", "record"} /\ call[c].tried => ~AllPaused(c)
    /\ Running(c) => (call[c].oversize <=> Met(c, {"oversize"}))
    /\ \A m \in Model : seen[c][m] = "success" =>
           /\ \/ call[c].pc = "record" /\ call[c].model = m
              \/ call[c].pc = "ended" /\ call[c].reason \in {"answered", "killed"}
           /\ \A n \in Model : seen[c][n] = "success" => n = m

\* While nobody edits the registry, no capable model is forgotten.
LooksAtAll(c) ==
    Running(c) /\ edits = 0 =>
        \A m \in Registered \cap Capable(call[c].role) :
            \/ m \in Range(call[c].todo)
            \/ m = call[c].model /\ call[c].pc \in Busy
            \/ seen[c][m] # "no"

EndInv(c) ==
    LET why == call[c].reason
    IN  /\ why # "none" => call[c].pc = "ended"
        /\ why = "paused" => AllPaused(c) /\ Met(c, {"paused"})
        /\ why = "nodelegate" => Met(c, {"oversize"})
        /\ why = "allfailed" => ~AllPaused(c) /\ ~Met(c, {"oversize"})
        /\ why = "answered" => Met(c, {"success"})
        /\ why \in {"paused", "nodelegate", "allfailed"} /\ edits = 0 =>
               \A m \in Registered \cap Capable(call[c].role) : seen[c][m] # "no"

CallInv(c) == TodoInv(c) /\ FlagsInv(c) /\ LooksAtAll(c) /\ EndInv(c)

\* What is kept of a sequence are its members in the set, each as often as it
\* was there.
LEMMA KeptFacts ==
    ASSUME NEW A, NEW s \in Seq(A), NEW S
    PROVE  /\ Kept(s, S) \in Seq(A)
           /\ Range(Kept(s, S)) = Range(s) \cap S
           /\ IsInjective(s) => IsInjective(Kept(s, S))
<1>. DEFINE Index == {i \in DOMAIN s : s[i] \in S}
            Below(i) == {j \in Index : j <= i}
            UpTo(i) == Cardinality(Below(i))
            N == Cardinality(Index)
            at(n) == CHOOSE i \in Index : UpTo(i) = n
<1>1. IsFiniteSet(Index) /\ N \in Nat /\ Index \subseteq Nat
  <2>1. Index \subseteq 1..Len(s) /\ Len(s) \in Nat
    OBVIOUS
  <2>2. IsFiniteSet(1..Len(s))
    BY <2>1, FS_Interval
  <2>. QED
    BY <2>1, <2>2, FS_Subset, FS_CardinalityType
<1>2. ASSUME NEW i \in Index
      PROVE  UpTo(i) \in 1..N /\ IsFiniteSet(Below(i))
  <2>1. Below(i) \in SUBSET Index /\ i \in Below(i)
    BY <1>1
  <2>2. IsFiniteSet(Below(i)) /\ UpTo(i) <= N /\ UpTo(i) \in Nat
    BY <1>1, <2>1, FS_Subset, FS_CardinalityType
  <2>3. UpTo(i) # 0
    BY <2>1, <2>2, FS_EmptySet
  <2>. QED
    BY <1>1, <2>2, <2>3
<1>3. ASSUME NEW i \in Index, NEW j \in Index, UpTo(i) = UpTo(j)
      PROVE  i = j
  <2>1. ASSUME NEW a \in Index, NEW b \in Index, a < b
        PROVE  UpTo(a) # UpTo(b)
    <3>1. Below(a) \in SUBSET Below(b) /\ b \in Below(b) /\ b \notin Below(a)
      BY <1>1, <2>1
    <3>2. IsFiniteSet(Below(b))
      BY <1>2
    <3>. QED
      BY <3>1, <3>2, FS_Subset
  <2>2. i \in Nat /\ j \in Nat
    BY <1>1
  <2>3. ~(i < j) /\ ~(j < i)
    BY <1>3, <2>1
  <2>. QED
    BY <2>2, <2>3
<1>4. \A n \in 1..N : \E i \in Index : UpTo(i) = n
  <2>. DEFINE rank == [i \in Index |-> UpTo(i)]
  <2>1. rank \in [Index -> 1..N] /\ DOMAIN rank = Index /\ \A i \in Index : rank[i] = UpTo(i)
    BY <1>2
  <2>. HIDE DEF rank
  <2>2. \A i, j \in Index : rank[i] = rank[j] => i = j
    BY <1>3, <2>1
  <2>3. rank \in Injection(Index, 1..N)
    BY <2>1, <2>2 DEF Injection, IsInjective
  <2>4. IsFiniteSet(1..N) /\ Cardinality(1..N) = N
    BY <1>1, FS_Interval
  <2>5. rank \in Surjection(Index, 1..N)
    BY <2>3, <2>4, FS_Injection
  <2>. QED
    BY <2>1, <2>5 DEF Surjection
<1>5. \A n \in 1..N : at(n) \in Index /\ UpTo(at(n)) = n
  BY <1>4
<1>6. \A i \in Index : UpTo(i) \in 1..N /\ at(UpTo(i)) = i
  BY <1>2, <1>3, <1>5
<1>7. Kept(s, S) = [n \in 1..N |-> s[at(n)]]
  BY DEF Kept
<1>. HIDE DEF at, N
<1>8. \A i \in Index : i \in DOMAIN s /\ s[i] \in S /\ s[i] \in A
  OBVIOUS
<1>9. Kept(s, S) \in Seq(A)
  <2>1. \A n \in 1..N : s[at(n)] \in A
    BY <1>5, <1>8
  <2>2. [n \in 1..N |-> s[at(n)]] \in [1..N -> A] /\ N \in Nat
    BY <1>1, <2>1 DEF N
  <2>. QED
    BY <1>7, <2>2
<1>10. DOMAIN Kept(s, S) = 1..N /\ \A n \in 1..N : Kept(s, S)[n] = s[at(n)]
  BY <1>7
<1>11. Range(Kept(s, S)) = Range(s) \cap S
  <2>1. ASSUME NEW n \in 1..N
        PROVE  s[at(n)] \in Range(s) \cap S
    BY <1>5, <1>8 DEF Range
  <2>2. ASSUME NEW i \in DOMAIN s, s[i] \in S
        PROVE  \E n \in 1..N : s[at(n)] = s[i]
    <3>1. i \in Index
      BY <2>2
    <3>. QED
      BY <1>6, <3>1
  <2>. DEFINE K == Kept(s, S)
  <2>3. DOMAIN K = 1..N /\ \A n \in 1..N : K[n] = s[at(n)]
    BY <1>10
  <2>. HIDE DEF K
  <2>4. Range(K) \subseteq Range(s) \cap S
    BY <2>1, <2>3 DEF Range
  <2>5. Range(s) \cap S \subseteq Range(K)
    BY <2>2, <2>3 DEF Range
  <2>. QED
    BY <2>4, <2>5 DEF K
<1>12. IsInjective(s) => IsInjective(Kept(s, S))
  <2>. SUFFICES ASSUME IsInjective(s), NEW n \in 1..N, NEW o \in 1..N, s[at(n)] = s[at(o)]
                PROVE  n = o
    BY <1>10 DEF IsInjective
  <2>1. at(n) = at(o)
    BY <1>5, <1>8 DEF IsInjective
  <2>. QED
    BY <1>5, <2>1
<1>. QED
  BY <1>9, <1>11, <1>12

\* An element ahead of a sequence without it.
LEMMA AheadFacts ==
    ASSUME NEW A, NEW a \in A, NEW t \in Seq(A), IsInjective(t), a \notin Range(t)
    PROVE  /\ <<a>> \o t \in Seq(A)
           /\ IsInjective(<<a>> \o t)
           /\ Range(<<a>> \o t) = {a} \cup Range(t)
<1>. DEFINE s == <<a>> \o t
<1>1. /\ s \in Seq(A) /\ DOMAIN s = 1..(Len(t) + 1) /\ DOMAIN t = 1..Len(t) /\ Len(t) \in Nat
      /\ s[1] = a
      /\ \A i \in 1..Len(t) : s[i + 1] = t[i]
  OBVIOUS
<1>. HIDE DEF s
<1>2. \A i \in DOMAIN s : i = 1 \/ (i - 1 \in DOMAIN t /\ s[i] = t[i - 1])
  <2>. SUFFICES ASSUME NEW i \in DOMAIN s, i # 1
                PROVE  i - 1 \in DOMAIN t /\ s[i] = t[i - 1]
    OBVIOUS
  <2>1. i - 1 \in 1..Len(t) /\ (i - 1) + 1 = i
    BY <1>1
  <2>. QED
    BY <1>1, <2>1
<1>3. Range(s) = {a} \cup Range(t)
  <2>1. \A i \in DOMAIN s : s[i] \in {a} \cup Range(t)
    BY <1>1, <1>2 DEF Range
  <2>2. \A i \in DOMAIN t : t[i] \in Range(s)
    <3>1. \A i \in DOMAIN t : i + 1 \in DOMAIN s /\ s[i + 1] = t[i]
      BY <1>1
    <3>. QED
      BY <3>1 DEF Range
  <2>3. a \in Range(s)
    BY <1>1 DEF Range
  <2>. QED
    BY <2>1, <2>2, <2>3 DEF Range
<1>4. IsInjective(s)
  <2>1. \A i \in DOMAIN t : t[i] # a
    BY DEF Range
  <2>. SUFFICES ASSUME NEW i \in DOMAIN s, NEW j \in DOMAIN s, s[i] = s[j]
                PROVE  i = j
    BY DEF IsInjective
  <2>2. CASE i = 1 \/ j = 1
    BY <1>1, <1>2, <2>1, <2>2
  <2>3. CASE i # 1 /\ j # 1
    <3>1. i - 1 \in DOMAIN t /\ j - 1 \in DOMAIN t /\ t[i - 1] = t[j - 1]
      BY <1>2, <2>3
    <3>2. i - 1 = j - 1
      BY <3>1 DEF IsInjective
    <3>. QED
      BY <1>1, <3>2
  <2>. QED
    BY <2>2, <2>3
<1>. QED
  BY <1>1, <1>3, <1>4 DEF s

\* The first of a sequence without repetitions is not among the others.
LEMMA HeadFacts ==
    ASSUME NEW A, NEW s \in Seq(A), s # <<>>, IsInjective(s)
    PROVE  /\ Head(s) \in A /\ Tail(s) \in Seq(A) /\ IsInjective(Tail(s))
           /\ Range(s) = {Head(s)} \cup Range(Tail(s))
           /\ Head(s) \notin Range(Tail(s))
<1>. DEFINE t == Tail(s)
<1>1. /\ Head(s) = s[1] /\ Head(s) \in A /\ t \in Seq(A) /\ Len(s) \in Nat \ {0}
      /\ DOMAIN s = 1..Len(s) /\ DOMAIN t = 1..(Len(s) - 1)
      /\ \A i \in 1..(Len(s) - 1) : t[i] = s[i + 1]
  OBVIOUS
<1>. HIDE DEF t
<1>2. \A i \in DOMAIN t : i + 1 \in DOMAIN s /\ i + 1 # 1 /\ t[i] = s[i + 1]
  BY <1>1
<1>3. \A i \in DOMAIN s : i = 1 \/ (i - 1 \in DOMAIN t /\ s[i] = t[i - 1])
  <2>. SUFFICES ASSUME NEW i \in DOMAIN s, i # 1
                PROVE  i - 1 \in DOMAIN t /\ s[i] = t[i - 1]
    OBVIOUS
  <2>1. i - 1 \in 1..(Len(s) - 1) /\ (i - 1) + 1 = i
    BY <1>1
  <2>. QED
    BY <1>1, <2>1
<1>4. Range(s) = {Head(s)} \cup Range(t)
  <2>1. \A i \in DOMAIN s : s[i] \in {Head(s)} \cup Range(t)
    BY <1>1, <1>3 DEF Range
  <2>2. \A i \in DOMAIN t : t[i] \in Range(s)
    BY <1>2 DEF Range
  <2>3. Head(s) \in Range(s)
    BY <1>1 DEF Range
  <2>. QED
    BY <2>1, <2>2, <2>3 DEF Range
<1>5. Head(s) \notin Range(t)
  <2>1. 1 \in DOMAIN s
    BY <1>1
  <2>. QED
    BY <1>1, <1>2, <2>1 DEF Range, IsInjective
<1>6. IsInjective(t)
  <2>. SUFFICES ASSUME NEW i \in DOMAIN t, NEW j \in DOMAIN t, t[i] = t[j]
                PROVE  i = j
    BY DEF IsInjective
  <2>1. i + 1 = j + 1
    BY <1>2 DEF IsInjective
  <2>. QED
    BY <1>1, <2>1
<1>. QED
  BY <1>1, <1>4, <1>5, <1>6 DEF t

\* A model that was not registered goes to the end.
LEMMA AppendFacts ==
    ASSUME NEW A, NEW a \in A, NEW s \in Seq(A), IsInjective(s), a \notin Range(s)
    PROVE  Append(s, a) \in Seq(A) /\ IsInjective(Append(s, a))
<1>. DEFINE t == Append(s, a)
<1>1. /\ t \in Seq(A) /\ DOMAIN s = 1..Len(s) /\ DOMAIN t = 1..(Len(s) + 1) /\ Len(s) \in Nat
      /\ t[Len(s) + 1] = a
      /\ \A i \in 1..Len(s) : t[i] = s[i]
  OBVIOUS
<1>. HIDE DEF t
<1>2. \A i \in DOMAIN t : i = Len(s) + 1 \/ (i \in DOMAIN s /\ t[i] = s[i] /\ t[i] # a)
  BY <1>1 DEF Range
<1>3. IsInjective(t)
  BY <1>1, <1>2 DEF IsInjective
<1>. QED
  BY <1>1, <1>3 DEF t

\* The candidates of a role are the models that may take it, each once.
LEMMA CandidatesFacts ==
    ASSUME RegistryInv, NEW r
    PROVE  /\ Candidates(r) \in Seq(Model) /\ IsInjective(Candidates(r))
           /\ Range(Candidates(r)) = Usable(r)
<1>1. registry \in Seq(Model) /\ IsInjective(registry)
  BY DEF RegistryInv
<1>2. Usable(r) \subseteq Range(registry) /\ Usable(r) \subseteq Model
  <2>1. Range(registry) \subseteq Model
    BY <1>1 DEF Range
  <2>. QED
    BY <2>1 DEF Usable, Registered
<1>3. CASE active \in Usable(r)
  <2>. DEFINE t == Kept(registry, Usable(r) \ {active})
  <2>1. /\ t \in Seq(Model) /\ IsInjective(t)
        /\ Range(t) = Range(registry) \cap (Usable(r) \ {active})
    BY <1>1, KeptFacts
  <2>. HIDE DEF t
  <2>2. active \in Model /\ active \notin Range(t)
    BY <1>2, <1>3, <2>1
  <2>3. /\ <<active>> \o t \in Seq(Model) /\ IsInjective(<<active>> \o t)
        /\ Range(<<active>> \o t) = {active} \cup Range(t)
    BY <2>1, <2>2, AheadFacts
  <2>4. Candidates(r) = <<active>> \o t
    BY <1>3 DEF Candidates, t
  <2>. QED
    BY <1>2, <1>3, <2>1, <2>3, <2>4
<1>4. CASE active \notin Usable(r)
  <2>. DEFINE t == Kept(registry, Usable(r))
  <2>1. t \in Seq(Model) /\ IsInjective(t) /\ Range(t) = Range(registry) \cap Usable(r)
    BY <1>1, KeptFacts
  <2>2. Candidates(r) = t
    BY <1>4 DEF Candidates
  <2>. HIDE DEF t
  <2>. QED
    BY <1>2, <2>1, <2>2
<1>. QED
  BY <1>3, <1>4

\* No operator's command brings a model into the registry twice.
LEMMA RegistryKept ==
    ASSUME RegistryInv, AnyStep
    PROVE  /\ RegistryInv'
           /\ edits' = 0 => edits = 0 /\ UNCHANGED <<registry, enabled>>
<1>1. CASE UNCHANGED <<registry, enabled, edits>>
  BY <1>1 DEF RegistryInv
<1>2. ASSUME NEW m \in Model, Edit, registry' \in Seq(Model), IsInjective(registry')
      PROVE  /\ RegistryInv'
             /\ edits' = 0 => edits = 0 /\ UNCHANGED <<registry, enabled>>
  <2>1. edits \in Nat /\ edits' = edits + 1
    BY <1>2 DEF Edit, RegistryInv
  <2>. QED
    BY <1>2, <2>1 DEF RegistryInv
<1>3. ASSUME NEW m \in Model, Operator(m)
      PROVE  UNCHANGED <<registry, enabled, edits>>
             \/ (Edit /\ registry' \in Seq(Model) /\ IsInjective(registry'))
  <2>0. registry \in Seq(Model) /\ IsInjective(registry)
    BY DEF RegistryInv
  <2>1. CASE SetEnabled(m) \/ Activate(m)
    BY <2>0, <2>1 DEF SetEnabled, Activate
  <2>2. CASE Remove(m)
    BY <2>0, <2>2, KeptFacts DEF Remove
  <2>3. CASE DropLeftovers(m)
    BY <2>3 DEF DropLeftovers
  <2>4. CASE Add(m)
    BY <2>0, <2>4, AppendFacts DEF Add, Registered
  <2>. QED
    BY <1>3, <2>1, <2>2, <2>3, <2>4 DEF Operator
<1>4. ASSUME NEW c \in Call, Start(c) \/ CallStep(c) \/ Kill(c)
      PROVE  UNCHANGED <<registry, enabled, edits>>
  BY <1>4 DEF Start, CallStep, Kill, PassOver, Pick, Exhausted, Refuse, Dispatch, AskAnswered,
              ClearNoted, AskFailed, AskNoConnection, AskBrokenRoute, JudgeAnswer, JudgeFailure,
              Record, registryVars
<1>5. ASSUME WarmUp \/ Tick \/ UNCHANGED vars \/ \E m \in Model : ProbeEnds(m) \/ ProbeClears(m)
      PROVE  UNCHANGED <<registry, enabled, edits>>
  BY <1>5 DEF WarmUp, Tick, vars, ProbeEnds, ProbeClears, registryVars
<1>. QED
  BY <1>1, <1>2, <1>3, <1>4, <1>5 DEF AnyStep

(***************************************************************************)
(* A call and its candidates                                               *)
(***************************************************************************)

CallsInv == DOMAIN seen = Call /\ \A c \in Call : CallInv(c)

\* What a step of call c itself finds: the registry does not move under it.
Stepping(c) ==
    /\ Shape /\ AttemptInv /\ CallsInv /\ RegistryInv
    /\ UNCHANGED <<registry, edits>>

\* Nothing becomes of a call that does not move.
LEMMA RestingCall ==
    ASSUME NEW c, CallInv(c), call'[c] = call[c], seen'[c] = seen[c],
           edits' = 0 => edits = 0 /\ registry' = registry
    PROVE  CallInv(c)'
<1>1. TodoInv(c)'
  BY DEF CallInv, TodoInv
<1>2. FlagsInv(c)'
  BY DEF CallInv, FlagsInv, Running, Met, AllPaused
<1>3. LooksAtAll(c)'
  BY DEF CallInv, LooksAtAll, Running, Registered
<1>4. EndInv(c)'
  BY DEF CallInv, EndInv, Met, AllPaused, Registered
<1>. QED
  BY <1>1, <1>2, <1>3, <1>4 DEF CallInv

\* A step within an attempt moves neither the candidates nor the flags.
LEMMA AttemptGoesOn ==
    ASSUME NEW c \in Call, Stepping(c), call[c].pc \in Busy \ {"record"},
           call'[c].pc \in Busy \ {"record"}, UNCHANGED seen,
           call'[c].role = call[c].role, call'[c].todo = call[c].todo,
           call'[c].model = call[c].model, call'[c].tried = call[c].tried,
           call'[c].oversize = call[c].oversize, call'[c].reason = call[c].reason
    PROVE  CallInv(c)'
<1>. CallInv(c)
  BY DEF Stepping, CallsInv
<1>0. call'[c].pc \in {"dispatch", "ask", "note", "judge"} /\ call[c].pc \in {"dispatch", "ask", "note", "judge"}
  BY DEF Busy
<1>1. TodoInv(c)'
  BY <1>0 DEF CallInv, TodoInv
<1>2. FlagsInv(c)'
  BY <1>0 DEF CallInv, FlagsInv, Running, Met, AllPaused, Busy
<1>3. LooksAtAll(c)'
  BY <1>0 DEF CallInv, LooksAtAll, Running, Registered, Stepping
<1>4. EndInv(c)'
  BY <1>0 DEF CallInv, EndInv, Met, AllPaused, Registered
<1>. QED
  BY <1>1, <1>2, <1>3, <1>4 DEF CallInv

\* A call ends well if its reason is the truth about what it saw.
LEMMA CallEndsWell ==
    ASSUME NEW c \in Call, call'[c].pc = "ended", call'[c].todo = <<>>, call'[c].role \in Role,
           call'[c].tried = FALSE, call'[c].oversize = FALSE,
           DOMAIN seen'[c] = Model,
           \A m \in Model : seen'[c][m] = "success" =>
               /\ call'[c].reason \in {"answered", "killed"}
               /\ \A n \in Model : seen'[c][n] = "success" => n = m,
           EndInv(c)'
    PROVE  CallInv(c)'
<1>1. TodoInv(c)'
  BY DEF TodoInv, Busy, Range, IsInjective
<1>2. FlagsInv(c)'
  BY DEF FlagsInv, Running, Busy
<1>3. LooksAtAll(c)'
  BY DEF LooksAtAll, Running
<1>. QED
  BY <1>1, <1>2, <1>3 DEF CallInv

\* A started call has all the candidates before it.
LEMMA StartKeeps ==
    ASSUME NEW c \in Call, Stepping(c), Start(c)
    PROVE  CallInv(c)' /\ UNCHANGED seen
<1>. CallInv(c) /\ RegistryInv /\ DOMAIN call = Call
  BY DEF Stepping, CallsInv, Shape
<1>0. call[c].pc = "idle" /\ UNCHANGED seen
  BY DEF Start, historyVars
<1>1. PICK r \in Role : call' = [call EXCEPT ![c] =
             IF Candidates(r) = <<>>
                 THEN [Ended(c, "nocandidates") EXCEPT !.role = r]
                 ELSE [Idle EXCEPT !.pc = "pick", !.role = r, !.todo = Candidates(r)]]
  BY DEF Start
<1>2. \A m \in Model : seen[c][m] = "no"
  BY <1>0 DEF CallInv, TodoInv
<1>3. DOMAIN seen[c] = Model
  BY DEF CallInv, TodoInv
<1>4. CASE Candidates(r) = <<>>
  <2>1. call'[c] = [Ended(c, "nocandidates") EXCEPT !.role = r]
    BY <1>1, <1>4
  <2>2. /\ call'[c].pc = "ended" /\ call'[c].todo = <<>> /\ call'[c].role = r
        /\ call'[c].reason = "nocandidates" /\ call'[c].tried = FALSE /\ call'[c].oversize = FALSE
    BY <2>1 DEF Ended, Idle
  <2>3. EndInv(c)'
    BY <2>2 DEF EndInv
  <2>. QED
    BY <1>0, <1>2, <1>3, <2>2, <2>3, CallEndsWell
<1>5. CASE Candidates(r) # <<>>
  <2>1. call'[c] = [Idle EXCEPT !.pc = "pick", !.role = r, !.todo = Candidates(r)]
    BY <1>1, <1>5
  <2>2. /\ call'[c].pc = "pick" /\ call'[c].todo = Candidates(r) /\ call'[c].role = r
        /\ call'[c].reason = "none" /\ call'[c].tried = FALSE /\ call'[c].oversize = FALSE
        /\ call'[c].model = NoModel
    BY <2>1 DEF Idle
  <2>. DEFINE t == Candidates(r)
  <2>3. t \in Seq(Model) /\ IsInjective(t) /\ Range(t) = Usable(r) /\ t # <<>>
    BY <1>5, CandidatesFacts
  <2>. HIDE DEF t
  <2>4. call'[c].todo = t
    BY <2>2 DEF t
  <2>5. Usable(r) \subseteq Model /\ NoModel \notin Model
    <3>1. Range(registry) \subseteq Model
      BY DEF RegistryInv, Range
    <3>. QED
      BY <3>1, FailoverAssumption DEF Usable, Registered
  <2>6. TodoInv(c)'
    BY <1>0, <1>2, <1>3, <2>2, <2>3, <2>4, <2>5 DEF TodoInv, Busy
  <2>7. FlagsInv(c)'
    BY <1>0, <1>2, <2>2, <2>3, <2>4 DEF FlagsInv, Busy, Running, Met, AllPaused
  <2>8. LooksAtAll(c)'
    <3>. SUFFICES ASSUME edits' = 0, NEW m \in Registered' \cap Capable(call'[c].role)
                  PROVE  m \in Range(call'[c].todo)
      BY DEF LooksAtAll
    <3>1. registry' = registry /\ edits = 0
      BY DEF Stepping
    <3>2. m \in Registered /\ m \in Capable(r) /\ enabled = Model
      BY <2>2, <3>1 DEF Registered, RegistryInv
    <3>3. m \in Model
      BY <3>2 DEF RegistryInv, Registered, Range
    <3>. QED
      BY <2>3, <2>4, <3>2, <3>3 DEF Usable
  <2>9. EndInv(c)'
    BY <2>2 DEF EndInv
  <2>. QED
    BY <1>0, <2>6, <2>7, <2>8, <2>9 DEF CallInv
<1>. QED
  BY <1>4, <1>5

\* A paused candidate is one that was seen.
LEMMA PassOverKeeps ==
    ASSUME NEW c \in Call, Stepping(c), PassOver(c)
    PROVE  CallInv(c)'
<1>. CallInv(c) /\ DOMAIN call = Call /\ DOMAIN call[c] = Field /\ DOMAIN seen = Call
  BY DEF Stepping, CallsInv, Shape
<1>. DEFINE s == call[c].todo
            h == Head(s)
            t == Tail(s)
<1>1. s \in Seq(Model) /\ s # <<>> /\ IsInjective(s) /\ call[c].pc = "pick"
  BY DEF PassOver, CallInv, TodoInv
<1>2. /\ h \in Model /\ t \in Seq(Model) /\ IsInjective(t)
      /\ Range(s) = {h} \cup Range(t) /\ h \notin Range(t)
  BY <1>1, HeadFacts
<1>3. /\ call'[c].pc = "pick" /\ call'[c].todo = t /\ call'[c].role = call[c].role
      /\ call'[c].model = call[c].model /\ call'[c].reason = call[c].reason
      /\ call'[c].tried = call[c].tried /\ call'[c].oversize = call[c].oversize
  BY DEF PassOver, Field
<1>4. seen[c][h] = "no" /\ DOMAIN seen[c] = Model
  BY <1>2 DEF CallInv, TodoInv
<1>5. /\ DOMAIN seen'[c] = Model /\ seen'[c][h] = "paused"
      /\ \A m \in Model \ {h} : seen'[c][m] = seen[c][m]
  BY <1>2, <1>4 DEF PassOver
<1>6. Range(s) = Range(call[c].todo)
  OBVIOUS
<1>. HIDE DEF s, h, t
<1>7. TodoInv(c)'
  <2>1. \A m \in Range(t) : m \in Model
    BY <1>2 DEF Range
  <2>. QED
    BY <1>1, <1>2, <1>3, <1>5, <1>6, <2>1 DEF CallInv, TodoInv, Busy
<1>8. FlagsInv(c)'
  <2>1. \A m \in Model : seen'[c][m] = "success" <=> seen[c][m] = "success"
    BY <1>4, <1>5
  <2>2. \A m \in Model : seen'[c][m] = "oversize" <=> seen[c][m] = "oversize"
    BY <1>4, <1>5
  <2>3. \A m \in Model : seen'[c][m] \in {"no", "paused"} <=> seen[c][m] \in {"no", "paused"}
    BY <1>4, <1>5
  <2>4. Met(c, {"paused"})'
    BY <1>2, <1>5 DEF Met
  <2>5. (Met(c, {"oversize"})' <=> Met(c, {"oversize"})) /\ (AllPaused(c)' <=> AllPaused(c))
    BY <2>2, <2>3 DEF Met, AllPaused
  <2>. QED
    BY <1>1, <1>3, <2>1, <2>4, <2>5 DEF CallInv, FlagsInv, Running, Busy
<1>9. LooksAtAll(c)'
  <2>. SUFFICES ASSUME edits = 0, NEW m \in Registered \cap Capable(call[c].role)
                PROVE  m \in Range(t) \/ seen'[c][m] # "no"
    BY <1>3 DEF LooksAtAll, Stepping, Registered
  <2>1. m \in Range(s) \/ seen[c][m] # "no"
    BY <1>1, <1>6 DEF CallInv, LooksAtAll, Running, Busy
  <2>2. m \in Model
    BY DEF Stepping, RegistryInv, Registered, Range
  <2>. QED
    BY <1>2, <1>5, <2>1, <2>2
<1>10. EndInv(c)'
  BY <1>1, <1>3 DEF CallInv, EndInv
<1>. QED
  BY <1>7, <1>8, <1>9, <1>10 DEF CallInv

\* A candidate that is tried is the current one, no more one to come.
LEMMA PickKeeps ==
    ASSUME NEW c \in Call, Stepping(c), Pick(c)
    PROVE  CallInv(c)'
<1>. CallInv(c) /\ DOMAIN call = Call /\ DOMAIN call[c] = Field
  BY DEF Stepping, CallsInv, Shape
<1>. DEFINE s == call[c].todo
            h == Head(s)
            t == Tail(s)
<1>1. s \in Seq(Model) /\ s # <<>> /\ IsInjective(s) /\ call[c].pc = "pick"
  BY DEF Pick, CallInv, TodoInv
<1>2. /\ h \in Model /\ t \in Seq(Model) /\ IsInjective(t)
      /\ Range(s) = {h} \cup Range(t) /\ h \notin Range(t)
  BY <1>1, HeadFacts
<1>3. /\ call'[c].pc = "dispatch" /\ call'[c].todo = t /\ call'[c].role = call[c].role
      /\ call'[c].model = h /\ call'[c].reason = call[c].reason
      /\ call'[c].tried = TRUE /\ call'[c].oversize = call[c].oversize
  BY DEF Pick, Field
<1>4. seen' = seen
  BY DEF Pick, historyVars
<1>6. Range(s) = Range(call[c].todo)
  OBVIOUS
<1>. HIDE DEF s, h, t
<1>7. TodoInv(c)'
  BY <1>1, <1>2, <1>3, <1>4, <1>6 DEF CallInv, TodoInv, Busy
<1>8. FlagsInv(c)'
  BY <1>1, <1>3, <1>4 DEF CallInv, FlagsInv, Running, Busy, Met
<1>9. LooksAtAll(c)'
  <2>. SUFFICES ASSUME edits = 0, NEW m \in Registered \cap Capable(call[c].role)
                PROVE  m \in Range(t) \/ m = h \/ seen[c][m] # "no"
    BY <1>3, <1>4 DEF LooksAtAll, Stepping, Registered, Busy
  <2>1. m \in Range(s) \/ seen[c][m] # "no"
    BY <1>1, <1>6 DEF CallInv, LooksAtAll, Running, Busy
  <2>. QED
    BY <1>2, <2>1
<1>10. EndInv(c)'
  BY <1>1, <1>3 DEF CallInv, EndInv
<1>. QED
  BY <1>7, <1>8, <1>9, <1>10 DEF CallInv

\* The flags give the true reason.
LEMMA ExhaustedKeeps ==
    ASSUME NEW c \in Call, Stepping(c), Exhausted(c)
    PROVE  CallInv(c)'
<1>. CallInv(c) /\ DOMAIN call = Call
  BY DEF Stepping, CallsInv, Shape
<1>1. call[c].pc = "pick" /\ call[c].todo = <<>> /\ seen' = seen
  BY DEF Exhausted, historyVars
<1>2. PICK why : /\ call'[c] = Ended(c, why)
                 /\ why = IF ~call[c].tried THEN "paused"
                          ELSE IF call[c].oversize THEN "nodelegate" ELSE "allfailed"
  BY DEF Exhausted
<1>3. /\ call'[c].pc = "ended" /\ call'[c].todo = <<>> /\ call'[c].role = call[c].role
      /\ call'[c].reason = why /\ call'[c].tried = FALSE /\ call'[c].oversize = FALSE
  BY <1>2 DEF Ended, Idle
<1>4. call[c].role \in Role /\ DOMAIN seen[c] = Model
  BY DEF CallInv, TodoInv
<1>5. call[c].oversize <=> Met(c, {"oversize"})
  BY <1>1 DEF CallInv, FlagsInv, Running
<1>6. why = "paused" => AllPaused(c) /\ Met(c, {"paused"})
  BY <1>1, <1>2 DEF CallInv, FlagsInv
<1>7. why \in {"nodelegate", "allfailed"} => ~AllPaused(c)
  BY <1>1, <1>2 DEF CallInv, FlagsInv
<1>8. (why = "nodelegate" => Met(c, {"oversize"})) /\ (why = "allfailed" => ~Met(c, {"oversize"}))
  BY <1>2, <1>5
<1>9. edits = 0 => \A m \in Registered \cap Capable(call[c].role) : seen[c][m] # "no"
  BY <1>1 DEF CallInv, LooksAtAll, Running, Busy, Range
<1>10. \A m \in Model : seen[c][m] # "success"
  BY <1>1 DEF CallInv, FlagsInv
<1>11. why \in {"paused", "nodelegate", "allfailed"}
  BY <1>2
<1>12. EndInv(c)'
  <2>1. edits' = edits /\ Registered' = Registered
    BY DEF Stepping, Registered
  <2>. QED
    BY <1>1, <1>3, <1>6, <1>7, <1>8, <1>9, <1>11, <2>1 DEF EndInv, Met, AllPaused
<1>13. DOMAIN seen'[c] = Model /\ \A m \in Model : seen'[c][m] # "success"
  BY <1>1, <1>4, <1>10
<1>. QED
  BY <1>3, <1>4, <1>12, <1>13, CallEndsWell

\* The steps of an attempt up to its judgement.
LEMMA AttemptKeeps ==
    ASSUME NEW c \in Call, Stepping(c),
           \/ Refuse(c) \/ Dispatch(c) \/ AskAnswered(c) \/ ClearNoted(c)
           \/ AskFailed(c) \/ AskNoConnection(c) \/ AskBrokenRoute(c)
    PROVE  CallInv(c)'
<1>. DOMAIN call = Call /\ DOMAIN call[c] = Field
  BY DEF Stepping, Shape
<1>. DEFINE Inside(p) == p \in {"dispatch", "ask", "note", "judge"}
            SameTodo == /\ call'[c].role = call[c].role /\ call'[c].todo = call[c].todo
                        /\ call'[c].model = call[c].model /\ call'[c].tried = call[c].tried
                        /\ call'[c].oversize = call[c].oversize /\ call'[c].reason = call[c].reason
<1>1. CASE Refuse(c)
  BY <1>1, AttemptGoesOn DEF Refuse, Field, Busy, historyVars
<1>2. CASE Dispatch(c)
  <2>1. /\ call[c].pc = "dispatch" /\ UNCHANGED seen
        /\ \/ call'[c] = [call[c] EXCEPT !.pc = "judge", !.status = "skipped"]
           \/ call'[c] = [call[c] EXCEPT !.pc = "ask",
                              !.gated = call[c].model \in Registered \cap HealthChecked]
    BY <1>2 DEF Dispatch, historyVars
  <2>2. call'[c].pc \in {"judge", "ask"} /\ SameTodo
    <3>1. CASE call'[c] = [call[c] EXCEPT !.pc = "judge", !.status = "skipped"]
      BY <3>1 DEF Field
    <3>2. CASE call'[c] = [call[c] EXCEPT !.pc = "ask",
                               !.gated = call[c].model \in Registered \cap HealthChecked]
      BY <3>2 DEF Field
    <3>. QED
      BY <2>1, <3>1, <3>2
  <2>. QED
    BY <2>1, <2>2, AttemptGoesOn DEF Busy
<1>3. CASE AskAnswered(c)
  <2>1. call[c].pc = "ask" /\ UNCHANGED seen /\ Inside(call'[c].pc) /\ SameTodo
    BY <1>3 DEF AskAnswered, Field, historyVars
  <2>. QED
    BY <2>1, AttemptGoesOn DEF Busy
<1>4. CASE ClearNoted(c)
  <2>1. call[c].pc = "note" /\ UNCHANGED seen /\ Inside(call'[c].pc) /\ SameTodo
    BY <1>4 DEF ClearNoted, Field
  <2>. QED
    BY <2>1, AttemptGoesOn DEF Busy
<1>5. CASE AskFailed(c) \/ AskNoConnection(c) \/ AskBrokenRoute(c)
  <2>1. call[c].pc = "ask" /\ UNCHANGED seen /\ Inside(call'[c].pc) /\ SameTodo
    BY <1>5 DEF AskFailed, AskNoConnection, AskBrokenRoute, Field, historyVars
  <2>. QED
    BY <2>1, AttemptGoesOn DEF Busy
<1>. QED
  BY <1>1, <1>2, <1>3, <1>4, <1>5

\* The current candidate has been judged, and s has become of it.
Saw(c, s) ==
    /\ DOMAIN seen'[c] = Model /\ seen'[c][call[c].model] = s
    /\ \A m \in Model \ {call[c].model} : seen'[c][m] = seen[c][m]

\* What a judgement adds to what the call has seen.
LEMMA SawFacts ==
    ASSUME NEW c \in Call, Stepping(c), call[c].pc = "judge", NEW s,
           seen' = [seen EXCEPT ![c][call[c].model] = s]
    PROVE  /\ Saw(c, s) /\ call[c].model \in Model /\ call[c].tried
           /\ \A m \in Model : seen[c][m] # "success"
           /\ s # "success" => \A m \in Model : seen'[c][m] # "success"
           /\ s # "oversize" => (Met(c, {"oversize"})' <=> Met(c, {"oversize"}))
           /\ s \notin {"no", "paused"} => ~AllPaused(c)'
           /\ s # "no" /\ edits' = 0 =>
                \A m \in Registered' \cap Capable(call[c].role) :
                    m \in Range(call[c].todo) \/ seen'[c][m] # "no"
<1>. CallInv(c) /\ DOMAIN seen = Call /\ RegistryInv
  BY DEF Stepping, CallsInv
<1>1. /\ call[c].model \in Model /\ seen[c][call[c].model] = "no" /\ DOMAIN seen[c] = Model
      /\ call[c].tried
  BY DEF CallInv, TodoInv, FlagsInv, Busy
<1>2. Saw(c, s)
  BY <1>1 DEF Saw
<1>3. \A m \in Model : seen[c][m] # "success"
  BY DEF CallInv, FlagsInv
<1>4. s # "success" => \A m \in Model : seen'[c][m] # "success"
  BY <1>2, <1>3 DEF Saw
<1>5. s # "oversize" => (Met(c, {"oversize"})' <=> Met(c, {"oversize"}))
  <2>1. s # "oversize" => \A m \in Model : seen'[c][m] = "oversize" <=> seen[c][m] = "oversize"
    BY <1>1, <1>2 DEF Saw
  <2>. QED
    BY <2>1 DEF Met
<1>6. s \notin {"no", "paused"} => ~AllPaused(c)'
  BY <1>1, <1>2 DEF Saw, AllPaused
<1>7. ASSUME s # "no", edits' = 0, NEW m \in Registered' \cap Capable(call[c].role)
      PROVE  m \in Range(call[c].todo) \/ seen'[c][m] # "no"
  <2>1. edits = 0 /\ m \in Registered /\ m \in Model
    BY <1>7 DEF Stepping, Registered, RegistryInv, Range
  <2>2. m \in Range(call[c].todo) \/ m = call[c].model \/ seen[c][m] # "no"
    BY <1>7, <2>1 DEF CallInv, LooksAtAll, Running, Busy
  <2>. QED
    BY <1>2, <1>7, <2>1, <2>2 DEF Saw
<1>. QED
  BY <1>1, <1>2, <1>3, <1>4, <1>5, <1>6, <1>7

\* An attempt judged a failure, or an answer that is taken, is to be recorded.
LEMMA ToRecord ==
    ASSUME NEW c \in Call, Stepping(c), call[c].pc = "judge",
           NEW s \in {"failed", "unreachable", "success"},
           seen' = [seen EXCEPT ![c][call[c].model] = s],
           call'[c].pc = "record", call'[c].status = s,
           call'[c].role = call[c].role, call'[c].todo = call[c].todo,
           call'[c].model = call[c].model, call'[c].tried = call[c].tried,
           call'[c].oversize = call[c].oversize, call'[c].reason = call[c].reason
    PROVE  CallInv(c)'
<1>. CallInv(c)
  BY DEF Stepping, CallsInv
<1>. DEFINE Facts ==
           /\ Saw(c, s) /\ call[c].model \in Model /\ call[c].tried
           /\ \A m \in Model : seen[c][m] # "success"
           /\ s # "success" => \A m \in Model : seen'[c][m] # "success"
           /\ Met(c, {"oversize"})' <=> Met(c, {"oversize"})
           /\ ~AllPaused(c)'
           /\ edits' = 0 =>
                \A m \in Registered' \cap Capable(call[c].role) :
                    m \in Range(call[c].todo) \/ seen'[c][m] # "no"
<1>1. Facts
  BY SawFacts
<1>2. TodoInv(c)'
  <2>1. \A m \in Range(call[c].todo) : m \in Model /\ m # call[c].model
    BY DEF CallInv, TodoInv, Range
  <2>. QED
    BY <1>1, <2>1 DEF CallInv, TodoInv, Busy, Saw
<1>3. FlagsInv(c)'
  <2>1. \A m \in Model : seen'[c][m] = "success" => m = call[c].model
    BY <1>1 DEF Saw
  <2>. QED
    BY <1>1, <2>1 DEF CallInv, FlagsInv, Busy, Running
<1>4. LooksAtAll(c)'
  BY <1>1 DEF LooksAtAll
<1>5. EndInv(c)'
  BY DEF CallInv, EndInv
<1>. QED
  BY <1>2, <1>3, <1>4, <1>5 DEF CallInv

\* A call whose attempt came to s without a record goes to its next candidate.
LEMMA ToNext ==
    ASSUME NEW c \in Call, Stepping(c), call[c].pc = "judge",
           NEW s \in {"auth", "config", "skipped", "unreachable", "oversize"},
           seen' = [seen EXCEPT ![c][call[c].model] = s],
           call'[c].pc = "pick",
           call'[c].oversize = (call[c].oversize \/ s = "oversize"),
           call'[c].role = call[c].role, call'[c].todo = call[c].todo,
           call'[c].model = NoModel, call'[c].tried = call[c].tried,
           call'[c].reason = call[c].reason
    PROVE  CallInv(c)'
<1>. CallInv(c)
  BY DEF Stepping, CallsInv
<1>1. /\ Saw(c, s) /\ call[c].model \in Model /\ call[c].tried
      /\ \A m \in Model : seen'[c][m] # "success"
      /\ s # "oversize" => (Met(c, {"oversize"})' <=> Met(c, {"oversize"}))
      /\ ~AllPaused(c)'
      /\ edits' = 0 =>
           \A m \in Registered' \cap Capable(call[c].role) :
               m \in Range(call[c].todo) \/ seen'[c][m] # "no"
  BY SawFacts
<1>2. TodoInv(c)'
  <2>1. \A m \in Range(call[c].todo) : m \in Model /\ m # call[c].model /\ m # NoModel
    BY FailoverAssumption DEF CallInv, TodoInv, Range
  <2>. QED
    BY <1>1, <2>1 DEF CallInv, TodoInv, Busy, Saw
<1>3. FlagsInv(c)'
  <2>1. s = "oversize" => Met(c, {"oversize"})'
    BY <1>1 DEF Saw, Met
  <2>2. call[c].oversize \in BOOLEAN /\ (call[c].oversize <=> Met(c, {"oversize"}))
    BY DEF CallInv, FlagsInv, Running
  <2>3. call'[c].oversize \in BOOLEAN /\ (call'[c].oversize <=> Met(c, {"oversize"})')
    BY <1>1, <2>1, <2>2
  <2>. QED
    BY <1>1, <2>3 DEF CallInv, FlagsInv, Busy, Running
<1>4. LooksAtAll(c)'
  BY <1>1 DEF LooksAtAll
<1>5. EndInv(c)'
  BY DEF CallInv, EndInv
<1>. QED
  BY <1>2, <1>3, <1>4, <1>5 DEF CallInv

\* An answer is judged.
LEMMA JudgeAnswerKeeps ==
    ASSUME NEW c \in Call, Stepping(c), JudgeAnswer(c)
    PROVE  CallInv(c)'
<1>. DOMAIN call = Call /\ DOMAIN call[c] = Field /\ CallInv(c)
  BY DEF Stepping, Shape, CallsInv
<1>1. call[c].pc = "judge"
  BY DEF JudgeAnswer
<1>2. CASE /\ call' = [call EXCEPT ![c].pc = "record", ![c].status = "success"]
           /\ seen' = [seen EXCEPT ![c][call[c].model] = "success"]
  <2>1. /\ call'[c].pc = "record" /\ call'[c].status = "success"
        /\ call'[c].role = call[c].role /\ call'[c].todo = call[c].todo
        /\ call'[c].model = call[c].model /\ call'[c].tried = call[c].tried
        /\ call'[c].oversize = call[c].oversize /\ call'[c].reason = call[c].reason
    BY <1>2 DEF Field
  <2>. QED
    BY <1>1, <1>2, <2>1, ToRecord
<1>3. CASE /\ call' = [call EXCEPT ![c].pc = "record", ![c].status = "failed", ![c].stamp = clock]
           /\ seen' = [seen EXCEPT ![c][call[c].model] = "failed"]
  <2>1. /\ call'[c].pc = "record" /\ call'[c].status = "failed"
        /\ call'[c].role = call[c].role /\ call'[c].todo = call[c].todo
        /\ call'[c].model = call[c].model /\ call'[c].tried = call[c].tried
        /\ call'[c].oversize = call[c].oversize /\ call'[c].reason = call[c].reason
    BY <1>3 DEF Field
  <2>. QED
    BY <1>1, <1>3, <2>1, ToRecord
<1>4. CASE /\ call' = [call EXCEPT ![c] = Ended(c, "aborted")]
           /\ seen' = [seen EXCEPT ![c][call[c].model] = "aborted"]
  <2>1. call'[c] = Ended(c, "aborted")
    BY <1>4
  <2>2. /\ call'[c].pc = "ended" /\ call'[c].todo = <<>> /\ call'[c].role = call[c].role
        /\ call'[c].reason = "aborted" /\ call'[c].tried = FALSE /\ call'[c].oversize = FALSE
    BY <2>1 DEF Ended, Idle
  <2>3. DOMAIN seen'[c] = Model /\ \A m \in Model : seen'[c][m] # "success"
    BY <1>1, <1>4, SawFacts, ZenonT(40) DEF Saw
  <2>4. EndInv(c)'
    BY <2>2 DEF EndInv
  <2>5. call[c].role \in Role
    BY DEF CallInv, TodoInv
  <2>. QED
    BY <2>2, <2>3, <2>4, <2>5, CallEndsWell
<1>. QED
  BY <1>2, <1>3, <1>4 DEF JudgeAnswer

\* A failure is judged: it is recorded, or the next candidate's turn comes.
LEMMA JudgeFailureKeeps ==
    ASSUME NEW c \in Call, Stepping(c), JudgeFailure(c)
    PROVE  CallInv(c)'
<1>. DOMAIN call = Call /\ DOMAIN call[c] = Field /\ CallInv(c) /\ Shape
  BY DEF Stepping, Shape, CallsInv
<1>. DEFINE s == call[c].status
<1>1. call[c].pc = "judge" /\ seen' = [seen EXCEPT ![c][call[c].model] = s]
  BY DEF JudgeFailure
<1>2. s \in Judged \ {"answer"}
  BY DEF JudgeFailure, Stepping, AttemptInv
<1>3. CASE s \in {"auth", "config", "skipped"} \/ HealthOwns(c)
  <2>1. call'[c] = NextCandidate(c)
    BY <1>3 DEF JudgeFailure
  <2>2. s \in {"auth", "config", "skipped", "unreachable"}
    BY <1>3 DEF HealthOwns
  <2>3. /\ call'[c].pc = "pick" /\ call'[c].oversize = call[c].oversize
        /\ call'[c].role = call[c].role /\ call'[c].todo = call[c].todo
        /\ call'[c].model = NoModel /\ call'[c].tried = call[c].tried
        /\ call'[c].reason = call[c].reason
    BY <2>1 DEF NextCandidate, Field
  <2>4. call[c].oversize \in BOOLEAN
    BY DEF CallInv, FlagsInv
  <2>5. call'[c].oversize = (call[c].oversize \/ s = "oversize")
    BY <2>2, <2>3, <2>4
  <2>. HIDE DEF s
  <2>. QED
    BY <1>1, <2>2, <2>3, <2>5, ToNext
<1>4. CASE s = "oversize"
  <2>1. call'[c] = [NextCandidate(c) EXCEPT !.oversize = TRUE]
    BY <1>4 DEF JudgeFailure, HealthOwns
  <2>2. /\ call'[c].pc = "pick" /\ call'[c].oversize = TRUE
        /\ call'[c].role = call[c].role /\ call'[c].todo = call[c].todo
        /\ call'[c].model = NoModel /\ call'[c].tried = call[c].tried
        /\ call'[c].reason = call[c].reason
    BY <2>1 DEF NextCandidate, Field
  <2>3. call'[c].oversize = (call[c].oversize \/ s = "oversize")
    BY <1>4, <2>2
  <2>. HIDE DEF s
  <2>. QED
    BY <1>1, <1>4, <2>2, <2>3, ToNext
<1>5. CASE s \notin {"auth", "config", "skipped", "oversize"} /\ ~HealthOwns(c)
  <2>1. call'[c] = [call[c] EXCEPT !.pc = "record", !.stamp = clock]
    BY <1>5 DEF JudgeFailure
  <2>2. /\ call'[c].pc = "record" /\ call'[c].status = s
        /\ call'[c].role = call[c].role /\ call'[c].todo = call[c].todo
        /\ call'[c].model = call[c].model /\ call'[c].tried = call[c].tried
        /\ call'[c].oversize = call[c].oversize /\ call'[c].reason = call[c].reason
    BY <2>1 DEF Field
  <2>3. s \in {"failed", "unreachable", "success"}
    BY <1>2, <1>5 DEF Judged
  <2>. HIDE DEF s
  <2>. QED
    BY <1>1, <2>2, <2>3, ToRecord
<1>. QED
  BY <1>3, <1>4, <1>5

\* The outcome is recorded, or its record lost.
LEMMA RecordKeeps ==
    ASSUME NEW c \in Call, Stepping(c), Record(c)
    PROVE  CallInv(c)'
<1>. DOMAIN call = Call /\ DOMAIN call[c] = Field /\ CallInv(c) /\ Shape
  BY DEF Stepping, Shape, CallsInv
<1>1. call[c].pc = "record" /\ UNCHANGED seen
  BY DEF Record
<1>2. /\ call[c].role \in Role /\ DOMAIN seen[c] = Model
      /\ call[c].model \in Model /\ seen[c][call[c].model] = call[c].status
      /\ call[c].status \in {"failed", "unreachable", "success"}
  BY <1>1 DEF CallInv, TodoInv, Busy
<1>3. CASE call[c].status = "success"
  <2>1. call'[c] = Ended(c, "answered")
    BY <1>3 DEF Record
  <2>2. /\ call'[c].pc = "ended" /\ call'[c].todo = <<>> /\ call'[c].role = call[c].role
        /\ call'[c].reason = "answered" /\ call'[c].tried = FALSE /\ call'[c].oversize = FALSE
    BY <2>1 DEF Ended, Idle
  <2>3. \A m \in Model : seen'[c][m] = "success" =>
            \A n \in Model : seen'[c][n] = "success" => n = m
    BY <1>1 DEF CallInv, FlagsInv
  <2>4. Met(c, {"success"})'
    BY <1>1, <1>2, <1>3 DEF Met
  <2>5. EndInv(c)'
    BY <2>2, <2>4 DEF EndInv
  <2>6. DOMAIN seen'[c] = Model
    BY <1>1, <1>2
  <2>. QED
    BY <1>2, <2>2, <2>3, <2>5, <2>6, CallEndsWell
<1>4. CASE call[c].status # "success"
  <2>1. call'[c] = NextCandidate(c)
    BY <1>4 DEF Record
  <2>2. /\ call'[c].pc = "pick" /\ call'[c].oversize = call[c].oversize
        /\ call'[c].role = call[c].role /\ call'[c].todo = call[c].todo
        /\ call'[c].model = NoModel /\ call'[c].tried = call[c].tried
        /\ call'[c].reason = call[c].reason
    BY <2>1 DEF NextCandidate, Field
  <2>3. TodoInv(c)'
    <3>1. \A m \in Range(call[c].todo) : m \in Model /\ m # NoModel
      BY FailoverAssumption DEF CallInv, TodoInv, Range
    <3>. QED
      BY <1>1, <1>2, <2>2, <3>1 DEF CallInv, TodoInv, Busy
  <2>4. FlagsInv(c)'
    <3>1. \A m \in Model : seen[c][m] # "success"
      BY <1>1, <1>2, <1>4 DEF CallInv, FlagsInv
    <3>2. call[c].tried /\ ~AllPaused(c) /\ (call[c].oversize <=> Met(c, {"oversize"}))
      BY <1>1 DEF CallInv, FlagsInv, Busy, Running
    <3>3. (AllPaused(c)' <=> AllPaused(c)) /\ (Met(c, {"oversize"})' <=> Met(c, {"oversize"}))
      BY <1>1 DEF AllPaused, Met
    <3>. QED
      BY <1>1, <2>2, <3>1, <3>2, <3>3 DEF CallInv, FlagsInv, Busy, Running
  <2>5. LooksAtAll(c)'
    <3>. SUFFICES ASSUME edits' = 0, NEW m \in Registered' \cap Capable(call[c].role)
                  PROVE  m \in Range(call[c].todo) \/ seen[c][m] # "no"
      BY <1>1, <2>2 DEF LooksAtAll
    <3>1. edits = 0 /\ m \in Registered
      BY DEF Stepping, Registered
    <3>2. m \in Range(call[c].todo) \/ m = call[c].model \/ seen[c][m] # "no"
      BY <1>1, <3>1 DEF CallInv, LooksAtAll, Running
    <3>. QED
      BY <1>2, <3>2
  <2>6. EndInv(c)'
    BY <1>1, <2>2 DEF CallInv, EndInv
  <2>. QED
    BY <2>3, <2>4, <2>5, <2>6 DEF CallInv
<1>. QED
  BY <1>3, <1>4

\* A call may be killed anywhere.
LEMMA KillKeeps ==
    ASSUME NEW c \in Call, Stepping(c), Kill(c)
    PROVE  CallInv(c)'
<1>. DOMAIN call = Call /\ CallInv(c)
  BY DEF Stepping, Shape, CallsInv
<1>1. call'[c] = Ended(c, "killed")
  BY DEF Kill
<1>2. UNCHANGED seen
  BY DEF Kill
<1>3. /\ call'[c].pc = "ended" /\ call'[c].todo = <<>> /\ call'[c].role = call[c].role
      /\ call'[c].reason = "killed" /\ call'[c].tried = FALSE /\ call'[c].oversize = FALSE
  BY <1>1 DEF Ended, Idle
<1>4. EndInv(c)'
  BY <1>3 DEF EndInv
<1>5. call[c].role \in Role /\ DOMAIN seen[c] = Model
  BY DEF CallInv, TodoInv
<1>6. DOMAIN seen'[c] = Model
  BY <1>2, <1>5
<1>7. \A m \in Model : seen'[c][m] = "success" =>
          \A n \in Model : seen'[c][n] = "success" => n = m
  BY <1>2 DEF CallInv, FlagsInv
<1>. QED
  BY <1>3, <1>4, <1>5, <1>6, <1>7, CallEndsWell

SessionInv == IInv /\ RegistryInv /\ CallsInv

\* Every step keeps what each call knows.
LEMMA StepKeepsCalls ==
    ASSUME SessionInv, AnyStep
    PROVE  SessionInv'
<1>1. IInv' /\ RegistryInv' /\ (edits' = 0 => edits = 0 /\ registry' = registry)
  BY StepKeeps, RegistryKept DEF SessionInv
<1>2. CASE \E c \in Call : Start(c) \/ CallStep(c) \/ Kill(c)
  <2>1. PICK c \in Call : Start(c) \/ CallStep(c) \/ Kill(c)
    BY <1>2
  <2>2. UNCHANGED <<registry, edits>>
    BY <2>1 DEF Start, CallStep, Kill, PassOver, Pick, Exhausted, Refuse, Dispatch, AskAnswered,
                ClearNoted, AskFailed, AskNoConnection, AskBrokenRoute, JudgeAnswer, JudgeFailure,
                Record, registryVars
  <2>3. Stepping(c)
    BY <2>2 DEF Stepping, SessionInv, IInv
  <2>4. CallInv(c)'
    BY <2>1, <2>3, StartKeeps, PassOverKeeps, PickKeeps, ExhaustedKeeps, AttemptKeeps,
       JudgeAnswerKeeps, JudgeFailureKeeps, RecordKeeps, KillKeeps DEF CallStep
  <2>5. \A d \in Call \ {c} : call'[d] = call[d]
    BY <2>1, CallMoves DEF SessionInv, IInv
  <2>6. DOMAIN seen' = Call /\ \A d \in Call \ {c} : seen'[d] = seen[d]
    <3>1. \/ seen' = seen
          \/ \E m, s : seen' = [seen EXCEPT ![c][m] = s]
      BY <2>1 DEF Start, CallStep, Kill, PassOver, Pick, Exhausted, Refuse, Dispatch, AskAnswered,
                  ClearNoted, AskFailed, AskNoConnection, AskBrokenRoute, JudgeAnswer,
                  JudgeFailure, Record, historyVars
    <3>. QED
      BY <3>1 DEF SessionInv, CallsInv
  <2>7. ASSUME NEW d \in Call \ {c}
        PROVE  CallInv(d)'
    BY <1>1, <2>5, <2>6, RestingCall DEF SessionInv, CallsInv
  <2>. QED
    BY <1>1, <2>4, <2>6, <2>7 DEF SessionInv, CallsInv
<1>3. CASE ~ \E c \in Call : Start(c) \/ CallStep(c) \/ Kill(c)
  <2>1. UNCHANGED <<call, seen>>
    BY <1>3 DEF AnyStep, ProbeEnds, ProbeClears, Operator, SetEnabled, Activate, Remove,
                DropLeftovers, Add, Edit, WarmUp, Tick, vars, historyVars
  <2>2. ASSUME NEW d \in Call
        PROVE  CallInv(d)'
    BY <1>1, <2>1, RestingCall DEF SessionInv, CallsInv
  <2>. QED
    BY <1>1, <2>1, <2>2 DEF SessionInv, CallsInv
<1>. QED
  BY <1>2, <1>3

(***************************************************************************)
(* The read and its delegate                                               *)
(*                                                                         *)
(* What the hook saw stays true until another actor meddles: the candidate *)
(* that was not paused is not paused later, so the delegated call does not *)
(* run out of candidates before it tried one.                              *)
(***************************************************************************)

PausedReader(m) == IsOpen(<<m, "bulk-read">>)

\* A delegated call that will not end for want of a candidate.
HasCandidate(c) ==
    /\ call[c].role = "bulk-read"
    /\ \/ call[c].pc = "ended" /\ call[c].reason \notin {"paused", "nocandidates"}
       \/ Running(c) /\ call[c].tried
       \/ call[c].pc = "pick" /\ \E m \in Range(call[c].todo) : ~PausedReader(m)

ReaderShape ==
    /\ DOMAIN reader = {"pc", "ids", "call", "meddled"}
    /\ reader.meddled \in BOOLEAN
    /\ reader.ids \in Seq(Model)
    /\ reader.call \subseteq Call
    /\ reader.call # {} => reader.pc = "waiting"

\* What the hook saw, as long as nobody meddled.
ReaderSaw ==
    ~reader.meddled =>
        /\ reader.pc = "breaker" => reader.ids = Candidates("bulk-read")
        /\ reader.pc = "denied" => \E m \in Usable("bulk-read") : ~PausedReader(m)
        /\ \A c \in reader.call : HasCandidate(c)

ReaderInv == ReaderShape /\ ReaderSaw

\* Without a write, the breaker of a model that is not paused stays so, as time
\* goes by.
LEMMA StaysUnpaused ==
    ASSUME Shape, entry' = entry, clock' = clock \/ clock' = clock + 1,
           NEW m \in Model, ~PausedReader(m)
    PROVE  ~PausedReader(m)'
<1>. DEFINE k == <<m, "bulk-read">>
<1>1. k \in Key
  BY DEF Key, Role
<1>2. entry[k].failures \in Nat /\ entry[k].until \in Nat /\ clock \in Nat /\ Threshold \in Nat
  BY <1>1, FailoverAssumption DEF Shape
<1>. QED
  BY <1>2 DEF PausedReader, IsOpen

\* A delegated call keeps a candidate through its own steps.
LEMMA DelegateSteps ==
    ASSUME NEW c \in Call, Stepping(c), CallStep(c) \/ Kill(c), HasCandidate(c),
           entry' = entry, clock' = clock
    PROVE  HasCandidate(c)'
<1>. DOMAIN call = Call /\ DOMAIN call[c] = Field /\ CallInv(c) /\ Shape
  BY DEF Stepping, Shape, CallsInv
<1>1. call[c].role = "bulk-read"
  BY DEF HasCandidate
<1>2. CASE Kill(c)
  <2>1. call'[c] = Ended(c, "killed")
    BY <1>2 DEF Kill
  <2>2. call'[c].pc = "ended" /\ call'[c].reason = "killed" /\ call'[c].role = "bulk-read"
    BY <1>1, <2>1 DEF Ended, Idle
  <2>. QED
    BY <2>2 DEF HasCandidate
<1>3. CASE PassOver(c)
  <2>. DEFINE s == call[c].todo
              h == Head(s)
              t == Tail(s)
  <2>1. s \in Seq(Model) /\ s # <<>> /\ IsInjective(s) /\ call[c].pc = "pick"
    BY <1>3 DEF PassOver, CallInv, TodoInv
  <2>2. h \in Model /\ t \in Seq(Model) /\ Range(s) = {h} \cup Range(t)
    BY <2>1, HeadFacts
  <2>3. /\ call'[c].pc = "pick" /\ call'[c].todo = t /\ call'[c].role = call[c].role
        /\ call'[c].tried = call[c].tried
    BY <1>3 DEF PassOver, Field
  <2>4. PausedReader(h)
    BY <1>1, <1>3 DEF PassOver, PausedReader
  <2>5. call[c].tried \/ \E m \in Range(s) : ~PausedReader(m)
    BY <2>1 DEF HasCandidate
  <2>. HIDE DEF s, h, t
  <2>6. Range(t) \subseteq Model
    BY <2>2 DEF Range
  <2>7. ASSUME NEW m \in Range(s), ~PausedReader(m)
        PROVE  m \in Range(t) /\ ~PausedReader(m)'
    <3>1. m \in Range(t) /\ m \in Model
      BY <2>2, <2>4, <2>6, <2>7
    <3>. QED
      BY <2>7, <3>1, StaysUnpaused
  <2>. QED
    BY <1>1, <2>1, <2>3, <2>5, <2>7 DEF HasCandidate, Running
<1>4. CASE Pick(c)
  <2>1. call'[c].pc = "dispatch" /\ call'[c].role = call[c].role /\ call'[c].tried = TRUE
    BY <1>4 DEF Pick, Field
  <2>. QED
    BY <1>1, <2>1 DEF HasCandidate, Running
<1>5. CASE Exhausted(c)
  <2>1. call[c].pc = "pick" /\ call[c].todo = <<>>
    BY <1>5 DEF Exhausted
  <2>2. call[c].tried
    BY <2>1 DEF HasCandidate, Range
  <2>3. call'[c] = Ended(c, IF call[c].oversize THEN "nodelegate" ELSE "allfailed")
    BY <1>5, <2>2 DEF Exhausted
  <2>4. /\ call'[c].pc = "ended" /\ call'[c].role = "bulk-read"
        /\ call'[c].reason \in {"nodelegate", "allfailed"}
    BY <1>1, <2>3 DEF Ended, Idle
  <2>. QED
    BY <2>4 DEF HasCandidate
<1>6. ASSUME call[c].pc \in Busy,
             \/ /\ call'[c].pc \in Busy \cup {"pick"} /\ call'[c].tried = call[c].tried
                /\ call'[c].role = call[c].role
             \/ call'[c] \in {Ended(c, "aborted"), Ended(c, "answered")}
      PROVE  HasCandidate(c)'
  <2>1. call[c].tried
    BY <1>6 DEF CallInv, FlagsInv
  <2>2. CASE /\ call'[c].pc \in Busy \cup {"pick"} /\ call'[c].tried = call[c].tried
             /\ call'[c].role = call[c].role
    BY <1>1, <2>1, <2>2 DEF HasCandidate, Running, Busy
  <2>3. CASE call'[c] \in {Ended(c, "aborted"), Ended(c, "answered")}
    <3>1. /\ call'[c].pc = "ended" /\ call'[c].role = "bulk-read"
          /\ call'[c].reason \in {"aborted", "answered"}
      BY <1>1, <2>3 DEF Ended, Idle
    <3>. QED
      BY <3>1 DEF HasCandidate
  <2>. QED
    BY <1>6, <2>2, <2>3
<1>7. CASE Refuse(c)
  BY <1>6, <1>7 DEF Refuse, Field, Busy
<1>8. CASE Dispatch(c)
  <2>1. /\ call[c].pc = "dispatch"
        /\ \/ call'[c] = [call[c] EXCEPT !.pc = "judge", !.status = "skipped"]
           \/ call'[c] = [call[c] EXCEPT !.pc = "ask",
                              !.gated = call[c].model \in Registered \cap HealthChecked]
    BY <1>8 DEF Dispatch
  <2>2. /\ call'[c].pc \in {"judge", "ask"} /\ call'[c].tried = call[c].tried
        /\ call'[c].role = call[c].role
    <3>1. CASE call'[c] = [call[c] EXCEPT !.pc = "judge", !.status = "skipped"]
      BY <3>1 DEF Field
    <3>2. CASE call'[c] = [call[c] EXCEPT !.pc = "ask",
                               !.gated = call[c].model \in Registered \cap HealthChecked]
      BY <3>2 DEF Field
    <3>. QED
      BY <2>1, <3>1, <3>2
  <2>. QED
    BY <1>6, <2>1, <2>2 DEF Busy
<1>9. CASE AskAnswered(c) \/ ClearNoted(c)
  <2>1. /\ call[c].pc \in {"ask", "note"} /\ call'[c].pc \in {"ask", "note", "judge"}
        /\ call'[c].tried = call[c].tried /\ call'[c].role = call[c].role
    BY <1>9 DEF AskAnswered, ClearNoted, Field
  <2>. QED
    BY <1>6, <2>1 DEF Busy
<1>10. CASE AskFailed(c) \/ AskNoConnection(c) \/ AskBrokenRoute(c)
  <2>1. /\ call[c].pc = "ask" /\ call'[c].pc = "judge"
        /\ call'[c].tried = call[c].tried /\ call'[c].role = call[c].role
    BY <1>10 DEF AskFailed, AskNoConnection, AskBrokenRoute, Field
  <2>. QED
    BY <1>6, <2>1 DEF Busy
<1>11. CASE JudgeAnswer(c)
  <2>1. /\ call[c].pc = "judge"
        /\ \/ /\ call'[c].pc = "record" /\ call'[c].tried = call[c].tried
              /\ call'[c].role = call[c].role
           \/ call'[c] = Ended(c, "aborted")
    BY <1>11 DEF JudgeAnswer, Field
  <2>. QED
    BY <1>6, <2>1 DEF Busy
<1>12. CASE JudgeFailure(c) \/ Record(c)
  <2>1. /\ call[c].pc \in {"judge", "record"}
        /\ \/ call'[c] = [call[c] EXCEPT !.pc = "record", !.stamp = clock]
           \/ call'[c] \in {NextCandidate(c), [NextCandidate(c) EXCEPT !.oversize = TRUE]}
           \/ call'[c] = Ended(c, "answered")
    BY <1>12 DEF JudgeFailure, Record
  <2>2. \/ /\ call'[c].pc \in Busy \cup {"pick"} /\ call'[c].tried = call[c].tried
           /\ call'[c].role = call[c].role
        \/ call'[c] = Ended(c, "answered")
    BY <2>1 DEF Field, Busy, NextCandidate
  <2>. QED
    BY <1>6, <2>1, <2>2 DEF Busy
<1>. QED
  BY <1>2, <1>3, <1>4, <1>5, <1>7, <1>8, <1>9, <1>10, <1>11, <1>12 DEF CallStep

\* What anyone but the reader does leaves the read where it is, and is noted
\* if it may change what the hook saw.
LEMMA OthersKeepReader ==
    ASSUME SessionInv, ReaderInv, Others
    PROVE  ReaderInv'
<1>. Shape /\ AttemptInv /\ CallsInv /\ RegistryInv
  BY DEF SessionInv, IInv
<1>1. ReaderShape' /\ reader'.pc = reader.pc /\ reader'.ids = reader.ids /\ reader'.call = reader.call
  BY DEF ReaderInv, ReaderShape, Others, Meddling
<1>. SUFFICES ASSUME ~reader'.meddled
              PROVE  /\ reader.pc = "breaker" => reader.ids = Candidates("bulk-read")'
                     /\ reader.pc = "denied" => \E m \in Usable("bulk-read")' : ~PausedReader(m)'
                     /\ \A c \in reader.call : HasCandidate(c)'
  BY <1>1 DEF ReaderInv, ReaderSaw
<1>2. ~reader.meddled
  BY DEF Others, Meddling, ReaderInv, ReaderShape
<1>3. CASE reader.pc \in {"idle", "served"}
  BY <1>3 DEF ReaderInv, ReaderShape
<1>4. CASE reader.pc \notin {"idle", "served"}
  <2>1. registryVars' = registryVars /\ entry' = entry
    <3>1. <<registryVars, entry>>' = <<registryVars, entry>>
      BY <1>4 DEF Others, Meddling, ReaderInv, ReaderShape
    <3>. QED
      BY <3>1
  <2>2. UNCHANGED <<registry, enabled, active, edits>>
    BY <2>1 DEF registryVars
  <2>3. Candidates("bulk-read")' = Candidates("bulk-read") /\ Usable("bulk-read")' = Usable("bulk-read")
    BY <2>2 DEF Candidates, Usable, Registered
  <2>4. clock' = clock \/ (clock' = clock + 1 /\ call' = call)
    BY ZenonT(40) DEF Others, OtherCall, Start, CallStep, Kill, PassOver, Pick, Exhausted, Refuse, Dispatch,
           AskAnswered, ClearNoted, AskFailed, AskNoConnection, AskBrokenRoute, JudgeAnswer,
           JudgeFailure, Record, ProbeEnds, ProbeClears, Operator, SetEnabled, Activate, Remove,
           DropLeftovers, Add, Edit, WarmUp, Tick
  <2>5. Usable("bulk-read") \subseteq Model
    BY DEF Usable, Registered, RegistryInv, Range
  <2>6. \A m \in Model : ~PausedReader(m) => ~PausedReader(m)'
    BY <2>1, <2>4, StaysUnpaused
  <2>7. ASSUME NEW d \in reader.call
        PROVE  HasCandidate(d)'
    <3>1. HasCandidate(d) /\ d \in Call
      BY <1>2 DEF ReaderInv, ReaderShape, ReaderSaw
    <3>2. CASE call'[d] = call[d]
      <4>1. Range(call[d].todo) \subseteq Model
        BY <3>1 DEF CallsInv, CallInv, TodoInv, Range
      <4>. QED
        BY <2>6, <3>1, <3>2, <4>1 DEF HasCandidate, Running
    <3>3. CASE call'[d] # call[d]
      <4>1. PICK c \in Call : Start(c) \/ CallStep(c) \/ Kill(c)
        BY <3>3 DEF Others, OtherCall, ProbeEnds, ProbeClears, Operator, SetEnabled, Activate,
                    Remove, DropLeftovers, Add, Edit, WarmUp, Tick
      <4>2. c = d
        BY <3>1, <3>3, <4>1, CallMoves
      <4>3. ~Start(d)
        BY <3>1 DEF Start, HasCandidate, Running
      <4>4. clock' = clock
        BY <4>1 DEF Start, CallStep, Kill, PassOver, Pick, Exhausted, Refuse, Dispatch,
                    AskAnswered, ClearNoted, AskFailed, AskNoConnection, AskBrokenRoute,
                    JudgeAnswer, JudgeFailure, Record
      <4>5. Stepping(d)
        BY <2>2 DEF Stepping
      <4>. QED
        BY <2>1, <3>1, <4>1, <4>2, <4>3, <4>4, <4>5, DelegateSteps
    <3>. QED
      BY <3>2, <3>3
  <2>8. (reader.pc = "breaker" => reader.ids = Candidates("bulk-read"))
        /\ (reader.pc = "denied" => \E m \in Usable("bulk-read") : ~PausedReader(m))
    BY <1>2 DEF ReaderInv, ReaderSaw
  <2>. QED
    BY <2>3, <2>5, <2>6, <2>7, <2>8
<1>. QED
  BY <1>3, <1>4

\* The reader's own steps.
LEMMA ReaderKeeps ==
    ASSUME SessionInv, ReaderInv, ReaderStep
    PROVE  ReaderInv'
<1>. Shape /\ AttemptInv /\ CallsInv /\ RegistryInv
  BY DEF SessionInv, IInv
<1>0. DOMAIN reader = {"pc", "ids", "call", "meddled"} /\ <<>> \in Seq(Model)
  BY DEF ReaderInv, ReaderShape
<1>1. ASSUME reader' \in {NoRead, Served, [NoRead EXCEPT !.pc = "ids"]}
      PROVE  ReaderInv'
  <2>1. /\ DOMAIN reader' = {"pc", "ids", "call", "meddled"} /\ reader'.ids = <<>>
        /\ reader'.call = {} /\ reader'.meddled = FALSE /\ reader'.pc \in {"idle", "served", "ids"}
    BY <1>1 DEF NoRead, Served
  <2>. QED
    BY <1>0, <2>1 DEF ReaderInv, ReaderShape, ReaderSaw
<1>2. CASE decide_read \/ FailOpen \/ CallOver
  BY <1>1, <1>2 DEF decide_read, FailOpen, CallOver
<1>3. CASE ReadCandidates
  <2>. DEFINE ids == Candidates("bulk-read")
  <2>1. CASE ids = <<>>
    BY <1>1, <1>3, <2>1 DEF ReadCandidates
  <2>2. CASE ids # <<>>
    <3>1. ids \in Seq(Model) /\ ids' = ids
      BY <1>3, CandidatesFacts DEF ReadCandidates, vars, registryVars, Candidates, Usable, Registered
    <3>2. reader' = [reader EXCEPT !.ids = ids, !.pc = "breaker"]
      BY <1>3, <2>2 DEF ReadCandidates
    <3>3. reader.call = {}
      BY <1>3 DEF ReadCandidates, ReaderInv, ReaderShape
    <3>. HIDE DEF ids
    <3>4. /\ DOMAIN reader' = {"pc", "ids", "call", "meddled"} /\ reader'.pc = "breaker"
          /\ reader'.ids = ids /\ reader'.call = {} /\ reader'.meddled = reader.meddled
      BY <1>0, <3>2, <3>3
    <3>5. ReaderShape'
      BY <3>1, <3>4 DEF ReaderInv, ReaderShape
    <3>6. ReaderSaw'
      BY <3>1, <3>4 DEF ReaderSaw, ids
    <3>. QED
      BY <3>5, <3>6 DEF ReaderInv
  <2>. QED
    BY <2>1, <2>2
<1>4. CASE ReadBreaker
  <2>1. CASE any_closed(reader.ids, "bulk-read")
    <3>1. reader' = [reader EXCEPT !.ids = <<>>, !.pc = "denied"] /\ reader.call = {}
      BY <1>4, <2>1 DEF ReadBreaker, ReaderInv, ReaderShape
    <3>2. UNCHANGED <<registry, enabled, active, entry, clock>>
      BY <1>4 DEF ReadBreaker, vars, registryVars
    <3>3. /\ DOMAIN reader' = {"pc", "ids", "call", "meddled"} /\ reader'.pc = "denied"
          /\ reader'.ids = <<>> /\ reader'.call = {} /\ reader'.meddled = reader.meddled
      BY <1>0, <3>1
    <3>4. ReaderShape'
      BY <1>0, <3>3 DEF ReaderInv, ReaderShape
    <3>5. ASSUME ~reader.meddled
          PROVE  \E m \in Usable("bulk-read") : ~PausedReader(m)
      <4>1. reader.ids = Candidates("bulk-read")
        BY <1>4, <3>5 DEF ReadBreaker, ReaderInv, ReaderSaw
      <4>2. \E m \in Range(reader.ids) : ~PausedReader(m)
        BY <2>1 DEF any_closed, PausedReader, Range
      <4>. QED
        BY <4>1, <4>2, CandidatesFacts
    <3>6. Usable("bulk-read")' = Usable("bulk-read")
      BY <3>2 DEF Usable, Registered
    <3>7. \A m : PausedReader(m)' <=> PausedReader(m)
      BY <3>2 DEF PausedReader, IsOpen
    <3>8. ReaderSaw'
      BY <3>3, <3>5, <3>6, <3>7 DEF ReaderSaw
    <3>. QED
      BY <3>4, <3>8 DEF ReaderInv
  <2>2. CASE ~any_closed(reader.ids, "bulk-read")
    BY <1>1, <1>4, <2>2 DEF ReadBreaker
  <2>. QED
    BY <2>1, <2>2
<1>5. ASSUME NEW c \in Call, Delegate(c)
      PROVE  ReaderInv'
  <2>1. /\ reader.pc = "denied" /\ Start(c) /\ call'[c].role = "bulk-read"
        /\ reader' = [reader EXCEPT !.pc = "waiting", !.call = {c}]
    BY <1>5 DEF Delegate
  <2>2. /\ DOMAIN reader' = {"pc", "ids", "call", "meddled"} /\ reader'.pc = "waiting"
        /\ reader'.ids = reader.ids /\ reader'.call = {c} /\ reader'.meddled = reader.meddled
    BY <1>0, <2>1
  <2>3. ReaderShape'
    BY <2>2 DEF ReaderInv, ReaderShape
  <2>4. ASSUME ~reader.meddled
        PROVE  HasCandidate(c)'
    <3>1. PICK m \in Usable("bulk-read") : ~PausedReader(m)
      BY <2>1, <2>4 DEF ReaderInv, ReaderSaw
    <3>2. PICK r \in Role : call'[c] =
             IF Candidates(r) = <<>>
                 THEN [Ended(c, "nocandidates") EXCEPT !.role = r]
                 ELSE [Idle EXCEPT !.pc = "pick", !.role = r, !.todo = Candidates(r)]
      BY <2>1 DEF Start, Shape
    <3>3. r = "bulk-read"
      BY <2>1, <3>2 DEF Ended, Idle
    <3>4. m \in Range(Candidates(r))
      BY <3>1, <3>3, CandidatesFacts
    <3>5. Candidates(r) # <<>>
      BY <3>4 DEF Range
    <3>6. call'[c] = [Idle EXCEPT !.pc = "pick", !.role = r, !.todo = Candidates(r)]
      BY <3>2, <3>5
    <3>7. call'[c].pc = "pick" /\ call'[c].todo = Candidates(r)
      BY <3>6 DEF Idle
    <3>8. PausedReader(m)' <=> PausedReader(m)
      BY <2>1 DEF Start, PausedReader, IsOpen
    <3>. QED
      BY <2>1, <3>1, <3>4, <3>7, <3>8 DEF HasCandidate
  <2>5. ReaderSaw'
    BY <2>2, <2>4 DEF ReaderSaw
  <2>. QED
    BY <2>3, <2>5 DEF ReaderInv
<1>. QED
  BY <1>2, <1>3, <1>4, <1>5 DEF ReaderStep

\* At first nothing has been read and no call has started.
LEMMA SessionBegins == GateInit => SessionInv /\ ReaderInv
<1>. SUFFICES ASSUME GateInit PROVE SessionInv /\ ReaderInv
  OBVIOUS
<1>1. Init /\ reader = NoRead
  BY DEF GateInit
<1>2. IInv
  BY <1>1, InitKeeps
<1>3. /\ call = [c \in Call |-> Idle] /\ edits = 0 /\ enabled = Model
      /\ seen = [c \in Call |-> [m \in Model |-> "no"]]
  BY <1>1 DEF Init
<1>4. PICK seed \in Seeds : registry = seed.registry
  BY <1>1 DEF Init
<1>5. RegistryInv
  BY <1>3, <1>4, FailoverAssumption DEF RegistryInv
<1>6. ASSUME NEW c \in Call
      PROVE  CallInv(c)
  <2>1. /\ call[c].pc = "idle" /\ call[c].todo = <<>> /\ call[c].role \in Role
        /\ call[c].reason = "none" /\ call[c].tried = FALSE /\ call[c].oversize = FALSE
    BY <1>3 DEF Idle, Role
  <2>2. DOMAIN seen[c] = Model /\ \A m \in Model : seen[c][m] = "no"
    BY <1>3
  <2>3. TodoInv(c)
    BY <2>1, <2>2 DEF TodoInv, Busy, Range, IsInjective
  <2>4. FlagsInv(c)
    BY <2>1, <2>2 DEF FlagsInv, Busy, Running
  <2>5. LooksAtAll(c) /\ EndInv(c)
    BY <2>1 DEF LooksAtAll, EndInv, Running
  <2>. QED
    BY <2>3, <2>4, <2>5 DEF CallInv
<1>7. DOMAIN seen = Call
  BY <1>3
<1>8. ReaderInv
  BY <1>1 DEF ReaderInv, ReaderShape, ReaderSaw, NoRead
<1>. QED
  BY <1>2, <1>5, <1>6, <1>7, <1>8 DEF SessionInv, CallsInv

\* Every step of a session keeps what calls and reader know.
LEMMA SessionSteps ==
    ASSUME SessionInv, ReaderInv, [GateNext]_gateVars
    PROVE  SessionInv' /\ ReaderInv'
<1>1. SessionInv'
  BY GateSteps, StepKeepsCalls
<1>2. CASE UNCHANGED gateVars
  <2>1. UNCHANGED <<registry, enabled, active, entry, clock, call, reader>>
    BY <1>2 DEF gateVars, vars, registryVars
  <2>2. /\ Candidates("bulk-read")' = Candidates("bulk-read")
        /\ Usable("bulk-read")' = Usable("bulk-read")
    BY <2>1 DEF Candidates, Usable, Registered
  <2>3. /\ \A m : PausedReader(m)' <=> PausedReader(m)
        /\ \A c : HasCandidate(c)' <=> HasCandidate(c)
    BY <2>1 DEF HasCandidate, PausedReader, IsOpen, Running
  <2>4. ReaderShape' /\ ReaderSaw'
    BY <2>1, <2>2, <2>3 DEF ReaderInv, ReaderShape, ReaderSaw
  <2>. QED
    BY <1>1, <2>4 DEF ReaderInv
<1>. QED
  BY <1>1, <1>2, OthersKeepReader, ReaderKeeps DEF GateNext

\* What calls know of their candidates is the reason they end with.
LEMMA KnownReasons == SessionInv => ReasonHonest
<1>. SUFFICES ASSUME SessionInv, NEW c \in Call
              PROVE  LET why == call[c].reason
                         With(s) == {m \in Model : seen[c][m] \in s}
                         tried == Model \ With({"no", "paused"})
                     IN  /\ why = "paused" => tried = {} /\ With({"paused"}) # {}
                         /\ why = "nodelegate" => With({"oversize"}) # {}
                         /\ why = "allfailed" => tried # {} /\ With({"oversize"}) = {}
                         /\ why = "answered" => Cardinality(With({"success"})) = 1
                         /\ why \in {"nodelegate", "allfailed"} => With({"success"}) = {}
                         /\ why \in {"paused", "nodelegate", "allfailed"} /\ edits = 0
                               => Capable(call[c].role) \cap Registered \subseteq Model \ With({"no"})
  BY DEF ReasonHonest
<1>. DEFINE why == call[c].reason
            With(s) == {m \in Model : seen[c][m] \in s}
            tried == Model \ With({"no", "paused"})
<1>. TodoInv(c) /\ FlagsInv(c) /\ EndInv(c) /\ RegistryInv
  BY DEF SessionInv, CallsInv, CallInv
<1>1. why = "paused" => tried = {} /\ With({"paused"}) # {}
  BY DEF EndInv, AllPaused, Met
<1>2. why = "nodelegate" => With({"oversize"}) # {}
  BY DEF EndInv, Met
<1>3. why = "allfailed" => tried # {} /\ With({"oversize"}) = {}
  BY DEF EndInv, AllPaused, Met
<1>4. why = "answered" => Cardinality(With({"success"})) = 1
  <2>. SUFFICES ASSUME why = "answered" PROVE Cardinality(With({"success"})) = 1
    OBVIOUS
  <2>1. PICK m \in Model : seen[c][m] = "success"
    BY DEF EndInv, Met
  <2>2. \A n \in Model : seen[c][n] = "success" => n = m
    BY <2>1 DEF FlagsInv
  <2>3. With({"success"}) = {m}
    BY <2>1, <2>2
  <2>. QED
    BY <2>3, FS_Singleton
<1>5. why \in {"nodelegate", "allfailed"} => With({"success"}) = {}
  <2>1. why # "none" => call[c].pc = "ended"
    BY DEF EndInv
  <2>. QED
    BY <2>1 DEF FlagsInv
<1>6. why \in {"paused", "nodelegate", "allfailed"} /\ edits = 0
          => Capable(call[c].role) \cap Registered \subseteq Model \ With({"no"})
  <2>1. Registered \subseteq Model
    BY DEF RegistryInv, Registered, Range
  <2>. QED
    BY <2>1 DEF EndInv
<1>. QED
  BY <1>1, <1>2, <1>3, <1>4, <1>5, <1>6

\* A delegate that has a candidate is not sent back for want of one.
LEMMA KnownDelegates == SessionInv /\ ReaderInv => DeniedHasDelegate
<1>. SUFFICES ASSUME SessionInv, ReaderInv, NEW c \in reader.call, ~reader.meddled
              PROVE  call[c].reason \notin {"paused", "nocandidates"}
  BY DEF DeniedHasDelegate, ReaderInv, ReaderShape
<1>1. HasCandidate(c) /\ EndInv(c)
  BY DEF ReaderInv, ReaderShape, ReaderSaw, SessionInv, CallsInv, CallInv
<1>. QED
  BY <1>1 DEF HasCandidate, EndInv, Running

\* A model the hook does not find paused has failed less often, is excused, or
\* its rest is over.
LEMMA KnownStrands ==
    ASSUME SessionInv, ReaderInv, [GateNext]_gateVars,
           reader.pc = "breaker", reader'.pc = "denied"
    PROVE  \E i \in DOMAIN reader.ids :
              LET k == <<reader.ids[i], "bulk-read">>
              IN  \/ k[1] \in HealthChecked
                  \/ k \in excused
                  \/ blame[k] < Threshold
                  \/ \E c \in Call : KeyOf(c) = k
                  \/ clock >= entry[k].until
<1>1. ~Others /\ ~UNCHANGED gateVars
  BY DEF Others, Meddling, gateVars, ReaderInv, ReaderShape
<1>2. ReadBreaker
  BY <1>1 DEF GateNext, ReaderStep, decide_read, ReadCandidates, FailOpen, CallOver, Delegate,
              Served, NoRead
<1>3. PICK i \in DOMAIN reader.ids : ~IsOpen(<<reader.ids[i], "bulk-read">>)
  BY <1>2 DEF ReadBreaker, any_closed, Served, NoRead
<1>. DEFINE k == <<reader.ids[i], "bulk-read">>
<1>4. reader.ids[i] \in Model
  BY DEF ReaderInv, ReaderShape
<1>5. k \in Key
  BY <1>4 DEF Key, Role
<1>6. /\ entry[k].failures \in Nat /\ entry[k].until \in Nat /\ clock \in Nat
      /\ blame[k] \in Nat /\ Threshold \in Nat
  BY <1>5, FailoverAssumption DEF SessionInv, IInv, Shape
<1>7. FailuresPause
  BY PaidPauses DEF SessionInv
<1>8. entry[k].failures < Threshold \/ clock >= entry[k].until
  BY <1>3, <1>6 DEF IsOpen
<1>9. \/ k[1] \in HealthChecked \/ k \in excused \/ \E c \in Call : KeyOf(c) = k
      \/ blame[k] < Threshold \/ entry[k].failures >= Threshold
  BY <1>5, <1>6, <1>7 DEF FailuresPause, FailuresAddUp
<1>. QED
  BY <1>6, <1>8, <1>9

(***************************************************************************)
(* The theorems                                                            *)
(***************************************************************************)

\* The accounts of run_role and record_failure (failover.py:59-69) balance when
\* calls run among themselves.
THEOREM CallsInductive == Spec => []IInv
<1>1. IInv /\ [Next]_vars => IInv'
  BY StepKeeps, NextSteps
<1>. QED
  BY <1>1, InitKeeps, PTL DEF Spec

\* They balance in a whole session, with probes, gate and operator.
THEOREM SessionInductive == GateSpec => []IInv
<1>1. IInv /\ [GateNext]_gateVars => IInv'
  BY StepKeeps, GateSteps
<1>2. GateInit => IInv
  BY InitKeeps DEF GateInit
<1>. QED
  BY <1>1, <1>2, PTL DEF GateSpec

\* However many calls, probes, removed and re-added models there are, the
\* breaker never counts more failures of a model than its attempts earned:
\* what does not count (failover.py:155-163) never pauses it.
THEOREM CountsEarned == GateSpec => []CountsAreEarned
  BY SessionInductive, EarnedCounts, PTL

\* The failures of a model without a healthcheck add up to a pause under any
\* number of calls of both roles.
THEOREM PausesAddUp == Spec => []FailuresPause
  BY CallsInductive, PaidPauses, PTL

\* And so they do in a whole session, whatever probes and operator do.
THEOREM SessionPausesAddUp == GateSpec => []FailuresPause
  BY SessionInductive, PaidPauses, PTL

\* Calls of one role never move the breaker of another.
THEOREM RolesStayApart == Spec => RolesApart
<1>1. IInv /\ [Next]_vars =>
        [\A k \in Key : entry'[k] # entry[k] =>
          \/ \E c \in Call : /\ KeyOf(c) = k /\ call[c].pc = "record"
                              /\ call'[c].pc # "record"
          \/ \E c \in Call : call[c].model = k[1] /\ call[c].pc = "note"
          \/ probe[k[1]] = "clearing"
          \/ k[1] \in leftovers]_vars
  BY StepsApart, NextSteps
<1>. QED
  BY <1>1, CallsInductive, PTL DEF Spec, RolesApart

\* Calls and reader keep what they know.
THEOREM SessionKnows == GateSpec => [](SessionInv /\ ReaderInv)
<1>1. (SessionInv /\ ReaderInv) /\ [GateNext]_gateVars => (SessionInv /\ ReaderInv)'
  BY SessionSteps
<1>. QED
  BY <1>1, SessionBegins, PTL DEF GateSpec

\* The reason run_role gives up with (failover.py:164-169) is the truth about
\* every candidate, however the registry and the breaker move meanwhile.
THEOREM ReasonsAreHonest == GateSpec => []ReasonHonest
  BY SessionKnows, KnownReasons, PTL

\* A read that check-file-size denies (hooks.py:146-178) is sent to a call that
\* finds a candidate which is not paused, unless another actor changed the
\* registry or the breaker in between.
THEOREM DeniedReadsHaveDelegates == GateSpec => []DeniedHasDelegate
  BY SessionKnows, KnownDelegates, PTL

\* And it is never denied while the failures that count keep every candidate
\* paused.
THEOREM NobodyIsStranded == GateSpec => NotStranded
<1>1. SessionInv /\ ReaderInv /\ [GateNext]_gateVars =>
        [reader.pc = "breaker" /\ reader'.pc = "denied" =>
          \E i \in DOMAIN reader.ids :
              LET k == <<reader.ids[i], "bulk-read">>
              IN  \/ k[1] \in HealthChecked
                  \/ k \in excused
                  \/ blame[k] < Threshold
                  \/ \E c \in Call : KeyOf(c) = k
                  \/ clock >= entry[k].until]_gateVars
  BY KnownStrands
<1>. QED
  BY <1>1, SessionKnows, PTL DEF GateSpec, NotStranded
=============================================================================
