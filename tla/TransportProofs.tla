--------------------------- MODULE TransportProofs ---------------------------
(***************************************************************************)
(* Proofs about the two transports: HttpCall, an attempt over HTTP, with   *)
(* HttpExchange, one request of it, and ChildProcess, one call through the *)
(* OpenCode CLI.                                                           *)
(*                                                                         *)
(* HttpCall: what an attempt says of its time is true, its answer is about *)
(* the whole input, and the merge asks neither too much nor too often, for *)
(* every limit, total deadline, number of chunks, size of an answer and    *)
(* length of a second.  A window is fixed once, and its request goes out   *)
(* later, after the key was read.  WindowSound says what the rounding to   *)
(* whole seconds gives at that moment; Timed carries it to the moment the  *)
(* window is over.  MergeInv says what the partial answers are about, and  *)
(* how many requests are left.                                             *)
(***************************************************************************)
EXTENDS HttpCall, HttpExchange, ChildProcess, NaturalsInduction, WellFoundedInduction, SequenceTheorems, TLAPS

(***************************************************************************)
(* Seconds and ticks                                                       *)
(***************************************************************************)

\* A number of ticks is rounded up by less than a second.
LEMMA UpRounds ==
    ASSUME NEW n \in Nat
    PROVE  /\ Up(n) \in Nat
           /\ n <= Up(n) * TicksPerSecond
           /\ Up(n) * TicksPerSecond < n + TicksPerSecond
<1>1. TicksPerSecond \in Nat /\ TicksPerSecond > 0
  BY HttpCallAssumption
<1> DEFINE d == TicksPerSecond
           m == n + d - 1
<1>2. m \in Nat /\ Up(n) = m \div d
  BY <1>1 DEF Up
<1>3. m \div d \in Nat /\ d * (m \div d) <= m /\ m < d * (m \div d) + d
  <2> HIDE DEF m, d
  <2>1. d \in Nat /\ d > 0
    BY <1>1 DEF d
  <2>. QED
    BY <1>2, <2>1
<1>. QED
  BY <1>1, <1>2, <1>3

\* More seconds are more ticks.
LEMMA MoreSeconds ==
    ASSUME NEW a \in Nat, NEW b \in Nat, a <= b
    PROVE  a * TicksPerSecond \in Nat /\ a * TicksPerSecond <= b * TicksPerSecond
  BY HttpCallAssumption

\* The smaller one of two numbers.
LEMMA MinOfTwo ==
    ASSUME NEW a \in Nat, NEW b \in Nat
    PROVE  Min({a, b}) \in {a, b} /\ Min({a, b}) <= a /\ Min({a, b}) <= b
  BY DEF Min

\* request_time: a window that is cut lasts to the deadline, one that is not
\* is the limit, and neither lasts a second longer than the deadline.
LEMMA WindowSound ==
    ASSUME limit \in Nat, total \in Nat, clock \in Nat, total > 0 => clock < End
    PROVE  /\ Window.time \in Nat /\ Window.capped \in BOOLEAN
           /\ DOMAIN Window = {"time", "capped"}
           /\ Window.capped => total > 0 /\ clock + Window.time >= End
           /\ ~Window.capped => Window.time = limit
           /\ total > 0 => /\ Window.time > 0
                           /\ clock + Window.time < End + TicksPerSecond
<1>1. TicksPerSecond \in Nat /\ TicksPerSecond > 0 /\ End \in Nat
  BY HttpCallAssumption DEF End
<1>2. CASE total = 0
  BY <1>2 DEF Window
<1>3. CASE total > 0
  <2> DEFINE left == End - clock
             seconds == Min({Up(left), total})
  <2>1. left \in Nat /\ left > 0 /\ left <= End
    BY <1>1, <1>3
  <2>2. /\ Up(left) \in Nat /\ left <= Up(left) * TicksPerSecond
        /\ Up(left) * TicksPerSecond < left + TicksPerSecond
    BY <2>1, UpRounds
  <2>3. Up(left) > 0
    BY <1>1, <2>1, <2>2
  <2>4. seconds \in Nat /\ seconds > 0 /\ seconds <= Up(left) /\ seconds \in {Up(left), total}
    BY <1>3, <2>2, <2>3, MinOfTwo
  <2>5. /\ seconds * TicksPerSecond \in Nat
        /\ seconds * TicksPerSecond <= Up(left) * TicksPerSecond
    BY <2>2, <2>4, MoreSeconds
  <2>6. left <= seconds * TicksPerSecond
    BY <1>1, <2>1, <2>2, <2>4 DEF End
  <2>7. CASE limit = 0 \/ seconds < Up(limit)
    <3>1. Window = [time |-> seconds * TicksPerSecond, capped |-> TRUE]
      BY <1>3, <2>7 DEF Window
    <3>. QED
      BY <1>1, <1>3, <2>1, <2>2, <2>5, <2>6, <3>1
  <2>8. CASE ~(limit = 0 \/ seconds < Up(limit))
    <3>1. Window = [time |-> limit, capped |-> FALSE]
      BY <1>3, <2>8 DEF Window
    <3>2. Up(limit) \in Nat /\ limit <= Up(limit) * TicksPerSecond /\ Up(limit) <= seconds
      BY <2>4, <2>8, UpRounds
    <3>3. Up(limit) * TicksPerSecond <= seconds * TicksPerSecond
      BY <2>4, <3>2, MoreSeconds
    <3>4. limit <= seconds * TicksPerSecond
      BY <1>1, <2>5, <3>2, <3>3
    <3>. QED
      BY <1>1, <1>3, <2>1, <2>2, <2>5, <2>8, <3>1, <3>4
  <2>. QED
    BY <2>7, <2>8
<1>. QED
  BY <1>2, <1>3

(***************************************************************************)
(* The inductive invariant                                                 *)
(***************************************************************************)

Fields == {"pc", "window", "sent", "haveKey", "healthy", "noted", "parts", "out", "group", "next",
           "depth", "requests", "usage", "status"}

Shape ==
    /\ limit \in Nat /\ total \in Nat /\ clock \in Nat
    /\ DOMAIN call = Fields
    /\ call.sent \in Nat /\ call.requests \in Nat
    /\ call.window.time \in Nat

\* A status is given once, at the end.
Running == call.status = "none" \/ At("ended")

\* The window from the moment it counts: now, or when the request went out.
Timed(start, slack) ==
    /\ call.window.capped => total > 0 /\ start + call.window.time >= End
    /\ ~call.window.capped => call.window.time = limit
    /\ total > 0 => /\ call.window.time > 0
                    /\ start + call.window.time < End + TicksPerSecond + slack

IInv ==
    /\ Shape /\ Running
    /\ At("ready") => Timed(clock, 0)
    /\ At("sent") => Timed(call.sent, KeyTime)
    /\ checked => call.requests = 0
    /\ OutcomeHonest

\* At first nothing was asked.
LEMMA InitKeeps == Init => IInv
<1> SUFFICES ASSUME Init PROVE IInv
  OBVIOUS
<1>1. limit \in Nat
  BY HttpCallAssumption DEF Init
<1>2. total \in Nat
  <2>1. Up(limit) \in Nat
    BY <1>1, UpRounds
  <2>2. TotalFactor * Up(limit) \in Nat
    BY <2>1, HttpCallAssumption
  <2>. QED
    BY <2>2, HttpCallAssumption DEF Init
<1>3. /\ DOMAIN call = Fields /\ call.sent = 0 /\ call.requests = 0 /\ call.window.time = 0
      /\ call.status = "none" /\ call.pc = "ask" /\ clock = 0
  BY DEF Init, Fields, NoWindow
<1>. QED
  BY <1>1, <1>2, <1>3 DEF IInv, Shape, Running, At, OutcomeHonest, DeadlineHonest, TimeoutHonest,
                          SkippedBeforeAsking

(***************************************************************************)
(* Each step keeps it                                                      *)
(***************************************************************************)

\* What a stop leaves as it was.
LEMMA StopShape ==
    ASSUME DOMAIN call = Fields, NEW status, Stop(status)
    PROVE  /\ DOMAIN call' = Fields /\ call'.pc = "ended" /\ call'.status = status
           /\ call'.sent = call.sent /\ call'.requests = call.requests /\ call'.window = call.window
  BY DEF Fields, Stop

\* An attempt that ends with a status that is true of it.
LEMMA EndKeeps ==
    ASSUME IInv, limit' = limit, total' = total, clock' \in Nat, checked' => checked,
           DOMAIN call' = Fields, call'.pc = "ended",
           call'.sent = call.sent, call'.requests = call.requests, call'.window = call.window,
           call'.status = "DEADLINE" => total > 0 /\ clock' >= End,
           call'.status = "TIMEOUT" => limit > 0 /\ clock' - call.sent >= limit,
           call'.status = "SKIPPED" => call.requests = 0
    PROVE  IInv'
  BY DEF IInv, Shape, Running, At, OutcomeHonest, DeadlineHonest, TimeoutHonest,
         SkippedBeforeAsking, End

\* A step to a place where no request is under way.
LEMMA QuietKeeps ==
    ASSUME IInv, limit' = limit, total' = total, clock' \in Nat, checked' => checked,
           DOMAIN call' = Fields,
           call'.sent = call.sent, call'.requests = call.requests, call'.window = call.window,
           call'.status = "none", call'.pc \in {"ask", "merge", "round", "write"}
    PROVE  IInv'
  BY DEF IInv, Shape, Running, At, OutcomeHonest, DeadlineHonest, TimeoutHonest,
         SkippedBeforeAsking

\* The types of what the steps read.
LEMMA Known ==
    ASSUME IInv
    PROVE  /\ limit \in Nat /\ total \in Nat /\ clock \in Nat /\ DOMAIN call = Fields
           /\ call.sent \in Nat /\ call.requests \in Nat /\ call.window.time \in Nat
           /\ KeyTime \in Nat /\ TicksPerSecond \in Nat /\ End \in Nat
           /\ checked => call.requests = 0
           /\ call.pc # "ended" => call.status = "none"
  BY HttpCallAssumption DEF IInv, Shape, Running, At, End

\* The window is opened.
LEMMA OpenKeeps == IInv /\ Open => IInv'
<1> SUFFICES ASSUME IInv, Open PROVE IInv'
  OBVIOUS
<1>1. /\ call' = [call EXCEPT !.pc = "ready", !.window = Window]
      /\ clock' = clock /\ checked' = checked /\ limit' = limit /\ total' = total
      /\ (total > 0 => clock < End) /\ call.pc = "ask"
  BY DEF Open, settings, At
<1>2. /\ DOMAIN call' = Fields /\ call'.pc = "ready" /\ call'.window = Window
      /\ call'.sent = call.sent /\ call'.requests = call.requests /\ call'.status = "none"
  BY <1>1, Known DEF Fields
<1>3. /\ Window.time \in Nat
      /\ Window.capped => total > 0 /\ clock + Window.time >= End
      /\ ~Window.capped => Window.time = limit
      /\ total > 0 => Window.time > 0 /\ clock + Window.time < End + TicksPerSecond
  BY <1>1, Known, WindowSound
<1>4. Timed(clock, 0)'
  BY <1>1, <1>2, <1>3, Known DEF Timed, End
<1>. QED
  BY <1>1, <1>2, <1>3, <1>4, Known
     DEF IInv, Shape, Running, At, OutcomeHonest, DeadlineHonest, TimeoutHonest, SkippedBeforeAsking

\* The key is read and the request goes out.
LEMMA SendKeeps == IInv /\ Send => IInv'
<1> SUFFICES ASSUME IInv, Send PROVE IInv'
  OBVIOUS
<1>1. PICK k \in 0..(IF call.haveKey THEN 0 ELSE KeyTime) :
         /\ clock' = clock + k
         /\ call' = [call EXCEPT !.pc = "sent", !.haveKey = TRUE, !.sent = clock + k,
                                 !.requests = @ + 1]
  BY DEF Send
<1>2. k \in Nat /\ k <= KeyTime
  BY <1>1, Known
<1>3. /\ checked' = FALSE /\ limit' = limit /\ total' = total /\ call.pc = "ready"
      /\ Timed(clock, 0)
  BY DEF Send, IInv, settings, At
<1>4. /\ DOMAIN call' = Fields /\ call'.pc = "sent" /\ call'.window = call.window
      /\ call'.sent = clock + k /\ call'.requests = call.requests + 1 /\ call'.status = "none"
  BY <1>1, <1>3, Known DEF Fields
<1>5. End' = End
  BY <1>3 DEF End
<1>6. Timed(call.sent, KeyTime)'
  BY <1>2, <1>3, <1>4, <1>5, Known DEF Timed
<1>. QED
  BY <1>1, <1>2, <1>3, <1>4, <1>6, Known
     DEF IInv, Shape, Running, At, OutcomeHonest, DeadlineHonest, TimeoutHonest, SkippedBeforeAsking

\* An answer comes: the next chunk, the merge, the next group or the end of the asking.
LEMMA AnswerKeeps == IInv /\ Answer => IInv'
<1> SUFFICES ASSUME IInv, Answer PROVE IInv'
  OBVIOUS
<1>1. PICK size \in Sizes :
         call' = [(IF Merging THEN MergeAnswer(size) ELSE MapAnswer(size))
                     EXCEPT !.usage = @ + 1, !.healthy = TRUE,
                            !.noted = IF call.healthy THEN @ ELSE "healthy"]
  BY DEF Answer
<1>2. /\ clock' \in call.sent..(call.sent + call.window.time)
      /\ checked' = checked /\ limit' = limit /\ total' = total /\ call.pc = "sent"
  BY DEF Answer, settings, At
<1>3. clock' \in Nat
  BY <1>2, Known
<1> DEFINE answered == IF Merging THEN MergeAnswer(size) ELSE MapAnswer(size)
<1>4. /\ DOMAIN answered = Fields
      /\ answered.sent = call.sent /\ answered.requests = call.requests
      /\ answered.window = call.window /\ answered.status = call.status
      /\ answered.pc \in {"ask", "write", "merge", "round"}
  <2>1. CASE Merging
    <3>1. answered = MergeAnswer(size)
      BY <2>1
    <3>2. CASE call.group = Everything
      BY <3>1, <3>2, Known DEF MergeAnswer, Fields
    <3>3. CASE call.group # Everything
      BY <3>1, <3>3, Known DEF MergeAnswer, Fields
    <3>. QED
      BY <3>2, <3>3
  <2>2. CASE ~Merging
    <3>1. answered = MapAnswer(size)
      BY <2>2
    <3>. QED
      BY <3>1, Known DEF MapAnswer, Fields
  <2>. QED
    BY <2>1, <2>2
<1>5. call' = [answered EXCEPT !.usage = @ + 1, !.healthy = TRUE,
                               !.noted = IF call.healthy THEN @ ELSE "healthy"]
  BY <1>1
<1>6. /\ DOMAIN call' = Fields /\ call'.sent = call.sent /\ call'.requests = call.requests
      /\ call'.window = call.window /\ call'.status = call.status
      /\ call'.pc \in {"ask", "write", "merge", "round"}
  <2> HIDE DEF answered
  <2>. QED
    BY <1>4, <1>5 DEF Fields
<1>. QED
  BY <1>2, <1>3, <1>6, Known, QuietKeeps

\* The time of a request is over: all of the limit, or all until the deadline.
LEMMA ExpireKeeps == IInv /\ Expire => IInv'
<1> SUFFICES ASSUME IInv, Expire PROVE IInv'
  OBVIOUS
<1> DEFINE status == IF call.window.capped THEN "DEADLINE" ELSE "TIMEOUT"
<1>1. /\ clock' = call.sent + call.window.time /\ call.window.time > 0
      /\ checked' = checked /\ limit' = limit /\ total' = total
      /\ Timed(call.sent, KeyTime) /\ Stop(status)
  BY DEF Expire, settings, At, IInv
<1>2. clock' \in Nat /\ clock' - call.sent = call.window.time
  BY <1>1, Known
<1>3. /\ DOMAIN call' = Fields /\ call'.pc = "ended" /\ call'.status = status
      /\ call'.sent = call.sent /\ call'.requests = call.requests /\ call'.window = call.window
  BY <1>1, Known, StopShape
<1>4. status = "DEADLINE" => total > 0 /\ clock' >= End
  BY <1>1 DEF Timed
<1>5. status = "TIMEOUT" => limit > 0 /\ clock' - call.sent >= limit
  BY <1>1, <1>2, Known DEF Timed
<1>. QED
  BY <1>1, <1>2, <1>3, <1>4, <1>5, EndKeeps

\* The other ways an attempt ends say nothing of its time, or look at the clock first.
LEMMA EndSteps ==
    ASSUME IInv, NoTimeLeft \/ Skip \/ KeyFails \/ Refuse \/ ChunkFails \/ Write \/ GiveUp
    PROVE  IInv'
<1>1. /\ clock' = clock /\ clock' \in Nat /\ limit' = limit /\ total' = total
  BY Known DEF NoTimeLeft, Skip, KeyFails, Refuse, ChunkFails, Write, GiveUp, settings
<1>2. checked' => checked
  BY DEF NoTimeLeft, Skip, KeyFails, Refuse, ChunkFails, Write, GiveUp
<1>3. CASE NoTimeLeft
  <2>1. Stop("DEADLINE") /\ total > 0 /\ clock >= End
    BY <1>3 DEF NoTimeLeft
  <2>2. /\ DOMAIN call' = Fields /\ call'.pc = "ended" /\ call'.status = "DEADLINE"
        /\ call'.sent = call.sent /\ call'.requests = call.requests /\ call'.window = call.window
    BY <2>1, Known, StopShape
  <2>. QED
    BY <1>1, <1>2, <2>1, <2>2, EndKeeps
<1>4. CASE Skip
  <2>1. Stop("SKIPPED") /\ call.requests = 0
    BY <1>4, Known DEF Skip
  <2>2. /\ DOMAIN call' = Fields /\ call'.pc = "ended" /\ call'.status = "SKIPPED"
        /\ call'.sent = call.sent /\ call'.requests = call.requests /\ call'.window = call.window
    BY <2>1, Known, StopShape
  <2>. QED
    BY <1>1, <1>2, <2>1, <2>2, EndKeeps
<1>5. CASE KeyFails \/ ChunkFails \/ Write \/ GiveUp
  <2>1. PICK status \in {"CONFIG", "ERROR", "FAILED", "ok"} : Stop(status)
    BY <1>5 DEF KeyFails, ChunkFails, Write, GiveUp
  <2>2. /\ DOMAIN call' = Fields /\ call'.pc = "ended" /\ call'.status = status
        /\ call'.sent = call.sent /\ call'.requests = call.requests /\ call'.window = call.window
    BY <2>1, Known, StopShape
  <2>3. call'.status \notin {"DEADLINE", "TIMEOUT", "SKIPPED"}
    BY <2>1, <2>2
  <2>. QED
    BY <1>1, <1>2, <2>2, <2>3, EndKeeps
<1>6. CASE Refuse
  <2>1. /\ DOMAIN call' = Fields /\ call'.pc = "ended" /\ call'.status \in {"ERROR", "UNREACHABLE"}
        /\ call'.sent = call.sent /\ call'.requests = call.requests /\ call'.window = call.window
    <3>1. CASE Stop("ERROR")
      BY <3>1, Known, StopShape
    <3>2. CASE ~Stop("ERROR")
      <4>1. PICK note \in {"unhealthy", "probe"} :
               call' = [call EXCEPT !.pc = "ended", !.status = "UNREACHABLE", !.noted = note]
        BY <1>6, <3>2 DEF Refuse
      <4>. QED
        BY <4>1, Known DEF Fields
    <3>. QED
      BY <3>1, <3>2
  <2>2. call'.status \notin {"DEADLINE", "TIMEOUT", "SKIPPED"}
    BY <2>1
  <2>. QED
    BY <1>1, <1>2, <2>1, <2>2, EndKeeps
<1>. QED
  BY <1>3, <1>4, <1>5, <1>6

\* The merge sends nothing by itself, and between two requests only time passes.
LEMMA MergeSteps ==
    ASSUME IInv, Merge \/ CarryOver \/ AskGroup \/ EndRound \/ Pause
    PROVE  IInv'
<1>1. /\ limit' = limit /\ total' = total /\ checked' = checked
      /\ call.pc \in {"ask", "merge", "round"}
  BY DEF Merge, CarryOver, AskGroup, EndRound, Pause, settings, At, GroupRead
<1>2. clock' \in Nat
  BY Known DEF Merge, CarryOver, AskGroup, EndRound, Pause
<1>3. CASE Stop("ERROR")
  <2>1. /\ DOMAIN call' = Fields /\ call'.pc = "ended" /\ call'.status = "ERROR"
        /\ call'.sent = call.sent /\ call'.requests = call.requests /\ call'.window = call.window
    BY <1>3, Known, StopShape
  <2>. QED
    BY <1>1, <1>2, <2>1, EndKeeps
<1>4. CASE ~Stop("ERROR")
  <2>1. /\ DOMAIN call' = Fields
        /\ call'.sent = call.sent /\ call'.requests = call.requests /\ call'.window = call.window
        /\ call'.status = call.status /\ call'.pc \in {"ask", "merge", "round"}
    <3>1. CASE Merge
      <4>1. \/ call' = [call EXCEPT !.pc = "ask", !.group = Everything]
            \/ call' = [call EXCEPT !.pc = "round", !.out = <<>>, !.next = 1]
        BY <1>4, <3>1 DEF Merge
      <4>. QED
        BY <4>1, Known DEF Fields
    <3>2. CASE CarryOver
      BY <1>1, <3>2, Known DEF CarryOver, Fields
    <3>3. CASE AskGroup
      BY <3>3, Known DEF AskGroup, Fields
    <3>4. CASE EndRound
      <4>1. call' = [call EXCEPT !.pc = "merge", !.parts = call.out, !.out = <<>>, !.depth = @ + 1]
        BY <1>4, <3>4 DEF EndRound
      <4>. QED
        BY <4>1, Known DEF Fields
    <3>5. CASE Pause
      BY <3>5, Known DEF Pause, At
    <3>. QED
      BY <3>1, <3>2, <3>3, <3>4, <3>5
  <2>. QED
    BY <1>1, <1>2, <2>1, Known, QuietKeeps
<1>. QED
  BY <1>3, <1>4

\* A step that changes nothing.
LEMMA NoStepKeeps == IInv /\ UNCHANGED vars => IInv'
  BY DEF IInv, Shape, Running, Timed, At, End, OutcomeHonest, DeadlineHonest, TimeoutHonest,
         SkippedBeforeAsking, vars

\* The invariant holds of every attempt: the window of the request under way is
\* still the one request_time gave, late by the key lookup at most.
THEOREM Inductive == Spec => []IInv
<1>1. IInv /\ [Next]_vars => IInv'
  <2> SUFFICES ASSUME IInv, [Next]_vars PROVE IInv'
    OBVIOUS
  <2>. QED
    BY OpenKeeps, SendKeeps, AnswerKeeps, ExpireKeeps, EndSteps, MergeSteps, NoStepKeeps
       DEF Next, Program
<1>. QED
  BY <1>1, InitKeeps, PTL DEF Spec

(***************************************************************************)
(* What follows                                                            *)
(***************************************************************************)

\* DEADLINE, TIMEOUT and SKIPPED are told only when they are true: the total
\* deadline is over, the request had the whole limit, nothing was asked.
THEOREM OutcomesAreHonest == Spec => []OutcomeHonest
<1>1. IInv => OutcomeHonest
  BY DEF IInv
<1>. QED
  BY <1>1, Inductive, PTL

\* With a total deadline no request runs on for a second longer than that and
\* the time of the key lookup.
THEOREM RequestsEndInTime == Spec => []RequestInTime
<1>1. ASSUME IInv PROVE RequestInTime
  BY <1>1, Known DEF IInv, Timed, RequestInTime
<1>. QED
  BY <1>1, Inductive, PTL

(***************************************************************************)
(* Numbers and sequences                                                   *)
(***************************************************************************)

\* A nonempty set of numbers has a minimal element.
LEMMA MinimalOf ==
    ASSUME NEW R, IsWellFoundedOn(R, Nat), NEW T, T \subseteq Nat, T # {}
    PROVE  \E x \in T : \A y \in T : ~(<<y, x>> \in R)
  BY WFMin

\* With the order of the numbers it is the least one.
LEMMA MinimalIsLeast ==
    ASSUME NEW R, \A x, y \in Nat : x < y => <<x, y>> \in R,
           NEW T, T \subseteq Nat, \E x \in T : \A y \in T : ~(<<y, x>> \in R)
    PROVE  \E x \in T : \A y \in T : x <= y
<1>1. PICK x \in T : \A y \in T : ~(<<y, x>> \in R)
  OBVIOUS
<1>2. ASSUME NEW y \in T PROVE x <= y
  <2>1. ~(y < x)
    BY <1>1
  <2>. QED
    BY <2>1
<1>. QED
  BY <1>2

\* A nonempty set of numbers has a least element.
LEMMA LeastOf ==
    ASSUME NEW T, T \subseteq Nat, T # {}
    PROVE  \E x \in T : \A y \in T : x <= y
<1>1. IsWellFoundedOn(OpToRel(<, Nat), Nat)
  BY NatLessThanWellFounded
<1>2. \A x, y \in Nat : x < y => <<x, y>> \in OpToRel(<, Nat)
  BY DEF OpToRel
<1>3. \E x \in T : \A y \in T : ~(<<y, x>> \in OpToRel(<, Nat))
  BY <1>1, MinimalOf
<1>. QED
  BY <1>2, <1>3, MinimalIsLeast

\* Min is that least element.
LEMMA MinOf ==
    ASSUME NEW T, T \subseteq Nat, T # {}
    PROVE  Min(T) \in T /\ \A y \in T : Min(T) <= y
<1>1. \E x \in T : \A y \in T : x =< y
  BY LeastOf
<1>. QED
  BY <1>1 DEF Min

\* A partial answer: chunks of the input and bytes.
Piece == [from : Seq(Nat), size : Nat]

\* The chunks after a up to b.
Segment(a, b) == [i \in 1..(b - a) |-> a + i]

\* Segments that follow each other make one.
LEMMA SegmentsJoin ==
    ASSUME NEW a \in Nat, NEW b \in Nat, NEW c \in Nat, a <= b, b <= c
    PROVE  Segment(a, b) \o Segment(b, c) = Segment(a, c) /\ Segment(a, c) \in Seq(Nat)
<1>. DEFINE s == Segment(a, b)
            t == Segment(b, c)
            u == Segment(a, c)
<1>1. b - a \in Nat /\ c - b \in Nat /\ c - a \in Nat /\ (b - a) + (c - b) = c - a
  OBVIOUS
<1>2. s \in Seq(Nat) /\ t \in Seq(Nat) /\ u \in Seq(Nat)
  BY <1>1 DEF Segment
<1>3. Len(s) = b - a /\ Len(t) = c - b /\ Len(u) = c - a
  BY <1>1 DEF Segment
<1>4. /\ \A i \in 1..(b - a) : s[i] = a + i
      /\ \A i \in 1..(c - b) : t[i] = b + i
      /\ \A i \in 1..(c - a) : u[i] = a + i
  BY DEF Segment
<1>. HIDE DEF s, t, u
<1>5. /\ s \o t \in Seq(Nat) /\ Len(s \o t) = Len(u)
      /\ \A i \in 1..Len(u) : (s \o t)[i] = IF i <= b - a THEN s[i] ELSE t[i - (b - a)]
  <2>1. /\ s \o t \in Seq(Nat) /\ Len(s \o t) = Len(s) + Len(t)
        /\ \A i \in 1..(Len(s) + Len(t)) :
              (s \o t)[i] = IF i <= Len(s) THEN s[i] ELSE t[i - Len(s)]
    BY <1>2, ConcatProperties
  <2>2. Len(s) + Len(t) = Len(u)
    BY <1>1, <1>3
  <2>. QED
    BY <1>3, <2>1, <2>2
<1>6. ASSUME NEW i \in 1..Len(u)
      PROVE  (s \o t)[i] = u[i]
  <2>0. i \in 1..(c - a)
    BY <1>3
  <2>1. CASE i <= b - a
    <3>1. i \in 1..(b - a)
      BY <2>0, <2>1
    <3>. QED
      BY <1>4, <1>5, <2>0, <2>1, <3>1
  <2>2. CASE ~(i <= b - a)
    <3>1. i - (b - a) \in 1..(c - b) /\ b + (i - (b - a)) = a + i
      BY <2>0, <2>2
    <3>2. (s \o t)[i] = t[i - (b - a)]
      BY <1>5, <2>2
    <3>3. t[i - (b - a)] = b + (i - (b - a))
      BY <1>4, <3>1
    <3>. QED
      BY <1>4, <2>0, <3>1, <3>2, <3>3
  <2>. QED
    BY <2>1, <2>2
<1>7. s \o t = u
  BY <1>2, <1>5, <1>6, SeqEqual
<1>. QED
  BY <1>2, <1>7 DEF s, t, u

\* What is flattened piece by piece from cut to cut is the whole.
LEMMA FlattenJoins ==
    ASSUME NEW n \in Nat \ {0}, NEW ss, Len(ss) = n, NEW e \in [0..n -> Nat],
           \A i \in 1..n : e[i - 1] < e[i] /\ ss[i] = Segment(e[i - 1], e[i])
    PROVE  FlattenSeq(ss) = Segment(e[0], e[n]) /\ e[0] < e[n]
<1>. DEFINE Body(f) == [i \in 1..n |-> IF i = 1 THEN ss[i] ELSE f[i - 1] \o ss[i]]
            flatten == CHOOSE f : f = Body(f)
            whole == [i \in 1..n |-> Segment(e[0], e[i])]
<1>1. \A i \in 1..n : i - 1 \in 0..n /\ e[i] \in Nat /\ e[i - 1] \in Nat
  OBVIOUS
<1>2. \A i \in 1..n : e[0] < e[i]
  <2>. DEFINE T == {i \in 1..n : ~(e[0] < e[i])}
  <2>. SUFFICES ASSUME T # {} PROVE FALSE
    OBVIOUS
  <2>1. T \subseteq Nat
    OBVIOUS
  <2>2. PICK x \in T : \A y \in T : x <= y
    BY <2>1, LeastOf
  <2>3. x \in 1..n /\ ~(e[0] < e[x]) /\ e[x - 1] < e[x]
    OBVIOUS
  <2>4. x # 1
    BY <2>3
  <2>5. x - 1 \in 1..n /\ x - 1 \notin T
    BY <2>2, <2>3, <2>4
  <2>6. e[0] < e[x - 1]
    BY <2>5
  <2>. HIDE DEF T
  <2>. QED
    BY <1>1, <2>3, <2>5, <2>6
<1>3. whole = Body(whole)
  <2>1. ASSUME NEW i \in 1..n
        PROVE  whole[i] = IF i = 1 THEN ss[i] ELSE whole[i - 1] \o ss[i]
    <3>1. CASE i = 1
      BY <3>1
    <3>2. CASE i # 1
      <4>1. i - 1 \in 1..n
        BY <3>2
      <4>2. e[0] \in Nat /\ e[i - 1] \in Nat /\ e[i] \in Nat /\ e[0] < e[i - 1] /\ e[i - 1] < e[i]
        BY <1>1, <1>2, <4>1
      <4>3. e[0] <= e[i - 1] /\ e[i - 1] <= e[i]
        BY <4>2
      <4>4. Segment(e[0], e[i - 1]) \o Segment(e[i - 1], e[i]) = Segment(e[0], e[i])
        BY <4>2, <4>3, SegmentsJoin
      <4>. QED
        BY <3>2, <4>1, <4>4
    <3>. QED
      BY <3>1, <3>2
  <2>. QED
    BY <2>1
<1>4. flatten = Body(flatten)
  BY <1>3
<1>5. \A i \in 1..n : flatten[i] = IF i = 1 THEN ss[i] ELSE flatten[i - 1] \o ss[i]
  BY <1>4
<1>6. \A i \in 1..n : whole[i] = IF i = 1 THEN ss[i] ELSE whole[i - 1] \o ss[i]
  BY <1>3
<1>7. FlattenSeq(ss) = flatten[n]
  BY DEF FlattenSeq
<1>. HIDE DEF flatten
<1>8. \A i \in 1..n : flatten[i] = whole[i]
  <2>. DEFINE T == {i \in 1..n : flatten[i] # whole[i]}
  <2>. SUFFICES ASSUME T # {} PROVE FALSE
    OBVIOUS
  <2>1. T \subseteq Nat
    OBVIOUS
  <2>2. PICK x \in T : \A y \in T : x <= y
    BY <2>1, LeastOf
  <2>3. x \in 1..n /\ flatten[x] # whole[x]
    OBVIOUS
  <2>. HIDE DEF whole
  <2>4. x # 1
    BY <1>5, <1>6, <2>3
  <2>5. x - 1 \in 1..n /\ x - 1 \notin T
    BY <2>2, <2>3, <2>4
  <2>6. flatten[x - 1] = whole[x - 1]
    BY <2>5
  <2>. QED
    BY <1>5, <1>6, <2>3, <2>4, <2>6
<1>. QED
  BY <1>2, <1>7, <1>8

\* The bytes of a request are a number, and with more around each part more.
LEMMA SizeRuns ==
    ASSUME NEW ps \in Seq(Piece), NEW x \in Nat
    PROVE  \E f : /\ SizeOf(ps, x) = f[Len(ps)]
                  /\ f[0] = Base
                  /\ \A i \in 1..Len(ps) : f[i] = f[i - 1] + ps[i].size + x
                  /\ \A i \in 0..Len(ps) : f[i] \in Nat
<1>. DEFINE n == Len(ps)
            Body(f, k) == [i \in 0..k |-> IF i = 0 THEN Base ELSE f[i - 1] + ps[i].size + x]
            Runs(k) == \E f : f = Body(f, k)
            upTo == CHOOSE f : f = Body(f, n)
<1>0. Base \in Nat /\ \A i \in 1..n : ps[i] \in Piece
  BY HttpCallAssumption, ElementOfSeq
<1>1. n \in Nat /\ Base \in Nat /\ \A i \in 1..n : ps[i].size \in Nat
  BY <1>0, LenProperties DEF Piece
<1>2. Runs(0)
  <2>. DEFINE g == [i \in 0..0 |-> Base]
  <2>1. g = Body(g, 0)
    OBVIOUS
  <2>. QED
    BY <2>1
<1>3. ASSUME NEW k \in Nat, k + 1 <= n, Runs(k)
      PROVE  Runs(k + 1)
  <2>1. PICK f : f = Body(f, k)
    BY <1>3
  <2>. DEFINE g == [i \in 0..(k + 1) |-> IF i <= k THEN f[i] ELSE f[k] + ps[k + 1].size + x]
  <2>2. \A i \in 0..k : f[i] = IF i = 0 THEN Base ELSE f[i - 1] + ps[i].size + x
    BY <2>1
  <2>3. ASSUME NEW i \in 0..(k + 1)
        PROVE  g[i] = IF i = 0 THEN Base ELSE g[i - 1] + ps[i].size + x
    <3>1. CASE i <= k
      <4>1. i \in 0..k /\ g[i] = f[i] /\ (i # 0 => i - 1 \in 0..(k + 1) /\ i - 1 <= k)
        BY <3>1
      <4>2. i # 0 => g[i - 1] = f[i - 1]
        BY <4>1
      <4>. HIDE DEF g
      <4>. QED
        BY <2>2, <4>1, <4>2
    <3>2. CASE i = k + 1
      <4>1. i # 0 /\ i - 1 = k /\ g[k] = f[k] /\ g[i] = f[k] + ps[k + 1].size + x
        BY <3>2
      <4>. HIDE DEF g
      <4>. QED
        BY <3>2, <4>1
    <3>. QED
      BY <3>1, <3>2
  <2>4. g = Body(g, k + 1)
    BY <2>3
  <2>. QED
    BY <2>4
<1>. HIDE DEF Runs
<1>4. Runs(n)
  <2>. DEFINE T == {k \in 0..n : ~Runs(k)}
  <2>. SUFFICES ASSUME T # {} PROVE FALSE
    BY <1>1
  <2>1. T \subseteq Nat
    OBVIOUS
  <2>2. PICK k \in T : \A y \in T : k <= y
    BY <2>1, LeastOf
  <2>3. k \in 0..n /\ ~Runs(k) /\ k # 0
    BY <1>2
  <2>4. k - 1 \in 0..n /\ k - 1 \notin T
    BY <1>1, <2>2, <2>3
  <2>5. Runs(k - 1) /\ k - 1 \in Nat /\ (k - 1) + 1 = k /\ k <= n
    BY <1>1, <2>3, <2>4
  <2>. HIDE DEF T
  <2>. QED
    BY <1>3, <2>3, <2>5
<1>5. upTo = Body(upTo, n)
  BY <1>4 DEF Runs
<1>6. SizeOf(ps, x) = upTo[n]
  BY DEF SizeOf
<1>7. \A i \in 0..n : upTo[i] = IF i = 0 THEN Base ELSE upTo[i - 1] + ps[i].size + x
  BY <1>5
<1>. HIDE DEF upTo
<1>8. upTo[0] = Base /\ \A i \in 1..n : upTo[i] = upTo[i - 1] + ps[i].size + x
  BY <1>1, <1>7
<1>9. \A i \in 0..n : upTo[i] \in Nat
  <2>. DEFINE T == {i \in 0..n : upTo[i] \notin Nat}
  <2>. SUFFICES ASSUME T # {} PROVE FALSE
    OBVIOUS
  <2>1. T \subseteq Nat
    OBVIOUS
  <2>2. PICK k \in T : \A y \in T : k <= y
    BY <2>1, LeastOf
  <2>3. k \in 0..n /\ upTo[k] \notin Nat /\ k # 0
    BY <1>1, <1>8
  <2>4. k - 1 \in 0..n /\ k - 1 \notin T /\ k \in 1..n
    BY <1>1, <2>2, <2>3
  <2>5. upTo[k - 1] \in Nat
    BY <2>4
  <2>. HIDE DEF T
  <2>6. upTo[k] = upTo[k - 1] + ps[k].size + x /\ ps[k].size \in Nat
    BY <1>1, <1>8, <2>4
  <2>. QED
    BY <2>3, <2>5, <2>6
<1>. QED
  BY <1>6, <1>8, <1>9

\* What is planned with the reserve fits with the header.
LEMMA SizeGrows ==
    ASSUME NEW ps \in Seq(Piece)
    PROVE  /\ SizeOf(ps, Header) \in Nat /\ SizeOf(ps, Reserve) \in Nat
           /\ SizeOf(ps, Header) <= SizeOf(ps, Reserve)
<1>. DEFINE n == Len(ps)
<1>1. /\ n \in Nat /\ Header \in Nat /\ Reserve \in Nat /\ Header <= Reserve
      /\ \A i \in 1..n : ps[i].size \in Nat
  <2>1. Header \in Nat /\ Reserve \in Nat /\ Header <= Reserve
    BY HttpCallAssumption
  <2>2. n \in Nat /\ \A i \in 1..n : ps[i] \in Piece
    BY ElementOfSeq, LenProperties
  <2>. QED
    BY <2>1, <2>2 DEF Piece
<1>2. PICK f : /\ SizeOf(ps, Header) = f[n]
               /\ f[0] = Base
               /\ \A i \in 1..n : f[i] = f[i - 1] + ps[i].size + Header
               /\ \A i \in 0..n : f[i] \in Nat
  BY <1>1, SizeRuns
<1>3. PICK g : /\ SizeOf(ps, Reserve) = g[n]
               /\ g[0] = Base
               /\ \A i \in 1..n : g[i] = g[i - 1] + ps[i].size + Reserve
               /\ \A i \in 0..n : g[i] \in Nat
  BY <1>1, SizeRuns
<1>4. \A i \in 0..n : f[i] <= g[i]
  <2>. DEFINE T == {i \in 0..n : ~(f[i] <= g[i])}
  <2>. SUFFICES ASSUME T # {} PROVE FALSE
    OBVIOUS
  <2>1. T \subseteq Nat
    OBVIOUS
  <2>2. PICK k \in T : \A y \in T : k <= y
    BY <2>1, LeastOf
  <2>3. k \in 0..n /\ ~(f[k] <= g[k]) /\ k # 0
    BY <1>1, <1>2, <1>3
  <2>4. k - 1 \in 0..n /\ k - 1 \notin T /\ k \in 1..n
    BY <1>1, <2>2, <2>3
  <2>5. f[k - 1] <= g[k - 1]
    BY <2>4
  <2>. HIDE DEF T
  <2>6. /\ f[k] = f[k - 1] + ps[k].size + Header /\ g[k] = g[k - 1] + ps[k].size + Reserve
        /\ f[k - 1] \in Nat /\ g[k - 1] \in Nat /\ ps[k].size \in Nat
    BY <1>1, <1>2, <1>3, <2>4
  <2>. QED
    BY <1>1, <2>3, <2>5, <2>6
<1>. QED
  BY <1>1, <1>2, <1>3, <1>4

(***************************************************************************)
(* The chunks behind the partial answers                                   *)
(***************************************************************************)

\* The pieces ps divide the first n chunks, with the cuts e between them.
Cut(ps, n, e) ==
    /\ e \in [0..Len(ps) -> Nat] /\ e[0] = 0 /\ e[Len(ps)] = n
    /\ \A i \in 1..Len(ps) : e[i - 1] < e[i] /\ ps[i].from = Segment(e[i - 1], e[i])

Divided(ps, n) == \E e \in [0..Len(ps) -> Nat] : Cut(ps, n, e)

\* No pieces are no chunks.
LEMMA NoneDivided == Divided(<<>>, 0)
<1>. DEFINE e == [i \in 0..0 |-> 0]
<1>1. Cut(<<>>, 0, e) /\ e \in [0..Len(<<>>) -> Nat]
  BY DEF Cut
<1>. QED
  BY <1>1 DEF Divided

\* One chunk is a segment.
LEMMA SegmentOfOne ==
    ASSUME NEW m \in Nat
    PROVE  <<m + 1>> = Segment(m, m + 1)
<1>1. (m + 1) - m = 1
  OBVIOUS
<1>2. Segment(m, m + 1) = [i \in 1..1 |-> m + i]
  BY <1>1 DEF Segment
<1>. DEFINE s == [i \in 1..1 |-> m + i]
<1>3. s \in Seq(Nat) /\ Len(s) = 1 /\ s[1] = m + 1
  OBVIOUS
<1>4. <<m + 1>> \in Seq(Nat) /\ Len(<<m + 1>>) = 1 /\ <<m + 1>>[1] = m + 1
  OBVIOUS
<1>. QED
  <2>. HIDE DEF s
  <2>1. s = <<m + 1>>
    <3>1. \A i \in 1..1 : s[i] = <<m + 1>>[i]
      BY <1>3, <1>4
    <3>. QED
      BY <1>3, <1>4, <3>1, SeqEqual
  <2>. QED
    BY <1>2, <2>1 DEF s

\* The piece of the next chunks goes behind the others.
LEMMA DividedOneMore ==
    ASSUME NEW ps \in Seq(Piece), NEW m \in Nat, NEW n \in Nat, m < n, Divided(ps, m),
           NEW p \in Piece, p.from = Segment(m, n)
    PROVE  Divided(Append(ps, p), n) /\ Append(ps, p) \in Seq(Piece) /\ Len(Append(ps, p)) = Len(ps) + 1
<1>. DEFINE qs == Append(ps, p)
            k == Len(ps)
<1>1. /\ k \in Nat /\ qs \in Seq(Piece) /\ Len(qs) = k + 1 /\ qs[k + 1] = p
      /\ \A i \in 1..k : qs[i] = ps[i]
  OBVIOUS
<1>2. PICK e \in [0..k -> Nat] : Cut(ps, m, e)
  BY DEF Divided
<1>. DEFINE d == [i \in 0..(k + 1) |-> IF i <= k THEN e[i] ELSE n]
<1>3. /\ e[0] = 0 /\ e[k] = m /\ \A i \in 0..k : e[i] \in Nat
      /\ \A i \in 1..k : e[i - 1] < e[i] /\ ps[i].from = Segment(e[i - 1], e[i])
  BY <1>2 DEF Cut
<1>4. /\ d \in [0..(k + 1) -> Nat] /\ d[0] = 0 /\ d[k + 1] = n /\ d[k] = m
      /\ \A i \in 0..k : d[i] = e[i]
  BY <1>1, <1>3
<1>. HIDE DEF d, qs
<1>5. ASSUME NEW i \in 1..(k + 1)
      PROVE  d[i - 1] < d[i] /\ qs[i].from = Segment(d[i - 1], d[i])
  <2>1. CASE i = k + 1
    <3>1. i - 1 = k
      BY <1>1, <2>1
    <3>. QED
      BY <1>1, <1>4, <2>1, <3>1
  <2>2. CASE i # k + 1
    <3>1. i \in 1..k /\ i \in 0..k /\ i - 1 \in 0..k
      BY <1>1, <2>2
    <3>. QED
      BY <1>1, <1>3, <1>4, <3>1
  <2>. QED
    BY <2>1, <2>2
<1>6. Cut(qs, n, d) /\ d \in [0..Len(qs) -> Nat]
  BY <1>1, <1>4, <1>5 DEF Cut
<1>. QED
  BY <1>1, <1>6 DEF Divided, qs

\* A single piece is about everything.
LEMMA DividedAlone ==
    ASSUME NEW ps, NEW n \in Nat, Len(ps) = 1, Divided(ps, n)
    PROVE  ps[1].from = Segment(0, n)
<1>1. PICK e \in [0..Len(ps) -> Nat] : Cut(ps, n, e)
  BY DEF Divided
<1>2. e[0] = 0 /\ e[1] = n /\ ps[1].from = Segment(e[1 - 1], e[1])
  BY <1>1 DEF Cut
<1>. QED
  BY <1>2

\* The answer to a group of neighbours is about their chunks.
LEMMA GroupJoins ==
    ASSUME NEW ps \in Seq(Piece), NEW n \in Nat, NEW e, Cut(ps, n, e),
           NEW a \in 1..Len(ps), NEW b \in a..Len(ps)
    PROVE  /\ FlattenSeq([i \in DOMAIN SubSeq(ps, a, b) |-> SubSeq(ps, a, b)[i].from])
                  = Segment(e[a - 1], e[b])
           /\ e[a - 1] \in Nat /\ e[b] \in Nat /\ e[a - 1] < e[b]
           /\ Segment(e[a - 1], e[b]) \in Seq(Nat)
<1>. DEFINE group == SubSeq(ps, a, b)
            k == (b - a) + 1
            ss == [i \in DOMAIN group |-> group[i].from]
            d == [i \in 0..k |-> e[(a - 1) + i]]
<1>1. /\ Len(ps) \in Nat /\ a \in Nat /\ b \in Nat /\ a <= b /\ b <= Len(ps) /\ 1 <= a
      /\ k \in Nat \ {0} /\ (a - 1) + k = b
  OBVIOUS
<1>2. group \in Seq(Piece) /\ Len(group) = k /\ \A i \in 1..k : group[i] = ps[(a - 1) + i]
  <2>1. \A i \in a..b : ps[i] \in Piece
    BY <1>1, ElementOfSeq
  <2>2. /\ group \in Seq(Piece) /\ Len(group) = IF a <= b THEN b - a + 1 ELSE 0
        /\ \A i \in 1..(b - a + 1) : group[i] = ps[a + i - 1]
    BY <1>1, <2>1, SubSeqProperties, SMTT(20)
  <2>3. b - a + 1 = k /\ \A i \in 1..k : a + i - 1 = (a - 1) + i
    BY <1>1
  <2>. QED
    BY <1>1, <2>2, <2>3
<1>. HIDE DEF group
<1>3. DOMAIN ss = 1..k /\ Len(ss) = k /\ \A i \in 1..k : ss[i] = group[i].from
  <2>1. DOMAIN group = 1..k
    BY <1>2, LenProperties
  <2>. QED
    BY <1>1, <2>1
<1>4. \A j \in 0..k : (a - 1) + j \in 0..Len(ps)
  BY <1>1
<1>5. /\ \A i \in 0..Len(ps) : e[i] \in Nat
      /\ \A i \in 1..Len(ps) : e[i - 1] < e[i] /\ ps[i].from = Segment(e[i - 1], e[i])
  BY DEF Cut
<1>6. d \in [0..k -> Nat] /\ d[0] = e[a - 1] /\ d[k] = e[b] /\ \A j \in 0..k : d[j] = e[(a - 1) + j]
  BY <1>1, <1>4, <1>5
<1>. HIDE DEF d, ss
<1>7. ASSUME NEW i \in 1..k
      PROVE  d[i - 1] < d[i] /\ ss[i] = Segment(d[i - 1], d[i])
  <2>1. i \in 0..k /\ i - 1 \in 0..k /\ (a - 1) + i \in 1..Len(ps) /\ (a - 1) + (i - 1) = ((a - 1) + i) - 1
    BY <1>1
  <2>2. d[i] = e[(a - 1) + i] /\ d[i - 1] = e[((a - 1) + i) - 1]
    BY <1>6, <2>1
  <2>3. ss[i] = ps[(a - 1) + i].from
    BY <1>2, <1>3
  <2>. QED
    BY <1>5, <2>1, <2>2, <2>3
<1>8. FlattenSeq(ss) = Segment(d[0], d[k]) /\ d[0] < d[k]
  <2>1. k \in Nat \ {0} /\ Len(ss) = k /\ d \in [0..k -> Nat]
    BY <1>1, <1>3, <1>6
  <2>2. \A i \in 1..k : d[i - 1] < d[i] /\ ss[i] = Segment(d[i - 1], d[i])
    BY <1>7
  <2>. HIDE DEF k
  <2>. QED
    BY <2>1, <2>2, FlattenJoins
<1>9. d[0] \in Nat /\ d[k] \in Nat
  BY <1>1, <1>6
<1>10. Segment(d[0], d[k]) \in Seq(Nat)
  <2>1. d[0] <= d[k] /\ d[k] <= d[k]
    BY <1>8, <1>9
  <2>. QED
    BY <1>9, <2>1, SegmentsJoin
<1>. QED
  BY <1>6, <1>8, <1>9, <1>10 DEF ss, group

(***************************************************************************)
(* The requests and the partial answers                                    *)
(*                                                                         *)
(* Each request after the chunks makes one piece less: "requests" and the  *)
(* pieces that are left stay under twice the chunks.  The pieces divide    *)
(* the input in its order all the time, the old and the new ones at the    *)
(* same cut while a round is under way.                                    *)
(***************************************************************************)

\* The request under way is counted already, its answer is not there yet.
Out == IF At("sent") THEN 1 ELSE 0

Asking == call.pc \in {"ask", "ready", "sent"}

\* The chunks are asked; all the pieces are asked at once; a round goes on.
Mapping == Asking /\ ~Merging
Closing == At("merge") \/ (Asking /\ Merging /\ call.group = Everything)
Rounding == At("round") \/ (Asking /\ Merging /\ call.group # Everything)

\* The pieces left when the rest of the round is carried over.
LeftOver == Len(call.out) + Len(call.parts) - call.next + 1

Pieces ==
    /\ call.pc \in {"ask", "ready", "sent", "merge", "round", "write", "ended"}
    /\ chunks \in Nat \ {0} /\ call.usage \in Nat /\ call.next \in Nat
    /\ call.group \in [first : Nat, last : Nat]
    /\ call.parts \in Seq(Piece) /\ call.out \in Seq(Piece)

MapInv ==
    Mapping =>
        /\ call.requests = Len(call.parts) + Out
        /\ Len(call.parts) < chunks
        /\ Divided(call.parts, Len(call.parts))

CloseInv ==
    Closing =>
        /\ Len(call.parts) >= 2
        /\ call.requests + Len(call.parts) <= 2 * chunks + Out
        /\ Divided(call.parts, chunks)

\* A round ends with two pieces or more: the first group is never everything.
RoundInv ==
    Rounding =>
        /\ call.next \in 1..(Len(call.parts) + 1)
        /\ call.next > 1 => Len(call.out) >= 1
        /\ call.next > Len(call.parts) => Len(call.out) >= 2
        /\ SizeOf(call.parts, Header) > Room
        /\ call.requests + LeftOver <= 2 * chunks + Out
        /\ \E e \in [0..Len(call.parts) -> Nat] :
              Cut(call.parts, chunks, e) /\ Divided(call.out, e[call.next - 1])

GroupInv ==
    /\ Merging => Asking \/ At("ended")
    /\ Merging /\ Asking /\ call.group # Everything =>
          /\ call.group.first = call.next /\ call.next < call.group.last
          /\ call.group.last <= Len(call.parts)
          /\ call.next = 1 => call.group.last < Len(call.parts)

WriteInv ==
    At("write") => Len(call.parts) = 1 /\ call.parts[1].from = Segment(0, chunks)

CostInv ==
    /\ ~At("ended") => call.requests = call.usage + Out
    /\ call.pc \in {"write", "ended"} => RequestsBounded

MergeInv ==
    /\ Pieces /\ MapInv /\ CloseInv /\ RoundInv /\ GroupInv /\ WriteInv /\ CostInv
    /\ AnswerComplete /\ MergeFits

\* What the steps read.
LEMMA MergeKnown ==
    ASSUME IInv, MergeInv
    PROVE  /\ DOMAIN call = Fields /\ call.requests \in Nat /\ call.usage \in Nat
           /\ call.pc \in {"ask", "ready", "sent", "merge", "round", "write", "ended"}
           /\ chunks \in Nat \ {0} /\ call.next \in Nat
           /\ call.group \in [first : Nat, last : Nat]
           /\ call.parts \in Seq(Piece) /\ call.out \in Seq(Piece)
           /\ Len(call.parts) \in Nat /\ Len(call.out) \in Nat
           /\ Room \in Nat /\ Sizes \subseteq Nat
           /\ call.pc # "ended" => call.status = "none"
  BY HttpCallAssumption, LenProperties DEF IInv, Shape, Running, At, MergeInv, Pieces

\* However far the merge is, it has cost less than twice the chunks.
LEMMA CheapSoFar ==
    ASSUME IInv, MergeInv
    PROVE  RequestsBounded
<1>1. Out \in {0, 1} /\ (~At("sent") => Out = 0)
  BY DEF Out
<1>2. CASE call.pc \in {"write", "ended"}
  BY <1>2 DEF MergeInv, CostInv
<1>3. CASE Mapping
  <2>1. call.requests = Len(call.parts) + Out /\ Len(call.parts) < chunks
    BY <1>3 DEF MergeInv, MapInv
  <2>. QED
    BY <1>1, <2>1, MergeKnown DEF RequestsBounded
<1>4. CASE Closing
  <2>1. Len(call.parts) >= 2 /\ call.requests + Len(call.parts) <= 2 * chunks + Out
    BY <1>4 DEF MergeInv, CloseInv
  <2>. QED
    BY <1>1, <2>1, MergeKnown, SMTT(20) DEF RequestsBounded
<1>5. CASE Rounding
  <2>1. /\ call.next \in 1..(Len(call.parts) + 1)
        /\ call.next > Len(call.parts) => Len(call.out) >= 2
        /\ call.requests + LeftOver <= 2 * chunks + Out
    BY <1>5 DEF MergeInv, RoundInv
  <2>2. /\ call.requests \in Nat /\ chunks \in Nat /\ call.next \in Nat
        /\ Len(call.parts) \in Nat /\ Len(call.out) \in Nat
    BY MergeKnown
  <2>3. LeftOver \in Int
    BY <2>2 DEF LeftOver
  <2>4. LeftOver >= 1 + Out
    <3>1. CASE At("round")
      <4>1. LeftOver >= 1
        BY <2>1, <2>2 DEF LeftOver
      <4>2. Out = 0
        BY <1>1, <3>1 DEF At
      <4>. QED
        BY <2>3, <4>1, <4>2
    <3>2. CASE ~At("round")
      <4>1. call.next < call.group.last /\ call.group.last <= Len(call.parts) /\ call.group.last \in Nat
        BY <1>5, <3>2, MergeKnown DEF Rounding, MergeInv, GroupInv
      <4>2. LeftOver >= 2
        BY <2>2, <4>1 DEF LeftOver
      <4>. QED
        BY <1>1, <2>3, <4>2
    <3>. QED
      BY <3>1, <3>2
  <2>5. \A q, c, x, o \in Int : q + x <= 2 * c + o /\ x >= 1 + o => q <= 2 * c - 1
    OBVIOUS
  <2>6. Out \in Int
    BY <1>1
  <2>. QED
    BY <2>1, <2>2, <2>3, <2>4, <2>5, <2>6 DEF RequestsBounded
<1>. QED
  BY <1>2, <1>3, <1>4, <1>5, MergeKnown DEF Mapping, Closing, Rounding, Asking, At

\* All the chunks, in the order of the input.
LEMMA SegmentOfAll ==
    ASSUME NEW n \in Nat
    PROVE  Segment(0, n) = [i \in 1..n |-> i]
  BY DEF Segment

\* At first no chunk was asked.
LEMMA InitMerges == Init => MergeInv
<1> SUFFICES ASSUME Init PROVE MergeInv
  OBVIOUS
<1>1. /\ call.pc = "ask" /\ call.parts = <<>> /\ call.out = <<>> /\ call.group = NoGroup /\ call.next = 1
      /\ call.requests = 0 /\ call.usage = 0 /\ call.status = "none"
  BY DEF Init
<1>2. chunks \in Nat \ {0} /\ NoGroup \in [first : Nat, last : Nat]
  BY HttpCallAssumption DEF Init, NoGroup
<1>3. Out = 0 /\ Len(call.parts) = 0 /\ ~Merging
  BY <1>1 DEF Out, At, Merging
<1>4. MapInv
  BY <1>1, <1>2, <1>3, NoneDivided DEF MapInv
<1>5. ~Closing /\ ~Rounding /\ ~At("write") /\ ~At("ended")
  BY <1>1, <1>3 DEF Closing, Rounding, At
<1>. QED
  BY <1>1, <1>2, <1>3, <1>4, <1>5
     DEF MergeInv, Pieces, CloseInv, RoundInv, GroupInv, WriteInv, CostInv, AnswerComplete, InOrder,
         UsageComplete, MergeFits

\* The attempt ends, and with an answer only when that is being written.
LEMMA EndMerges ==
    ASSUME IInv, MergeInv, chunks' = chunks, call'.pc = "ended",
           call'.parts = call.parts, call'.out = call.out, call'.group = call.group,
           call'.next = call.next, call'.requests = call.requests, call'.usage = call.usage,
           call'.status = "ok" => At("write")
    PROVE  MergeInv'
<1>1. RequestsBounded'
  BY CheapSoFar DEF RequestsBounded
<1>2. /\ ~At("ask")' /\ ~At("ready")' /\ ~At("sent")' /\ ~At("merge")' /\ ~At("round")' /\ ~At("write")'
      /\ At("ended")' /\ ~Asking' /\ (Merging' <=> Merging)
  BY DEF At, Asking, Merging
<1>3. Pieces'
  BY DEF MergeInv, Pieces
<1>4. MergeFits'
  BY <1>2 DEF MergeInv, MergeFits, PartsOf
<1>5. InOrder'
  <2>1. At("write") => call.parts[1].from = [i \in 1..chunks |-> i] /\ Len(call.parts) = 1
    BY SegmentOfAll, MergeKnown DEF MergeInv, WriteInv
  <2>. QED
    BY <2>1 DEF InOrder
<1>6. UsageComplete'
  <2>1. At("write") => call.usage = call.requests
    BY MergeKnown DEF MergeInv, CostInv, Out, At
  <2>. QED
    BY <2>1 DEF UsageComplete
<1>. QED
  BY <1>1, <1>2, <1>3, <1>4, <1>5, <1>6
     DEF MergeInv, MapInv, CloseInv, RoundInv, GroupInv, WriteInv, CostInv, AnswerComplete, Mapping, Closing,
         Rounding

\* A request goes its way to the model, and only one that is sent counts.
LEMMA AskMerges ==
    ASSUME IInv, MergeInv, chunks' = chunks, Asking, Asking',
           call'.parts = call.parts, call'.out = call.out, call'.group = call.group,
           call'.next = call.next, call'.usage = call.usage, call'.status = "none",
           call'.requests \in Nat, call'.requests = call.requests + Out' - Out
    PROVE  MergeInv'
<1>1. Out \in {0, 1} /\ Out' \in {0, 1}
  BY DEF Out
<1>2. /\ ~At("merge") /\ ~At("round") /\ ~At("write") /\ ~At("ended")
      /\ ~At("merge")' /\ ~At("round")' /\ ~At("write")' /\ ~At("ended")'
      /\ call'.pc \in {"ask", "ready", "sent"}
  BY DEF Asking, At
<1>3. /\ Merging' <=> Merging
      /\ Everything' = Everything
  BY DEF Merging, Everything
<1>4. (Mapping' <=> Mapping) /\ (Closing' <=> Closing) /\ (Rounding' <=> Rounding)
  BY <1>2, <1>3 DEF Mapping, Closing, Rounding
<1>5. Pieces'
  BY <1>2 DEF MergeInv, Pieces
<1>6. MapInv'
  BY <1>1, <1>4, MergeKnown DEF MergeInv, MapInv
<1>7. CloseInv'
  <2>1. Closing => /\ Len(call.parts) >= 2 /\ Divided(call.parts, chunks)
                   /\ call.requests + Len(call.parts) <= 2 * chunks + Out
    BY DEF MergeInv, CloseInv
  <2>2. /\ call.requests \in Nat /\ chunks \in Nat /\ Len(call.parts) \in Nat
    BY MergeKnown
  <2>3. Closing => call'.requests + Len(call.parts) <= 2 * chunks + Out'
    BY <1>1, <2>1, <2>2, SMTT(20)
  <2>. QED
    BY <1>4, <2>1, <2>3 DEF CloseInv
<1>8. RoundInv'
  <2>1. LeftOver' = LeftOver /\ LeftOver \in Int
    BY MergeKnown DEF LeftOver
  <2>2. Rounding => call'.requests + LeftOver <= 2 * chunks + Out'
    <3>1. Rounding => call.requests + LeftOver <= 2 * chunks + Out
      BY DEF MergeInv, RoundInv
    <3>2. call.requests \in Nat /\ chunks \in Nat
      BY MergeKnown
    <3>. QED
      BY <1>1, <2>1, <3>1, <3>2
  <2>. QED
    BY <1>4, <2>1, <2>2 DEF MergeInv, RoundInv
<1>9. GroupInv'
  BY <1>3, <1>2 DEF MergeInv, GroupInv
<1>10. WriteInv' /\ CostInv'
  <2>1. call.requests = call.usage + Out
    BY <1>2 DEF MergeInv, CostInv
  <2>2. call.usage \in Nat
    BY MergeKnown
  <2>3. call'.requests = call'.usage + Out'
    BY <1>1, <2>1, <2>2
  <2>. QED
    BY <1>2, <2>3 DEF WriteInv, CostInv, At
<1>11. AnswerComplete' /\ MergeFits'
  BY <1>3 DEF MergeInv, AnswerComplete, InOrder, UsageComplete, MergeFits, PartsOf
<1>. QED
  BY <1>5, <1>6, <1>7, <1>8, <1>9, <1>10, <1>11 DEF MergeInv

(***************************************************************************)
(* The answers                                                             *)
(***************************************************************************)

\* The step of an answer, but for what it notes of the model.
LEMMA AnswerIs ==
    ASSUME IInv, Answer
    PROVE  /\ chunks' = chunks /\ call.pc = "sent"
           /\ \E size \in Sizes :
                 LET answered == IF Merging THEN MergeAnswer(size) ELSE MapAnswer(size)
                 IN  /\ call'.pc = answered.pc /\ call'.parts = answered.parts /\ call'.out = answered.out
                     /\ call'.group = answered.group /\ call'.next = answered.next
                     /\ call'.requests = answered.requests /\ call'.status = answered.status
                     /\ DOMAIN answered = Fields
                     /\ call'.usage = answered.usage + 1
<1>1. chunks' = chunks /\ call.pc = "sent" /\ DOMAIN call = Fields
  BY Known DEF Answer, settings, At
<1>2. PICK size \in Sizes :
         call' = [(IF Merging THEN MergeAnswer(size) ELSE MapAnswer(size))
                     EXCEPT !.usage = @ + 1, !.healthy = TRUE,
                            !.noted = IF call.healthy THEN @ ELSE "healthy"]
  BY DEF Answer
<1>. DEFINE answered == IF Merging THEN MergeAnswer(size) ELSE MapAnswer(size)
<1>3. DOMAIN answered = Fields
  BY <1>1 DEF MergeAnswer, MapAnswer, Fields
<1>4. call' = [answered EXCEPT !.usage = @ + 1, !.healthy = TRUE,
                               !.noted = IF call.healthy THEN @ ELSE "healthy"]
  BY <1>2
<1>. HIDE DEF answered
<1>5. /\ call'.pc = answered.pc /\ call'.parts = answered.parts /\ call'.out = answered.out
      /\ call'.group = answered.group /\ call'.next = answered.next
      /\ call'.requests = answered.requests /\ call'.status = answered.status
      /\ call'.usage = answered.usage + 1
  BY <1>3, <1>4 DEF Fields
<1>. QED
  BY <1>1, <1>3, <1>5 DEF answered

\* The answer about a chunk is a piece of its own, behind the others.
LEMMA MapAnswerMerges ==
    ASSUME IInv, MergeInv, Answer, ~Merging
    PROVE  MergeInv'
<1>. DEFINE n == Len(call.parts)
<1>1. PICK size \in Sizes :
         /\ call'.parts = Append(call.parts, [from |-> <<n + 1>>, size |-> size])
         /\ call'.pc = IF Len(call'.parts) < chunks THEN "ask" ELSE IF chunks = 1 THEN "write" ELSE "merge"
         /\ call'.out = call.out /\ call'.group = call.group /\ call'.next = call.next
         /\ call'.requests = call.requests /\ call'.status = call.status /\ call'.usage = call.usage + 1
  <2>1. PICK size \in Sizes :
            /\ call'.pc = MapAnswer(size).pc /\ call'.parts = MapAnswer(size).parts
            /\ call'.out = MapAnswer(size).out
            /\ call'.group = MapAnswer(size).group /\ call'.next = MapAnswer(size).next
            /\ call'.requests = MapAnswer(size).requests /\ call'.status = MapAnswer(size).status
            /\ call'.usage = MapAnswer(size).usage + 1
    BY AnswerIs
  <2>. QED
    BY <2>1, Known DEF MapAnswer, Fields
<1>2. /\ chunks' = chunks /\ call.pc = "sent" /\ call.status = "none"
      /\ n \in Nat /\ size \in Nat /\ chunks \in Nat \ {0} /\ call.requests \in Nat /\ call.usage \in Nat
      /\ call.parts \in Seq(Piece) /\ call.out \in Seq(Piece)
  BY AnswerIs, MergeKnown
<1>3. Out = 1 /\ Mapping /\ call.group = NoGroup
  BY <1>2 DEF Out, At, Mapping, Asking, Merging
<1>4. call.requests = n + 1 /\ n < chunks /\ Divided(call.parts, n) /\ call.requests = call.usage + 1
  BY <1>2, <1>3 DEF MergeInv, MapInv, CostInv, At
<1>5. [from |-> <<n + 1>>, size |-> size] \in Piece /\ <<n + 1>> = Segment(n, n + 1)
  <2>1. <<n + 1>> = Segment(n, n + 1)
    BY <1>2, SegmentOfOne
  <2>. HIDE DEF n
  <2>2. <<n + 1>> \in Seq(Nat)
    BY <1>2
  <2>. QED
    BY <1>2, <2>1, <2>2 DEF Piece
<1>6. /\ Divided(call'.parts, n + 1) /\ call'.parts \in Seq(Piece) /\ Len(call'.parts) = n + 1
  <2>. DEFINE p == [from |-> <<n + 1>>, size |-> size]
  <2>1. p \in Piece /\ p.from = Segment(n, n + 1)
    BY <1>5
  <2>2. n + 1 \in Nat /\ n < n + 1 /\ call'.parts = Append(call.parts, p)
    BY <1>1, <1>2
  <2>. HIDE DEF p, n
  <2>. QED
    BY <1>2, <1>4, <2>1, <2>2, DividedOneMore DEF n
<1>. HIDE DEF n
<1>7. /\ call'.pc \in {"ask", "merge", "write"} /\ ~Merging' /\ Out' = 0
  BY <1>1, <1>3 DEF Merging, Out, At
<1>8. Pieces'
  BY <1>1, <1>2, <1>6, <1>7, MergeKnown, SMTT(20) DEF Pieces
<1>9. ~Rounding' /\ (Closing' <=> call'.pc = "merge") /\ (Mapping' <=> call'.pc = "ask")
  BY <1>7 DEF Rounding, Closing, Mapping, Asking, At
<1>10. MapInv'
  BY <1>1, <1>2, <1>4, <1>6, <1>7, <1>9 DEF MapInv
<1>11. CloseInv'
  <2>1. call'.pc = "merge" => chunks >= 2 /\ n + 1 = chunks
    BY <1>1, <1>2, <1>4, <1>6
  <2>. QED
    <3>1. call'.pc = "merge" => /\ Len(call'.parts) >= 2 /\ Divided(call'.parts, chunks)
                                /\ call'.requests + Len(call'.parts) <= 2 * chunks
      <4>1. call'.requests = n + 1 /\ Len(call'.parts) = n + 1 /\ Divided(call'.parts, n + 1)
        BY <1>1, <1>4, <1>6
      <4>. QED
        BY <1>2, <2>1, <4>1
    <3>. QED
      BY <1>2, <1>7, <1>9, <3>1 DEF CloseInv
<1>12. WriteInv' /\ CostInv'
  <2>1. call'.pc = "write" => chunks = 1 /\ n = 0
    BY <1>1, <1>2, <1>4, <1>6
  <2>2. call'.pc = "write" => Len(call'.parts) = 1 /\ call'.parts[1].from = Segment(0, 1)
    BY <1>6, <2>1, DividedAlone
  <2>3. call'.requests = call'.usage
    BY <1>1, <1>2, <1>4
  <2>. QED
    BY <1>1, <1>2, <1>4, <1>7, <2>1, <2>2, <2>3 DEF WriteInv, CostInv, RequestsBounded, At
<1>13. AnswerComplete' /\ MergeFits'
  BY <1>1, <1>2, <1>7 DEF AnswerComplete, InOrder, UsageComplete, MergeFits
<1>. QED
  BY <1>7, <1>8, <1>9, <1>10, <1>11, <1>12, <1>13 DEF MergeInv, RoundInv, GroupInv

\* The answer to a group is about the chunks of its pieces.
LEMMA GroupAnswer ==
    ASSUME IInv, MergeInv, NEW n \in Nat, NEW e, Cut(call.parts, n, e), NEW size \in Sizes,
           call.group.first \in 1..Len(call.parts), call.group.last \in call.group.first..Len(call.parts)
    PROVE  LET p == [from |-> FlattenSeq([i \in DOMAIN PartsOf(call.group) |-> PartsOf(call.group)[i].from]),
                     size |-> size]
           IN  /\ p \in Piece
               /\ p.from = Segment(e[call.group.first - 1], e[call.group.last])
               /\ e[call.group.first - 1] \in Nat /\ e[call.group.last] \in Nat
               /\ e[call.group.first - 1] < e[call.group.last]
<1>. DEFINE a == call.group.first
            b == call.group.last
            from == FlattenSeq([i \in DOMAIN PartsOf(call.group) |-> PartsOf(call.group)[i].from])
<1>1. call.parts \in Seq(Piece) /\ size \in Nat
  BY MergeKnown
<1>2. /\ from = Segment(e[a - 1], e[b]) /\ Segment(e[a - 1], e[b]) \in Seq(Nat)
      /\ e[a - 1] \in Nat /\ e[b] \in Nat /\ e[a - 1] < e[b]
  BY <1>1, GroupJoins, ZenonT(40) DEF PartsOf
<1>. HIDE DEF from
<1>3. [from |-> from, size |-> size] \in Piece
  BY <1>1, <1>2 DEF Piece
<1>. QED
  BY <1>2, <1>3 DEF from

\* The answer about all the pieces is the one that is written.
LEMMA LastAnswerMerges ==
    ASSUME IInv, MergeInv, Answer, Merging, call.group = Everything
    PROVE  MergeInv'
<1>. DEFINE from == FlattenSeq([i \in DOMAIN PartsOf(call.group) |-> PartsOf(call.group)[i].from])
<1>1. PICK size \in Sizes :
         /\ call'.parts = <<[from |-> from, size |-> size]>>
         /\ call'.pc = "write" /\ call'.group = NoGroup
         /\ call'.out = call.out /\ call'.next = call.next
         /\ call'.requests = call.requests /\ call'.status = call.status /\ call'.usage = call.usage + 1
  <2>1. PICK size \in Sizes :
            /\ call'.pc = MergeAnswer(size).pc /\ call'.parts = MergeAnswer(size).parts
            /\ call'.out = MergeAnswer(size).out
            /\ call'.group = MergeAnswer(size).group /\ call'.next = MergeAnswer(size).next
            /\ call'.requests = MergeAnswer(size).requests /\ call'.status = MergeAnswer(size).status
            /\ call'.usage = MergeAnswer(size).usage + 1
    BY AnswerIs
  <2>. HIDE DEF from
  <2>2. MergeAnswer(size) = [call EXCEPT !.group = NoGroup, !.parts = <<[from |-> from, size |-> size]>>,
                                         !.pc = "write"]
    BY DEF MergeAnswer, from
  <2>. QED
    BY <2>1, <2>2, Known DEF Fields
<1>2. /\ chunks' = chunks /\ call.pc = "sent" /\ call.status = "none"
      /\ chunks \in Nat \ {0} /\ call.requests \in Nat /\ call.usage \in Nat
      /\ call.parts \in Seq(Piece) /\ call.out \in Seq(Piece) /\ Len(call.parts) \in Nat
  BY AnswerIs, MergeKnown
<1>3. Out = 1 /\ Closing
  BY <1>2 DEF Out, At, Closing, Asking
<1>4. /\ Len(call.parts) >= 2 /\ call.requests + Len(call.parts) <= 2 * chunks + 1
      /\ Divided(call.parts, chunks) /\ call.requests = call.usage + 1
  BY <1>2, <1>3 DEF MergeInv, CloseInv, CostInv, At
<1>5. PICK e : Cut(call.parts, chunks, e)
  BY <1>4 DEF Divided
<1>6. call.group.first = 1 /\ call.group.last = Len(call.parts)
  BY DEF Everything
<1>7. /\ [from |-> from, size |-> size] \in Piece
      /\ from = Segment(e[1 - 1], e[Len(call.parts)])
  <2>1. call.group.first \in 1..Len(call.parts) /\ call.group.last \in call.group.first..Len(call.parts)
    BY <1>2, <1>4, <1>6
  <2>. HIDE DEF from
  <2>2. /\ [from |-> from, size |-> size] \in Piece
        /\ [from |-> from, size |-> size].from = Segment(e[call.group.first - 1], e[call.group.last])
    BY <1>2, <1>5, <2>1, GroupAnswer DEF from
  <2>. QED
    BY <1>6, <2>2
<1>8. from = Segment(0, chunks)
  BY <1>5, <1>7 DEF Cut
<1>. HIDE DEF from
<1>9. call'.parts \in Seq(Piece) /\ Len(call'.parts) = 1 /\ call'.parts[1].from = Segment(0, chunks)
  BY <1>1, <1>7, <1>8
<1>10. ~Merging' /\ Out' = 0 /\ ~Mapping' /\ ~Closing' /\ ~Rounding'
  BY <1>1 DEF Merging, Out, At, Mapping, Closing, Rounding, Asking
<1>11. Pieces'
  <2>1. NoGroup \in [first : Nat, last : Nat]
    BY DEF NoGroup
  <2>. QED
    BY <1>1, <1>2, <1>9, <2>1, MergeKnown, SMTT(20) DEF Pieces
<1>12. WriteInv' /\ CostInv'
  BY <1>1, <1>2, <1>4, <1>9, <1>10 DEF WriteInv, CostInv, RequestsBounded, At
<1>13. AnswerComplete' /\ MergeFits'
  BY <1>1, <1>2, <1>10 DEF AnswerComplete, InOrder, UsageComplete, MergeFits
<1>. QED
  BY <1>10, <1>11, <1>12, <1>13 DEF MergeInv, MapInv, CloseInv, RoundInv, GroupInv

\* The answer about a group takes the place of its pieces in the next list.
LEMMA GroupAnswerMerges ==
    ASSUME IInv, MergeInv, Answer, Merging, call.group # Everything
    PROVE  MergeInv'
<1>. DEFINE from == FlattenSeq([i \in DOMAIN PartsOf(call.group) |-> PartsOf(call.group)[i].from])
            last == call.group.last
<1>1. PICK size \in Sizes :
         /\ call'.out = Append(call.out, [from |-> from, size |-> size])
         /\ call'.pc = "round" /\ call'.group = NoGroup
         /\ call'.parts = call.parts /\ call'.next = last + 1
         /\ call'.requests = call.requests /\ call'.status = call.status /\ call'.usage = call.usage + 1
  <2>1. PICK size \in Sizes :
            /\ call'.pc = MergeAnswer(size).pc /\ call'.parts = MergeAnswer(size).parts
            /\ call'.out = MergeAnswer(size).out
            /\ call'.group = MergeAnswer(size).group /\ call'.next = MergeAnswer(size).next
            /\ call'.requests = MergeAnswer(size).requests /\ call'.status = MergeAnswer(size).status
            /\ call'.usage = MergeAnswer(size).usage + 1
    BY AnswerIs
  <2>. HIDE DEF from
  <2>2. MergeAnswer(size) = [call EXCEPT !.group = NoGroup,
                                         !.out = Append(@, [from |-> from, size |-> size]),
                                         !.next = last + 1, !.pc = "round"]
    BY DEF MergeAnswer, Merged, from
  <2>. QED
    BY <2>1, <2>2, Known DEF Fields
<1>2. /\ chunks' = chunks /\ call.pc = "sent" /\ call.status = "none"
      /\ chunks \in Nat \ {0} /\ call.requests \in Nat /\ call.usage \in Nat
      /\ call.parts \in Seq(Piece) /\ call.out \in Seq(Piece) /\ Len(call.parts) \in Nat /\ Len(call.out) \in Nat
      /\ call.next \in Nat /\ last \in Nat
  BY AnswerIs, MergeKnown
<1>3. Out = 1 /\ Rounding /\ Asking
  BY <1>2 DEF Out, At, Rounding, Asking
<1>4. /\ call.next \in 1..(Len(call.parts) + 1)
      /\ call.next > 1 => Len(call.out) >= 1
      /\ SizeOf(call.parts, Header) > Room
      /\ call.requests + (Len(call.out) + Len(call.parts) - call.next + 1) <= 2 * chunks + 1
      /\ call.requests = call.usage + 1
  BY <1>2, <1>3 DEF MergeInv, RoundInv, LeftOver, CostInv, At
<1>5. /\ call.group.first = call.next /\ call.next < last /\ last <= Len(call.parts)
      /\ call.next = 1 => last < Len(call.parts)
  BY <1>3 DEF MergeInv, GroupInv
<1>6. PICK e \in [0..Len(call.parts) -> Nat] :
         Cut(call.parts, chunks, e) /\ Divided(call.out, e[call.next - 1])
  BY <1>3 DEF MergeInv, RoundInv
<1>7. /\ [from |-> from, size |-> size] \in Piece
      /\ from = Segment(e[call.next - 1], e[last])
      /\ e[call.next - 1] \in Nat /\ e[last] \in Nat /\ e[call.next - 1] < e[last]
  <2>1. call.group.first \in 1..Len(call.parts) /\ call.group.last \in call.group.first..Len(call.parts)
    BY <1>2, <1>4, <1>5, SMTT(20)
  <2>. HIDE DEF from
  <2>2. /\ [from |-> from, size |-> size] \in Piece
        /\ [from |-> from, size |-> size].from = Segment(e[call.group.first - 1], e[call.group.last])
        /\ e[call.group.first - 1] \in Nat /\ e[call.group.last] \in Nat
        /\ e[call.group.first - 1] < e[call.group.last]
    BY <1>2, <1>6, <2>1, GroupAnswer DEF from
  <2>. QED
    BY <1>5, <2>2
<1>. HIDE DEF from, last
<1>8. /\ Divided(call'.out, e[last]) /\ call'.out \in Seq(Piece) /\ Len(call'.out) = Len(call.out) + 1
  <2>. DEFINE p == [from |-> from, size |-> size]
  <2>1. p \in Piece /\ p.from = Segment(e[call.next - 1], e[last]) /\ call'.out = Append(call.out, p)
    BY <1>1, <1>7
  <2>. HIDE DEF p
  <2>. QED
    BY <1>2, <1>6, <1>7, <2>1, DividedOneMore
<1>9. ~Merging' /\ Out' = 0 /\ ~Mapping' /\ ~Closing' /\ Rounding'
  BY <1>1 DEF Merging, Out, At, Mapping, Closing, Rounding, Asking
<1>10. Pieces'
  <2>1. NoGroup \in [first : Nat, last : Nat]
    BY DEF NoGroup
  <2>. QED
    BY <1>1, <1>2, <1>8, <2>1, MergeKnown, SMTT(20) DEF Pieces
<1>11. RoundInv'
  <2>1. call'.next \in 1..(Len(call'.parts) + 1) /\ Len(call'.out) >= 1
    BY <1>1, <1>2, <1>5, <1>8
  <2>2. call'.next > Len(call'.parts) => Len(call'.out) >= 2
    <3>1. call'.next > Len(call'.parts) => call.next # 1
      BY <1>1, <1>2, <1>5
    <3>. QED
      BY <1>2, <1>4, <1>8, <3>1
  <2>3. LeftOver' = Len(call.out) + 1 + Len(call.parts) - last
    BY <1>1, <1>2, <1>8 DEF LeftOver
  <2>4. call'.requests + LeftOver' <= 2 * chunks
    <3>1. call.requests + (Len(call.out) + 1 + Len(call.parts) - last) <= 2 * chunks
      <4>. DEFINE o == Len(call.out)
                  p == Len(call.parts)
                  f == call.next
                  q == call.requests
      <4>1. o \in Nat /\ p \in Nat /\ f \in Nat /\ q \in Nat /\ last \in Nat /\ chunks \in Nat
        BY <1>2
      <4>2. q + (o + p - f + 1) <= 2 * chunks + 1 /\ f < last
        BY <1>4, <1>5
      <4>. HIDE DEF o, p, f, q
      <4>3. q + (o + 1 + p - last) <= 2 * chunks
        BY <4>1, <4>2
      <4>. QED
        BY <4>3 DEF o, p, q
    <3>. QED
      BY <1>1, <2>3, <3>1
  <2>5. call'.next - 1 = last
    BY <1>1, <1>2
  <2>6. \E d \in [0..Len(call'.parts) -> Nat] :
           Cut(call'.parts, chunks', d) /\ Divided(call'.out, d[call'.next - 1])
    BY <1>1, <1>2, <1>6, <1>8, <2>5
  <2>7. SizeOf(call'.parts, Header) > Room
    BY <1>1, <1>4
  <2>8. call'.requests + LeftOver' <= 2 * chunks' + Out'
    BY <1>2, <1>9, <2>4
  <2>. QED
    BY <2>1, <2>2, <2>6, <2>7, <2>8 DEF RoundInv
<1>12. WriteInv' /\ CostInv'
  <2>1. call'.requests = call'.usage + Out'
    <3>1. call'.requests = call'.usage /\ call'.requests \in Nat
      BY <1>1, <1>2, <1>4
    <3>. QED
      BY <1>9, <3>1
  <2>2. call'.pc = "round"
    BY <1>1
  <2>. QED
    BY <2>1, <2>2 DEF WriteInv, CostInv, At
<1>13. AnswerComplete' /\ MergeFits'
  BY <1>1, <1>2, <1>9 DEF AnswerComplete, InOrder, UsageComplete, MergeFits
<1>. QED
  BY <1>9, <1>10, <1>11, <1>12, <1>13 DEF MergeInv, MapInv, CloseInv, GroupInv

(***************************************************************************)
(* The rounds of the merge                                                 *)
(***************************************************************************)

\* The group that is read holds its first piece at least, and all of it fits.
LEMMA GroupSound ==
    ASSUME IInv, MergeInv, GroupRead, call.next >= 1
    PROVE  /\ StopAt \in Nat /\ call.next < StopAt /\ StopAt <= Len(call.parts) + 1
           /\ call.next <= Len(call.parts)
           /\ \A i \in call.next..(StopAt - 1) : Joins(i)
<1>. DEFINE n == Len(call.parts)
            S == {i \in Rest : TooBig(i) \/ ~Joins(i)}
<1>1. n \in Nat /\ call.next \in Nat /\ call.parts \in Seq(Piece)
  BY MergeKnown
<1>2. S \subseteq Nat /\ S \cup {n + 1} \subseteq Nat /\ S \cup {n + 1} # {}
  BY <1>1 DEF Rest
<1>3. StopAt \in S \cup {n + 1} /\ \A i \in S \cup {n + 1} : StopAt <= i
  BY <1>2, MinOf DEF StopAt
<1>4. StopAt \in Nat /\ StopAt <= n + 1
  BY <1>2, <1>3
<1>5. call.next <= n
  BY <1>1 DEF GroupRead, Rest
<1>6. StopAt # call.next
  <2>. SUFFICES ASSUME StopAt = call.next PROVE FALSE
    OBVIOUS
  <2>1. StopAt \in Rest
    BY <1>1, <1>5 DEF Rest
  <2>2. ~TooBig(call.next) /\ StopAt # n + 1
    BY <1>1, <1>5, <2>1 DEF GroupRead
  <2>3. ~Joins(call.next)
    BY <1>3, <2>2
  <2>4. SubSeq(call.parts, call.next, call.next) = <<call.parts[call.next]>>
    <3>. DEFINE m == call.next
                s == SubSeq(call.parts, m, m)
    <3>1. m \in Int /\ m \in 1..n /\ m <= m /\ (m - m) + 1 = 1
      BY <1>1, <1>5
    <3>2. call.parts[m] \in Piece /\ \A i \in m..m : call.parts[i] \in Piece
      BY <1>1, <3>1, ElementOfSeq
    <3>. HIDE DEF m
    <3>3. /\ s \in Seq(Piece) /\ Len(s) = IF m <= m THEN m - m + 1 ELSE 0
          /\ \A i \in 1..(m - m + 1) : s[i] = call.parts[m + i - 1]
      BY <3>1, <3>2, SubSeqProperties
    <3>. HIDE DEF s
    <3>4. Len(s) = 1 /\ s[1] = call.parts[m]
      BY <3>1, <3>3
    <3>5. <<call.parts[m]>> \in Seq(Piece) /\ Len(<<call.parts[m]>>) = 1
      BY <3>2
    <3>6. \A i \in 1..1 : s[i] = <<call.parts[m]>>[i]
      BY <3>4
    <3>7. s = <<call.parts[m]>>
      BY <3>3, <3>4, <3>5, <3>6, SeqEqual
    <3>. QED
      BY <3>7 DEF s, m
  <2>5. <<call.parts[call.next]>> \in Seq(Piece)
    <3>1. call.parts[call.next] \in Piece
      BY <1>1, <1>5, ElementOfSeq
    <3>. QED
      BY <3>1
  <2>6. SizeOf(<<call.parts[call.next]>>, Reserve) \in Nat /\ Room \in Nat
    BY <2>5, SizeGrows, MergeKnown
  <2>7. ~(SizeOf(<<call.parts[call.next]>>, Reserve) > Room)
    BY <2>2 DEF TooBig
  <2>8. ~(SizeOf(<<call.parts[call.next]>>, Reserve) <= Room)
    BY <2>3, <2>4 DEF Joins
  <2>. QED
    BY <2>6, <2>7, <2>8
<1>7. StopAt >= call.next
  BY <1>1, <1>3, <1>5 DEF Rest
<1>8. ASSUME NEW i \in call.next..(StopAt - 1)
      PROVE  Joins(i)
  <2>1. i \in Rest /\ ~(StopAt <= i)
    BY <1>1, <1>4 DEF Rest
  <2>2. i \notin S
    BY <1>3, <2>1
  <2>. QED
    BY <2>1, <2>2
<1>. HIDE DEF S
<1>. QED
  BY <1>1, <1>4, <1>5, <1>6, <1>7, <1>8

\* The first group of a round is not everything: all of it at once did not fit.
LEMMA FirstGroupStops ==
    ASSUME IInv, MergeInv, Rounding, GroupRead, call.next = 1
    PROVE  StopAt <= Len(call.parts)
<1>1. call.parts \in Seq(Piece) /\ Len(call.parts) \in Nat /\ Room \in Nat
  BY MergeKnown
<1>2. /\ StopAt \in Nat /\ call.next < StopAt /\ StopAt <= Len(call.parts) + 1
      /\ \A i \in call.next..(StopAt - 1) : Joins(i)
  BY GroupSound
<1>3. SizeOf(call.parts, Header) > Room
  BY DEF MergeInv, RoundInv
<1>4. SizeOf(call.parts, Reserve) \in Nat /\ SizeOf(call.parts, Header) \in Nat
      /\ SizeOf(call.parts, Header) <= SizeOf(call.parts, Reserve)
  BY <1>1, SizeGrows
<1>5. SubSeq(call.parts, 1, Len(call.parts)) = call.parts
  BY <1>1, SubSeqFull
<1>6. ~Joins(Len(call.parts))
  <2>1. ~(SizeOf(call.parts, Reserve) <= Room)
    BY <1>1, <1>3, <1>4
  <2>. QED
    BY <1>5, <2>1 DEF Joins
<1>7. Len(call.parts) \notin call.next..(StopAt - 1)
  BY <1>2, <1>6
<1>. QED
  BY <1>1, <1>2, <1>7

\* merge: everything is asked at once, or the first round begins, or no more rounds are allowed.
LEMMA MergeMerges ==
    ASSUME IInv, MergeInv, Merge, ~Stop("ERROR")
    PROVE  MergeInv'
<1>1. /\ chunks' = chunks /\ call.pc = "merge" /\ DOMAIN call = Fields /\ call.status = "none"
      /\ chunks \in Nat \ {0} /\ call.requests \in Nat /\ call.usage \in Nat /\ call.next \in Nat
      /\ call.parts \in Seq(Piece) /\ call.out \in Seq(Piece) /\ Len(call.parts) \in Nat
      /\ call.group \in [first : Nat, last : Nat] /\ Room \in Nat
  BY MergeKnown DEF Merge, settings, At
<1>2. Closing /\ Out = 0 /\ ~Merging
  BY <1>1 DEF Closing, Out, At, Asking, MergeInv, GroupInv
<1>3. /\ Len(call.parts) >= 2 /\ call.requests + Len(call.parts) <= 2 * chunks
      /\ Divided(call.parts, chunks) /\ call.requests = call.usage
  <2>1. /\ Len(call.parts) >= 2 /\ call.requests + Len(call.parts) <= 2 * chunks + Out
        /\ Divided(call.parts, chunks) /\ call.requests = call.usage + Out
    BY <1>1, <1>2 DEF MergeInv, CloseInv, CostInv, At
  <2>. QED
    BY <1>1, <1>2, <2>1
<1>4. CASE /\ SizeOf(call.parts, Header) <= Room
           /\ call' = [call EXCEPT !.pc = "ask", !.group = Everything]
  <2>1. /\ call'.pc = "ask" /\ call'.group = Everything /\ call'.parts = call.parts /\ call'.out = call.out
        /\ call'.next = call.next /\ call'.requests = call.requests /\ call'.usage = call.usage
        /\ call'.status = "none"
    BY <1>1, <1>4 DEF Fields
  <2>2. Everything' = Everything /\ Everything # NoGroup
    BY <2>1 DEF Everything, NoGroup
  <2>3. Merging' /\ Out' = 0 /\ Asking' /\ ~Mapping' /\ Closing' /\ ~Rounding'
    BY <2>1, <2>2 DEF Merging, Out, At, Mapping, Closing, Rounding, Asking
  <2>4. Pieces'
    <3>1. Everything \in [first : Nat, last : Nat]
      BY <1>1 DEF Everything
    <3>. QED
      BY <1>1, <2>1, <3>1 DEF Pieces
  <2>5. CloseInv'
    BY <1>1, <1>3, <2>1, <2>3 DEF CloseInv
  <2>6. GroupInv' /\ WriteInv' /\ CostInv'
    BY <1>1, <1>3, <2>1, <2>2, <2>3 DEF GroupInv, WriteInv, CostInv, At
  <2>7. MergeFits'
    <3>1. call'.group.first = 1 /\ call'.group.last = Len(call.parts)
      BY <2>1 DEF Everything
    <3>2. PartsOf(call.group)' = call.parts
      BY <1>1, <2>1, <3>1, SubSeqFull DEF PartsOf
    <3>. QED
      BY <1>4, <3>2 DEF MergeFits
  <2>8. AnswerComplete'
    BY <2>1 DEF AnswerComplete, InOrder, UsageComplete
  <2>. QED
    BY <2>3, <2>4, <2>5, <2>6, <2>7, <2>8 DEF MergeInv, MapInv, RoundInv
<1>5. CASE /\ SizeOf(call.parts, Header) > Room
           /\ call' = [call EXCEPT !.pc = "round", !.out = <<>>, !.next = 1]
  <2>1. /\ call'.pc = "round" /\ call'.group = call.group /\ call'.parts = call.parts /\ call'.out = <<>>
        /\ call'.next = 1 /\ call'.requests = call.requests /\ call'.usage = call.usage
        /\ call'.status = "none"
    BY <1>1, <1>5 DEF Fields
  <2>2. ~Merging' /\ Out' = 0 /\ ~Asking' /\ ~Mapping' /\ ~Closing' /\ Rounding'
    BY <1>2, <2>1 DEF Merging, Out, At, Mapping, Closing, Rounding, Asking
  <2>3. Pieces'
    BY <1>1, <2>1 DEF Pieces
  <2>4. RoundInv'
    <3>1. call'.next \in 1..(Len(call'.parts) + 1) /\ ~(call'.next > 1) /\ ~(call'.next > Len(call'.parts))
      BY <1>1, <1>3, <2>1
    <3>2. LeftOver' = Len(call.parts)
      BY <1>1, <2>1 DEF LeftOver
    <3>3. PICK e \in [0..Len(call.parts) -> Nat] : Cut(call.parts, chunks, e)
      BY <1>3 DEF Divided
    <3>4. call'.next - 1 = 0 /\ e[0] = 0
      BY <2>1, <3>3 DEF Cut
    <3>5. \E d \in [0..Len(call'.parts) -> Nat] :
             Cut(call'.parts, chunks', d) /\ Divided(call'.out, d[call'.next - 1])
      BY <1>1, <2>1, <3>3, <3>4, NoneDivided
    <3>6. call'.requests + LeftOver' <= 2 * chunks' + Out'
      BY <1>1, <1>3, <2>1, <2>2, <3>2
    <3>7. SizeOf(call'.parts, Header) > Room
      BY <1>5, <2>1
    <3>. QED
      BY <3>1, <3>5, <3>6, <3>7 DEF RoundInv
  <2>5. GroupInv' /\ WriteInv' /\ CostInv'
    BY <1>1, <1>3, <2>1, <2>2 DEF GroupInv, WriteInv, CostInv, At
  <2>6. AnswerComplete' /\ MergeFits'
    BY <2>1, <2>2 DEF AnswerComplete, InOrder, UsageComplete, MergeFits
  <2>. QED
    BY <2>2, <2>3, <2>4, <2>5, <2>6 DEF MergeInv, MapInv, CloseInv
<1>. QED
  BY <1>4, <1>5 DEF Merge

\* What a round knows before it does the next group.
LEMMA RoundKnown ==
    ASSUME IInv, MergeInv, At("round")
    PROVE  /\ Rounding /\ ~Merging /\ Out = 0 /\ call.status = "none"
           /\ call.next \in 1..(Len(call.parts) + 1)
           /\ call.next > 1 => Len(call.out) >= 1
           /\ call.next > Len(call.parts) => Len(call.out) >= 2
           /\ SizeOf(call.parts, Header) > Room
           /\ call.requests + LeftOver <= 2 * chunks
           /\ call.requests = call.usage
           /\ \E e \in [0..Len(call.parts) -> Nat] :
                 Cut(call.parts, chunks, e) /\ Divided(call.out, e[call.next - 1])
<1>1. Rounding /\ ~Merging /\ Out = 0 /\ call.status = "none" /\ ~At("ended")
  BY MergeKnown DEF Rounding, Out, At, Asking, MergeInv, GroupInv
<1>2. chunks \in Nat /\ call.usage \in Nat /\ 2 * chunks + 0 = 2 * chunks /\ call.usage + 0 = call.usage
  BY MergeKnown
<1>3. call.requests + LeftOver <= 2 * chunks + Out /\ call.requests = call.usage + Out
  BY <1>1 DEF MergeInv, RoundInv, CostInv
<1>. QED
  BY <1>1, <1>2, <1>3 DEF MergeInv, RoundInv

\* A piece that has no neighbour in its group is carried over as it is.
LEMMA CarryMerges ==
    ASSUME IInv, MergeInv, CarryOver
    PROVE  MergeInv'
<1>. DEFINE p == call.parts[call.next]
<1>1. /\ At("round") /\ GroupRead /\ StopAt = call.next + 1 /\ chunks' = chunks
      /\ call' = [call EXCEPT !.out = Append(@, p), !.next = @ + 1]
  BY DEF CarryOver, GroupRead, Alone, settings
<1>2. /\ DOMAIN call = Fields /\ chunks \in Nat \ {0} /\ call.requests \in Nat /\ call.usage \in Nat
      /\ call.parts \in Seq(Piece) /\ call.out \in Seq(Piece) /\ Len(call.parts) \in Nat /\ Len(call.out) \in Nat
      /\ call.next \in Nat /\ call.group \in [first : Nat, last : Nat] /\ call.pc = "round"
  BY <1>1, MergeKnown DEF At
<1>3. /\ call.next \in 1..(Len(call.parts) + 1)
      /\ call.next > 1 => Len(call.out) >= 1
      /\ SizeOf(call.parts, Header) > Room
      /\ call.requests + LeftOver <= 2 * chunks
      /\ call.requests = call.usage /\ call.status = "none" /\ Rounding /\ ~Merging
  BY <1>1, RoundKnown
<1>4. call.next >= 1 /\ call.next <= Len(call.parts) /\ (call.next = 1 => call.next < Len(call.parts))
  <2>1. call.next >= 1
    BY <1>2, <1>3
  <2>2. call.next <= Len(call.parts)
    BY <1>1, <2>1, GroupSound
  <2>3. call.next = 1 => StopAt <= Len(call.parts)
    BY <1>1, <1>3, FirstGroupStops
  <2>. QED
    BY <1>1, <1>2, <2>1, <2>2, <2>3
<1>5. PICK e \in [0..Len(call.parts) -> Nat] :
         Cut(call.parts, chunks, e) /\ Divided(call.out, e[call.next - 1])
  BY <1>1, RoundKnown
<1>6. p \in Piece
  BY <1>2, <1>4, ElementOfSeq
<1>7. e[call.next - 1] \in Nat /\ e[call.next] \in Nat /\ e[call.next - 1] < e[call.next]
      /\ p.from = Segment(e[call.next - 1], e[call.next])
  <2>1. call.next \in 1..Len(call.parts) /\ call.next - 1 \in 0..Len(call.parts) /\ call.next \in 0..Len(call.parts)
    BY <1>2, <1>4
  <2>. QED
    BY <1>5, <2>1 DEF Cut
<1>. HIDE DEF p
<1>8. /\ call'.pc = "round" /\ call'.group = call.group /\ call'.parts = call.parts
      /\ call'.out = Append(call.out, p)
      /\ call'.next = call.next + 1 /\ call'.requests = call.requests /\ call'.usage = call.usage
      /\ call'.status = "none"
  BY <1>1, <1>2, <1>3 DEF Fields
<1>9. Divided(call'.out, e[call.next]) /\ call'.out \in Seq(Piece) /\ Len(call'.out) = Len(call.out) + 1
  BY <1>2, <1>5, <1>6, <1>7, <1>8, DividedOneMore, SMTT(20)
<1>10. ~Merging' /\ Out' = 0 /\ ~Asking' /\ ~Mapping' /\ ~Closing' /\ Rounding'
  BY <1>3, <1>8 DEF Merging, Out, At, Mapping, Closing, Rounding, Asking
<1>11. Pieces'
  BY <1>1, <1>2, <1>8, <1>9 DEF Pieces
<1>12. RoundInv'
  <2>1. /\ call'.next \in 1..(Len(call'.parts) + 1) /\ Len(call'.out) >= 1
    BY <1>2, <1>4, <1>8, <1>9, SMTT(20)
  <2>2. call'.next > Len(call'.parts) => Len(call'.out) >= 2
    <3>1. call'.next > Len(call'.parts) => call.next # 1
      BY <1>2, <1>4, <1>8
    <3>. QED
      BY <1>2, <1>3, <1>9, <3>1, SMTT(20)
  <2>3. LeftOver' = LeftOver
    <3>1. LeftOver' = (Len(call.out) + 1) + Len(call.parts) - (call.next + 1) + 1
      BY <1>8, <1>9 DEF LeftOver
    <3>2. Len(call.out) \in Nat /\ Len(call.parts) \in Nat /\ call.next \in Nat
      BY <1>2
    <3>3. \A o, n, i \in Nat : (o + 1) + n - (i + 1) + 1 = o + n - i + 1
      OBVIOUS
    <3>. QED
      BY <3>1, <3>2, <3>3 DEF LeftOver
  <2>4. call'.requests + LeftOver' <= 2 * chunks' + Out'
    BY <1>1, <1>2, <1>3, <1>8, <1>10, <2>3
  <2>5. call'.next - 1 = call.next
    BY <1>2, <1>8
  <2>6. \E d \in [0..Len(call'.parts) -> Nat] :
           Cut(call'.parts, chunks', d) /\ Divided(call'.out, d[call'.next - 1])
    BY <1>1, <1>5, <1>8, <1>9, <2>5
  <2>. QED
    BY <1>3, <1>8, <2>1, <2>2, <2>4, <2>6 DEF RoundInv
<1>13. GroupInv' /\ WriteInv' /\ CostInv'
  BY <1>2, <1>3, <1>8, <1>10 DEF GroupInv, WriteInv, CostInv, At
<1>14. AnswerComplete' /\ MergeFits'
  BY <1>8, <1>10 DEF AnswerComplete, InOrder, UsageComplete, MergeFits
<1>. QED
  BY <1>10, <1>11, <1>12, <1>13, <1>14 DEF MergeInv, MapInv, CloseInv

\* A group of two or more is asked, and never all the pieces.
LEMMA AskGroupMerges ==
    ASSUME IInv, MergeInv, AskGroup
    PROVE  MergeInv'
<1>. DEFINE last == StopAt - 1
<1>1. /\ At("round") /\ GroupRead /\ StopAt # call.next + 1 /\ chunks' = chunks
      /\ call' = [call EXCEPT !.pc = "ask", !.group = [first |-> call.next, last |-> last]]
  BY DEF AskGroup, GroupRead, Alone, settings
<1>2. /\ DOMAIN call = Fields /\ chunks \in Nat \ {0} /\ call.requests \in Nat /\ call.usage \in Nat
      /\ call.parts \in Seq(Piece) /\ call.out \in Seq(Piece) /\ Len(call.parts) \in Nat /\ Len(call.out) \in Nat
      /\ call.next \in Nat /\ call.pc = "round" /\ Room \in Nat
  BY <1>1, MergeKnown DEF At
<1>3. /\ call.next \in 1..(Len(call.parts) + 1)
      /\ call.next > 1 => Len(call.out) >= 1
      /\ call.next > Len(call.parts) => Len(call.out) >= 2
      /\ SizeOf(call.parts, Header) > Room
      /\ call.requests + LeftOver <= 2 * chunks
      /\ call.requests = call.usage /\ call.status = "none" /\ Rounding /\ ~Merging
  BY <1>1, RoundKnown
<1>4. /\ StopAt \in Nat /\ call.next < StopAt /\ StopAt <= Len(call.parts) + 1
      /\ \A i \in call.next..last : Joins(i)
  <2>1. call.next >= 1
    BY <1>2, <1>3
  <2>. QED
    BY <1>1, <2>1, GroupSound
<1>5. /\ last \in Nat /\ call.next < last /\ last <= Len(call.parts)
      /\ call.next = 1 => last < Len(call.parts)
  <2>1. call.next = 1 => StopAt <= Len(call.parts)
    BY <1>1, <1>3, FirstGroupStops
  <2>. QED
    BY <1>1, <1>2, <1>4, <2>1, SMTT(20)
<1>6. last \in call.next..last
  BY <1>2, <1>5
<1>7. Joins(last)
  BY <1>4, <1>6
<1>. HIDE DEF last
<1>8. /\ call'.pc = "ask" /\ call'.group = [first |-> call.next, last |-> last] /\ call'.parts = call.parts
      /\ call'.out = call.out /\ call'.next = call.next /\ call'.requests = call.requests
      /\ call'.usage = call.usage /\ call'.status = "none"
  BY <1>1, <1>2, <1>3 DEF Fields
<1>9. call'.group.first = call.next /\ call'.group.last = last
  BY <1>8
<1>10. Everything' # call'.group /\ call'.group # NoGroup
  <2>1. Everything'.first = 1 /\ Everything'.last = Len(call.parts)
    BY <1>8 DEF Everything
  <2>2. NoGroup.first = 0
    BY DEF NoGroup
  <2>3. call'.group.first # 0
    BY <1>2, <1>3, <1>9
  <2>4. ~(call.next = 1 /\ last = Len(call.parts))
    BY <1>2, <1>5
  <2>. QED
    BY <1>9, <2>1, <2>2, <2>3, <2>4
<1>11. Merging' /\ Out' = 0 /\ Asking' /\ ~Mapping' /\ ~Closing' /\ Rounding'
  BY <1>8, <1>10 DEF Merging, Out, At, Mapping, Closing, Rounding, Asking
<1>12. Pieces'
  <2>1. call'.group \in [first : Nat, last : Nat]
    BY <1>2, <1>5, <1>8
  <2>. QED
    BY <1>1, <1>2, <1>8, <2>1 DEF Pieces
<1>13. RoundInv'
  <2>1. LeftOver' = LeftOver
    BY <1>8 DEF LeftOver
  <2>2. call'.requests + LeftOver' <= 2 * chunks' + Out'
    BY <1>1, <1>2, <1>3, <1>8, <1>11, <2>1
  <2>3. \E d \in [0..Len(call'.parts) -> Nat] :
           Cut(call'.parts, chunks', d) /\ Divided(call'.out, d[call'.next - 1])
    BY <1>1, <1>8, RoundKnown
  <2>. QED
    BY <1>3, <1>8, <2>2, <2>3 DEF RoundInv
<1>14. GroupInv' /\ WriteInv' /\ CostInv'
  BY <1>2, <1>3, <1>5, <1>8, <1>9, <1>11 DEF GroupInv, WriteInv, CostInv, At
<1>15. MergeFits'
  <2>. DEFINE group == SubSeq(call.parts, call.next, last)
  <2>1. PartsOf(call.group)' = group
    BY <1>8, <1>9 DEF PartsOf
  <2>2. group \in Seq(Piece)
    <3>1. call.next \in Int /\ last \in Int /\ \A i \in call.next..last : call.parts[i] \in Piece
      BY <1>2, <1>3, <1>5, ElementOfSeq
    <3>. QED
      BY <3>1, SubSeqProperties
  <2>3. SizeOf(group, Reserve) <= Room
    BY <1>7 DEF Joins
  <2>. HIDE DEF group
  <2>4. SizeOf(group, Header) <= Room
    BY <1>2, <2>2, <2>3, SizeGrows
  <2>. QED
    BY <2>1, <2>4 DEF MergeFits
<1>16. AnswerComplete'
  BY <1>8 DEF AnswerComplete, InOrder, UsageComplete
<1>. QED
  BY <1>11, <1>12, <1>13, <1>14, <1>15, <1>16 DEF MergeInv, MapInv, CloseInv

\* The pieces of the round that is over are those of the next merge.
LEMMA EndRoundMerges ==
    ASSUME IInv, MergeInv, EndRound, ~Stop("ERROR")
    PROVE  MergeInv'
<1>1. /\ At("round") /\ Rest = {} /\ chunks' = chunks
      /\ call' = [call EXCEPT !.pc = "merge", !.parts = call.out, !.out = <<>>, !.depth = @ + 1]
  BY DEF EndRound, settings
<1>2. /\ DOMAIN call = Fields /\ chunks \in Nat \ {0} /\ call.requests \in Nat /\ call.usage \in Nat
      /\ call.parts \in Seq(Piece) /\ call.out \in Seq(Piece) /\ Len(call.parts) \in Nat /\ Len(call.out) \in Nat
      /\ call.next \in Nat /\ call.pc = "round" /\ call.group \in [first : Nat, last : Nat]
  BY <1>1, MergeKnown DEF At
<1>3. /\ call.next \in 1..(Len(call.parts) + 1)
      /\ call.next > Len(call.parts) => Len(call.out) >= 2
      /\ call.requests + LeftOver <= 2 * chunks
      /\ call.requests = call.usage /\ call.status = "none" /\ ~Merging
  BY <1>1, RoundKnown
<1>4. call.next = Len(call.parts) + 1
  BY <1>1, <1>2, <1>3 DEF Rest
<1>5. Len(call.out) >= 2 /\ LeftOver = Len(call.out)
  BY <1>2, <1>3, <1>4 DEF LeftOver
<1>6. Divided(call.out, chunks)
  <2>1. PICK e \in [0..Len(call.parts) -> Nat] :
           Cut(call.parts, chunks, e) /\ Divided(call.out, e[call.next - 1])
    BY <1>1, RoundKnown
  <2>2. call.next - 1 = Len(call.parts) /\ e[Len(call.parts)] = chunks
    BY <1>2, <1>4, <2>1 DEF Cut
  <2>. QED
    BY <2>1, <2>2
<1>7. /\ call'.pc = "merge" /\ call'.group = call.group /\ call'.parts = call.out /\ call'.out = <<>>
      /\ call'.next = call.next /\ call'.requests = call.requests /\ call'.usage = call.usage
      /\ call'.status = "none"
  BY <1>1, <1>2, <1>3 DEF Fields
<1>8. ~Merging' /\ Out' = 0 /\ ~Asking' /\ ~Mapping' /\ Closing' /\ ~Rounding'
  BY <1>3, <1>7 DEF Merging, Out, At, Mapping, Closing, Rounding, Asking
<1>9. Pieces'
  BY <1>1, <1>2, <1>7 DEF Pieces
<1>10. CloseInv'
  <2>1. call.requests + Len(call.out) <= 2 * chunks + 0
    BY <1>2, <1>3, <1>5
  <2>. QED
    BY <1>1, <1>5, <1>6, <1>7, <1>8, <2>1 DEF CloseInv
<1>11. GroupInv' /\ WriteInv' /\ CostInv'
  BY <1>2, <1>3, <1>7, <1>8 DEF GroupInv, WriteInv, CostInv, At
<1>12. AnswerComplete' /\ MergeFits'
  BY <1>7, <1>8 DEF AnswerComplete, InOrder, UsageComplete, MergeFits
<1>. QED
  BY <1>8, <1>9, <1>10, <1>11, <1>12 DEF MergeInv, MapInv, RoundInv

(***************************************************************************)
(* Every step                                                              *)
(***************************************************************************)

\* What a stop leaves of the merge.
LEMMA StopMerges ==
    ASSUME IInv, MergeInv, chunks' = chunks, NEW status, Stop(status), status = "ok" => At("write")
    PROVE  MergeInv'
<1>1. /\ call'.pc = "ended" /\ call'.status = status
      /\ call'.parts = call.parts /\ call'.out = call.out /\ call'.group = call.group
      /\ call'.next = call.next /\ call'.requests = call.requests /\ call'.usage = call.usage
  BY Known DEF Stop, Fields
<1>. QED
  BY <1>1, EndMerges

\* The ways an attempt ends.
LEMMA EndStepsMerge ==
    ASSUME IInv, MergeInv,
           \/ NoTimeLeft \/ Skip \/ KeyFails \/ Refuse \/ ChunkFails \/ Write \/ GiveUp \/ Expire
    PROVE  MergeInv'
<1>1. chunks' = chunks
  BY DEF NoTimeLeft, Skip, KeyFails, Refuse, ChunkFails, Write, GiveUp, Expire, settings
<1>2. CASE Refuse /\ ~Stop("ERROR")
  <2>1. PICK note \in {"unhealthy", "probe"} :
           call' = [call EXCEPT !.pc = "ended", !.status = "UNREACHABLE", !.noted = note]
    BY <1>2 DEF Refuse
  <2>2. /\ call'.pc = "ended" /\ call'.status = "UNREACHABLE"
        /\ call'.parts = call.parts /\ call'.out = call.out /\ call'.group = call.group
        /\ call'.next = call.next /\ call'.requests = call.requests /\ call'.usage = call.usage
    BY <2>1, Known DEF Fields
  <2>. QED
    BY <1>1, <2>2, EndMerges
<1>3. CASE ~(Refuse /\ ~Stop("ERROR"))
  <2>1. \E status : Stop(status) /\ (status = "ok" => At("write"))
    <3>1. CASE Write
      BY <3>1 DEF Write
    <3>2. CASE NoTimeLeft \/ Skip \/ KeyFails \/ ChunkFails \/ GiveUp
      <4>1. PICK status \in {"DEADLINE", "SKIPPED", "CONFIG", "ERROR", "FAILED"} : Stop(status)
        BY <3>2 DEF NoTimeLeft, Skip, KeyFails, ChunkFails, GiveUp
      <4>. QED
        BY <4>1
    <3>3. CASE Expire
      <4>1. PICK status \in {"DEADLINE", "TIMEOUT"} : Stop(status)
        BY <3>3 DEF Expire
      <4>. QED
        BY <4>1
    <3>4. CASE Stop("ERROR")
      BY <3>4
    <3>. QED
      BY <1>3, <3>1, <3>2, <3>3, <3>4
  <2>. QED
    BY <1>1, <2>1, StopMerges
<1>. QED
  BY <1>2, <1>3

\* The steps of one request.
LEMMA AskStepsMerge ==
    ASSUME IInv, MergeInv, Open \/ Send \/ Pause
    PROVE  MergeInv'
<1>1. chunks' = chunks /\ call.requests \in Nat /\ DOMAIN call = Fields
      /\ (call.pc # "ended" => call.status = "none")
  BY MergeKnown DEF Open, Send, Pause, settings
<1>2. CASE Open
  <2>1. call.pc = "ask" /\ call' = [call EXCEPT !.pc = "ready", !.window = Window]
    BY <1>2 DEF Open, At
  <2>2. /\ call'.pc = "ready" /\ call'.parts = call.parts /\ call'.out = call.out /\ call'.group = call.group
        /\ call'.next = call.next /\ call'.requests = call.requests /\ call'.usage = call.usage
        /\ call'.status = "none"
    BY <1>1, <2>1 DEF Fields
  <2>3. Asking /\ Asking' /\ Out = 0 /\ Out' = 0
    BY <2>1, <2>2 DEF Asking, Out, At
  <2>. QED
    BY <1>1, <2>2, <2>3, AskMerges
<1>3. CASE Send
  <2>1. PICK k \in 0..(IF call.haveKey THEN 0 ELSE KeyTime) :
           call' = [call EXCEPT !.pc = "sent", !.haveKey = TRUE, !.sent = clock + k, !.requests = @ + 1]
    BY <1>3 DEF Send
  <2>2. call.pc = "ready"
    BY <1>3 DEF Send, At
  <2>3. /\ call'.pc = "sent" /\ call'.parts = call.parts /\ call'.out = call.out /\ call'.group = call.group
        /\ call'.next = call.next /\ call'.requests = call.requests + 1 /\ call'.usage = call.usage
        /\ call'.status = "none"
    BY <1>1, <2>1, <2>2 DEF Fields
  <2>4. Asking /\ Asking' /\ Out = 0 /\ Out' = 1
    BY <2>2, <2>3 DEF Asking, Out, At
  <2>5. call'.requests \in Nat /\ call'.requests = call.requests + Out' - Out
    BY <1>1, <2>3, <2>4
  <2>. QED
    BY <1>1, <2>3, <2>4, <2>5, AskMerges
<1>4. CASE Pause
  <2>1. call.pc = "ask" /\ call' = call
    BY <1>4 DEF Pause, At
  <2>2. Asking /\ Asking' /\ Out = 0 /\ Out' = 0 /\ call'.status = "none"
    BY <1>1, <2>1 DEF Asking, Out, At
  <2>3. call'.requests \in Nat /\ call'.requests = call.requests + Out' - Out
    BY <1>1, <2>1, <2>2
  <2>. QED
    BY <1>1, <2>1, <2>2, <2>3, AskMerges
<1>. QED
  BY <1>2, <1>3, <1>4

\* The steps of the merge.
LEMMA MergeStepsMerge ==
    ASSUME IInv, MergeInv, Merge \/ CarryOver \/ AskGroup \/ EndRound
    PROVE  MergeInv'
<1>1. chunks' = chunks
  BY DEF Merge, CarryOver, AskGroup, EndRound, settings
<1>2. CASE Stop("ERROR")
  BY <1>1, <1>2, StopMerges
<1>. QED
  BY <1>2, MergeMerges, CarryMerges, AskGroupMerges, EndRoundMerges

\* A step that changes nothing.
LEMMA NoStepMerges ==
    ASSUME MergeInv, UNCHANGED vars
    PROVE  MergeInv'
<1>1. call' = call /\ chunks' = chunks
  BY DEF vars
<1>. QED
  BY <1>1 DEF MergeInv, Pieces, MapInv, CloseInv, RoundInv, GroupInv, WriteInv, CostInv, AnswerComplete,
              InOrder, UsageComplete, MergeFits, PartsOf, RequestsBounded, Mapping, Closing, Rounding,
              Asking, Merging, Everything, LeftOver, Out, At

\* At every moment the partial answers divide the input in its order, and what
\* was asked and what is left to ask stay under two requests for a chunk.
THEOREM MergeInductive == Spec => [](IInv /\ MergeInv)
<1>1. IInv /\ MergeInv /\ [Next]_vars => MergeInv'
  <2>. SUFFICES ASSUME IInv, MergeInv, [Next]_vars PROVE MergeInv'
    OBVIOUS
  <2>1. Answer => MergeInv'
    BY MapAnswerMerges, LastAnswerMerges, GroupAnswerMerges
  <2>. QED
    BY <2>1, EndStepsMerge, AskStepsMerge, MergeStepsMerge, NoStepMerges DEF Next, Program
<1>. QED
  BY <1>1, InitMerges, Inductive, PTL DEF Spec

\* An answer is made of the answers to all the chunks, each once and in the
\* order of the input, however the merge grouped them, and its cost is that of
\* every request (map_reduce, _Merger.merge, _Merger.round).
THEOREM AnswersAreComplete == Spec => []AnswerComplete
<1>1. IInv /\ MergeInv => AnswerComplete
  BY DEF MergeInv
<1>. QED
  BY <1>1, MergeInductive, PTL

\* No merge request is larger than the model accepts, and the attempt asks less
\* than twice the chunks, whatever the sizes of the answers (_Merger.round, _Merger.group).
THEOREM MergesAreBounded == Spec => []MergeBounded
<1>1. IInv /\ MergeInv => MergeBounded
  BY CheapSoFar DEF MergeInv, MergeBounded
<1>. QED
  BY <1>1, MergeInductive, PTL

(***************************************************************************)
(* HttpExchange.  The honest timeout needs to know what a pending socket   *)
(* call has to do with the clock of the request: while the request still   *)
(* has time, no call of it can have had the whole limit.                   *)
(***************************************************************************)

Kind == {"answer", "timeout", "unreachable", "connect", "tls", "recv", "too_large"}

Workers ==
    [pc : {"start", "connecting", "handshake", "check", "headers", "body", "done"},
     age : Nat, addresses : Int, got : Nat]

Typed ==
    /\ timeLimit \in Nat /\ own \in Nat /\ elapsed \in Nat
    /\ declared \in Int /\ (declared # NoLength => declared \in Nat)
    /\ main \in [pc : {"join", "box", "cancel", "look", "ended"}, result : Kind \cup {Empty, "interrupted"}]
    /\ worker \in Workers
    /\ cancelled \in BOOLEAN
    /\ box \in Kind \cup {Empty}

\* A socket call is not older than the request.
AgeFollowsClock == worker.age <= elapsed \/ elapsed >= timeLimit

\* The worker finds the flag only after the main thread has its result.
FlagAfterResult == cancelled => main.pc \in {"look", "ended"}

\* The main thread leaves the join with a box, or when the time is over.
JoinIsOver == Main("box") => box # Empty \/ TimeUp

BoxHonest == box = "timeout" /\ ~cancelled => TimeUp

TimeoutInv == AgeFollowsClock /\ FlagAfterResult /\ JoinIsOver /\ BoxHonest /\ TimeoutTrue

\* What was read is what the answer said, as far as it was read.
ReadInv ==
    /\ declared # NoLength => worker.got <= declared \/ worker.got = 0
    /\ box = "answer" => worker.got <= MaxBytes /\ (declared # NoLength => worker.got = declared)
    /\ box # Empty <=> Worker("done")
    /\ main.result = "answer" => box = "answer"

RequestInv == Typed /\ TimeoutInv /\ ReadInv

\* The connect timeout that is kept is the configured one, or none.
LEMMA OwnLimitType == \A connect, whole \in Nat : OwnLimit(connect, whole) \in Nat
BY DEF OwnLimit

\* The invariant holds when the request begins.
LEMMA RequestInitInv == RequestInit => RequestInv
<1> SUFFICES ASSUME RequestInit PROVE RequestInv
  OBVIOUS
<1> USE HttpExchangeAssumption
<1>1. timeLimit \in Nat /\ own \in Nat
  BY OwnLimitType DEF RequestInit
<1>2. Typed
  <2>1. declared \in Int /\ (declared # NoLength => declared \in Nat)
    BY DEF RequestInit, NoLength
  <2>2. worker.age \in Nat /\ elapsed \in Nat /\ MaxAddresses \in Int
    BY DEF RequestInit
  <2>3. main \in [pc : {"join", "box", "cancel", "look", "ended"}, result : Kind \cup {Empty, "interrupted"}]
    BY DEF RequestInit, Kind, Empty
  <2> QED
    BY <1>1, <2>1, <2>2, <2>3 DEF RequestInit, Typed, Workers
<1>3. TimeoutInv
  BY <1>1 DEF RequestInit, TimeoutInv, AgeFollowsClock, FlagAfterResult, JoinIsOver, BoxHonest, TimeoutTrue,
              Main, Empty
<1>4. ReadInv
  BY <1>1 DEF RequestInit, ReadInv, Empty, NoLength, Worker
<1> QED
  BY <1>2, <1>3, <1>4 DEF RequestInv

\* The worker's end with a result that is true of the request keeps the invariant.
LEMMA LeaveInv ==
    ASSUME RequestInv, NEW kind \in Kind, Leave(kind), UNCHANGED ByMain, box = Empty,
           kind = "timeout" => cancelled \/ TimeUp,
           kind = "answer" => worker.got <= MaxBytes /\ (declared # NoLength => worker.got = declared)
    PROVE  RequestInv'
<1> USE DEF RequestInv, Leave, ByMain, requestSettings
<1>1. worker' = [worker EXCEPT !.pc = "done"] /\ box' = kind /\ main' = main /\ elapsed' = elapsed
      /\ timeLimit' = timeLimit /\ own' = own /\ declared' = declared /\ cancelled' = cancelled
  OBVIOUS
<1>2. Typed'
  BY <1>1 DEF Typed, Workers, NoLength
<1>3. TimeoutInv'
  BY <1>1 DEF Typed, Workers, TimeoutInv, AgeFollowsClock, FlagAfterResult, JoinIsOver, BoxHonest, TimeoutTrue,
              Main, TimeUp, Kind, Empty
<1>4. ReadInv'
  BY <1>1 DEF Typed, Workers, ReadInv, Kind, Empty, Worker
<1> QED
  BY <1>2, <1>3, <1>4

\* The worker's failure, told as a timeout once it was cancelled, keeps it.
LEMMA FailInv ==
    ASSUME RequestInv, NEW kind \in Kind \ {"answer"}, Fail(kind), UNCHANGED ByMain, box = Empty,
           kind = "timeout" => TimeUp
    PROVE  RequestInv'
<1>1. CASE cancelled
  BY <1>1, LeaveInv DEF Fail, Kind
<1>2. CASE ~cancelled
  BY <1>2, LeaveInv DEF Fail
<1> QED
  BY <1>1, <1>2

\* A step of the worker that leaves the box as it is.
LEMMA GoOnInv ==
    ASSUME RequestInv, UNCHANGED ByMain, box' = box, box = Empty,
           worker' \in Workers,
           worker'.pc # "done", worker'.age = 0,
           declared # NoLength => worker'.got <= declared \/ worker'.got = 0
    PROVE  RequestInv'
<1> USE DEF RequestInv, ByMain, requestSettings
<1>1. main' = main /\ elapsed' = elapsed /\ timeLimit' = timeLimit /\ own' = own /\ declared' = declared
      /\ cancelled' = cancelled
  OBVIOUS
<1>2. Typed'
  BY <1>1 DEF Typed, Workers, NoLength
<1>3. TimeoutInv'
  BY <1>1 DEF Typed, Workers, TimeoutInv, AgeFollowsClock, FlagAfterResult, JoinIsOver, BoxHonest, TimeoutTrue,
              Main, TimeUp
<1>4. ReadInv'
  BY <1>1 DEF Typed, Workers, ReadInv, Empty, Worker, NoLength
<1> QED
  BY <1>2, <1>3, <1>4

\* A step of the worker to its next phase keeps it.
LEMMA GoInv ==
    ASSUME RequestInv, UNCHANGED ByMain, box' = box, box = Empty,
           NEW to \in {"connecting", "handshake", "check", "headers", "body"}, Go(to)
    PROVE  RequestInv'
BY GoOnInv DEF Go, RequestInv, Typed, Workers, ReadInv

\* The box is empty as long as the worker works.
LEMMA Working == ASSUME RequestInv, ~Worker("done") PROVE box = Empty
BY DEF RequestInv, ReadInv

\* The worker's own code and timers keep it.
LEMMA WorkerInv == ASSUME RequestInv, WorkerStep PROVE RequestInv'
<1>1. CASE Start
  BY <1>1, Working, GoInv DEF Start, Worker, ByMain
<1>2. CASE CheckCancelled
  <2>1. box = Empty
    BY <1>2, Working DEF CheckCancelled, Worker
  <2> QED
    BY <1>2, <2>1, GoInv, FailInv DEF CheckCancelled, Kind
<1>3. CASE ConnectTimesOut
  <2>1. box = Empty
    BY <1>3, Working DEF ConnectTimesOut, Worker
  <2>2. ConnectTimeoutKind = "timeout" => TimeUp
    BY <1>3 DEF ConnectTimesOut, ConnectTimeoutKind, ConnectTime, TimedOut, TimeUp, RequestInv, Typed, Workers,
                TimeoutInv, AgeFollowsClock
  <2> QED
    BY <1>3, <2>1, <2>2, FailInv DEF ConnectTimesOut, ConnectTimeoutKind, Kind
<1>4. CASE HeadersTimeOut
  <2>1. box = Empty
    BY <1>4, Working DEF HeadersTimeOut, Worker
  <2>2. TimeUp
    BY <1>4 DEF HeadersTimeOut, TimedOut, TimeUp, RequestInv, Typed, Workers, TimeoutInv, AgeFollowsClock
  <2> QED
    BY <1>4, <2>1, <2>2, FailInv DEF HeadersTimeOut, Kind
<1>5. CASE BodyTimesOut
  BY <1>5, Working, FailInv DEF BodyTimesOut, Worker, Kind
<1>6. CASE TooLarge
  BY <1>6, Working, FailInv DEF TooLarge, Worker, Kind
<1>7. CASE Broken
  BY <1>7, Working, FailInv DEF Broken, BrokenKinds, Worker, Kind
<1> QED
  BY <1>1, <1>2, <1>3, <1>4, <1>5, <1>6, <1>7 DEF WorkerStep

\* What the network and the server do keeps it.
LEMMA NetworkInv == ASSUME RequestInv, NetworkStep PROVE RequestInv'
<1>1. CASE Connected
  BY <1>1, Working, GoInv DEF Connected, Worker, ByMain
<1>2. CASE NextAddress
  <2>1. box = Empty
    BY <1>2, Working DEF NextAddress, Worker
  <2> QED
    <3>1. worker' \in Workers /\ worker'.pc = worker.pc /\ worker'.age = 0 /\ worker'.got = worker.got
      <4>1. worker' = [worker EXCEPT !.addresses = worker.addresses - 1, !.age = 0]
        BY <1>2 DEF NextAddress
      <4>2. worker \in Workers
        BY DEF RequestInv, Typed
      <4>3. worker.addresses - 1 \in Int
        BY <4>2 DEF Workers
      <4> QED
        BY <4>1, <4>2, <4>3 DEF Workers
    <3>2. declared # NoLength => worker'.got <= declared \/ worker'.got = 0
      BY <3>1 DEF RequestInv, ReadInv
    <3>3. worker.pc # "done" /\ box' = box /\ UNCHANGED ByMain
      BY <1>2 DEF NextAddress, Worker
    <3> QED
      BY <2>1, <3>1, <3>2, <3>3, GoOnInv
<1>3. CASE ConnectFails
  BY <1>3, Working, FailInv DEF ConnectFails, Worker, Kind
<1>4. CASE Handshaken
  <2>1. box = Empty
    BY <1>4, Working DEF Handshaken, Worker
  <2> QED
    BY <1>4, <2>1, GoInv, FailInv DEF Handshaken, Kind
<1>5. CASE HeaderLine
  BY <1>5, Working, GoInv DEF HeaderLine, Worker, ByMain
<1>6. CASE HeadersDone
  BY <1>6, Working, GoInv DEF HeadersDone, Worker, ByMain
<1>7. CASE Broken
  BY <1>7, Working, FailInv DEF Broken, BrokenKinds, Worker, Kind
<1>8. CASE ReadSome
  <2>1. box = Empty
    BY <1>8, Working DEF ReadSome, ReadOn, Worker
  <2>2. declared # NoLength => worker'.got <= declared \/ worker'.got = 0
    BY <1>8 DEF ReadSome, RequestInv, Typed, Workers
  <2> QED
    <3>1. worker' \in Workers /\ worker'.pc = worker.pc /\ worker'.age = 0
      <4>1. worker' = [worker EXCEPT !.got = worker.got + 1, !.age = 0]
        BY <1>8 DEF ReadSome
      <4>2. worker \in Workers
        BY DEF RequestInv, Typed
      <4>3. worker.got + 1 \in Nat
        BY <4>2 DEF Workers
      <4> QED
        BY <4>1, <4>2, <4>3 DEF Workers
    <3>2. worker.pc # "done" /\ box' = box /\ UNCHANGED ByMain
      BY <1>8 DEF ReadSome, ReadOn, Worker
    <3> QED
      BY <2>1, <2>2, <3>1, <3>2, GoOnInv
<1>9. CASE ReadAll
  <2>1. box = Empty
    BY <1>9, Working DEF ReadAll, ReadOn, Worker
  <2>2. CASE Short
    BY <1>9, <2>1, <2>2, FailInv DEF ReadAll, Kind
  <2>3. CASE ~Short
    <3>1. worker.got <= MaxBytes /\ (declared # NoLength => worker.got = declared)
      BY <1>9, <2>3, HttpExchangeAssumption
         DEF ReadAll, ReadOn, Oversize, Short, RequestInv, Typed, Workers, ReadInv
    <3> QED
      BY <1>9, <2>1, <2>3, <3>1, LeaveInv DEF ReadAll, Kind
  <2> QED
    BY <2>2, <2>3
<1> QED
  BY <1>1, <1>2, <1>3, <1>4, <1>5, <1>6, <1>7, <1>8, <1>9 DEF NetworkStep

\* The main thread keeps it.
LEMMA MainInv == ASSUME RequestInv, MainStep \/ Interrupt PROVE RequestInv'
<1> USE DEF RequestInv, ByWorker, requestSettings
<1>1. timeLimit' = timeLimit /\ own' = own /\ declared' = declared /\ elapsed' = elapsed /\ worker' = worker /\ box' = box
  BY DEF MainStep, Join, TakeBox, AbortStep, Interrupt
<1>2. CASE Join
  <2>1. Typed'
    BY <1>1, <1>2 DEF Join, Typed, Workers
  <2>2. TimeoutInv'
    BY <1>1, <1>2 DEF Join, JoinReturns, Typed, Workers, TimeoutInv, AgeFollowsClock, FlagAfterResult, JoinIsOver,
                      BoxHonest, TimeoutTrue, Main, TimeUp, Worker, ReadInv
  <2>3. ReadInv'
    BY <1>1, <1>2 DEF Join, Typed, Workers, ReadInv, Worker
  <2> QED
    BY <2>1, <2>2, <2>3
<1>3. CASE TakeBox
  <2>1. Typed'
    BY <1>1, <1>3 DEF TakeBox, Typed, Workers, Kind
  <2>2. TimeoutInv'
    BY <1>1, <1>3 DEF TakeBox, Typed, Workers, TimeoutInv, AgeFollowsClock, FlagAfterResult, JoinIsOver,
                      BoxHonest, TimeoutTrue, Main, TimeUp
  <2>3. ReadInv'
    BY <1>1, <1>3 DEF TakeBox, Typed, Workers, ReadInv, Worker
  <2> QED
    BY <2>1, <2>2, <2>3
<1>4. CASE Interrupt
  <2>1. Typed'
    BY <1>1, <1>4 DEF Interrupt, Typed, Workers
  <2>2. TimeoutInv'
    BY <1>1, <1>4 DEF Interrupt, Typed, Workers, TimeoutInv, AgeFollowsClock, FlagAfterResult, JoinIsOver,
                      BoxHonest, TimeoutTrue, Main, TimeUp
  <2>3. ReadInv'
    BY <1>1, <1>4 DEF Interrupt, Typed, Workers, ReadInv, Worker
  <2> QED
    BY <2>1, <2>2, <2>3
<1>5. CASE AbortStep
  <2>1. Typed'
    BY <1>1, <1>5 DEF AbortStep, Abort, Typed, Workers
  <2>2. TimeoutInv'
    BY <1>1, <1>5 DEF AbortStep, Abort, Typed, Workers, TimeoutInv, AgeFollowsClock, FlagAfterResult, JoinIsOver,
                      BoxHonest, TimeoutTrue, Main, TimeUp
  <2>3. ReadInv'
    BY <1>1, <1>5 DEF AbortStep, Abort, Typed, Workers, ReadInv, Worker
  <2> QED
    BY <2>1, <2>2, <2>3
<1> QED
  BY <1>2, <1>3, <1>4, <1>5 DEF MainStep

\* The passing of time keeps it.
LEMMA TickInv == ASSUME RequestInv, Tick PROVE RequestInv'
<1> USE DEF RequestInv, requestSettings
<1>1. timeLimit' = timeLimit /\ own' = own /\ declared' = declared /\ main' = main /\ box' = box
      /\ cancelled' = cancelled
  BY DEF Tick
<1>2. elapsed' \in Nat /\ (elapsed' = elapsed + 1 \/ (elapsed' = elapsed /\ elapsed >= timeLimit))
  BY DEF Tick, OneMore, Typed, Workers
<1>3. worker' \in [pc : {"start", "connecting", "handshake", "check", "headers", "body", "done"},
                   age : {worker.age, worker.age + 1}, addresses : {worker.addresses}, got : {worker.got}]
      /\ worker'.pc = worker.pc
  <2>1. OneMore(worker.age, LongestTime) \in {worker.age, worker.age + 1}
    BY DEF OneMore
  <2> HIDE DEF OneMore, LongestTime
  <2> QED
    BY <2>1 DEF Tick, Typed, Workers
<1>4. Typed'
  BY <1>1, <1>2, <1>3 DEF Typed, Workers
<1>5. TimeoutInv'
  BY <1>1, <1>2, <1>3 DEF Typed, Workers, TimeoutInv, AgeFollowsClock, FlagAfterResult, JoinIsOver, BoxHonest,
                          TimeoutTrue, Main, TimeUp
<1>6. ReadInv'
  BY <1>1, <1>3 DEF Typed, Workers, ReadInv, Worker
<1> QED
  BY <1>4, <1>5, <1>6

\* Every step keeps the invariant.
THEOREM RequestInductive == RequestInv /\ [RequestNext]_requestVars => RequestInv'
<1> SUFFICES ASSUME RequestInv, [RequestNext]_requestVars PROVE RequestInv'
  OBVIOUS
<1>1. CASE MainStep \/ Interrupt
  BY <1>1, MainInv
<1>2. CASE WorkerStep
  BY <1>2, WorkerInv
<1>3. CASE NetworkStep
  BY <1>3, NetworkInv
<1>4. CASE Tick
  BY <1>4, TickInv
<1>5. CASE UNCHANGED requestVars
  BY <1>5 DEF requestVars, RequestInv, Typed, Workers, TimeoutInv, AgeFollowsClock, FlagAfterResult, JoinIsOver, BoxHonest,
              TimeoutTrue, ReadInv, Main, TimeUp, Worker
<1> QED
  BY <1>1, <1>2, <1>3, <1>4, <1>5 DEF RequestNext

\* The invariant holds of every request.
THEOREM RequestInvariant == RequestSpec => []RequestInv
BY RequestInitInv, RequestInductive, PTL DEF RequestSpec

\* A request that "timed out" had its whole limit (_perform).
THEOREM TimeoutsAreTrue == RequestSpec => []TimeoutTrue
<1>1. RequestInv => TimeoutTrue
  BY DEF RequestInv, TimeoutInv
<1> QED
  BY <1>1, RequestInvariant, PTL

\* An answer is as long as it said and no longer than what is accepted (_read_body).
THEOREM AnswerIsWhole == RequestSpec => []AnswerWhole
<1>1. RequestInv => AnswerWhole
  BY DEF RequestInv, ReadInv, AnswerWhole
<1> QED
  BY <1>1, RequestInvariant, PTL

\* What a request ends with is true (_perform).
THEOREM RequestsAreHonest == RequestSpec => []RequestHonest
<1>1. TimeoutTrue /\ AnswerWhole => RequestHonest
  BY DEF RequestHonest
<1> QED
  BY <1>1, TimeoutsAreTrue, AnswerIsWhole, PTL

\* Once it was sent, a request is not reported as "unreachable" (_Conn.connect),
\* also when the route to the host is lost while its answer is read.
THEOREM UnreachableMeansUnsent == RequestSpec => UnreachableIsUnsent
<1>1. [RequestNext]_requestVars => [box' = "unreachable" /\ box = Empty => ~SentBefore]_requestVars
  <2> SUFFICES ASSUME [RequestNext]_requestVars, box' = "unreachable", box = Empty, SentBefore PROVE FALSE
    OBVIOUS
  <2>1. box' # box
    BY DEF Empty
  <2>2. \/ ConnectFails \/ ConnectTimesOut \/ Handshaken \/ CheckCancelled \/ Broken
        \/ HeadersTimeOut \/ BodyTimesOut \/ TooLarge \/ ReadAll
    BY <2>1 DEF requestVars, RequestNext, MainStep, Join, TakeBox, AbortStep, Interrupt, ByWorker, WorkerStep, Start,
                NetworkStep, Connected, NextAddress, HeaderLine, HeadersDone, ReadSome, Tick
  <2>3. Broken \/ HeadersTimeOut \/ BodyTimesOut \/ TooLarge \/ ReadAll
    BY <2>2 DEF SentBefore, ConnectFails, ConnectTimesOut, Handshaken, CheckCancelled, Worker
  <2> QED
    BY <2>3 DEF Broken, BrokenKinds, HeadersTimeOut, BodyTimesOut, TooLarge, ReadAll, Fail, Leave
<1> QED
  BY <1>1, PTL DEF RequestSpec, UnreachableIsUnsent

(***************************************************************************)
(* ChildProcess, for any number of helpers and signals.                    *)
(*                                                                         *)
(* What a call leaves behind is decided long before it is over: the group  *)
(* gets its last SIGKILL while the call may still go round its finally     *)
(* part, and from then on nobody is left to start another process.  Silent *)
(* says so for every place where the handlers are gone without a signal;   *)
(* it needs to know that a signal leads out of the call and never back     *)
(* (Signalled), and where the handlers are installed (Handlers).           *)
(***************************************************************************)

Before == {"guard", "config", "raw"}
Ending == {"term", "termwait", "kill", "killwait", "last"}
After == {"judge", "unlink", "create", "write"}

\* There is no process yet.
NotStarted ==
    /\ pc \in Before \cup {"start"} => why = "none" /\ \A m \in Process : member[m] = "none"
    /\ pc \in Before \cup {"start", "forked"} => ~proc

\* The handlers are installed from before the fork until the last kill.
Handlers ==
    /\ pc \in {"start", "forked", "wait"} => armed
    /\ pc \in Before \cup After \cup {"finally", "unwind", "done"} => ~armed

\* A signal leads out of the call and never back into it.
Signalled ==
    /\ signals \in Nat
    /\ why = "signal" =>
          signals > 0 /\ ~armed /\ pc \in Ending \cup {"finally", "unwind", "done"}
    /\ pc = "unwind" \/ result \in {"signal", "killed"} => signals > 0 /\ (proc => why = "signal")
    /\ pc \in Ending \cup {"finally", "judge"} => why # "none"

\* Once the handlers are gone, and no signal took them, nothing runs.  After one
\* signal nothing runs from the kill on, unless there was no leader to kill.
Silent ==
    /\ ~armed /\ why # "signal" /\ pc \in Ending \cup After \cup {"finally"} => NoneRuns
    /\ pc = "done" /\ result \notin {"signal", "killed"} => NoneRuns
    /\ why = "signal" /\ signals = 1 /\ proc =>
          /\ pc \in {"killwait", "last", "unwind", "done"} => NoneRuns \/ gone
          /\ pc \in {"unwind", "done"} => member[Leader] # "running"

\* The files follow the place of the call.
Files ==
    /\ pc \in Before => ~raw
    /\ pc \notin {"write", "unwind", "done"} => ~out
    /\ pc = "create" => result = "none"
    /\ pc \in {"create", "write"} => ~raw
    /\ pc = "unwind" /\ ~caught => ~out
    /\ pc = "write" => out
    /\ pc # "done" => result \notin {"reply", "signal", "killed"}
    /\ FilesFollowResult

InvokeInv == InvokeTypeOK /\ NotStarted /\ Handlers /\ Signalled /\ Silent /\ Files

\* At first there is no process and no file.
LEMMA InvokeInitKeeps == InvokeInit => InvokeInv
<1> SUFFICES ASSUME InvokeInit PROVE InvokeInv
  OBVIOUS
<1>1. InvokeTypeOK
  <2>1. signals \in 0..MaxSignals
    BY ChildAssumption DEF InvokeInit
  <2>2. caught \in BOOLEAN /\ armed \in BOOLEAN /\ proc \in BOOLEAN
    BY DEF InvokeInit
  <2>3. raw \in BOOLEAN /\ out \in BOOLEAN /\ gone \in BOOLEAN /\ request \in Request
    BY DEF InvokeInit
  <2>4. member \in [Process -> {"none", "running", "doomed", "ended", "reaped"}]
    BY DEF InvokeInit
  <2>. QED
    BY <2>1, <2>2, <2>3, <2>4 DEF InvokeInit, InvokeTypeOK
<1>2. NotStarted /\ Handlers /\ Signalled /\ Silent /\ Files
  BY DEF InvokeInit, NotStarted, Handlers, Signalled, Silent, Files, NoneRuns, Before, Ending, After,
         FilesFollowResult
<1>. QED
  BY <1>1, <1>2 DEF InvokeInv

(***************************************************************************)
(* The steps before the child, and those of the group                      *)
(***************************************************************************)

\* Guard, PrepareConfig and CreateRaw start no process.
LEMMA EarlySteps ==
    ASSUME InvokeInv, Guard \/ PrepareConfig \/ CreateRaw
    PROVE  InvokeInv'
<1> USE DEF InvokeInv, Before, Ending, After
<1>1. ASSUME NEW s \in {"CONFIG", "OVERSIZE", "ERROR"}, pc \in Before, AbortWith(s) PROVE InvokeInv'
  BY <1>1 DEF AbortWith, childVars, fileVars, InvokeTypeOK, NotStarted, Handlers, Signalled, Silent, Files,
              NoneRuns, FilesFollowResult
<1>2. ASSUME NEW to \in {"config", "raw"}, pc \in Before, Goto(to) PROVE InvokeInv'
  BY <1>2 DEF Goto, childVars, fileVars, InvokeTypeOK, NotStarted, Handlers, Signalled, Silent, Files,
              NoneRuns, FilesFollowResult
<1>3. CASE Guard
  BY <1>1, <1>2, <1>3 DEF Guard, guard_size
<1>4. CASE PrepareConfig
  BY <1>1, <1>2, <1>4 DEF PrepareConfig
<1>5. CASE CreateRaw
  <2>1. CASE AbortWith("ERROR")
    BY <1>1, <1>5, <2>1 DEF CreateRaw
  <2>2. CASE /\ pc = "raw" /\ pc' = "start" /\ raw' = TRUE /\ armed' = TRUE
             /\ UNCHANGED <<request, caught, proc, why, member, out, result, signals, gone>>
    BY <2>2 DEF InvokeTypeOK, NotStarted, Handlers, Signalled, Silent, Files,
                      NoneRuns, FilesFollowResult
  <2>. QED
    BY <1>5, <2>1, <2>2 DEF CreateRaw
<1>. QED
  BY <1>3, <1>4, <1>5

\* A helper starts only while the leader runs; a process that ends runs no more.
LEMMA GroupSteps ==
    ASSUME InvokeInv, \/ \E h \in Helper : StartHelper(h)
                 \/ \E m \in Process : ProcessEnds(m)
    PROVE  InvokeInv'
<1>1. UNCHANGED <<pc, request, caught, armed, proc, why, raw, out, result, signals, gone>>
  BY DEF StartHelper, ProcessEnds, fileVars
<1>2. /\ member' \in [Process -> {"none", "running", "doomed", "ended", "reaped"}]
      /\ (\A m \in Process : member[m] = "none") => \A m \in Process : member'[m] = "none"
      /\ NoneRuns => NoneRuns'
      /\ member[Leader] # "running" => member'[Leader] # "running"
  BY DEF InvokeInv, InvokeTypeOK, NoneRuns, StartHelper, ProcessEnds, Process, Alive
<1>. QED
  BY <1>1, <1>2 DEF InvokeInv, InvokeTypeOK, NotStarted, Handlers, Signalled, Silent, Files, NoneRuns,
                    FilesFollowResult

(***************************************************************************)
(* run_with_timeout                                                        *)
(***************************************************************************)

\* The fork, its assignment and the wait.
LEMMA RunSteps ==
    ASSUME InvokeInv, Fork \/ Assign \/ WaitReturns \/ WaitTimesOut
    PROVE  InvokeInv'
<1> USE DEF InvokeInv, Before, Ending, After, InvokeTypeOK, NotStarted, Handlers, Signalled, Silent, Files,
            NoneRuns, FilesFollowResult, fileVars, Process
<1>1. CASE Fork
  BY <1>1 DEF Fork
<1>2. CASE Assign
  BY <1>2 DEF Assign
<1>3. CASE WaitReturns
  BY <1>3 DEF WaitReturns, Reaped
<1>4. CASE WaitTimesOut
  BY <1>4 DEF WaitTimesOut
<1>. QED
  BY <1>1, <1>2, <1>3, <1>4

\* The escalation: after the last kill nothing runs.
LEMMA EndingSteps ==
    ASSUME InvokeInv, SendTerm \/ SendKill \/ GraceWait \/ Finally
    PROVE  InvokeInv'
<1> USE DEF InvokeInv, Before, Ending, After, InvokeTypeOK, NotStarted, Handlers, Signalled, Silent, Files,
            NoneRuns, FilesFollowResult, fileVars, childVars, Process
<1>1. CASE SendTerm
  BY <1>1 DEF SendTerm, Goto
<1>2. CASE SendKill
  <2>1. /\ member' \in [Process -> {"none", "running", "doomed", "ended", "reaped"}]
        /\ NoneRuns' /\ member'[Leader] # "running"
    BY <1>2 DEF SendKill, Killed
  <2>2. CASE pc = "kill"
    BY <1>2, <2>1, <2>2 DEF SendKill
  <2>3. CASE pc = "last"
    <3>1. /\ armed' = FALSE
          /\ UNCHANGED <<request, caught, proc, why, raw, out, result, signals, gone>>
      BY <1>2, <2>3 DEF SendKill
    <3>2. \/ pc' = "finally" /\ armed
          \/ pc' = "unwind" /\ ~armed /\ why = "signal"
          \/ pc' = "judge" /\ ~armed /\ why # "signal"
      BY <1>2, <2>3 DEF SendKill, AfterLast
    <3>3. InvokeTypeOK'
      BY <2>1, <3>1, <3>2, ZenonT(40)
    <3>4. NotStarted' /\ Handlers' /\ Signalled' /\ Silent'
      BY <2>1, <2>3, <3>1, <3>2
    <3>5. Files'
      BY <2>3, <3>1, <3>2
    <3>. QED
      BY <3>3, <3>4, <3>5
  <2>. QED
    BY <1>2, <2>2, <2>3 DEF SendKill
<1>3. CASE GraceWait
  <2>1. /\ member' \in [Process -> {"none", "running", "doomed", "ended", "reaped"}]
        /\ NoneRuns => NoneRuns'
    BY <1>3 DEF GraceWait, Reaped
  <2>. QED
    BY <1>3, <2>1 DEF GraceWait
<1>4. CASE Finally
  <2>1. /\ member' \in [Process -> {"none", "running", "doomed", "ended", "reaped"}]
        /\ NoneRuns => NoneRuns'
        /\ pc' # "term" /\ proc => member'[Leader] # "running"
    BY <1>4 DEF Finally, Reaped, Alive
  <2>. QED
    BY <1>4, <2>1 DEF Finally
<1>. QED
  BY <1>1, <1>2, <1>3, <1>4

(***************************************************************************)
(* The end of the call, and signals                                        *)
(***************************************************************************)

\* The transcript is judged and removed, and the reply is written.
LEMMA LateSteps ==
    ASSUME InvokeInv, Judge \/ Unlink \/ CreateReply \/ WriteReply \/ Unwind
    PROVE  InvokeInv'
<1> USE DEF InvokeInv, Before, Ending, After, InvokeTypeOK, NotStarted, Handlers, Signalled, Silent, Files,
            NoneRuns, FilesFollowResult, fileVars, childVars, Process
<1>1. CASE Judge
  <2>1. why \in {"timeout", "failed", "exit"}
    BY <1>1 DEF Judge
  <2>2. result' \in {"TIMEOUT", "ERROR", "none", "EMPTY"}
    BY <1>1, <2>1 DEF Judge
  <2>. QED
    BY <1>1, <2>2 DEF Judge
<1>2. CASE Unlink
  BY <1>2 DEF Unlink
<1>3. CASE CreateReply
  <2>1. CASE pc' = "write"
    BY <1>3, <2>1 DEF CreateReply
  <2>2. CASE pc' = "done"
    BY <1>3, <2>2 DEF CreateReply
  <2>. QED
    BY <1>3, <2>1, <2>2 DEF CreateReply
<1>4. CASE WriteReply
  BY <1>4 DEF WriteReply
<1>5. CASE Unwind
  BY <1>5 DEF Unwind
<1>. QED
  BY <1>1, <1>2, <1>3, <1>4, <1>5

\* The first signal finds a group that is ended in finally, or one that is
\* silent already.
LEMMA SignalStep ==
    ASSUME InvokeInv, Signal
    PROVE  InvokeInv'
<1> USE DEF InvokeInv, Before, Ending, After, InvokeTypeOK, NotStarted, Handlers, Signalled, Silent, Files,
            NoneRuns, FilesFollowResult, fileVars, Process
<1>1. /\ pc # "done" /\ UNCHANGED <<request, caught, proc, member, raw, out, gone>>
      /\ armed' = FALSE /\ signals' = signals + 1 /\ signals < MaxSignals
      /\ why' = IF proc \/ armed THEN "signal" ELSE why
  BY DEF Signal
<1>t. /\ signals' \in 0..MaxSignals /\ why' \in {"none", "exit", "failed", "timeout", "signal"}
      /\ request' \in Request /\ caught' \in BOOLEAN /\ armed' \in BOOLEAN /\ proc' \in BOOLEAN
      /\ member' \in [Process -> {"none", "running", "doomed", "ended", "reaped"}]
      /\ raw' \in BOOLEAN /\ out' \in BOOLEAN /\ gone' \in BOOLEAN
      /\ result \in {"none", "reply", "CONFIG", "OVERSIZE", "ERROR", "TIMEOUT", "EMPTY",
                      "signal", "killed"}
  <2>1. signals' \in 0..MaxSignals
    BY <1>1, ChildAssumption
  <2>2. why' \in {"none", "exit", "failed", "timeout", "signal"}
    BY <1>1
  <2>. QED
    BY <1>1, <2>1, <2>2
<1>2. CASE armed
  <2>1. pc' = "finally" /\ result' = result
    BY <1>2 DEF Signal
  <2>2. InvokeTypeOK'
    BY <1>t, <2>1
  <2>3. NotStarted' /\ Handlers' /\ Signalled'
    BY <1>1, <1>2, <2>1
  <2>4. Silent'
    BY <1>1, <1>2, <2>1
  <2>5. Files'
    BY <1>1, <1>2, <2>1
  <2>. QED
    BY <2>2, <2>3, <2>4, <2>5
<1>3. CASE ~armed /\ caught /\ pc # "unwind"
  <2>1. pc' = "unwind" /\ result' = result
    BY <1>3 DEF Signal
  <2>2. InvokeTypeOK'
    BY <1>t, <2>1
  <2>3. NotStarted' /\ Handlers' /\ Signalled'
    BY <1>1, <1>3, <2>1
  <2>4. Silent'
    BY <1>1, <1>3, <2>1
  <2>5. Files'
    BY <1>1, <1>3, <2>1
  <2>. QED
    BY <2>2, <2>3, <2>4, <2>5
<1>4. CASE ~armed /\ ~(caught /\ pc # "unwind")
  <2>1. pc' = "done" /\ result' = "killed"
    BY <1>4 DEF Signal
  <2>2. InvokeTypeOK'
    BY <1>t, <2>1
  <2>3. NotStarted' /\ Handlers' /\ Signalled'
    BY <1>1, <1>4, <2>1
  <2>4. Silent'
    BY <1>1, <1>4, <2>1
  <2>5. Files'
    BY <1>1, <1>4, <2>1
  <2>. QED
    BY <2>2, <2>3, <2>4, <2>5
<1>. QED
  BY <1>2, <1>3, <1>4

\* Any step keeps the invariant.
LEMMA InvokeStepKeeps == InvokeInv /\ [InvokeNext]_invokeVars => InvokeInv'
<1>1. ASSUME InvokeInv, UNCHANGED invokeVars PROVE InvokeInv'
  BY <1>1 DEF invokeVars, childVars, fileVars, InvokeInv, InvokeTypeOK, NotStarted, Handlers, Signalled, Silent,
              Files, NoneRuns, FilesFollowResult
<1>. QED
  BY <1>1, EarlySteps, GroupSteps, RunSteps, EndingSteps, LateSteps, SignalStep DEF InvokeNext, Step

(***************************************************************************)
(* The theorems                                                            *)
(***************************************************************************)

\* The invariant holds of every call.
THEOREM InvokeInductive == InvokeSpec => []InvokeInv
  BY InvokeInitKeeps, InvokeStepKeeps, PTL DEF InvokeSpec

\* Each variable has its type.
THEOREM TypeCorrect == InvokeSpec => []InvokeTypeOK
<1>1. InvokeInv => InvokeTypeOK
  BY DEF InvokeInv
<1>. QED
  BY <1>1, InvokeInductive, PTL

\* invoke (opencode_cli.py): what a call leaves behind is no more than its signals
\* explain, however many helpers the CLI starts, whatever they ignore, and however
\* many signals arrive.
THEOREM NothingIsLeft == InvokeSpec => []LeavesNothing
<1>1. ASSUME InvokeInv PROVE LeavesNothing
  <2>1. pc = "done" /\ result \notin {"signal", "killed"} => NoneRuns
    BY <1>1 DEF InvokeInv, Silent
  <2>2. pc = "done" /\ result \in {"signal", "killed"} =>
           /\ NoneRuns \/ signals > 1 \/ (signals = 1 /\ (~proc \/ gone))
           /\ signals = 1 /\ proc => member[Leader] # "running"
    BY <1>1 DEF InvokeInv, Signalled, Silent
  <2>3. NoneRuns => member[Leader] # "running"
    BY DEF NoneRuns, Process
  <2>. QED
    BY <1>1, <2>1, <2>2, <2>3 DEF InvokeInv, Files, LeavesNothing, GroupEnds
<1>. QED
  BY <1>1, InvokeInductive, PTL
==============================================================================
