------------------------------ MODULE HttpCall ------------------------------
(***************************************************************************)
(* transport_http.py, chunking.py, deadline.py: one attempt of one model   *)
(* over HTTP.  It asks each chunk of the input, one after the other, then  *)
(* merges the partial answers in rounds of requests that fit the model,    *)
(* all under one total deadline.                                           *)
(*                                                                         *)
(*   ask -> ready -> sent -> ask (the next chunk) ... -> merge -> round    *)
(*       -> ready -> sent -> round ... -> merge ... -> write -> ended      *)
(*                                                                         *)
(* Time is counted in ticks.  A partial answer is the chunks it was made   *)
(* of and the bytes of its text and label.                                 *)
(***************************************************************************)
EXTENDS Integers, Sequences, SequencesExt, FiniteSetsExt

CONSTANTS
    TicksPerSecond,
    Limits,        \* SHUNT_TIMEOUT_SECONDS, in ticks; 0: no limit
    Totals,        \* SHUNT_TOTAL_TIMEOUT_SECONDS, when it is set
    TotalFactor,   \* TOTAL_TIMEOUT_FACTOR, for when it is not
    MaxChunks,     \* bound: the chunks of the input
    Sizes,         \* bound: the bytes of a partial answer
    Room,          \* the bytes a merge request may have
    Base,          \* the bytes of a merge request without partial answers
    Header,        \* the bytes around one partial answer
    Reserve,       \* PARTIAL_RESERVE_BYTES, what is planned for them
    MaxDepth,      \* MAX_MERGE_DEPTH
    KeyTime,       \* bound: ticks until the key and the health status are read
    MaxClock       \* bound: the clock when the attempt does nothing

ASSUME HttpCallAssumption ==
    /\ {TicksPerSecond, TotalFactor, MaxChunks} \subseteq Nat \ {0}
    /\ Limits \cup Totals \cup Sizes \subseteq Nat /\ 0 \notin Totals
    /\ {Room, Base, Header, Reserve, MaxDepth, KeyTime, MaxClock} \subseteq Nat
    /\ Header <= Reserve

VARIABLES
    limit, total,  \* Deadline: the limit of a request, the total in seconds (0: none)
    chunks,        \* the chunks of the plan
    checked,       \* the provider has a healthcheck, not yet looked at
    clock,
    call           \* the attempt

vars == <<limit, total, chunks, checked, clock, call>>
settings == <<limit, total, chunks>>

Up(ticks) == (ticks + TicksPerSecond - 1) \div TicksPerSecond

NoWindow == [time |-> 0, capped |-> FALSE]
NoGroup == [first |-> 0, last |-> 0]

Init ==
    /\ limit \in Limits
    /\ total \in Totals \cup {TotalFactor * Up(limit)}
    /\ chunks \in 1..MaxChunks
    /\ checked \in BOOLEAN
    /\ clock = 0
    /\ call = [pc |-> "ask", window |-> NoWindow, sent |-> 0, haveKey |-> FALSE, healthy |-> FALSE,
               noted |-> "none", parts |-> <<>>, out |-> <<>>, group |-> NoGroup, next |-> 1, depth |-> 0,
               requests |-> 0, usage |-> 0, status |-> "none"]

Status == {"none", "ok", "ERROR", "TIMEOUT", "DEADLINE", "UNREACHABLE", "SKIPPED", "CONFIG", "FAILED"}

At(pc) == call.pc = pc

End == total * TicksPerSecond

Stop(status) ==
    call' = [call EXCEPT !.pc = "ended", !.status = status]

\* Mutant of Window: a request may always take its whole limit.
WindowUncut ==
    IF limit = 0 THEN [time |-> total * TicksPerSecond, capped |-> total > 0]
    ELSE [time |-> limit, capped |-> FALSE]

\* Mutant of Window: a request that has its own limit counts as cut.
WindowCapped ==
    LET left == End - clock
        seconds == Min({Up(left), total})
    IN  IF total = 0 THEN [time |-> limit, capped |-> FALSE]
        ELSE IF limit = 0 \/ seconds < Up(limit)
             THEN [time |-> seconds * TicksPerSecond, capped |-> TRUE]
             ELSE [time |-> limit, capped |-> TRUE]

\* Mutant of Window: without a limit of its own a request has no limit.
WindowEndless ==
    IF limit = 0 THEN [time |-> 0, capped |-> FALSE]
    ELSE [time |-> Min({limit, Up(End - clock) * TicksPerSecond}), capped |-> Up(End - clock) < Up(limit)]

\* request_time: the time of the next request, and whether the deadline cut it.
Window ==
    LET left == End - clock
        seconds == Min({Up(left), total})
    IN  IF total = 0 THEN [time |-> limit, capped |-> FALSE]
        ELSE IF limit = 0 \/ seconds < Up(limit)
             THEN [time |-> seconds * TicksPerSecond, capped |-> TRUE]
             ELSE [time |-> limit, capped |-> FALSE]

(***************************************************************************)
(* One request                                                             *)
(***************************************************************************)

\* ask: no time is left.
NoTimeLeft ==
    /\ At("ask") /\ total > 0 /\ clock >= End
    /\ Stop("DEADLINE")
    /\ UNCHANGED <<settings, checked, clock>>

\* ask: the window is fixed, before the health status and the key are read.
Open ==
    /\ At("ask") /\ (total > 0 => clock < End)
    /\ call' = [call EXCEPT !.pc = "ready", !.window = Window]
    /\ UNCHANGED <<settings, checked, clock>>

\* A fresh unhealthy status ends the attempt, once and before any request.
Skip ==
    /\ At("ready") /\ checked
    /\ Stop("SKIPPED")
    /\ checked' = FALSE
    /\ UNCHANGED <<settings, clock>>

KeyFails ==
    /\ At("ready") /\ ~call.haveKey
    /\ \E status \in {"CONFIG", "ERROR"} : Stop(status)
    /\ checked' = FALSE
    /\ UNCHANGED <<settings, clock>>

\* The key is read for the first request and kept; then the request goes out.
Send ==
    /\ At("ready")
    /\ \E k \in 0..(IF call.haveKey THEN 0 ELSE KeyTime) :
          /\ clock' = clock + k
          /\ call' = [call EXCEPT !.pc = "sent", !.haveKey = TRUE, !.sent = clock + k, !.requests = @ + 1]
    /\ checked' = FALSE
    /\ UNCHANGED settings

\* A request of the merge is about a group of neighbouring partial answers.
Merging == call.group # NoGroup

PartsOf(group) == SubSeq(call.parts, group.first, group.last)

Everything == [first |-> 1, last |-> Len(call.parts)]

\* Mutant of Merged: the groups of a round come out in the reverse order.
MergedInFront(out, part) == <<part>> \o out

\* The answer of a group goes behind those of the groups before.
Merged(out, part) == Append(out, part)

MapAnswer(size) ==
    LET parts == Append(call.parts, [from |-> <<Len(call.parts) + 1>>, size |-> size])
    IN  [call EXCEPT !.parts = parts,
                     !.pc = IF Len(parts) < chunks THEN "ask" ELSE IF chunks = 1 THEN "write" ELSE "merge"]

\* The request about all the parts gives the final answer.  No group of a
\* round is all the parts: the round is there because they do not fit.
MergeAnswer(size) ==
    LET part == [from |-> FlattenSeq([i \in DOMAIN PartsOf(call.group) |-> PartsOf(call.group)[i].from]),
                 size |-> size]
    IN  IF call.group = Everything
            THEN [call EXCEPT !.group = NoGroup, !.parts = <<part>>, !.pc = "write"]
        ELSE [call EXCEPT !.group = NoGroup, !.out = Merged(@, part),
                          !.next = call.group.last + 1, !.pc = "round"]

\* The answer comes within the window.  The first one marks the model healthy.
Answer ==
    /\ At("sent")
    /\ clock' \in call.sent..(call.sent + call.window.time)
    /\ \E size \in Sizes :
          LET answered == IF Merging THEN MergeAnswer(size) ELSE MapAnswer(size)
          IN  call' = [answered EXCEPT !.usage = @ + 1, !.healthy = TRUE,
                                       !.noted = IF call.healthy THEN @ ELSE "healthy"]
    /\ UNCHANGED <<settings, checked>>

\* The time of the request is over.
Expire ==
    /\ At("sent") /\ call.window.time > 0
    /\ clock' = call.sent + call.window.time
    /\ Stop(IF call.window.capped THEN "DEADLINE" ELSE "TIMEOUT")
    /\ UNCHANGED <<settings, checked>>

\* Any other failure ends the attempt ("ERROR" stands for all of them).  An unreachable model is noted as
\* unhealthy, or probed when not even the connection came up.
Refuse ==
    /\ At("sent")
    /\ \/ Stop("ERROR")
       \/ \E note \in {"unhealthy", "probe"} :
             call' = [call EXCEPT !.pc = "ended", !.status = "UNREACHABLE", !.noted = note]
    /\ UNCHANGED <<settings, checked, clock>>

(***************************************************************************)
(* The merge                                                               *)
(***************************************************************************)

\* The bytes of a request with these partial answers, each with "extra" around it.
SizeOf(parts, extra) ==
    LET upTo[i \in 0..Len(parts)] == IF i = 0 THEN Base ELSE upTo[i - 1] + parts[i].size + extra
    IN  upTo[Len(parts)]

\* merge: the last request, the next round, or no answer.
Merge ==
    /\ At("merge")
    /\ \/ /\ SizeOf(call.parts, Header) <= Room
          /\ call' = [call EXCEPT !.pc = "ask", !.group = Everything]
       \/ /\ SizeOf(call.parts, Header) > Room
          /\ call.depth >= MaxDepth
          /\ Stop("ERROR")
       \/ /\ SizeOf(call.parts, Header) > Room
          /\ call.depth < MaxDepth
          /\ call' = [call EXCEPT !.pc = "round", !.out = <<>>, !.next = 1]
    /\ UNCHANGED <<settings, checked, clock>>

TooBig(i) == SizeOf(<<call.parts[i]>>, Reserve) > Room

\* Part i still fits the request of the group that begins at "next".
Joins(i) == SizeOf(SubSeq(call.parts, call.next, i), Reserve) <= Room

Rest == call.next..Len(call.parts)

\* round reads on until a part does not join the group, or is too big alone.
StopAt == Min({i \in Rest : TooBig(i) \/ ~Joins(i)} \cup {Len(call.parts) + 1})

\* One partial answer alone is too big: the group read so far is not asked either.
GiveUp ==
    /\ At("round") /\ StopAt \in Rest /\ TooBig(StopAt)
    /\ Stop("ERROR")
    /\ UNCHANGED <<settings, checked, clock>>

GroupRead == At("round") /\ Rest # {} /\ (StopAt \in Rest => ~TooBig(StopAt))

\* Mutant of Alone: a group of one is asked like any other.
AloneNever == FALSE

Alone == StopAt = call.next + 1

\* A group of one needs no request.
CarryOver ==
    /\ GroupRead /\ Alone
    /\ call' = [call EXCEPT !.out = Append(@, call.parts[call.next]), !.next = @ + 1]
    /\ UNCHANGED <<settings, checked, clock>>

AskGroup ==
    /\ GroupRead /\ ~Alone
    /\ call' = [call EXCEPT !.pc = "ask", !.group = [first |-> call.next, last |-> StopAt - 1]]
    /\ UNCHANGED <<settings, checked, clock>>

EndRound ==
    /\ At("round") /\ Rest = {}
    /\ IF Len(call.out) >= Len(call.parts) THEN Stop("ERROR")
       ELSE call' = [call EXCEPT !.pc = "merge", !.parts = call.out, !.out = <<>>, !.depth = @ + 1]
    /\ UNCHANGED <<settings, checked, clock>>

(***************************************************************************)
(* The attempt                                                             *)
(***************************************************************************)

\* write_chunk: the lines of the chunk cannot be read any more.
ChunkFails ==
    /\ At("ask") /\ ~Merging
    /\ Stop("FAILED")
    /\ UNCHANGED <<settings, checked, clock>>

\* The reply file is written, or cannot be.
Write ==
    /\ At("write")
    /\ \E status \in {"ok", "ERROR"} : Stop(status)
    /\ UNCHANGED <<settings, checked, clock>>

\* Time passes between two requests.
Pause ==
    /\ At("ask") /\ clock < MaxClock
    /\ clock' = clock + 1
    /\ UNCHANGED <<settings, checked, call>>

Program ==
    \/ NoTimeLeft \/ Open \/ Skip \/ KeyFails \/ Send \/ ChunkFails \/ Write
    \/ Merge \/ GiveUp \/ CarryOver \/ AskGroup \/ EndRound

Next == Program \/ Expire \/ Answer \/ Refuse \/ Pause

Spec == Init /\ [][Next]_vars

\* The program goes on and the timer of a request runs out.  No server has to answer.
FairSpec == Spec /\ WF_vars(Program) /\ WF_vars(Expire)

(***************************************************************************)
(* Properties                                                              *)
(***************************************************************************)

Part(size) == [from : Seq(1..MaxChunks), size : size]

\* The types of the attempt, and a finished attempt has a status.
TypeOK ==
    /\ limit \in Limits /\ total \in Nat /\ chunks \in 1..MaxChunks /\ checked \in BOOLEAN /\ clock \in Nat
    /\ call.pc \in {"ask", "ready", "sent", "merge", "round", "write", "ended"}
    /\ call.window \in [time : Nat, capped : BOOLEAN]
    /\ {call.parts, call.out} \subseteq Seq(Part(Sizes))
    /\ call.group \in [first : 0..MaxChunks, last : 0..MaxChunks] /\ call.next \in 1..(MaxChunks + 1)
    /\ call.depth \in 0..MaxDepth /\ call.usage \in 0..call.requests
    /\ call.status \in Status /\ (call.status = "none" <=> ~At("ended"))
    /\ Merging => At("ended") \/ (call.group.first < call.group.last /\ call.group.last <= Len(call.parts))

\* DEADLINE is told only when the total deadline of the attempt is over
\* (request_time, ask).
DeadlineHonest ==
    call.status = "DEADLINE" => total > 0 /\ clock >= End

\* TIMEOUT, which counts against the model, is told only of a request that had
\* all of SHUNT_TIMEOUT_SECONDS (request_time's "capped").
TimeoutHonest ==
    call.status = "TIMEOUT" => limit > 0 /\ clock - call.sent >= limit

\* A status that turns unhealthy during the attempt does not throw away what
\* was asked: the attempt is skipped before its first request or not at all (_healthcheck).
SkippedBeforeAsking ==
    call.status = "SKIPPED" => call.requests = 0

\* What the outcome says of the model and of the time is true.
OutcomeHonest == DeadlineHonest /\ TimeoutHonest /\ SkippedBeforeAsking

\* A request that is out ends with the deadline, but for the rounding to whole
\* seconds and for the time the key lookup took (request_time).
RequestInTime ==
    At("sent") /\ total > 0 =>
        /\ call.window.time > 0
        /\ call.sent + call.window.time < End + KeyTime + TicksPerSecond

\* The answer was made of the answers to all chunks, each once and in the
\* order of the input (map_reduce, _Merger.round).
InOrder ==
    call.status = "ok" => call.parts[1].from = [i \in 1..chunks |-> i] /\ Len(call.parts) = 1

\* No merge request is larger than the model accepts (_Merger.round plans with
\* the reserve, merge with the request itself).
MergeFits ==
    Merging => SizeOf(PartsOf(call.group), Header) <= Room

\* The merge costs less than a request per chunk, however it groups (_Merger.group).
RequestsBounded ==
    call.requests <= 2 * chunks - 1

\* The usage of the answer is that of every request of the attempt (Usage).
UsageComplete ==
    call.status = "ok" => call.usage = call.requests

\* The answer is that of the whole input, with the cost of the whole input.
AnswerComplete == InOrder /\ UsageComplete

\* The merge asks neither too much at once nor too often.
MergeBounded == MergeFits /\ RequestsBounded

\* An attempt with a total deadline ends, whatever the server does.
CallEnds == total > 0 => <>At("ended")
=============================================================================
