---------------------------- MODULE HttpExchange ----------------------------
(***************************************************************************)
(* httpclient.py: one request under one hard limit.  A worker thread does  *)
(* the exchange; the main thread waits for it with join(limit), takes what *)
(* is in the box, or cancels the request and closes the connection it can  *)
(* see.                                                                    *)
(*                                                                         *)
(*   main:    join -> box -> (cancel -> look ->) ended                     *)
(*   worker:  start -> connecting -> handshake -> check -> headers -> body *)
(*            -> done                                                      *)
(*                                                                         *)
(* The clock counts the time of the request up to its limit, and "age" the *)
(* time of the socket call the worker waits in, up to the longest timeout. *)
(***************************************************************************)
EXTENDS Integers, FiniteSetsExt

CONSTANTS
    RequestLimits,         \* the limit of a request; 0: none
    ConnectLimits,  \* SHUNT_CONNECT_TIMEOUT; 0: none
    MaxAddresses,   \* bound: the addresses of the host
    MaxBytes        \* SHUNT_HTTP_MAX_RESPONSE_BYTES

ASSUME HttpExchangeAssumption ==
    /\ RequestLimits \cup ConnectLimits \subseteq Nat
    /\ {MaxAddresses, MaxBytes} \subseteq Nat \ {0}

VARIABLES
    timeLimit, own,     \* the limit, and the tracker's own limit for connecting (0: none)
    elapsed,
    main,           \* [pc, result]
    worker,         \* [pc, age, addresses, got]: "age" is that of the pending socket call
    sock,           \* "none"; "held": conn.sock; "hidden": open, but not in conn.sock; "closed"
    box,            \* what the worker left
    cancelled,      \* the tracker's flag
    declared        \* the Content-Length of the answer

requestVars == <<timeLimit, own, elapsed, main, worker, sock, box, cancelled, declared>>
requestSettings == <<timeLimit, own, declared>>

NoLength == -1
Empty == "empty"

\* A connect timeout that is not shorter than the limit is dropped.
OwnLimit(connect, whole) == IF whole > 0 /\ connect >= whole THEN 0 ELSE connect

RequestInit ==
    /\ timeLimit \in RequestLimits
    /\ \E connect \in ConnectLimits : own = OwnLimit(connect, timeLimit)
    /\ declared \in {NoLength} \cup 0..(MaxBytes + 1)
    /\ elapsed = 0
    /\ main = [pc |-> "join", result |-> Empty]
    /\ worker = [pc |-> "start", age |-> 0, addresses |-> MaxAddresses, got |-> 0]
    /\ sock = "none"
    /\ box = Empty
    /\ cancelled = FALSE

Main(pc) == main.pc = pc
Worker(pc) == worker.pc = pc

(***************************************************************************)
(* The worker                                                              *)
(***************************************************************************)

Go(pc) == worker' = [worker EXCEPT !.pc = pc, !.age = 0]

\* The exchange is over: the socket is closed and the result is in the box.
Leave(result) ==
    /\ worker' = [worker EXCEPT !.pc = "done"]
    /\ sock' = "closed"
    /\ box' = result

\* After cancelled, whatever went wrong is a timeout.
Fail(kind) == Leave(IF cancelled THEN "timeout" ELSE kind)

ByMain == <<requestSettings, elapsed, main, cancelled>>

\* The pending socket call has had "time" (0: it may take forever).
TimedOut(time) == time > 0 /\ worker.age >= time

ConnectTime == IF own > 0 THEN own ELSE timeLimit

Start ==
    /\ Worker("start")
    /\ Go("connecting")
    /\ UNCHANGED <<ByMain, sock, box>>

\* The connection is up, with or without a TLS handshake before it is used.
\* During the handshake conn.sock is not the socket that is open.
Connected ==
    /\ Worker("connecting")
    /\ \/ Go("check") /\ sock' = "held"
       \/ Go("handshake") /\ sock' = "hidden"
    /\ UNCHANGED <<ByMain, box>>

\* An address did not answer in time, the next one is tried.
NextAddress ==
    /\ Worker("connecting") /\ worker.addresses > 1
    /\ worker' = [worker EXCEPT !.addresses = @ - 1, !.age = 0]
    /\ UNCHANGED <<ByMain, sock, box>>

ConnectFails ==
    /\ Worker("connecting")
    /\ \E kind \in {"connect", "unreachable", "recv"} : Fail(kind)
    /\ UNCHANGED ByMain

\* Mutant of ConnectTimeoutKind: it counts like the timeout of the whole request.
ConnectTimeoutAlike == "timeout"

\* Running out of the connect timeout is not running out of the limit.
ConnectTimeoutKind == IF own > 0 THEN "unreachable" ELSE "timeout"

ConnectTimesOut ==
    /\ worker.pc \in {"connecting", "handshake"} /\ TimedOut(ConnectTime)
    /\ Fail(ConnectTimeoutKind)
    /\ UNCHANGED ByMain

Handshaken ==
    /\ Worker("handshake")
    /\ \/ Go("check") /\ sock' = "held" /\ UNCHANGED box
       \/ \E kind \in {"tls", "connect", "unreachable", "recv"} : Fail(kind)
    /\ UNCHANGED ByMain

\* connect looks at the flag after the connection is up.
CheckCancelled ==
    /\ Worker("check")
    /\ \/ cancelled /\ Fail("connect")
       \/ ~cancelled /\ Go("headers") /\ UNCHANGED <<sock, box>>
    /\ UNCHANGED ByMain

\* A line of the headers: the next one has the whole limit again.
HeaderLine ==
    /\ Worker("headers") /\ sock = "held"
    /\ Go("headers")
    /\ UNCHANGED <<ByMain, sock, box>>

\* urllib hands the socket to the response, conn.sock is None from then on.
HeadersDone ==
    /\ Worker("headers") /\ sock = "held"
    /\ Go("body") /\ sock' = "hidden"
    /\ UNCHANGED <<ByMain, box>>

\* Mutant of BrokenKinds: a lost route counts at any time.
BrokenKindsRoute == {"recv", "connect", "unreachable"}

\* A reset or a broken pipe, and any other error of the socket, such as a
\* route that is lost while the answer is read.
BrokenKinds == {"recv", "connect"}

\* The answer says, or turned out, to be longer than what is accepted.
Oversize == declared > MaxBytes \/ worker.got > MaxBytes

\* The server breaks the connection off, or main closed it.
Broken ==
    /\ Worker("headers") \/ (Worker("body") /\ ~Oversize)
    /\ \E kind \in BrokenKinds : Fail(kind)
    /\ UNCHANGED ByMain

HeadersTimeOut ==
    /\ Worker("headers") /\ TimedOut(timeLimit)
    /\ Fail("timeout")
    /\ UNCHANGED ByMain

TimeUp == timeLimit > 0 /\ elapsed >= timeLimit

\* Every read may take what is left of the limit.
BodyTimesOut ==
    /\ Worker("body") /\ ~Oversize /\ TimeUp
    /\ Fail("timeout")
    /\ UNCHANGED ByMain

TooLarge ==
    /\ Worker("body") /\ Oversize
    /\ Fail("too_large")
    /\ UNCHANGED ByMain

ReadOn == Worker("body") /\ ~Oversize /\ ~TimeUp

\* The answer may have no length, or as many bytes as it says.
ReadSome ==
    /\ ReadOn /\ (declared # NoLength => worker.got < declared)
    /\ worker' = [worker EXCEPT !.got = @ + 1, !.age = 0]
    /\ UNCHANGED <<ByMain, sock, box>>

Short == declared # NoLength /\ worker.got < declared

ReadAll ==
    /\ ReadOn
    /\ IF Short THEN Fail("recv") ELSE Leave("answer")
    /\ UNCHANGED ByMain

(***************************************************************************)
(* The main thread                                                         *)
(***************************************************************************)

ByWorker == <<requestSettings, elapsed, worker, box>>

\* Mutant of JoinReturns: the main thread waits for as long as the worker needs.
JoinReturnsLate == Worker("done")

JoinReturns == Worker("done") \/ TimeUp

Join ==
    /\ Main("join") /\ JoinReturns
    /\ main' = [main EXCEPT !.pc = "box"]
    /\ UNCHANGED <<ByWorker, sock, cancelled>>

\* An answer that came after join gave up still counts when it is in the box.
TakeBox ==
    /\ Main("box")
    /\ main' = IF box # Empty THEN [pc |-> "ended", result |-> box]
               ELSE [pc |-> "cancel", result |-> "timeout"]
    /\ UNCHANGED <<ByWorker, sock, cancelled>>

\* A signal while the main thread waits.
Interrupt ==
    /\ Main("join")
    /\ main' = [pc |-> "cancel", result |-> "interrupted"]
    /\ UNCHANGED <<ByWorker, sock, cancelled>>

\* Mutant of Abort: the flag is set after the connections were closed.
AbortThenFlag ==
    \/ /\ Main("cancel")
       /\ main' = [main EXCEPT !.pc = "look"]
       /\ sock' = IF sock = "held" THEN "closed" ELSE sock
       /\ UNCHANGED cancelled
    \/ /\ Main("look")
       /\ main' = [main EXCEPT !.pc = "ended"]
       /\ cancelled' = TRUE
       /\ UNCHANGED sock

\* abort: first the flag, then the connection.
Abort ==
    \/ /\ Main("cancel")
       /\ main' = [main EXCEPT !.pc = "look"]
       /\ cancelled' = TRUE
       /\ UNCHANGED sock
    \/ /\ Main("look")
       /\ main' = [main EXCEPT !.pc = "ended"]
       /\ sock' = IF sock = "held" THEN "closed" ELSE sock
       /\ UNCHANGED cancelled

AbortStep == Abort /\ UNCHANGED ByWorker

LongestTime == Max(RequestLimits \cup ConnectLimits)

OneMore(time, top) == IF time < top THEN time + 1 ELSE time

Tick ==
    /\ elapsed' = OneMore(elapsed, timeLimit)
    /\ worker' = [worker EXCEPT !.age = OneMore(@, LongestTime)]
    /\ UNCHANGED <<requestSettings, main, sock, box, cancelled>>

MainStep == Join \/ TakeBox \/ AbortStep

\* What the worker does on its own: its code and its timers, and a read of a closed socket ends.
WorkerStep ==
    \/ Start \/ CheckCancelled
    \/ ConnectTimesOut \/ HeadersTimeOut \/ BodyTimesOut
    \/ TooLarge
    \/ sock = "closed" /\ Broken

\* What the network and the server do.
NetworkStep ==
    \/ Connected \/ NextAddress \/ ConnectFails \/ Handshaken
    \/ HeaderLine \/ HeadersDone \/ Broken
    \/ ReadSome \/ ReadAll

RequestNext == MainStep \/ Interrupt \/ WorkerStep \/ NetworkStep \/ Tick

RequestSpec == RequestInit /\ [][RequestNext]_requestVars

\* Threads that can go on do, and time passes.  No server has to answer.
FairRequestSpec ==
    /\ RequestSpec
    /\ WF_requestVars(MainStep) /\ WF_requestVars(WorkerStep) /\ WF_requestVars(Tick)

(***************************************************************************)
(* Properties                                                              *)
(***************************************************************************)

Kinds == {Empty, "answer", "timeout", "unreachable", "connect", "tls", "recv", "too_large", "interrupted"}

\* The types, and the worker is done when and only when the box is full.
RequestTypeOK ==
    /\ timeLimit \in RequestLimits /\ own \in ConnectLimits \cup {0} /\ elapsed \in 0..timeLimit
    /\ main.pc \in {"join", "box", "cancel", "look", "ended"} /\ main.result \in Kinds
    /\ worker.pc \in {"start", "connecting", "handshake", "check", "headers", "body", "done"}
    /\ worker.age \in 0..LongestTime /\ worker.addresses \in 1..MaxAddresses /\ worker.got \in 0..(MaxBytes + 1)
    /\ sock \in {"none", "held", "hidden", "closed"} /\ cancelled \in BOOLEAN
    /\ box \in Kinds /\ (box # Empty <=> Worker("done"))

\* A request that "timed out" had its whole limit, however its connect,
\* its headers and its body shared it (_perform, connect, _read_body).
TimeoutTrue ==
    main.result = "timeout" => timeLimit > 0 /\ elapsed >= timeLimit

SentBefore == worker.pc \in {"headers", "body"}

\* "unreachable" is told only of a request that was never sent, so a lost
\* route counts only while connecting (_Conn.connect).  Not so "connect",
\* which an error after that may give as well.
UnreachableIsUnsent ==
    [][box' = "unreachable" /\ box = Empty => ~SentBefore]_requestVars

\* An answer is as long as it said, and no longer than what is accepted (_read_body).
AnswerWhole ==
    main.result = "answer" =>
        worker.got <= MaxBytes /\ (declared # NoLength => worker.got = declared)

\* What a request ends with is true.
RequestHonest == TimeoutTrue /\ AnswerWhole

\* A request with a limit returns, whatever the server does (_perform).
MainReturns == timeLimit > 0 => <>Main("ended")

\* No connection outlives a request that was cancelled, wherever the worker
\* was when the main thread gave up (_Tracker).
CancelledCloses == timeLimit > 0 => (cancelled ~> Worker("done") /\ sock = "closed")
=============================================================================
