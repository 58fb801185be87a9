------------------------------ MODULE ReadGate ------------------------------
(***************************************************************************)
(* The hooks next to the calls.  check-file-size looks at each Read before *)
(* it happens and sends a large one to bulk-read, unless no delegate could *)
(* take it; the session start starts the probes that are due.              *)
(*                                                                         *)
(*   reader  idle -> ids -> breaker -> denied -> waiting -> idle ...        *)
(*                \______\_________\-> served      \-> served              *)
(*                                                                         *)
(* A denied read is delegated to a call of Failover's; if that call fails, *)
(* the agent tries the read again and the hook decides anew.  Calls of     *)
(* other sessions, probes and the operator go on meanwhile.                *)
(***************************************************************************)
EXTENDS Failover

VARIABLE reader   \* the agent's read

gateVars == <<vars, reader>>

NoRead == [pc |-> "idle", ids |-> <<>>, call |-> {}, meddled |-> FALSE]
Served == [NoRead EXCEPT !.pc = "served"]

GateInit == Init /\ reader = NoRead

\* any_closed: no ids is no.
any_closed(ids, r) == \E i \in DOMAIN ids : ~IsOpen(<<ids[i], r>>)

(***************************************************************************)
(* check-file-size                                                         *)
(***************************************************************************)

\* A Read: one with an offset or a limit, of a small file, of no file, or with
\* the hooks off is allowed as it is.
decide_read ==
    /\ reader.pc = "idle"
    /\ reader' \in {[NoRead EXCEPT !.pc = "ids"], Served}
    /\ UNCHANGED vars

\* _delegate_available, first the registry: no candidate allows the read.
ReadCandidates ==
    /\ reader.pc = "ids"
    /\ reader' = IF Candidates("bulk-read") = <<>> THEN Served
                 ELSE [reader EXCEPT !.ids = Candidates("bulk-read"), !.pc = "breaker"]
    /\ UNCHANGED vars

\* Mutant of ReadBreaker: whether they are paused is not asked.
ReadBreakerBlind ==
    /\ reader.pc = "breaker"
    /\ reader' = [reader EXCEPT !.ids = <<>>, !.pc = "denied"]
    /\ UNCHANGED vars

\* Mutant of ReadBreaker: the breaker of the other role is asked.
ReadBreakerOfWriters ==
    /\ reader.pc = "breaker"
    /\ reader' = IF any_closed(reader.ids, "code-write")
                     THEN [reader EXCEPT !.ids = <<>>, !.pc = "denied"] ELSE Served
    /\ UNCHANGED vars

\* Then the breaker: the read is denied if one of those is not paused.
ReadBreaker ==
    /\ reader.pc = "breaker"
    /\ reader' = IF any_closed(reader.ids, "bulk-read")
                     THEN [reader EXCEPT !.ids = <<>>, !.pc = "denied"] ELSE Served
    /\ UNCHANGED vars

\* A hook that fails allows the read.
FailOpen ==
    /\ reader.pc \in {"ids", "breaker"}
    /\ reader' = Served
    /\ UNCHANGED vars

\* The agent does what the denial says: it delegates the read.
Delegate(c) ==
    /\ reader.pc = "denied"
    /\ Start(c)
    /\ call'[c].role = "bulk-read"
    /\ reader' = [reader EXCEPT !.pc = "waiting", !.call = {c}]

\* The call is over: the read is answered, or tried once more.
CallOver ==
    /\ reader.pc = "waiting"
    /\ \E c \in reader.call :
          /\ call[c].pc = "ended"
          /\ reader' = IF call[c].reason = "answered" THEN Served ELSE NoRead
    /\ UNCHANGED vars

ReaderStep ==
    \/ decide_read \/ ReadCandidates \/ ReadBreaker \/ FailOpen \/ CallOver
    \/ \E c \in Call : Delegate(c)

(***************************************************************************)
(* The others                                                              *)
(***************************************************************************)

\* A call of another session.
OtherCall(c) == Start(c)

Operator(m) ==
    SetEnabled(m) \/ Activate(m) \/ Remove(m) \/ DropLeftovers(m) \/ Add(m)

\* History: whether the registry or the breaker changed since the hook began.
Meddling ==
    reader' = [reader EXCEPT !.meddled =
        \/ @
        \/ reader.pc \notin {"idle", "served"} /\ <<registryVars, entry>>' # <<registryVars, entry>>]

Others ==
    /\ \/ \E c \in Call : OtherCall(c) \/ CallStep(c) \/ Kill(c)
       \/ \E m \in Model : ProbeEnds(m) \/ ProbeClears(m) \/ Operator(m)
       \/ WarmUp
       \/ Tick
    /\ Meddling

GateNext == ReaderStep \/ Others

GateSpec ==
    /\ GateInit /\ [][GateNext]_gateVars
    /\ \A c \in Call : WF_gateVars(CallStep(c) /\ Meddling)

(***************************************************************************)
(* Properties                                                              *)
(***************************************************************************)

ReaderTypeOK ==
    /\ reader.pc \in {"idle", "ids", "breaker", "denied", "waiting", "served"}
    /\ reader.call \subseteq Call

\* A read that was denied has a delegate: the call it is sent to finds a
\* candidate that is not paused, unless another actor changed the registry or
\* the breaker since the hook looked (README.md:201-203).
DeniedHasDelegate ==
    \A c \in reader.call :
        call[c].reason \in {"paused", "nocandidates"} => reader.meddled

\* "So Claude isn't stranded" (README.md:203): a read is not denied when each
\* candidate failed Threshold calls that count and is still to rest, where
\* failures count: not with a healthcheck, which keeps its own status, and not
\* where a write of the breaker was lost.
NotStranded ==
    [][reader.pc = "breaker" /\ reader'.pc = "denied" =>
          \E i \in DOMAIN reader.ids :
              LET k == <<reader.ids[i], "bulk-read">>
              IN  \/ k[1] \in HealthChecked
                  \/ k \in excused
                  \/ blame[k] < Threshold
                  \/ \E c \in Call : KeyOf(c) = k
                  \/ clock >= entry[k].until]_gateVars
=============================================================================
