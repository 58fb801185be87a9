---------------------------- MODULE ChildProcess ----------------------------
(***************************************************************************)
(* opencode_cli.py, invoke: one call through the OpenCode CLI.  After the  *)
(* size guard and the isolated config the CLI runs in a process group of   *)
(* its own and writes a transcript; its group is ended, the transcript is  *)
(* judged and normalized into the reply.                                   *)
(*                                                                         *)
(*   guard -> config -> raw -> start -> forked -> wait -> term -> termwait *)
(*   -> kill -> killwait -> last [-> finally [-> term ... last]]           *)
(*   -> judge -> unlink [-> create -> write] -> done                       *)
(*                                                                         *)
(* The group is its leader and the helpers the leader starts.  A process   *)
(* that got SIGKILL is "doomed": it ends, but later when it sits in an     *)
(* uninterruptible system call.  SIGTERM may be ignored, so sending it     *)
(* changes nothing a process could not do by itself.                       *)
(***************************************************************************)
EXTENDS Naturals

CONSTANTS
    Helper,        \* the processes the leader may start
    Leader,
    TimeLimits,    \* SHUNT_TIMEOUT_SECONDS: "some", "none" (0), "invalid"
    MaxSignals     \* bound: signals that reach the call

ASSUME ChildAssumption ==
    /\ Leader \notin Helper /\ TimeLimits \subseteq {"some", "none", "invalid"} /\ MaxSignals \in Nat

\* What the call is asked: measures of a file that exceed what OpenCode keeps,
\* context_tokens of the registry, and whether the input fits its budget.
Request ==
    [over : SUBSET {"lines", "bytes", "line"}, context : {"none", "invalid", "tokens"},
     fits : BOOLEAN, limit : TimeLimits]

VARIABLES
    pc,            \* where the call is
    request,
    caught,        \* the caller's own handlers raise (code-write), else a signal kills (bulk-read)
    armed,         \* the handlers of _dies_with_us are installed
    proc,          \* proc is assigned
    why,           \* how run_with_timeout ends
    member,        \* process -> its state
    raw,           \* the file of the transcript
    out,           \* the file of the reply
    result,        \* the status the caller gets
    signals,
    gone           \* history: a signalled call found that its leader had ended

childVars == <<armed, proc, why, member>>
fileVars == <<raw, out>>
invokeVars == <<pc, request, caught, childVars, fileVars, result, signals, gone>>

Process == Helper \cup {Leader}
Alive == {m \in Process : member[m] \in {"running", "doomed"}}

InvokeInit ==
    /\ pc = "guard" /\ request \in Request /\ caught \in BOOLEAN
    /\ armed = FALSE /\ proc = FALSE /\ why = "none"
    /\ member = [m \in Process |-> "none"]
    /\ raw = FALSE /\ out = FALSE /\ result = "none"
    /\ signals = 0 /\ gone = FALSE

(***************************************************************************)
(* The group                                                               *)
(***************************************************************************)

StartHelper(h) ==
    /\ member[Leader] = "running" /\ member[h] = "none"
    /\ member' = [member EXCEPT ![h] = "running"]
    /\ UNCHANGED <<pc, request, caught, armed, proc, why, fileVars, result, signals, gone>>

\* A leader that ended is a zombie until the call reaps it.
ProcessEnds(m) ==
    /\ m \in Alive
    /\ member' = [member EXCEPT ![m] = "ended"]
    /\ UNCHANGED <<pc, request, caught, armed, proc, why, fileVars, result, signals, gone>>

(***************************************************************************)
(* Before the child                                                        *)
(***************************************************************************)

AbortWith(status) ==
    /\ pc' = "done" /\ result' = status
    /\ UNCHANGED <<request, caught, childVars, fileVars, signals, gone>>

Goto(to) ==
    /\ pc' = to
    /\ UNCHANGED <<request, caught, childVars, fileVars, result, signals, gone>>

\* file_too_big and the context budget, which needs a usable context_tokens.
guard_size(r) ==
    IF r.over # {} THEN "OVERSIZE"
    ELSE IF r.context = "invalid" THEN "CONFIG"
    ELSE IF r.context = "tokens" /\ ~r.fits THEN "OVERSIZE"
    ELSE "none"

Guard ==
    /\ pc = "guard"
    /\ IF guard_size(request) = "none" THEN Goto("config") ELSE AbortWith(guard_size(request))

\* prepare_isolated_config fails without the agent or on a broken
\* opencode.json; an invalid time limit ends the call too.
PrepareConfig ==
    /\ pc = "config"
    /\ \/ AbortWith("CONFIG")
       \/ request.limit = "invalid" /\ AbortWith("ERROR")
       \/ request.limit # "invalid" /\ Goto("raw")

CreateRaw ==
    /\ pc = "raw"
    /\ \/ AbortWith("ERROR")
       \/ /\ pc' = "start" /\ raw' = TRUE /\ armed' = TRUE
          /\ UNCHANGED <<request, caught, proc, why, member, out, result, signals, gone>>

(***************************************************************************)
(* run_with_timeout                                                        *)
(***************************************************************************)

\* Popen forks, or cannot run the binary (exit status 127).
Fork ==
    /\ pc = "start"
    /\ \/ /\ pc' = "forked"
          /\ member' = [member EXCEPT ![Leader] = "running"]
          /\ UNCHANGED <<armed, why>>
       \/ /\ pc' = "judge" /\ why' = "failed" /\ armed' = FALSE
          /\ UNCHANGED member
    /\ UNCHANGED <<request, caught, proc, fileVars, result, signals, gone>>

Assign ==
    /\ pc = "forked"
    /\ pc' = "wait" /\ proc' = TRUE
    /\ UNCHANGED <<request, caught, armed, why, member, fileVars, result, signals, gone>>

Reaped == [member EXCEPT ![Leader] = "reaped"]

\* proc.wait: the leader ended, with exit status 0 or another one.
WaitReturns ==
    /\ pc = "wait" /\ member[Leader] = "ended"
    /\ member' = Reaped
    /\ pc' = "term" /\ why' \in {"exit", "failed"}
    /\ UNCHANGED <<request, caught, armed, proc, fileVars, result, signals, gone>>

WaitTimesOut ==
    /\ pc = "wait" /\ request.limit = "some" /\ Leader \in Alive
    /\ pc' = "term" /\ why' = "timeout"
    /\ UNCHANGED <<request, caught, armed, proc, member, fileVars, result, signals, gone>>

SendTerm == pc = "term" /\ Goto("termwait")

Killed == [m \in Process |-> IF member[m] = "running" THEN "doomed" ELSE member[m]]

\* After the last kill the handlers go; a call that was already in its
\* finally part is over.
AfterLast == IF armed THEN "finally" ELSE IF why = "signal" THEN "unwind" ELSE "judge"

\* killpg with SIGKILL, and once more for what outlived its leader.
SendKill ==
    /\ member' = Killed
    /\ \/ pc = "kill" /\ pc' = "killwait" /\ UNCHANGED armed
       \/ pc = "last" /\ pc' = AfterLast /\ armed' = FALSE
    /\ UNCHANGED <<request, caught, proc, why, fileVars, result, signals, gone>>

\* Mutant of GraceWait: the wait after SIGKILL has no limit.
GraceWaitForever ==
    /\ \/ pc = "termwait" /\ pc' = "kill"
       \/ pc = "killwait" /\ Leader \notin Alive /\ pc' = "last"
    /\ member' = IF member[Leader] = "ended" THEN Reaped ELSE member
    /\ UNCHANGED <<request, caught, armed, proc, why, fileVars, result, signals, gone>>

\* The bounded wait after each signal ends with the leader or with the grace.
GraceWait ==
    /\ \/ pc = "termwait" /\ pc' = "kill"
       \/ pc = "killwait" /\ pc' = "last"
    /\ member' = IF member[Leader] = "ended" THEN Reaped ELSE member
    /\ UNCHANGED <<request, caught, armed, proc, why, fileVars, result, signals, gone>>

\* Mutant of Finally: a signal ends the call only.
FinallyNothing ==
    /\ pc = "finally"
    /\ pc' = IF why = "signal" THEN "unwind" ELSE "judge"
    /\ UNCHANGED <<request, caught, childVars, fileVars, result, signals, gone>>

\* finally: the group is ended again if the leader is still there.  Without its
\* leader the group is left alone, also when the first kill had not begun.
Finally ==
    /\ pc = "finally"
    /\ pc' = IF proc /\ Leader \in Alive THEN "term"
             ELSE IF why = "signal" THEN "unwind" ELSE "judge"
    /\ member' = IF proc /\ member[Leader] = "ended" THEN Reaped ELSE member
    /\ gone' = (why = "signal" /\ proc /\ Leader \notin Alive)
    /\ UNCHANGED <<request, caught, armed, proc, why, fileVars, result, signals>>

(***************************************************************************)
(* After the child                                                         *)
(***************************************************************************)

\* The exit status, and a transcript that is empty or too large.
Judge ==
    /\ pc = "judge"
    /\ pc' = "unlink"
    /\ result' \in CASE why = "timeout" -> {"TIMEOUT"}
                     [] why = "failed" -> {"ERROR"}
                     [] why = "exit" -> {"none", "EMPTY"}
    /\ UNCHANGED <<request, caught, childVars, fileVars, signals, gone>>

Unlink ==
    /\ pc = "unlink"
    /\ raw' = FALSE
    /\ pc' = IF result = "none" THEN "create" ELSE "done"
    /\ UNCHANGED <<request, caught, childVars, out, result, signals, gone>>

\* _write_reply: the file is made and then written; a failure removes it.
CreateReply ==
    /\ pc = "create"
    /\ \/ pc' = "write" /\ out' = TRUE /\ UNCHANGED result
       \/ pc' = "done" /\ result' = "ERROR" /\ UNCHANGED out
    /\ UNCHANGED <<request, caught, childVars, raw, signals, gone>>

WriteReply ==
    /\ pc = "write"
    /\ pc' = "done"
    /\ \/ result' = "reply" /\ UNCHANGED out
       \/ result' = "ERROR" /\ out' = FALSE
    /\ UNCHANGED <<request, caught, childVars, raw, signals, gone>>

\* SystemExit or the caller's exception leaves the call: the transcript is
\* removed, and code-write removes its work directory with everything in it.
Unwind ==
    /\ pc = "unwind"
    /\ pc' = "done" /\ result' = "signal"
    /\ raw' = FALSE
    /\ out' = IF caught THEN FALSE ELSE out
    /\ UNCHANGED <<request, caught, childVars, signals, gone>>

\* SIGTERM or SIGHUP to the call: run_with_timeout's handlers lead to its
\* finally part, the caller's lead out of the call; without either the process
\* is killed.
Signal ==
    /\ pc # "done" /\ signals < MaxSignals
    /\ signals' = signals + 1
    /\ LET raises == caught /\ pc # "unwind"
       IN  /\ pc' = IF armed THEN "finally" ELSE IF raises THEN "unwind" ELSE "done"
           /\ result' = IF armed \/ raises THEN result ELSE "killed"
           /\ why' = IF proc \/ armed THEN "signal" ELSE why
    /\ armed' = FALSE
    /\ UNCHANGED <<request, caught, proc, member, fileVars, gone>>

Step ==
    \/ Guard \/ PrepareConfig \/ CreateRaw
    \/ Fork \/ Assign \/ WaitReturns \/ WaitTimesOut \/ SendTerm \/ SendKill \/ GraceWait \/ Finally
    \/ Judge \/ Unlink \/ CreateReply \/ WriteReply \/ Unwind

InvokeNext ==
    \/ Step \/ Signal
    \/ \E h \in Helper : StartHelper(h)
    \/ \E m \in Process : ProcessEnds(m)

InvokeSpec == InvokeInit /\ [][InvokeNext]_invokeVars

\* The call keeps running, the time limit and the grace periods pass; the
\* processes of the group promise nothing.
FairInvokeSpec == InvokeSpec /\ WF_invokeVars(Step)

(***************************************************************************)
(* Properties                                                              *)
(***************************************************************************)

\* Each variable has its type, and the process is known wherever it is waited
\* for or killed.
InvokeTypeOK ==
    /\ pc \in {"guard", "config", "raw", "start", "forked", "wait", "term", "termwait", "kill",
               "killwait", "last", "finally", "judge", "unlink", "create", "write", "unwind", "done"}
    /\ request \in Request /\ caught \in BOOLEAN
    /\ armed \in BOOLEAN /\ proc \in BOOLEAN
    /\ why \in {"none", "exit", "failed", "timeout", "signal"}
    /\ member \in [Process -> {"none", "running", "doomed", "ended", "reaped"}]
    /\ raw \in BOOLEAN /\ out \in BOOLEAN /\ gone \in BOOLEAN
    /\ result \in {"none", "reply", "CONFIG", "OVERSIZE", "ERROR", "TIMEOUT", "EMPTY",
                   "signal", "killed"}
    /\ signals \in 0..MaxSignals

NoneRuns == \A m \in Process : member[m] # "running"

\* A call that answers its caller leaves no process of its group running.  One
\* that a signal ended leaves none either, unless it did not know its process
\* yet, a second signal broke into the kill, or the leader had ended by itself
\* before: then its helpers stay (opencode_cli.py:325), but never the leader.
GroupEnds ==
    pc = "done" =>
        /\ NoneRuns \/ signals > 1 \/ (signals = 1 /\ (~proc \/ gone))
        /\ signals = 1 /\ proc => member[Leader] # "running"

\* Whatever failed on the way: unless the process itself was killed, the
\* transcript is gone with the call, and the file of the reply is there when
\* the caller was given it and then only.
FilesFollowResult ==
    pc = "done" /\ result # "killed" => ~raw /\ (out <=> result = "reply")

\* A call leaves no process of its group running but for those three cases of
\* a signal, and no file but for a process that was itself killed.
LeavesNothing == GroupEnds /\ FilesFollowResult

\* A call with a time limit, or one that is refused, returns, whatever its
\* processes do or ignore.
CallReturns == request.limit # "none" ~> pc = "done"
=============================================================================
