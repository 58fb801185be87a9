----------------------------- MODULE CodeWrite -----------------------------
(***************************************************************************)
(* code_write.py: a whole code-write call around its publish.              *)
(*                                                                         *)
(*   check -> target -> roles -> mkwork -> keep -> ask -> judge            *)
(*         [-> ask ...] -> judged -> publish -> report -> rmtree -> over   *)
(*                                                                         *)
(* The target is checked before the model is asked and again by publish.   *)
(* A model's answer is written, declined, or unusable, which makes it the  *)
(* next candidate's turn (the failover itself is in Failover).  The debug  *)
(* log is off, so no rejected answer is kept.                              *)
(***************************************************************************)
EXTENDS Publish, AnswerParse

CONSTANTS
    Answers,       \* what the models may answer
    Candidates     \* how many models there are to ask

ASSUME CodeWriteAssumption == Answers \subseteq Answer /\ Candidates \in Nat

VARIABLES
    run,           \* publisher -> where its call is
    work           \* publisher -> its work directory exists

callVars == <<vars, run, work>>

NoAnswer == [lines |-> <<>>, small |-> FALSE, clean |-> FALSE, plain |-> FALSE]

NewRun == [pc |-> "check", kept |-> FALSE, asked |-> 0, answer |-> NoAnswer,
           outcome |-> "none", exit |-> "none"]

CallInit ==
    /\ Init
    /\ run = [p \in Publisher |-> NewRun]
    /\ work = [p \in Publisher |-> FALSE]

Is(p, pc) == run[p].pc = pc

Turn(p, pc) == run' = [run EXCEPT ![p].pc = pc]

\* The call ends with a message or a signal; run's finally part is next.
Leave(p, exit) ==
    run' = [run EXCEPT ![p].pc = "rmtree", ![p].exit = exit, ![p].answer = NoAnswer,
                        ![p].asked = 0]

(***************************************************************************)
(* Before the publish                                                      *)
(***************************************************************************)

\* _validate, prepare_prompt and _preflight: the arguments, the files of the
\* call, the size of its prompt and the tools it needs.
Validate(p) ==
    /\ Is(p, "check")
    /\ Leave(p, "failed") \/ Turn(p, "target")
    /\ UNCHANGED <<vars, work>>

\* check_target: a target that exists is refused, like one outside the project
\* root or of a forbidden name.
CheckTarget(p) ==
    LET t == job[p].target
    IN  /\ Is(p, "target")
        /\ Leave(p, "failed") \/ (file[t] = Nobody /\ Turn(p, "roles"))
        /\ UNCHANGED <<vars, work>>

\* _require_candidates: some model has the role, and those that need an agent
\* file have theirs.
RequireCandidates(p) ==
    /\ Is(p, "roles")
    /\ Leave(p, "failed") \/ (Candidates > 0 /\ Turn(p, "mkwork"))
    /\ UNCHANGED <<vars, work>>

\* mkdtemp, which may fail; its answer is then assigned.
MakeWork(p) ==
    /\ Is(p, "mkwork")
    /\ \/ Leave(p, "failed") /\ UNCHANGED work
       \/ Turn(p, "keep") /\ work' = [work EXCEPT ![p] = TRUE]
    /\ UNCHANGED vars

KeepWork(p) ==
    /\ Is(p, "keep")
    /\ run' = [run EXCEPT ![p].pc = "ask", ![p].kept = TRUE]
    /\ UNCHANGED <<vars, work>>

\* The next candidate answers, or none does.
Delegate(p) ==
    /\ Is(p, "ask")
    /\ \/ Leave(p, "failed")
       \/ /\ run[p].asked < Candidates
          /\ \E a \in Answers : run' = [run EXCEPT ![p].pc = "judge", ![p].answer = a,
                                                   ![p].asked = @ + 1]
    /\ UNCHANGED <<vars, work>>

\* accept_response: a reply that did not finish with "stop" is not parsed; an
\* unusable one makes it the next candidate's turn; a failure of the check
\* itself ends the call.
accept_response(p) ==
    /\ Is(p, "judge")
    /\ \/ Leave(p, "failed")
       \/ run' = [run EXCEPT ![p].pc = "ask", ![p].answer = NoAnswer]
       \/ \E verdict \in {parse(run[p].answer)} \ {"unusable"} :
             run' = [run EXCEPT ![p].pc = "judged",
                                ![p].outcome = IF verdict = "ok" THEN "written" ELSE "declined"]
    /\ UNCHANGED <<vars, work>>

\* _finish: a declined call prints the notes and ends, the other one publishes.
Finish(p) ==
    /\ Is(p, "judged")
    /\ \/ run[p].outcome = "declined" /\ Leave(p, "declined")
       \/ /\ run[p].outcome = "written"
          /\ run' = [run EXCEPT ![p].pc = "publish", ![p].answer = NoAnswer,
                                   ![p].asked = 0]
    /\ UNCHANGED <<vars, work>>

(***************************************************************************)
(* The publish and the end                                                 *)
(***************************************************************************)

PublishStep(p) ==
    /\ Is(p, "publish")
    /\ Advance(p) \/ IoError(p) \/ Signal(p) \/ Kill(p)
    /\ UNCHANGED <<run, work>>

Published(p) ==
    /\ Is(p, "publish") /\ At(p, "ended")
    /\ CASE job[p].exit = "ok" -> Turn(p, "report")
         [] job[p].exit = "killed" -> run' = [run EXCEPT ![p].pc = "over", ![p].exit = "killed"]
         [] job[p].exit = "signal" -> Leave(p, "signal")
         [] OTHER -> Leave(p, "failed")
    /\ UNCHANGED <<vars, work>>

\* The size of the code, an error of which fails the call, then the message and
\* the notes: a closed pipe does not change the exit status.
Report(p) ==
    /\ Is(p, "report")
    /\ Leave(p, "ok") \/ Leave(p, "failed")
    /\ UNCHANGED <<vars, work>>

\* run's finally part: the work directory, if its name is known.
RemoveWork(p) ==
    /\ Is(p, "rmtree")
    /\ work' = [work EXCEPT ![p] = @ /\ ~run[p].kept]
    /\ Turn(p, "over")
    /\ UNCHANGED vars

\* SIGINT, SIGTERM or SIGHUP outside the publish: while the handlers are
\* installed it ends the call through the finally part, else it kills.
Interrupt(p) ==
    /\ run[p].pc \notin {"publish", "over"}
    /\ job[p].signals < MaxSignals
    /\ job' = [job EXCEPT ![p].signals = @ + 1]
    /\ IF Is(p, "rmtree")
           THEN run' = [run EXCEPT ![p].pc = "over", ![p].exit = "killed"]
           ELSE Leave(p, "signal")
    /\ UNCHANGED <<treeVars, temp, user, spared, work>>

CallStep(p) ==
    \/ Validate(p) \/ CheckTarget(p) \/ RequireCandidates(p)
    \/ MakeWork(p) \/ KeepWork(p) \/ Delegate(p) \/ accept_response(p) \/ Finish(p)
    \/ PublishStep(p) \/ Published(p) \/ Report(p) \/ RemoveWork(p) \/ Interrupt(p)

UserStep ==
    /\ \E l \in Level : UserMakesDir(l) \/ UserMakesFile(l)
    /\ UNCHANGED <<run, work>>

CallNext == UserStep \/ \E p \in Publisher : CallStep(p)

CallSpec == CallInit /\ [][CallNext]_callVars

(***************************************************************************)
(* Properties                                                              *)
(***************************************************************************)

RunTypeOK ==
    /\ run \in [Publisher ->
          [pc : {"check", "target", "roles", "mkwork", "keep",
                 "ask", "judge", "judged", "publish", "report", "rmtree", "over"},
           kept : BOOLEAN, asked : 0..Candidates, answer : Answers \cup {NoAnswer},
           outcome : {"none", "written", "declined"},
           exit : {"none", "ok", "failed", "declined", "signal", "killed"}]]
    /\ work \in [Publisher -> BOOLEAN]

\* What the exit statuses of code_write.py:9-10 say of the tree, also with
\* another call on the same target: 0 and 3 are true of it, and 1, "refused or
\* failed (nothing was written)", but for two cases of an error after the file
\* was there: in the publish's last look at it, or between publish and report.
ExitTrue ==
    \A p \in Publisher :
        LET made == file[job[p].target] = p
        IN  Is(p, "over") => /\ run[p].exit = "ok" => made /\ run[p].outcome = "written"
                             /\ run[p].exit = "failed" => (made <=> job[p].exit \in {"ok", "unchecked"})
                             /\ run[p].exit = "declined" => ~made /\ run[p].outcome = "declined"

\* An answer that is taken is whole: it has the four tags once and in order,
\* nothing but white space around its sections, and all of its code.
AnswerWhole ==
    \A p \in Publisher : Is(p, "judged") => Sound(run[p].answer)

\* A call that failed or declined leaves no temporary file, and a directory of
\* its own only when something of others was in it or below, or its own file,
\* which stays when just the last look at it failed.  No call that was not
\* interrupted leaves its work directory.
CallLeavesNothing ==
    /\ NothingLeft
    /\ \A p \in Publisher : Is(p, "over") /\ run[p].exit \notin {"signal", "killed"} => ~work[p]
=============================================================================
