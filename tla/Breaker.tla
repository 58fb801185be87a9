------------------------------ MODULE Breaker ------------------------------
(***************************************************************************)
(* What the circuit breaker promises its callers, whatever the file, the   *)
(* lock and the interleaving of the processes that use it: every operation *)
(* takes effect at one instant between its call and its answer, an         *)
(* operation that answers "ok" took effect once, and one that answers      *)
(* "error" took none.  BreakerFile shows how breaker.py keeps the promise  *)
(* with a lock file, a read, a temporary file and a rename.                *)
(*                                                                         *)
(* A process is one run of the command; it calls one operation.  The       *)
(* breaker key "<id>" (bulk-read) or "<id>#<role>" is the pair <<model,    *)
(* role>>.                                                                 *)
(***************************************************************************)
EXTENDS Naturals

CONSTANTS
    Proc,          \* the processes, one operation each
    Model,         \* model ids
    Role,          \* roles: one breaker key per model and role
    Cooldown,      \* seconds a model pauses after an ordinary failure
    UnreachCool,   \* seconds after an "unreachable" failure
    Threshold,     \* the thresholds an operator may configure
    MaxClock       \* bound: the last second of the run

VARIABLES
    entry,         \* key -> [failures, until]: the pause state of each key
    threshold,     \* the configured threshold
    clock,         \* epoch seconds
    op,            \* process -> the operation it called
    phase          \* process -> where that operation is

absVars == <<entry, threshold, clock, op, phase>>

Key == Model \X Role
Value == [failures : Nat, until : Nat]
Zero == [failures |-> 0, until |-> 0]
Kind == {"failure", "unreachable", "success", "clear"}
Op == [kind : Kind, key : Key, thr : Nat, at : Nat]

\* An operation as it starts: only a failure reads the limits and the time.
NewOp(kind, k, thr, at) ==
    IF kind \in {"failure", "unreachable"}
        THEN [kind |-> kind, key |-> k, thr |-> thr, at |-> at]
        ELSE [kind |-> kind, key |-> k, thr |-> 0, at |-> 0]

Phase == {"new", "pending", "applied", "ok", "error", "crashed"}

\* The pause an operation asks for.
CooldownOf(o) == IF o.kind = "unreachable" THEN UnreachCool ELSE Cooldown

\* One more failure; at the threshold the pause starts at the time of the call.
Bump(v, o) ==
    [failures |-> v.failures + 1,
     until    |-> IF v.failures + 1 >= o.thr THEN o.at + CooldownOf(o) ELSE v.until]

\* What operation o makes of key k whose value is v.  "clear" drops every
\* role's key of the model, the others touch their own key only.
Effect(o, k, v) ==
    IF o.kind = "clear" THEN (IF k[1] = o.key[1] THEN Zero ELSE v)
    ELSE IF k # o.key THEN v
    ELSE IF o.kind = "success" THEN Zero
    ELSE Bump(v, o)

AbsInit ==
    /\ entry = [k \in Key |-> Zero]
    /\ threshold \in Threshold
    /\ clock = 0
    /\ op \in [Proc -> Op]
    /\ phase = [p \in Proc |-> "new"]

Goto(p, ph) == phase' = [phase EXCEPT ![p] = ph]

\* The limits and the time a failure is judged by are those of its call.
AbsCall(p) ==
    /\ phase[p] = "new"
    /\ \E kind \in Kind, k \in Key :
          op' = [op EXCEPT ![p] = NewOp(kind, k, threshold, clock)]
    /\ Goto(p, "pending")
    /\ UNCHANGED <<entry, threshold, clock>>

AbsApply(p) ==
    /\ phase[p] = "pending"
    /\ entry' = [k \in Key |-> Effect(op[p], k, entry[k])]
    /\ Goto(p, "applied")
    /\ UNCHANGED <<threshold, clock, op>>

AbsReturn(p) ==
    /\ phase[p] = "applied"
    /\ Goto(p, "ok")
    /\ UNCHANGED <<entry, threshold, clock, op>>

\* A lock timeout or a failed write: the caller hears of it, nothing happened.
AbsFail(p) ==
    /\ phase[p] = "pending"
    /\ Goto(p, "error")
    /\ UNCHANGED <<entry, threshold, clock, op>>

AbsCrash(p) ==
    /\ phase[p] \in {"pending", "applied"}
    /\ Goto(p, "crashed")
    /\ UNCHANGED <<entry, threshold, clock, op>>

\* The state file is lost or unreadable: every breaker closes.
AbsForget ==
    /\ entry' = [k \in Key |-> Zero]
    /\ UNCHANGED <<threshold, clock, op, phase>>

AbsSetThreshold ==
    /\ threshold' \in Threshold
    /\ UNCHANGED <<entry, clock, op, phase>>

AbsTick ==
    /\ clock < MaxClock
    /\ clock' = clock + 1
    /\ UNCHANGED <<entry, threshold, op, phase>>

AbsNext ==
    \/ \E p \in Proc : \/ AbsCall(p) \/ AbsApply(p) \/ AbsReturn(p)
                       \/ AbsFail(p) \/ AbsCrash(p)
    \/ AbsForget \/ AbsSetThreshold \/ AbsTick

AbsSpec == AbsInit /\ [][AbsNext]_absVars
=============================================================================
