----------------------------- MODULE ChunkPlan -----------------------------
(***************************************************************************)
(* chunk_plan.py, plan_file for one file of plan_all: it consumes the      *)
(* ranges of line_ranges (LineChunks) as they come and cuts a line that    *)
(* is longer than the budget (LinePieces).  "limit" is what the files      *)
(* before have left of the limit on the number of chunks.                  *)
(***************************************************************************)
EXTENDS LineChunks

VARIABLES
    plan,          \* the chunks of this file
    taken,         \* the ranges that are in the plan
    line, off, pieces,
    open           \* the last line read has no newline

planVars == <<plan, taken, line, off, pieces, open>>
allVars == <<vars, planVars>>

P == INSTANCE LinePieces

\* MIN_CHUNK_BYTES: plan_all refuses a budget that is not larger than a character.
ASSUME ChunkPlanAssumption == Budget > 3

\* A chunk of whole lines has no offset.
NoOffset == -1

PlanInit ==
    /\ Init
    /\ plan = <<>> /\ taken = 0
    /\ line = <<>> /\ off = 0 /\ pieces = <<>>
    /\ open = FALSE

Over == Len(plan) > limit

Cutting == off < Len(line)

Idle == taken = Len(ranges) /\ ~Cutting /\ ~Over

\* The lines of n bytes that are cut: characters of w bytes, then b bytes of
\* white space and perhaps a newline.  Nine bytes are not a character.
Shape(n, w, b, nl) ==
    LET m == n - b - nl
    IN  [i \in 1..n |-> IF i = n /\ nl = 1 THEN "nl"
                        ELSE IF i > m THEN "blank"
                        ELSE IF i <= m % w \/ (m - i) % w = w - 1 THEN "lead" ELSE "cont"]

\* A last line without a newline counts one byte it does not have.
Shapes(n) ==
    {Shape(n, w, b, 1) : w \in {1, 2, 3, 4, 9}, b \in 0..n - 1}
    \cup {Shape(n - 1, w, b, 0) : w \in {1, 2, 3, 4, 9}, b \in 0..n - 1}

\* st_size <= budget: the file is one chunk, without a look at its lines.
WholeFile ==
    /\ pc = "reading" /\ Lines = 0 /\ plan = <<>>
    /\ plan' = <<[first |-> 1, last |-> 1, off |-> NoOffset, len |-> 0]>>
    /\ pc' = "ended"
    /\ UNCHANGED <<limit, at, start, end, total, ranges, taken, line, off, pieces, open>>

\* The bytes read so far, without the newline that is missing.
Size == at[Len(at)] - (IF open THEN 1 ELSE 0)

\* line_ranges goes on when its last range is in the plan.
Advance ==
    /\ Idle
    /\ \/ ~open /\ \E size \in Sizes : LongLine(size) \/ JoinLine(size) \/ NextRange(size)
       \/ EndOfFile /\ Size > Budget
    /\ UNCHANGED planVars

TakeLines ==
    /\ ~Cutting /\ ~Over /\ taken < Len(ranges)
    /\ LET r == ranges[taken + 1]
       IN  /\ r.kind = "L"
           /\ plan' = Append(plan, [first |-> r.first, last |-> r.last, off |-> NoOffset, len |-> 0])
    /\ taken' = taken + 1
    /\ UNCHANGED <<vars, line, off, pieces, open>>

StartLongLine ==
    /\ ~Cutting /\ ~Over /\ taken < Len(ranges)
    /\ LET r == ranges[taken + 1]
       IN  /\ r.kind = "B"
           /\ \E bytes \in Shapes(Bytes(r.first, r.last)) :
                 /\ P!Begin(bytes)
                 /\ open' = (Len(bytes) < Bytes(r.first, r.last))
                 /\ open' => at[Len(at)] - 1 > Budget
    /\ taken' = taken + 1
    /\ UNCHANGED <<vars, plan>>

TakePiece ==
    /\ Cutting /\ ~Over
    /\ P!Piece
    /\ LET n == ranges[taken].first
           p == pieces'[Len(pieces')]
       IN  plan' = Append(plan, [first |-> n, last |-> n, off |-> p.off, len |-> p.len])
    /\ UNCHANGED <<vars, taken, open>>

PlanNext == WholeFile \/ Advance \/ TakeLines \/ StartLongLine \/ TakePiece

PlanSpec == PlanInit /\ [][PlanNext]_allVars

(***************************************************************************)
(* Properties                                                              *)
(***************************************************************************)

\* Each variable has its type; the plan never holds more than one chunk over
\* the limit.
PlanTypeOK ==
    /\ TypeOK
    /\ plan \in Seq([first : Nat \ {0}, last : Nat \ {0}, off : Nat \cup {NoOffset}, len : Nat])
    /\ Len(plan) <= limit + 1
    /\ taken \in 0..Len(ranges)
    /\ line \in Seq(P!Byte) /\ off \in 0..Len(line) /\ open \in BOOLEAN

\* The pieces of a long line: see LinePieces.
PiecesSound == P!OnBoundary /\ P!CarriesContent

\* The bytes a chunk holds are those from From up to To of the file.
From(c) == at[c.first] + (IF c.off = NoOffset THEN 0 ELSE c.off)
To(c) == IF c.off = NoOffset THEN at[c.last + 1] ELSE From(c) + c.len

Streamed == ranges # <<>>

\* An accepted plan of a file sends every byte, in order: it starts at the
\* first, no chunk leaves a gap or lies within the one before, and the last
\* ends where the file does.
PlanCovers ==
    Streamed =>
        /\ \A k \in 1..Len(plan) - 1 : /\ From(plan[k + 1]) <= To(plan[k])
                                       /\ To(plan[k + 1]) > To(plan[k])
        /\ plan # <<>> => From(plan[1]) = 0
        /\ pc = "ended" /\ Idle =>
              /\ plan # <<>>
              /\ To(plan[Len(plan)]) = Size

\* Every chunk holds between one byte and the budget.
PlanFits ==
    Streamed => \A k \in DOMAIN plan : To(plan[k]) - From(plan[k]) \in 1..Budget

\* plan_all refuses a file at once when its size is more than the chunks left
\* can hold: no file it could have accepted is refused.
RefusedForSize ==
    pc = "ended" /\ Idle /\ Streamed => Size <= limit * Budget

\* What is sent is the file, in requests the model accepts: no byte of an
\* accepted plan is missing, no chunk is too large, no character is cut in two
\* and no piece is white space only; a plan that fits is never refused.
PlanComplete == PlanCovers /\ PlanFits /\ PiecesSound /\ RefusedForSize
=============================================================================
