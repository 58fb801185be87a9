----------------------------- MODULE LineChunks -----------------------------
(***************************************************************************)
(* chunk_plan.py, line_ranges: cuts a file that does not fit one request   *)
(* into ranges of whole lines, L, that share a few lines with the range    *)
(* before; a line longer than the budget is a range of its own, B.  The    *)
(* file is streamed: its lines come one by one, each with the bytes that   *)
(* are counted for it (a missing last newline counts too).                 *)
(***************************************************************************)
EXTENDS Integers, Sequences

CONSTANTS
    Budget,        \* the bytes one range may hold
    Overlap,       \* CHUNK_OVERLAP_LINES
    MaxChunks,     \* the chunks a plan may have
    Sizes,         \* bound: the sizes of the lines
    MaxLines       \* bound: the lines of a file

ASSUME LineChunksAssumption ==
    /\ Budget \in Nat \ {0} /\ Overlap \in Nat /\ MaxChunks \in Nat /\ MaxLines \in Nat
    /\ Sizes \subseteq Nat \ {0}

VARIABLES
    limit,         \* max_ranges: the chunks that are left for this file
    at,            \* at[k + 1]: the bytes of the first k lines read
    start, end,    \* the range that is being filled, empty when end < start
    total,         \* the bytes of that range
    ranges,        \* the ranges yielded so far
    pc             \* "reading", then "full" over the limit or "ended"

vars == <<limit, at, start, end, total, ranges, pc>>

\* The lines read, and the bytes of the lines a..b.
Lines == Len(at) - 1
Bytes(a, b) == at[b + 1] - at[a]

L(a, b) == [first |-> a, last |-> b, kind |-> "L"]
B(i) == [first |-> i, last |-> i, kind |-> "B"]

Init ==
    /\ limit \in 0..MaxChunks
    /\ at = <<0>>
    /\ start = 1 /\ end = 0 /\ total = 0
    /\ ranges = <<>>
    /\ pc = "reading"

\* The next line, number Lines + 1, has "size" bytes.
Read(size) ==
    /\ pc = "reading" /\ Lines < MaxLines
    /\ at' = Append(at, at[Len(at)] + size)
    /\ UNCHANGED limit

\* The range that is being filled goes out before a line that ends it.
Flushed == IF end >= start THEN Append(ranges, L(start, end)) ELSE ranges

\* A line longer than the budget.  The first range that is over the limit is
\* the last one.
LongLine(size) ==
    LET i == Lines + 1
    IN  /\ size > Budget
        /\ Read(size)
        /\ IF Len(Flushed) > limit
               THEN /\ ranges' = Flushed /\ pc' = "full"
                    /\ UNCHANGED <<start, end, total>>
               ELSE /\ ranges' = Append(Flushed, B(i))
                    /\ pc' = IF Len(ranges') > limit THEN "full" ELSE "reading"
                    /\ start' = i + 1 /\ end' = i /\ total' = 0

\* The line joins the range, or starts one after a line of kind B.
JoinLine(size) ==
    LET i == Lines + 1
    IN  /\ size <= Budget
        /\ end < start \/ total + size <= Budget
        /\ Read(size)
        /\ start' = IF end < start THEN i ELSE start
        /\ total' = IF end < start THEN size ELSE total + size
        /\ end' = i
        /\ UNCHANGED <<ranges, pc>>

\* Line n may be the first of the lines that are sent again.
MayOverlap(n, size) ==
    \/ n > end
    \/ Bytes(n, end) + size <= Budget /\ 4 * Bytes(n, end) <= Budget

\* Mutant of FirstOverlap: a line is skipped between two ranges.
FirstOverlapSkips(n, size) == n = end + 2

\* n is the line the next range starts with: at most Overlap lines back, and
\* after the start of this one.
FirstOverlap(n, size) ==
    LET lo == IF end - Overlap > start THEN end - Overlap + 1 ELSE start + 1
    IN  /\ n \in lo..end + 1
        /\ MayOverlap(n, size)
        /\ \A k \in lo..n - 1 : ~MayOverlap(k, size)

\* The line does not fit: the range goes out and the next one starts, with
\* the lines they share.
NextRange(size) ==
    LET i == Lines + 1
    IN  /\ size <= Budget
        /\ end >= start /\ total + size > Budget
        /\ Read(size)
        /\ ranges' = Flushed
        /\ IF Len(Flushed) > limit
               THEN /\ pc' = "full"
                    /\ UNCHANGED <<start, end, total>>
               ELSE \E n \in start..i + 1 :
                    /\ FirstOverlap(n, size)
                    /\ start' = n /\ end' = i
                    /\ total' = (IF n > end THEN 0 ELSE Bytes(n, end)) + size
                    /\ UNCHANGED pc

\* The end of the file.
EndOfFile ==
    /\ pc = "reading"
    /\ ranges' = Flushed
    /\ pc' = "ended"
    /\ UNCHANGED <<limit, at, start, end, total>>

Next ==
    \/ \E size \in Sizes : LongLine(size) \/ JoinLine(size) \/ NextRange(size)
    \/ EndOfFile

Spec == Init /\ [][Next]_vars

(***************************************************************************)
(* Properties                                                              *)
(***************************************************************************)

LineRange == [first : Nat \ {0}, last : Nat \ {0}, kind : {"L", "B"}]

\* Each variable has its type, and the counters agree with the lines read.
TypeOK ==
    /\ limit \in 0..MaxChunks
    /\ at \in Seq(Nat) /\ Len(at) >= 1 /\ Lines <= MaxLines
    /\ \A j, k \in 1..Len(at) : j < k => at[j] < at[k]
    /\ start \in Nat \ {0} /\ end \in Nat /\ total \in Nat
    /\ ranges \in Seq(LineRange) /\ Len(ranges) <= limit + 1
    /\ pc \in {"reading", "full", "ended"}

\* A range of lines fits the budget; a range of kind B is one line that does
\* not.  line_ranges: "a single line longer than the budget as kind B".
Fits ==
    \A k \in DOMAIN ranges :
        LET r == ranges[k]
        IN  /\ 1 <= r.first /\ r.first <= r.last /\ r.last <= Lines
            /\ r.kind = "L" => Bytes(r.first, r.last) <= Budget
            /\ r.kind = "B" => r.first = r.last /\ Bytes(r.first, r.last) > Budget

\* No line is left out and no range repeats another: they start at line 1,
\* each starts and ends after the one before, without a gap, and at the end
\* of the file the last line is in the last range.
Covered ==
    /\ ranges # <<>> => ranges[1].first = 1
    /\ \A k \in 1..Len(ranges) - 1 :
          LET r == ranges[k]
              s == ranges[k + 1]
          IN  r.first < s.first /\ r.last < s.last /\ s.first <= r.last + 1
    /\ pc = "ended" => IF Lines = 0 THEN ranges = <<>>
                       ELSE ranges # <<>> /\ ranges[Len(ranges)].last = Lines

\* Two ranges share at most Overlap lines and a quarter of the budget, and
\* a line of kind B is shared with none.
SharesLittle ==
    \A k \in 1..Len(ranges) - 1 :
        LET r == ranges[k]
            s == ranges[k + 1]
        IN  s.first <= r.last =>
                /\ r.kind = "L" /\ s.kind = "L"
                /\ r.last - s.first + 1 <= Overlap
                /\ 4 * Bytes(s.first, r.last) <= Budget

\* The ranges of a file cover it, each fits, and they share little.
RangesSound == Fits /\ Covered /\ SharesLittle
=============================================================================
