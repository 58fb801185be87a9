----------------------------- MODULE LinePieces -----------------------------
(***************************************************************************)
(* chunk_plan.py, _long_line_pieces: cuts one line into pieces of at most  *)
(* Budget bytes, between UTF-8 characters.  A byte is what the cut looks   *)
(* at: the line's own newline, another white space, the first byte of a    *)
(* character, or a byte that continues one.                                *)
(***************************************************************************)
EXTENDS Integers, Sequences, FiniteSetsExt

CONSTANT Budget    \* the bytes one piece may hold

VARIABLES
    line,          \* the line: <<>> when none is cut
    off,           \* the offset the next piece starts at
    pieces         \* the pieces so far: [off, len]

Byte == {"nl", "blank", "lead", "cont"}

\* The byte at an offset.
At(o) == line[o + 1]

Space(o) == At(o) \in {"nl", "blank"}

Tail3(pos) == IF pos < 3 THEN 0 ELSE pos - 3

\* utf8_cut: the last of the offsets pos-3..pos that starts a character.
Cut(pos) ==
    LET starts == {o \in Tail3(pos)..pos : At(o) # "cont"}
    IN  IF starts = {} THEN pos ELSE Max(starts)

\* _cut_before_blank_tail: the piece ends before its last character, when it
\* has others and the rest fits one piece.
BeforeBlankTail(e) ==
    LET kept == {o \in off..e - 1 : At(o) # "blank"}
        cut == Cut(Max(kept))
    IN  IF kept # {} /\ cut > off /\ Len(line) - cut <= Budget THEN cut ELSE e

\* Where the next piece ends.
PieceEnd ==
    LET size == Len(line)
        cut == Cut(off + Budget)
        e == IF cut > off THEN cut ELSE off + Budget
    IN  IF off + Budget >= size THEN size
        ELSE IF size - e <= Budget /\ \A o \in e..size - 1 : Space(o)
             THEN BeforeBlankTail(e) ELSE e

Begin(bytes) ==
    /\ line' = bytes /\ off' = 0 /\ pieces' = <<>>

\* Mutant of Piece: the next piece starts a whole budget later.
PieceAdvances ==
    /\ off < Len(line)
    /\ off' = IF off + Budget > Len(line) THEN Len(line) ELSE off + Budget
    /\ pieces' = Append(pieces, [off |-> off, len |-> PieceEnd - off])
    /\ UNCHANGED line

Piece ==
    /\ off < Len(line)
    /\ off' = PieceEnd
    /\ pieces' = Append(pieces, [off |-> off, len |-> PieceEnd - off])
    /\ UNCHANGED line

(***************************************************************************)
(* Properties                                                              *)
(***************************************************************************)

\* UTF-8: each character has one first byte and at most three others.
WellFormed ==
    /\ line # <<>> => line[1] # "cont"
    /\ \A i \in 4..Len(line) - 1 : \E k \in i - 3..i : line[k + 1] # "cont"
    /\ \A i \in 2..Len(line) : line[i] = "cont" => line[i - 1] \in {"lead", "cont"}

\* A well-formed line is cut between characters only.
OnBoundary ==
    WellFormed => \A k \in DOMAIN pieces : At(pieces[k].off) # "cont"

\* No piece is empty or larger than the budget, and they follow each other.
PiecesFit ==
    /\ \A k \in DOMAIN pieces : pieces[k].len \in 1..Budget
    /\ \A k \in 1..Len(pieces) - 1 : pieces[k + 1].off = pieces[k].off + pieces[k].len

Content == {o \in 0..Len(line) - 1 : ~Space(o)}

\* The last piece is more than white space whenever the last character with
\* the white space after it fits one piece.  _long_line_pieces: "so the last
\* request carries real content".
CarriesContent ==
    (/\ pieces # <<>> /\ off = Len(line) /\ Content # {}
     /\ Len(line) - Cut(Max(Content)) <= Budget)
    => \E o \in Content : o >= pieces[Len(pieces)].off
=============================================================================
