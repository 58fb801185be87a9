---------------------------- MODULE AnswerParse ----------------------------
(***************************************************************************)
(* cw_parse.py: the answer of a delegate model is split into its notes and *)
(* its code.  An answer is the sequence of its lines; a line is a tag, a   *)
(* line of white space, a fence or other text.                             *)
(***************************************************************************)
EXTENDS Naturals, Sequences

Tag == {"<notes>", "</notes>", "<code>", "</code>"}
Tags == <<"<notes>", "</notes>", "<code>", "</code>">>   \* in their order

\* Fences of three and four backticks, and one that names a language.
Fence == {"fence3", "fence4", "fence3py"}

Line == Tag \cup Fence \cup {"blank", "text"}

Ticks(line) == IF line = "fence4" THEN 4 ELSE IF line \in Fence THEN 3 ELSE 0

\* Besides its lines: its size against the limits, and what check_text and
\* the checks of the code say of its characters.
Answer == [lines : Seq(Line), small : BOOLEAN, clean : BOOLEAN, plain : BOOLEAN]

Blank(line) == line = "blank"

Where(lines, tag) == {i \in DOMAIN lines : lines[i] = tag}

First(lines, tag) == CHOOSE i \in Where(lines, tag) : \A j \in Where(lines, tag) : i <= j

(***************************************************************************)
(* _scan: each line belongs to the tag above it                            *)
(***************************************************************************)

TagsAbove(lines, i) == {j \in 1..i - 1 : lines[j] \in Tag}

\* The section of a line that is no tag: the tag that opened it, or "top".
section(lines, i) ==
    IF TagsAbove(lines, i) = {} THEN "top"
    ELSE lines[CHOOSE j \in TagsAbove(lines, i) : \A k \in TagsAbove(lines, i) : k <= j]

InSection(lines, s) == {i \in DOMAIN lines : lines[i] \notin Tag /\ section(lines, i) = s}

\* Sections outside notes and code that hold text.
text_in(lines) ==
    {s \in {"top", "</notes>", "</code>"} : \E i \in InSection(lines, s) : ~Blank(lines[i])}

(***************************************************************************)
(* _structure_error, _unfence, _split and parse                            *)
(***************************************************************************)

\* Mutant of structure_error: text after the last tag is let through.
structure_error_lax(lines) ==
    \/ \E tag \in Tag : Where(lines, tag) = {}
    \/ \E tag \in Tag : \E i, j \in Where(lines, tag) : i # j
    \/ \E n \in 1..3 : First(lines, Tags[n]) >= First(lines, Tags[n + 1])
    \/ text_in(lines) \ {"</code>"} # {}

structure_error(lines) ==
    \/ \E tag \in Tag : Where(lines, tag) = {}
    \/ \E tag \in Tag : \E i, j \in Where(lines, tag) : i # j
    \/ \E n \in 1..3 : First(lines, Tags[n]) >= First(lines, Tags[n + 1])
    \/ text_in(lines) # {}

\* The lines of the code without an outer fence: a first filled line that
\* opens a fence, and a last one that closes it with at least as many ticks.
unfence(lines, code) ==
    LET filled == {i \in code : ~Blank(lines[i])}
        OuterFence(i, j) ==
            /\ i < j /\ \A k \in filled : i <= k /\ k <= j
            /\ lines[i] \in Fence /\ lines[j] \in Fence \ {"fence3py"}
            /\ Ticks(lines[j]) >= Ticks(lines[i])
    IN  {k \in code : \A i, j \in filled : OuterFence(i, j) => i < k /\ k < j}

Filled(lines, some) == \E i \in some : ~Blank(lines[i])

notes(answer) == InSection(answer.lines, "<notes>")
code(answer) == unfence(answer.lines, InSection(answer.lines, "<code>"))

\* "ok" has code to write, "refusal" has notes only.
parse(answer) ==
    IF \/ answer.lines = <<>>
       \/ ~answer.small
       \/ ~answer.clean
       \/ structure_error(answer.lines)
       \/ ~Filled(answer.lines, code(answer)) /\ ~Filled(answer.lines, notes(answer))
        THEN "unusable"
    ELSE IF ~Filled(answer.lines, code(answer)) THEN "refusal"
    ELSE IF answer.plain THEN "ok" ELSE "unusable"

(***************************************************************************)
(* What an answer has to be                                                *)
(***************************************************************************)

\* The four tags stand at a < b < c < d, and are the only ones; outside the
\* notes and the code there are blank lines.
Frames(lines, a, b, c, d) ==
    /\ a < b /\ b < c /\ c < d
    /\ \A i \in DOMAIN lines \ {a, b, c, d} :
          /\ lines[i] \notin Tag
          /\ i \in a..b \/ i \in c..d \/ Blank(lines[i])

\* All of what stands between the code tags, but for a fence around it.
WholeCode(lines, c, d, some) ==
    \/ some = c + 1..d - 1
    \/ \E i, j \in c + 1..d - 1 :
          /\ i < j /\ some = i + 1..j - 1
          /\ {lines[i], lines[j]} \subseteq Fence
          /\ \A k \in (c + 1..i - 1) \cup (j + 1..d - 1) : Blank(lines[k])

\* An answer that is not unusable has this form, and its code is all there.
Sound(answer) ==
    parse(answer) # "unusable" =>
        \E a \in Where(answer.lines, "<notes>"), b \in Where(answer.lines, "</notes>"),
           c \in Where(answer.lines, "<code>"), d \in Where(answer.lines, "</code>") :
            /\ Frames(answer.lines, a, b, c, d)
            /\ WholeCode(answer.lines, c, d, code(answer))
            /\ (parse(answer) = "ok") <=> Filled(answer.lines, code(answer))
=============================================================================
