-------------------------- MODULE CodeWriteProofs --------------------------
(***************************************************************************)
(* Proofs about CodeWrite, in two parts.                                   *)
(*                                                                         *)
(* The answer: cw_parse.py decides with counts, first positions and a      *)
(* scan; Sound says where the tags stand and which lines are the code.     *)
(* The two meet in SectionBelow (the scan) and UnfenceWhole (the fence).   *)
(*                                                                         *)
(* The tree: IInv says what each call knows of the tree at each stage, and *)
(* what of the tree is its own.  One lemma per stage keeps it; OthersFit   *)
(* carries it over the steps of the other calls and of the user.           *)
(***************************************************************************)
EXTENDS CodeWrite, NaturalsInduction, WellFoundedInduction, TLAPS

\* A line below a tag, with no tag in between, is in the section of that tag.
LEMMA SectionBelow ==
    ASSUME NEW lines \in Seq(Line), NEW i \in DOMAIN lines, NEW t \in DOMAIN lines,
           t < i, lines[t] \in Tag, \A j \in t + 1..i - 1 : lines[j] \notin Tag
    PROVE  section(lines, i) = lines[t]
<1>1. t \in TagsAbove(lines, i)
  BY DEF TagsAbove
<1>2. \A k \in TagsAbove(lines, i) : k \in Nat /\ k <= t
  BY DEF TagsAbove
<1>3. \A j \in TagsAbove(lines, i) :
         (\A k \in TagsAbove(lines, i) : k <= j) => j = t
  BY <1>1, <1>2
<1>4. (CHOOSE j \in TagsAbove(lines, i) : \A k \in TagsAbove(lines, i) : k <= j) = t
  BY <1>1, <1>2, <1>3
<1>. QED
  BY <1>1, <1>4 DEF section

\* A line with no tag above it is in no section.
LEMMA SectionTop ==
    ASSUME NEW lines \in Seq(Line), NEW i \in DOMAIN lines,
           \A j \in 1..i - 1 : lines[j] \notin Tag
    PROVE  section(lines, i) = "top"
  BY DEF section, TagsAbove

\* An answer without a structure error has each tag once, in their order.
LEMMA TagsInOrder ==
    ASSUME NEW lines \in Seq(Line), ~structure_error(lines)
    PROVE  \E a, b, c, d \in DOMAIN lines :
              /\ Where(lines, "<notes>") = {a} /\ Where(lines, "</notes>") = {b}
              /\ Where(lines, "<code>") = {c} /\ Where(lines, "</code>") = {d}
              /\ a < b /\ b < c /\ c < d
<1>1. \A tag \in Tag : \E i \in DOMAIN lines : Where(lines, tag) = {i}
  <2>1. ASSUME NEW tag \in Tag PROVE \E i \in DOMAIN lines : Where(lines, tag) = {i}
    <3>1. Where(lines, tag) # {} /\ (\A i, j \in Where(lines, tag) : i = j)
      BY DEF structure_error
    <3>2. Where(lines, tag) \subseteq DOMAIN lines
      BY DEF Where
    <3>. QED
      BY <3>1, <3>2
  <2>. QED
    BY <2>1
<1>2. \A tag \in Tag, i \in DOMAIN lines : Where(lines, tag) = {i} => First(lines, tag) = i
  BY DEF First
<1>3. /\ First(lines, "<notes>") < First(lines, "</notes>")
      /\ First(lines, "</notes>") < First(lines, "<code>")
      /\ First(lines, "<code>") < First(lines, "</code>")
  <2>1. \A tag \in Tag : First(lines, tag) \in Nat
    BY <1>1, <1>2
  <2>2. \A n \in 1..3 : ~(First(lines, Tags[n]) >= First(lines, Tags[n + 1]))
    BY DEF structure_error
  <2>3. /\ ~(First(lines, Tags[1]) >= First(lines, Tags[2]))
        /\ ~(First(lines, Tags[2]) >= First(lines, Tags[3]))
        /\ ~(First(lines, Tags[3]) >= First(lines, Tags[4]))
    BY <2>2
  <2>. QED
    BY <2>1, <2>3 DEF Tags, Tag
<1>4. {"<notes>", "</notes>", "<code>", "</code>"} \subseteq Tag
  BY DEF Tag
<1>. QED
  BY <1>1, <1>2, <1>3, <1>4

\* What the scan finds when the tags stand at a < b < c < d.
LEMMA Sections ==
    ASSUME NEW lines \in Seq(Line),
           NEW a \in DOMAIN lines, NEW b \in DOMAIN lines,
           NEW c \in DOMAIN lines, NEW d \in DOMAIN lines,
           Where(lines, "<notes>") = {a}, Where(lines, "</notes>") = {b},
           Where(lines, "<code>") = {c}, Where(lines, "</code>") = {d},
           a < b, b < c, c < d
    PROVE  /\ \A i \in DOMAIN lines : lines[i] \in Tag <=> i \in {a, b, c, d}
           /\ \A i \in 1..a - 1 : section(lines, i) = "top"
           /\ \A i \in a + 1..b - 1 : section(lines, i) = "<notes>"
           /\ \A i \in b + 1..c - 1 : section(lines, i) = "</notes>"
           /\ \A i \in c + 1..d - 1 : section(lines, i) = "<code>"
           /\ \A i \in DOMAIN lines : d < i => section(lines, i) = "</code>"
<1>1. \A i \in DOMAIN lines : lines[i] \in Tag <=> i \in {a, b, c, d}
  BY DEF Where, Tag
<1>2. /\ lines[a] = "<notes>" /\ lines[b] = "</notes>"
      /\ lines[c] = "<code>" /\ lines[d] = "</code>"
  BY DEF Where
<1>3. DOMAIN lines = 1..Len(lines) /\ Len(lines) \in Nat
  OBVIOUS
<1>4. \A i \in 1..a - 1 : section(lines, i) = "top"
  BY <1>1, <1>3, SectionTop
<1>5. ASSUME NEW i \in a + 1..b - 1 PROVE section(lines, i) = "<notes>"
  <2>1. i \in DOMAIN lines /\ a < i /\ \A j \in a + 1..i - 1 : lines[j] \notin Tag
    BY <1>1, <1>3
  <2>. QED
    BY <1>1, <1>2, <2>1, SectionBelow
<1>6. ASSUME NEW i \in b + 1..c - 1 PROVE section(lines, i) = "</notes>"
  <2>1. i \in DOMAIN lines /\ b < i /\ \A j \in b + 1..i - 1 : lines[j] \notin Tag
    BY <1>1, <1>3
  <2>. QED
    BY <1>1, <1>2, <2>1, SectionBelow
<1>7. ASSUME NEW i \in c + 1..d - 1 PROVE section(lines, i) = "<code>"
  <2>1. i \in DOMAIN lines /\ c < i /\ \A j \in c + 1..i - 1 : lines[j] \notin Tag
    BY <1>1, <1>3
  <2>. QED
    BY <1>1, <1>2, <2>1, SectionBelow
<1>8. ASSUME NEW i \in DOMAIN lines, d < i PROVE section(lines, i) = "</code>"
  <2>1. \A j \in d + 1..i - 1 : lines[j] \notin Tag
    BY <1>1, <1>3, <1>8
  <2>. QED
    BY <1>1, <1>2, <1>8, <2>1, SectionBelow
<1>. QED
  BY <1>1, <1>4, <1>5, <1>6, <1>7, <1>8

\* Taking the outer fence off leaves all lines, or all those inside the fence.
LEMMA UnfenceWhole ==
    ASSUME NEW lines \in Seq(Line), NEW c \in Nat, NEW d \in Nat
    PROVE  WholeCode(lines, c, d, unfence(lines, c + 1..d - 1))
<1> DEFINE all == c + 1..d - 1
           filled == {i \in all : ~Blank(lines[i])}
           Outer(i, j) == /\ i < j /\ \A k \in filled : i <= k /\ k <= j
                          /\ lines[i] \in Fence /\ lines[j] \in Fence \ {"fence3py"}
                          /\ Ticks(lines[j]) >= Ticks(lines[i])
<1>1. unfence(lines, all) = {k \in all : \A i, j \in filled : Outer(i, j) => i < k /\ k < j}
  BY DEF unfence
<1>2. CASE ~\E i, j \in filled : Outer(i, j)
  BY <1>1, <1>2 DEF WholeCode
<1>3. CASE \E i, j \in filled : Outer(i, j)
  <2>1. PICK i \in filled, j \in filled : Outer(i, j)
    BY <1>3
  <2>2. \A x, y \in filled : Outer(x, y) => x = i /\ y = j
    BY <2>1
  <2>3. \A k : k \in unfence(lines, all) <=> k \in i + 1..j - 1
    BY <1>1, <2>1, <2>2
  <2>4. unfence(lines, all) = i + 1..j - 1
    BY <2>3
  <2>5. \A k \in (c + 1..i - 1) \cup (j + 1..d - 1) : Blank(lines[k])
    BY <2>1
  <2>. QED
    BY <2>1, <2>4, <2>5 DEF WholeCode
<1>. QED
  BY <1>2, <1>3

\* cw_parse.parse takes no answer that is not whole (cw_parse.py:3-8), whatever
\* its lines are.
THEOREM ParseIsSound ==
    ASSUME NEW answer \in Answer
    PROVE  Sound(answer)
<1> DEFINE lines == answer.lines
<1> SUFFICES ASSUME parse(answer) # "unusable"
             PROVE  \E a \in Where(lines, "<notes>"), b \in Where(lines, "</notes>"),
                       c \in Where(lines, "<code>"), d \in Where(lines, "</code>") :
                      /\ Frames(lines, a, b, c, d)
                      /\ WholeCode(lines, c, d, code(answer))
                      /\ (parse(answer) = "ok") <=> Filled(lines, code(answer))
  BY DEF Sound
<1>1. lines \in Seq(Line)
  BY DEF Answer
<1>2. ~structure_error(lines)
  BY DEF parse
<1>3. PICK a, b, c, d \in DOMAIN lines :
         /\ Where(lines, "<notes>") = {a} /\ Where(lines, "</notes>") = {b}
         /\ Where(lines, "<code>") = {c} /\ Where(lines, "</code>") = {d}
         /\ a < b /\ b < c /\ c < d
  BY <1>1, <1>2, TagsInOrder
<1>4. /\ \A i \in DOMAIN lines : lines[i] \in Tag <=> i \in {a, b, c, d}
      /\ \A i \in 1..a - 1 : section(lines, i) = "top"
      /\ \A i \in a + 1..b - 1 : section(lines, i) = "<notes>"
      /\ \A i \in b + 1..c - 1 : section(lines, i) = "</notes>"
      /\ \A i \in c + 1..d - 1 : section(lines, i) = "<code>"
      /\ \A i \in DOMAIN lines : d < i => section(lines, i) = "</code>"
  <2> HIDE DEF lines
  <2>. QED
    BY <1>1, <1>3, Sections
<1>5. DOMAIN lines = 1..Len(lines) /\ Len(lines) \in Nat
  BY <1>1
<1>6. \A s \in {"top", "</notes>", "</code>"} : \A i \in InSection(lines, s) : Blank(lines[i])
  BY <1>2 DEF structure_error, text_in
<1>7. Frames(lines, a, b, c, d)
  <2>1. ASSUME NEW i \in DOMAIN lines \ {a, b, c, d}
        PROVE  i \in a..b \/ i \in c..d \/ Blank(lines[i])
    <3>1. i \in 1..a - 1 \/ i \in a..b \/ i \in b + 1..c - 1 \/ i \in c..d \/ d < i
      BY <1>5, <1>3
    <3>2. i \in 1..a - 1 \/ i \in b + 1..c - 1 \/ d < i =>
             section(lines, i) \in {"top", "</notes>", "</code>"}
      BY <1>4
    <3>3. section(lines, i) \in {"top", "</notes>", "</code>"} => Blank(lines[i])
      BY <1>4, <1>6 DEF InSection
    <3>. QED
      BY <3>1, <3>2, <3>3
  <2>. QED
    BY <1>3, <1>4, <2>1 DEF Frames
<1>8. InSection(lines, "<code>") = c + 1..d - 1
  <2>1. ASSUME NEW i \in DOMAIN lines
        PROVE  i \in InSection(lines, "<code>") <=> i \in c + 1..d - 1
    <3>1. CASE i \in {a, b, c, d}
      BY <1>3, <1>4, <1>5, <3>1 DEF InSection
    <3>2. CASE i \notin {a, b, c, d}
      <4>1. \/ i \in 1..a - 1 \/ i \in a + 1..b - 1 \/ i \in b + 1..c - 1
            \/ i \in c + 1..d - 1 \/ d < i
        BY <1>3, <1>5, <3>2
      <4>2. section(lines, i) = "<code>" <=> i \in c + 1..d - 1
        BY <1>3, <1>4, <1>5, <4>1
      <4>. QED
        BY <1>4, <3>2, <4>2 DEF InSection
    <3>. QED
      BY <3>1, <3>2
  <2>2. InSection(lines, "<code>") \subseteq DOMAIN lines /\ c + 1..d - 1 \subseteq DOMAIN lines
    BY <1>5 DEF InSection
  <2>. QED
    BY <2>1, <2>2
<1>9. WholeCode(lines, c, d, code(answer))
  <2>1. code(answer) = unfence(lines, c + 1..d - 1)
    BY <1>8 DEF code
  <2>2. c \in Nat /\ d \in Nat
    BY <1>5
  <2>3. WholeCode(lines, c, d, unfence(lines, c + 1..d - 1))
    BY <1>1, <2>2, UnfenceWhole
  <2>. QED
    BY <2>1, <2>3
<1>10. (parse(answer) = "ok") <=> Filled(lines, code(answer))
  BY DEF parse
<1>. QED
  BY <1>3, <1>7, <1>9, <1>10

(***************************************************************************)
(* The calls                                                               *)
(***************************************************************************)

\* What a call holds is an answer, and a judged one is not unusable.
Judging ==
    /\ DOMAIN run = Publisher
    /\ \A p \in Publisher :
          /\ DOMAIN run[p] = DOMAIN NewRun
          /\ run[p].answer \in Answer
          /\ Is(p, "judged") => parse(run[p].answer) # "unusable"

\* No answer is an answer without lines.
LEMMA NoAnswerIsAnswer == NoAnswer \in Answer
  BY DEF NoAnswer, Answer

\* A step of a call keeps what is judged: the only way to "judged" is past
\* parse, and while an answer is held it does not change.
LEMMA CallStepJudges ==
    ASSUME Judging, NEW p \in Publisher, CallStep(p)
    PROVE  Judging'
<1> USE NoAnswerIsAnswer DEF Judging, Is
<1>1. CASE Validate(p)
  BY <1>1 DEF Validate, Leave, Turn, NewRun
<1>2. CASE CheckTarget(p)
  BY <1>2 DEF CheckTarget, Leave, Turn, NewRun
<1>3. CASE RequireCandidates(p)
  BY <1>3 DEF RequireCandidates, Leave, Turn, NewRun
<1>4. CASE MakeWork(p)
  BY <1>4 DEF MakeWork, Leave, Turn, NewRun
<1>5. CASE KeepWork(p)
  BY <1>5 DEF KeepWork, NewRun
<1>6. CASE Delegate(p)
  <2>1. CASE Leave(p, "failed")
    BY <2>1 DEF Leave, NewRun
  <2>2. CASE \E a \in Answers :
               run' = [run EXCEPT ![p].pc = "judge", ![p].answer = a, ![p].asked = @ + 1]
    BY <2>2, CodeWriteAssumption DEF NewRun
  <2>. QED
    BY <1>6, <2>1, <2>2 DEF Delegate
<1>7. CASE accept_response(p)
  BY <1>7 DEF accept_response, Leave, NewRun
<1>8. CASE Finish(p)
  BY <1>8 DEF Finish, Leave, NewRun
<1>9. CASE PublishStep(p)
  BY <1>9 DEF PublishStep
<1>10. CASE Published(p)
  BY <1>10 DEF Published, Leave, Turn, NewRun
<1>11. CASE Report(p)
  BY <1>11 DEF Report, Leave, NewRun
<1>12. CASE RemoveWork(p)
  BY <1>12 DEF RemoveWork, Turn, NewRun
<1>13. CASE Interrupt(p)
  BY <1>13 DEF Interrupt, Leave, NewRun
<1>. QED
  BY <1>1, <1>2, <1>3, <1>4, <1>5, <1>6, <1>7, <1>8, <1>9, <1>10, <1>11, <1>12, <1>13
     DEF CallStep

\* accept_response (code_write.py:151-182) judges every answer before the
\* publish: however many calls there are, whatever the models answer and
\* whenever a signal comes, an answer that is taken is whole.
THEOREM TakenAnswersAreWhole == CallSpec => []AnswerWhole
<1>1. CallInit => Judging
  BY NoAnswerIsAnswer DEF CallInit, Judging, NewRun, Is
<1>2. Judging /\ [CallNext]_callVars => Judging'
  <2>1. ASSUME Judging, UserStep PROVE Judging'
    BY <2>1 DEF UserStep, Judging, Is
  <2>2. ASSUME Judging, UNCHANGED callVars PROVE Judging'
    BY <2>2 DEF callVars, Judging, Is
  <2>. QED
    BY <2>1, <2>2, CallStepJudges DEF CallNext
<1>3. Judging => AnswerWhole
  BY ParseIsSound DEF Judging, AnswerWhole
<1>. QED
  BY <1>1, <1>2, <1>3, PTL DEF CallSpec

(***************************************************************************)
(* The publish: what the tree and a call have to do with each other        *)
(***************************************************************************)

\* The stages before a rollback, and the rollback.
Forward == {"resolve", "open", "mkdir", "record", "enter", "stage", "create", "fill", "look",
            "link", "placed", "opened", "copy", "unlink", "commit"}
Making == {"open", "mkdir", "record", "enter"}
Staged == {"fill", "look", "link", "placed", "opened", "copy", "unlink"}
Linked == {"placed", "opened", "copy", "unlink", "commit"}
Undoing == {"undo", "sweep", "cleanup"}

Maker == Publisher \cup {User, Nobody}

Typed ==
    /\ dir \in [Level -> Nat] /\ last \in Nat /\ Depth + 1 <= last
    /\ file \in [Level -> Maker] /\ owner \in [Level -> Maker]
    /\ makers \in [Level -> SUBSET Publisher]
    /\ temp \in [Publisher -> Nat]
    /\ job \in [Publisher -> Job]
    /\ user \in 0..MaxUser
    /\ spared \in [Publisher -> SUBSET Level]

\* Directory numbers are given once; nothing lies outside a directory.
TreeFits ==
    \A l \in Level :
       /\ dir[l] <= last
       /\ dir[l] = 0 => /\ owner[l] = Nobody /\ file[l] = Nobody
                        /\ l < Depth => dir[l + 1] = 0

\* The temporary file is there from its creation to its removal, in the
\* directory of the target; what is held is there.
TempFits(p) ==
    /\ temp[p] # 0 => temp[p] = dir[job[p].target]
    /\ job[p].pc \in Staged => temp[p] # 0
    /\ job[p].pc \in (Forward \ Staged) \cup {"undo", "cleanup"} => temp[p] = 0
    /\ At(p, "ended") /\ job[p].exit # "killed" => temp[p] = 0
    /\ job[p].pc \in {"mkdir", "create"} => job[p].held # 0

\* A call makes one file, its target; it is there from the link on, and no
\* longer once the call has failed, but for a failure of the last look at it.
FileFits(p) ==
    /\ \A l \in Level : file[l] = p =>
          /\ l = job[p].target
          /\ job[p].pc \in Linked \/ job[p].exit \in {"ok", "unchecked", "signal", "killed"}
    /\ job[p].pc \in Linked \/ job[p].exit \in {"ok", "unchecked"} => file[job[p].target] = p

ExitFits(p) ==
    /\ job[p].pc \in Forward => job[p].exit = "none" /\ job[p].todo = <<>>
    /\ job[p].pc \in Undoing => job[p].exit \in {"failed", "unchecked", "signal"}
    /\ At(p, "ended") => job[p].exit # "none" /\ job[p].made = <<>> /\ job[p].todo = <<>>

Rising(s) == \A i, j \in DOMAIN s : i < j => s[i] < s[j]
Falling(s) == \A i, j \in DOMAIN s : i < j => s[j] < s[i]

\* The directories made lie above the one that is next.
MadeFits(p) ==
    /\ Rising(job[p].made) /\ Falling(job[p].todo)
    /\ job[p].pc \in {"resolve", "open"} => job[p].made = <<>>
    /\ job[p].pc \in Making => job[p].at <= job[p].target
    /\ job[p].pc \in Making \ {"open"} => 0 < job[p].at
    /\ \A i \in DOMAIN job[p].made :
          /\ job[p].pc \in {"mkdir", "record"} => job[p].made[i] < job[p].at
          /\ At(p, "enter") => job[p].made[i] <= job[p].at

\* The levels where p made a directory, or is about to remove one.
Touched(p) ==
    ToSet(job[p].made) \cup ToSet(job[p].todo) \cup (IF At(p, "record") THEN {job[p].at} ELSE {})

\* None of the directories there before the calls is at such a level, and p did
\* make one there.
NewFits(p) == \A l \in Touched(p) : dir[l] \notin 1..Depth + 1 /\ p \in makers[l]

\* p knows the directories it made, except for one not yet recorded; in the
\* rollback of a failure they are still to be tried, or lie above one in use.
OwnerFits(p) ==
    \A l \in Level : owner[l] = p =>
       /\ job[p].pc # "resolve"
       /\ job[p].pc \in Forward \ {"record"} => l \in ToSet(job[p].made)
       /\ At(p, "record") => l \in ToSet(job[p].made) \cup {job[p].at}
       /\ job[p].exit = "failed" => l \in ToSet(job[p].todo) \/ \E n \in spared[p] : l <= n

Fits(p) ==
    TempFits(p) /\ FileFits(p) /\ ExitFits(p) /\ MadeFits(p) /\ NewFits(p) /\ OwnerFits(p)

PublishInv == Typed /\ TreeFits /\ \A p \in Publisher : Fits(p)

\* A nonempty set of numbers has a minimal element.
LEMMA MinimalOf ==
    ASSUME NEW R, IsWellFoundedOn(R, Nat), NEW T, T \subseteq Nat, T # {}
    PROVE  \E x \in T : \A y \in T : ~(<<y, x>> \in R)
  BY WFMin

\* With the order of the numbers it is the least one.
LEMMA MinimalIsLeast ==
    ASSUME NEW R, \A x, y \in Nat : x < y => <<x, y>> \in R,
           NEW T, T \subseteq Nat, \E x \in T : \A y \in T : ~(<<y, x>> \in R)
    PROVE  \E x \in T : \A y \in T : x <= y
<1>1. PICK x \in T : \A y \in T : ~(<<y, x>> \in R)
  OBVIOUS
<1>2. ASSUME NEW y \in T PROVE x <= y
  <2>1. ~(y < x)
    BY <1>1
  <2>. QED
    BY <2>1
<1>. QED
  BY <1>2

\* A nonempty set of numbers has a least element.
LEMMA LeastOf ==
    ASSUME NEW T, T \subseteq Nat, T # {}
    PROVE  \E x \in T : \A y \in T : x <= y
<1>1. IsWellFoundedOn(OpToRel(<, Nat), Nat)
  BY NatLessThanWellFounded
<1>2. \A x, y \in Nat : x < y => <<x, y>> \in OpToRel(<, Nat)
  BY DEF OpToRel
<1>3. \E x \in T : \A y \in T : ~(<<y, x>> \in OpToRel(<, Nat))
  BY <1>1, MinimalOf
<1>. QED
  BY <1>2, <1>3, MinimalIsLeast

\* What a list has once a level is appended to it.
LEMMA AppendAdds ==
    ASSUME NEW s \in Seq(Level), NEW a
    PROVE  ToSet(Append(s, a)) = ToSet(s) \cup {a}
<1> DEFINE n == Len(s)
           t == Append(s, a)
<1>1. n \in Nat /\ DOMAIN s = 1..n /\ DOMAIN t = 1..n + 1
  OBVIOUS
<1>2. t[n + 1] = a /\ \A i \in 1..n : t[i] = s[i]
  OBVIOUS
<1> HIDE DEF n, t
<1>3. \A i \in 1..n + 1 : i \in 1..n \/ i = n + 1
  BY <1>1
<1>4. n + 1 \in 1..n + 1 /\ \A i \in 1..n : i \in 1..n + 1
  BY <1>1
<1>5. ToSet(t) \subseteq ToSet(s) \cup {a}
  BY <1>1, <1>2, <1>3 DEF ToSet
<1>6. ToSet(s) \cup {a} \subseteq ToSet(t)
  BY <1>1, <1>2, <1>4 DEF ToSet
<1>. QED
  BY <1>5, <1>6 DEF t

\* A rising list reversed is a falling one of the same levels.
LEMMA ReverseFalls ==
    ASSUME NEW s \in Seq(Level), Rising(s)
    PROVE  Reverse(s) \in Seq(Level) /\ Falling(Reverse(s)) /\ ToSet(Reverse(s)) = ToSet(s)
<1> DEFINE n == Len(s)
<1>1. n \in Nat /\ DOMAIN s = 1..n /\ \A i \in 1..n : s[i] \in Level
  OBVIOUS
<1>2. Reverse(s) = [i \in 1..n |-> s[n - i + 1]]
  BY DEF Reverse
<1> HIDE DEF n
<1>3. \A i \in 1..n : n - i + 1 \in 1..n
  BY <1>1
<1>4. Reverse(s) \in [1..n -> Level]
  BY <1>1, <1>2, <1>3
<1>5. Reverse(s) \in Seq(Level)
  BY <1>1, <1>4
<1>6. Falling(Reverse(s))
  <2>1. DOMAIN Reverse(s) = 1..n
    BY <1>2
  <2>2. ASSUME NEW i \in 1..n, NEW j \in 1..n, i < j PROVE Reverse(s)[j] < Reverse(s)[i]
    <3>1. n - j + 1 < n - i + 1
      BY <1>1, <2>2
    <3>2. s[n - j + 1] < s[n - i + 1]
      BY <1>1, <1>3, <3>1 DEF Rising
    <3>. QED
      BY <1>2, <3>2
  <2>. QED
    BY <2>1, <2>2 DEF Falling
<1>7. ToSet(Reverse(s)) = ToSet(s)
  <2>1. \A i \in 1..n : s[i] = Reverse(s)[n - i + 1] /\ Reverse(s)[i] = s[n - i + 1]
    <3>1. ASSUME NEW i \in 1..n PROVE n - (n - i + 1) + 1 = i
      BY <1>1
    <3>. QED
      BY <1>2, <1>3, <3>1
  <2>2. DOMAIN Reverse(s) = 1..n
    BY <1>2
  <2>. QED
    BY <1>1, <1>3, <2>1, <2>2 DEF ToSet
<1>. QED
  BY <1>5, <1>6, <1>7

\* A call's part of the invariant speaks of no signals left to come.
SameStage(p) ==
    /\ job'[p].pc = job[p].pc /\ job'[p].target = job[p].target /\ job'[p].at = job[p].at
    /\ job'[p].held = job[p].held /\ job'[p].made = job[p].made /\ job'[p].todo = job[p].todo
    /\ job'[p].exit = job[p].exit

\* What others do to the tree disturbs no call: nobody takes its file or makes
\* a directory in its name, and the directory of its temporary file stays.
LEMMA OthersFit ==
    ASSUME Typed, NEW q \in Publisher, Fits(q), SameStage(q),
           temp'[q] = temp[q], spared'[q] = spared[q],
           \A l \in Level : owner'[l] = q => owner[l] = q,
           \A l \in Level : file'[l] = q <=> file[l] = q,
           \A l \in Level : dir'[l] = dir[l] \/ dir'[l] \notin 1..Depth + 1,
           \A l \in Level : makers[l] \subseteq makers'[l],
           temp[q] # 0 => dir'[job[q].target] = dir[job[q].target]
    PROVE  Fits(q)'
<1> USE DEF At, SameStage
<1>0. job[q].target \in Level
  BY DEF Typed, Job
<1>1. TempFits(q)'
  BY DEF Fits, TempFits
<1>2. FileFits(q)'
  BY <1>0 DEF Fits, FileFits
<1>3. ExitFits(q)'
  BY DEF Fits, ExitFits
<1>4. MadeFits(q)'
  BY DEF Fits, MadeFits
<1>5. NewFits(q)'
  <2>1. Touched(q)' = Touched(q) /\ Touched(q) \subseteq Level
    <3>1. Touched(q)' = Touched(q)
      BY DEF Touched
    <3>2. job[q].made \in Seq(Level) /\ job[q].todo \in Seq(Level)
      BY DEF Typed, Job
    <3>3. At(q, "record") => job[q].at \in Level
      BY <1>0, PublishAssumption DEF Typed, Job, Fits, MadeFits, Making, Level
    <3>. QED
      BY <3>1, <3>2, <3>3 DEF Touched, ToSet
  <2>. QED
    BY <2>1 DEF Fits, NewFits
<1>6. OwnerFits(q)'
  BY DEF Fits, OwnerFits
<1>. QED
  BY <1>1, <1>2, <1>3, <1>4, <1>5, <1>6 DEF Fits


\* A step of p, and of p only, among the jobs.
Moves(p) ==
    /\ job' \in [Publisher -> Job]
    /\ \A q \in Publisher \ {p} : job'[q] = job[q]
    /\ job'[p].target = job[p].target

\* A step of p that only moves p on, to a place that fits.
LEMMA QuietMove ==
    ASSUME PublishInv, NEW p \in Publisher, Moves(p),
           UNCHANGED <<treeVars, temp, user, spared>>, Fits(p)'
    PROVE  PublishInv'
<1> USE DEF treeVars
<1>1. Typed'
  BY DEF PublishInv, Typed, Moves
<1>2. TreeFits'
  BY DEF PublishInv, TreeFits
<1>3. ASSUME NEW q \in Publisher PROVE Fits(q)'
  <2>1. CASE q # p
    <3>1. SameStage(q)
      BY <2>1 DEF Moves, SameStage
    <3>. QED
      BY <3>1, OthersFit DEF PublishInv
  <2>. QED
    BY <2>1
<1>. QED
  BY <1>1, <1>2, <1>3 DEF PublishInv

\* A step within the stages before the commit.
LEMMA ForwardMove ==
    ASSUME PublishInv, NEW p \in Publisher, Moves(p),
           UNCHANGED <<treeVars, temp, user, spared>>,
           job[p].pc \in Forward, job'[p].pc \in Forward \ {"resolve", "record"},
           job'[p].exit = job[p].exit, job'[p].todo = job[p].todo,
           job'[p].pc \in Staged <=> job[p].pc \in Staged,
           job'[p].pc \in Linked <=> job[p].pc \in Linked,
           job'[p].pc \in {"mkdir", "create"} => job'[p].held # 0,
           job[p].pc # "record" => job'[p].made = job[p].made,
           job[p].pc = "record" => job'[p].made = Append(job[p].made, job[p].at),
           MadeFits(p)'
    PROVE  PublishInv'
<1> USE DEF At, treeVars
<1>0. /\ job[p].target \in Level /\ job[p].made \in Seq(Level)
      /\ job[p].pc # "ended" /\ job'[p].pc \notin {"ended", "undo", "cleanup", "sweep"}
  BY DEF PublishInv, Typed, Job, Forward
<1>1. TempFits(p)'
  BY <1>0 DEF PublishInv, Fits, TempFits, Moves
<1>2. FileFits(p)'
  BY <1>0 DEF PublishInv, Fits, FileFits, Moves
<1>3. ExitFits(p)'
  BY <1>0 DEF PublishInv, Fits, ExitFits, Undoing
<1>4. ToSet(job'[p].made) = ToSet(job[p].made) \cup (IF At(p, "record") THEN {job[p].at} ELSE {})
  <2>1. CASE At(p, "record")
    BY <1>0, <2>1, AppendAdds
  <2>2. CASE ~At(p, "record")
    BY <2>2
  <2>. QED
    BY <2>1, <2>2
<1>5. Touched(p)' = Touched(p)
  BY <1>4 DEF Touched
<1>6. NewFits(p)'
  BY <1>5 DEF PublishInv, Fits, NewFits
<1>7. OwnerFits(p)'
  <2>1. job[p].exit # "failed"
    BY DEF PublishInv, Fits, ExitFits
  <2>. QED
    BY <1>0, <1>4, <2>1 DEF PublishInv, Fits, OwnerFits
<1>. QED
  BY <1>1, <1>2, <1>3, <1>6, <1>7, QuietMove DEF Fits

\* A failure or a signal starts a rollback, which knows every directory that
\* has to go; the copy under way has taken its file back, unless it was complete
\* and only did not compare.
LEMMA RollsBack ==
    ASSUME PublishInv, NEW p \in Publisher, Moves(p),
           UNCHANGED <<dir, last, owner, makers, temp, user, spared>>,
           \/ file' = FileUndone(p) /\ job'[p].exit \in {"failed", "signal"}
           \/ file' = file /\ job'[p].exit = "unchecked" /\ job[p].pc \in {"placed", "copy"},
           job[p].pc # "ended", job'[p].pc \in {"undo", "sweep"},
           job'[p].made = job[p].made, job'[p].todo = Reverse(job[p].made),
           job'[p].pc = "undo" => job[p].pc \in Making,
           job'[p].exit = "failed" =>
              job[p].pc \in Forward \ {"resolve", "record", "placed", "opened", "unlink", "commit"}
    PROVE  PublishInv'
<1> USE DEF At
<1>0. /\ job[p].target \in Level /\ job[p].made \in Seq(Level)
      /\ \A q \in Publisher : q # Nobody
      /\ Rising(job[p].made)
  BY PublishAssumption DEF PublishInv, Typed, Job, Fits, MadeFits
<1>1. /\ job'[p].todo \in Seq(Level) /\ Falling(job'[p].todo)
      /\ ToSet(job'[p].todo) = ToSet(job[p].made)
  BY <1>0, ReverseFalls
<1>2. /\ file' \in [Level -> Maker] /\ \A l \in Level : file[l] = Nobody => file'[l] = Nobody
      /\ \A q \in Publisher \ {p}, l \in Level : file'[l] = q <=> file[l] = q
      /\ \A l \in Level : file'[l] = p =>
            file[l] = p /\ (job[p].pc # "copy" \/ job'[p].exit = "unchecked")
  <2>1. CASE job[p].pc = "copy" /\ file' = FileUndone(p)
    <3>1. file' = [file EXCEPT ![job[p].target] = Nobody] /\ file[job[p].target] = p
      BY <2>1 DEF FileUndone, PublishInv, Fits, FileFits, Linked
    <3>2. \A l \in Level : file[l] = p => l = job[p].target
      BY DEF PublishInv, Fits, FileFits
    <3>. QED
      BY <1>0, <3>1, <3>2 DEF PublishInv, Typed, Maker
  <2>2. CASE job[p].pc # "copy" /\ file' = FileUndone(p)
    BY <2>2 DEF FileUndone, PublishInv, Typed
  <2>3. CASE file' = file /\ job'[p].exit = "unchecked"
    BY <2>3 DEF PublishInv, Typed
  <2>. QED
    BY <2>1, <2>2, <2>3
<1>3. Typed'
  BY <1>2 DEF PublishInv, Typed, Moves
<1>4. TreeFits'
  BY <1>2 DEF PublishInv, TreeFits
<1>5. ASSUME NEW q \in Publisher \ {p} PROVE Fits(q)'
  <2>1. SameStage(q)
    BY DEF Moves, SameStage
  <2>. QED
    BY <1>2, <2>1, OthersFit DEF PublishInv
<1>6. TempFits(p)'
  BY <1>0 DEF PublishInv, Fits, TempFits, Moves, Forward, Staged, Making
<1>7. FileFits(p)'
  <2>1. job'[p].pc \notin Linked /\ job'[p].exit # "ok"
    BY DEF Linked
  <2>2. ASSUME NEW l \in Level, file'[l] = p
        PROVE  l = job[p].target /\ job'[p].exit \in {"unchecked", "signal"}
    <3>1. file[l] = p /\ (job[p].pc # "copy" \/ job'[p].exit = "unchecked")
      BY <1>2, <2>2
    <3>2. job[p].pc \in Linked \/ job[p].exit \in {"ok", "unchecked", "signal", "killed"}
      BY <3>1 DEF PublishInv, Fits, FileFits
    <3>3. job'[p].exit # "failed"
      BY <3>1, <3>2 DEF PublishInv, Fits, ExitFits, Linked, Forward
    <3>. QED
      BY <3>1, <3>3 DEF PublishInv, Fits, FileFits
  <2>3. job'[p].exit = "unchecked" => file'[job[p].target] = p
    BY DEF PublishInv, Fits, FileFits, Linked
  <2>. QED
    BY <2>1, <2>2, <2>3 DEF FileFits, Moves
<1>8. ExitFits(p)'
  BY DEF ExitFits, Forward, Undoing
<1>9. MadeFits(p)'
  BY <1>0, <1>1 DEF PublishInv, Fits, MadeFits, Making
<1>10. NewFits(p)'
  BY <1>1 DEF PublishInv, Fits, NewFits, Touched
<1>11. OwnerFits(p)'
  BY <1>1 DEF PublishInv, Fits, OwnerFits, Forward
<1>. QED
  BY <1>3, <1>4, <1>5, <1>6, <1>7, <1>8, <1>9, <1>10, <1>11 DEF PublishInv, Fits

(***************************************************************************)
(* The stages                                                              *)
(***************************************************************************)

\* The levels down to a target that exist have a last one.
LEMMA LastThere ==
    ASSUME Typed, NEW t \in Level
    PROVE  \E k \in 0..t : (\A l \in 1..k : dir[l] # 0) /\ (k < t => dir[k + 1] = 0)
<1> DEFINE gone == {l \in 1..t : dir[l] = 0}
<1>0. t \in Nat
  BY DEF Level
<1>1. CASE gone = {}
  BY <1>0, <1>1
<1>2. CASE gone # {}
  <2>0. gone \subseteq Nat
    BY <1>0
  <2>1. PICK g \in gone : \A l \in gone : g <= l
    <3> HIDE DEF gone
    <3>. QED
      BY <1>2, <2>0, LeastOf
  <2>2. g - 1 \in 0..t /\ \A l \in 1..g - 1 : dir[l] # 0
    BY <1>0, <2>1
  <2>. QED
    BY <1>0, <2>1, <2>2
<1>. QED
  BY <1>1, <1>2

\* check_target, where the nearest directory exists.
LEMMA ResolveKeeps ==
    ASSUME PublishInv, NEW p \in Publisher, Resolve(p)
    PROVE  PublishInv'
<1> DEFINE t == job[p].target
           n == CHOOSE k \in 0..t : (\A l \in 1..k : dir[l] # 0) /\ (k < t => dir[k + 1] = 0)
<1>0. /\ t \in Level /\ job \in [Publisher -> Job] /\ job[p] \in Job /\ At(p, "resolve")
      /\ UNCHANGED <<treeVars, temp, user, spared>>
  BY DEF PublishInv, Typed, Job, Resolve
<1>1. n \in 0..t
  BY <1>0, LastThere DEF PublishInv
<1>2. n \in 0..Depth + 1
  BY <1>0, <1>1, PublishAssumption DEF Level
<1>3. \/ job' = [job EXCEPT ![p].pc = "ended", ![p].exit = "failed"]
      \/ job' = [job EXCEPT ![p].pc = "open", ![p].at = n]
  BY DEF Resolve
<1> HIDE DEF n
<1>4. CASE job' = [job EXCEPT ![p].pc = "ended", ![p].exit = "failed"]
  <2>1. Moves(p)
    BY <1>0, <1>4 DEF Moves, Job
  <2>2. /\ job'[p].pc = "ended" /\ job'[p].exit = "failed" /\ job'[p].made = <<>>
        /\ job'[p].todo = <<>> /\ job'[p].target = t /\ temp[p] = 0
    BY <1>0, <1>4 DEF Job, PublishInv, Fits, MadeFits, ExitFits, Forward, At, TempFits, Staged
  <2>3. TempFits(p)' /\ ExitFits(p)'
    BY <1>0, <2>2 DEF TempFits, ExitFits, At, Staged, Forward, Undoing
  <2>4. FileFits(p)'
    BY <1>0, <2>2 DEF FileFits, PublishInv, Fits, ExitFits, Linked, At, treeVars, Forward
  <2>5. MadeFits(p)'
    BY <2>2 DEF MadeFits, Rising, Falling, Making
  <2>6. NewFits(p)'
    BY <2>2 DEF NewFits, Touched, ToSet, At
  <2>7. OwnerFits(p)'
    BY <1>0, <2>2 DEF OwnerFits, PublishInv, Fits, treeVars, At
  <2>. QED
    BY <1>0, <2>1, <2>3, <2>4, <2>5, <2>6, <2>7, QuietMove DEF Fits
<1>5. CASE job' = [job EXCEPT ![p].pc = "open", ![p].at = n]
  <2>1. Moves(p)
    BY <1>0, <1>2, <1>5 DEF Moves, Job
  <2>2. /\ job'[p].pc = "open" /\ job'[p].at = n /\ job'[p].exit = job[p].exit
        /\ job'[p].made = job[p].made /\ job'[p].todo = job[p].todo /\ job'[p].target = t
    BY <1>0, <1>5 DEF Job
  <2>3. MadeFits(p)'
    BY <1>0, <1>1, <2>2 DEF PublishInv, Fits, MadeFits, Making, At, Rising
  <2>. QED
    BY <1>0, <2>1, <2>2, <2>3, ForwardMove DEF Forward, Staged, Linked, At
<1>. QED
  BY <1>3, <1>4, <1>5

\* Fail is a rollback.
LEMMA FailKeeps ==
    ASSUME PublishInv, NEW p \in Publisher, Fail(p),
           UNCHANGED <<dir, last, owner, makers, temp, user, spared>>, file' = FileUndone(p),
           job[p].pc \in {"open", "mkdir", "enter", "stage", "create", "fill", "look", "link", "copy"}
    PROVE  PublishInv'
<1> DEFINE to == IF job[p].pc \in Making THEN "undo" ELSE "sweep"
<1>0. job \in [Publisher -> Job] /\ job[p] \in Job /\ job[p].made \in Seq(Level) /\ Rising(job[p].made)
  BY DEF PublishInv, Typed, Job, Fits, MadeFits
<1>1. job' = [job EXCEPT ![p].pc = to, ![p].exit = "failed", ![p].held = 0, ![p].at = 0,
                         ![p].todo = Reverse(job[p].made)]
  BY DEF Fail, RollBack, Making
<1>2. Reverse(job[p].made) \in Seq(Level)
  BY <1>0, ReverseFalls
<1>3. /\ job'[p].pc = to /\ job'[p].exit = "failed" /\ job'[p].todo = Reverse(job[p].made)
      /\ job'[p].made = job[p].made
  BY <1>0, <1>1 DEF Job
<1>4. 0 \in 0..Depth + 1 /\ 0 \in Nat /\ to \in {"undo", "sweep"}
  BY PublishAssumption
<1>5. Moves(p)
  <2> HIDE DEF to
  <2>. QED
    BY <1>0, <1>1, <1>2, <1>4 DEF Moves, Job
<1>. QED
  BY <1>3, <1>5, RollsBack DEF Making, Forward

\* The quiet half of an action that fails.
LEMMA QuietFail ==
    ASSUME PublishInv, NEW p \in Publisher, Fail(p), UNCHANGED <<treeVars, temp, user, spared>>,
           job[p].pc \in {"open", "mkdir", "enter", "stage", "create", "look", "link"}
    PROVE  PublishInv'
<1>1. file' = FileUndone(p)
  BY DEF FileUndone, treeVars, At
<1>. QED
  BY <1>1, FailKeeps DEF treeVars

\* Going down to the next level, or on to the file.
LEMMA HeldKeeps ==
    ASSUME PublishInv, NEW p \in Publisher, NEW d \in Nat \ {0}, Held(p, job[p].at, d),
           job[p].pc \in {"open", "enter"}, UNCHANGED <<treeVars, temp, user, spared>>
    PROVE  PublishInv'
<1> DEFINE l == job[p].at
           t == job[p].target
<1>0. /\ job \in [Publisher -> Job] /\ job[p] \in Job /\ t \in Level /\ l \in 0..Depth + 1 /\ l <= t
      /\ t \in Nat /\ l \in Nat /\ t <= Depth /\ job[p].made \in Seq(Level)
  BY PublishAssumption, SMTT(20) DEF PublishInv, Typed, Job, Fits, MadeFits, Making, Level
<1>1. CASE l = t
  <2>1. job' = [job EXCEPT ![p].held = 0, ![p].at = 0, ![p].pc = "stage"]
    BY <1>1 DEF Held
  <2>2. 0 \in 0..Depth + 1 /\ 0 \in Nat
    BY PublishAssumption
  <2>3. Moves(p)
    BY <1>0, <2>1, <2>2 DEF Moves, Job
  <2>4. /\ job'[p].pc = "stage" /\ job'[p].exit = job[p].exit
        /\ job'[p].made = job[p].made /\ job'[p].todo = job[p].todo
    BY <1>0, <2>1 DEF Job
  <2>5. MadeFits(p)'
    BY <2>4 DEF PublishInv, Fits, MadeFits, Making, At
  <2>. QED
    BY <2>3, <2>4, <2>5, ForwardMove DEF Forward, Staged, Linked
<1>2. CASE l # t
  <2>1. job' = [job EXCEPT ![p].held = d, ![p].at = l + 1, ![p].pc = "mkdir"]
    BY <1>2 DEF Held
  <2>2. l + 1 \in 0..Depth + 1 /\ l + 1 <= t /\ 0 < l + 1
    BY <1>0, <1>2, PublishAssumption
  <2>3. Moves(p)
    <3> HIDE DEF l, t
    <3>. QED
      BY <1>0, <2>1, <2>2 DEF Moves, Job
  <2>4. /\ job'[p].pc = "mkdir" /\ job'[p].held = d /\ job'[p].exit = job[p].exit /\ job'[p].at = l + 1
        /\ job'[p].made = job[p].made /\ job'[p].todo = job[p].todo /\ job'[p].target = t
    BY <1>0, <2>1 DEF Job
  <2>5. \A i \in DOMAIN job[p].made : job[p].made[i] \in Nat /\ job[p].made[i] <= l
    <3>1. \A i \in DOMAIN job[p].made : job[p].made[i] \in Nat
      <4>1. \A i \in DOMAIN job[p].made : job[p].made[i] \in Level
        BY <1>0
      <4>. QED
        BY <4>1 DEF Level
    <3>2. CASE At(p, "open")
      <4>1. job[p].made = <<>>
        BY <3>2 DEF PublishInv, Fits, MadeFits, At
      <4>. QED
        BY <4>1
    <3>3. CASE At(p, "enter")
      BY <3>1, <3>3 DEF PublishInv, Fits, MadeFits
    <3>. QED
      BY <3>2, <3>3 DEF At
  <2>6. MadeFits(p)'
    BY <1>0, <2>2, <2>4, <2>5 DEF PublishInv, Fits, MadeFits, Making, At
  <2>. QED
    BY <2>3, <2>4, <2>6, ForwardMove DEF Forward, Staged, Linked
<1>. QED
  BY <1>1, <1>2

\* The stages that read the tree and move on, or fail.
LEMMA ReadingKeeps ==
    ASSUME PublishInv, NEW p \in Publisher,
           OpenAncestor(p) \/ EnterDir(p) \/ Stage(p) \/ Fill(p) \/ Look(p)
    PROVE  PublishInv'
<1>0. /\ job \in [Publisher -> Job] /\ job[p] \in Job /\ dir \in [Level -> Nat]
      /\ job[p].target \in Level
      /\ UNCHANGED <<treeVars, temp, user, spared>>
  BY DEF PublishInv, Typed, Job, OpenAncestor, EnterDir, Stage, Fill, Look
<1>1. CASE OpenAncestor(p)
  <2>1. job[p].at \in 0..Depth
    <3>1. job[p].at <= job[p].target
      BY <1>1 DEF OpenAncestor, PublishInv, Fits, MadeFits, Making, At
    <3>2. job[p].at \in 0..Depth + 1
      BY <1>0 DEF Job
    <3>. QED
      BY <1>0, <3>1, <3>2, PublishAssumption DEF Level
  <2>2. Dir(job[p].at) \in Nat
    BY <1>0, <2>1, PublishAssumption DEF Dir, Level
  <2>. QED
    BY <1>0, <1>1, <2>2, QuietFail, HeldKeeps DEF OpenAncestor, At
<1>2. CASE EnterDir(p)
  <2>1. job[p].at \in Level
    <3>1. 0 < job[p].at /\ job[p].at <= job[p].target
      BY <1>2 DEF EnterDir, PublishInv, Fits, MadeFits, Making, At
    <3>2. job[p].at \in 0..Depth + 1
      BY <1>0 DEF Job
    <3>. QED
      BY <1>0, <3>1, <3>2, PublishAssumption DEF Level
  <2>2. dir[job[p].at] \in Nat
    BY <1>0, <2>1
  <2>. QED
    BY <1>0, <1>2, <2>2, QuietFail, HeldKeeps DEF EnterDir, At
<1>3. CASE Stage(p)
  <2>1. CASE dir[job[p].target] = 0
    BY <1>0, <1>3, <2>1, QuietFail DEF Stage, At
  <2>2. CASE dir[job[p].target] # 0
    <3>1. /\ job' = [job EXCEPT ![p].pc = "create", ![p].held = dir[job[p].target]]
          /\ dir[job[p].target] \in Nat /\ At(p, "stage")
      BY <1>0, <1>3, <2>2 DEF Stage
    <3>2. Moves(p)
      BY <1>0, <3>1 DEF Moves, Job
    <3>3. /\ job'[p].pc = "create" /\ job'[p].held # 0 /\ job'[p].exit = job[p].exit
          /\ job'[p].made = job[p].made /\ job'[p].todo = job[p].todo
      BY <1>0, <2>2, <3>1 DEF Job
    <3>4. MadeFits(p)'
      BY <3>3 DEF PublishInv, Fits, MadeFits, Making, At
    <3>. QED
      BY <1>0, <3>1, <3>2, <3>3, <3>4, ForwardMove DEF Forward, Staged, Linked, At
  <2>. QED
    BY <2>1, <2>2
<1>4. CASE Fill(p)
  <2>1. job' = [job EXCEPT ![p].pc = "look", ![p].held = 0] /\ 0 \in Nat /\ At(p, "fill")
    BY <1>4 DEF Fill
  <2>2. Moves(p)
    BY <1>0, <2>1 DEF Moves, Job
  <2>3. /\ job'[p].pc = "look" /\ job'[p].exit = job[p].exit
        /\ job'[p].made = job[p].made /\ job'[p].todo = job[p].todo
    BY <1>0, <2>1 DEF Job
  <2>4. MadeFits(p)'
    BY <2>3 DEF PublishInv, Fits, MadeFits, Making, At
  <2>. QED
    BY <1>0, <2>1, <2>2, <2>3, <2>4, ForwardMove DEF Forward, Staged, Linked, At
<1>5. CASE Look(p)
  <2>1. CASE Fail(p)
    BY <1>0, <1>5, <2>1, QuietFail DEF Look, At
  <2>2. CASE Goto(p, "link")
    <3>1. job' = [job EXCEPT ![p].pc = "link"] /\ At(p, "look")
      BY <1>5, <2>2 DEF Goto, Look
    <3>2. Moves(p)
      BY <1>0, <3>1 DEF Moves, Job
    <3>3. /\ job'[p].pc = "link" /\ job'[p].exit = job[p].exit
          /\ job'[p].made = job[p].made /\ job'[p].todo = job[p].todo
      BY <1>0, <3>1 DEF Job
    <3>4. MadeFits(p)'
      BY <3>3 DEF PublishInv, Fits, MadeFits, Making, At
    <3>. QED
      BY <1>0, <3>1, <3>2, <3>3, <3>4, ForwardMove DEF Forward, Staged, Linked, At
  <2>. QED
    BY <1>5, <2>1, <2>2 DEF Look
<1>. QED
  BY <1>1, <1>2, <1>3, <1>4, <1>5

\* The stages after the link, when they move on.
LEMMA LinkedKeeps ==
    ASSUME PublishInv, NEW p \in Publisher, job[p].pc \in {"placed", "opened", "copy"},
           Goto(p, "copy") \/ Goto(p, "unlink"), UNCHANGED <<treeVars, temp, user, spared>>
    PROVE  PublishInv'
<1>1. PICK to \in {"copy", "unlink"} : job' = [job EXCEPT ![p].pc = to]
  BY DEF Goto
<1>2. /\ job \in [Publisher -> Job] /\ job[p] \in Job /\ job[p].pc \in {"placed", "opened", "copy"}
      /\ UNCHANGED <<treeVars, temp, user, spared>>
  BY DEF PublishInv, Typed
<1>3. Moves(p)
  BY <1>1, <1>2 DEF Moves, Job
<1>4. /\ job'[p].pc = to /\ job'[p].exit = job[p].exit
      /\ job'[p].made = job[p].made /\ job'[p].todo = job[p].todo
  BY <1>1, <1>2 DEF Job
<1>5. MadeFits(p)'
  BY <1>4 DEF PublishInv, Fits, MadeFits, Making, At
<1>. QED
  BY <1>2, <1>3, <1>4, <1>5, ForwardMove DEF Forward, Staged, Linked

\* The copy begins.
LEMMA StartCopyKeeps ==
    ASSUME PublishInv, NEW p \in Publisher, StartCopy(p)
    PROVE  PublishInv'
  BY LinkedKeeps DEF StartCopy, At

\* The last look at the file: it goes on, or rolls back all but the file.
LEMMA CheckFileKeeps ==
    ASSUME PublishInv, NEW p \in Publisher, CheckFile(p)
    PROVE  PublishInv'
<1>0. /\ job \in [Publisher -> Job] /\ job[p] \in Job /\ job[p].made \in Seq(Level)
      /\ Rising(job[p].made) /\ job[p].pc \in {"placed", "copy"}
      /\ UNCHANGED <<treeVars, temp, user, spared>>
  BY DEF PublishInv, Typed, Job, Fits, MadeFits, CheckFile
<1>1. CASE Goto(p, "unlink")
  BY <1>0, <1>1, LinkedKeeps
<1>2. CASE RollBack(p, "sweep", "unchecked")
  <2>1. job' = [job EXCEPT ![p].pc = "sweep", ![p].exit = "unchecked", ![p].held = 0, ![p].at = 0,
                           ![p].todo = Reverse(job[p].made)]
    BY <1>2 DEF RollBack
  <2>2. Reverse(job[p].made) \in Seq(Level) /\ 0 \in 0..Depth + 1 /\ 0 \in Nat
    BY <1>0, ReverseFalls, PublishAssumption
  <2>3. /\ job'[p].pc = "sweep" /\ job'[p].exit = "unchecked"
        /\ job'[p].todo = Reverse(job[p].made) /\ job'[p].made = job[p].made
    BY <1>0, <2>1 DEF Job
  <2>4. Moves(p)
    BY <1>0, <2>1, <2>2 DEF Moves, Job
  <2>. QED
    BY <1>0, <2>3, <2>4, RollsBack DEF treeVars
<1>. QED
  BY <1>1, <1>2 DEF CheckFile

\* The level where a directory is made exists in the chain.
LEMMA AtIsLevel ==
    ASSUME PublishInv, NEW p \in Publisher, job[p].pc \in Making \ {"open"}
    PROVE  job[p].at \in Level /\ job[p].target \in Level /\ job[p].at <= job[p].target
<1>1. 0 < job[p].at /\ job[p].at <= job[p].target
  BY DEF PublishInv, Fits, MadeFits, Making
<1>2. job[p].at \in 0..Depth + 1 /\ job[p].target \in Level
  BY DEF PublishInv, Typed, Job
<1>. QED
  BY <1>1, <1>2, PublishAssumption DEF Level

\* created.append, with the level below those recorded before.
LEMMA RecordKeeps ==
    ASSUME PublishInv, NEW p \in Publisher, Record(p)
    PROVE  PublishInv'
<1> DEFINE m == job[p].made
           a == job[p].at
<1>0. /\ job \in [Publisher -> Job] /\ job[p] \in Job /\ m \in Seq(Level) /\ a \in Level
      /\ At(p, "record") /\ UNCHANGED <<treeVars, temp, user, spared>> /\ a <= job[p].target
  BY AtIsLevel DEF PublishInv, Typed, Job, Record, At, Making
<1>1. job' = [job EXCEPT ![p].pc = "enter", ![p].made = Append(m, a)]
  BY DEF Record
<1>2. Append(m, a) \in Seq(Level)
  BY <1>0
<1>3. Moves(p)
  <2> HIDE DEF m, a
  <2>. QED
    BY <1>0, <1>1, <1>2 DEF Moves, Job
<1>4. /\ job'[p].pc = "enter" /\ job'[p].exit = job[p].exit /\ job'[p].at = a
      /\ job'[p].made = Append(m, a) /\ job'[p].todo = job[p].todo
  BY <1>0, <1>1 DEF Job
<1>5. /\ \A i \in 1..Len(m) : m[i] < a /\ m[i] \in Nat
      /\ \A i, j \in 1..Len(m) : i < j => m[i] < m[j]
  <2>1. \A i \in 1..Len(m) : m[i] \in Level
    BY <1>0
  <2>2. DOMAIN m = 1..Len(m)
    BY <1>0
  <2>. QED
    BY <1>0, <2>1, <2>2 DEF PublishInv, Fits, MadeFits, Rising, At, Level
<1>6. DOMAIN Append(m, a) = 1..Len(m) + 1 /\ \A i \in 1..Len(m) + 1 :
         Append(m, a)[i] = IF i = Len(m) + 1 THEN a ELSE m[i]
  <2> HIDE DEF m, a
  <2>. QED
    BY <1>0
<1>7. Len(m) \in Nat /\ a \in Nat
  BY <1>0 DEF Level
<1>8. Rising(Append(m, a)) /\ \A i \in 1..Len(m) + 1 : Append(m, a)[i] <= a
  <2> HIDE DEF m, a
  <2>1. ASSUME NEW i \in 1..Len(m) + 1, NEW j \in 1..Len(m) + 1, i < j
        PROVE  Append(m, a)[i] < Append(m, a)[j]
    <3>1. i \in 1..Len(m) /\ Append(m, a)[i] = m[i]
      BY <1>6, <1>7, <2>1
    <3>2. CASE j = Len(m) + 1
      BY <1>5, <1>6, <3>1, <3>2
    <3>3. CASE j # Len(m) + 1
      <4>1. j \in 1..Len(m) /\ Append(m, a)[j] = m[j]
        BY <1>6, <1>7, <3>3
      <4>. QED
        BY <1>5, <2>1, <3>1, <4>1
    <3>. QED
      BY <3>2, <3>3
  <2>2. \A i \in 1..Len(m) + 1 : Append(m, a)[i] <= a
    BY <1>5, <1>6, <1>7
  <2>. QED
    BY <1>6, <2>1, <2>2 DEF Rising
<1>9. MadeFits(p)'
  <2>1. job'[p].target = job[p].target
    BY <1>3 DEF Moves
  <2>. QED
    BY <1>0, <1>4, <1>6, <1>8, <2>1, AtIsLevel
       DEF PublishInv, Fits, MadeFits, Making, At, Level
<1>. QED
  BY <1>0, <1>3, <1>4, <1>9, ForwardMove DEF Forward, Staged, Linked, At

\* mkdir: the new directory has a number nobody had.
LEMMA MakeDirKeeps ==
    ASSUME PublishInv, NEW p \in Publisher, MakeDir(p)
    PROVE  PublishInv'
<1> DEFINE l == job[p].at
<1>0. /\ job \in [Publisher -> Job] /\ job[p] \in Job /\ l \in Level /\ At(p, "mkdir")
      /\ l <= job[p].target /\ job[p].target \in Level /\ UNCHANGED <<temp, user, spared>>
  BY AtIsLevel DEF PublishInv, Typed, MakeDir, At, Making
<1>1. CASE Fail(p) /\ UNCHANGED treeVars
  BY <1>0, <1>1, QuietFail DEF At
<1>2. CASE Goto(p, "enter") /\ UNCHANGED treeVars
  <2>1. Moves(p)
    BY <1>0, <1>2 DEF Moves, Job, Goto
  <2>2. /\ job'[p].pc = "enter" /\ job'[p].exit = job[p].exit /\ job'[p].at = l
        /\ job'[p].made = job[p].made /\ job'[p].todo = job[p].todo
        /\ job'[p].target = job[p].target
    BY <1>0, <1>2 DEF Job, Goto
  <2>3. \A i \in DOMAIN job[p].made : job[p].made[i] <= l
    <3>1. \A i \in DOMAIN job[p].made : job[p].made[i] \in Level
      BY <1>0 DEF Job
    <3>. QED
      BY <1>0, <3>1 DEF PublishInv, Fits, MadeFits, At, Level
  <2>4. MadeFits(p)'
    BY <1>0, <2>2, <2>3 DEF PublishInv, Fits, MadeFits, Making, At
  <2>. QED
    BY <1>0, <1>2, <2>1, <2>2, <2>4, ForwardMove DEF Forward, Staged, Linked, At
<1>3. CASE /\ Goto(p, "record") /\ dir[l] = 0 /\ last' = last + 1
           /\ Dir(l - 1) = job[p].held
           /\ dir' = [dir EXCEPT ![l] = last + 1] /\ owner' = [owner EXCEPT ![l] = p]
           /\ makers' = [makers EXCEPT ![l] = @ \cup {p}]
           /\ UNCHANGED file
  <2>0. /\ last \in Nat /\ Depth + 1 <= last /\ Depth \in Nat /\ l \in 1..Depth
        /\ \A k \in Level : dir[k] \in Nat /\ dir[k] <= last
    BY <1>0, PublishAssumption DEF PublishInv, Typed, TreeFits, Level
  <2>1. Moves(p)
    BY <1>0, <1>3 DEF Moves, Job, Goto
  <2>2. /\ job'[p].pc = "record" /\ job'[p].exit = job[p].exit /\ job'[p].at = l
        /\ job'[p].made = job[p].made /\ job'[p].todo = job[p].todo
        /\ job'[p].target = job[p].target
    BY <1>0, <1>3 DEF Job, Goto
  <2>3. Typed'
    BY <1>0, <1>3, <2>0, <2>1 DEF PublishInv, Typed, Moves, Maker
  <2>4. TreeFits'
    <3>1. ASSUME NEW k \in Level, dir'[k] = 0, k < Depth PROVE dir'[k + 1] = 0
      <4>1. k # l /\ dir[k] = 0 /\ k + 1 \in Level
        BY <1>0, <1>3, <2>0, <3>1 DEF PublishInv, Typed, Level
      <4>2. k + 1 # l
        <5>1. ASSUME k + 1 = l PROVE FALSE
          <6>1. Dir(l - 1) = dir[k]
            BY <2>0, <5>1 DEF Dir, Level
          <6>. QED
            BY <1>0, <1>3, <4>1, <6>1 DEF PublishInv, Fits, TempFits, At
        <5>. QED
          BY <5>1
      <4>. QED
        BY <1>3, <3>1, <4>1, <4>2 DEF PublishInv, Typed, TreeFits
    <3>2. ASSUME NEW k \in Level
          PROVE  dir'[k] <= last' /\ (dir'[k] = 0 => owner'[k] = Nobody /\ file'[k] = Nobody)
      BY <1>0, <1>3, <2>0 DEF PublishInv, Typed, TreeFits
    <3>. QED
      BY <3>1, <3>2 DEF TreeFits
  <2>5. ASSUME NEW q \in Publisher \ {p} PROVE Fits(q)'
    <3>1. SameStage(q)
      BY <2>1 DEF Moves, SameStage
    <3>2. \A k \in Level : dir'[k] = dir[k] \/ dir'[k] \notin 1..Depth + 1
      BY <1>3, <2>0 DEF PublishInv, Typed
    <3>3. temp[q] # 0 => dir'[job[q].target] = dir[job[q].target]
      BY <1>3 DEF PublishInv, Typed, Fits, TempFits
    <3>4. \A k \in Level : owner'[k] = q => owner[k] = q
      BY <1>3 DEF PublishInv, Typed
    <3>5. \A k \in Level : makers[k] \subseteq makers'[k]
      BY <1>3 DEF PublishInv, Typed
    <3>. QED
      BY <1>0, <1>3, <3>1, <3>2, <3>3, <3>4, <3>5, OthersFit DEF PublishInv
  <2>6. TempFits(p)'
    BY <1>0, <2>2 DEF PublishInv, Fits, TempFits, At, Forward, Staged
  <2>7. FileFits(p)'
    BY <1>0, <1>3, <2>2 DEF PublishInv, Fits, FileFits, At, Linked
  <2>8. ExitFits(p)'
    BY <1>0, <2>2 DEF PublishInv, Fits, ExitFits, At, Forward, Undoing
  <2>9. MadeFits(p)'
    BY <1>0, <2>2 DEF PublishInv, Fits, MadeFits, At, Making
  <2>10. NewFits(p)'
    <3>1. Touched(p)' = Touched(p) \cup {l}
      BY <1>0, <2>2 DEF Touched, At
    <3>2. \A k \in Level : dir'[k] = dir[k] \/ (k = l /\ dir'[k] \notin 1..Depth + 1)
      BY <1>3, <2>0 DEF PublishInv, Typed
    <3>3. Touched(p) \subseteq Level
      <4>1. job[p].made \in Seq(Level) /\ job[p].todo \in Seq(Level)
        BY <1>0 DEF Job
      <4>. QED
        BY <1>0, <4>1 DEF Touched, ToSet, At
    <3>4. dir'[l] \notin 1..Depth + 1
      BY <1>0, <1>3, <2>0 DEF PublishInv, Typed
    <3>5. p \in makers'[l] /\ \A k \in Level : makers[k] \subseteq makers'[k]
      BY <1>0, <1>3 DEF PublishInv, Typed
    <3>. QED
      BY <3>1, <3>2, <3>3, <3>4, <3>5 DEF PublishInv, Fits, NewFits
  <2>11. OwnerFits(p)'
    <3>1. \A k \in Level : owner'[k] = p => k = l \/ owner[k] = p
      BY <1>3 DEF PublishInv, Typed
    <3>2. job[p].exit = "none"
      BY <1>0 DEF PublishInv, Fits, ExitFits, At, Forward
    <3>3. \A k \in Level : owner[k] = p => k \in ToSet(job[p].made)
      BY <1>0 DEF PublishInv, Fits, OwnerFits, At, Forward
    <3>. QED
      BY <2>2, <3>1, <3>2, <3>3 DEF OwnerFits, At
  <2>. QED
    BY <2>3, <2>4, <2>5, <2>6, <2>7, <2>8, <2>9, <2>10, <2>11 DEF PublishInv, Fits
<1>. QED
  BY <1>1, <1>2, <1>3 DEF MakeDir

\* A step of p that changes its temporary file, or makes its file, and moves on.
LEMMA FilesMove ==
    ASSUME PublishInv, NEW p \in Publisher, Moves(p),
           UNCHANGED <<dir, last, owner, makers, user, spared>>,
           temp' \in [Publisher -> Nat], \A q \in Publisher \ {p} : temp'[q] = temp[q],
           file' \in [Level -> Maker], \A l \in Level : dir[l] = 0 => file'[l] = Nobody,
           \A l \in Level, q \in Publisher \ {p} : file'[l] = q <=> file[l] = q,
           Fits(p)'
    PROVE  PublishInv'
<1>1. Typed'
  BY DEF PublishInv, Typed, Moves
<1>2. TreeFits'
  BY DEF PublishInv, TreeFits
<1>3. ASSUME NEW q \in Publisher \ {p} PROVE Fits(q)'
  <2>1. SameStage(q)
    BY DEF Moves, SameStage
  <2>. QED
    BY <2>1, OthersFit DEF PublishInv
<1>. QED
  BY <1>1, <1>2, <1>3 DEF PublishInv

\* The parts of a call's share that its files have no part in.
LEMMA StageFits ==
    ASSUME PublishInv, NEW p \in Publisher, Moves(p), UNCHANGED <<dir, owner, makers, spared>>,
           job[p].pc \in Forward \ {"record"}, job'[p].pc \in Forward \ (Making \cup {"resolve"}),
           job'[p].exit = job[p].exit, job'[p].made = job[p].made, job'[p].todo = job[p].todo
    PROVE  ExitFits(p)' /\ MadeFits(p)' /\ NewFits(p)' /\ OwnerFits(p)'
<1> USE DEF At
<1>1. ExitFits(p)'
  BY DEF PublishInv, Fits, ExitFits, Forward, Undoing
<1>2. MadeFits(p)'
  BY DEF PublishInv, Fits, MadeFits, Making
<1>3. NewFits(p)'
  BY DEF PublishInv, Fits, NewFits, Touched, Making
<1>4. OwnerFits(p)'
  <2>1. job[p].exit # "failed"
    BY DEF PublishInv, Fits, ExitFits
  <2>. QED
    BY <2>1 DEF PublishInv, Fits, OwnerFits, Making, Forward
<1>. QED
  BY <1>1, <1>2, <1>3, <1>4

\* After a Goto within the stages.
LEMMA GotoStage ==
    ASSUME PublishInv, NEW p \in Publisher, NEW to \in Forward, Goto(p, to)
    PROVE  /\ Moves(p) /\ job'[p].pc = to /\ job'[p].exit = job[p].exit /\ job'[p].held = job[p].held
           /\ job'[p].made = job[p].made /\ job'[p].todo = job[p].todo /\ job'[p].at = job[p].at
<1>1. job \in [Publisher -> Job] /\ job[p] \in Job
  BY DEF PublishInv, Typed
<1>. QED
  BY <1>1 DEF Goto, Moves, Job, Forward

\* The temporary file is made where the held directory still is.
LEMMA CreateTempKeeps ==
    ASSUME PublishInv, NEW p \in Publisher, CreateTemp(p)
    PROVE  PublishInv'
<1>0. At(p, "create") /\ UNCHANGED <<treeVars, user, spared>> /\ job[p] \in Job
  BY DEF CreateTemp, PublishInv, Typed
<1>1. CASE Fail(p) /\ UNCHANGED temp
  BY <1>0, <1>1, QuietFail DEF At
<1>2. CASE /\ dir[job[p].target] = job[p].held
           /\ Goto(p, "fill") /\ temp' = [temp EXCEPT ![p] = job[p].held]
  <2>1. /\ Moves(p) /\ job'[p].pc = "fill" /\ job'[p].exit = job[p].exit
        /\ job'[p].made = job[p].made /\ job'[p].todo = job[p].todo
    BY <1>2, GotoStage DEF Forward
  <2>2. ExitFits(p)' /\ MadeFits(p)' /\ NewFits(p)' /\ OwnerFits(p)'
    BY <1>0, <2>1, StageFits DEF Forward, Making, At, treeVars
  <2>3. /\ temp' \in [Publisher -> Nat] /\ temp'[p] = dir[job[p].target] /\ temp'[p] # 0
        /\ \A q \in Publisher \ {p} : temp'[q] = temp[q]
    BY <1>0, <1>2 DEF PublishInv, Typed, Job, Fits, TempFits, At
  <2>4. TempFits(p)'
    BY <1>0, <2>1, <2>3 DEF TempFits, Moves, Forward, Staged, At, treeVars
  <2>5. FileFits(p)'
    BY <1>0, <2>1 DEF PublishInv, Fits, FileFits, Moves, Linked, At, treeVars
  <2>6. Fits(p)'
    BY <2>2, <2>4, <2>5 DEF Fits
  <2>. QED
    BY <1>0, <2>1, <2>3, <2>6, FilesMove DEF treeVars, PublishInv, Typed, TreeFits
<1>. QED
  BY <1>1, <1>2 DEF CreateTemp

\* The link takes a free name only, in a directory that the temporary file keeps.
LEMMA LinkKeeps ==
    ASSUME PublishInv, NEW p \in Publisher, Link(p)
    PROVE  PublishInv'
<1> DEFINE t == job[p].target
<1>0. At(p, "link") /\ UNCHANGED <<dir, last, owner, makers, temp, user, spared>> /\ t \in Level
      /\ p # Nobody
  BY PublishAssumption DEF Link, PublishInv, Typed, Job
<1>1. CASE Fail(p) /\ UNCHANGED file
  BY <1>0, <1>1, QuietFail DEF At, treeVars
<1>2. CASE /\ file[t] = Nobody /\ file' = [file EXCEPT ![t] = p]
           /\ Goto(p, "placed") \/ Goto(p, "opened")
  <2>1. /\ Moves(p) /\ job'[p].pc \in {"placed", "opened"} /\ job'[p].exit = job[p].exit
        /\ job'[p].made = job[p].made /\ job'[p].todo = job[p].todo
    BY <1>2, GotoStage DEF Forward
  <2>2. ExitFits(p)' /\ MadeFits(p)' /\ NewFits(p)' /\ OwnerFits(p)'
    BY <1>0, <2>1, StageFits DEF Forward, Making, At
  <2>3. TempFits(p)'
    BY <1>0, <2>1 DEF PublishInv, Fits, TempFits, Moves, Forward, Staged, At
  <2>4. file' \in [Level -> Maker] /\ file'[t] = p /\ \A l \in Level \ {t} : file'[l] = file[l]
    BY <1>0, <1>2 DEF PublishInv, Typed, Maker
  <2>5. FileFits(p)'
    <3>1. \A l \in Level : file[l] # p
      BY <1>0 DEF PublishInv, Fits, FileFits, ExitFits, At, Linked, Forward
    <3>. QED
      BY <1>0, <2>1, <2>4, <3>1 DEF FileFits, Moves, Linked
  <2>6. Fits(p)'
    BY <2>2, <2>3, <2>5 DEF Fits
  <2>7. \A l \in Level : dir[l] = 0 => file'[l] = Nobody
    <3>1. temp[p] # 0 /\ temp[p] = dir[t]
      BY <1>0 DEF PublishInv, Fits, TempFits, At, Staged
    <3>. QED
      BY <2>4, <3>1 DEF PublishInv, TreeFits
  <2>8. \A l \in Level, q \in Publisher \ {p} : file'[l] = q <=> file[l] = q
    BY <1>2, <2>4, PublishAssumption
  <2>. QED
    BY <1>0, <2>1, <2>4, <2>6, <2>7, <2>8, FilesMove DEF PublishInv, Typed
<1>. QED
  BY <1>1, <1>2 DEF Link

\* The temporary file goes when the file is there.
LEMMA UnlinkTempKeeps ==
    ASSUME PublishInv, NEW p \in Publisher, UnlinkTemp(p)
    PROVE  PublishInv'
<1>0. At(p, "unlink") /\ UNCHANGED <<treeVars, user, spared>> /\ temp' = [temp EXCEPT ![p] = 0]
      /\ Goto(p, "commit")
  BY DEF UnlinkTemp
<1>1. /\ Moves(p) /\ job'[p].pc = "commit" /\ job'[p].exit = job[p].exit
      /\ job'[p].made = job[p].made /\ job'[p].todo = job[p].todo
  BY <1>0, GotoStage DEF Forward
<1>2. ExitFits(p)' /\ MadeFits(p)' /\ NewFits(p)' /\ OwnerFits(p)'
  BY <1>0, <1>1, StageFits DEF Forward, Making, At, treeVars
<1>3. /\ temp' \in [Publisher -> Nat] /\ temp'[p] = 0
      /\ \A q \in Publisher \ {p} : temp'[q] = temp[q]
  BY <1>0 DEF PublishInv, Typed
<1>4. TempFits(p)'
  BY <1>1, <1>3 DEF TempFits, Staged, At
<1>5. FileFits(p)'
  BY <1>0, <1>1 DEF PublishInv, Fits, FileFits, Moves, Linked, At, treeVars
<1>6. Fits(p)'
  BY <1>2, <1>4, <1>5 DEF Fits
<1>. QED
  BY <1>0, <1>1, <1>3, <1>6, FilesMove DEF treeVars, PublishInv, Typed, TreeFits

\* A call that is over leaves its directories alone: Commit and Kill.
LEMMA EndKeeps ==
    ASSUME PublishInv, NEW p \in Publisher, Moves(p), UNCHANGED <<treeVars, temp, user, spared>>,
           job'[p].pc = "ended", job'[p].made = <<>>, job'[p].todo = <<>>,
           \/ At(p, "commit") /\ job'[p].exit = "ok"
           \/ job'[p].exit = "killed"
    PROVE  PublishInv'
<1> USE DEF At, treeVars
<1>1. TempFits(p)'
  BY DEF PublishInv, Fits, TempFits, Moves, Forward, Staged
<1>2. FileFits(p)'
  BY DEF PublishInv, Fits, FileFits, Moves, Linked
<1>3. ExitFits(p)'
  BY DEF ExitFits, Forward, Undoing
<1>4. MadeFits(p)'
  BY DEF MadeFits, Rising, Falling, Making
<1>5. NewFits(p)'
  BY DEF NewFits, Touched, ToSet
<1>6. OwnerFits(p)'
  BY DEF OwnerFits, Forward
<1>. QED
  BY <1>1, <1>2, <1>3, <1>4, <1>5, <1>6, QuietMove DEF Fits

\* The end of a publish that made its file.
LEMMA CommitKeeps ==
    ASSUME PublishInv, NEW p \in Publisher, Commit(p)
    PROVE  PublishInv'
<1>1. /\ job' = [job EXCEPT ![p].pc = "ended", ![p].exit = "ok", ![p].made = <<>>]
      /\ At(p, "commit") /\ UNCHANGED <<treeVars, temp, user, spared>>
      /\ job \in [Publisher -> Job] /\ job[p] \in Job /\ <<>> \in Seq(Level)
  BY DEF Commit, PublishInv, Typed
<1>2. Moves(p)
  BY <1>1 DEF Moves, Job
<1>3. /\ job'[p].pc = "ended" /\ job'[p].exit = "ok" /\ job'[p].made = <<>>
      /\ job'[p].todo = job[p].todo
  BY <1>1 DEF Job
<1>4. job[p].todo = <<>>
  BY <1>1 DEF PublishInv, Fits, ExitFits, At, Forward
<1>. QED
  BY <1>1, <1>2, <1>3, <1>4, EndKeeps

(***************************************************************************)
(* The ends and the rollback                                               *)
(***************************************************************************)

\* A call that is killed.
LEMMA KillKeeps ==
    ASSUME PublishInv, NEW p \in Publisher, Kill(p)
    PROVE  PublishInv'
<1>1. /\ job' = [job EXCEPT ![p].pc = "ended", ![p].exit = "killed", ![p].signals = @ + 1,
                            ![p].held = 0, ![p].at = 0, ![p].made = <<>>, ![p].todo = <<>>]
      /\ job[p].signals < MaxSignals /\ UNCHANGED <<treeVars, temp, user, spared>>
      /\ job \in [Publisher -> Job] /\ job[p] \in Job /\ <<>> \in Seq(Level)
  BY DEF Kill, PublishInv, Typed
<1>2. job[p].signals + 1 \in 0..MaxSignals /\ 0 \in 0..Depth + 1 /\ 0 \in Nat
  BY <1>1, PublishAssumption DEF Job
<1>3. Moves(p)
  BY <1>1, <1>2, ZenonT(40) DEF Moves, Job
<1>4. /\ job'[p].pc = "ended" /\ job'[p].exit = "killed" /\ job'[p].made = <<>>
      /\ job'[p].todo = <<>>
  BY <1>1 DEF Job
<1>. QED
  BY <1>1, <1>3, <1>4, EndKeeps

\* A signal is a rollback too.
LEMMA SignalKeeps ==
    ASSUME PublishInv, NEW p \in Publisher, Signal(p)
    PROVE  PublishInv'
<1> DEFINE to == IF job[p].pc \in Making THEN "undo" ELSE "sweep"
<1>1. /\ job' = [job EXCEPT ![p].exit = "signal", ![p].signals = @ + 1, ![p].held = 0,
                            ![p].at = 0, ![p].pc = to, ![p].todo = Reverse(job[p].made)]
      /\ job[p].signals < MaxSignals /\ job[p].pc # "ended"
      /\ UNCHANGED <<dir, last, owner, makers, temp, user, spared>> /\ file' = FileUndone(p)
      /\ job \in [Publisher -> Job] /\ job[p] \in Job
      /\ job[p].made \in Seq(Level) /\ Rising(job[p].made)
  BY DEF Signal, Making, PublishInv, Typed, Job, Fits, MadeFits
<1>2. job[p].signals + 1 \in 0..MaxSignals /\ 0 \in 0..Depth + 1 /\ 0 \in Nat
  BY <1>1, PublishAssumption DEF Job
<1>3. Reverse(job[p].made) \in Seq(Level)
  BY <1>1, ReverseFalls
<1>4. /\ job'[p].pc = to /\ job'[p].exit = "signal" /\ job'[p].made = job[p].made
      /\ job'[p].todo = Reverse(job[p].made)
  BY <1>1 DEF Job
<1>5. to \in {"undo", "sweep"}
  OBVIOUS
<1>6. Moves(p)
  <2> HIDE DEF to
  <2>. QED
    BY <1>1, <1>2, <1>3, <1>5 DEF Moves, Job
<1>7. /\ job'[p].pc \in {"undo", "sweep"} /\ job'[p].exit = "signal"
      /\ job'[p].pc = "undo" => job[p].pc \in Making
      /\ job'[p].exit # "failed"
  BY <1>4
<1> HIDE DEF to
<1>. QED
  BY <1>1, <1>4, <1>6, <1>7, RollsBack

\* A system call that fails.
LEMMA IoErrorKeeps ==
    ASSUME PublishInv, NEW p \in Publisher, IoError(p)
    PROVE  PublishInv'
  BY FailKeeps DEF IoError

\* cleanup removes the temporary file.
LEMMA SweepKeeps ==
    ASSUME PublishInv, NEW p \in Publisher, Sweep(p)
    PROVE  PublishInv'
<1> USE DEF At, treeVars
<1>1. /\ job' = [job EXCEPT ![p].pc = "cleanup"] /\ At(p, "sweep")
      /\ temp' = [temp EXCEPT ![p] = 0] /\ UNCHANGED <<treeVars, user, spared>>
      /\ job \in [Publisher -> Job] /\ job[p] \in Job
  BY DEF Sweep, Goto, PublishInv, Typed
<1>2. Moves(p)
  BY <1>1 DEF Moves, Job
<1>3. /\ job'[p].pc = "cleanup" /\ job'[p].exit = job[p].exit /\ job'[p].made = job[p].made
      /\ job'[p].todo = job[p].todo
  BY <1>1 DEF Job
<1>4. /\ temp' \in [Publisher -> Nat] /\ temp'[p] = 0
      /\ \A q \in Publisher \ {p} : temp'[q] = temp[q]
  BY <1>1 DEF PublishInv, Typed
<1>5. TempFits(p)'
  BY <1>3, <1>4 DEF TempFits, Staged
<1>6. FileFits(p)'
  BY <1>1, <1>2, <1>3 DEF PublishInv, Fits, FileFits, Moves, Linked
<1>7. ExitFits(p)'
  BY <1>1, <1>3 DEF PublishInv, Fits, ExitFits, Forward, Undoing
<1>8. MadeFits(p)'
  BY <1>3 DEF PublishInv, Fits, MadeFits, Making
<1>9. NewFits(p)'
  BY <1>1, <1>3 DEF PublishInv, Fits, NewFits, Touched
<1>10. OwnerFits(p)'
  BY <1>1, <1>3 DEF PublishInv, Fits, OwnerFits, Forward
<1>11. Fits(p)'
  BY <1>5, <1>6, <1>7, <1>8, <1>9, <1>10 DEF Fits
<1>. QED
  BY <1>1, <1>2, <1>4, <1>11, FilesMove DEF PublishInv, Typed, TreeFits

\* The end of either round of the rollback.
LEMMA UndoneKeeps ==
    ASSUME PublishInv, NEW p \in Publisher, Undone(p)
    PROVE  PublishInv'
<1> USE DEF At, treeVars
<1>0. /\ job \in [Publisher -> Job] /\ job[p] \in Job /\ job[p].todo = <<>>
      /\ job[p].made \in Seq(Level) /\ UNCHANGED <<treeVars, temp, user, spared>>
      /\ <<>> \in Seq(Level) /\ Rising(job[p].made)
  BY DEF Undone, PublishInv, Typed, Job, Fits, MadeFits
<1>1. CASE /\ At(p, "undo")
           /\ job' = [job EXCEPT ![p].pc = "sweep", ![p].todo = Reverse(job[p].made)]
  <2>0. /\ Reverse(job[p].made) \in Seq(Level) /\ Falling(Reverse(job[p].made))
        /\ ToSet(Reverse(job[p].made)) = ToSet(job[p].made)
    BY <1>0, ReverseFalls
  <2>1. Moves(p)
    BY <1>0, <1>1, <2>0 DEF Moves, Job
  <2>2. /\ job'[p].pc = "sweep" /\ job'[p].exit = job[p].exit /\ job'[p].made = job[p].made
        /\ job'[p].todo = Reverse(job[p].made)
    BY <1>0, <1>1 DEF Job
  <2>3. TempFits(p)'
    BY <1>0, <1>1, <2>1, <2>2 DEF PublishInv, Fits, TempFits, Moves, Staged, Forward
  <2>4. FileFits(p)'
    BY <1>0, <1>1, <2>1, <2>2 DEF PublishInv, Fits, FileFits, Moves, Linked
  <2>5. ExitFits(p)'
    BY <1>1, <2>2 DEF PublishInv, Fits, ExitFits, Forward, Undoing
  <2>6. MadeFits(p)'
    BY <2>0, <2>2 DEF PublishInv, Fits, MadeFits, Making
  <2>7. NewFits(p)'
    BY <1>0, <2>0, <2>2 DEF PublishInv, Fits, NewFits, Touched
  <2>8. OwnerFits(p)'
    <3>1. ToSet(job[p].todo) = {}
      BY <1>0 DEF ToSet
    <3>. QED
      BY <1>0, <2>2, <3>1 DEF PublishInv, Fits, OwnerFits, Forward
  <2>. QED
    BY <1>0, <2>1, <2>3, <2>4, <2>5, <2>6, <2>7, <2>8, QuietMove DEF Fits
<1>2. CASE At(p, "cleanup") /\ job' = [job EXCEPT ![p].pc = "ended", ![p].made = <<>>]
  <2>1. Moves(p)
    BY <1>0, <1>2 DEF Moves, Job
  <2>2. /\ job'[p].pc = "ended" /\ job'[p].exit = job[p].exit /\ job'[p].made = <<>>
        /\ job'[p].todo = <<>>
    BY <1>0, <1>2 DEF Job
  <2>3. TempFits(p)'
    BY <1>0, <1>2, <2>1, <2>2 DEF PublishInv, Fits, TempFits, Moves, Staged, Forward
  <2>4. FileFits(p)'
    BY <1>0, <1>2, <2>1, <2>2 DEF PublishInv, Fits, FileFits, Moves, Linked
  <2>5. ExitFits(p)'
    BY <1>2, <2>2 DEF PublishInv, Fits, ExitFits, Forward, Undoing
  <2>6. MadeFits(p)'
    BY <2>2 DEF MadeFits, Making, Rising, Falling
  <2>7. NewFits(p)'
    BY <2>2 DEF NewFits, Touched, ToSet
  <2>8. OwnerFits(p)'
    BY <1>0, <2>2 DEF PublishInv, Fits, OwnerFits, Forward
  <2>. QED
    BY <1>0, <2>1, <2>3, <2>4, <2>5, <2>6, <2>7, <2>8, QuietMove DEF Fits
<1>. QED
  BY <1>1, <1>2 DEF Undone

\* The head of a falling list of levels is its largest, and the tail has the others.
LEMMA TailFalls ==
    ASSUME NEW s \in Seq(Level), s # <<>>, Falling(s)
    PROVE  /\ Head(s) \in Level /\ Tail(s) \in Seq(Level) /\ Falling(Tail(s))
           /\ ToSet(s) = {Head(s)} \cup ToSet(Tail(s)) /\ \A l \in ToSet(s) : l <= Head(s)
<1>1. /\ Len(s) \in Nat /\ Len(s) # 0 /\ DOMAIN s = 1..Len(s) /\ \A i \in 1..Len(s) : s[i] \in Level
      /\ Head(s) = s[1] /\ Tail(s) \in Seq(Level) /\ Len(Tail(s)) = Len(s) - 1
      /\ \A i \in 1..Len(s) - 1 : Tail(s)[i] = s[i + 1]
  OBVIOUS
<1>2. DOMAIN Tail(s) = 1..Len(s) - 1
  BY <1>1
<1>3. \A i \in 1..Len(s) - 1 : i + 1 \in 1..Len(s)
  BY <1>1
<1>4. Falling(Tail(s))
  <2>1. ASSUME NEW i \in 1..Len(s) - 1, NEW j \in 1..Len(s) - 1, i < j
        PROVE  Tail(s)[j] < Tail(s)[i]
    <3>1. i + 1 < j + 1
      BY <2>1
    <3>. QED
      BY <1>1, <1>3, <3>1 DEF Falling
  <2>. QED
    BY <1>2, <2>1 DEF Falling
<1>5. ToSet(s) = {Head(s)} \cup ToSet(Tail(s))
  <2>1. \A i \in 1..Len(s) : i = 1 \/ (i - 1 \in 1..Len(s) - 1 /\ Tail(s)[i - 1] = s[i])
    BY <1>1
  <2>2. 1 \in 1..Len(s)
    BY <1>1
  <2>3. ToSet(s) \subseteq {Head(s)} \cup ToSet(Tail(s))
    <3>1. ASSUME NEW i \in 1..Len(s) PROVE s[i] \in {Head(s)} \cup ToSet(Tail(s))
      <4>1. CASE i = 1
        BY <1>1, <4>1
      <4>2. CASE i - 1 \in 1..Len(s) - 1 /\ Tail(s)[i - 1] = s[i]
        BY <1>2, <4>2 DEF ToSet
      <4>. QED
        BY <2>1, <4>1, <4>2
    <3>. QED
      BY <1>1, <3>1 DEF ToSet
  <2>4. {Head(s)} \cup ToSet(Tail(s)) \subseteq ToSet(s)
    BY <1>1, <1>2, <1>3, <2>2 DEF ToSet
  <2>. QED
    BY <2>3, <2>4
<1>6. ASSUME NEW i \in 1..Len(s) PROVE s[i] <= Head(s)
  <2>1. i = 1 \/ s[i] < s[1]
    BY <1>1 DEF Falling
  <2>. QED
    BY <1>1, <2>1 DEF Level
<1>7. \A l \in ToSet(s) : l <= Head(s)
  BY <1>1, <1>6 DEF ToSet
<1>. QED
  BY <1>1, <1>4, <1>5, <1>7

\* rmdir: a directory that stays is in use, or lies above one that is.
LEMMA RemoveDirKeeps ==
    ASSUME PublishInv, NEW p \in Publisher, RemoveDir(p)
    PROVE  PublishInv'
<1> USE DEF At
<1> DEFINE todo == job[p].todo
           l == Head(todo)
           gone == dir[l] # 0 /\ Empty(l)
<1>0. /\ job \in [Publisher -> Job] /\ job[p] \in Job /\ todo \in Seq(Level) /\ todo # <<>>
      /\ job[p].pc \in {"undo", "cleanup"} /\ UNCHANGED <<temp, user>> /\ Falling(todo)
  BY DEF RemoveDir, PublishInv, Typed, Job, Fits, MadeFits
<1>1. /\ l \in Level /\ Tail(todo) \in Seq(Level) /\ Falling(Tail(todo))
      /\ ToSet(todo) = {l} \cup ToSet(Tail(todo)) /\ \A k \in ToSet(todo) : k <= l
  BY <1>0, TailFalls
<1>2. job' = [job EXCEPT ![p].todo = Tail(todo)]
  BY DEF RemoveDir
<1>3. Moves(p)
  BY <1>0, <1>1, <1>2 DEF Moves, Job
<1>4. /\ job'[p].pc = job[p].pc /\ job'[p].exit = job[p].exit /\ job'[p].made = job[p].made
      /\ job'[p].todo = Tail(todo) /\ job'[p].target = job[p].target
  BY <1>0, <1>2 DEF Job
<1>5. /\ gone => /\ dir' = [dir EXCEPT ![l] = 0] /\ owner' = [owner EXCEPT ![l] = Nobody]
                 /\ UNCHANGED <<last, file, makers, spared>>
      /\ ~gone => /\ spared' = [spared EXCEPT ![p] = IF Foreign(l, p) THEN @ \cup {l} ELSE @]
                  /\ UNCHANGED treeVars
  BY DEF RemoveDir
<1>6. /\ dir' \in [Level -> Nat] /\ owner' \in [Level -> Maker] /\ last' = last /\ file' = file
      /\ makers' = makers
      /\ spared' \in [Publisher -> SUBSET Level] /\ spared[p] \subseteq spared'[p]
      /\ \A q \in Publisher \ {p} : spared'[q] = spared[q]
      /\ \A k \in Level : dir'[k] = dir[k] \/ (k = l /\ gone /\ dir'[k] = 0)
      /\ \A k \in Level : owner'[k] = owner[k] \/ (k = l /\ gone /\ owner'[k] = Nobody)
  <2>1. CASE gone
    <3>1. dir \in [Level -> Nat] /\ owner \in [Level -> Maker] /\ Nobody \in Maker
          /\ spared \in [Publisher -> SUBSET Level]
      BY DEF PublishInv, Typed, Maker
    <3>2. /\ dir' = [dir EXCEPT ![l] = 0] /\ owner' = [owner EXCEPT ![l] = Nobody]
          /\ last' = last /\ file' = file /\ makers' = makers /\ spared' = spared
      BY <1>5, <2>1
    <3> HIDE DEF l, gone
    <3>. QED
      BY <1>1, <2>1, <3>1, <3>2
  <2>2. CASE ~gone
    <3>1. dir \in [Level -> Nat] /\ owner \in [Level -> Maker]
          /\ spared \in [Publisher -> SUBSET Level]
      BY DEF PublishInv, Typed
    <3>2. /\ dir' = dir /\ owner' = owner /\ last' = last /\ file' = file /\ makers' = makers
          /\ spared' = [spared EXCEPT ![p] = IF Foreign(l, p) THEN @ \cup {l} ELSE @]
      BY <1>5, <2>2 DEF treeVars
    <3> HIDE DEF l, gone
    <3>3. spared' \in [Publisher -> SUBSET Level] /\ spared[p] \subseteq spared'[p]
      BY <1>1, <3>1, <3>2
    <3>. QED
      BY <3>1, <3>2, <3>3
  <2>. QED
    BY <2>1, <2>2
<1>7. gone => owner'[l] = Nobody /\ dir'[l] = 0
  BY <1>1, <1>5 DEF PublishInv, Typed
<1>8. \A q \in Publisher : q # Nobody
  BY PublishAssumption
<1> HIDE DEF l, gone, todo
<1>9. Typed'
  BY <1>0, <1>3, <1>6 DEF PublishInv, Typed, Moves
<1>10. TreeFits'
  <2>1. \A k \in Level : dir'[k] <= last' /\ (dir'[k] = 0 => owner'[k] = Nobody /\ file'[k] = Nobody)
    BY <1>6, <1>7 DEF PublishInv, Typed, TreeFits, gone, Empty
  <2>2. ASSUME NEW k \in Level, dir'[k] = 0, k < Depth PROVE dir'[k + 1] = 0
    <3>1. k + 1 \in Level
      BY <2>2, PublishAssumption DEF Level
    <3>2. dir[k + 1] = 0
      BY <1>6, <2>2 DEF PublishInv, TreeFits, gone, Empty
    <3>. QED
      BY <1>6, <3>1, <3>2
  <2>. QED
    BY <2>1, <2>2 DEF TreeFits
<1>11. ASSUME NEW q \in Publisher \ {p} PROVE Fits(q)'
  <2>1. SameStage(q)
    BY <1>3 DEF Moves, SameStage
  <2>2. temp[q] # 0 => dir'[job[q].target] = dir[job[q].target]
    <3>1. job[q].target \in Level
      BY <1>0 DEF Job
    <3>2. temp[q] # 0 => temp[q] = dir[job[q].target]
      BY DEF PublishInv, Fits, TempFits
    <3>. QED
      BY <1>6, <3>1, <3>2 DEF gone, Empty, TempsIn
  <2>3. \A k \in Level : dir'[k] = dir[k] \/ dir'[k] \notin 1..Depth + 1
    BY <1>6
  <2>4. \A k \in Level : owner'[k] = q => owner[k] = q
    BY <1>6, <1>8
  <2>. QED
    BY <1>0, <1>6, <2>1, <2>2, <2>3, <2>4, OthersFit DEF PublishInv
<1>12. TempFits(p)'
  BY <1>0, <1>4 DEF PublishInv, Fits, TempFits, Forward, Staged
<1>13. FileFits(p)'
  BY <1>0, <1>4, <1>6 DEF PublishInv, Fits, FileFits, Linked
<1>14. ExitFits(p)'
  BY <1>0, <1>4 DEF PublishInv, Fits, ExitFits, Forward, Undoing
<1>15. MadeFits(p)'
  BY <1>0, <1>1, <1>4 DEF PublishInv, Fits, MadeFits, Making
<1>16. NewFits(p)'
  <2>1. Touched(p)' \subseteq Touched(p)
    <3>1. ToSet(job'[p].todo) \subseteq ToSet(job[p].todo)
      BY <1>1, <1>4 DEF todo
    <3>. QED
      BY <1>0, <1>4, <3>1 DEF Touched
  <2>2. Touched(p) \subseteq Level
    <3>1. job[p].made \in Seq(Level)
      BY <1>0 DEF Job
    <3>. QED
      BY <1>0, <3>1 DEF Touched, ToSet, todo
  <2>. QED
    BY <1>6, <2>1, <2>2 DEF PublishInv, Fits, NewFits
<1>17. OwnerFits(p)'
  <2> SUFFICES ASSUME NEW k \in Level, owner'[k] = p, job[p].exit = "failed"
               PROVE  k \in ToSet(Tail(todo)) \/ \E n \in spared'[p] : k <= n
    BY <1>0, <1>4 DEF OwnerFits, Forward
  <2>1. owner[k] = p /\ (k = l => ~gone)
    BY <1>6, <1>7, <1>8
  <2>2. k \in ToSet(todo) \/ \E n \in spared[p] : k <= n
    BY <2>1 DEF PublishInv, Fits, OwnerFits, todo
  <2>3. CASE k # l
    BY <1>1, <1>6, <2>2, <2>3
  <2>4. CASE k = l
    <3>1. dir[l] # 0 /\ ~Empty(l)
      BY <1>1, <1>8, <2>1, <2>4 DEF PublishInv, TreeFits, gone
    <3>2. CASE Foreign(l, p)
      <4>1. l \in spared'[p]
        BY <1>5, <2>1, <2>4, <3>2 DEF PublishInv, Typed
      <4>. QED
        BY <1>1, <2>4, <4>1 DEF Level
    <3>3. CASE ~Foreign(l, p)
      <4>0. l \in 1..Depth /\ Depth \in Nat /\ l \in l..Depth
        BY <1>1, PublishAssumption DEF Level
      <4>1. file[l] \in {Nobody, p} /\ TempsIn(l) \ {p} = {}
        BY <3>1, <3>3, <4>0 DEF Foreign
      <4>2. file[l] # p
        BY <1>0, <1>1 DEF PublishInv, Fits, FileFits, Linked
      <4>3. p \notin TempsIn(l)
        BY <1>0 DEF PublishInv, Fits, TempFits, TempsIn
      <4>4. l < Depth /\ dir[l + 1] # 0
        BY <3>1, <4>1, <4>2, <4>3 DEF Empty
      <4>5. l + 1 \in l..Depth /\ l + 1 > l /\ l + 1 \in Level
        BY <4>0, <4>4 DEF Level
      <4>6. owner[l + 1] = p
        BY <3>3, <4>4, <4>5 DEF Foreign
      <4>7. l + 1 \notin ToSet(todo)
        BY <1>1, <4>0
      <4>8. PICK n \in spared[p] : l + 1 <= n
        BY <4>5, <4>6, <4>7 DEF PublishInv, Fits, OwnerFits, todo
      <4>9. n \in Nat
        BY <4>8 DEF PublishInv, Typed, Level
      <4>10. l <= n
        BY <4>0, <4>8, <4>9
      <4>. QED
        BY <1>6, <2>4, <4>8, <4>10
    <3>. QED
      BY <3>2, <3>3
  <2>. QED
    BY <2>3, <2>4
<1>. QED
  BY <1>9, <1>10, <1>11, <1>12, <1>13, <1>14, <1>15, <1>16, <1>17 DEF PublishInv, Fits

(***************************************************************************)
(* The user, and the beginning                                             *)
(***************************************************************************)

\* The user makes a directory.
LEMMA UserMakesDirKeeps ==
    ASSUME PublishInv, NEW l \in Level, UserMakesDir(l)
    PROVE  PublishInv'
<1>0. /\ dir[l] = 0 /\ Dir(l - 1) # 0 /\ last' = last + 1 /\ dir' = [dir EXCEPT ![l] = last + 1]
      /\ owner' = [owner EXCEPT ![l] = User] /\ UNCHANGED <<file, makers, temp, job, spared>>
      /\ user < MaxUser /\ user' = user + 1
  BY DEF UserMakesDir
<1>1. /\ last \in Nat /\ Depth + 1 <= last /\ Depth \in Nat /\ l \in 1..Depth /\ MaxUser \in Nat
      /\ \A k \in Level : dir[k] \in Nat /\ dir[k] <= last
  BY PublishAssumption DEF PublishInv, Typed, TreeFits, Level
<1>2. Typed'
  <2>1. user' \in 0..MaxUser
    BY <1>0, <1>1 DEF PublishInv, Typed
  <2>. QED
    BY <1>0, <1>1, <2>1 DEF PublishInv, Typed, Maker
<1>3. TreeFits'
  <2>1. ASSUME NEW k \in Level, dir'[k] = 0, k < Depth PROVE dir'[k + 1] = 0
    <3>1. k # l /\ dir[k] = 0 /\ k + 1 \in Level
      BY <1>0, <1>1, <2>1 DEF PublishInv, Typed, Level
    <3>2. ASSUME k + 1 = l PROVE FALSE
      <4>1. Dir(l - 1) = dir[k]
        BY <1>1, <3>2 DEF Dir, Level
      <4>. QED
        BY <1>0, <3>1, <4>1
    <3>. QED
      BY <1>0, <2>1, <3>1, <3>2 DEF PublishInv, Typed, TreeFits
  <2>2. ASSUME NEW k \in Level
        PROVE  dir'[k] <= last' /\ (dir'[k] = 0 => owner'[k] = Nobody /\ file'[k] = Nobody)
    BY <1>0, <1>1 DEF PublishInv, Typed, TreeFits
  <2>. QED
    BY <2>1, <2>2 DEF TreeFits
<1>4. ASSUME NEW q \in Publisher PROVE Fits(q)'
  <2>1. SameStage(q)
    BY <1>0 DEF SameStage
  <2>2. \A k \in Level : dir'[k] = dir[k] \/ dir'[k] \notin 1..Depth + 1
    BY <1>0, <1>1 DEF PublishInv, Typed
  <2>3. temp[q] # 0 => dir'[job[q].target] = dir[job[q].target]
    BY <1>0 DEF PublishInv, Typed, Fits, TempFits
  <2>4. \A k \in Level : owner'[k] = q => owner[k] = q
    BY <1>0, PublishAssumption DEF PublishInv, Typed
  <2>. QED
    BY <1>0, <2>1, <2>2, <2>3, <2>4, OthersFit DEF PublishInv
<1>. QED
  BY <1>2, <1>3, <1>4 DEF PublishInv

\* The user makes a file.
LEMMA UserMakesFileKeeps ==
    ASSUME PublishInv, NEW l \in Level, UserMakesFile(l)
    PROVE  PublishInv'
<1>0. /\ dir[l] # 0 /\ file[l] = Nobody /\ file' = [file EXCEPT ![l] = User]
      /\ UNCHANGED <<dir, last, owner, makers, temp, job, spared>>
      /\ user < MaxUser /\ user' = user + 1 /\ MaxUser \in Nat
  BY PublishAssumption DEF UserMakesFile
<1>1. user' \in 0..MaxUser
  BY <1>0 DEF PublishInv, Typed
<1>2. file' \in [Level -> Maker] /\ \A q \in Publisher, k \in Level : file'[k] = q <=> file[k] = q
  BY <1>0, PublishAssumption DEF PublishInv, Typed, Maker
<1>3. Typed'
  BY <1>0, <1>1, <1>2 DEF PublishInv, Typed
<1>4. TreeFits'
  BY <1>0 DEF PublishInv, Typed, TreeFits
<1>5. ASSUME NEW q \in Publisher PROVE Fits(q)'
  <2>1. SameStage(q)
    BY <1>0 DEF SameStage
  <2>. QED
    BY <1>0, <1>2, <2>1, OthersFit DEF PublishInv
<1>. QED
  BY <1>3, <1>4, <1>5 DEF PublishInv

\* A signal between the stages of the call around the publish only counts.
LEMMA CountKeeps ==
    ASSUME PublishInv, NEW p \in Publisher, job[p].signals < MaxSignals,
           job' = [job EXCEPT ![p].signals = @ + 1], UNCHANGED <<treeVars, temp, user, spared>>
    PROVE  PublishInv'
<1>0. job \in [Publisher -> Job] /\ job[p] \in Job
  BY DEF PublishInv, Typed
<1>1. job[p].signals + 1 \in 0..MaxSignals
  BY <1>0, PublishAssumption DEF Job
<1>2. Moves(p) /\ SameStage(p)
  BY <1>0, <1>1 DEF Moves, SameStage, Job
<1>3. Fits(p)'
  BY <1>2, OthersFit DEF PublishInv, treeVars
<1>. QED
  BY <1>2, <1>3, QuietMove

\* A step outside the publishes and the tree.
LEMMA NoPublishStep ==
    ASSUME PublishInv, UNCHANGED vars
    PROVE  PublishInv'
<1>1. UNCHANGED <<dir, last, file, owner, makers, temp, job, user, spared>>
  BY DEF vars, treeVars
<1>2. Typed' /\ TreeFits'
  BY <1>1 DEF PublishInv, Typed, TreeFits
<1>3. ASSUME NEW q \in Publisher PROVE Fits(q)'
  <2>1. SameStage(q)
    BY <1>1 DEF SameStage
  <2>. QED
    BY <1>1, <2>1, OthersFit DEF PublishInv
<1>. QED
  BY <1>2, <1>3 DEF PublishInv

\* At first nothing is made.
LEMMA PublishStarts == Init => PublishInv
<1> SUFFICES ASSUME Init PROVE PublishInv
  OBVIOUS
<1> USE DEF At
<1>0. Depth \in Nat /\ Depth # 0 /\ MaxUser \in Nat /\ MaxSignals \in Nat /\ Nobody \notin Publisher
      /\ User \notin Publisher
  BY PublishAssumption
<1>1. PICK n \in 0..Depth :
         /\ dir = [l \in Level |-> IF l <= n THEN 1 + l ELSE 0]
         /\ owner = [l \in Level |-> IF l <= n THEN User ELSE Nobody]
  BY DEF Init
<1>2. PICK t \in [Publisher -> Level] : job = [p \in Publisher |-> NewJob(t[p])]
  BY DEF Init
<1>3. /\ last = Depth + 1 /\ file = [l \in Level |-> Nobody] /\ temp = [p \in Publisher |-> 0]
      /\ makers = [l \in Level |-> {}] /\ user = 0 /\ spared = [p \in Publisher |-> {}]
  BY DEF Init
<1>4. \A p \in Publisher : NewJob(t[p]) \in Job
  <2>1. 0 \in 0..Depth + 1 /\ 0 \in 0..MaxSignals /\ <<>> \in Seq(Level)
    BY <1>0
  <2>. QED
    BY <2>1 DEF NewJob, Job
<1>5. Typed
  BY <1>0, <1>1, <1>2, <1>3, <1>4 DEF Typed, Maker, Level
<1>6. TreeFits
  BY <1>0, <1>1, <1>3 DEF TreeFits, Level
<1>7. ASSUME NEW p \in Publisher PROVE Fits(p)
  <2>1. /\ job[p].pc = "resolve" /\ job[p].exit = "none" /\ job[p].made = <<>> /\ job[p].todo = <<>>
        /\ temp[p] = 0 /\ \A l \in Level : file[l] # p /\ owner[l] # p
    BY <1>0, <1>1, <1>2, <1>3 DEF NewJob
  <2>2. TempFits(p) /\ FileFits(p) /\ ExitFits(p) /\ OwnerFits(p)
    BY <2>1 DEF TempFits, FileFits, ExitFits, OwnerFits, Staged, Linked, Forward, Undoing
  <2>3. MadeFits(p)
    BY <2>1 DEF MadeFits, Rising, Falling, Making
  <2>4. NewFits(p)
    BY <2>1 DEF NewFits, Touched, ToSet
  <2>. QED
    BY <2>2, <2>3, <2>4 DEF Fits
<1>. QED
  BY <1>5, <1>6, <1>7 DEF PublishInv

(***************************************************************************)
(* The call around the publish                                             *)
(***************************************************************************)

Early == {"check", "target", "roles", "mkwork", "keep", "ask", "judge", "judged"}

\* Before its publish a call has not touched the tree, and its exit status says
\* how the publish, if there was one, ended.
StatusFits(p) ==
    /\ run[p].pc \in Early \cup {"publish", "report", "rmtree", "over"}
    /\ run[p].pc \in Early => At(p, "resolve")
    /\ run[p].pc \in {"rmtree", "over"} <=> run[p].exit # "none"
    /\ run[p].pc \in {"publish", "report"} => run[p].outcome = "written"
    /\ Is(p, "report") => job[p].exit = "ok"
    /\ run[p].exit = "ok" => job[p].exit = "ok" /\ run[p].outcome = "written"
    /\ run[p].exit = "failed" => At(p, "resolve") \/ job[p].exit \in {"ok", "failed", "unchecked"}
    /\ run[p].exit = "declined" => At(p, "resolve") /\ run[p].outcome = "declined"

\* A work directory is known to its call, but for the moment after it is made.
WorkFits(p) ==
    work[p] => \/ run[p].exit \in {"signal", "killed"}
               \/ Is(p, "keep")
               \/ run[p].kept /\ run[p].pc \notin {"check", "target", "roles", "mkwork", "over"}

CallTyped ==
    /\ DOMAIN run = Publisher /\ DOMAIN work = Publisher
    /\ \A p \in Publisher : DOMAIN run[p] = DOMAIN NewRun /\ work[p] \in BOOLEAN

CallInv == CallTyped /\ \A p \in Publisher : StatusFits(p) /\ WorkFits(p)

IInv == PublishInv /\ CallInv

\* A step of one call leaves the others where they are.
LEMMA OneCall ==
    ASSUME CallInv, NEW p \in Publisher, DOMAIN run' = Publisher, DOMAIN work' = Publisher,
           \A q \in Publisher \ {p} : run'[q] = run[q] /\ work'[q] = work[q] /\ job'[q] = job[q],
           DOMAIN run'[p] = DOMAIN NewRun, work'[p] \in BOOLEAN,
           StatusFits(p)', WorkFits(p)'
    PROVE  CallInv'
<1>1. CallTyped'
  BY DEF CallInv, CallTyped
<1>2. ASSUME NEW q \in Publisher \ {p} PROVE StatusFits(q)' /\ WorkFits(q)'
  <2>1. StatusFits(q)'
    BY DEF CallInv, StatusFits, Is, At
  <2>2. WorkFits(q)'
    BY DEF CallInv, WorkFits, Is
  <2>. QED
    BY <2>1, <2>2
<1>. QED
  BY <1>1, <1>2 DEF CallInv

\* A call that leaves with a status that is true.
LEMMA LeaveKeeps ==
    ASSUME CallInv, NEW p \in Publisher, NEW exit \in {"ok", "failed", "declined", "signal"},
           Leave(p, exit), UNCHANGED work,
           DOMAIN job' = Publisher, \A q \in Publisher \ {p} : job'[q] = job[q],
           exit = "ok" => job'[p].exit = "ok" /\ run[p].outcome = "written",
           exit = "failed" => job'[p].pc = "resolve" \/ job'[p].exit \in {"ok", "failed", "unchecked"},
           exit = "declined" => job'[p].pc = "resolve" /\ run[p].outcome = "declined",
           run[p].pc \notin {"rmtree", "over"}, exit # "signal" => ~Is(p, "keep")
    PROVE  CallInv'
<1>1. DOMAIN run = Publisher /\ DOMAIN run[p] = DOMAIN NewRun /\ DOMAIN work = Publisher
      /\ work[p] \in BOOLEAN
  BY DEF CallInv, CallTyped
<1>2. run' = [run EXCEPT ![p].pc = "rmtree", ![p].exit = exit, ![p].answer = NoAnswer,
                         ![p].asked = 0]
  BY DEF Leave
<1>3. /\ DOMAIN run' = Publisher /\ DOMAIN run'[p] = DOMAIN NewRun
      /\ \A q \in Publisher \ {p} : run'[q] = run[q]
      /\ run'[p].pc = "rmtree" /\ run'[p].exit = exit /\ run'[p].outcome = run[p].outcome
      /\ run'[p].kept = run[p].kept
  BY <1>1, <1>2 DEF NewRun
<1>4. StatusFits(p)'
  BY <1>3 DEF StatusFits, Is, At, Early
<1>5. WorkFits(p)'
  <2>1. work[p] => exit = "signal" \/ run[p].kept
    BY DEF CallInv, WorkFits, StatusFits, Is
  <2>. QED
    BY <1>3, <2>1 DEF WorkFits, Is
<1>. QED
  BY <1>1, <1>3, <1>4, <1>5, OneCall

\* A call that takes its turn before the publish.
LEMMA TurnKeeps ==
    ASSUME CallInv, NEW p \in Publisher, UNCHANGED <<job, work>>,
           DOMAIN run' = Publisher, DOMAIN run'[p] = DOMAIN NewRun,
           \A q \in Publisher \ {p} : run'[q] = run[q],
           run[p].pc \in Early, run'[p].exit = run[p].exit,
           \/ run'[p].pc \in Early
           \/ run'[p].pc = "publish" /\ run'[p].outcome = "written",
           run'[p].kept = run[p].kept \/ run'[p].kept = TRUE,
           run[p].pc = "keep" => run'[p].kept = TRUE,
           run[p].pc \in {"keep", "ask", "judge", "judged"} =>
              run'[p].pc \in {"ask", "judge", "judged", "publish"}
    PROVE  CallInv'
<1>1. run[p].exit = "none" /\ At(p, "resolve")
  BY DEF CallInv, StatusFits, Early
<1>2. StatusFits(p)'
  BY <1>1 DEF StatusFits, Is, At, Early
<1>3. WorkFits(p)'
  BY <1>1 DEF CallInv, WorkFits, Is, Early
<1>. QED
  BY <1>2, <1>3, OneCall DEF CallInv, CallTyped

\* The stages before the publish.
LEMMA AroundKeeps ==
    ASSUME IInv, NEW p \in Publisher,
           \/ Validate(p) \/ CheckTarget(p) \/ RequireCandidates(p) \/ MakeWork(p) \/ KeepWork(p)
           \/ Delegate(p) \/ accept_response(p) \/ Finish(p)
    PROVE  IInv'
<1>0. /\ DOMAIN run = Publisher /\ DOMAIN run[p] = DOMAIN NewRun /\ DOMAIN work = Publisher
      /\ work[p] \in BOOLEAN /\ DOMAIN job = Publisher /\ CallInv
  BY DEF IInv, PublishInv, Typed, CallInv, CallTyped
<1>1. UNCHANGED vars /\ run[p].pc \in Early
  BY DEF Validate, CheckTarget, RequireCandidates, MakeWork, KeepWork, Delegate,
         accept_response, Finish, Is, Early
<1> SUFFICES CallInv'
  BY <1>1, NoPublishStep DEF IInv
<1>2. job' = job /\ At(p, "resolve") /\ run[p].exit = "none"
  BY <1>0, <1>1 DEF vars, CallInv, StatusFits, Early
<1>3. ASSUME Leave(p, "failed"), work' = work, run[p].pc # "keep" PROVE CallInv'
  BY <1>0, <1>1, <1>2, <1>3, LeaveKeeps DEF At, Early, Is
<1>4. ASSUME Leave(p, "declined"), work' = work, run[p].pc # "keep", run[p].outcome = "declined"
      PROVE  CallInv'
  BY <1>0, <1>1, <1>2, <1>4, LeaveKeeps DEF At, Early, Is
<1>5. ASSUME NEW to \in {"target", "roles", "mkwork"}, Turn(p, to), work' = work,
             run[p].pc \in {"check", "target", "roles", "mkwork"}
      PROVE  CallInv'
  <2>1. /\ DOMAIN run' = Publisher /\ DOMAIN run'[p] = DOMAIN NewRun /\ run'[p].pc = to
        /\ \A q \in Publisher \ {p} : run'[q] = run[q]
        /\ run'[p].exit = run[p].exit /\ run'[p].kept = run[p].kept
    BY <1>0, <1>5 DEF Turn, NewRun
  <2>. QED
    BY <1>0, <1>1, <1>2, <1>5, <2>1, TurnKeeps DEF Early
<1>6. ASSUME DOMAIN run' = Publisher, DOMAIN run'[p] = DOMAIN NewRun, work' = work,
             \A q \in Publisher \ {p} : run'[q] = run[q],
             run'[p].exit = run[p].exit, run'[p].kept = run[p].kept,
             run[p].pc \in {"ask", "judge", "judged"},
             \/ run'[p].pc \in {"ask", "judge", "judged"}
             \/ run'[p].pc = "publish" /\ run'[p].outcome = "written"
      PROVE  CallInv'
  BY <1>0, <1>1, <1>2, <1>6, TurnKeeps DEF Early
<1>7. CASE Validate(p)
  <2>1. run[p].pc = "check" /\ work' = work
    BY <1>7 DEF Validate, Is
  <2>2. Leave(p, "failed") \/ Turn(p, "target")
    BY <1>7 DEF Validate
  <2>. QED
    BY <1>3, <1>5, <2>1, <2>2
<1>8. CASE CheckTarget(p)
  <2>1. run[p].pc = "target" /\ work' = work
    BY <1>8 DEF CheckTarget, Is
  <2>2. Leave(p, "failed") \/ Turn(p, "roles")
    BY <1>8 DEF CheckTarget
  <2>. QED
    BY <1>3, <1>5, <2>1, <2>2
<1>9. CASE RequireCandidates(p)
  <2>1. run[p].pc = "roles" /\ work' = work
    BY <1>9 DEF RequireCandidates, Is
  <2>2. Leave(p, "failed") \/ Turn(p, "mkwork")
    BY <1>9 DEF RequireCandidates
  <2>. QED
    BY <1>3, <1>5, <2>1, <2>2
<1>10. CASE MakeWork(p)
  <2>0. run[p].pc = "mkwork"
    BY <1>10 DEF MakeWork, Is
  <2>1. CASE Leave(p, "failed") /\ UNCHANGED work
    BY <1>3, <2>0, <2>1
  <2>2. CASE Turn(p, "keep") /\ work' = [work EXCEPT ![p] = TRUE]
    <3>1. /\ DOMAIN run' = Publisher /\ DOMAIN run'[p] = DOMAIN NewRun /\ run'[p].pc = "keep"
          /\ \A q \in Publisher \ {p} : run'[q] = run[q]
          /\ run'[p].exit = run[p].exit
      BY <1>0, <2>2 DEF Turn, NewRun
    <3>2. /\ DOMAIN work' = Publisher /\ work'[p] \in BOOLEAN
          /\ \A q \in Publisher \ {p} : work'[q] = work[q]
      BY <1>0, <2>2
    <3>3. StatusFits(p)'
      BY <1>2, <3>1 DEF StatusFits, Is, At, Early
    <3>4. WorkFits(p)'
      BY <3>1 DEF WorkFits, Is
    <3>. QED
      BY <1>0, <1>2, <3>1, <3>2, <3>3, <3>4, OneCall
  <2>. QED
    BY <1>10, <2>1, <2>2 DEF MakeWork
<1>11. CASE KeepWork(p)
  <2>1. /\ DOMAIN run' = Publisher /\ DOMAIN run'[p] = DOMAIN NewRun /\ run'[p].pc = "ask"
        /\ \A q \in Publisher \ {p} : run'[q] = run[q]
        /\ run'[p].exit = run[p].exit /\ run'[p].kept = TRUE
        /\ work' = work
    BY <1>0, <1>11 DEF KeepWork, NewRun
  <2>. QED
    BY <1>0, <1>1, <1>2, <2>1, TurnKeeps DEF Early
<1>12. CASE Delegate(p)
  <2>0. run[p].pc = "ask" /\ work' = work
    BY <1>12 DEF Delegate, Is
  <2>1. ASSUME NEW a \in Answers,
               run' = [run EXCEPT ![p].pc = "judge", ![p].answer = a, ![p].asked = @ + 1]
        PROVE  CallInv'
    <3>1. /\ DOMAIN run' = Publisher /\ DOMAIN run'[p] = DOMAIN NewRun /\ run'[p].pc = "judge"
          /\ \A q \in Publisher \ {p} : run'[q] = run[q]
          /\ run'[p].exit = run[p].exit /\ run'[p].kept = run[p].kept
      BY <1>0, <2>1 DEF NewRun
    <3>. QED
      BY <1>6, <2>0, <3>1
  <2>2. \/ Leave(p, "failed")
        \/ \E a \in Answers :
              run' = [run EXCEPT ![p].pc = "judge", ![p].answer = a, ![p].asked = @ + 1]
    BY <1>12 DEF Delegate
  <2>. QED
    BY <1>3, <2>0, <2>1, <2>2
<1>13. CASE accept_response(p)
  <2>0. run[p].pc = "judge" /\ work' = work
    BY <1>13 DEF accept_response, Is
  <2>1. CASE run' = [run EXCEPT ![p].pc = "ask", ![p].answer = NoAnswer]
    <3>1. /\ DOMAIN run' = Publisher /\ DOMAIN run'[p] = DOMAIN NewRun /\ run'[p].pc = "ask"
          /\ \A q \in Publisher \ {p} : run'[q] = run[q]
          /\ run'[p].exit = run[p].exit /\ run'[p].kept = run[p].kept
      BY <1>0, <2>1 DEF NewRun
    <3>. QED
      BY <1>6, <2>0, <3>1
  <2>2. ASSUME NEW o, run' = [run EXCEPT ![p].pc = "judged", ![p].outcome = o]
        PROVE  CallInv'
    <3>1. /\ DOMAIN run' = Publisher /\ DOMAIN run'[p] = DOMAIN NewRun /\ run'[p].pc = "judged"
          /\ \A q \in Publisher \ {p} : run'[q] = run[q]
          /\ run'[p].exit = run[p].exit /\ run'[p].kept = run[p].kept
      BY <1>0, <2>2 DEF NewRun
    <3>. QED
      BY <1>6, <2>0, <3>1
  <2>3. \/ Leave(p, "failed")
        \/ run' = [run EXCEPT ![p].pc = "ask", ![p].answer = NoAnswer]
        \/ \E o : run' = [run EXCEPT ![p].pc = "judged", ![p].outcome = o]
    BY <1>13 DEF accept_response
  <2>. QED
    BY <1>3, <2>0, <2>1, <2>2, <2>3
<1>14. CASE Finish(p)
  <2>0. run[p].pc = "judged" /\ work' = work
    BY <1>14 DEF Finish, Is
  <2>1. CASE /\ run[p].outcome = "written"
             /\ run' = [run EXCEPT ![p].pc = "publish", ![p].answer = NoAnswer, ![p].asked = 0]
    <3>1. /\ DOMAIN run' = Publisher /\ DOMAIN run'[p] = DOMAIN NewRun /\ run'[p].pc = "publish"
          /\ \A q \in Publisher \ {p} : run'[q] = run[q]
          /\ run'[p].exit = run[p].exit /\ run'[p].kept = run[p].kept
          /\ run'[p].outcome = "written"
      BY <1>0, <2>1 DEF NewRun
    <3>. QED
      BY <1>6, <2>0, <3>1
  <2>2. CASE run[p].outcome = "declined" /\ Leave(p, "declined")
    BY <1>4, <2>0, <2>2
  <2>. QED
    BY <1>14, <2>1, <2>2 DEF Finish
<1>. QED
  BY <1>7, <1>8, <1>9, <1>10, <1>11, <1>12, <1>13, <1>14

\* A step of a publish is a step of its job only.
LEMMA OneJob ==
    ASSUME PublishInv, NEW p \in Publisher, Advance(p) \/ IoError(p) \/ Signal(p) \/ Kill(p)
    PROVE  \A q \in Publisher \ {p} : job'[q] = job[q]
<1>0. job \in [Publisher -> Job]
  BY DEF PublishInv, Typed
<1>1. ASSUME NEW pc, Goto(p, pc) PROVE \A q \in Publisher \ {p} : job'[q] = job[q]
  BY <1>0, <1>1 DEF Goto
<1>2. ASSUME Fail(p) PROVE \A q \in Publisher \ {p} : job'[q] = job[q]
  BY <1>0, <1>2 DEF Fail, RollBack
<1>3. ASSUME NEW l, NEW d, Held(p, l, d) PROVE \A q \in Publisher \ {p} : job'[q] = job[q]
  BY <1>0, <1>3 DEF Held
<1>4. CASE Resolve(p)
  BY <1>0, <1>4 DEF Resolve
<1>5. CASE OpenAncestor(p)
  BY <1>2, <1>3, <1>5 DEF OpenAncestor
<1>6. CASE MakeDir(p)
  BY <1>1, <1>2, <1>6 DEF MakeDir
<1>7. CASE Record(p)
  BY <1>0, <1>7 DEF Record
<1>8. CASE EnterDir(p)
  BY <1>2, <1>3, <1>8 DEF EnterDir
<1>9. CASE Stage(p)
  BY <1>0, <1>2, <1>9 DEF Stage
<1>10. CASE CreateTemp(p)
  BY <1>1, <1>2, <1>10 DEF CreateTemp
<1>11. CASE Fill(p)
  BY <1>0, <1>11 DEF Fill
<1>12. CASE Look(p)
  BY <1>1, <1>2, <1>12 DEF Look
<1>13. CASE Link(p)
  BY <1>1, <1>2, <1>13 DEF Link
<1>14. CASE StartCopy(p) \/ CheckFile(p) \/ UnlinkTemp(p) \/ Sweep(p)
  BY <1>0, <1>1, <1>14 DEF StartCopy, CheckFile, RollBack, UnlinkTemp, Sweep
<1>15. CASE Commit(p)
  BY <1>0, <1>15 DEF Commit
<1>16. CASE RemoveDir(p)
  BY <1>0, <1>16 DEF RemoveDir
<1>17. CASE Undone(p)
  BY <1>0, <1>17 DEF Undone
<1>18. CASE IoError(p)
  BY <1>2, <1>18 DEF IoError
<1>19. CASE Signal(p)
  BY <1>0, <1>19 DEF Signal
<1>20. CASE Kill(p)
  BY <1>0, <1>20 DEF Kill
<1>. QED
  BY <1>4, <1>5, <1>6, <1>7, <1>8, <1>9, <1>10, <1>11, <1>12, <1>13, <1>14, <1>15, <1>16,
     <1>17, <1>18, <1>19, <1>20 DEF Advance

\* A step of the publish leaves the call where it is.
LEMMA PublishStepKeeps ==
    ASSUME IInv, NEW p \in Publisher, PublishStep(p)
    PROVE  IInv'
<1>1. Is(p, "publish") /\ (Advance(p) \/ IoError(p) \/ Signal(p) \/ Kill(p)) /\ UNCHANGED <<run, work>>
  BY DEF PublishStep
<1>2. PublishInv'
  BY <1>1, ResolveKeeps, ReadingKeeps, MakeDirKeeps, RecordKeeps, CreateTempKeeps, LinkKeeps,
     StartCopyKeeps, CheckFileKeeps, UnlinkTempKeeps, CommitKeeps, SweepKeeps, RemoveDirKeeps, UndoneKeeps,
     IoErrorKeeps, SignalKeeps, KillKeeps DEF Advance, IInv
<1>3. StatusFits(p)' /\ WorkFits(p)'
  <2>1. run[p].exit = "none" /\ run[p].outcome = "written"
    BY <1>1 DEF IInv, CallInv, StatusFits, Is
  <2>2. StatusFits(p)'
    BY <1>1, <2>1 DEF StatusFits, Is, At, Early
  <2>3. WorkFits(p)'
    BY <1>1 DEF IInv, CallInv, WorkFits, Is
  <2>. QED
    BY <2>2, <2>3
<1>4. CallInv'
  BY <1>1, <1>3, OneJob, OneCall DEF IInv, CallInv, CallTyped
<1>. QED
  BY <1>2, <1>4 DEF IInv

\* The end of the publish and the stages after it.
LEMMA EndingKeeps ==
    ASSUME IInv, NEW p \in Publisher,
           Published(p) \/ Report(p) \/ RemoveWork(p) \/ Interrupt(p)
    PROVE  IInv'
<1>0. /\ DOMAIN run = Publisher /\ DOMAIN run[p] = DOMAIN NewRun /\ DOMAIN work = Publisher
      /\ work[p] \in BOOLEAN /\ job \in [Publisher -> Job] /\ job[p] \in Job /\ CallInv
  BY DEF IInv, PublishInv, Typed, CallInv, CallTyped
<1>1. PublishInv'
  <2>1. CASE Published(p) \/ Report(p) \/ RemoveWork(p)
    BY <2>1, NoPublishStep DEF Published, Report, RemoveWork, IInv
  <2>2. CASE Interrupt(p)
    <3>1. /\ job[p].signals < MaxSignals /\ job' = [job EXCEPT ![p].signals = @ + 1]
          /\ UNCHANGED <<treeVars, temp, user, spared>>
      BY <2>2 DEF Interrupt
    <3>. QED
      BY <3>1, CountKeeps DEF IInv
  <2>. QED
    BY <2>1, <2>2
<1> SUFFICES CallInv'
  BY <1>1 DEF IInv
<1>2. CASE Published(p)
  <2>0. /\ Is(p, "publish") /\ At(p, "ended") /\ job' = job /\ work' = work
        /\ job[p].exit \in {"ok", "failed", "unchecked", "signal", "killed"}
        /\ run[p].exit = "none" /\ run[p].outcome = "written"
    <3>1. Is(p, "publish") /\ At(p, "ended") /\ job' = job /\ work' = work
      BY <1>2 DEF Published, vars
    <3>2. job[p].exit \in {"ok", "failed", "unchecked", "signal", "killed"}
      BY <1>0, <3>1 DEF IInv, PublishInv, Fits, ExitFits, Job
    <3>. QED
      BY <3>1, <3>2 DEF IInv, CallInv, StatusFits, Is
  <2>1. /\ job[p].exit = "ok" => Turn(p, "report")
        /\ job[p].exit = "killed" =>
              run' = [run EXCEPT ![p].pc = "over", ![p].exit = "killed"]
        /\ job[p].exit = "signal" => Leave(p, "signal")
        /\ job[p].exit \in {"failed", "unchecked"} => Leave(p, "failed")
    BY <1>2 DEF Published
  <2>2. CASE job[p].exit = "ok"
    <3>1. /\ DOMAIN run' = Publisher /\ DOMAIN run'[p] = DOMAIN NewRun /\ run'[p].pc = "report"
          /\ \A q \in Publisher \ {p} : run'[q] = run[q]
          /\ run'[p].exit = run[p].exit /\ run'[p].kept = run[p].kept
          /\ run'[p].outcome = run[p].outcome
      BY <1>0, <2>1, <2>2 DEF Turn, NewRun
    <3>2. StatusFits(p)'
      BY <2>0, <2>2, <3>1 DEF StatusFits, Is, At, Early
    <3>3. WorkFits(p)'
      BY <1>0, <2>0, <3>1 DEF CallInv, WorkFits, Is
    <3>. QED
      BY <1>0, <2>0, <3>1, <3>2, <3>3, OneCall
  <2>3. CASE job[p].exit = "killed"
    <3>1. /\ DOMAIN run' = Publisher /\ DOMAIN run'[p] = DOMAIN NewRun /\ run'[p].pc = "over"
          /\ \A q \in Publisher \ {p} : run'[q] = run[q]
          /\ run'[p].exit = "killed"
      BY <1>0, <2>1, <2>3 DEF NewRun
    <3>2. StatusFits(p)'
      BY <2>0, <3>1 DEF StatusFits, Is, At, Early
    <3>3. WorkFits(p)'
      BY <3>1 DEF WorkFits, Is
    <3>. QED
      BY <1>0, <2>0, <3>1, <3>2, <3>3, OneCall
  <2>4. CASE job[p].exit \in {"failed", "unchecked", "signal"}
    BY <1>0, <2>0, <2>1, <2>4, LeaveKeeps DEF Is
  <2>. QED
    BY <2>0, <2>2, <2>3, <2>4
<1>3. CASE Report(p)
  <2>1. Is(p, "report") /\ (Leave(p, "ok") \/ Leave(p, "failed")) /\ job' = job /\ work' = work
    BY <1>3 DEF Report, vars
  <2>2. job[p].exit = "ok" /\ run[p].outcome = "written"
    BY <1>0, <2>1 DEF CallInv, StatusFits, Is
  <2>. QED
    BY <1>0, <2>1, <2>2, LeaveKeeps DEF Is
<1>4. CASE RemoveWork(p)
  <2>1. /\ Is(p, "rmtree") /\ job' = job /\ work' = [work EXCEPT ![p] = @ /\ ~run[p].kept]
        /\ Turn(p, "over")
    BY <1>4 DEF RemoveWork, vars
  <2>2. /\ DOMAIN run' = Publisher /\ DOMAIN run'[p] = DOMAIN NewRun /\ run'[p].pc = "over"
        /\ \A q \in Publisher \ {p} : run'[q] = run[q]
        /\ run'[p].exit = run[p].exit /\ run'[p].outcome = run[p].outcome
    BY <1>0, <2>1 DEF Turn, NewRun
  <2>3. /\ DOMAIN work' = Publisher /\ \A q \in Publisher \ {p} : work'[q] = work[q]
        /\ work'[p] \in BOOLEAN /\ (work'[p] => work[p] /\ ~run[p].kept)
    BY <1>0, <2>1
  <2>4. StatusFits(p)'
    BY <1>0, <2>1, <2>2 DEF CallInv, StatusFits, Is, At, Early
  <2>5. WorkFits(p)'
    BY <1>0, <2>1, <2>2, <2>3 DEF CallInv, WorkFits, Is
  <2>. QED
    BY <1>0, <2>1, <2>2, <2>3, <2>4, <2>5, OneCall
<1>5. CASE Interrupt(p)
  <2>1. /\ job' = [job EXCEPT ![p].signals = @ + 1] /\ work' = work
        /\ run[p].pc \notin {"publish", "over"}
    BY <1>5 DEF Interrupt
  <2>2. /\ DOMAIN job' = Publisher /\ \A q \in Publisher \ {p} : job'[q] = job[q]
        /\ job'[p].pc = job[p].pc /\ job'[p].exit = job[p].exit
    BY <1>0, <2>1 DEF Job
  <2>3. CASE Is(p, "rmtree")
    <3>1. run' = [run EXCEPT ![p].pc = "over", ![p].exit = "killed"]
      BY <1>5, <2>3 DEF Interrupt
    <3>2. /\ DOMAIN run' = Publisher /\ DOMAIN run'[p] = DOMAIN NewRun /\ run'[p].pc = "over"
          /\ \A q \in Publisher \ {p} : run'[q] = run[q]
          /\ run'[p].exit = "killed"
      BY <1>0, <3>1 DEF NewRun
    <3>3. StatusFits(p)'
      BY <3>2 DEF StatusFits, Is, At, Early
    <3>4. WorkFits(p)'
      BY <3>2 DEF WorkFits, Is
    <3>. QED
      BY <1>0, <2>1, <2>2, <3>2, <3>3, <3>4, OneCall
  <2>4. CASE ~Is(p, "rmtree")
    <3>1. Leave(p, "signal")
      BY <1>5, <2>4 DEF Interrupt
    <3>. QED
      BY <1>0, <2>1, <2>2, <2>4, <3>1, LeaveKeeps DEF Is
  <2>. QED
    BY <2>3, <2>4
<1>. QED
  BY <1>2, <1>3, <1>4, <1>5

\* A step that moves no call.
LEMMA CallsKept ==
    ASSUME CallInv, UNCHANGED <<run, work, job>>
    PROVE  CallInv'
<1>1. CallTyped'
  BY DEF CallInv, CallTyped
<1>2. ASSUME NEW q \in Publisher PROVE StatusFits(q)' /\ WorkFits(q)'
  <2>1. StatusFits(q)'
    BY DEF CallInv, StatusFits, Is, At
  <2>2. WorkFits(q)'
    BY DEF CallInv, WorkFits, Is
  <2>. QED
    BY <2>1, <2>2
<1>. QED
  BY <1>1, <1>2 DEF CallInv

\* At first every call is at its beginning.
LEMMA CallStarts == CallInit => IInv
<1> SUFFICES ASSUME CallInit PROVE IInv
  OBVIOUS
<1>1. PublishInv
  BY PublishStarts DEF CallInit
<1>2. run = [p \in Publisher |-> NewRun] /\ work = [p \in Publisher |-> FALSE]
  BY DEF CallInit
<1>3. \A p \in Publisher : job[p].pc = "resolve"
  BY DEF CallInit, Init, NewJob
<1>4. CallTyped
  BY <1>2 DEF CallTyped
<1>5. ASSUME NEW p \in Publisher PROVE StatusFits(p) /\ WorkFits(p)
  BY <1>2, <1>3 DEF StatusFits, WorkFits, NewRun, Is, At, Early
<1>. QED
  BY <1>1, <1>4, <1>5 DEF IInv, CallInv

\* The tree, the publishes and the calls fit together, whatever the number of
\* calls, the depth of the tree and what the user makes in it.
THEOREM Inductive == CallSpec => []IInv
<1>1. IInv /\ [CallNext]_callVars => IInv'
  <2> SUFFICES ASSUME IInv, [CallNext]_callVars PROVE IInv'
    OBVIOUS
  <2>1. ASSUME NEW p \in Publisher, CallStep(p) PROVE IInv'
    BY <2>1, AroundKeeps, PublishStepKeeps, EndingKeeps DEF CallStep
  <2>2. CASE UserStep
    <3>1. PublishInv'
      BY <2>2, UserMakesDirKeeps, UserMakesFileKeeps DEF UserStep, IInv
    <3>2. UNCHANGED <<run, work, job>>
      BY <2>2 DEF UserStep, UserMakesDir, UserMakesFile
    <3>. QED
      BY <3>1, <3>2, CallsKept DEF IInv
  <2>3. CASE UNCHANGED callVars
    <3>1. UNCHANGED vars /\ UNCHANGED <<run, work, job>>
      BY <2>3 DEF callVars, vars
    <3>. QED
      BY <3>1, CallsKept, NoPublishStep DEF IInv
  <2>. QED
    BY <2>1, <2>2, <2>3 DEF CallNext
<1>. QED
  BY <1>1, CallStarts, PTL DEF CallSpec

(***************************************************************************)
(* What follows                                                            *)
(***************************************************************************)

\* What each exit status says of the tree: 0 that the file is the call's own, 3
\* that it is not (code_write.py:9-10), and 1 that it is there only when the
\* publish had gone through before the error, or failed in its last look at the
\* file; with any number of other calls on the same target.
THEOREM ExitsAreTrue == CallSpec => []ExitTrue
<1>1. IInv => ExitTrue
  <2> SUFFICES ASSUME IInv, NEW p \in Publisher, Is(p, "over")
               PROVE  LET made == file[job[p].target] = p
                      IN  /\ run[p].exit = "ok" => made /\ run[p].outcome = "written"
                          /\ run[p].exit = "failed" =>
                                (made <=> job[p].exit \in {"ok", "unchecked"})
                          /\ run[p].exit = "declined" => ~made /\ run[p].outcome = "declined"
    BY DEF ExitTrue
  <2>0. job[p].target \in Level
    BY DEF IInv, PublishInv, Typed, Job
  <2>1. At(p, "resolve") \/ job[p].exit = "failed" => file[job[p].target] # p
    BY <2>0 DEF IInv, PublishInv, Fits, FileFits, ExitFits, At, Linked, Forward
  <2>2. job[p].exit \in {"ok", "unchecked"} => file[job[p].target] = p
    BY DEF IInv, PublishInv, Fits, FileFits
  <2>3. At(p, "resolve") => job[p].exit = "none"
    BY DEF IInv, PublishInv, Fits, ExitFits, At, Forward
  <2>. QED
    BY <2>1, <2>2, <2>3 DEF IInv, CallInv, StatusFits
<1>. QED
  BY <1>1, Inductive, PTL

\* A call that failed or declined leaves no temporary file, no directory of its
\* own but above what others, or a last look that failed, left in it, and no
\* work directory (cw_flow.py:57-67, code_write.py:286-290), whatever it met on
\* the way.
THEOREM CallsLeaveNothing == CallSpec => []CallLeavesNothing
<1>1. ASSUME IInv PROVE CallLeavesNothing
  <2>1. NoTempLeft
    BY <1>1 DEF IInv, PublishInv, Fits, TempFits, NoTempLeft
  <2>2. ASSUME NEW p \in Publisher, At(p, "ended"), job[p].exit = "failed" PROVE DirsLeft(p) = {}
    <3>1. ToSet(job[p].todo) = {}
      BY <1>1, <2>2 DEF IInv, PublishInv, Fits, ExitFits, ToSet
    <3>2. \A l \in Level : owner[l] = p => \E n \in spared[p] : l <= n
      BY <1>1, <2>2, <3>1 DEF IInv, PublishInv, Fits, OwnerFits
    <3>3. \A n \in spared[p] : n \in Level
      BY <1>1 DEF IInv, PublishInv, Typed
    <3>4. \A l, n \in Level : l <= n => ~(n < l)
      BY DEF Level
    <3>. QED
      BY <3>2, <3>3, <3>4 DEF DirsLeft
  <2>3. ASSUME NEW p \in Publisher, Is(p, "over"), run[p].exit \notin {"signal", "killed"}
        PROVE  ~work[p]
    BY <1>1, <2>3 DEF IInv, CallInv, WorkFits, Is
  <2>4. \A p \in Publisher : job[p].exit = "unchecked" => file[job[p].target] = p
    BY <1>1 DEF IInv, PublishInv, Fits, FileFits
  <2>. QED
    BY <2>1, <2>2, <2>3, <2>4 DEF CallLeavesNothing, NothingLeft, NoDirLeft
<1>. QED
  BY <1>1, Inductive, PTL

\* A step of a call or of the user takes no file that is there, but for the
\* copy that fails, no directory from before the calls, and a later one only
\* empty, in the rollback of a call that made one at its path.
OthersKept ==
    /\ \A l \in Level : file[l] # Nobody /\ file'[l] # file[l] =>
          \E p \in Publisher : file[l] = p /\ job[p].pc = "copy" /\ file'[l] = Nobody
    /\ \A l \in Level : dir[l] \in 1..Depth + 1 => dir'[l] = dir[l]
    /\ \A l \in Level : dir[l] # 0 /\ dir'[l] # dir[l] =>
          /\ dir'[l] = 0 /\ Empty(l)
          /\ \E p \in makers[l] : job[p].pc \in {"undo", "cleanup"} /\ job'[p] # job[p]

\* Neither a stage nor a rollback takes what others made.
LEMMA PublishTakesNothing ==
    ASSUME PublishInv, NEW p \in Publisher, Advance(p) \/ IoError(p) \/ Signal(p) \/ Kill(p)
    PROVE  OthersKept
<1>0. /\ job[p] \in Job /\ job[p].target \in Level /\ file \in [Level -> Maker]
      /\ dir \in [Level -> Nat]
  BY DEF PublishInv, Typed, Job
<1>1. CASE UNCHANGED <<dir, file>>
  BY <1>1 DEF OthersKept
<1>2. CASE dir' = dir /\ file' = FileUndone(p)
  <2>1. CASE At(p, "copy")
    <3>1. file' = [file EXCEPT ![job[p].target] = Nobody] /\ file[job[p].target] = p
      BY <1>2, <2>1 DEF FileUndone, PublishInv, Fits, FileFits, Linked, At
    <3>. QED
      BY <1>0, <1>2, <2>1, <3>1 DEF OthersKept, At
  <2>2. CASE ~At(p, "copy")
    BY <1>2, <2>2 DEF FileUndone, OthersKept
  <2>. QED
    BY <2>1, <2>2
<1>3. CASE Link(p)
  BY <1>0, <1>3 DEF Link, OthersKept
<1>4. CASE MakeDir(p)
  <2>1. job[p].at \in Level
    BY <1>4, AtIsLevel DEF MakeDir, Making, At
  <2>2. \/ UNCHANGED treeVars
        \/ /\ dir[job[p].at] = 0 /\ dir' = [dir EXCEPT ![job[p].at] = last + 1]
           /\ UNCHANGED file
    BY <1>4 DEF MakeDir
  <2>. QED
    BY <1>0, <2>1, <2>2 DEF OthersKept, treeVars
<1>5. CASE RemoveDir(p)
  <2>0. job[p].todo \in Seq(Level) /\ job[p].todo # <<>> /\ Falling(job[p].todo)
    BY <1>5 DEF RemoveDir, PublishInv, Typed, Job, Fits, MadeFits
  <2>1. Head(job[p].todo) \in Level /\ Head(job[p].todo) \in ToSet(job[p].todo)
    BY <2>0, TailFalls
  <2>2. dir[Head(job[p].todo)] \notin 1..Depth + 1 /\ p \in makers[Head(job[p].todo)]
    BY <2>1 DEF PublishInv, Fits, NewFits, Touched
  <2>3. /\ file' = file /\ job[p].pc \in {"undo", "cleanup"}
        /\ \/ dir' = dir
           \/ dir' = [dir EXCEPT ![Head(job[p].todo)] = 0] /\ Empty(Head(job[p].todo))
    BY <1>5 DEF RemoveDir, treeVars
  <2>4. job'[p] # job[p]
    <3>1. job'[p].todo = Tail(job[p].todo)
      BY <1>0, <1>5 DEF RemoveDir, PublishInv, Typed, Job
    <3>2. Len(Tail(job[p].todo)) # Len(job[p].todo)
      BY <2>0
    <3>. QED
      BY <3>1, <3>2
  <2>. QED
    BY <1>0, <2>1, <2>2, <2>3, <2>4 DEF OthersKept
<1>6. \/ UNCHANGED <<dir, file>>
      \/ dir' = dir /\ file' = FileUndone(p)
      \/ Link(p) \/ MakeDir(p) \/ RemoveDir(p)
  <2>1. CASE IoError(p) \/ Signal(p)
    BY <2>1 DEF IoError, Signal
  <2>2. UNCHANGED treeVars => UNCHANGED <<dir, file>>
    BY DEF treeVars
  <2>3. CASE Kill(p) \/ Resolve(p) \/ OpenAncestor(p) \/ Record(p) \/ EnterDir(p) \/ Stage(p)
    BY <2>2, <2>3 DEF Kill, Resolve, OpenAncestor, Record, EnterDir, Stage
  <2>4. CASE CreateTemp(p) \/ Fill(p) \/ Look(p) \/ StartCopy(p) \/ CheckFile(p) \/ UnlinkTemp(p)
    BY <2>2, <2>4 DEF CreateTemp, Fill, Look, StartCopy, CheckFile, UnlinkTemp
  <2>5. CASE Commit(p) \/ Sweep(p) \/ Undone(p)
    BY <2>2, <2>5 DEF Commit, Sweep, Undone
  <2>. QED
    BY <2>1, <2>3, <2>4, <2>5 DEF Advance
<1>. QED
  BY <1>1, <1>2, <1>3, <1>4, <1>5, <1>6

\* No step replaces or removes a file of others ("Never overwrites anything",
\* cw_publish.py:3) or a directory from before the calls; a later directory goes
\* only while it is empty and only in the rollback of a call that had made one
\* at its path (cw_flow.py:64-66); for any number of calls, in a tree of any
\* depth.
THEOREM OthersAreUntouched == CallSpec => OthersUntouched
<1>1. ASSUME IInv, [CallNext]_callVars PROVE OthersKept
  <2>1. ASSUME NEW p \in Publisher, CallStep(p) PROVE OthersKept
    <3>1. CASE PublishStep(p)
      BY <1>1, <3>1, PublishTakesNothing DEF PublishStep, IInv
    <3>2. CASE UNCHANGED <<dir, file>>
      BY <3>2 DEF OthersKept
    <3>3. PublishStep(p) \/ UNCHANGED <<dir, file>>
      BY <2>1 DEF CallStep, Validate, CheckTarget, RequireCandidates, MakeWork, KeepWork, Delegate,
                  accept_response, Finish, Published, Report, RemoveWork, Interrupt, vars, treeVars
    <3>. QED
      BY <3>1, <3>2, <3>3
  <2>2. CASE UserStep
    <3>1. PICK l \in Level : UserMakesDir(l) \/ UserMakesFile(l)
      BY <2>2 DEF UserStep
    <3>. QED
      BY <1>1, <3>1 DEF UserMakesDir, UserMakesFile, OthersKept, IInv, PublishInv, Typed
  <2>3. CASE UNCHANGED callVars
    BY <2>3 DEF callVars, vars, treeVars, OthersKept
  <2>. QED
    BY <1>1, <2>1, <2>2, <2>3 DEF CallNext
<1>2. OthersKept =>
         /\ [\A l \in Level : file[l] # Nobody /\ file'[l] # file[l] =>
               \E p \in Publisher : file[l] = p /\ job[p].pc = "copy" /\ file'[l] = Nobody]_vars
         /\ [\A l \in Level : dir[l] \in 1..Depth + 1 => dir'[l] = dir[l]]_vars
         /\ [\A l \in Level : dir[l] # 0 /\ dir'[l] # dir[l] =>
               /\ dir'[l] = 0 /\ Empty(l)
               /\ \E p \in makers[l] : job[p].pc \in {"undo", "cleanup"} /\ job'[p] # job[p]]_vars
  BY DEF OthersKept
<1>. QED
  BY <1>1, <1>2, Inductive, PTL DEF CallSpec, OthersUntouched, NoClobber, OldDirsStay, DirsStay
=============================================================================
