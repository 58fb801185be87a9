-------------------------- MODULE LineChunksProofs --------------------------
(***************************************************************************)
(* The ranges of lines fit, overlap little and cover the file, for every   *)
(* budget, overlap, limit and file; and a plan made of them, with its long *)
(* lines cut into pieces, is complete.                                     *)
(***************************************************************************)
EXTENDS ChunkPlan, NaturalsInduction, WellFoundedInduction, SequenceTheorems, TLAPS

(***************************************************************************)
(* The inductive invariant: what is true of the ranges that are out, and   *)
(* of the lines that are read but in none of them.                         *)
(***************************************************************************)

\* A range of a file with the ends "ends" of its lines.
GoodRange(r, ends) ==
    /\ r \in LineRange
    /\ r.first <= r.last /\ r.last <= Len(ends) - 1
    /\ r.kind = "L" => ends[r.last + 1] - ends[r.first] <= Budget
    /\ r.kind = "B" => r.first = r.last /\ ends[r.last + 1] - ends[r.first] > Budget

\* Lines that start at f may follow range r: nothing is left out, and what
\* they share with it is little.
Follows(r, f, ends) ==
    /\ r.first < f /\ f <= r.last + 1
    /\ f <= r.last => /\ r.kind = "L"
                      /\ r.last - f + 1 <= Overlap
                      /\ 4 * (ends[r.last + 1] - ends[f]) <= Budget

GoodStep(r, s, ends) ==
    /\ Follows(r, s.first, ends) /\ r.last < s.last
    /\ s.first <= r.last => s.kind = "L"

GoodRanges(rs, ends) ==
    /\ rs \in Seq(LineRange)
    /\ \A k \in 1..Len(rs) : GoodRange(rs[k], ends)
    /\ rs # <<>> => rs[1].first = 1
    /\ \A k \in 1..Len(rs) - 1 : GoodStep(rs[k], rs[k + 1], ends)

\* The range that is being filled follows the last one that is out.
Filling ==
    /\ end = Lines /\ start <= end + 1
    /\ Len(ranges) <= limit
    /\ end >= start => total = Bytes(start, end) /\ total <= Budget
    /\ ranges = <<>> => start = 1
    /\ ranges # <<>> => /\ Follows(ranges[Len(ranges)], start, at)
                        /\ end >= start => ranges[Len(ranges)].last < end

Complete ==
    IF Lines = 0 THEN ranges = <<>>
    ELSE ranges # <<>> /\ ranges[Len(ranges)].last = Lines

IInv ==
    /\ TypeOK
    /\ GoodRanges(ranges, at)
    /\ pc = "reading" => Filling
    /\ pc = "ended" => Complete

\* A range that follows the last one keeps the ranges good.
LEMMA GoodAppend ==
    ASSUME NEW rs, NEW ends, NEW r, GoodRanges(rs, ends), GoodRange(r, ends),
           rs = <<>> => r.first = 1,
           rs # <<>> => GoodStep(rs[Len(rs)], r, ends)
    PROVE  /\ GoodRanges(Append(rs, r), ends)
           /\ Len(Append(rs, r)) = Len(rs) + 1
           /\ Append(rs, r)[Len(rs) + 1] = r
<1>1. rs \in Seq(LineRange) /\ r \in LineRange
  BY DEF GoodRanges, GoodRange
<1> DEFINE out == Append(rs, r)
<1>2. /\ out \in Seq(LineRange) /\ Len(out) = Len(rs) + 1 /\ out # <<>>
      /\ out[Len(rs) + 1] = r
      /\ \A k \in 1..Len(rs) : out[k] = rs[k]
  <2>1. /\ out \in Seq(LineRange) /\ Len(out) = Len(rs) + 1
        /\ out[Len(rs) + 1] = r
        /\ \A k \in 1..Len(rs) : out[k] = rs[k]
    BY <1>1, AppendProperties
  <2>2. Len(rs) \in Nat BY <1>1
  <2> QED BY <2>1, <2>2
<1> HIDE DEF out
<1>3. ASSUME NEW k \in 1..Len(out) PROVE GoodRange(out[k], ends)
  <2>1. CASE k = Len(rs) + 1 BY <2>1, <1>2
  <2>2. CASE k # Len(rs) + 1
    <3>1. k \in 1..Len(rs) BY <2>2, <1>1, <1>2
    <3> QED BY <3>1, <1>2 DEF GoodRanges
  <2> QED BY <2>1, <2>2
<1>4. out[1].first = 1
  <2>1. CASE rs = <<>> BY <2>1, <1>2
  <2>2. CASE rs # <<>>
    <3>1. Len(rs) >= 1 BY <2>2, <1>1
    <3> QED BY <3>1, <2>2, <1>1, <1>2 DEF GoodRanges
  <2> QED BY <2>1, <2>2
<1>5. ASSUME NEW k \in 1..Len(out) - 1 PROVE GoodStep(out[k], out[k + 1], ends)
  <2>1. CASE k = Len(rs)
    <3>1. rs # <<>> /\ k \in 1..Len(rs) BY <2>1, <1>1, <1>2
    <3>2. out[k] = rs[Len(rs)] /\ out[k + 1] = r BY <3>1, <2>1, <1>2
    <3> QED BY <3>1, <3>2
  <2>2. CASE k # Len(rs)
    <3>1. k \in 1..Len(rs) - 1 /\ k \in 1..Len(rs) /\ k + 1 \in 1..Len(rs)
      BY <2>2, <1>1, <1>2
    <3> QED BY <3>1, <1>2 DEF GoodRanges
  <2> QED BY <2>1, <2>2
<1>6. GoodRanges(out, ends) BY <1>2, <1>3, <1>4, <1>5 DEF GoodRanges
<1> QED BY <1>2, <1>6 DEF out

\* Another line changes nothing about what may follow a range.
LEMMA FollowsGrow ==
    ASSUME NEW ends \in Seq(Nat), NEW x, NEW r, NEW f \in Nat,
           GoodRange(r, ends), Follows(r, f, ends)
    PROVE  Follows(r, f, Append(ends, x))
<1> DEFINE bs == Append(ends, x)
<1>1. Len(ends) \in Nat /\ \A k \in 1..Len(ends) : bs[k] = ends[k]
  OBVIOUS
<1> HIDE DEF bs
<1>2. r.first \in Nat \ {0} /\ r.last + 1 \in 1..Len(ends) /\ (f <= r.last => f \in 1..Len(ends))
  BY <1>1 DEF GoodRange, LineRange, Follows
<1>3. Follows(r, f, bs) BY <1>1, <1>2 DEF Follows
<1> QED BY <1>3 DEF bs

\* Another line changes nothing about the ranges before it.
LEMMA GoodGrow ==
    ASSUME NEW rs, NEW ends \in Seq(Nat), NEW x \in Nat, GoodRanges(rs, ends)
    PROVE  GoodRanges(rs, Append(ends, x))
<1> DEFINE bs == Append(ends, x)
<1>1. Len(bs) = Len(ends) + 1 /\ \A k \in 1..Len(ends) : bs[k] = ends[k]
  OBVIOUS
<1>0. Len(ends) \in Nat
  OBVIOUS
<1> HIDE DEF bs
<1>2. ASSUME NEW r, GoodRange(r, ends) PROVE GoodRange(r, bs)
  <2>1. r.first \in 1..Len(ends) /\ r.last + 1 \in 1..Len(ends)
    BY <1>0, <1>2 DEF GoodRange, LineRange
  <2> QED BY <1>1, <1>2, <2>1, SMTT(20) DEF GoodRange, LineRange
<1>4. ASSUME NEW k \in 1..Len(rs) - 1 PROVE GoodStep(rs[k], rs[k + 1], bs)
  <2>1. rs \in Seq(LineRange) BY DEF GoodRanges
  <2>2. k \in 1..Len(rs) /\ k + 1 \in 1..Len(rs) BY <2>1
  <2>3. GoodRange(rs[k], ends) /\ GoodStep(rs[k], rs[k + 1], ends) /\ rs[k + 1] \in LineRange
    BY <2>1, <2>2 DEF GoodRanges
  <2> QED BY <2>3, FollowsGrow DEF GoodStep, LineRange, bs
<1>5. GoodRanges(rs, bs) BY <1>2, <1>4 DEF GoodRanges
<1> QED BY <1>5 DEF bs

\* One more line was read, of "size" bytes.
Grown(size) ==
    /\ pc = "reading" /\ limit' = limit
    /\ at' \in Seq(Nat) /\ Len(at') = Len(at) + 1 /\ Len(at) \in Nat \ {0}
    /\ Lines' = Lines + 1 /\ Lines' <= MaxLines /\ Lines \in Nat
    /\ \A k \in 1..Len(at) : at'[k] = at[k] /\ at[k] \in Nat
    /\ at'[Len(at) + 1] = at[Len(at)] + size
    /\ \A j, k \in 1..Len(at') : j < k => at'[j] < at'[k]
    /\ at' = Append(at, at[Len(at)] + size) /\ at[Len(at)] + size \in Nat
    /\ size \in Nat \ {0}

\* The ends of the lines only grow.
LEMMA ReadGrows ==
    ASSUME TypeOK, NEW size \in Sizes, Read(size)
    PROVE  Grown(size)
<1>1. size \in Nat \ {0} BY LineChunksAssumption
<1>2. at \in Seq(Nat) /\ Len(at) \in Nat \ {0} /\ at[Len(at)] \in Nat BY DEF TypeOK
<1> DEFINE x == at[Len(at)] + size
<1>3. x \in Nat /\ x > at[Len(at)] BY <1>1, <1>2
<1> HIDE DEF x
<1>4. at' = Append(at, x) BY DEF Read, x
<1>5. /\ at' \in Seq(Nat) /\ Len(at') = Len(at) + 1
      /\ at'[Len(at) + 1] = x
      /\ \A k \in 1..Len(at) : at'[k] = at[k]
  BY <1>2, <1>3, <1>4, AppendProperties
<1>6. \A k \in 1..Len(at) : at[k] \in Nat BY <1>2
<1>7. ASSUME NEW j \in 1..Len(at'), NEW k \in 1..Len(at'), j < k PROVE at'[j] < at'[k]
  <2>1. j \in 1..Len(at) BY <1>2, <1>5, <1>7
  <2>2. CASE k \in 1..Len(at) BY <2>1, <2>2, <1>5, <1>7 DEF TypeOK
  <2>3. CASE k = Len(at) + 1
    <3>1. at[j] <= at[Len(at)]
      <4>1. CASE j = Len(at) BY <4>1, <1>2
      <4>2. CASE j < Len(at)
        <5>1. Len(at) \in 1..Len(at) BY <1>2
        <5> QED BY <4>2, <5>1, <2>1, <1>6 DEF TypeOK
      <4> QED BY <4>1, <4>2, <2>1, <1>2
    <3> QED BY <3>1, <2>1, <2>3, <1>2, <1>3, <1>5, <1>6
  <2> QED BY <2>2, <2>3, <1>2, <1>5
<1>8. pc = "reading" /\ limit' = limit /\ Lines < MaxLines BY DEF Read
<1>9. Lines \in Nat /\ Lines' = Lines + 1 /\ Lines' <= MaxLines
  BY <1>2, <1>5, <1>8, LineChunksAssumption DEF Lines
<1> QED BY <1>1, <1>2, <1>3, <1>4, <1>5, <1>6, <1>7, <1>8, <1>9 DEF x, Grown

\* The ranges with the one that is being filled.
LEMMA FlushedGood ==
    ASSUME IInv, pc = "reading"
    PROVE  /\ GoodRanges(Flushed, at)
           /\ Len(Flushed) \in Nat /\ Len(Flushed) <= limit + 1
           /\ Flushed = <<>> => Lines = 0
           /\ Flushed # <<>> => /\ Flushed[Len(Flushed)].last = end
                                /\ end >= start => Flushed[Len(Flushed)] = L(start, end)
           /\ Lines = 0 => Flushed = <<>>
<1>1. /\ GoodRanges(ranges, at) /\ Filling /\ at \in Seq(Nat) /\ Len(at) >= 1
      /\ start \in Nat \ {0} /\ end \in Nat /\ limit \in Nat /\ ranges \in Seq(LineRange)
  BY DEF IInv, TypeOK
<1>2. Len(at) \in Nat /\ Lines \in Nat /\ Lines = Len(at) - 1 /\ Len(ranges) \in Nat
  BY <1>1 DEF Lines
<1>3. CASE end >= start
  <2> DEFINE r == L(start, end)
  <2>1. r.first = start /\ r.last = end /\ r.kind = "L" /\ end \in Nat \ {0}
    BY <1>1, <1>3 DEF L
  <2>2. r \in LineRange BY <2>1, <1>1 DEF L, LineRange
  <2> HIDE DEF r
  <2>3. GoodRange(r, at)
    <3>1. at[end + 1] - at[start] <= Budget BY <1>1, <1>3 DEF Filling, Bytes
    <3>2. end <= Len(at) - 1 BY <1>1, <1>2 DEF Filling
    <3> QED BY <1>3, <2>1, <2>2, <3>1, <3>2 DEF GoodRange
  <2>4. ranges = <<>> => r.first = 1 BY <1>1, <2>1 DEF Filling
  <2>5. ranges # <<>> => GoodStep(ranges[Len(ranges)], r, at)
    BY <1>1, <1>3, <2>1 DEF Filling, GoodStep
  <2>6. Flushed = Append(ranges, r) BY <1>3 DEF Flushed, r
  <2>7. /\ GoodRanges(Flushed, at) /\ Len(Flushed) = Len(ranges) + 1
        /\ Flushed[Len(Flushed)] = r
    BY <1>1, <2>3, <2>4, <2>5, <2>6, GoodAppend
  <2>8. Flushed # <<>> BY <2>7, <1>2
  <2>9. Lines # 0 BY <1>1, <1>3, <2>1 DEF Filling
  <2>10. Len(ranges) <= limit BY <1>1 DEF Filling
  <2> QED BY <1>1, <1>2, <2>1, <2>7, <2>8, <2>9, <2>10 DEF r
<1>4. CASE ~(end >= start)
  <2>1. Flushed = ranges BY <1>4 DEF Flushed
  <2>2. end = Lines /\ start = end + 1 BY <1>1, <1>2, <1>4 DEF Filling
  <2>3. ranges = <<>> => Lines = 0 BY <1>1, <2>2 DEF Filling
  <2>4. ASSUME ranges # <<>> PROVE ranges[Len(ranges)].last = end /\ Lines # 0
    <3>1. Len(ranges) \in 1..Len(ranges) BY <2>4, <1>1
    <3>2. GoodRange(ranges[Len(ranges)], at) BY <3>1, <1>1 DEF GoodRanges
    <3> DEFINE r == ranges[Len(ranges)]
    <3>3. r.first \in Nat \ {0} /\ r.last \in Nat \ {0} /\ r.last <= Lines
      BY <3>2, <1>2 DEF GoodRange, LineRange
    <3>4. start <= r.last + 1 BY <2>4, <1>1 DEF Filling, Follows
    <3> HIDE DEF r
    <3>5. r.last = end /\ Lines # 0 BY <3>3, <3>4, <2>2, <1>1, <1>2, SMTT(20)
    <3> QED BY <3>5 DEF r
  <2>5. Len(ranges) <= limit BY <1>1 DEF Filling
  <2> QED BY <1>1, <1>2, <1>4, <2>1, <2>3, <2>4, <2>5
<1> QED BY <1>3, <1>4

\* The type of what a line changes.
LEMMA TypeKeeps ==
    ASSUME TypeOK, NEW size, Grown(size),
           start' \in Nat \ {0}, end' \in Nat, total' \in Nat,
           ranges' \in Seq(LineRange), Len(ranges') <= limit + 1,
           pc' \in {"reading", "full", "ended"}
    PROVE  TypeOK'
<1>1. limit' \in 0..MaxChunks /\ Len(ranges') <= limit' + 1 BY DEF TypeOK, Grown
<1>2. at' \in Seq(Nat) /\ Len(at') >= 1 /\ Lines' <= MaxLines BY DEF Grown
<1>3. \A j, k \in 1..Len(at') : j < k => at'[j] < at'[k] BY DEF Grown
<1> QED BY <1>1, <1>2, <1>3 DEF TypeOK

\* A line that joins the range.
LEMMA JoinKeeps ==
    ASSUME IInv, NEW size \in Sizes, JoinLine(size)
    PROVE  IInv'
<1>1. TypeOK /\ Read(size) /\ pc = "reading" BY DEF IInv, JoinLine, Read
<1>0. Grown(size) BY <1>1, ReadGrows
<1>2. Filling /\ GoodRanges(ranges, at) BY <1>1 DEF IInv
<1>3. /\ start \in Nat \ {0} /\ end \in Nat /\ total \in Nat /\ at \in Seq(Nat)
      /\ end = Lines /\ Lines = Len(at) - 1
  BY <1>1, <1>2 DEF TypeOK, Filling, Lines
<1>4. /\ ranges' = ranges /\ pc' = pc /\ end' = end + 1 /\ size <= Budget
      /\ start' = IF end < start THEN end + 1 ELSE start
      /\ total' = IF end < start THEN size ELSE total + size
      /\ end < start \/ total + size <= Budget
  BY <1>3 DEF JoinLine
<1>5. GoodRanges(ranges', at') BY <1>1, <1>2, <1>3, <1>4, <1>0, GoodGrow DEF Grown
<1>6. start <= end + 1 BY <1>2 DEF Filling
<1>7. start' \in Nat \ {0} /\ start' <= end' /\ end' = Lines'
  BY <1>1, <1>3, <1>4, <1>6, <1>0, SMTT(20) DEF Grown
<1>8. start' = start BY <1>3, <1>4, <1>6
<1>9. total' = at'[end' + 1] - at'[start] /\ total' <= Budget /\ total' \in Nat
  <2>1. at'[end' + 1] = at[Len(at)] + size
    <3>1. end' + 1 = Len(at) + 1 BY <1>0, <1>3, <1>4 DEF Grown
    <3> QED BY <1>0, <3>1 DEF Grown
  <2>2. CASE end < start
    <3>1. start = Len(at) BY <2>2, <1>3, <1>6
    <3>2. start \in 1..Len(at) BY <3>1, <1>0 DEF Grown
    <3> QED BY <3>1, <3>2, <2>1, <2>2, <1>4, <1>0 DEF Grown
  <2>3. CASE ~(end < start)
    <3>1. total = at[Len(at)] - at[start]
      BY <2>3, <1>2, <1>3 DEF Filling, Bytes
    <3>2. start \in 1..Len(at) BY <2>3, <1>3
    <3>3. at'[start] = at[start] /\ at[start] \in Nat /\ at[Len(at)] \in Nat
      BY <1>0, <3>2 DEF Grown
    <3>4. size \in Nat BY <1>0 DEF Grown
    <3>5. total' = total + size /\ total + size <= Budget BY <2>3, <1>4
    <3>6. total \in Nat BY <1>3
    <3>7. total + size = (at[Len(at)] + size) - at[start] BY <3>1, <3>3, <3>4, <3>6
    <3>8. total' \in Nat /\ total' <= Budget BY <3>4, <3>5, <3>6
    <3> QED BY <3>3, <3>5, <3>7, <3>8, <2>1
  <2> QED BY <2>2, <2>3
<1>10. ranges # <<>> => /\ Follows(ranges[Len(ranges)], start, at')
                        /\ ranges[Len(ranges)].last < end'
  <2> SUFFICES ASSUME ranges # <<>>
               PROVE  /\ Follows(ranges[Len(ranges)], start, at')
                      /\ ranges[Len(ranges)].last < end'
    OBVIOUS
  <2> DEFINE r == ranges[Len(ranges)]
  <2>1. Len(ranges) \in 1..Len(ranges) BY <1>1 DEF TypeOK
  <2>2. GoodRange(r, at) /\ Follows(r, start, at) BY <2>1, <1>2 DEF GoodRanges, Filling
  <2>3. Follows(r, start, at') BY <2>2, <1>1, <1>3, <1>0, FollowsGrow DEF Grown
  <2>4. r.last \in Nat /\ r.last <= end BY <2>2, <1>3 DEF GoodRange, LineRange
  <2> QED BY <2>3, <2>4, <1>3, <1>4
<1>11. Filling'
  <2>1. Len(ranges') <= limit' BY <1>0, <1>2, <1>4 DEF Filling, Grown
  <2>2. ranges = <<>> => start = 1 BY <1>2 DEF Filling
  <2> QED BY <1>4, <1>7, <1>8, <1>9, <1>10, <2>1, <2>2 DEF Filling, Bytes
<1>12. TypeOK'
  <2>1. ranges' \in Seq(LineRange) /\ Len(ranges') <= limit + 1 BY <1>1, <1>4 DEF TypeOK
  <2>2. end' \in Nat BY <1>3, <1>4
  <2> QED BY <1>0, <1>1, <1>4, <1>7, <1>9, <2>1, <2>2, TypeKeeps
<1> QED BY <1>1, <1>4, <1>5, <1>11, <1>12 DEF IInv

\* A line longer than the budget keeps the invariant: it is flushed and is a
\* range of its own.
LEMMA LongKeeps ==
    ASSUME IInv, NEW size \in Sizes, LongLine(size)
    PROVE  IInv'
<1>1. TypeOK /\ Read(size) /\ pc = "reading" BY DEF IInv, LongLine, Read
<1>0. Grown(size) BY <1>1, ReadGrows
<1>2. Filling BY <1>1 DEF IInv
<1>3. /\ start \in Nat \ {0} /\ end \in Nat /\ at \in Seq(Nat)
      /\ end = Lines /\ Lines = Len(at) - 1 /\ limit \in 0..MaxChunks /\ limit \in Nat
  BY <1>1, <1>2, LineChunksAssumption DEF TypeOK, Filling, Lines
<1> DEFINE rs == Flushed
<1>4. /\ GoodRanges(rs, at') /\ Len(rs) \in Nat /\ Len(rs) <= limit + 1
      /\ rs = <<>> => Lines = 0
      /\ rs # <<>> => rs[Len(rs)].last = end
  <2>1. /\ GoodRanges(rs, at) /\ Len(rs) \in Nat /\ Len(rs) <= limit + 1
        /\ rs = <<>> => Lines = 0
        /\ rs # <<>> => rs[Len(rs)].last = end
    BY <1>1, FlushedGood
  <2> HIDE DEF rs
  <2>2. GoodRanges(rs, at') BY <2>1, <1>0, <1>3, GoodGrow DEF Grown
  <2> QED BY <2>1, <2>2
<1>5. size > Budget BY DEF LongLine
<1>6. CASE Len(rs) > limit
  <2>1. ranges' = rs /\ pc' = "full" /\ UNCHANGED <<start, end, total>>
    BY <1>6 DEF LongLine
  <2>2. rs \in Seq(LineRange) BY <1>4 DEF GoodRanges
  <2>3. total \in Nat BY <1>1 DEF TypeOK
  <2> HIDE DEF rs
  <2>4. TypeOK' BY <2>1, <2>2, <2>3, <1>0, <1>1, <1>3, <1>4, TypeKeeps
  <2> QED BY <2>1, <2>4, <1>4 DEF IInv
<1>7. CASE ~(Len(rs) > limit)
  <2> DEFINE i == Lines + 1
             r == B(i)
  <2>1. /\ ranges' = Append(rs, r) /\ start' = i + 1 /\ end' = i /\ total' = 0
        /\ pc' = IF Len(ranges') > limit THEN "full" ELSE "reading"
    BY <1>7 DEF LongLine
  <2>2. /\ r.first = i /\ r.last = i /\ r.kind = "B" /\ i \in Nat \ {0} /\ i = end + 1
        /\ r \in LineRange
    BY <1>3 DEF B, LineRange
  <2>3. i = Len(at) /\ Len(at') = i + 1 BY <1>1, <1>3, <1>0 DEF Grown
  <2> HIDE DEF r, i, rs
  <2>4. at'[i + 1] - at'[i] > Budget
    BY <1>1, <1>5, <2>2, <2>3, <1>0, LineChunksAssumption DEF Grown
  <2>5. GoodRange(r, at') BY <2>2, <2>3, <2>4 DEF GoodRange
  <2>6. rs = <<>> => r.first = 1 BY <1>4, <1>3, <2>2
  <2>7. rs # <<>> => GoodStep(rs[Len(rs)], r, at')
    <3> SUFFICES ASSUME rs # <<>> PROVE GoodStep(rs[Len(rs)], r, at')
      OBVIOUS
    <3>1. rs \in Seq(LineRange) BY <1>4 DEF GoodRanges
    <3>2. Len(rs) \in 1..Len(rs) BY <3>1
    <3>3. GoodRange(rs[Len(rs)], at') BY <3>2, <1>4 DEF GoodRanges
    <3> DEFINE q == rs[Len(rs)]
    <3>4. q.first <= q.last /\ q.last = end /\ q.first \in Nat BY <3>3, <1>4 DEF GoodRange, LineRange
    <3> HIDE DEF q
    <3>5. GoodStep(q, r, at') BY <3>4, <2>2, <1>3 DEF GoodStep, Follows
    <3> QED BY <3>5 DEF q
  <2>8. /\ GoodRanges(ranges', at') /\ Len(ranges') = Len(rs) + 1
        /\ ranges'[Len(ranges')] = r
    BY <1>4, <2>1, <2>5, <2>6, <2>7, GoodAppend
  <2>9. ranges' \in Seq(LineRange) BY <2>8 DEF GoodRanges
  <2>10. TypeOK'
    <3>1. Len(ranges') <= limit + 1 BY <1>3, <1>4, <1>7, <2>8
    <3>2. start' \in Nat \ {0} /\ end' \in Nat /\ total' \in Nat BY <2>1, <2>2
    <3> QED BY <3>1, <3>2, <2>1, <2>9, <1>0, <1>1, TypeKeeps
  <2>11. ranges' # <<>> BY <2>8, <1>4
  <2>12. pc' = "reading" => Filling'
    <3> SUFFICES ASSUME pc' = "reading" PROVE Filling'
      OBVIOUS
    <3>1. Len(ranges') <= limit' BY <2>1, <2>8, <1>1, <1>3, <1>4, <1>0 DEF Grown
    <3>2. Follows(r, start', at') BY <2>1, <2>2 DEF Follows
    <3>3. end' = Lines' BY <2>1, <2>2, <1>1, <1>3, <1>0 DEF Grown
    <3>4. start' <= end' + 1 /\ ~(end' >= start') BY <2>1, <2>2
    <3> QED BY <3>1, <3>2, <3>3, <3>4, <2>8, <2>11 DEF Filling
  <2> QED BY <2>1, <2>8, <2>10, <2>12 DEF IInv
<1> QED BY <1>6, <1>7

\* The range goes out and the next one starts at line n.
LEMMA NextRangeKeeps ==
    ASSUME IInv, NEW size \in Sizes, NextRange(size)
    PROVE  IInv'
<1>1. TypeOK /\ Read(size) /\ pc = "reading" BY DEF IInv, NextRange, Read
<1>0. Grown(size) BY <1>1, ReadGrows
<1>2. Filling BY <1>1 DEF IInv
<1>3. /\ start \in Nat \ {0} /\ end \in Nat \ {0} /\ at \in Seq(Nat) /\ start <= end
      /\ end = Lines /\ Lines = Len(at) - 1 /\ limit \in 0..MaxChunks /\ limit \in Nat
      /\ size <= Budget /\ total \in Nat
  <2>1. end >= start /\ size <= Budget BY DEF NextRange
  <2>2. start \in Nat \ {0} /\ end \in Nat /\ at \in Seq(Nat) /\ total \in Nat /\ limit \in 0..MaxChunks
    BY <1>1 DEF TypeOK
  <2>3. limit \in Nat BY <2>2, LineChunksAssumption
  <2>4. end = Lines /\ Lines = Len(at) - 1 BY <1>2 DEF Filling, Lines
  <2>5. start <= end /\ end \in Nat \ {0} BY <2>1, <2>2
  <2> QED BY <2>1, <2>2, <2>3, <2>4, <2>5
<1> DEFINE rs == Flushed
<1>4. /\ GoodRanges(rs, at') /\ Len(rs) \in Nat /\ Len(rs) <= limit + 1
      /\ rs # <<>> /\ rs[Len(rs)] = L(start, end)
      /\ rs \in Seq(LineRange) /\ ranges' = rs
  <2>1. /\ GoodRanges(rs, at) /\ Len(rs) \in Nat /\ Len(rs) <= limit + 1
        /\ rs = <<>> => Lines = 0
        /\ rs # <<>> => rs[Len(rs)] = L(start, end)
    BY <1>1, <1>3, FlushedGood
  <2>2. ranges' = rs BY DEF NextRange
  <2> HIDE DEF rs
  <2>3. GoodRanges(rs, at') BY <2>1, <1>0, <1>3, GoodGrow DEF Grown
  <2>4. rs # <<>> BY <2>1, <1>3
  <2> QED BY <2>1, <2>2, <2>3, <2>4 DEF GoodRanges
<1>5. CASE Len(rs) > limit
  <2>1. pc' = "full" /\ UNCHANGED <<start, end, total>> BY <1>5 DEF NextRange
  <2> HIDE DEF rs
  <2>2. TypeOK' BY <2>1, <1>0, <1>1, <1>3, <1>4, TypeKeeps
  <2> QED BY <2>1, <2>2, <1>4 DEF IInv
<1>6. CASE ~(Len(rs) > limit)
  <2>1. PICK n \in start..Lines + 1 + 1 :
            /\ FirstOverlap(n, size) /\ start' = n /\ end' = Lines + 1
            /\ total' = (IF n > end THEN 0 ELSE Bytes(n, end)) + size /\ pc' = pc
    BY <1>6 DEF NextRange
  <2> HIDE DEF rs
  <2>2. /\ n \in Nat \ {0} /\ start < n /\ n <= end + 1
        /\ n <= end => end - n + 1 <= Overlap
        /\ n <= end => Bytes(n, end) + size <= Budget /\ 4 * Bytes(n, end) <= Budget
    <3> DEFINE lo == IF end - Overlap > start THEN end - Overlap + 1 ELSE start + 1
    <3>1. n \in lo..end + 1 /\ MayOverlap(n, size) BY <2>1 DEF FirstOverlap
    <3>2. lo \in Int /\ lo > start /\ lo >= end - Overlap + 1 BY <1>3, LineChunksAssumption
    <3> HIDE DEF lo
    <3>3. n \in Nat \ {0} /\ start < n /\ n <= end + 1 /\ end - n + 1 <= Overlap
      BY <3>1, <3>2, <1>3, LineChunksAssumption
    <3> QED BY <3>1, <3>3, <1>3 DEF MayOverlap
  <2>3. /\ end' = end + 1 /\ end' = Lines' /\ end' + 1 = Len(at) + 1 /\ end + 1 = Len(at)
        /\ n \in 1..Len(at) /\ Len(at) \in Nat
    BY <2>1, <2>2, <1>0, <1>3 DEF Grown
  <2>4. /\ at'[end' + 1] = at[end + 1] + size /\ at'[n] = at[n]
        /\ at[n] \in Nat /\ at[end + 1] \in Nat /\ size \in Nat
        /\ at'[end + 1] = at[end + 1]
    BY <2>3, <1>0 DEF Grown
  <2>5. Bytes(n, end) = at[end + 1] - at[n] BY DEF Bytes
  <2>6. n <= end => at[n] < at[end + 1]
    <3> SUFFICES ASSUME n <= end PROVE at[n] < at[end + 1] OBVIOUS
    <3>1. n < end + 1 /\ end + 1 \in 1..Len(at) /\ n \in 1..Len(at) BY <2>2, <2>3, <1>3
    <3> QED BY <3>1, <1>1 DEF TypeOK
  <2>7. /\ total' = at'[end' + 1] - at'[n]
        /\ total' <= Budget /\ total' \in Nat
    <3>1. CASE n > end
      <4>1. n = end + 1 /\ total' = size BY <3>1, <2>1, <2>2, <2>4, <1>3
      <4> QED BY <4>1, <2>4, <1>3
    <3>2. CASE ~(n > end)
      <4>1. n <= end BY <3>2, <2>2, <1>3
      <4>2. total' = (at[end + 1] - at[n]) + size BY <3>2, <2>1, <2>5
      <4>3. (at[end + 1] - at[n]) + size <= Budget BY <4>1, <2>2, <2>5
      <4>4. (at[end + 1] - at[n]) + size = (at[end + 1] + size) - at[n] BY <2>4
      <4>5. (at[end + 1] - at[n]) + size \in Nat BY <4>1, <2>4, <2>6
      <4> QED BY <4>2, <4>3, <4>4, <4>5, <2>4
    <3> QED BY <3>1, <3>2
  <2>8. Follows(L(start, end), n, at')
    <3> DEFINE r == L(start, end)
    <3>1. r.first = start /\ r.last = end /\ r.kind = "L" BY DEF L
    <3> HIDE DEF r
    <3>2. r.first < n /\ n <= r.last + 1 BY <3>1, <2>2
    <3>3. n <= r.last => r.last - n + 1 <= Overlap
      BY <3>1, <2>2, <1>3
    <3>4. n <= r.last => 4 * (at'[r.last + 1] - at'[n]) <= Budget
      <4>1. n <= end => 4 * (at[end + 1] - at[n]) <= Budget BY <2>2, <2>5, <1>3
      <4> QED BY <4>1, <3>1, <2>4
    <3>5. Follows(r, n, at') BY <3>1, <3>2, <3>3, <3>4 DEF Follows
    <3> QED BY <3>5 DEF r
  <2>9. L(start, end).last = end BY DEF L
  <2>10. TypeOK' BY <2>1, <2>2, <2>3, <2>7, <1>0, <1>1, <1>3, <1>4, TypeKeeps
  <2>11. Filling'
    <3>1. Len(ranges') <= limit' BY <1>0, <1>3, <1>4, <1>6 DEF Grown
    <3>2. start' <= end' + 1 BY <2>1, <2>2, <2>3, <1>3
    <3>3. total' = Bytes(start, end)' BY <2>1, <2>7 DEF Bytes
    <3>4. end < end' BY <2>3, <1>3
    <3> QED BY <3>1, <3>2, <3>3, <3>4, <2>1, <2>3, <2>7, <2>8, <2>9, <1>4 DEF Filling
  <2> QED BY <2>1, <2>10, <2>11, <1>1, <1>4 DEF IInv
<1> QED BY <1>5, <1>6

\* The last range goes out.
LEMMA EndKeeps ==
    ASSUME IInv, EndOfFile
    PROVE  IInv'
<1>1. /\ TypeOK /\ pc = "reading" /\ pc' = "ended" /\ ranges' = Flushed
      /\ UNCHANGED <<limit, at, start, end, total>>
  BY DEF IInv, EndOfFile
<1>2. end = Lines BY <1>1 DEF IInv, Filling
<1>3. /\ GoodRanges(ranges', at) /\ Len(ranges') <= limit + 1
      /\ ranges' = <<>> => Lines = 0
      /\ Lines = 0 => ranges' = <<>>
      /\ ranges' # <<>> => ranges'[Len(ranges')].last = Lines
  BY <1>1, <1>2, FlushedGood
<1>4. ranges' \in Seq(LineRange) BY <1>3 DEF GoodRanges
<1>5. Lines' = Lines BY <1>1 DEF Lines
<1>6. TypeOK' BY <1>1, <1>3, <1>4, <1>5 DEF TypeOK
<1>7. Complete' BY <1>3, <1>5 DEF Complete
<1> QED BY <1>1, <1>3, <1>6, <1>7 DEF IInv

(***************************************************************************)
(* The theorems                                                            *)
(***************************************************************************)

\* Before the first line nothing is out.
LEMMA InitGood ==
    ASSUME Init
    PROVE  IInv
<1>1. /\ limit \in 0..MaxChunks /\ limit \in Nat /\ at = <<0>> /\ start = 1 /\ end = 0 /\ total = 0
      /\ ranges = <<>> /\ pc = "reading"
  BY LineChunksAssumption DEF Init
<1>2. at \in Seq(Nat) /\ Len(at) = 1 /\ Lines = 0 BY <1>1 DEF Lines
<1>3. ranges \in Seq(LineRange) /\ Len(ranges) = 0 BY <1>1
<1>4. TypeOK BY <1>1, <1>2, <1>3, LineChunksAssumption DEF TypeOK
<1>5. GoodRanges(ranges, at) BY <1>1, <1>3 DEF GoodRanges
<1>6. Filling BY <1>1, <1>2, <1>3 DEF Filling
<1> QED BY <1>1, <1>4, <1>5, <1>6 DEF IInv

\* The invariant holds initially and every step keeps it.
THEOREM Inductive == Spec => []IInv
<1>1. Init => IInv
  BY InitGood
<1>2. IInv /\ [Next]_vars => IInv'
  <2> SUFFICES ASSUME IInv, [Next]_vars PROVE IInv' OBVIOUS
  <2>1. ASSUME NEW size \in Sizes, LongLine(size) PROVE IInv' BY <2>1, LongKeeps
  <2>2. ASSUME NEW size \in Sizes, JoinLine(size) PROVE IInv' BY <2>2, JoinKeeps
  <2>3. ASSUME NEW size \in Sizes, NextRange(size) PROVE IInv' BY <2>3, NextRangeKeeps
  <2>4. CASE EndOfFile BY <2>4, EndKeeps
  <2>5. CASE UNCHANGED vars
    BY <2>5 DEF vars, IInv, TypeOK, Filling, Complete, Lines, Bytes
  <2> QED BY <2>1, <2>2, <2>3, <2>4, <2>5 DEF Next
<1> QED BY <1>1, <1>2, PTL DEF Spec

\* line_ranges keeps its variables in their types, and "stops once more than
\* max_ranges are out".
THEOREM TypeCorrect == Spec => []TypeOK
<1>1. IInv => TypeOK BY DEF IInv
<1> QED BY <1>1, Inductive, PTL

\* Each range of the invariant fits.
LEMMA InvFits ==
    ASSUME IInv
    PROVE  Fits
<1> SUFFICES ASSUME NEW k \in DOMAIN ranges
             PROVE  LET r == ranges[k]
                    IN  /\ 1 <= r.first /\ r.first <= r.last /\ r.last <= Lines
                        /\ r.kind = "L" => Bytes(r.first, r.last) <= Budget
                        /\ r.kind = "B" => r.first = r.last /\ Bytes(r.first, r.last) > Budget
  BY DEF Fits
<1>1. k \in 1..Len(ranges) /\ ranges \in Seq(LineRange) BY DEF IInv, TypeOK
<1>2. GoodRange(ranges[k], at) BY <1>1 DEF IInv, GoodRanges
<1> QED BY <1>2 DEF GoodRange, LineRange, Lines, Bytes

\* Every range of whole lines fits the budget, and only a line that does not
\* is a range of kind B.
THEOREM RangesFit == Spec => []Fits
<1>1. IInv => Fits
  BY InvFits
<1> QED BY <1>1, Inductive, PTL

\* The ranges of the invariant leave no line out.
LEMMA InvCovers ==
    ASSUME IInv
    PROVE  Covered
<1>1. GoodRanges(ranges, at) BY DEF IInv
<1>2. ranges # <<>> => ranges[1].first = 1 BY <1>1 DEF GoodRanges
<1>3. ASSUME NEW k \in 1..Len(ranges) - 1
      PROVE  /\ ranges[k].first < ranges[k + 1].first
             /\ ranges[k].last < ranges[k + 1].last
             /\ ranges[k + 1].first <= ranges[k].last + 1
  <2>1. GoodStep(ranges[k], ranges[k + 1], at) BY <1>1 DEF GoodRanges
  <2> QED BY <2>1 DEF GoodStep, Follows
<1>4. pc = "ended" => Complete BY DEF IInv
<1> QED BY <1>2, <1>3, <1>4 DEF Covered, Complete

\* No line of the file is lost and no range lies within another.
THEOREM RangesCover == Spec => []Covered
<1>1. IInv => Covered
  BY InvCovers
<1> QED BY <1>1, Inductive, PTL

\* The ranges of the invariant share little.
LEMMA InvSharesLittle ==
    ASSUME IInv
    PROVE  SharesLittle
<1> SUFFICES ASSUME NEW k \in 1..Len(ranges) - 1, ranges[k + 1].first <= ranges[k].last
             PROVE  /\ ranges[k].kind = "L" /\ ranges[k + 1].kind = "L"
                    /\ ranges[k].last - ranges[k + 1].first + 1 <= Overlap
                    /\ 4 * Bytes(ranges[k + 1].first, ranges[k].last) <= Budget
  BY DEF SharesLittle
<1>1. GoodStep(ranges[k], ranges[k + 1], at) BY DEF IInv, GoodRanges
<1> QED BY <1>1 DEF GoodStep, Follows, Bytes

\* Two ranges that follow each other share no more than they may.
THEOREM OverlapBounded == Spec => []SharesLittle
<1>1. IInv => SharesLittle
  BY InvSharesLittle
<1> QED BY <1>1, Inductive, PTL

\* The ranges line_ranges yields cover the file, fit the budget and share little.
THEOREM RangesAreSound == Spec => []RangesSound
<1>1. Fits /\ Covered /\ SharesLittle => RangesSound BY DEF RangesSound
<1> QED BY <1>1, RangesFit, RangesCover, OverlapBounded, PTL

(***************************************************************************)
(* Numbers                                                                 *)
(***************************************************************************)

\* A nonempty set of numbers has a minimal element.
LEMMA MinimalOf ==
    ASSUME NEW R, IsWellFoundedOn(R, Nat), NEW T, T \subseteq Nat, T # {}
    PROVE  \E x \in T : \A y \in T : ~(<<y, x>> \in R)
  BY WFMin

\* With the order of the numbers it is the least one.
LEMMA MinimalIsLeast ==
    ASSUME NEW R, \A x, y \in Nat : x < y => <<x, y>> \in R,
           NEW T, T \subseteq Nat, \E x \in T : \A y \in T : ~(<<y, x>> \in R)
    PROVE  \E x \in T : \A y \in T : x <= y
<1>1. PICK x \in T : \A y \in T : ~(<<y, x>> \in R)
  OBVIOUS
<1>2. ASSUME NEW y \in T PROVE x <= y
  <2>1. ~(y < x)
    BY <1>1
  <2>. QED
    BY <2>1
<1>. QED
  BY <1>2

\* A nonempty set of numbers has a least element.
LEMMA LeastOf ==
    ASSUME NEW T, T \subseteq Nat, T # {}
    PROVE  \E x \in T : \A y \in T : x <= y
<1>1. IsWellFoundedOn(OpToRel(<, Nat), Nat)
  BY NatLessThanWellFounded
<1>2. \A x, y \in Nat : x < y => <<x, y>> \in OpToRel(<, Nat)
  BY DEF OpToRel
<1>3. \E x \in T : \A y \in T : ~(<<y, x>> \in OpToRel(<, Nat))
  BY <1>1, MinimalOf
<1>. QED
  BY <1>2, <1>3, MinimalIsLeast

\* A nonempty set of numbers with a bound has a largest one, and that is its Max.
LEMMA MaxOf ==
    ASSUME NEW n \in Nat, NEW T, T \subseteq 0..n, T # {}
    PROVE  P!Max(T) \in T /\ \A y \in T : y <= P!Max(T)
<1>. DEFINE U == {n - x : x \in T}
<1>1. U \subseteq Nat /\ U # {}
  <2>1. ASSUME NEW u \in U PROVE u \in Nat
    <3>1. PICK x \in T : u = n - x
      OBVIOUS
    <3>2. x \in 0..n
      OBVIOUS
    <3>. QED
      BY <3>1, <3>2
  <2>2. PICK x \in T : TRUE
    OBVIOUS
  <2>3. n - x \in U
    OBVIOUS
  <2>. QED
    BY <2>1, <2>3
<1>. HIDE DEF U
<1>2. PICK u \in U : \A v \in U : u <= v
  BY <1>1, LeastOf
<1>3. PICK x \in T : u = n - x
  BY <1>2 DEF U
<1>4. \A y \in T : n - y \in U
  BY DEF U
<1>5. \A y \in T : n - x <= n - y
  BY <1>2, <1>3, <1>4
<1>6. \A y \in T : x >= y
  BY <1>5
<1>7. \E m \in T : \A y \in T : m >= y
  BY <1>6
<1>. QED
  BY <1>7 DEF P!Max

\* A number of bytes less is less, however large the budget.
LEMMA MoreChunks ==
    ASSUME NEW j \in Nat, NEW k \in Nat, j <= k
    PROVE  j * Budget <= k * Budget /\ j * Budget \in Nat /\ k * Budget \in Nat
           /\ (k + 1) * Budget = k * Budget + Budget
  BY LineChunksAssumption

(***************************************************************************)
(* The pieces of a long line                                               *)
(***************************************************************************)

\* What is left of a line that is cut starts with a character, and has content
\* when the last piece can have it.
Remains ==
    off < Len(line) =>
        /\ P!WellFormed => P!At(off) # "cont"
        /\ P!Content # {} /\ Len(line) - P!Cut(P!Max(P!Content)) <= Budget
              => P!Max(P!Content) >= off

\* A newline can only be the last byte of a line.
OneLine ==
    /\ line \in Seq(P!Byte) /\ off \in 0..Len(line)
    /\ \A i \in 1..Len(line) - 1 : line[i] # "nl"

PieceType == [off : Nat, len : Nat]

CutInv ==
    /\ OneLine /\ Remains
    /\ pieces \in Seq(PieceType)
    /\ PiecesSound

\* utf8_cut goes back three bytes at most, and to the start of a character.
LEMMA CutBack ==
    ASSUME OneLine, NEW pos \in 0..Len(line) - 1
    PROVE  /\ P!Cut(pos) \in 0..pos /\ pos - 3 <= P!Cut(pos)
           /\ P!WellFormed => P!At(P!Cut(pos)) # "cont"
<1>. DEFINE starts == {o \in P!Tail3(pos)..pos : P!At(o) # "cont"}
<1>1. /\ pos \in Nat /\ Len(line) \in Nat /\ pos < Len(line)
      /\ P!Tail3(pos) \in 0..pos /\ pos - 3 <= P!Tail3(pos)
  BY DEF OneLine, P!Tail3
<1>2. P!Cut(pos) = IF starts = {} THEN pos ELSE P!Max(starts)
  BY DEF P!Cut
<1>3. starts # {} => P!Max(starts) \in starts
  <2>1. starts \subseteq 0..pos
    BY <1>1
  <2>. HIDE DEF starts
  <2>. QED
    BY <1>1, <2>1, MaxOf
<1>4. P!WellFormed => starts # {}
  <2>. SUFFICES ASSUME P!WellFormed PROVE starts # {}
    OBVIOUS
  <2>1. CASE pos <= 3
    <3>1. P!Tail3(pos) = 0
      BY <1>1, <2>1 DEF P!Tail3
    <3>2. line[1] # "cont"
      BY <1>1 DEF P!WellFormed
    <3>3. 0 \in starts
      BY <1>1, <3>1, <3>2 DEF P!At
    <3>. QED
      BY <3>3
  <2>2. CASE ~(pos <= 3)
    <3>1. pos \in 4..Len(line) - 1 /\ P!Tail3(pos) = pos - 3
      BY <1>1, <2>2 DEF P!Tail3
    <3>2. PICK k \in pos - 3..pos : line[k + 1] # "cont"
      BY <3>1 DEF P!WellFormed
    <3>3. k \in starts
      BY <3>1, <3>2 DEF P!At
    <3>. QED
      BY <3>3
  <2>. QED
    BY <2>1, <2>2
<1>5. CASE starts = {}
  BY <1>1, <1>2, <1>4, <1>5
<1>6. CASE starts # {}
  <2>1. P!Cut(pos) \in starts
    BY <1>2, <1>3, <1>6
  <2>. QED
    BY <1>1, <2>1
<1>. QED
  BY <1>5, <1>6

\* The piece may end earlier, at the start of a character.
LEMMA BlankTailBack ==
    ASSUME OneLine, NEW e \in Nat, off < e, e < Len(line)
    PROVE  /\ P!BeforeBlankTail(e) \in Nat /\ off < P!BeforeBlankTail(e) /\ P!BeforeBlankTail(e) <= e
           /\ P!WellFormed /\ P!At(e) # "cont" => P!At(P!BeforeBlankTail(e)) # "cont"
<1>. DEFINE kept == {o \in off..e - 1 : P!At(o) # "blank"}
            cut == P!Cut(P!Max(kept))
<1>1. off \in Nat /\ Len(line) \in Nat
  BY DEF OneLine
<1>2. P!BeforeBlankTail(e) = IF kept # {} /\ cut > off /\ Len(line) - cut <= Budget THEN cut ELSE e
  BY DEF P!BeforeBlankTail
<1>3. kept # {} => P!Max(kept) \in kept
  <2>1. kept \subseteq 0..e
    BY <1>1
  <2>. HIDE DEF kept
  <2>. QED
    BY <2>1, MaxOf
<1>4. kept # {} => P!Max(kept) \in 0..Len(line) - 1 /\ P!Max(kept) <= e - 1
  BY <1>1, <1>3
<1>. HIDE DEF kept
<1>5. kept # {} => /\ cut \in Nat /\ cut <= e - 1
                   /\ P!WellFormed => P!At(cut) # "cont"
  <2>. SUFFICES ASSUME kept # {}
                PROVE  cut \in Nat /\ cut <= e - 1 /\ (P!WellFormed => P!At(cut) # "cont")
    OBVIOUS
  <2>1. cut \in 0..P!Max(kept) /\ (P!WellFormed => P!At(cut) # "cont")
    BY <1>4, CutBack
  <2>. QED
    BY <1>4, <2>1
<1>. HIDE DEF cut
<1>. QED
  BY <1>1, <1>2, <1>5

\* When only white space is left after e, the piece ends so that the last one has content.
LEMMA BlankTailKeeps ==
    ASSUME OneLine, NEW e \in Nat, off < e, e < Len(line), P!Content # {},
           Len(line) - P!Cut(P!Max(P!Content)) <= Budget,
           off < P!Cut(P!Max(P!Content)), P!Max(P!Content) < e
    PROVE  P!BeforeBlankTail(e) <= P!Max(P!Content)
<1>. DEFINE kept == {o \in off..e - 1 : P!At(o) # "blank"}
            m == P!Max(P!Content)
<1>1. off \in Nat /\ Len(line) \in Nat
  BY DEF OneLine
<1>2. P!BeforeBlankTail(e) =
        IF kept # {} /\ P!Cut(P!Max(kept)) > off /\ Len(line) - P!Cut(P!Max(kept)) <= Budget
        THEN P!Cut(P!Max(kept)) ELSE e
  BY DEF P!BeforeBlankTail
<1>3. m \in P!Content /\ \A y \in P!Content : y <= m
  <2>1. P!Content \subseteq 0..Len(line)
    BY <1>1 DEF P!Content
  <2>. QED
    BY <1>1, <2>1, MaxOf
<1>4. m \in 0..Len(line) - 1 /\ P!At(m) # "blank"
  BY <1>3 DEF P!Content, P!Space
<1>5. P!Cut(m) \in 0..m
  BY <1>4, CutBack
<1>. HIDE DEF m
<1>6. m \in kept
  BY <1>1, <1>4, <1>5 DEF m
<1>7. \A o \in kept : o <= m
  <2>. SUFFICES ASSUME NEW o \in kept PROVE o <= m
    OBVIOUS
  <2>1. o \in 0..Len(line) - 1 /\ o + 1 \in 1..Len(line) - 1 /\ P!At(o) # "blank"
    BY <1>1
  <2>2. P!At(o) # "nl"
    BY <2>1 DEF OneLine, P!At
  <2>3. o \in P!Content
    BY <2>1, <2>2 DEF P!Content, P!Space
  <2>. QED
    BY <1>3, <2>3
<1>8. P!Max(kept) \in kept /\ \A o \in kept : o <= P!Max(kept)
  <2>1. kept \subseteq 0..e
    BY <1>1
  <2>. HIDE DEF kept
  <2>. QED
    BY <1>6, <2>1, MaxOf
<1>9. P!Max(kept) = m
  <2>1. P!Max(kept) <= m /\ m <= P!Max(kept)
    BY <1>6, <1>7, <1>8
  <2>2. P!Max(kept) \in Nat /\ m \in Nat
    BY <1>1, <1>4, <1>8
  <2>. QED
    BY <2>1, <2>2
<1>. HIDE DEF kept
<1>10. P!BeforeBlankTail(e) = P!Cut(m)
  BY <1>2, <1>6, <1>9 DEF m
<1>. QED
  BY <1>4, <1>5, <1>10 DEF m

\* A piece is neither empty nor too large, and leaves what can be cut on.
LEMMA PieceSound ==
    ASSUME OneLine, Remains, off < Len(line)
    PROVE  LET e == P!PieceEnd
           IN  /\ e \in Nat /\ off < e /\ e <= Len(line) /\ e <= off + Budget
               /\ e < Len(line) =>
                    /\ P!WellFormed => P!At(e) # "cont"
                    /\ P!Content # {} /\ Len(line) - P!Cut(P!Max(P!Content)) <= Budget
                          => P!Max(P!Content) >= e
<1>. DEFINE size == Len(line)
            cut == P!Cut(off + Budget)
            e == IF cut > off THEN cut ELSE off + Budget
            blank == size - e <= Budget /\ \A o \in e..size - 1 : P!Space(o)
            m == P!Max(P!Content)
<1>1. /\ off \in Nat /\ size \in Nat /\ Budget \in Nat /\ Budget > 3
  BY LineChunksAssumption, ChunkPlanAssumption DEF OneLine
<1>2. CASE off + Budget >= size
  <2>1. P!PieceEnd = size
    BY <1>2 DEF P!PieceEnd
  <2>. QED
    BY <1>1, <1>2, <2>1
<1>3. CASE ~(off + Budget >= size)
  <2>1. P!PieceEnd = IF blank THEN P!BeforeBlankTail(e) ELSE e
    BY <1>3 DEF P!PieceEnd
  <2>2. off + Budget \in 0..size - 1
    BY <1>1, <1>3
  <2>3. /\ cut \in Nat /\ cut <= off + Budget /\ cut > off
        /\ P!WellFormed => P!At(cut) # "cont"
    <3>1. /\ cut \in 0..(off + Budget) /\ (off + Budget) - 3 <= cut
          /\ P!WellFormed => P!At(cut) # "cont"
      BY <2>2, CutBack
    <3>. HIDE DEF cut
    <3>. QED
      BY <1>1, <3>1
  <2>. HIDE DEF cut
  <2>4. /\ e \in Nat /\ e > off /\ e <= off + Budget /\ e < size
        /\ P!WellFormed => P!At(e) # "cont"
    BY <1>1, <1>3, <2>3
  <2>. HIDE DEF e
  <2>5. /\ P!BeforeBlankTail(e) \in Nat /\ off < P!BeforeBlankTail(e) /\ P!BeforeBlankTail(e) <= e
        /\ P!WellFormed => P!At(P!BeforeBlankTail(e)) # "cont"
    BY <2>4, BlankTailBack
  <2>6. ASSUME P!Content # {}, size - P!Cut(m) <= Budget
        PROVE  m >= P!PieceEnd
    <3>1. P!Content \subseteq 0..size
      BY <1>1 DEF P!Content
    <3>2. m \in P!Content /\ \A y \in P!Content : y <= m
      BY <1>1, <2>6, <3>1, MaxOf
    <3>3. m \in 0..size - 1
      BY <3>2 DEF P!Content
    <3>4. P!Cut(m) \in 0..m
      BY <3>3, CutBack
    <3>5. off < P!Cut(m)
      BY <1>1, <1>3, <2>6, <3>3, <3>4
    <3>6. CASE m >= e
      <4>1. P!PieceEnd <= e
        BY <2>1, <2>4, <2>5
      <4>2. P!PieceEnd \in Nat
        BY <2>1, <2>4, <2>5
      <4>. QED
        BY <2>4, <3>3, <3>6, <4>1, <4>2
    <3>7. CASE ~(m >= e)
      <4>1. m < e
        BY <2>4, <3>3, <3>7
      <4>2. size - e <= Budget
        BY <1>1, <2>4, <2>6, <3>3, <3>4, <4>1
      <4>3. ASSUME NEW o \in e..size - 1 PROVE P!Space(o)
        <5>1. o \in 0..size - 1 /\ ~(o <= m)
          BY <1>1, <2>4, <3>3, <4>1
        <5>2. o \notin P!Content
          BY <3>2, <5>1
        <5>. QED
          BY <5>1, <5>2 DEF P!Content
      <4>4. P!PieceEnd = P!BeforeBlankTail(e)
        BY <2>1, <4>2, <4>3
      <4>5. P!BeforeBlankTail(e) <= m
        BY <2>4, <2>6, <3>5, <4>1, BlankTailKeeps
      <4>. QED
        BY <2>5, <3>3, <4>4, <4>5
    <3>. QED
      BY <3>6, <3>7
  <2>. HIDE DEF blank
  <2>7. P!PieceEnd \in {e, P!BeforeBlankTail(e)}
    BY <2>1
  <2>8. /\ P!PieceEnd \in Nat /\ off < P!PieceEnd /\ P!PieceEnd <= size /\ P!PieceEnd <= off + Budget
        /\ P!WellFormed => P!At(P!PieceEnd) # "cont"
    <3>1. CASE P!PieceEnd = e
      BY <2>4, <3>1
    <3>2. CASE P!PieceEnd = P!BeforeBlankTail(e)
      BY <1>1, <2>4, <2>5, <3>2
    <3>. QED
      BY <2>7, <3>1, <3>2
  <2>. QED
    BY <2>6, <2>8
<1>. QED
  BY <1>2, <1>3

\* A line that begins to be cut.
LEMMA BeginKeeps ==
    ASSUME NEW bytes \in Seq(P!Byte), \A i \in 1..Len(bytes) - 1 : bytes[i] # "nl", P!Begin(bytes)
    PROVE  CutInv'
<1>1. line' = bytes /\ off' = 0 /\ pieces' = <<>> /\ Len(bytes) \in Nat
  BY DEF P!Begin
<1>2. OneLine' /\ pieces' \in Seq(PieceType)
  BY <1>1 DEF OneLine
<1>3. Remains'
  <2>. SUFFICES ASSUME 0 < Len(bytes)
                PROVE  /\ P!WellFormed' => P!At(0)' # "cont"
                       /\ P!Content' # {} => P!Max(P!Content') >= 0
    BY <1>1 DEF Remains
  <2>1. P!WellFormed' => P!At(0)' # "cont"
    BY <1>1 DEF P!WellFormed, P!At
  <2>2. P!Content' # {} => P!Max(P!Content') >= 0
    <3>1. P!Content' \subseteq 0..Len(bytes)
      BY <1>1 DEF P!Content
    <3>2. P!Content' # {} => P!Max(P!Content') \in 0..Len(bytes)
      BY <1>1, <3>1, MaxOf
    <3>. QED
      BY <3>2
  <2>. QED
    BY <2>1, <2>2
<1>4. PiecesSound'
  BY <1>1 DEF PiecesSound, P!OnBoundary, P!CarriesContent
<1>. QED
  BY <1>2, <1>3, <1>4 DEF CutInv

\* The next piece.
LEMMA PieceKeeps ==
    ASSUME CutInv, P!Piece
    PROVE  CutInv'
<1>. DEFINE e == P!PieceEnd
            p == [off |-> off, len |-> e - off]
            n == Len(pieces)
<1>1. off < Len(line) /\ off' = e /\ pieces' = Append(pieces, p) /\ line' = line
  BY DEF P!Piece
<1>2. /\ OneLine /\ Remains /\ pieces \in Seq(PieceType)
      /\ off \in Nat /\ Len(line) \in Nat /\ n \in Nat
  BY DEF CutInv, OneLine
<1>3. /\ e \in Nat /\ off < e /\ e <= Len(line)
      /\ e < Len(line) =>
           /\ P!WellFormed => P!At(e) # "cont"
           /\ P!Content # {} /\ Len(line) - P!Cut(P!Max(P!Content)) <= Budget
                 => P!Max(P!Content) >= e
  BY <1>1, <1>2, PieceSound
<1>. HIDE DEF e
<1>4. p \in PieceType
  BY <1>2, <1>3 DEF PieceType
<1>. HIDE DEF p
<1>5. /\ pieces' \in Seq(PieceType) /\ Len(pieces') = n + 1 /\ pieces'[n + 1] = p /\ pieces' # <<>>
      /\ \A k \in 1..n : pieces'[k] = pieces[k]
      /\ DOMAIN pieces' = 1..(n + 1) /\ DOMAIN pieces = 1..n
  BY <1>1, <1>2, <1>4
<1>6. /\ P!WellFormed' <=> P!WellFormed
      /\ P!Content' = P!Content
      /\ \A o : P!At(o)' = P!At(o) /\ P!Cut(o)' = P!Cut(o)
  BY <1>1 DEF P!WellFormed, P!Content, P!Space, P!At, P!Cut
<1>7. OneLine'
  BY <1>1, <1>2, <1>3 DEF OneLine
<1>8. Remains'
  BY <1>1, <1>3, <1>6 DEF Remains
<1>9. P!OnBoundary'
  <2>. SUFFICES ASSUME P!WellFormed, NEW k \in 1..(n + 1)
                PROVE  P!At(pieces'[k].off) # "cont"
    BY <1>5, <1>6 DEF P!OnBoundary
  <2>1. CASE k = n + 1
    <3>1. P!At(off) # "cont"
      BY <1>1, <1>2 DEF Remains
    <3>. QED
      BY <1>5, <2>1, <3>1 DEF p
  <2>2. CASE k # n + 1
    <3>1. k \in 1..n
      BY <1>2, <2>2
    <3>. QED
      BY <1>5, <3>1 DEF CutInv, PiecesSound, P!OnBoundary
  <2>. QED
    BY <2>1, <2>2
<1>10. P!CarriesContent'
  <2>. SUFFICES ASSUME P!Content # {}, Len(line) - P!Cut(P!Max(P!Content)) <= Budget
                PROVE  \E o \in P!Content : o >= off
    BY <1>1, <1>5, <1>6 DEF P!CarriesContent, p
  <2>1. P!Content \subseteq 0..Len(line)
    BY <1>2 DEF P!Content
  <2>2. P!Max(P!Content) \in P!Content
    BY <1>2, <2>1, MaxOf
  <2>. QED
    BY <1>1, <1>2, <2>2 DEF Remains
<1>. QED
  BY <1>5, <1>7, <1>8, <1>9, <1>10 DEF CutInv, PiecesSound

(***************************************************************************)
(* The inductive invariant of the plan                                     *)
(***************************************************************************)

\* The whole file is one chunk, its lines were not looked at.
Whole == plan # <<>> /\ ranges = <<>>

Chunk == [first : Nat \ {0}, last : Nat \ {0}, off : Nat \cup {NoOffset}, len : Nat]

\* Where a chunk starts and stops in a file with the ends "ends" of its lines.
Starts(c, ends) == ends[c.first] + (IF c.off = NoOffset THEN 0 ELSE c.off)
Stops(c, ends) == IF c.off = NoOffset THEN ends[c.last + 1] ELSE Starts(c, ends) + c.len

GoodChunk(c, ends) ==
    /\ c \in Chunk
    /\ c.first <= c.last /\ c.last <= Len(ends) - 1
    /\ Starts(c, ends) \in Nat /\ Stops(c, ends) \in Nat
    /\ Starts(c, ends) < Stops(c, ends) /\ Stops(c, ends) <= Starts(c, ends) + Budget

\* The bytes of the file that the plan covers.
Reached(pl, ends) == IF pl = <<>> THEN 0 ELSE Stops(pl[Len(pl)], ends)

GoodPlan(pl, ends) ==
    /\ pl \in Seq(Chunk)
    /\ \A k \in 1..Len(pl) : GoodChunk(pl[k], ends) /\ Stops(pl[k], ends) <= k * Budget
    /\ \A k \in 1..Len(pl) - 1 : /\ Starts(pl[k + 1], ends) <= Stops(pl[k], ends)
                                 /\ Stops(pl[k], ends) < Stops(pl[k + 1], ends)
    /\ pl # <<>> => Starts(pl[1], ends) = 0

\* The plan covers the ranges it has taken, of the last one what is cut off.
Progress ==
    IF taken = 0 THEN Reached(plan, at) = 0 /\ ~Cutting
    ELSE LET r == ranges[taken]
         IN  /\ r.kind = "L" => Reached(plan, at) = at[r.last + 1] /\ ~Cutting
             /\ r.kind = "B" => /\ Reached(plan, at) = at[r.first] + off
                                /\ Len(line) = Bytes(r.first, r.last) - (IF open THEN 1 ELSE 0)

\* A long line waits alone, right after it was read.
Waiting ==
    \A k \in taken + 1..Len(ranges) : ranges[k].kind = "B" => ranges[k].last = Lines

\* The line without a newline is the last one, and it is long.
Opened ==
    open => /\ taken = Len(ranges) /\ taken > 0
            /\ ranges[taken].kind = "B" /\ ranges[taken].last = Lines

Streaming == GoodPlan(plan, at) /\ Progress /\ Waiting /\ Opened

PlanInv ==
    /\ plan \in Seq(Chunk) /\ taken \in 0..Len(ranges) /\ open \in BOOLEAN /\ at[1] = 0
    /\ CutInv
    /\ Whole => pc = "ended" /\ ~Cutting
    /\ ~Whole => Streaming

\* A chunk that goes on where the plan ends, or a few lines before.
LEMMA AddChunk ==
    ASSUME NEW pl, NEW ends, NEW c, GoodPlan(pl, ends), GoodChunk(c, ends),
           Starts(c, ends) <= Reached(pl, ends), Reached(pl, ends) < Stops(c, ends)
    PROVE  /\ GoodPlan(Append(pl, c), ends)
           /\ Append(pl, c) # <<>>
           /\ Reached(Append(pl, c), ends) = Stops(c, ends)
<1>. DEFINE out == Append(pl, c)
            n == Len(pl)
<1>1. pl \in Seq(Chunk) /\ c \in Chunk /\ n \in Nat /\ (pl = <<>> <=> n = 0)
  BY DEF GoodPlan, GoodChunk
<1>2. /\ out \in Seq(Chunk) /\ Len(out) = n + 1 /\ out[n + 1] = c /\ out # <<>>
      /\ \A k \in 1..n : out[k] = pl[k]
  <2>1. /\ out \in Seq(Chunk) /\ Len(out) = n + 1 /\ out[n + 1] = c
        /\ \A k \in 1..n : out[k] = pl[k]
    BY <1>1, AppendProperties
  <2>2. out # <<>>
    BY <1>1, <2>1
  <2>. QED
    BY <2>1, <2>2
<1>. HIDE DEF out
<1>3. /\ Starts(c, ends) \in Nat /\ Stops(c, ends) \in Nat
      /\ Stops(c, ends) <= Starts(c, ends) + Budget
      /\ Budget \in Nat
  BY LineChunksAssumption DEF GoodChunk
<1>4. Reached(pl, ends) \in Nat /\ Reached(pl, ends) <= n * Budget
  <2>1. CASE pl = <<>>
    <3>1. Reached(pl, ends) = 0 /\ n = 0
      BY <1>1, <2>1 DEF Reached
    <3>. QED
      BY <1>3, <3>1
  <2>2. CASE pl # <<>>
    <3>1. n \in 1..n
      BY <1>1, <2>2
    <3>2. GoodChunk(pl[n], ends) /\ Stops(pl[n], ends) <= n * Budget
      BY <3>1 DEF GoodPlan
    <3>. QED
      BY <2>2, <3>2 DEF Reached, GoodChunk
  <2>. QED
    BY <2>1, <2>2
<1>5. Stops(c, ends) <= (n + 1) * Budget
  <2>1. (n + 1) * Budget = n * Budget + Budget /\ n * Budget \in Nat
    <3>1. n <= n
      BY <1>1
    <3>. HIDE DEF n
    <3>. QED
      BY <1>1, <3>1, MoreChunks
  <2>. DEFINE a == Starts(c, ends)
              z == Stops(c, ends)
              m == n * Budget
              q == Reached(pl, ends)
  <2>2. a \in Nat /\ z \in Nat /\ m \in Nat /\ q \in Nat /\ a <= q /\ q <= m /\ z <= a + Budget
    BY <1>3, <1>4, <2>1
  <2>. HIDE DEF a, z, m, q
  <2>3. z <= m + Budget
    BY <1>3, <2>2
  <2>. QED
    BY <2>1, <2>3 DEF z, m
<1>6. ASSUME NEW k \in 1..Len(out) PROVE GoodChunk(out[k], ends) /\ Stops(out[k], ends) <= k * Budget
  <2>1. CASE k = n + 1
    BY <1>2, <1>5, <2>1
  <2>2. CASE k # n + 1
    <3>1. k \in 1..n
      BY <1>1, <1>2, <2>2
    <3>. QED
      BY <1>2, <3>1 DEF GoodPlan
  <2>. QED
    BY <2>1, <2>2
<1>7. ASSUME NEW k \in 1..Len(out) - 1
      PROVE  Starts(out[k + 1], ends) <= Stops(out[k], ends) /\ Stops(out[k], ends) < Stops(out[k + 1], ends)
  <2>1. CASE k = n
    <3>1. pl # <<>> /\ k \in 1..n
      BY <1>1, <1>2, <2>1
    <3>2. Reached(pl, ends) = Stops(pl[n], ends)
      BY <3>1 DEF Reached
    <3>3. out[k] = pl[n] /\ out[k + 1] = c
      BY <1>2, <2>1, <3>1
    <3>. QED
      BY <3>2, <3>3
  <2>2. CASE k # n
    <3>1. k \in 1..n - 1 /\ k \in 1..n /\ k + 1 \in 1..n
      BY <1>1, <1>2, <2>2
    <3>2. out[k] = pl[k] /\ out[k + 1] = pl[k + 1]
      BY <1>2, <3>1
    <3>. QED
      BY <3>1, <3>2 DEF GoodPlan
  <2>. QED
    BY <2>1, <2>2
<1>8. Starts(out[1], ends) = 0
  <2>1. CASE pl = <<>>
    <3>1. Reached(pl, ends) = 0 /\ out[1] = c
      BY <1>1, <1>2, <2>1 DEF Reached
    <3>. QED
      BY <1>3, <3>1
  <2>2. CASE pl # <<>>
    <3>1. 1 \in 1..n
      BY <1>1, <2>2
    <3>2. out[1] = pl[1]
      BY <1>2, <3>1
    <3>. QED
      BY <2>2, <3>2 DEF GoodPlan
  <2>. QED
    BY <2>1, <2>2
<1>9. GoodPlan(out, ends)
  BY <1>2, <1>6, <1>7, <1>8 DEF GoodPlan
<1>10. Reached(out, ends) = Stops(c, ends)
  BY <1>2 DEF Reached
<1>. QED
  BY <1>2, <1>9, <1>10 DEF out

\* Another line changes nothing about the chunks before it.
LEMMA PlanGrow ==
    ASSUME NEW pl, NEW ends \in Seq(Nat), NEW more \in Seq(Nat), Len(ends) <= Len(more),
           \A k \in 1..Len(ends) : more[k] = ends[k],
           GoodPlan(pl, ends)
    PROVE  GoodPlan(pl, more) /\ Reached(pl, more) = Reached(pl, ends)
<1>1. Len(ends) \in Nat /\ Len(more) \in Nat
  OBVIOUS
<1>2. ASSUME NEW c, GoodChunk(c, ends)
      PROVE  GoodChunk(c, more) /\ Starts(c, more) = Starts(c, ends) /\ Stops(c, more) = Stops(c, ends)
  <2>1. /\ c.first \in Nat \ {0} /\ c.last \in Nat \ {0}
        /\ c.first <= c.last /\ c.last <= Len(ends) - 1
    BY <1>2 DEF GoodChunk, Chunk
  <2>2. c.first \in 1..Len(ends) /\ c.last + 1 \in 1..Len(ends) /\ c.last <= Len(more) - 1
    <3>1. \A f, l \in Nat \ {0} : \A m, n \in Nat :
             f <= l /\ l <= n - 1 /\ n <= m => f \in 1..n /\ l + 1 \in 1..n /\ l <= m - 1
      OBVIOUS
    <3>. QED
      BY <1>1, <2>1, <3>1
  <2>3. Starts(c, more) = Starts(c, ends)
    BY <2>2 DEF Starts
  <2>4. Stops(c, more) = Stops(c, ends)
    BY <2>2, <2>3 DEF Stops
  <2>. QED
    BY <1>2, <2>2, <2>3, <2>4 DEF GoodChunk
<1>3. pl \in Seq(Chunk) /\ Len(pl) \in Nat
  BY DEF GoodPlan
<1>4. \A k \in 1..Len(pl) : /\ GoodChunk(pl[k], more)
                            /\ Starts(pl[k], more) = Starts(pl[k], ends)
                            /\ Stops(pl[k], more) = Stops(pl[k], ends)
  BY <1>2 DEF GoodPlan
<1>5. ASSUME NEW k \in 1..Len(pl) - 1
      PROVE  /\ Starts(pl[k + 1], more) <= Stops(pl[k], more)
             /\ Stops(pl[k], more) < Stops(pl[k + 1], more)
  <2>1. k \in 1..Len(pl) /\ k + 1 \in 1..Len(pl)
    BY <1>3
  <2>2. Starts(pl[k + 1], ends) <= Stops(pl[k], ends) /\ Stops(pl[k], ends) < Stops(pl[k + 1], ends)
    BY DEF GoodPlan
  <2>. QED
    BY <1>4, <2>1, <2>2
<1>6. pl # <<>> => 1 \in 1..Len(pl) /\ Len(pl) \in 1..Len(pl)
  BY <1>3
<1>7. pl # <<>> => Starts(pl[1], more) = 0
  BY <1>4, <1>6 DEF GoodPlan
<1>8. Reached(pl, more) = Reached(pl, ends)
  BY <1>4, <1>6 DEF Reached
<1>9. \A k \in 1..Len(pl) : Stops(pl[k], more) <= k * Budget
  BY <1>4 DEF GoodPlan
<1>. QED
  BY <1>3, <1>4, <1>5, <1>7, <1>8, <1>9 DEF GoodPlan

\* The ends of the lines are in order.
LEMMA EndsInOrder ==
    ASSUME IInv, NEW j \in 1..Len(at), NEW k \in 1..Len(at)
    PROVE  at[j] \in Nat /\ at[k] \in Nat /\ (j < k => at[j] < at[k])
  BY DEF IInv, TypeOK

\* What is known of a range that is out.
LEMMA RangeOut ==
    ASSUME IInv, NEW k \in 1..Len(ranges)
    PROVE  LET r == ranges[k]
           IN  /\ r.first \in 1..Lines /\ r.last \in 1..Lines /\ r.kind \in {"L", "B"}
               /\ r.first <= r.last /\ r.last + 1 \in 1..Len(at)
               /\ Lines \in Nat /\ Len(at) = Lines + 1
               /\ at[r.first] \in Nat /\ at[r.last + 1] \in Nat
               /\ at[r.first] < at[r.last + 1]
               /\ r.kind = "L" => Bytes(r.first, r.last) <= Budget
               /\ r.kind = "B" => r.first = r.last /\ Bytes(r.first, r.last) > Budget
               /\ Bytes(r.first, r.last) = at[r.last + 1] - at[r.first]
<1>. DEFINE r == ranges[k]
<1>1. GoodRange(r, at) /\ at \in Seq(Nat) /\ Len(at) >= 1
  BY DEF IInv, GoodRanges, TypeOK
<1>2. Lines \in Nat /\ Len(at) = Lines + 1 /\ Len(at) \in Nat
  BY <1>1 DEF Lines
<1>3. /\ r.first \in Nat \ {0} /\ r.last \in Nat \ {0} /\ r.kind \in {"L", "B"}
      /\ r.first <= r.last /\ r.last <= Lines
  BY <1>1, <1>2 DEF GoodRange, LineRange
<1>. HIDE DEF r
<1>5. r.first \in 1..Lines /\ r.last \in 1..Lines /\ r.first \in 1..Len(at) /\ r.last + 1 \in 1..Len(at) /\ r.first < r.last + 1
  BY <1>2, <1>3
<1>6. at[r.first] \in Nat /\ at[r.last + 1] \in Nat /\ at[r.first] < at[r.last + 1]
  BY <1>5, EndsInOrder
<1>7. Bytes(r.first, r.last) = at[r.last + 1] - at[r.first]
  BY DEF Bytes
<1>8. r.kind = "L" => Bytes(r.first, r.last) <= Budget
  BY <1>1, <1>7 DEF GoodRange
<1>9. r.kind = "B" => r.first = r.last /\ Bytes(r.first, r.last) > Budget
  BY <1>1, <1>7 DEF GoodRange
<1>. QED
  BY <1>2, <1>3, <1>5, <1>6, <1>7, <1>8, <1>9 DEF r

\* The plan ends where the next range starts, or a few lines later.
LEMMA NextRangeFollows ==
    ASSUME IInv, PlanInv, taken < Len(ranges), ~Cutting
    PROVE  LET r == ranges[taken + 1]
           IN  /\ taken + 1 \in 1..Len(ranges)
               /\ ~Whole /\ ~open
               /\ at[r.first] <= Reached(plan, at) /\ Reached(plan, at) < at[r.last + 1]
               /\ r.kind = "B" => Reached(plan, at) = at[r.first]
<1>. DEFINE r == ranges[taken + 1]
            q == ranges[taken]
<1>1. /\ taken \in 0..Len(ranges) /\ Len(ranges) \in Nat /\ taken \in Nat
      /\ taken + 1 \in 1..Len(ranges) /\ ranges # <<>> /\ ~Whole /\ GoodRanges(ranges, at)
      /\ open \in BOOLEAN
  BY DEF PlanInv, Whole, IInv, GoodRanges
<1>2. Streaming /\ at[1] = 0
  BY <1>1 DEF PlanInv
<1>3. ~open
  BY <1>1, <1>2 DEF Streaming, Opened
<1>4. /\ r.first \in 1..Lines /\ at[r.first] \in Nat /\ at[r.last + 1] \in Nat
      /\ at[r.first] < at[r.last + 1] /\ r.kind \in {"L", "B"}
  BY <1>1, RangeOut
<1>5. CASE taken = 0
  <2>1. r.first = 1
    BY <1>1, <1>5 DEF GoodRanges
  <2>2. Reached(plan, at) = 0
    BY <1>2, <1>5 DEF Streaming, Progress
  <2>. QED
    BY <1>1, <1>2, <1>3, <1>4, <2>1, <2>2
<1>6. CASE taken # 0
  <2>1. taken \in 1..Len(ranges) /\ taken \in 1..Len(ranges) - 1
    BY <1>1, <1>6
  <2>2. GoodStep(q, r, at)
    BY <1>1, <2>1 DEF GoodRanges
  <2>3. /\ q.first \in 1..Lines /\ q.last \in 1..Lines /\ q.kind \in {"L", "B"}
        /\ q.last + 1 \in 1..Len(at) /\ at[q.first] \in Nat /\ at[q.last + 1] \in Nat
        /\ Bytes(q.first, q.last) = at[q.last + 1] - at[q.first]
        /\ Lines \in Nat /\ Len(at) = Lines + 1
    BY <2>1, RangeOut
  <2>4. Reached(plan, at) = at[q.last + 1]
    <3>1. CASE q.kind = "L"
      BY <1>2, <1>6, <3>1 DEF Streaming, Progress
    <3>2. CASE q.kind = "B"
      <4>1. Reached(plan, at) = at[q.first] + off /\ Len(line) = Bytes(q.first, q.last)
        <5>1. /\ Reached(plan, at) = at[q.first] + off
              /\ Len(line) = Bytes(q.first, q.last) - (IF open THEN 1 ELSE 0)
          BY <1>2, <1>6, <3>2 DEF Streaming, Progress
        <5>2. Bytes(q.first, q.last) \in Int
          BY <2>3
        <5>. HIDE DEF q
        <5>. QED
          BY <1>3, <5>1, <5>2
      <4>2. off \in 0..Len(line) /\ Len(line) \in Nat
        BY DEF PlanInv, CutInv, OneLine
      <4>3. off = Len(line)
        BY <4>2 DEF Cutting
      <4>. QED
        BY <2>3, <4>1, <4>3
    <3>. QED
      BY <2>3, <3>1, <3>2
  <2>5. /\ r.first \in Nat /\ r.last \in Nat /\ r.first <= q.last + 1 /\ q.last < r.last
        /\ r.last + 1 \in 1..Len(at) /\ r.first \in 1..Len(at)
        /\ r.kind = "B" => r.first = q.last + 1
    <3>1. r.first \in 1..Lines /\ r.last \in 1..Lines /\ r.last + 1 \in 1..Len(at)
      BY <1>1, RangeOut
    <3>2. r.first <= q.last + 1 /\ q.last < r.last /\ (r.first <= q.last => r.kind = "L")
      BY <2>2 DEF GoodStep, Follows
    <3>. HIDE DEF q, r
    <3>3. r.first \in Nat /\ r.last \in Nat /\ q.last \in Nat /\ Lines \in Nat
      BY <2>3, <3>1
    <3>4. r.kind = "B" => r.first = q.last + 1
      BY <3>2, <3>3
    <3>5. r.first \in 1..Len(at) /\ r.first \in Nat /\ r.last \in Nat
      BY <2>3, <3>1, <3>3
    <3>. QED
      BY <3>1, <3>2, <3>3, <3>4, <3>5
  <2>. HIDE DEF q
  <2>7. at[r.first] <= at[q.last + 1]
    <3>1. CASE r.first = q.last + 1
      BY <2>3, <3>1
    <3>2. CASE r.first # q.last + 1
      <4>1. r.first < q.last + 1
        BY <2>3, <2>5, <3>2
      <4>2. at[r.first] < at[q.last + 1]
        <5>. HIDE DEF r
        <5>. QED
          BY <2>3, <2>5, <4>1, EndsInOrder
      <4>. QED
        BY <1>4, <2>3, <4>2
    <3>. QED
      BY <3>1, <3>2
  <2>8. at[q.last + 1] < at[r.last + 1]
    <3>. HIDE DEF r
    <3>1. q.last \in Nat /\ r.last \in Nat /\ q.last < r.last
      BY <2>3, <2>5
    <3>2. q.last + 1 < r.last + 1
      BY <3>1
    <3>. QED
      BY <2>3, <2>5, <3>2, EndsInOrder
  <2>9. r.kind = "B" => Reached(plan, at) = at[r.first]
    BY <2>4, <2>5
  <2>. QED
    BY <1>1, <1>3, <2>4, <2>7, <2>8, <2>9
<1>. QED
  BY <1>5, <1>6

\* A chunk of whole lines is the next range.
LEMMA TakeLinesKeeps ==
    ASSUME IInv, PlanInv, TakeLines
    PROVE  PlanInv'
<1>. DEFINE r == ranges[taken + 1]
            c == [first |-> r.first, last |-> r.last, off |-> NoOffset, len |-> 0]
<1>1. /\ ~Cutting /\ taken < Len(ranges) /\ r.kind = "L" /\ plan' = Append(plan, c) /\ taken' = taken + 1
      /\ UNCHANGED <<limit, at, start, end, total, ranges, pc, line, off, pieces, open>>
  BY DEF TakeLines, vars
<1>2. /\ taken + 1 \in 1..Len(ranges) /\ ~Whole /\ ~open
      /\ at[r.first] <= Reached(plan, at) /\ Reached(plan, at) < at[r.last + 1]
  BY <1>1, NextRangeFollows
<1>3. /\ r.first \in 1..Lines /\ r.last \in 1..Lines /\ r.first <= r.last
      /\ Lines \in Nat /\ Len(at) = Lines + 1
      /\ at[r.first] \in Nat /\ at[r.last + 1] \in Nat /\ at[r.first] < at[r.last + 1]
      /\ at[r.last + 1] - at[r.first] <= Budget
  <2>1. Bytes(r.first, r.last) = at[r.last + 1] - at[r.first] /\ Bytes(r.first, r.last) <= Budget
    BY <1>1, <1>2, RangeOut
  <2>. QED
    BY <1>2, <2>1, RangeOut
<1>4. Streaming
  BY <1>2 DEF PlanInv
<1>. HIDE DEF r
<1>5. Starts(c, at) = at[r.first] /\ Stops(c, at) = at[r.last + 1]
  BY <1>3 DEF Starts, Stops
<1>6. GoodChunk(c, at)
  <2>1. c \in Chunk /\ c.first = r.first /\ c.last = r.last
    BY <1>3 DEF Chunk, NoOffset
  <2>2. c.last <= Len(at) - 1
    BY <1>3, <2>1
  <2>3. Stops(c, at) <= Starts(c, at) + Budget
    BY <1>3, <1>5, LineChunksAssumption
  <2>. QED
    BY <1>3, <1>5, <2>1, <2>2, <2>3 DEF GoodChunk
<1>. HIDE DEF c
<1>7. GoodPlan(plan', at) /\ plan' # <<>> /\ Reached(plan', at) = at[r.last + 1]
  BY <1>1, <1>2, <1>4, <1>5, <1>6, AddChunk DEF Streaming
<1>8. /\ taken \in Nat /\ Len(ranges) \in Nat /\ taken' \in 0..Len(ranges) /\ taken' # 0 /\ ranges # <<>>
      /\ ranges[taken'] = r
  BY <1>1, <1>2 DEF PlanInv, r, IInv, TypeOK
<1>9. Progress'
  BY <1>1, <1>7, <1>8 DEF Progress, Cutting
<1>10. Waiting'
  <2>1. \A k \in taken' + 1..Len(ranges) : k \in taken + 1..Len(ranges)
    BY <1>1, <1>8
  <2>. QED
    BY <1>1, <1>4, <2>1 DEF Streaming, Waiting, Lines
<1>11. Opened'
  BY <1>1, <1>2 DEF Opened
<1>12. CutInv'
  BY <1>1 DEF PlanInv, CutInv, OneLine, Remains, PiecesSound, P!OnBoundary, P!CarriesContent,
              P!WellFormed, P!Content, P!Space, P!At, P!Cut
<1>13. ~Whole'
  BY <1>1, <1>8 DEF Whole
<1>14. plan' \in Seq(Chunk)
  BY <1>7 DEF GoodPlan
<1>15. GoodPlan(plan', at')
  BY <1>1, <1>7
<1>. QED
  BY <1>1, <1>8, <1>9, <1>10, <1>11, <1>12, <1>13, <1>14, <1>15 DEF PlanInv, Streaming

\* The lines of n bytes: only their last byte can be a newline.
LEMMA ShapesAreLines ==
    ASSUME NEW n \in Nat, n > 0, NEW bytes \in Shapes(n)
    PROVE  /\ bytes \in Seq(P!Byte) /\ Len(bytes) \in {n - 1, n}
           /\ \A i \in 1..Len(bytes) - 1 : bytes[i] # "nl"
<1>1. ASSUME NEW m \in Nat, NEW w, NEW b, NEW nl \in {0, 1}
      PROVE  /\ Shape(m, w, b, nl) \in Seq(P!Byte) /\ Len(Shape(m, w, b, nl)) = m
             /\ \A i \in 1..m - 1 : Shape(m, w, b, nl)[i] # "nl"
  <2>. DEFINE s == Shape(m, w, b, nl)
  <2>1. s = [i \in 1..m |-> s[i]]
    BY DEF Shape
  <2>2. \A i \in 1..m : s[i] \in P!Byte
    BY DEF Shape, P!Byte
  <2>3. \A i \in 1..m - 1 : s[i] # "nl"
    BY DEF Shape
  <2>. HIDE DEF s
  <2>4. s \in [1..m -> P!Byte]
    BY <2>1, <2>2
  <2>5. s \in Seq(P!Byte) /\ DOMAIN s = 1..m
    BY <2>4
  <2>6. Len(s) = m
    BY <2>5
  <2>. QED
    BY <2>3, <2>5, <2>6 DEF s
<1>2. PICK w \in {1, 2, 3, 4, 9}, b \in 0..n - 1 : bytes = Shape(n, w, b, 1) \/ bytes = Shape(n - 1, w, b, 0)
  BY DEF Shapes
<1>3. n - 1 \in Nat
  OBVIOUS
<1>4. CASE bytes = Shape(n, w, b, 1)
  BY <1>1, <1>4
<1>5. CASE bytes = Shape(n - 1, w, b, 0)
  BY <1>1, <1>3, <1>5
<1>. QED
  BY <1>2, <1>4, <1>5

\* A long line begins where the plan ends.
LEMMA StartLongLineKeeps ==
    ASSUME IInv, PlanInv, StartLongLine
    PROVE  PlanInv'
<1>. DEFINE r == ranges[taken + 1]
            n == Bytes(r.first, r.last)
<1>1. /\ ~Cutting /\ taken < Len(ranges) /\ r.kind = "B" /\ taken' = taken + 1
      /\ UNCHANGED <<limit, at, start, end, total, ranges, pc, plan>>
  BY DEF StartLongLine, vars
<1>2. PICK bytes \in Shapes(n) : P!Begin(bytes) /\ open' = (Len(bytes) < n)
  BY DEF StartLongLine
<1>3. /\ taken + 1 \in 1..Len(ranges) /\ ~Whole /\ ~open
      /\ Reached(plan, at) = at[r.first]
  BY <1>1, NextRangeFollows
<1>4. /\ r.first \in 1..Lines /\ r.last = r.first /\ n > Budget /\ n \in Nat /\ n > 0
      /\ at[r.first] \in Nat
  <2>1. /\ r.first \in 1..Lines /\ r.last = r.first /\ n > Budget
        /\ at[r.first] \in Nat /\ at[r.last + 1] \in Nat /\ at[r.first] < at[r.last + 1]
        /\ n = at[r.last + 1] - at[r.first]
    BY <1>1, <1>3, RangeOut
  <2>. HIDE DEF n
  <2>2. n \in Nat /\ n > 0
    BY <2>1
  <2>. QED
    BY <2>1, <2>2
<1>5. Streaming
  BY <1>3 DEF PlanInv
<1>6. /\ bytes \in Seq(P!Byte) /\ Len(bytes) \in {n - 1, n}
      /\ \A i \in 1..Len(bytes) - 1 : bytes[i] # "nl"
  <2>. HIDE DEF n
  <2>. QED
    BY <1>2, <1>4, ShapesAreLines
<1>7. CutInv'
  BY <1>2, <1>6, BeginKeeps
<1>8. line' = bytes /\ off' = 0
  BY <1>2 DEF P!Begin
<1>9. /\ taken \in Nat /\ Len(ranges) \in Nat /\ taken' \in 0..Len(ranges) /\ taken' \in Nat \ {0}
      /\ ranges # <<>> /\ ranges[taken'] = r
  BY <1>1, <1>3 DEF PlanInv, IInv, TypeOK
<1>. HIDE DEF n
<1>10. open' \in BOOLEAN /\ Len(bytes) = n - (IF open' THEN 1 ELSE 0)
  <2>1. CASE Len(bytes) = n
    <3>1. ~(Len(bytes) < n)
      BY <1>4, <2>1
    <3>2. (Len(bytes) < n) = FALSE
      BY <3>1
    <3>3. open' = FALSE
      BY <1>2, <3>2
    <3>4. Len(bytes) = n - 0
      BY <1>4, <2>1
    <3>. QED
      BY <3>3, <3>4
  <2>2. CASE Len(bytes) = n - 1
    <3>1. Len(bytes) < n
      BY <1>4, <2>2
    <3>2. open' = TRUE
      BY <1>2, <3>1
    <3>. QED
      BY <1>4, <2>2, <3>2
  <2>. QED
    BY <1>6, <2>1, <2>2
<1>11. n = at[r.last + 1] - at[r.first]
  BY DEF n, Bytes
<1>12. Progress'
  <2>1. Reached(plan, at) = at[r.first] + off'
    BY <1>3, <1>4, <1>8
  <2>2. ranges[taken'].kind = "B"
    BY <1>1, <1>9
  <2>3. ranges'[taken'] = r /\ taken' # 0 /\ r.kind = "B"
    BY <1>1, <1>9
  <2>4. Reached(plan', at') = at'[r.first] + off'
    BY <1>1, <2>1
  <2>5. Len(line') = (at'[r.last + 1] - at'[r.first]) - (IF open' THEN 1 ELSE 0)
    BY <1>1, <1>8, <1>10, <1>11
  <2>. HIDE DEF r
  <2>. QED
    BY <2>3, <2>4, <2>5 DEF Progress, Bytes
<1>13. Waiting'
  <2>1. \A k \in taken' + 1..Len(ranges) : k \in taken + 1..Len(ranges)
    BY <1>1, <1>9
  <2>. QED
    BY <1>1, <1>5, <2>1 DEF Streaming, Waiting, Lines
<1>14. r.last = Lines /\ taken' = Len(ranges)
  <2>1. r.last = Lines
    BY <1>1, <1>5, <1>9 DEF Streaming, Waiting
  <2>2. ASSUME taken' # Len(ranges) PROVE FALSE
    <3>1. taken' \in 1..Len(ranges) - 1 /\ taken' + 1 \in 1..Len(ranges)
      <4>1. \A a \in Nat : \A b \in 0..a : b # 0 /\ b # a => b \in 1..a - 1 /\ b + 1 \in 1..a
        OBVIOUS
      <4>. QED
        BY <1>9, <2>2, <4>1
    <3>2. GoodStep(ranges[taken'], ranges[taken' + 1], at)
      BY <3>1 DEF IInv, GoodRanges
    <3>3. Lines < ranges[taken' + 1].last
      BY <1>9, <2>1, <3>2 DEF GoodStep
    <3>4. ranges[taken' + 1].last \in 1..Lines /\ Lines \in Nat
      BY <3>1, RangeOut
    <3>. QED
      BY <3>3, <3>4
  <2>. QED
    BY <2>1, <2>2
<1>15. Opened'
  <2>1. Lines' = Lines
    BY <1>1 DEF Lines
  <2>2. taken' = Len(ranges') /\ taken' > 0 /\ ranges'[taken'].kind = "B" /\ ranges'[taken'].last = Lines'
    BY <1>1, <1>9, <1>14, <2>1
  <2>. QED
    BY <2>2 DEF Opened
<1>16. ~Whole'
  BY <1>1, <1>9 DEF Whole
<1>17. plan' \in Seq(Chunk) /\ GoodPlan(plan', at') /\ at'[1] = 0 /\ taken' \in 0..Len(ranges')
  BY <1>1, <1>5, <1>9 DEF PlanInv, Streaming
<1>. QED
  BY <1>7, <1>10, <1>12, <1>13, <1>15, <1>16, <1>17 DEF PlanInv, Streaming

\* The next piece of the line is a chunk.
LEMMA TakePieceKeeps ==
    ASSUME IInv, PlanInv, TakePiece
    PROVE  PlanInv'
<1>. DEFINE r == ranges[taken]
            e == P!PieceEnd
            p == [off |-> off, len |-> e - off]
            c == [first |-> r.first, last |-> r.first, off |-> off, len |-> e - off]
<1>1. /\ Cutting /\ P!Piece
      /\ UNCHANGED <<limit, at, start, end, total, ranges, pc, taken, open>>
      /\ off < Len(line) /\ off' = e /\ line' = line /\ pieces' = Append(pieces, p)
  BY DEF TakePiece, P!Piece, vars
<1>2. CutInv /\ ~Whole /\ Streaming /\ open \in BOOLEAN /\ taken \in 0..Len(ranges)
  BY <1>1 DEF PlanInv
<1>3. CutInv'
  BY <1>1, <1>2, PieceKeeps
<1>4. off \in Nat /\ e \in Nat /\ off < e /\ e <= off + Budget
  <2>1. off \in Nat /\ Len(line) \in Nat
    BY <1>2 DEF CutInv, OneLine
  <2>2. e \in Nat /\ off < e /\ e <= off + Budget
    BY <1>1, <1>2, PieceSound DEF CutInv
  <2>. QED
    BY <2>1, <2>2
<1>. HIDE DEF e
<1>5. /\ taken # 0 /\ taken \in 1..Len(ranges) /\ r.kind = "B" /\ ranges # <<>>
      /\ r.first \in 1..Lines /\ Lines \in Nat /\ Len(at) = Lines + 1 /\ at[r.first] \in Nat
  <2>1. taken # 0
    BY <1>1, <1>2 DEF Streaming, Progress
  <2>2. taken \in 1..Len(ranges) /\ ranges # <<>> /\ Len(ranges) \in Nat
    BY <1>2, <2>1 DEF IInv, TypeOK
  <2>3. r.kind # "L"
    BY <1>1, <1>2, <2>1 DEF Streaming, Progress
  <2>. QED
    BY <2>1, <2>2, <2>3, RangeOut
<1>6. Reached(plan, at) = at[r.first] + off /\ Len(line) = Bytes(r.first, r.last) - (IF open THEN 1 ELSE 0)
  BY <1>2, <1>5 DEF Streaming, Progress
<1>7. plan' = Append(plan, c)
  <2>1. pieces \in Seq(PieceType) /\ Len(pieces) \in Nat
    BY <1>2 DEF CutInv
  <2>2. p \in PieceType
    BY <1>4 DEF PieceType
  <2>. HIDE DEF p
  <2>3. pieces'[Len(pieces')] = p
    BY <1>1, <2>1, <2>2, AppendProperties
  <2>4. plan' = Append(plan, [first |-> r.first, last |-> r.first,
                              off |-> pieces'[Len(pieces')].off, len |-> pieces'[Len(pieces')].len])
    BY DEF TakePiece
  <2>5. pieces'[Len(pieces')].off = off /\ pieces'[Len(pieces')].len = e - off
    BY <2>3 DEF p
  <2>. QED
    BY <2>4, <2>5
<1>. HIDE DEF r
<1>8. c \in Chunk /\ c.first = r.first /\ c.last = r.first /\ c.off = off /\ c.len = e - off /\ c.off # NoOffset
  BY <1>4, <1>5 DEF Chunk, NoOffset
<1>. HIDE DEF c
<1>9. Starts(c, at) = at[r.first] + off /\ Stops(c, at) = at[r.first] + e
  <2>1. Starts(c, at) = at[r.first] + off /\ Stops(c, at) = (at[r.first] + off) + (e - off)
    BY <1>8 DEF Starts, Stops
  <2>2. \A a, o, z \in Nat : (a + o) + (z - o) = a + z
    OBVIOUS
  <2>. QED
    BY <1>4, <1>5, <2>1, <2>2
<1>10. GoodChunk(c, at)
  <2>1. /\ Starts(c, at) \in Nat /\ Stops(c, at) \in Nat /\ Starts(c, at) < Stops(c, at)
        /\ Stops(c, at) <= Starts(c, at) + Budget
    <3>1. \A a, o, z \in Nat : o < z /\ z <= o + Budget =>
             /\ a + o \in Nat /\ a + z \in Nat /\ a + o < a + z /\ a + z <= (a + o) + Budget
      BY LineChunksAssumption
    <3>. QED
      BY <1>4, <1>5, <1>9, <3>1
  <2>2. c.first <= c.last /\ c.last <= Len(at) - 1
    BY <1>5, <1>8
  <2>. QED
    BY <1>8, <2>1, <2>2 DEF GoodChunk
<1>11. GoodPlan(plan', at) /\ Reached(plan', at) = at[r.first] + e
  <2>1. Starts(c, at) <= Reached(plan, at) /\ Reached(plan, at) < Stops(c, at)
    BY <1>4, <1>5, <1>6, <1>9
  <2>. QED
    BY <1>2, <1>7, <1>9, <1>10, <2>1, AddChunk DEF Streaming
<1>12. Progress'
  <2>1. ranges'[taken'] = r /\ taken' # 0 /\ r.kind = "B"
    BY <1>1, <1>5 DEF r
  <2>2. Reached(plan', at') = at'[r.first] + off'
    BY <1>1, <1>11
  <2>3. Len(line') = (at'[r.last + 1] - at'[r.first]) - (IF open' THEN 1 ELSE 0)
    BY <1>1, <1>6 DEF Bytes
  <2>. QED
    BY <2>1, <2>2, <2>3 DEF Progress, Bytes
<1>13. Waiting' /\ Opened'
  BY <1>1, <1>2 DEF Streaming, Waiting, Opened, Lines
<1>14. ~Whole'
  BY <1>1, <1>5 DEF Whole
<1>15. plan' \in Seq(Chunk) /\ GoodPlan(plan', at') /\ at'[1] = 0 /\ taken' \in 0..Len(ranges') /\ open' \in BOOLEAN
  BY <1>1, <1>2, <1>11 DEF PlanInv, GoodPlan
<1>. QED
  BY <1>3, <1>12, <1>13, <1>14, <1>15 DEF PlanInv, Streaming

\* More ranges follow those that are out; a long line is the last of n lines.
Extends(rs, out, n) ==
    /\ Len(rs) <= Len(out)
    /\ \A k \in 1..Len(rs) : out[k] = rs[k]
    /\ \A k \in Len(rs) + 1..Len(out) : out[k].kind = "B" => out[k].last = n

LEMMA FlushedExtends ==
    ASSUME NEW n, ranges \in Seq(LineRange)
    PROVE  Flushed \in Seq(LineRange) => Extends(ranges, Flushed, n)
<1>1. Len(ranges) \in Nat
  OBVIOUS
<1>2. CASE end >= start
  <2>. DEFINE r == L(start, end)
              out == Append(ranges, r)
  <2>1. Flushed = out /\ r.kind = "L"
    BY <1>2 DEF Flushed, L
  <2>. HIDE DEF r
  <2>2. Len(out) = Len(ranges) + 1 /\ out[Len(ranges) + 1] = r /\ \A k \in 1..Len(ranges) : out[k] = ranges[k]
    BY <1>1
  <2>. HIDE DEF out
  <2>3. \A k \in Len(ranges) + 1..Len(out) : k = Len(ranges) + 1
    BY <1>1, <2>2
  <2>4. Extends(ranges, out, n)
    BY <1>1, <2>1, <2>2, <2>3 DEF Extends
  <2>. QED
    BY <2>1, <2>4
<1>3. CASE ~(end >= start)
  <2>1. Flushed = ranges
    BY <1>3 DEF Flushed
  <2>. QED
    BY <1>1, <2>1 DEF Extends
<1>. QED
  BY <1>2, <1>3

\* A line that is read, in each of the three ways.
LEMMA LineExtends ==
    ASSUME IInv, NEW size \in Sizes, LongLine(size) \/ JoinLine(size) \/ NextRange(size)
    PROVE  Extends(ranges, ranges', Lines')
<1>1. TypeOK /\ Read(size) /\ pc = "reading" /\ ranges \in Seq(LineRange) /\ Len(ranges) \in Nat
  BY DEF IInv, LongLine, JoinLine, NextRange, Read, TypeOK
<1>2. Grown(size)
  BY <1>1, ReadGrows
<1>3. Flushed \in Seq(LineRange) /\ Len(Flushed) \in Nat
  BY <1>1, FlushedGood DEF GoodRanges
<1>4. Extends(ranges, Flushed, Lines')
  BY <1>1, <1>3, FlushedExtends
<1>5. CASE JoinLine(size)
  <2>1. ranges' = ranges
    BY <1>5 DEF JoinLine
  <2>. QED
    BY <1>1, <2>1 DEF Extends
<1>6. CASE NextRange(size)
  BY <1>4, <1>6 DEF NextRange
<1>7. CASE LongLine(size)
  <2>1. CASE Len(Flushed) > limit
    BY <1>4, <1>7, <2>1 DEF LongLine
  <2>2. CASE ~(Len(Flushed) > limit)
    <3>. DEFINE rs == Flushed
                b == B(Lines + 1)
                out == Append(rs, b)
    <3>1. ranges' = out /\ b.last = Lines + 1 /\ b \in LineRange
      <4>1. Lines + 1 \in Nat \ {0}
        BY <1>2 DEF Grown
      <4>. QED
        BY <1>7, <2>2, <4>1 DEF LongLine, B, LineRange
    <3>. HIDE DEF rs, b
    <3>2. rs \in Seq(LineRange) /\ Len(rs) \in Nat /\ Extends(ranges, rs, Lines')
      BY <1>3, <1>4 DEF rs
    <3>3. /\ Len(out) = Len(rs) + 1 /\ out[Len(rs) + 1] = b
          /\ \A k \in 1..Len(rs) : out[k] = rs[k]
      BY <3>1, <3>2, AppendProperties
    <3>. HIDE DEF out
    <3>4. b.last = Lines'
      BY <1>2, <3>1 DEF Grown
    <3>5. Len(ranges) <= Len(out) /\ \A k \in 1..Len(ranges) : k \in 1..Len(rs) /\ out[k] = ranges[k]
      BY <1>1, <3>2, <3>3 DEF Extends
    <3>6. ASSUME NEW k \in Len(ranges) + 1..Len(out), out[k].kind = "B" PROVE out[k].last = Lines'
      <4>1. CASE k = Len(rs) + 1
        BY <3>3, <3>4, <4>1
      <4>2. CASE k # Len(rs) + 1
        <5>1. k \in 1..Len(rs) /\ k \in Len(ranges) + 1..Len(rs)
          BY <1>1, <3>2, <3>3, <4>2
        <5>. QED
          BY <3>2, <3>3, <3>6, <5>1 DEF Extends
      <4>. QED
        BY <4>1, <4>2
    <3>7. Extends(ranges, out, Lines')
      BY <3>5, <3>6 DEF Extends
    <3>. QED
      BY <3>1, <3>7
  <2>. QED
    BY <2>1, <2>2
<1>. QED
  BY <1>5, <1>6, <1>7

\* Reading on leaves the plan as it is.
LEMMA ReadingKeeps ==
    ASSUME IInv, PlanInv, pc = "reading", taken = Len(ranges), ~Cutting, UNCHANGED planVars,
           ranges' \in Seq(LineRange), Extends(ranges, ranges', Lines'),
           at' \in Seq(Nat), Len(at) <= Len(at'), \A k \in 1..Len(at) : at'[k] = at[k],
           open => ranges' = ranges /\ at' = at
    PROVE  PlanInv'
<1>1. UNCHANGED <<plan, taken, line, off, pieces, open>>
  BY DEF planVars
<1>2. /\ ~Whole /\ at \in Seq(Nat) /\ Len(at) \in Nat \ {0} /\ ranges \in Seq(LineRange) /\ Len(ranges) \in Nat
      /\ taken \in 0..Len(ranges) /\ open \in BOOLEAN /\ at[1] = 0 /\ plan \in Seq(Chunk)
  BY DEF PlanInv, IInv, TypeOK
<1>3. Streaming
  BY <1>2 DEF PlanInv
<1>4. Len(ranges') \in Nat /\ Len(ranges) <= Len(ranges')
  BY DEF Extends
<1>5. GoodPlan(plan, at') /\ Reached(plan, at') = Reached(plan, at)
  BY <1>2, <1>3, PlanGrow DEF Streaming
<1>6. taken' \in 0..Len(ranges') /\ at'[1] = 0
  <2>1. 1 \in 1..Len(at) /\ taken' \in 0..Len(ranges')
    BY <1>1, <1>2, <1>4
  <2>. QED
    BY <1>2, <2>1
<1>7. Progress'
  <2>1. CASE taken = 0
    BY <1>1, <1>3, <1>5, <2>1 DEF Streaming, Progress, Cutting
  <2>2. CASE taken # 0
    <3>. DEFINE r == ranges[taken]
    <3>1. taken \in 1..Len(ranges)
      BY <1>2, <2>2
    <3>2. /\ r.first \in 1..Lines /\ r.last + 1 \in 1..Len(at) /\ Lines \in Nat /\ Len(at) = Lines + 1
          /\ Bytes(r.first, r.last) = at[r.last + 1] - at[r.first]
      BY <3>1, RangeOut
    <3>3. ranges'[taken'] = r
      BY <1>1, <3>1 DEF Extends
    <3>4. /\ r.kind = "L" => Reached(plan, at) = at[r.last + 1]
          /\ r.kind = "B" => /\ Reached(plan, at) = at[r.first] + off
                             /\ Len(line) = Bytes(r.first, r.last) - (IF open THEN 1 ELSE 0)
      BY <1>3, <2>2 DEF Streaming, Progress
    <3>. HIDE DEF r
    <3>5. r.first \in 1..Len(at)
      BY <3>2
    <3>6. at'[r.first] = at[r.first] /\ at'[r.last + 1] = at[r.last + 1]
      BY <3>2, <3>5
    <3>7. Cutting' = Cutting
      BY <1>1 DEF Cutting
    <3>8. r.kind = "L" => Reached(plan', at') = at'[r.last + 1] /\ ~Cutting'
      BY <1>1, <1>5, <3>4, <3>6, <3>7
    <3>9. r.kind = "B" => /\ Reached(plan', at') = at'[r.first] + off'
                          /\ Len(line') = (at'[r.last + 1] - at'[r.first]) - (IF open' THEN 1 ELSE 0)
      BY <1>1, <1>5, <3>2, <3>4, <3>6
    <3>10. taken' # 0
      BY <1>1, <2>2
    <3>. QED
      BY <3>3, <3>8, <3>9, <3>10 DEF Progress, Bytes
  <2>. QED
    BY <2>1, <2>2
<1>8. Waiting'
  BY <1>1, <1>2 DEF Waiting, Extends
<1>9. Opened'
  <2>. SUFFICES ASSUME open PROVE Opened'
    BY <1>1 DEF Opened
  <2>1. ranges' = ranges /\ at' = at
    OBVIOUS
  <2>. QED
    BY <1>1, <1>3, <2>1 DEF Streaming, Opened, Lines
<1>10. CutInv'
  BY <1>1 DEF PlanInv, CutInv, OneLine, Remains, PiecesSound, P!OnBoundary, P!CarriesContent,
              P!WellFormed, P!Content, P!Space, P!At, P!Cut
<1>11. ~Whole'
  <2>1. plan = <<>> \/ ranges # <<>>
    BY <1>2 DEF Whole
  <2>2. ranges # <<>> => ranges' # <<>>
    BY <1>2, <1>4
  <2>. QED
    BY <1>1, <2>1, <2>2 DEF Whole
<1>12. GoodPlan(plan', at') /\ plan' \in Seq(Chunk) /\ open' \in BOOLEAN
  BY <1>1, <1>2, <1>5
<1>. QED
  BY <1>6, <1>7, <1>8, <1>9, <1>10, <1>11, <1>12 DEF PlanInv, Streaming

\* line_ranges goes on.
LEMMA AdvanceKeeps ==
    ASSUME IInv, PlanInv, Advance
    PROVE  IInv' /\ PlanInv'
<1>1. taken = Len(ranges) /\ ~Cutting /\ UNCHANGED planVars
  BY DEF Advance, Idle
<1>2. at \in Seq(Nat) /\ Len(at) \in Nat /\ Len(at) >= 1 /\ ranges \in Seq(LineRange)
  BY DEF IInv, TypeOK
<1>3. ASSUME NEW size \in Sizes, ~open, LongLine(size) \/ JoinLine(size) \/ NextRange(size)
      PROVE  IInv' /\ PlanInv'
  <2>1. IInv'
    BY <1>3, LongKeeps, JoinKeeps, NextRangeKeeps
  <2>2. TypeOK /\ Read(size) /\ pc = "reading"
    BY <1>3 DEF IInv, LongLine, JoinLine, NextRange, Read
  <2>3. Grown(size)
    BY <2>2, ReadGrows
  <2>4. /\ at' \in Seq(Nat) /\ Len(at) <= Len(at') /\ \A k \in 1..Len(at) : at'[k] = at[k]
    BY <1>2, <2>3 DEF Grown
  <2>5. ranges' \in Seq(LineRange)
    BY <2>1 DEF IInv, TypeOK
  <2>6. Extends(ranges, ranges', Lines')
    BY <1>3, LineExtends
  <2>. QED
    BY <1>1, <1>3, <2>1, <2>2, <2>4, <2>5, <2>6, ReadingKeeps
<1>4. ASSUME EndOfFile PROVE IInv' /\ PlanInv'
  <2>1. IInv'
    BY <1>4, EndKeeps
  <2>2. pc = "reading" /\ ranges' = Flushed /\ at' = at /\ Lines' = Lines
    BY <1>4 DEF EndOfFile, Lines
  <2>3. ranges' \in Seq(LineRange)
    BY <2>1 DEF IInv, TypeOK
  <2>4. Extends(ranges, ranges', Lines')
    BY <1>2, <2>2, <2>3, FlushedExtends
  <2>5. open => ranges' = ranges
    <3>. SUFFICES ASSUME open PROVE ranges' = ranges
      OBVIOUS
    <3>1. ~Whole
      BY <2>2 DEF PlanInv
    <3>2. taken = Len(ranges) /\ taken > 0 /\ ranges[taken].last = Lines
      BY <3>1 DEF PlanInv, Streaming, Opened
    <3>3. Filling
      BY <2>2 DEF IInv
    <3>4. ranges # <<>>
      BY <3>2
    <3>5. end >= start => Lines < end
      BY <3>2, <3>3, <3>4 DEF Filling
    <3>6. end = Lines /\ end \in Nat
      BY <3>3 DEF Filling, IInv, TypeOK
    <3>7. ~(end >= start)
      BY <3>5, <3>6
    <3>. QED
      BY <2>2, <3>7 DEF Flushed
  <2>6. at' \in Seq(Nat) /\ Len(at) <= Len(at') /\ \A k \in 1..Len(at) : at'[k] = at[k]
    BY <1>2, <2>2
  <2>. QED
    BY <1>1, <2>1, <2>2, <2>3, <2>4, <2>5, <2>6, ReadingKeeps
<1>. QED
  BY <1>3, <1>4 DEF Advance

\* A file that is not streamed.
LEMMA WholeFileKeeps ==
    ASSUME IInv, PlanInv, WholeFile
    PROVE  IInv' /\ PlanInv'
<1>. DEFINE c == [first |-> 1, last |-> 1, off |-> NoOffset, len |-> 0]
<1>1. /\ pc = "reading" /\ Lines = 0 /\ plan = <<>> /\ plan' = <<c>> /\ pc' = "ended"
      /\ UNCHANGED <<limit, at, start, end, total, ranges, taken, line, off, pieces, open>>
  BY DEF WholeFile
<1>2. ranges = <<>>
  <2>. SUFFICES ASSUME ranges # <<>> PROVE FALSE
    OBVIOUS
  <2>1. ranges \in Seq(LineRange) /\ 1 \in 1..Len(ranges)
    BY DEF IInv, TypeOK
  <2>2. ranges[1].first \in 1..Lines
    BY <2>1, RangeOut
  <2>. QED
    BY <1>1, <2>2
<1>3. IInv'
  <2>1. Lines' = Lines
    BY <1>1 DEF Lines
  <2>2. TypeOK'
    BY <1>1, <2>1 DEF IInv, TypeOK
  <2>3. GoodRanges(ranges', at')
    BY <1>1 DEF IInv
  <2>4. Complete'
    BY <1>1, <1>2, <2>1 DEF Complete
  <2>. QED
    BY <1>1, <2>2, <2>3, <2>4 DEF IInv
<1>4. c \in Chunk
  BY DEF Chunk, NoOffset
<1>. HIDE DEF c
<1>5. plan' \in Seq(Chunk) /\ plan' # <<>>
  BY <1>1, <1>4
<1>6. Whole' /\ pc' = "ended"
  BY <1>1, <1>2, <1>5 DEF Whole
<1>7. ~Cutting'
  <2>1. Len(ranges) = 0 /\ taken = 0
    BY <1>2 DEF PlanInv
  <2>2. ~Whole
    BY <1>1 DEF Whole
  <2>3. ~Cutting
    BY <2>1, <2>2 DEF PlanInv, Streaming, Progress
  <2>. QED
    BY <1>1, <2>3 DEF Cutting
<1>8. CutInv'
  BY <1>1 DEF PlanInv, CutInv, OneLine, Remains, PiecesSound, P!OnBoundary, P!CarriesContent,
              P!WellFormed, P!Content, P!Space, P!At, P!Cut
<1>9. taken' \in 0..Len(ranges') /\ open' \in BOOLEAN /\ at'[1] = 0
  BY <1>1 DEF PlanInv
<1>. QED
  BY <1>3, <1>5, <1>6, <1>7, <1>8, <1>9 DEF PlanInv

\* Both invariants hold initially and every step of the plan keeps them.
THEOREM PlanInductive == PlanSpec => [](IInv /\ PlanInv)
<1>1. PlanInit => IInv /\ PlanInv
  <2>. SUFFICES ASSUME PlanInit PROVE IInv /\ PlanInv
    OBVIOUS
  <2>1. /\ Init /\ at = <<0>> /\ ranges = <<>>
        /\ plan = <<>> /\ taken = 0 /\ line = <<>> /\ off = 0 /\ pieces = <<>> /\ open = FALSE
    BY DEF PlanInit, Init
  <2>2. at[1] = 0 /\ Len(line) = 0 /\ Len(ranges) = 0 /\ Len(plan) = 0
    BY <2>1
  <2>3. IInv
    BY <2>1, InitGood
  <2>4. line \in Seq(P!Byte) /\ pieces \in Seq(PieceType) /\ plan \in Seq(Chunk)
    BY <2>1
  <2>5. OneLine
    BY <2>1, <2>2, <2>4 DEF OneLine
  <2>6. Remains /\ ~Cutting
    BY <2>1, <2>2 DEF Remains, Cutting
  <2>7. PiecesSound
    BY <2>1 DEF PiecesSound, P!OnBoundary, P!CarriesContent
  <2>8. GoodPlan(plan, at) /\ Reached(plan, at) = 0
    BY <2>1, <2>2, <2>4 DEF GoodPlan, Reached
  <2>9. Progress /\ Waiting /\ Opened
    BY <2>1, <2>2, <2>6, <2>8 DEF Progress, Waiting, Opened
  <2>10. ~Whole
    BY <2>1 DEF Whole
  <2>11. CutInv
    BY <2>4, <2>5, <2>6, <2>7 DEF CutInv
  <2>12. taken \in 0..Len(ranges) /\ open \in BOOLEAN
    <3>1. 0 \in 0..0 /\ FALSE \in BOOLEAN
      OBVIOUS
    <3>. QED
      BY <2>1, <2>2, <3>1, Zenon
  <2>. QED
    BY <2>2, <2>3, <2>4, <2>8, <2>9, <2>10, <2>11, <2>12 DEF PlanInv, Streaming
<1>2. IInv /\ PlanInv /\ [PlanNext]_allVars => (IInv /\ PlanInv)'
  <2>. SUFFICES ASSUME IInv, PlanInv, [PlanNext]_allVars PROVE IInv' /\ PlanInv'
    OBVIOUS
  <2>1. CASE WholeFile
    BY <2>1, WholeFileKeeps
  <2>2. CASE Advance
    BY <2>2, AdvanceKeeps
  <2>3. UNCHANGED vars => IInv'
    BY DEF vars, IInv, TypeOK, Filling, Complete, Lines, Bytes
  <2>4. CASE TakeLines
    <3>1. UNCHANGED vars
      BY <2>4 DEF TakeLines
    <3>. QED
      BY <2>3, <2>4, <3>1, TakeLinesKeeps
  <2>5. CASE StartLongLine
    <3>1. UNCHANGED vars
      BY <2>5 DEF StartLongLine
    <3>. QED
      BY <2>3, <2>5, <3>1, StartLongLineKeeps
  <2>6. CASE TakePiece
    <3>1. UNCHANGED vars
      BY <2>6 DEF TakePiece
    <3>. QED
      BY <2>3, <2>6, <3>1, TakePieceKeeps
  <2>7. CASE UNCHANGED allVars
    <3>1. UNCHANGED vars /\ UNCHANGED <<plan, taken, line, off, pieces, open>>
      BY <2>7 DEF allVars, planVars
    <3>2. UNCHANGED <<limit, at, start, end, total, ranges, pc>>
      BY <3>1 DEF vars
    <3>3. CutInv'
      BY <3>1 DEF PlanInv, CutInv, OneLine, Remains, PiecesSound, P!OnBoundary, P!CarriesContent,
                  P!WellFormed, P!Content, P!Space, P!At, P!Cut
    <3>4. (Whole' <=> Whole) /\ (Cutting' <=> Cutting)
      BY <3>1, <3>2 DEF Whole, Cutting
    <3>5. Streaming => Streaming'
      BY <3>1, <3>2 DEF Streaming, Progress, Waiting, Opened, Cutting, Bytes, Lines
    <3>6. PlanInv'
      BY <3>1, <3>2, <3>3, <3>4, <3>5 DEF PlanInv
    <3>. QED
      BY <2>3, <3>1, <3>6
  <2>. QED
    BY <2>1, <2>2, <2>4, <2>5, <2>6, <2>7 DEF PlanNext
<1>. QED
  BY <1>1, <1>2, PTL DEF PlanSpec

\* The ranges plan_file reads are the sound ones of line_ranges.
THEOREM PlannedRangesAreSound == PlanSpec => []RangesSound
<1>1. IInv => RangesSound
  BY InvFits, InvCovers, InvSharesLittle DEF RangesSound
<1>. QED
  BY <1>1, PlanInductive, PTL

\* Where the plan ends when the file does.
LEMMA PlanEnds ==
    ASSUME IInv, PlanInv, pc = "ended", Idle, Streamed
    PROVE  Size \in Nat /\ Size > 0 /\ Reached(plan, at) = Size
<1>. DEFINE r == ranges[taken]
<1>1. taken = Len(ranges) /\ ~Cutting /\ ranges # <<>> /\ ranges \in Seq(LineRange) /\ open \in BOOLEAN
  BY DEF Idle, Streamed, IInv, TypeOK, PlanInv
<1>2. Streaming
  BY <1>1 DEF PlanInv, Whole
<1>3. taken \in 1..Len(ranges) /\ taken # 0
  BY <1>1
<1>4. Complete
  BY DEF IInv
<1>5. /\ r.first \in 1..Lines /\ r.last \in 1..Lines /\ r.kind \in {"L", "B"} /\ Lines \in Nat /\ Len(at) = Lines + 1
      /\ at[r.first] \in Nat /\ at[r.last + 1] \in Nat /\ at[r.first] < at[r.last + 1]
      /\ Bytes(r.first, r.last) = at[r.last + 1] - at[r.first]
      /\ r.kind = "B" => Bytes(r.first, r.last) > Budget
  BY <1>3, RangeOut
<1>6. r.last = Lines
  BY <1>1, <1>3, <1>4, <1>5 DEF Complete
<1>7. at[Len(at)] = at[r.last + 1]
  BY <1>5, <1>6
<1>8. CASE r.kind = "L"
  <2>1. ~open
    BY <1>2, <1>8 DEF Streaming, Opened
  <2>2. Reached(plan, at) = at[r.last + 1]
    BY <1>2, <1>3, <1>8 DEF Streaming, Progress
  <2>. HIDE DEF r
  <2>. QED
    BY <1>5, <1>7, <2>1, <2>2 DEF Size
<1>9. CASE r.kind = "B"
  <2>1. Reached(plan, at) = at[r.first] + off /\ Len(line) = Bytes(r.first, r.last) - (IF open THEN 1 ELSE 0)
    BY <1>2, <1>3, <1>9 DEF Streaming, Progress
  <2>2. off = Len(line) /\ Len(line) \in Nat
    BY <1>1 DEF Cutting, PlanInv, CutInv, OneLine
  <2>3. Budget \in Nat /\ Budget > 3
    BY LineChunksAssumption, ChunkPlanAssumption
  <2>. HIDE DEF r
  <2>4. CASE open
    <3>1. Size = at[r.last + 1] - 1 /\ off = (at[r.last + 1] - at[r.first]) - 1
      BY <1>5, <1>7, <2>1, <2>2, <2>4 DEF Size
    <3>2. \A a, b \in Nat : a - b > Budget => b + ((a - b) - 1) = a - 1 /\ a - 1 \in Nat /\ a - 1 > 0
      BY <2>3
    <3>3. at[r.last + 1] - at[r.first] > Budget
      BY <1>5, <1>9
    <3>. QED
      BY <1>5, <2>1, <3>1, <3>2, <3>3
  <2>5. CASE ~open
    <3>1. Size = at[r.last + 1] /\ off = at[r.last + 1] - at[r.first]
      BY <1>5, <1>7, <2>1, <2>2, <2>5 DEF Size
    <3>2. \A a, b \in Nat : b < a => b + (a - b) = a /\ a > 0
      OBVIOUS
    <3>. QED
      BY <1>5, <2>1, <3>1, <3>2
  <2>. QED
    BY <2>4, <2>5
<1>. QED
  BY <1>5, <1>8, <1>9

\* What plan_file sends is the file, in requests the model accepts, and a plan
\* that fits is never refused.
THEOREM PlansAreComplete == PlanSpec => []PlanComplete
<1>1. IInv /\ PlanInv => PlanCovers /\ PlanFits
  <2>. SUFFICES ASSUME IInv, PlanInv, Streamed
                PROVE  /\ \A k \in 1..Len(plan) - 1 : From(plan[k + 1]) <= To(plan[k]) /\ To(plan[k + 1]) > To(plan[k])
                       /\ plan # <<>> => From(plan[1]) = 0
                       /\ pc = "ended" /\ Idle => plan # <<>> /\ To(plan[Len(plan)]) = Size
                       /\ \A k \in DOMAIN plan : To(plan[k]) - From(plan[k]) \in 1..Budget
    BY DEF PlanCovers, PlanFits
  <2>1. GoodPlan(plan, at)
    BY DEF Streamed, PlanInv, Whole, Streaming
  <2>2. \A c : Starts(c, at) = From(c) /\ Stops(c, at) = To(c)
    BY DEF Starts, Stops, From, To
  <2>3. plan \in Seq(Chunk) /\ Len(plan) \in Nat /\ DOMAIN plan = 1..Len(plan)
    BY DEF PlanInv
  <2>4. ASSUME NEW k \in 1..Len(plan)
        PROVE  To(plan[k]) - From(plan[k]) \in 1..Budget /\ From(plan[k]) \in Nat /\ To(plan[k]) \in Nat
    <3>1. GoodChunk(plan[k], at)
      BY <2>1 DEF GoodPlan
    <3>2. /\ From(plan[k]) \in Nat /\ To(plan[k]) \in Nat /\ From(plan[k]) < To(plan[k])
          /\ To(plan[k]) <= From(plan[k]) + Budget
      BY <2>2, <3>1 DEF GoodChunk
    <3>3. \A a, b \in Nat : a < b /\ b <= a + Budget => b - a \in 1..Budget
      BY LineChunksAssumption
    <3>. QED
      BY <3>2, <3>3
  <2>5. ASSUME NEW k \in 1..Len(plan) - 1
        PROVE  From(plan[k + 1]) <= To(plan[k]) /\ To(plan[k + 1]) > To(plan[k])
    <3>1. From(plan[k + 1]) <= To(plan[k]) /\ To(plan[k]) < To(plan[k + 1])
      BY <2>1, <2>2 DEF GoodPlan
    <3>2. k \in 1..Len(plan) /\ k + 1 \in 1..Len(plan)
      BY <2>3
    <3>. QED
      BY <2>4, <3>1, <3>2
  <2>6. plan # <<>> => From(plan[1]) = 0
    BY <2>1, <2>2 DEF GoodPlan
  <2>7. pc = "ended" /\ Idle => plan # <<>> /\ To(plan[Len(plan)]) = Size
    <3>. SUFFICES ASSUME pc = "ended", Idle PROVE plan # <<>> /\ To(plan[Len(plan)]) = Size
      OBVIOUS
    <3>1. Size \in Nat /\ Size > 0 /\ Reached(plan, at) = Size
      BY PlanEnds
    <3>. QED
      BY <2>2, <3>1 DEF Reached
  <2>. QED
    BY <2>3, <2>4, <2>5, <2>6, <2>7
<1>2. IInv /\ PlanInv => RefusedForSize
  <2>. SUFFICES ASSUME IInv, PlanInv, pc = "ended", Idle, Streamed PROVE Size <= limit * Budget
    BY DEF RefusedForSize
  <2>1. Size \in Nat /\ Size > 0 /\ Reached(plan, at) = Size
    BY PlanEnds
  <2>2. GoodPlan(plan, at)
    BY DEF Streamed, PlanInv, Whole, Streaming
  <2>3. plan \in Seq(Chunk) /\ Len(plan) \in Nat /\ plan # <<>>
    BY <2>1 DEF PlanInv, Reached
  <2>4. Size <= Len(plan) * Budget
    <3>1. Len(plan) \in 1..Len(plan)
      BY <2>3
    <3>. QED
      BY <2>1, <2>2, <2>3, <3>1 DEF GoodPlan, Reached
  <2>5. limit \in Nat /\ Len(plan) <= limit
    BY <2>3, LineChunksAssumption DEF Idle, Over, IInv, TypeOK
  <2>6. Len(plan) * Budget <= limit * Budget /\ Len(plan) * Budget \in Nat /\ limit * Budget \in Nat
    BY <2>3, <2>5, MoreChunks
  <2>. DEFINE a == Len(plan) * Budget
              b == limit * Budget
  <2>. HIDE DEF a, b
  <2>7. Size <= a /\ a <= b /\ a \in Nat /\ b \in Nat
    BY <2>4, <2>6 DEF a, b
  <2>8. Size <= b
    BY <2>1, <2>7
  <2>. QED
    BY <2>8 DEF b
<1>3. IInv /\ PlanInv => PiecesSound
  BY DEF PlanInv, CutInv
<1>4. IInv /\ PlanInv => PlanComplete
  BY <1>1, <1>2, <1>3 DEF PlanComplete
<1>. QED
  BY <1>4, PlanInductive, PTL
=============================================================================
