--------------------------- MODULE TagRangesProofs ---------------------------
(***************************************************************************)
(* Proofs about TagRanges: whatever the functions and the samples are, the *)
(* merged ranges are disjoint, they keep the addresses they should, and    *)
(* the sum over them counts every sample within them once.                 *)
(***************************************************************************)
EXTENDS TagRanges, FiniteSetTheorems, TLAPS

(***************************************************************************)
(* The inductive invariant.  Merging keeps, besides the disjointness       *)
(* itself, that every merged range starts no later than the ranges still   *)
(* to come, which is what sorting is for, and that the merged ranges       *)
(* account for the part of comb already seen.                              *)
(***************************************************************************)
Sorted ==
  \A i, j \in DOMAIN comb : i < j => comb[i].start <= comb[j].start

Progress ==
  /\ samples # <<>>
  /\ pc = "merge" => /\ next \in 1..(Len(comb) + 1)
                     /\ next = 1 <=> merged = <<>>
  /\ pc \in {"sum", "done"} => merged # <<>> /\ next \in 1..(Len(merged) + 1)
  /\ pc = "done" => next = Len(merged) + 1

StartsBehind ==
  pc = "merge" =>
    \A i \in DOMAIN merged, j \in DOMAIN comb :
      next <= j => merged[i].start <= comb[j].start

Accounted(i, a) ==
  Within(comb[i], a) /\ (i = 1 \/ comb[i].start < comb[i].end) => Covers(merged, a)

Coverage ==
  /\ \A a \in Addresses : Covers(merged, a) => Covers(comb, a)
  /\ \A a \in Addresses : \A i \in DOMAIN comb :
       (pc = "merge" => i < next) /\ pc # "raised" => Accounted(i, a)

Hits(range) == {i \in DOMAIN samples : Within(range, samples[i])}

HitsBefore(n) == {i \in DOMAIN samples :
                    \E k \in DOMAIN merged : k < n /\ Within(merged[k], samples[i])}

SumSoFar ==
  /\ pc = "merge" => total = 0
  /\ pc \in {"sum", "done"} /\ samples[1] <= merged[1].end =>
       total = Cardinality(HitsBefore(next))

Inv == TypeOK /\ Sorted /\ Progress /\ StartsBehind /\ RangesApart /\ Coverage /\ SumSoFar

(***************************************************************************)
(* The addresses of a range are numbers, in order.                         *)
(***************************************************************************)
LEMMA RangeType ==
  ASSUME NEW range \in AddressRange
  PROVE  range.start \in Nat /\ range.end \in Nat /\ range.start <= range.end
BY AddressesAssumption DEF AddressRange

(***************************************************************************)
(* The three cases of the loop: the last range grows, a range is appended, *)
(* nothing changes.                                                        *)
(***************************************************************************)
LEMMA MergedRanges ==
  ASSUME NEW ranges \in Seq(AddressRange), ranges # <<>>, NEW range \in AddressRange,
         \A i, j \in DOMAIN ranges : i < j => ranges[i].end < ranges[j].start,
         \A i \in DOMAIN ranges : ranges[i].start <= range.start
  PROVE  /\ Merged(ranges, range) \in Seq(AddressRange)
         /\ Merged(ranges, range) # <<>>
         /\ \A i, j \in DOMAIN Merged(ranges, range) : i < j =>
              Merged(ranges, range)[i].end < Merged(ranges, range)[j].start
         /\ \A i \in DOMAIN Merged(ranges, range) :
              Merged(ranges, range)[i].start <= range.start
         /\ \A a \in Addresses : Covers(Merged(ranges, range), a)
              => Covers(ranges, a) \/ Within(range, a)
         /\ \A a \in Addresses : Covers(ranges, a) => Covers(Merged(ranges, range), a)
         /\ \A a \in Addresses : Within(range, a) /\ range.start < range.end
              => Covers(Merged(ranges, range), a)
<1> DEFINE n == Len(ranges)
           last == ranges[n]
           result == Merged(ranges, range)
<1>1. /\ n \in Nat /\ n >= 1 /\ n \in DOMAIN ranges /\ DOMAIN ranges = 1..n
      /\ last \in AddressRange
  OBVIOUS
<1>2. /\ last.start \in Nat /\ last.end \in Nat /\ last.start <= last.end
      /\ range.start \in Nat /\ range.end \in Nat /\ range.start <= range.end
      /\ \A i \in DOMAIN ranges : /\ ranges[i].start \in Nat /\ ranges[i].end \in Nat
                                  /\ ranges[i].start <= ranges[i].end
  <2>1. \A i \in DOMAIN ranges : ranges[i] \in AddressRange
    BY <1>1
  <2> QED BY <2>1, <1>1, RangeType
<1>3. CASE range.start <= last.end /\ last.end < range.end
  <2> DEFINE grown == [start |-> last.start, end |-> range.end]
  <2>1. result = [ranges EXCEPT ![n] = grown]
    BY <1>3 DEF Merged, Extended
  <2>2. grown \in AddressRange
    BY <1>1, <1>2, <1>3 DEF AddressRange
  <2>3. /\ result \in Seq(AddressRange) /\ Len(result) = n /\ result # <<>>
        /\ DOMAIN result = 1..n
        /\ result[n] = grown
        /\ \A i \in 1..n : i # n => result[i] = ranges[i]
    BY <2>1, <2>2, <1>1
  <2>4. grown.start = last.start /\ grown.end = range.end
    OBVIOUS
  <2> HIDE DEF grown, result
  <2>5. \A i, j \in 1..n : i < j => result[i].end < result[j].start
    <3> SUFFICES ASSUME NEW i \in 1..n, NEW j \in 1..n, i < j
                 PROVE  result[i].end < result[j].start
      OBVIOUS
    <3>1. i # n /\ i \in DOMAIN ranges /\ j \in DOMAIN ranges
      <4>1. DOMAIN ranges = 1..n
        BY <1>1
      <4>2. n \in Nat /\ i \in 1..n /\ j \in 1..n /\ i < j
        BY <1>1
      <4> HIDE DEF n
      <4>3. i # n
        BY <4>2
      <4> QED BY <4>1, <4>2, <4>3
    <3>3. ranges[i].end < ranges[j].start /\ result[i] = ranges[i]
      BY <3>1, <2>3
    <3>2. result[j].start = ranges[j].start
      BY <2>3, <2>4, <1>1
    <3> QED BY <3>2, <3>3
  <2>6. \A i \in 1..n : result[i].start <= range.start
    BY <2>3, <2>4, <1>1
  <2>7. ASSUME NEW a \in Addresses, Covers(result, a) PROVE Covers(ranges, a) \/ Within(range, a)
    <3>1. PICK i \in 1..n : Within(result[i], a)
      BY <2>7, <2>3 DEF Covers
    <3>2. CASE i # n
      BY <3>1, <3>2, <2>3, <1>1 DEF Covers
    <3>3. CASE i = n
      <4>1. Within(last, a) \/ Within(range, a)
        BY <3>1, <3>3, <2>3, <2>4, <1>2, <1>3, AddressesAssumption DEF Within
      <4> QED BY <4>1, <1>1 DEF Covers
    <3> QED BY <3>2, <3>3
  <2>8. ASSUME NEW a \in Addresses, Covers(ranges, a) PROVE Covers(result, a)
    <3>1. PICK i \in 1..n : Within(ranges[i], a)
      BY <2>8, <1>1 DEF Covers
    <3>2. CASE i # n
      BY <3>1, <3>2, <2>3 DEF Covers
    <3>3. CASE i = n
      <4>1. a \in Nat /\ last.start <= a /\ a <= last.end
        BY <3>1, <3>3, AddressesAssumption DEF Within
      <4>2. grown.start <= a /\ a <= grown.end
        BY <4>1, <2>4, <1>2, <1>3
      <4> QED BY <4>2, <2>3, <1>1 DEF Covers, Within
    <3> QED BY <3>2, <3>3
  <2>9. ASSUME NEW a \in Addresses, Within(range, a) PROVE Covers(result, a)
    <3>1. a \in Nat /\ range.start <= a /\ a <= range.end
      BY <2>9, AddressesAssumption DEF Within
    <3>2. last.start <= range.start
      BY <1>1
    <3>3. grown.start <= a /\ a <= grown.end
      BY <3>1, <3>2, <2>4, <1>2
    <3> QED BY <3>3, <2>3, <1>1 DEF Covers, Within
  <2> QED BY <2>3, <2>5, <2>6, <2>7, <2>8, <2>9 DEF result
<1>4. CASE last.end < range.start /\ range.start < range.end
  <2>1. result = Append(ranges, range)
    BY <1>4, <1>2 DEF Merged
  <2>2. /\ result \in Seq(AddressRange) /\ Len(result) = n + 1 /\ result # <<>>
        /\ DOMAIN result = 1..(n + 1)
        /\ result[n + 1] = range
        /\ \A i \in 1..n : result[i] = ranges[i]
    BY <2>1, <1>1
  <2> HIDE DEF result
  <2>3. \A i \in 1..n : ranges[i].end < range.start
    BY <1>1, <1>2, <1>4
  <2>4. \A i, j \in 1..(n + 1) : i < j => result[i].end < result[j].start
    <3> SUFFICES ASSUME NEW i \in 1..(n + 1), NEW j \in 1..(n + 1), i < j
                 PROVE  result[i].end < result[j].start
      OBVIOUS
    <3>1. CASE j = n + 1
      BY <3>1, <2>2, <2>3, <1>1
    <3>2. CASE j # n + 1
      BY <3>2, <2>2, <1>1
    <3> QED BY <3>1, <3>2
  <2>5. \A i \in 1..(n + 1) : result[i].start <= range.start
    <3> SUFFICES ASSUME NEW i \in 1..(n + 1)
                 PROVE  result[i].start <= range.start
      OBVIOUS
    <3>1. CASE i = n + 1
      BY <3>1, <2>2, <1>2
    <3>2. CASE i # n + 1
      BY <3>2, <2>2, <1>1
    <3> QED BY <3>1, <3>2
  <2>6. ASSUME NEW a \in Addresses PROVE Covers(result, a) <=> Covers(ranges, a) \/ Within(range, a)
    <3>1. ASSUME Covers(result, a) PROVE Covers(ranges, a) \/ Within(range, a)
      <4>1. PICK i \in 1..(n + 1) : Within(result[i], a)
        BY <3>1, <2>2 DEF Covers
      <4> QED BY <4>1, <2>2, <1>1 DEF Covers
    <3>2. ASSUME Covers(ranges, a) PROVE Covers(result, a)
      <4>1. PICK i \in 1..n : Within(ranges[i], a)
        BY <3>2, <1>1 DEF Covers
      <4>2. i \in 1..(n + 1) /\ Within(result[i], a)
        BY <4>1, <2>2, <1>1
      <4> QED BY <4>2, <2>2 DEF Covers
    <3>3. ASSUME Within(range, a) PROVE Covers(result, a)
      BY <3>3, <2>2, <1>1 DEF Covers
    <3> QED BY <3>1, <3>2, <3>3
  <2> QED BY <2>2, <2>4, <2>5, <2>6 DEF result
<1>5. CASE /\ ~ (range.start <= last.end /\ last.end < range.end)
           /\ ~ (last.end < range.start /\ range.start < range.end)
  <2>1. result = ranges
    BY <1>5 DEF Merged
  <2>2. ASSUME NEW a \in Addresses, Within(range, a), range.start < range.end
        PROVE  Covers(ranges, a)
    <3>1. Within(last, a)
      BY <2>2, <1>1, <1>2, <1>5, AddressesAssumption DEF Within
    <3> QED BY <3>1, <1>1 DEF Covers
  <2> QED BY <2>1, <2>2
<1> QED BY <1>3, <1>4, <1>5

(***************************************************************************)
(* searchsorted counts, and at the end of a range it counts what it counts *)
(* at the start plus the samples within.                                   *)
(***************************************************************************)
LEMMA SearchSorted ==
  ASSUME samples \in Seq(Addresses), NEW range \in AddressRange
  PROVE  /\ searchsorted(range.start) \in Nat
         /\ searchsorted(range.end + 1) \in Nat
         /\ IsFiniteSet(Hits(range)) /\ Cardinality(Hits(range)) \in Nat
         /\ searchsorted(range.end + 1) = searchsorted(range.start) + Cardinality(Hits(range))
<1> DEFINE D == DOMAIN samples
           Before == {i \in D : samples[i] < range.start}
           UpTo == {i \in D : samples[i] < range.end + 1}
<1>1. IsFiniteSet(D)
  <2>1. D = 1..Len(samples) /\ Len(samples) \in Nat
    OBVIOUS
  <2> QED BY <2>1, FS_Interval
<1>2. /\ IsFiniteSet(Before) /\ IsFiniteSet(UpTo) /\ IsFiniteSet(Hits(range))
  BY <1>1, FS_Subset DEF Hits
<1>3. /\ Cardinality(Before) \in Nat /\ Cardinality(UpTo) \in Nat
      /\ Cardinality(Hits(range)) \in Nat
  BY <1>2, FS_CardinalityType
<1>4. /\ range.start \in Nat /\ range.end \in Nat /\ range.start <= range.end
  BY RangeType
<1>5. \A i \in D : samples[i] \in Nat
  <2>1. \A i \in D : samples[i] \in Addresses
    OBVIOUS
  <2> QED BY <2>1, AddressesAssumption
<1>6. UpTo = Before \cup Hits(range) /\ Before \cap Hits(range) = {}
  BY <1>4, <1>5 DEF Hits, Within
<1>7. Cardinality(Before \cap Hits(range)) = 0
  BY <1>6, FS_EmptySet
<1>8. Cardinality(UpTo) = Cardinality(Before) + Cardinality(Hits(range)) - 0
  BY <1>2, <1>6, <1>7, FS_Union
<1> QED BY <1>2, <1>3, <1>8 DEF searchsorted

(***************************************************************************)
(* aggregate adds exactly the samples within a range, as soon as a sample  *)
(* lies at or before the end of the range.                                 *)
(***************************************************************************)
LEMMA SamplesOfRange ==
  ASSUME samples \in Seq(Addresses), samples # <<>>, NEW range \in AddressRange,
         samples[1] <= range.end
  PROVE  SamplesOf(range) = Cardinality(Hits(range))
<1> DEFINE before == searchsorted(range.start)
           upTo == searchsorted(range.end + 1)
<1>1. /\ before \in Nat /\ upTo \in Nat /\ Cardinality(Hits(range)) \in Nat
      /\ upTo = before + Cardinality(Hits(range))
  BY SearchSorted
<1>2. upTo # 0
  <2> DEFINE UpTo == {i \in DOMAIN samples : samples[i] < range.end + 1}
  <2>1. 1 \in UpTo
    <3>1. 1 \in DOMAIN samples /\ samples[1] \in Addresses
      OBVIOUS
    <3>2. samples[1] \in Nat /\ range.end \in Nat
      BY <3>1, RangeType, AddressesAssumption
    <3> QED BY <3>1, <3>2
  <2>2. IsFiniteSet(UpTo)
    <3>1. DOMAIN samples = 1..Len(samples) /\ Len(samples) \in Nat
      OBVIOUS
    <3>2. IsFiniteSet(DOMAIN samples)
      BY <3>1, FS_Interval
    <3> QED BY <3>2, FS_Subset
  <2>3. Cardinality(UpTo) # 0
    BY <2>1, <2>2, FS_EmptySet
  <2> QED BY <2>3 DEF searchsorted
<1>3. irow(upTo - 1) = upTo
  BY <1>1, <1>2 DEF irow
<1>4. (IF before - 1 >= 0 THEN irow(before - 1) ELSE 0) = before
  BY <1>1 DEF irow
<1>5. SamplesOf(range) = irow(upTo - 1) - (IF before - 1 >= 0 THEN irow(before - 1) ELSE 0)
  BY DEF SamplesOf
<1> HIDE DEF before, upTo
<1> QED BY <1>1, <1>3, <1>4, <1>5

(***************************************************************************)
(* Before the loop nothing is merged, and sorting has been done.           *)
(***************************************************************************)
LEMMA InitInv == Init => Inv
<1> SUFFICES ASSUME Init PROVE Inv
  OBVIOUS
<1>1. TypeOK /\ Sorted
  <2>1. \A S, n : BoundedSeq(S, n) \subseteq Seq(S)
    <3> TAKE S, n
    <3> SUFFICES ASSUME NEW q \in BoundedSeq(S, n) PROVE q \in Seq(S)
      OBVIOUS
    <3>1. PICK m \in 0..n : q \in [1..m -> S]
      BY DEF BoundedSeq, SeqOf
    <3>2. m \in Nat
      BY <3>1
    <3> QED BY <3>1, <3>2
  <2>2. comb \in Seq(AddressRange) /\ samples \in Seq(Addresses)
    BY <2>1 DEF Init
  <2> QED BY <2>2 DEF Init, TypeOK, Sorted
<1>2. Progress /\ StartsBehind /\ RangesApart /\ SumSoFar
  BY <1>1 DEF Init, TypeOK, Progress, StartsBehind, RangesApart, SumSoFar
<1>3. Coverage
  BY <1>1 DEF Init, TypeOK, Coverage, Covers, Accounted
<1> QED BY <1>1, <1>2, <1>3 DEF Inv

(***************************************************************************)
(* merge of an empty list ends at once.                                    *)
(***************************************************************************)
LEMMA MergeNothingInv == Inv /\ MergeNothing => Inv'
<1> SUFFICES ASSUME Inv, MergeNothing PROVE Inv'
  OBVIOUS
<1> USE DEF Inv, MergeNothing
<1>1. TypeOK' /\ Sorted' /\ Progress' /\ StartsBehind' /\ RangesApart' /\ SumSoFar'
  BY DEF TypeOK, Sorted, Progress, StartsBehind, RangesApart, SumSoFar
<1>2. Coverage'
  BY DEF Coverage, Covers, Accounted, Within
<1> QED BY <1>1, <1>2

(***************************************************************************)
(* The first range of the list is the first merged one.                    *)
(***************************************************************************)
LEMMA MergeFirstInv == Inv /\ MergeFirst => Inv'
<1> SUFFICES ASSUME Inv, MergeFirst PROVE Inv'
  OBVIOUS
<1> USE DEF Inv, MergeFirst
<1>1. /\ comb \in Seq(AddressRange) /\ Len(comb) \in Nat /\ Len(comb) >= 1
      /\ comb[1] \in AddressRange /\ DOMAIN comb = 1..Len(comb)
  BY DEF TypeOK
<1>2. /\ merged' \in Seq(AddressRange) /\ DOMAIN merged' = {1} /\ Len(merged') = 1
      /\ merged'[1] = comb[1] /\ merged' # <<>>
  BY <1>1
<1>3. TypeOK'
  BY <1>2 DEF TypeOK
<1>4. Sorted' /\ Progress' /\ SumSoFar'
  BY <1>1, <1>2 DEF Sorted, Progress, SumSoFar
<1>5. StartsBehind'
  BY <1>1, <1>2 DEF StartsBehind, Sorted
<1>6. RangesApart'
  BY <1>2 DEF RangesApart
<1>7. Coverage'
  <2>1. \A a : Covers(merged', a) <=> Within(comb[1], a)
    BY <1>2 DEF Covers
  <2>2. \A a : Within(comb[1], a) => Covers(comb, a)
    BY <1>1 DEF Covers
  <2>3. ASSUME NEW i \in DOMAIN comb, i < 2 PROVE i = 1
    BY <2>3, <1>1
  <2> QED BY <2>1, <2>2, <2>3 DEF Coverage, Accounted
<1> QED BY <1>3, <1>4, <1>5, <1>6, <1>7

(***************************************************************************)
(* One turn of the loop.                                                   *)
(***************************************************************************)
LEMMA MergeNextInv == Inv /\ MergeNext => Inv'
<1> SUFFICES ASSUME Inv, MergeNext PROVE Inv'
  OBVIOUS
<1> USE DEF Inv, MergeNext
<1> DEFINE range == comb[next]
<1>1. /\ comb \in Seq(AddressRange) /\ Len(comb) \in Nat /\ DOMAIN comb = 1..Len(comb)
      /\ next \in Nat /\ next >= 2 /\ next \in DOMAIN comb /\ range \in AddressRange
      /\ merged \in Seq(AddressRange) /\ merged # <<>>
  BY DEF TypeOK, Progress
<1>2. \A i, j \in DOMAIN merged : i < j => merged[i].end < merged[j].start
  BY DEF RangesApart
<1>3. \A i \in DOMAIN merged : merged[i].start <= range.start
  BY <1>1 DEF StartsBehind
<1>4. merged' = Merged(merged, range)
  OBVIOUS
<1> HIDE DEF range
<1>5. /\ merged' \in Seq(AddressRange)
      /\ merged' # <<>>
      /\ \A i, j \in DOMAIN merged' : i < j => merged'[i].end < merged'[j].start
      /\ \A i \in DOMAIN merged' : merged'[i].start <= range.start
      /\ \A a \in Addresses : Covers(merged', a) => Covers(merged, a) \/ Within(range, a)
      /\ \A a \in Addresses : Covers(merged, a) => Covers(merged', a)
      /\ \A a \in Addresses : Within(range, a) /\ range.start < range.end
           => Covers(merged', a)
  BY <1>1, <1>2, <1>3, <1>4, MergedRanges
<1>6. TypeOK' /\ Sorted' /\ Progress' /\ RangesApart' /\ SumSoFar'
  BY <1>1, <1>5 DEF TypeOK, Sorted, Progress, RangesApart, SumSoFar
<1>7. StartsBehind'
  <2> SUFFICES ASSUME NEW i \in DOMAIN merged', NEW j \in DOMAIN comb, next + 1 <= j
               PROVE  merged'[i].start <= comb[j].start
    BY DEF StartsBehind
  <2>1. next < j /\ range.start <= comb[j].start
    BY <1>1 DEF Sorted, range
  <2>2. merged'[i] \in AddressRange /\ comb[j] \in AddressRange
    BY <1>1, <1>5
  <2>3. /\ merged'[i].start \in Nat /\ comb[j].start \in Nat /\ range.start \in Nat
        /\ merged'[i].start <= range.start
    BY <1>1, <1>5, <2>2, RangeType
  <2> QED BY <2>1, <2>3
<1>8. Coverage'
  <2>1. \A a \in Addresses : Within(range, a) => Covers(comb, a)
    BY <1>1 DEF Covers, range
  <2>2. \A a \in Addresses : Covers(merged', a) => Covers(comb, a)
    BY <1>5, <2>1 DEF Coverage
  <2>3. ASSUME NEW a \in Addresses, NEW i \in DOMAIN comb, i < next + 1,
               Within(comb[i], a), i = 1 \/ comb[i].start < comb[i].end
        PROVE  Covers(merged', a)
    <3>1. CASE i = next
      BY <3>1, <2>3, <1>1, <1>5 DEF range
    <3>2. CASE i # next
      <4>1. i < next
        BY <3>2, <2>3, <1>1
      <4>2. Covers(merged, a)
        BY <4>1, <2>3 DEF Coverage, Accounted
      <4> QED BY <4>2, <1>5
    <3> QED BY <3>1, <3>2
  <2> QED BY <2>2, <2>3 DEF Coverage, Accounted
<1> QED BY <1>6, <1>7, <1>8

(***************************************************************************)
(* Tag.finalize has its ranges and hands them to aggregate.                *)
(***************************************************************************)
LEMMA FeedInv == Inv /\ Feed => Inv'
<1> SUFFICES ASSUME Inv, Feed PROVE Inv'
  OBVIOUS
<1> USE DEF Inv, Feed
<1>1. /\ merged \in Seq(AddressRange) /\ merged # <<>> /\ comb \in Seq(AddressRange)
      /\ DOMAIN comb = 1..Len(comb) /\ Len(comb) \in Nat /\ Len(comb) >= 1
      /\ Len(merged) \in Nat /\ Len(merged) >= 1
  BY DEF TypeOK, Progress
<1>2. TypeOK' /\ Sorted' /\ Progress' /\ StartsBehind' /\ RangesApart'
  BY <1>1 DEF TypeOK, Sorted, Progress, StartsBehind, RangesApart
<1>3. Coverage'
  <2>1. \A i \in DOMAIN comb : i < next
    BY <1>1
  <2> QED BY <2>1 DEF Coverage, Accounted, Covers, Within
<1>4. SumSoFar'
  <2>1. \A k \in DOMAIN merged : ~ (k < 1)
    BY <1>1
  <2>2. HitsBefore(1) = {}
    BY <2>1 DEF HitsBefore
  <2>3. HitsBefore(next)' = HitsBefore(1)
    BY DEF HitsBefore, Within
  <2>4. total' = 0 /\ Cardinality(HitsBefore(next)') = 0
    BY <2>2, <2>3, FS_EmptySet DEF SumSoFar
  <2> QED BY <2>4 DEF SumSoFar
<1> QED BY <1>2, <1>3, <1>4

(***************************************************************************)
(* aggregate adds the samples of one more range, none of which an earlier  *)
(* range held.                                                             *)
(***************************************************************************)
LEMMA SumNextInv == Inv /\ SumNext => Inv'
<1> SUFFICES ASSUME Inv, SumNext PROVE Inv'
  OBVIOUS
<1> USE DEF Inv, SumNext
<1> DEFINE range == merged[next]
<1>1. /\ merged \in Seq(AddressRange) /\ DOMAIN merged = 1..Len(merged)
      /\ Len(merged) \in Nat /\ next \in Nat /\ range \in AddressRange
      /\ samples \in Seq(Addresses) /\ samples # <<>> /\ total \in Int
      /\ merged[1] \in AddressRange
  BY DEF TypeOK, Progress
<1>2. SamplesOf(range) \in Int
  <2>1. /\ searchsorted(range.start) \in Nat /\ searchsorted(range.end + 1) \in Nat
    BY <1>1, SearchSorted
  <2> QED BY <2>1, <1>1 DEF SamplesOf, irow
<1>3. TypeOK' /\ Sorted' /\ Progress' /\ StartsBehind' /\ RangesApart'
  BY <1>1, <1>2 DEF TypeOK, Sorted, Progress, StartsBehind, RangesApart
<1>4. Coverage'
  BY DEF Coverage, Accounted, Covers, Within
<1>5. ASSUME samples[1] <= merged[1].end
      PROVE  total' = Cardinality(HitsBefore(next + 1))
  <2>1. samples[1] <= range.end
    <3>1. CASE next = 1
      BY <3>1, <1>5
    <3>2. CASE next # 1
      <4>1. 1 \in DOMAIN merged /\ next \in DOMAIN merged /\ 1 < next
        BY <3>2, <1>1
      <4>2. merged[1].end < range.start
        BY <4>1 DEF RangesApart
      <4>3. samples[1] \in Nat
        <5>1. samples[1] \in Addresses
          BY <1>1
        <5> QED BY <5>1, AddressesAssumption
      <4>4. /\ merged[1].end \in Nat /\ range.start \in Nat /\ range.end \in Nat
            /\ range.start <= range.end
        BY <1>1, RangeType
      <4> HIDE DEF range
      <4> QED BY <4>2, <4>3, <4>4, <1>5
    <3> QED BY <3>1, <3>2
  <2>2. SamplesOf(range) = Cardinality(Hits(range))
    BY <2>1, <1>1, SamplesOfRange
  <2>3. total = Cardinality(HitsBefore(next))
    BY <1>5 DEF SumSoFar
  <2>4. HitsBefore(next + 1) = HitsBefore(next) \cup Hits(range)
    <3>1. \A k \in DOMAIN merged : k < next + 1 <=> k < next \/ k = next
      BY <1>1
    <3> QED BY <3>1 DEF HitsBefore, Hits
  <2>5. HitsBefore(next) \cap Hits(range) = {}
    <3> SUFFICES ASSUME NEW i \in DOMAIN samples, Within(range, samples[i]),
                        NEW k \in DOMAIN merged, k < next, Within(merged[k], samples[i])
                 PROVE  FALSE
      BY DEF HitsBefore, Hits
    <3>1. merged[k].end < range.start
      BY DEF RangesApart
    <3>2. samples[i] \in Nat
      <4>1. samples[i] \in Addresses
        BY <1>1
      <4> QED BY <4>1, AddressesAssumption
    <3>3. merged[k].end \in Nat /\ range.start \in Nat
      BY <1>1, RangeType
    <3> HIDE DEF range
    <3> QED BY <3>1, <3>2, <3>3 DEF Within
  <2>6. IsFiniteSet(HitsBefore(next)) /\ IsFiniteSet(Hits(range))
    <3>1. DOMAIN samples = 1..Len(samples) /\ Len(samples) \in Nat
      BY <1>1
    <3>2. IsFiniteSet(DOMAIN samples)
      BY <3>1, FS_Interval
    <3> QED BY <3>2, FS_Subset DEF HitsBefore, Hits
  <2>7. Cardinality(HitsBefore(next)) \in Nat /\ Cardinality(Hits(range)) \in Nat
    BY <2>6, FS_CardinalityType
  <2>8. Cardinality(HitsBefore(next) \cap Hits(range)) = 0
    BY <2>5, FS_EmptySet
  <2>9. Cardinality(HitsBefore(next + 1))
          = Cardinality(HitsBefore(next)) + Cardinality(Hits(range)) - 0
    BY <2>4, <2>6, <2>8, FS_Union
  <2>10. total' = total + SamplesOf(range)
    OBVIOUS
  <2> HIDE DEF range
  <2> QED BY <2>2, <2>3, <2>7, <2>9, <2>10
<1>6. SumSoFar'
  <2>1. HitsBefore(next)' = HitsBefore(next + 1)
    BY DEF HitsBefore, Within
  <2> QED BY <1>5, <2>1 DEF SumSoFar
<1> QED BY <1>3, <1>4, <1>6

(***************************************************************************)
(* The loop of aggregate ends behind the last range.                       *)
(***************************************************************************)
LEMMA ReturnInv == Inv /\ Return => Inv'
<1> SUFFICES ASSUME Inv, Return PROVE Inv'
  OBVIOUS
<1> USE DEF Inv, Return
<1>1. TypeOK' /\ Sorted' /\ Progress' /\ StartsBehind' /\ RangesApart'
  BY DEF TypeOK, Sorted, Progress, StartsBehind, RangesApart
<1>2. Coverage'
  BY DEF Coverage, Accounted, Covers, Within
<1>3. SumSoFar'
  <2>1. HitsBefore(next)' = HitsBefore(next)
    BY DEF HitsBefore, Within
  <2> QED BY <2>1 DEF SumSoFar
<1> QED BY <1>1, <1>2, <1>3

(***************************************************************************)
(* The invariant holds of every state of a computation.                    *)
(***************************************************************************)
THEOREM Invariance == Spec => []Inv
<1>1. Inv /\ [Next]_vars => Inv'
  <2> SUFFICES ASSUME Inv, [Next]_vars PROVE Inv'
    OBVIOUS
  <2>1. CASE Next
    BY <2>1, MergeNothingInv, MergeFirstInv, MergeNextInv, FeedInv, SumNextInv, ReturnInv
       DEF Next
  <2>2. CASE UNCHANGED vars
    <3>1. TypeOK' /\ Sorted' /\ Progress' /\ StartsBehind' /\ RangesApart'
      BY <2>2 DEF Inv, vars, TypeOK, Sorted, Progress, StartsBehind, RangesApart
    <3>2. Coverage'
      BY <2>2 DEF Inv, vars, Coverage, Accounted, Covers, Within
    <3>3. SumSoFar'
      <4>1. HitsBefore(next)' = HitsBefore(next)
        BY <2>2 DEF vars, HitsBefore, Within
      <4> QED BY <2>2, <4>1 DEF Inv, vars, SumSoFar
    <3> QED BY <3>1, <3>2, <3>3 DEF Inv
  <2> QED BY <2>1, <2>2
<1> QED BY InitInv, <1>1, PTL DEF Spec

(***************************************************************************)
(* merge returns ranges none of which is backwards.                        *)
(***************************************************************************)
THEOREM TypeCorrect == Spec => []TypeOK
<1>1. Inv => TypeOK
  BY DEF Inv
<1> QED BY <1>1, Invariance, PTL

(***************************************************************************)
(* The merged ranges of a tag are disjoint and in order, whatever the      *)
(* ranges of the tag and of its children were.                             *)
(***************************************************************************)
THEOREM Disjoint == Spec => []RangesApart
<1>1. Inv => RangesApart
  BY DEF Inv
<1> QED BY <1>1, Invariance, PTL

(***************************************************************************)
(* Merging invents no address and keeps those of every function longer     *)
(* than one byte.                                                          *)
(***************************************************************************)
THEOREM KeepsAddresses == Spec => []AddressesKept
<1>1. Inv => AddressesKept
  BY DEF Inv, Coverage, Accounted, AddressesKept
<1> QED BY <1>1, Invariance, PTL

(***************************************************************************)
(* The number a tag shows is the number of samples within its ranges,      *)
(* unless the first range ends before the first sample.                    *)
(***************************************************************************)
THEOREM SumIsRight == Spec => []TotalIsSum
<1>1. Inv => TotalIsSum
  <2> SUFFICES ASSUME Inv, pc = "done", samples[1] <= merged[1].end
               PROVE  total = Cardinality({i \in DOMAIN samples : Covers(merged, samples[i])})
    BY DEF TotalIsSum
  <2>1. total = Cardinality(HitsBefore(next)) /\ next = Len(merged) + 1
    BY DEF Inv, SumSoFar, Progress
  <2>2. \A k \in DOMAIN merged : k < Len(merged) + 1
    <3>1. DOMAIN merged = 1..Len(merged) /\ Len(merged) \in Nat
      BY DEF Inv, TypeOK
    <3> QED BY <3>1
  <2>3. HitsBefore(next) = {i \in DOMAIN samples : Covers(merged, samples[i])}
    BY <2>1, <2>2 DEF HitsBefore, Covers
  <2> QED BY <2>1, <2>3
<1> QED BY <1>1, Invariance, PTL
=============================================================================
