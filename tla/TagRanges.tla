------------------------------ MODULE TagRanges ------------------------------
(***************************************************************************)
(* How a tag of the tag tree gets its numbers, src/cp/tags/tag.py:         *)
(* Tag.finalize merges the address ranges of the tag and of its children,  *)
(* and Tag.feed sums the samples of the dynamic analysis over the result.  *)
(* A range is a function, first and last address both included             *)
(* (fncollector.filterSymbols), so a one-byte function starts where it     *)
(* ends.  A sample adds to the sum only if exactly one range holds it:     *)
(* merge must leave no two ranges that overlap and lose no address.        *)
(***************************************************************************)
EXTENDS Integers, SequencesExt, FiniteSets

CONSTANTS
  Addresses,     \* addresses of functions and samples
  MaxRanges,     \* bound: ranges of one tag and its children
  MaxSamples     \* bound: rows of the dynamic data

ASSUME AddressesAssumption == Addresses \subseteq Nat

VARIABLES
  pc,        \* "merge", "sum", "done", or "raised" by an IndexError
  comb,      \* the ranges to merge, sorted by their start
  samples,   \* the addresses of the samples, sorted (column addr)
  next,      \* the place in comb, then in merged, of the loop
  merged,    \* the ranges merge returns
  total      \* the sum so far, every sample counted as one

vars == <<pc, comb, samples, next, merged, total>>

AddressRange == {r \in [start : Addresses, end : Addresses] : r.start <= r.end}

(***************************************************************************)
(* numpy's searchsorted: how many samples lie before an address.           *)
(***************************************************************************)
searchsorted(address) == Cardinality({i \in DOMAIN samples : samples[i] < address})

(***************************************************************************)
(* Row i, from 0, of the cumulative sums of makeCumulative, when every     *)
(* sample is one; row -1 is the last one.                                  *)
(***************************************************************************)
irow(i) == IF i < 0 THEN Len(samples) ELSE i + 1

(***************************************************************************)
(* The range that replaces the last one when the next one overlaps it.     *)
(***************************************************************************)
Extended(last, range) == [start |-> last.start, end |-> range.end]

(***************************************************************************)
(* The three cases of the loop of merge.  The last is meant for a range    *)
(* inside the one before; a range of one address after it goes there too.  *)
(* Slips: ranges that share one address are not joined; the last case is   *)
(* not a case of its own.                                                  *)
(***************************************************************************)
MergedButTouching(ranges, range) ==
  LET last == ranges[Len(ranges)]
  IN  IF range.start < last.end /\ last.end < range.end
        THEN [ranges EXCEPT ![Len(ranges)] = Extended(last, range)]
        ELSE IF last.end < range.start /\ range.start < range.end
          THEN Append(ranges, range)
          ELSE ranges

MergedKeepingInner(ranges, range) ==
  LET last == ranges[Len(ranges)]
  IN  IF range.start <= last.end /\ last.end < range.end
        THEN [ranges EXCEPT ![Len(ranges)] = Extended(last, range)]
        ELSE Append(ranges, range)

Merged(ranges, range) ==
  LET last == ranges[Len(ranges)]
  IN  IF range.start <= last.end /\ last.end < range.end
        THEN [ranges EXCEPT ![Len(ranges)] = Extended(last, range)]
        ELSE IF last.end < range.start /\ range.start < range.end
          THEN Append(ranges, range)
          ELSE ranges

(***************************************************************************)
(* What one range adds to the sum in aggregate.  Slip: end itself left     *)
(* out, as if ranges were half open.                                       *)
(***************************************************************************)
SamplesOfHalfOpen(range) ==
  LET endvalue == searchsorted(range.end) - 1
      startvalue == searchsorted(range.start) - 1
  IN  irow(endvalue) - (IF startvalue >= 0 THEN irow(startvalue) ELSE 0)

SamplesOf(range) ==
  LET endvalue == searchsorted(range.end + 1) - 1
      startvalue == searchsorted(range.start) - 1
  IN  irow(endvalue) - (IF startvalue >= 0 THEN irow(startvalue) ELSE 0)

-----------------------------------------------------------------------------
(***************************************************************************)
(* sorted() returns any list ordered by start (it keeps the order of equal *)
(* starts); makeCumulative orders the samples by address.  aggregate reads *)
(* row 0 before anything else, so the dynamic data has a row.              *)
(***************************************************************************)
Init ==
  /\ pc = "merge"
  /\ comb \in BoundedSeq(AddressRange, MaxRanges)
  /\ \A i, j \in DOMAIN comb : i < j => comb[i].start <= comb[j].start
  /\ samples \in BoundedSeq(Addresses, MaxSamples)
  /\ samples # <<>>
  /\ \A i, j \in DOMAIN samples : i < j => samples[i] <= samples[j]
  /\ next = 1
  /\ merged = <<>>
  /\ total = 0

(***************************************************************************)
(* comb[0] of an empty list: the tag "Classes" of a program that has none. *)
(***************************************************************************)
MergeNothing ==
  /\ pc = "merge" /\ comb = <<>>
  /\ pc' = "raised"
  /\ UNCHANGED <<comb, samples, next, merged, total>>

MergeFirst ==
  /\ pc = "merge" /\ next = 1 /\ comb # <<>>
  /\ merged' = <<comb[1]>>
  /\ next' = 2
  /\ UNCHANGED <<pc, comb, samples, total>>

MergeNext ==
  /\ pc = "merge" /\ next \in 2..Len(comb)
  /\ merged' = Merged(merged, comb[next])
  /\ next' = next + 1
  /\ UNCHANGED <<pc, comb, samples, total>>

Feed ==
  /\ pc = "merge" /\ next = Len(comb) + 1 /\ comb # <<>>
  /\ pc' = "sum" /\ next' = 1
  /\ UNCHANGED <<comb, samples, merged, total>>

SumNext ==
  /\ pc = "sum" /\ next \in DOMAIN merged
  /\ total' = total + SamplesOf(merged[next])
  /\ next' = next + 1
  /\ UNCHANGED <<pc, comb, samples, merged>>

Return ==
  /\ pc = "sum" /\ next = Len(merged) + 1
  /\ pc' = "done"
  /\ UNCHANGED <<comb, samples, next, merged, total>>

Next == MergeNothing \/ MergeFirst \/ MergeNext \/ Feed \/ SumNext \/ Return

Spec == Init /\ [][Next]_vars

-----------------------------------------------------------------------------
(***************************************************************************)
(* merge returns ranges, none of them backwards, and the sum is a number.  *)
(***************************************************************************)
TypeOK ==
  /\ pc \in {"merge", "sum", "done", "raised"}
  /\ comb \in Seq(AddressRange)
  /\ samples \in Seq(Addresses)
  /\ next \in Nat
  /\ merged \in Seq(AddressRange)
  /\ total \in Int

(***************************************************************************)
(* No two of the merged ranges share an address, whatever overlaps the     *)
(* functions had (aliases, nested symbols, the ranges of the children of   *)
(* the children): aggregate adds one range after the other and would count *)
(* a shared sample twice.                                                  *)
(***************************************************************************)
RangesApart ==
  \A i, j \in DOMAIN merged : i < j => merged[i].end < merged[j].start

(***************************************************************************)
(* Merging invents no address and loses none of a function longer than     *)
(* one byte, nor of the first one.                                         *)
(***************************************************************************)
Within(range, address) == range.start <= address /\ address <= range.end

Covers(ranges, address) == \E i \in DOMAIN ranges : Within(ranges[i], address)

AddressesKept ==
  pc \in {"sum", "done"} =>
    \A a \in Addresses :
      /\ Covers(merged, a) => Covers(comb, a)
      /\ \A i \in DOMAIN comb :
           Within(comb[i], a) /\ (i = 1 \/ comb[i].start < comb[i].end) => Covers(merged, a)

(***************************************************************************)
(* The tag shows the number of samples within its ranges, provided that a  *)
(* sample lies at or before the end of the first range: the searches of    *)
(* aggregate, their row arithmetic and the disjointness merge owes it fit  *)
(* together.                                                               *)
(***************************************************************************)
TotalIsSum ==
  pc = "done" /\ samples[1] <= merged[1].end =>
    total = Cardinality({i \in DOMAIN samples : Covers(merged, samples[i])})

-----------------------------------------------------------------------------
(***************************************************************************)
(* What the comment on aggregate says (tag.py:35-36): it sums up the       *)
(* samples that fall within the ranges.  A range that ends before the      *)
(* first sample adds row -1, the sum of all samples.                       *)
(***************************************************************************)
SumsWithinRanges ==
  pc = "done" => total = Cardinality({i \in DOMAIN samples : Covers(merged, samples[i])})
=============================================================================
