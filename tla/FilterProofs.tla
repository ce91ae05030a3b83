---------------------------- MODULE FilterProofs ----------------------------
(***************************************************************************)
(* The filter panel is right for every number of files, conditions and     *)
(* filters.  First one session: its invariants, the action property of its *)
(* Remove buttons and the refinement of FilterList.  Then what edits,      *)
(* saves, loads and restarts in any order leave true.                      *)
(***************************************************************************)
EXTENDS FilterProject, SequenceTheorems, FiniteSetTheorems, TLAPS

(***************************************************************************)
(* Removing the k-th element of a sequence keeps what is before it and     *)
(* moves what is behind it one place up.                                   *)
(***************************************************************************)
LEMMA RemoveAtProperties ==
  ASSUME NEW S, NEW s \in Seq(S), NEW k \in 1..Len(s)
  PROVE  /\ RemoveAt(s, k) \in Seq(S)
         /\ Len(RemoveAt(s, k)) = Len(s) - 1
         /\ \A i \in 1..(Len(s) - 1) :
              RemoveAt(s, k)[i] = IF i < k THEN s[i] ELSE s[i + 1]
<1> DEFINE front == SubSeq(s, 1, k - 1)
           back  == SubSeq(s, k + 1, Len(s))
<1>0. Len(s) \in Nat
  BY LenProperties
<1>1. /\ front \in Seq(S)
      /\ Len(front) = k - 1
      /\ \A i \in 1..(k - 1) : front[i] = s[i]
  BY <1>0, SubSeqProperties, Z3
<1>2. /\ back \in Seq(S)
      /\ Len(back) = Len(s) - k
      /\ \A i \in 1..(Len(s) - k) : back[i] = s[k + i]
  BY <1>0, SubSeqProperties, Z3
<1>3. RemoveAt(s, k) = front \o back
  BY DEF RemoveAt
<1>4. QED
  <2> HIDE DEF front, back
  <2>1. /\ front \o back \in Seq(S)
        /\ Len(front \o back) = Len(front) + Len(back)
        /\ \A i \in 1..Len(front) + Len(back) :
             (front \o back)[i] = IF i <= Len(front) THEN front[i]
                                  ELSE back[i - Len(front)]
    BY <1>1, <1>2, ConcatProperties, Zenon
  <2>2. Len(front) + Len(back) = Len(s) - 1
    BY <1>0, <1>1, <1>2
  <2>3. ASSUME NEW i \in 1..(Len(s) - 1)
        PROVE  (front \o back)[i] = IF i < k THEN s[i] ELSE s[i + 1]
    <3>1. CASE i < k
      BY <1>0, <1>1, <2>1, <2>2, <3>1
    <3>2. CASE ~(i < k)
      <4>1. (front \o back)[i] = back[i - (k - 1)]
        BY <1>0, <1>1, <2>1, <2>2, <3>2
      <4>2. i - (k - 1) \in 1..(Len(s) - k) /\ k + (i - (k - 1)) = i + 1
        BY <1>0, <3>2
      <4>3. QED
        BY <1>2, <3>2, <4>1, <4>2
    <3>3. QED
      BY <3>1, <3>2
  <2>4. QED
    BY <1>3, <2>1, <2>2, <2>3

(***************************************************************************)
(* In a list without duplicates the row of the i-th number is i.           *)
(***************************************************************************)
LEMMA RowOfNumber ==
  ASSUME NEW indices \in Seq(Nat), IsInjective(indices),
         NEW i \in DOMAIN indices
  PROVE  RowOf(indices, indices[i]) = i
<1>1. DOMAIN indices \subseteq Nat
  BY LenProperties
<1>2. ASSUME NEW j \in DOMAIN indices, indices[j] = indices[i]
      PROVE  j = i
  BY <1>2 DEF IsInjective
<1>3. /\ indices[i] = indices[i]
      /\ \A j \in DOMAIN indices : indices[j] = indices[i] => i <= j
  BY <1>1, <1>2
<1>4. QED
  BY <1>2, <1>3 DEF RowOf
-----------------------------------------------------------------------------
(***************************************************************************)
(* The inductive invariant.  RowsMirrorFilters alone is not inductive: a   *)
(* removal keeps the rows in step only because the bound number stands in  *)
(* one row (NumbersFresh) and the dictionaries lose exactly it             *)
(* (DictsMatchList).                                                       *)
(***************************************************************************)
Inv ==
  /\ TypeOK
  /\ NumbersFresh
  /\ DictsMatchList
  /\ RowsMirrorFilters
  /\ AppliedIsActive

(***************************************************************************)
(* An empty widget satisfies the invariant.                                *)
(***************************************************************************)
LEMMA InitInv == Init => Inv
<1> SUFFICES ASSUME Init PROVE Inv
  OBVIOUS
<1>1. TypeOK
  BY DEF Init, TypeOK
<1>2. NumbersFresh /\ DictsMatchList /\ RowsMirrorFilters
  BY DEF Init, NumbersFresh, DictsMatchList, RowsMirrorFilters, IsInjective,
         Range
<1>3. AppliedIsActive
  BY DEF Init, AppliedIsActive, ActiveFilters
<1>4. QED
  BY <1>1, <1>2, <1>3 DEF Inv

(***************************************************************************)
(* ActiveFilters has filter numbers as keys and filters as values.         *)
(***************************************************************************)
LEMMA ActiveFiltersType ==
  ASSUME NEW fs, NEW enabled, DOMAIN fs \subseteq Nat,
         fs \in [DOMAIN fs -> Filter]
  PROVE  LET active == ActiveFilters(fs, enabled)
         IN  /\ DOMAIN active \subseteq Nat
             /\ active \in [DOMAIN active -> Filter]
BY DEF ActiveFilters

(***************************************************************************)
(* Add keeps the invariant: the number is fresh, and what is appended to   *)
(* the list and the table agrees with what is stored under it.             *)
(***************************************************************************)
LEMMA AddFilterInv ==
  ASSUME Inv, NEW path \in Paths, NEW condition \in Conditions,
         AddFilter(path, condition)
  PROVE  Inv'
<1> DEFINE f == [data_frame_name |-> Basename[path], condition |-> condition]
           n == cur_filter_number
           r == NewRow(f, n)
<1>1. /\ f \in Filter /\ n \in Nat /\ n + 1 \in Nat /\ r \in Row
      /\ r.filter = f /\ r.index = n /\ r.checked = TRUE
  BY BasenameAssumption DEF Inv, TypeOK, Filter, Row, NewRow
<1>2. /\ table' = Append(table, r)
      /\ filters' = With(filters, n, f)
      /\ filters_enabled' = With(filters_enabled, n, TRUE)
      /\ filter_indices' = Append(filter_indices, n)
      /\ cur_filter_number' = n + 1
      /\ applied' = ActiveFilters(filters', filters_enabled')
  BY DEF AddFilter, NewFilter, NextNumber, EmitNewFilterAdded
<1>3. /\ table \in Seq(Row) /\ filter_indices \in Seq(Nat)
      /\ Len(table) \in Nat /\ Len(filter_indices) = Len(table)
      /\ DOMAIN table = 1..Len(table)
      /\ DOMAIN filter_indices = 1..Len(table)
  BY LenProperties DEF Inv, TypeOK, RowsMirrorFilters
<1> HIDE DEF f, n, r
<1>4. /\ table' \in Seq(Row)
      /\ DOMAIN table' = 1..(Len(table) + 1)
      /\ Len(table') = Len(table) + 1
      /\ \A i \in 1..Len(table) : table'[i] = table[i]
      /\ table'[Len(table) + 1] = r
  BY <1>1, <1>2, <1>3, AppendProperties
<1>5. /\ filter_indices' \in Seq(Nat)
      /\ DOMAIN filter_indices' = 1..(Len(table) + 1)
      /\ Len(filter_indices') = Len(table) + 1
      /\ \A i \in 1..Len(table) : filter_indices'[i] = filter_indices[i]
      /\ filter_indices'[Len(table) + 1] = n
  BY <1>1, <1>2, <1>3, AppendProperties
<1>6. n \notin Range(filter_indices)
  BY <1>1 DEF Inv, NumbersFresh, Range, n
<1>7. Range(filter_indices') = Range(filter_indices) \cup {n}
  BY <1>3, <1>5 DEF Range
<1>8. /\ DOMAIN filters' = DOMAIN filters \cup {n}
      /\ DOMAIN filters_enabled' = DOMAIN filters_enabled \cup {n}
      /\ filters'[n] = f /\ filters_enabled'[n] = TRUE
      /\ \A k \in DOMAIN filters \ {n} : filters'[k] = filters[k]
      /\ \A k \in DOMAIN filters_enabled \ {n} :
           filters_enabled'[k] = filters_enabled[k]
      /\ filters' = [k \in DOMAIN filters' |-> filters'[k]]
      /\ filters_enabled' =
           [k \in DOMAIN filters_enabled' |-> filters_enabled'[k]]
  BY <1>2 DEF With
<1>9. TypeOK'
  <2>1. DOMAIN filters' \subseteq Nat /\ filters' \in [DOMAIN filters' -> Filter]
    BY <1>1, <1>8 DEF Inv, TypeOK
  <2>2. /\ DOMAIN filters_enabled' \subseteq Nat
        /\ filters_enabled' \in [DOMAIN filters_enabled' -> BOOLEAN]
    <3>1. \A k \in DOMAIN filters_enabled' : filters_enabled'[k] \in BOOLEAN
      <4>1. \A k \in DOMAIN filters_enabled : filters_enabled[k] \in BOOLEAN
        BY DEF Inv, TypeOK
      <4>2. \A k \in DOMAIN filters_enabled' :
              k = n \/ k \in DOMAIN filters_enabled \ {n}
        BY <1>8
      <4>3. QED
        BY <1>8, <4>1, <4>2
    <3>2. DOMAIN filters_enabled' \subseteq Nat
      BY <1>1, <1>8 DEF Inv, TypeOK
    <3>3. QED
      BY <1>8, <3>1, <3>2
  <2>3. DOMAIN applied' \subseteq Nat /\ applied' \in [DOMAIN applied' -> Filter]
    BY <1>2, <2>1, ActiveFiltersType
  <2>4. QED
    BY <1>1, <1>2, <1>4, <1>5, <2>1, <2>2, <2>3 DEF TypeOK
<1>10. NumbersFresh'
  <2>1. \A i \in DOMAIN filter_indices' : filter_indices'[i] < cur_filter_number'
    BY <1>1, <1>2, <1>3, <1>5, ElementOfSeq DEF Inv, NumbersFresh, n
  <2>2. \A i \in 1..Len(table) : filter_indices[i] # n
    BY <1>3, <1>6 DEF Range
  <2>3. \A i, j \in 1..Len(table) :
          filter_indices[i] = filter_indices[j] => i = j
    BY <1>3 DEF Inv, NumbersFresh, IsInjective
  <2>4. ASSUME NEW i \in DOMAIN filter_indices', NEW j \in DOMAIN filter_indices',
               filter_indices'[i] = filter_indices'[j]
        PROVE  i = j
    <3>1. \A k \in DOMAIN filter_indices' :
            k \in 1..Len(table) \/ k = Len(table) + 1
      BY <1>3, <1>5
    <3>2. CASE i \in 1..Len(table) /\ j \in 1..Len(table)
      BY <1>5, <2>3, <2>4, <3>2
    <3>3. CASE i \in 1..Len(table) /\ j = Len(table) + 1
      BY <1>5, <2>2, <2>4, <3>3
    <3>4. CASE i = Len(table) + 1 /\ j \in 1..Len(table)
      BY <1>5, <2>2, <2>4, <3>4
    <3>5. QED
      BY <3>1, <3>2, <3>3, <3>4
  <2>5. IsInjective(filter_indices')
    BY <2>4 DEF IsInjective
  <2>6. QED
    BY <2>1, <2>5 DEF NumbersFresh
<1>11. DictsMatchList'
  BY <1>7, <1>8 DEF Inv, DictsMatchList
<1>12. RowsMirrorFilters'
  <2>1. ASSUME NEW i \in DOMAIN table'
        PROVE  /\ table'[i].index = filter_indices'[i]
               /\ table'[i].filter = filters'[table'[i].index]
               /\ table'[i].checked = filters_enabled'[table'[i].index]
    <3>1. CASE i = Len(table) + 1
      BY <1>1, <1>4, <1>5, <1>8, <3>1
    <3>2. CASE i \in 1..Len(table)
      <4>1. /\ table'[i] = table[i] /\ filter_indices'[i] = filter_indices[i]
            /\ table[i].index = filter_indices[i]
            /\ table[i].filter = filters[table[i].index]
            /\ table[i].checked = filters_enabled[table[i].index]
        BY <1>3, <1>4, <1>5, <3>2 DEF Inv, RowsMirrorFilters
      <4>2. filter_indices[i] \in Range(filter_indices)
        BY <1>3, <3>2 DEF Range
      <4>3. /\ filter_indices[i] \in DOMAIN filters \ {n}
            /\ filter_indices[i] \in DOMAIN filters_enabled \ {n}
        BY <1>6, <4>2 DEF Inv, DictsMatchList
      <4>4. QED
        BY <1>8, <4>1, <4>3
    <3>3. QED
      BY <1>3, <1>4, <3>1, <3>2
  <2>2. QED
    BY <1>4, <1>5, <2>1 DEF RowsMirrorFilters
<1>13. AppliedIsActive'
  BY <1>2 DEF AppliedIsActive
<1>14. QED
  BY <1>9, <1>10, <1>11, <1>12, <1>13 DEF Inv

(***************************************************************************)
(* A click on a check box keeps it: the box and the flag flip together.    *)
(***************************************************************************)
LEMMA ToggleFilterInv ==
  ASSUME Inv, NEW row \in DOMAIN table, ToggleFilter(row)
  PROVE  Inv'
<1> DEFINE n == table[row].index
           flag == ~table[row].checked
<1>1. /\ table' = [table EXCEPT ![row].checked = ~@]
      /\ filters_enabled' = With(filters_enabled, n, flag)
      /\ UNCHANGED <<filters, filter_indices, cur_filter_number>>
      /\ applied' = ActiveFilters(filters', filters_enabled')
  BY DEF ToggleFilter, EmitNewFilterAdded
<1>2. /\ table \in Seq(Row)
      /\ DOMAIN table = 1..Len(table) /\ Len(table) \in Nat
      /\ DOMAIN filter_indices = 1..Len(table)
  BY LenProperties DEF Inv, TypeOK, RowsMirrorFilters
<1>3. \A i \in DOMAIN table : table[i] \in Row
  BY <1>2, ElementOfSeq
<1>4. /\ n \in DOMAIN filters_enabled /\ n = filter_indices[row]
      /\ flag \in BOOLEAN
  BY <1>2, <1>3 DEF Inv, RowsMirrorFilters, DictsMatchList, Range, Row
<1> HIDE DEF n, flag
<1>5. /\ table' \in Seq(Row) /\ Len(table') = Len(table)
      /\ DOMAIN table' = DOMAIN table
      /\ \A i \in DOMAIN table \ {row} : table'[i] = table[i]
      /\ table'[row] = [table[row] EXCEPT !.checked = ~table[row].checked]
  <2>1. table' = [table EXCEPT ![row] =
                    [table[row] EXCEPT !.checked = ~table[row].checked]]
    BY <1>1
  <2>2. [table[row] EXCEPT !.checked = ~table[row].checked] \in Row
    BY <1>3 DEF Row
  <2>3. QED
    BY <1>2, <2>1, <2>2, ExceptSeq, LenProperties
<1>6. /\ table'[row].index = n /\ table'[row].filter = table[row].filter
      /\ table'[row].checked = flag
  BY <1>3, <1>5 DEF Row, n, flag
<1>7. /\ DOMAIN filters_enabled' = DOMAIN filters_enabled
      /\ filters_enabled'[n] = flag
      /\ \A k \in DOMAIN filters_enabled \ {n} :
           filters_enabled'[k] = filters_enabled[k]
      /\ filters_enabled' =
           [k \in DOMAIN filters_enabled' |-> filters_enabled'[k]]
  BY <1>1, <1>4 DEF With
<1>8. TypeOK'
  <2>1. filters_enabled' \in [DOMAIN filters_enabled' -> BOOLEAN]
    BY <1>4, <1>7 DEF Inv, TypeOK
  <2>2. DOMAIN applied' \subseteq Nat /\ applied' \in [DOMAIN applied' -> Filter]
    BY <1>1, ActiveFiltersType DEF Inv, TypeOK
  <2>3. QED
    BY <1>1, <1>5, <1>7, <2>1, <2>2 DEF Inv, TypeOK
<1>9. NumbersFresh' /\ DictsMatchList'
  BY <1>1, <1>7 DEF Inv, NumbersFresh, DictsMatchList
<1>10. RowsMirrorFilters'
  <2>1. ASSUME NEW i \in DOMAIN table'
        PROVE  /\ table'[i].index = filter_indices'[i]
               /\ table'[i].filter = filters'[table'[i].index]
               /\ table'[i].checked = filters_enabled'[table'[i].index]
    <3>1. CASE i = row
      BY <1>1, <1>4, <1>6, <1>7, <3>1 DEF Inv, RowsMirrorFilters, n
    <3>2. CASE i # row
      <4>1. /\ table'[i] = table[i]
            /\ table[i].index = filter_indices[i]
            /\ table[i].filter = filters[table[i].index]
            /\ table[i].checked = filters_enabled[table[i].index]
        BY <1>5, <3>2 DEF Inv, RowsMirrorFilters
      <4>2. i \in DOMAIN filter_indices /\ row \in DOMAIN filter_indices
        BY <1>2, <1>5
      <4>3. filter_indices[i] # n
        BY <1>4, <3>2, <4>2 DEF Inv, NumbersFresh, IsInjective
      <4>4. filter_indices[i] \in DOMAIN filters_enabled
        BY <4>2 DEF Inv, DictsMatchList, Range
      <4>5. filters_enabled'[filter_indices[i]] = filters_enabled[filter_indices[i]]
        BY <1>7, <4>3, <4>4
      <4>6. filters' = filters /\ filter_indices' = filter_indices
        BY <1>1
      <4>7. QED
        BY <4>1, <4>5, <4>6
    <3>3. QED
      BY <3>1, <3>2
  <2>2. QED
    BY <1>1, <1>5, <2>1 DEF Inv, RowsMirrorFilters
<1>11. AppliedIsActive'
  BY <1>1 DEF AppliedIsActive
<1>12. QED
  BY <1>8, <1>9, <1>10, <1>11 DEF Inv

(***************************************************************************)
(* Remove keeps it: the row found by number is the row of the button, so   *)
(* that list, table and dictionaries lose the same filter.                 *)
(***************************************************************************)
LEMMA DeleteFilterInv ==
  ASSUME Inv, NEW row \in DOMAIN table, DeleteFilter(row)
  PROVE  /\ Inv'
         /\ table' = RemoveAt(table, row)
         /\ filters' = Without(filters, table[row].index)
<1> DEFINE n == table[row].index
<1>1. /\ table \in Seq(Row) /\ filter_indices \in Seq(Nat)
      /\ DOMAIN table = 1..Len(table) /\ Len(table) \in Nat
      /\ Len(filter_indices) = Len(table)
      /\ DOMAIN filter_indices = 1..Len(table)
  BY LenProperties DEF Inv, TypeOK, RowsMirrorFilters
<1>2. n = filter_indices[row]
  BY DEF Inv, RowsMirrorFilters
<1>3. RowOf(filter_indices, n) = row
  BY <1>1, <1>2, RowOfNumber DEF Inv, NumbersFresh
<1>4. /\ table' = RemoveAt(table, row)
      /\ filters_enabled' = Without(filters_enabled, n)
      /\ filters' = Without(filters, n)
      /\ filter_indices' = RemoveAt(filter_indices, row)
      /\ cur_filter_number' = cur_filter_number
      /\ applied' = ActiveFilters(filters', filters_enabled')
  BY <1>3 DEF DeleteFilter, EmitNewFilterAdded
<1> HIDE DEF n
<1> DEFINE old(i) == IF i < row THEN i ELSE i + 1
<1>5. /\ table' \in Seq(Row)
      /\ DOMAIN table' = 1..(Len(table) - 1) /\ Len(table') = Len(table) - 1
      /\ \A i \in 1..(Len(table) - 1) : table'[i] = table[old(i)]
  <2> row \in 1..Len(table)
    BY <1>1
  <2>1. /\ table' \in Seq(Row) /\ Len(table') = Len(table) - 1
        /\ \A i \in 1..(Len(table) - 1) :
             table'[i] = IF i < row THEN table[i] ELSE table[i + 1]
    BY <1>1, <1>4, RemoveAtProperties
  <2>2. DOMAIN table' = 1..Len(table')
    BY <2>1, LenProperties
  <2>3. QED
    BY <1>1, <2>1, <2>2
<1>6. /\ filter_indices' \in Seq(Nat)
      /\ DOMAIN filter_indices' = 1..(Len(table) - 1)
      /\ Len(filter_indices') = Len(table) - 1
      /\ \A i \in 1..(Len(table) - 1) :
           filter_indices'[i] = filter_indices[old(i)]
  <2> row \in 1..Len(filter_indices)
    BY <1>1
  <2>1. /\ filter_indices' \in Seq(Nat) /\ Len(filter_indices') = Len(filter_indices) - 1
        /\ \A i \in 1..(Len(filter_indices) - 1) :
             filter_indices'[i] = IF i < row THEN filter_indices[i] ELSE filter_indices[i + 1]
    BY <1>1, <1>4, RemoveAtProperties
  <2>2. DOMAIN filter_indices' = 1..Len(filter_indices')
    BY <2>1, LenProperties
  <2>3. QED
    BY <1>1, <2>1, <2>2
<1>7. \A i \in 1..(Len(table) - 1) :
        /\ old(i) \in DOMAIN filter_indices /\ old(i) # row
        /\ \A j \in 1..(Len(table) - 1) : old(i) = old(j) => i = j
  BY <1>1
<1>8. \A k \in DOMAIN filter_indices \ {row} :
        \E i \in 1..(Len(table) - 1) : k = old(i)
  <2> SUFFICES ASSUME NEW k \in DOMAIN filter_indices \ {row}
               PROVE  \E i \in 1..(Len(table) - 1) : k = old(i)
    OBVIOUS
  <2>1. CASE k < row
    <3>1. k \in 1..(Len(table) - 1) /\ k = old(k)
      BY <1>1, <2>1
    <3>2. QED
      BY <3>1
  <2>2. CASE k > row
    <3>1. k - 1 \in 1..(Len(table) - 1) /\ k = old(k - 1)
      BY <1>1, <2>2
    <3>2. QED
      BY <3>1
  <2>3. QED
    BY <1>1, <2>1, <2>2
<1> HIDE DEF old
<1>9. Range(filter_indices') = Range(filter_indices) \ {n}
  <2>1. \A k \in DOMAIN filter_indices : filter_indices[k] = n => k = row
    BY <1>1, <1>2 DEF Inv, NumbersFresh, IsInjective
  <2>2. \A k \in DOMAIN filter_indices : filter_indices[k] \in Range(filter_indices)
    BY DEF Range
  <2>3. \A i \in DOMAIN filter_indices' :
          filter_indices'[i] \in Range(filter_indices')
    BY DEF Range
  <2>4. ASSUME NEW v \in Range(filter_indices')
        PROVE  v \in Range(filter_indices) \ {n}
    <3>1. PICK i \in DOMAIN filter_indices' : v = filter_indices'[i]
      BY DEF Range
    <3>2. /\ i \in 1..(Len(table) - 1)
          /\ v = filter_indices[old(i)]
      BY <1>6, <3>1
    <3>3. old(i) \in DOMAIN filter_indices /\ old(i) # row
      BY <1>7, <3>2
    <3>4. QED
      BY <2>1, <2>2, <3>2, <3>3
  <2>5. ASSUME NEW v \in Range(filter_indices), v # n
        PROVE  v \in Range(filter_indices')
    <3>1. PICK k \in DOMAIN filter_indices : v = filter_indices[k]
      BY DEF Range
    <3>2. k # row
      BY <1>2, <2>5, <3>1
    <3>3. PICK i \in 1..(Len(table) - 1) : k = old(i)
      BY <1>8, <3>2
    <3>4. i \in DOMAIN filter_indices' /\ filter_indices'[i] = v
      BY <1>6, <3>1, <3>3
    <3>5. QED
      BY <2>3, <3>4
  <2>6. QED
    BY <2>4, <2>5
<1>10. /\ DOMAIN filters' = DOMAIN filters \ {n}
       /\ DOMAIN filters_enabled' = DOMAIN filters_enabled \ {n}
       /\ \A k \in DOMAIN filters' : filters'[k] = filters[k]
       /\ \A k \in DOMAIN filters_enabled' :
            filters_enabled'[k] = filters_enabled[k]
       /\ filters' = [k \in DOMAIN filters' |-> filters'[k]]
       /\ filters_enabled' =
            [k \in DOMAIN filters_enabled' |-> filters_enabled'[k]]
  BY <1>4 DEF Without, Restrict
<1>11. TypeOK'
  <2>1. DOMAIN filters' \subseteq Nat /\ filters' \in [DOMAIN filters' -> Filter]
    BY <1>10 DEF Inv, TypeOK
  <2>2. /\ DOMAIN filters_enabled' \subseteq Nat
        /\ filters_enabled' \in [DOMAIN filters_enabled' -> BOOLEAN]
    BY <1>10 DEF Inv, TypeOK
  <2>3. DOMAIN applied' \subseteq Nat /\ applied' \in [DOMAIN applied' -> Filter]
    BY <1>4, <2>1, ActiveFiltersType
  <2>4. QED
    BY <1>4, <1>5, <1>6, <2>1, <2>2, <2>3 DEF Inv, TypeOK
<1>12. NumbersFresh'
  <2>1. \A i \in DOMAIN filter_indices' : filter_indices'[i] < cur_filter_number'
    BY <1>4, <1>6, <1>7 DEF Inv, NumbersFresh
  <2>2. ASSUME NEW i \in DOMAIN filter_indices', NEW j \in DOMAIN filter_indices',
               filter_indices'[i] = filter_indices'[j]
        PROVE  i = j
    <3>1. /\ i \in 1..(Len(table) - 1) /\ j \in 1..(Len(table) - 1)
          /\ filter_indices[old(i)] = filter_indices[old(j)]
      BY <1>6, <2>2
    <3>2. old(i) \in DOMAIN filter_indices /\ old(j) \in DOMAIN filter_indices
      BY <1>7, <3>1
    <3>3. old(i) = old(j)
      BY <3>1, <3>2 DEF Inv, NumbersFresh, IsInjective
    <3>4. QED
      BY <1>7, <3>1, <3>3
  <2>3. QED
    BY <2>1, <2>2 DEF NumbersFresh, IsInjective
<1>13. DictsMatchList'
  BY <1>9, <1>10 DEF Inv, DictsMatchList
<1>14. RowsMirrorFilters'
  <2>1. ASSUME NEW i \in DOMAIN table'
        PROVE  /\ table'[i].index = filter_indices'[i]
               /\ table'[i].filter = filters'[table'[i].index]
               /\ table'[i].checked = filters_enabled'[table'[i].index]
    <3>1. /\ table'[i] = table[old(i)] /\ old(i) \in DOMAIN table
          /\ filter_indices'[i] = filter_indices[old(i)]
          /\ filter_indices'[i] \in Range(filter_indices')
      BY <1>1, <1>5, <1>6, <1>7 DEF Range
    <3>2. /\ table[old(i)].index = filter_indices[old(i)]
          /\ table[old(i)].filter = filters[table[old(i)].index]
          /\ table[old(i)].checked = filters_enabled[table[old(i)].index]
      BY <3>1 DEF Inv, RowsMirrorFilters
    <3>3. /\ filter_indices'[i] \in DOMAIN filters'
          /\ filter_indices'[i] \in DOMAIN filters_enabled'
      BY <1>13, <3>1 DEF DictsMatchList
    <3>4. QED
      BY <1>10, <3>1, <3>2, <3>3
  <2>2. QED
    BY <1>5, <1>6, <2>1 DEF RowsMirrorFilters
<1>15. AppliedIsActive'
  BY <1>4 DEF AppliedIsActive
<1>16. QED
  BY <1>4, <1>11, <1>12, <1>13, <1>14, <1>15 DEF Inv, n
-----------------------------------------------------------------------------
(***************************************************************************)
(* A step that changes nothing keeps the invariant.                        *)
(***************************************************************************)
LEMMA StutterInv == Inv /\ UNCHANGED vars => Inv'
BY DEF Inv, vars, TypeOK, NumbersFresh, DictsMatchList, RowsMirrorFilters,
       AppliedIsActive, ActiveFilters

(***************************************************************************)
(* So every step of the widget keeps it.                                   *)
(***************************************************************************)
LEMMA NextInv == Inv /\ [Next]_vars => Inv'
<1> SUFFICES ASSUME Inv, [Next]_vars PROVE Inv'
  OBVIOUS
<1>1. ASSUME NEW path \in Paths, NEW condition \in Conditions,
             AddFilter(path, condition)
      PROVE  Inv'
  BY <1>1, AddFilterInv
<1>2. ASSUME NEW row \in DOMAIN table, ToggleFilter(row)
      PROVE  Inv'
  BY <1>2, ToggleFilterInv
<1>3. ASSUME NEW row \in DOMAIN table, DeleteFilter(row)
      PROVE  Inv'
  BY <1>3, DeleteFilterInv
<1>4. CASE UNCHANGED vars
  BY <1>4, StutterInv
<1>5. QED
  BY <1>1, <1>2, <1>3, <1>4 DEF Next

(***************************************************************************)
(* The inductive invariant holds in every reachable state.                 *)
(***************************************************************************)
THEOREM Invariance == Spec => []Inv
<1>1. Init => Inv
  BY InitInv
<1>2. Inv /\ [Next]_vars => Inv'
  BY NextInv
<1>3. QED
  BY <1>1, <1>2, PTL DEF Spec

(***************************************************************************)
(* The variables keep their types.                                         *)
(***************************************************************************)
THEOREM TypeCorrect == Spec => []TypeOK
<1>1. Inv => TypeOK
  BY DEF Inv
<1>2. QED
  BY <1>1, Invariance, PTL

(***************************************************************************)
(* What the user sees is what the widget holds, whatever was added, ticked *)
(* and removed, and in which order.                                        *)
(***************************************************************************)
THEOREM ScreenIsState == Spec => []RowsMirrorFilters
<1>1. Inv => RowsMirrorFilters
  BY DEF Inv
<1>2. QED
  BY <1>1, Invariance, PTL

(***************************************************************************)
(* A number never names two filters, in the whole session                  *)
(* (filter_widget.py:226-229, 258-268).                                    *)
(***************************************************************************)
THEOREM NumbersNameFilters == Spec => []NumbersFresh
<1>1. Inv => NumbersFresh
  BY DEF Inv
<1>2. QED
  BY <1>1, Invariance, PTL

(***************************************************************************)
(* No dictionary lookup can fail: the keys are the numbers in the list.    *)
(***************************************************************************)
THEOREM LookupsFind == Spec => []DictsMatchList
<1>1. Inv => DictsMatchList
  BY DEF Inv
<1>2. QED
  BY <1>1, Invariance, PTL

(***************************************************************************)
(* The filters the data was filtered by are those ticked on the screen.    *)
(***************************************************************************)
LEMMA InvAppliedIsShown == Inv => AppliedIsShown
<1> SUFFICES ASSUME Inv PROVE AppliedIsShown
  OBVIOUS
<1>1. /\ DOMAIN table = 1..Len(table)
      /\ DOMAIN filter_indices = 1..Len(table)
  BY LenProperties DEF Inv, TypeOK, RowsMirrorFilters
<1>2. \A i \in DOMAIN table :
        /\ table[i].index = filter_indices[i]
        /\ table[i].index \in DOMAIN filters
        /\ table[i].filter = filters[table[i].index]
        /\ table[i].checked = filters_enabled[table[i].index]
  BY <1>1 DEF Inv, RowsMirrorFilters, DictsMatchList, Range
<1>3. DOMAIN applied = {k \in DOMAIN filters : filters_enabled[k]}
  BY DEF Inv, AppliedIsActive, ActiveFilters
<1>4. \A k \in DOMAIN applied : applied[k] = filters[k]
  BY DEF Inv, AppliedIsActive, ActiveFilters
<1>5. \A k \in DOMAIN filters : \E i \in DOMAIN table : table[i].index = k
  BY <1>1, <1>2 DEF Inv, DictsMatchList, Range
<1>6. DOMAIN applied = {table[i].index : i \in TickedRows}
  BY <1>2, <1>3, <1>5 DEF TickedRows
<1>7. \A i \in TickedRows : applied[table[i].index] = table[i].filter
  BY <1>2, <1>4, <1>6 DEF TickedRows
<1>8. QED
  BY <1>6, <1>7 DEF AppliedIsShown

(***************************************************************************)
(* What the listeners last heard of are the filters ticked on the screen   *)
(* (filter_widget.py:163-165, 242-280).                                    *)
(***************************************************************************)
THEOREM ShownFiltersApplied == Spec => []AppliedIsShown
<1>1. Inv => AppliedIsShown
  BY InvAppliedIsShown
<1>2. QED
  BY <1>1, Invariance, PTL

(***************************************************************************)
(* The Remove button of a row removes that row and its filter.             *)
(***************************************************************************)
THEOREM RemoveIsExact == Spec => RemoveTakesItsOwnRow
<1>1. Inv /\ [Next]_vars =>
        [\A row \in DOMAIN table :
           DeleteFilter(row) =>
             /\ table' = RemoveAt(table, row)
             /\ filters' = Without(filters, table[row].index)]_vars
  BY DeleteFilterInv
<1>2. QED
  BY <1>1, Invariance, PTL DEF Spec, RemoveTakesItsOwnRow
-----------------------------------------------------------------------------
(***************************************************************************)
(* Read off the screen, the widget behaves as FilterList.                  *)
(***************************************************************************)
ShownTyped ==
  /\ ShownEntries \in Seq(List!Entry)
  /\ DOMAIN ShownEntries = DOMAIN table
  /\ Len(ShownEntries) = Len(table)
  /\ DOMAIN table = 1..Len(table) /\ Len(table) \in Nat
  /\ \A i \in DOMAIN table :
       /\ ShownEntries[i].filter = table[i].filter
       /\ ShownEntries[i].ticked = table[i].checked
       /\ ShownEntries[i] = [filter |-> table[i].filter,
                             ticked |-> table[i].checked]

(***************************************************************************)
(* The list on the screen has the type of an abstract list.                *)
(***************************************************************************)
LEMMA ShownType == Inv => ShownTyped
<1> SUFFICES ASSUME Inv PROVE ShownTyped
  OBVIOUS
<1>1. /\ DOMAIN table = 1..Len(table) /\ Len(table) \in Nat
      /\ \A i \in DOMAIN table : table[i] \in Row
  BY LenProperties, ElementOfSeq DEF Inv, TypeOK
<1>2. \A i \in 1..Len(table) : ShownEntries[i] \in List!Entry
  BY <1>1 DEF ShownEntries, Row, List!Entry
<1>3. /\ ShownEntries \in Seq(List!Entry)
      /\ Len(ShownEntries) = Len(table)
  BY <1>1, <1>2, IsASeq, LenProperties DEF ShownEntries
<1>4. QED
  BY <1>1, <1>3 DEF ShownEntries, ShownTyped

(***************************************************************************)
(* The filters in force are those ticked in the abstract list.             *)
(***************************************************************************)
LEMMA InForceIsTicked ==
  Inv => Range(applied) = List!Ticked(ShownEntries)
<1> SUFFICES ASSUME Inv PROVE Range(applied) = List!Ticked(ShownEntries)
  OBVIOUS
<1>1. AppliedIsShown
  BY InvAppliedIsShown
<1>2. \A i \in DOMAIN ShownEntries :
        /\ ShownEntries[i].filter = table[i].filter
        /\ ShownEntries[i].ticked = table[i].checked
  BY ShownType DEF ShownTyped
<1>3. DOMAIN ShownEntries = DOMAIN table
  BY ShownType DEF ShownTyped
<1>4. List!Ticked(ShownEntries) = {table[i].filter : i \in TickedRows}
  BY <1>2, <1>3 DEF List!Ticked, TickedRows
<1>5. Range(applied) = {table[i].filter : i \in TickedRows}
  BY <1>1 DEF AppliedIsShown, Range
<1>6. QED
  BY <1>4, <1>5

(***************************************************************************)
(* An empty widget shows an empty list.                                    *)
(***************************************************************************)
LEMMA InitRefines == Init => List!ListInit
<1> SUFFICES ASSUME Init PROVE List!ListInit
  OBVIOUS
<1>1. ShownEntries = <<>>
  BY DEF Init, ShownEntries
<1>2. Range(applied) = {}
  BY DEF Init, Range
<1>3. QED
  BY <1>1, <1>2 DEF List!ListInit

(***************************************************************************)
(* Both hold again after a step that keeps the invariant.                  *)
(***************************************************************************)
LEMMA ShownNext ==
  Inv' => /\ (Range(applied) = List!Ticked(ShownEntries))'
          /\ ShownTyped'
BY InForceIsTicked, ShownType, PTL

(***************************************************************************)
(* Every step of the widget is a step of the list, or changes nothing of   *)
(* it.                                                                     *)
(***************************************************************************)
LEMMA StepRefines ==
  Inv /\ Inv' /\ [Next]_vars => [List!ListNext]_(List!listVars)
<1> SUFFICES ASSUME Inv, Inv', [Next]_vars
             PROVE  [List!ListNext]_(List!listVars)
  OBVIOUS
<1>1. Range(applied') = List!Ticked(ShownEntries')
  BY ShownNext
<1> DEFINE S  == ShownEntries
           S1 == ShownEntries'
<1>2. /\ S \in Seq(List!Entry) /\ Len(S) \in Nat
      /\ Len(S) = Len(table) /\ DOMAIN S = 1..Len(S) /\ DOMAIN table = 1..Len(S)
      /\ \A i \in 1..Len(S) : S[i] = [filter |-> table[i].filter,
                                     ticked |-> table[i].checked]
  BY ShownType DEF ShownTyped
<1>3. /\ S1 \in Seq(List!Entry) /\ Len(S1) \in Nat
      /\ Len(S1) = Len(table') /\ DOMAIN S1 = 1..Len(S1)
      /\ DOMAIN table' = 1..Len(S1)
      /\ \A i \in 1..Len(S1) : S1[i] = [filter |-> table'[i].filter,
                                       ticked |-> table'[i].checked]
  BY ShownNext DEF ShownTyped
<1>4. table \in Seq(Row) /\ table' \in Seq(Row)
  BY DEF Inv, TypeOK
<1> HIDE DEF S, S1
<1>5. ASSUME NEW path \in Paths, NEW condition \in Conditions,
             AddFilter(path, condition)
      PROVE  List!ListNext
  <2> DEFINE f == [data_frame_name |-> Basename[path],
                   condition |-> condition]
             r == NewRow(f, cur_filter_number)
             e == [filter |-> f, ticked |-> TRUE]
  <2>1. f \in Filter /\ r \in Row /\ r.filter = f /\ r.checked = TRUE
    BY BasenameAssumption DEF Filter, Row, NewRow, Inv, TypeOK
  <2>2. table' = Append(table, r)
    BY <1>5 DEF AddFilter, NewFilter
  <2>3. e \in List!Entry
    BY <2>1 DEF List!Entry
  <2> HIDE DEF f, r
  <2>4. S1 = Append(S, e)
    <3> HIDE DEF e
    <3>1. /\ Len(table') = Len(S) + 1
          /\ \A i \in 1..Len(S) : table'[i] = table[i]
          /\ table'[Len(S) + 1] = r
      BY <1>2, <1>4, <2>1, <2>2, AppendProperties
    <3>2. /\ Append(S, e) \in Seq(List!Entry)
          /\ Len(Append(S, e)) = Len(S) + 1
          /\ \A i \in 1..Len(S) : Append(S, e)[i] = S[i]
          /\ Append(S, e)[Len(S) + 1] = e
      BY <1>2, <2>3, AppendProperties
    <3>3. ASSUME NEW i \in 1..Len(S1) PROVE S1[i] = Append(S, e)[i]
      <4>1. CASE i = Len(S) + 1
        BY <1>3, <2>1, <3>1, <3>2, <4>1 DEF e
      <4>2. CASE i \in 1..Len(S)
        BY <1>2, <1>3, <3>1, <3>2, <4>2
      <4>3. QED
        BY <1>2, <1>3, <3>1, <4>1, <4>2
    <3>4. QED
      BY <1>2, <1>3, <3>1, <3>2, <3>3, SeqEqual
  <2>5. List!Add(f)
    BY <2>4 DEF List!Add, S, S1
  <2>6. QED
    BY <1>1, <2>1, <2>5 DEF List!ListNext
<1>6. ASSUME NEW row \in DOMAIN table, ToggleFilter(row)
      PROVE  List!ListNext
  <2> DEFINE T == [S EXCEPT ![row].ticked = ~@]
  <2>1. table' = [table EXCEPT ![row] =
                    [table[row] EXCEPT !.checked = ~table[row].checked]]
    BY <1>6 DEF ToggleFilter
  <2>2. table[row] \in Row
    BY <1>2, <1>4, ElementOfSeq
  <2>3. /\ DOMAIN table' = DOMAIN table
        /\ \A i \in DOMAIN table \ {row} : table'[i] = table[i]
        /\ table'[row].filter = table[row].filter
        /\ table'[row].checked = ~table[row].checked
    BY <1>2, <2>1, <2>2 DEF Row
  <2>4. Len(S1) = Len(S)
    <3>1. [table[row] EXCEPT !.checked = ~table[row].checked] \in Row
      BY <2>2 DEF Row
    <3>2. Len(table') = Len(table)
      BY <1>2, <1>4, <2>1, <3>1, ExceptSeq
    <3>3. QED
      BY <1>2, <1>3, <3>2
  <2>5. /\ DOMAIN T = DOMAIN S
        /\ \A i \in DOMAIN S \ {row} : T[i] = S[i]
        /\ T[row] = [S[row] EXCEPT !.ticked = ~S[row].ticked]
    BY <1>2
  <2>6. ASSUME NEW i \in DOMAIN S PROVE S1[i] = T[i]
    <3>1. CASE i = row
      <4>1. S[row] = [filter |-> table[row].filter, ticked |-> table[row].checked]
        BY <1>2
      <4>2. T[row] = [filter |-> table[row].filter, ticked |-> ~table[row].checked]
        BY <2>5, <4>1
      <4>3. S1[row] = [filter |-> table[row].filter, ticked |-> ~table[row].checked]
        BY <1>2, <1>3, <2>3, <2>4
      <4>4. QED
        BY <3>1, <4>2, <4>3
    <3>2. CASE i # row
      BY <1>2, <1>3, <2>3, <2>4, <2>5, <3>2
    <3>3. QED
      BY <3>1, <3>2
  <2>7. S1 = T
    <3>1. S1 = [i \in DOMAIN S |-> S1[i]]
      BY <1>2, <1>3, <2>4, <2>6 DEF S1, ShownEntries
    <3>2. T = [i \in DOMAIN S |-> T[i]]
      OBVIOUS
    <3> HIDE DEF T
    <3>3. QED
      BY <2>6, <3>1, <3>2
  <2>8. List!Flip(row)
    BY <2>7 DEF List!Flip, S, S1
  <2>9. QED
    BY <1>1, <1>2, <2>8 DEF List!ListNext, S
<1>7. ASSUME NEW row \in DOMAIN table, DeleteFilter(row)
      PROVE  List!ListNext
  <2>1. table' = RemoveAt(table, row)
    BY <1>7, DeleteFilterInv
  <2>2. row \in 1..Len(table) /\ row \in 1..Len(S)
    BY <1>2
  <2>3. /\ Len(table') = Len(table) - 1
        /\ \A i \in 1..(Len(table) - 1) :
             table'[i] = IF i < row THEN table[i] ELSE table[i + 1]
    BY <1>4, <2>1, <2>2, RemoveAtProperties
  <2>4. /\ RemoveAt(S, row) \in Seq(List!Entry)
        /\ Len(RemoveAt(S, row)) = Len(S) - 1
        /\ \A i \in 1..(Len(S) - 1) :
             RemoveAt(S, row)[i] = IF i < row THEN S[i] ELSE S[i + 1]
    BY <1>2, <2>2, RemoveAtProperties
  <2>5. Len(S1) = Len(S) - 1
    BY <1>2, <1>3, <2>3
  <2>6. ASSUME NEW i \in 1..Len(S1) PROVE S1[i] = RemoveAt(S, row)[i]
    <3>1. CASE i < row
      <4>1. i \in 1..Len(S) /\ i \in 1..(Len(S) - 1)
        BY <1>2, <1>3, <2>5
      <4>2. table'[i] = table[i] /\ RemoveAt(S, row)[i] = S[i]
        BY <1>2, <2>3, <2>4, <3>1, <4>1
      <4>3. QED
        BY <1>2, <1>3, <4>1, <4>2
    <3>2. CASE ~(i < row)
      <4>1. i + 1 \in 1..Len(S) /\ i \in 1..(Len(S) - 1)
        BY <1>2, <1>3, <2>5
      <4>2. table'[i] = table[i + 1] /\ RemoveAt(S, row)[i] = S[i + 1]
        BY <1>2, <2>3, <2>4, <3>2, <4>1
      <4>3. QED
        BY <1>2, <1>3, <4>1, <4>2
    <3>3. QED
      BY <3>1, <3>2
  <2>7. S1 = RemoveAt(S, row)
    BY <1>2, <1>3, <2>4, <2>5, <2>6, SeqEqual
  <2>8. List!Take(row)
    BY <2>7 DEF List!Take, List!RemoveAt, RemoveAt, S, S1
  <2>9. QED
    BY <1>1, <1>2, <2>8 DEF List!ListNext, S
<1>8. CASE UNCHANGED vars
  BY <1>8 DEF vars, List!listVars, ShownEntries
<1>9. QED
  BY <1>5, <1>6, <1>7, <1>8 DEF Next

(***************************************************************************)
(* The widget implements FilterList: numbers, dictionaries and bound       *)
(* buttons cannot be told from a plain list of filters                     *)
(* (filter_widget.py:124-280).                                             *)
(***************************************************************************)
THEOREM Refinement == Spec => ImplementsFilterList
<1>1. Init => List!ListInit
  BY InitRefines
<1>2. Inv /\ Inv' /\ [Next]_vars => [List!ListNext]_(List!listVars)
  BY StepRefines
<1>3. QED
  BY <1>1, <1>2, Invariance, PTL DEF Spec, ImplementsFilterList, List!ListSpec
-----------------------------------------------------------------------------
(***************************************************************************)
(* The panel with project files.                                           *)
(***************************************************************************)

(***************************************************************************)
(* What setState must find in the pickled state for the panel to be right  *)
(* afterwards; it is what getState finds in a panel that is right.         *)
(***************************************************************************)
Sound(s) ==
  /\ s.cur_filter_number \in Nat
  /\ DOMAIN s.filters \subseteq Nat
  /\ s.filters \in [DOMAIN s.filters -> Filter]
  /\ DOMAIN s.filters_enabled \subseteq Nat
  /\ s.filters_enabled \in [DOMAIN s.filters_enabled -> BOOLEAN]
  /\ s.filter_indices \in Seq(Nat)
  /\ DOMAIN s.applied \subseteq Nat
  /\ s.applied \in [DOMAIN s.applied -> Filter]
  /\ \A i \in DOMAIN s.filter_indices : s.filter_indices[i] < s.cur_filter_number
  /\ IsInjective(s.filter_indices)
  /\ DOMAIN s.filters = Range(s.filter_indices)
  /\ DOMAIN s.filters \subseteq DOMAIN s.filters_enabled

SavedSound == project # NoProject => Sound(project)

(***************************************************************************)
(* There is a row for every number, even when rows of another session      *)
(* stand above them: removing the row at the place of a number never       *)
(* reaches behind the table.                                               *)
(***************************************************************************)
RowsSuffice == Len(filter_indices) <= Len(table)

PInv ==
  /\ TypeOK
  /\ NumbersFresh
  /\ LookupsSucceed
  /\ RowsSuffice
  /\ RowsBoundInOrder
  /\ CleanSessionMirrors
  /\ SavedSound
-----------------------------------------------------------------------------
(***************************************************************************)
(* Appending a number that is not in the list.                             *)
(***************************************************************************)
LEMMA AppendedNumber ==
  ASSUME NEW indices \in Seq(Nat), NEW n \in Nat, n \notin Range(indices),
         IsInjective(indices)
  PROVE  /\ Append(indices, n) \in Seq(Nat)
         /\ Len(Append(indices, n)) = Len(indices) + 1
         /\ \A i \in 1..Len(indices) : Append(indices, n)[i] = indices[i]
         /\ Append(indices, n)[Len(indices) + 1] = n
         /\ Range(Append(indices, n)) = Range(indices) \cup {n}
         /\ IsInjective(Append(indices, n))
<1> DEFINE new == Append(indices, n)
<1>1. /\ Len(indices) \in Nat /\ DOMAIN indices = 1..Len(indices)
  BY LenProperties
<1>2. /\ new \in Seq(Nat) /\ Len(new) = Len(indices) + 1
      /\ \A i \in 1..Len(indices) : new[i] = indices[i]
      /\ new[Len(indices) + 1] = n
  BY <1>1, AppendProperties
<1>3. DOMAIN new = 1..(Len(indices) + 1)
  BY <1>2, LenProperties
<1> HIDE DEF new
<1>4. \A k \in DOMAIN new : k \in 1..Len(indices) \/ k = Len(indices) + 1
  BY <1>1, <1>3
<1>5. 1..Len(indices) \subseteq DOMAIN new /\ Len(indices) + 1 \in DOMAIN new
  BY <1>1, <1>3
<1>6. Range(new) = Range(indices) \cup {n}
  <2>1. ASSUME NEW v \in Range(new) PROVE v \in Range(indices) \cup {n}
    <3>1. PICK k \in DOMAIN new : v = new[k]
      BY DEF Range
    <3>2. QED
      BY <1>1, <1>2, <1>4, <3>1 DEF Range
  <2>2. ASSUME NEW v \in Range(indices) PROVE v \in Range(new)
    <3>1. PICK k \in DOMAIN indices : v = indices[k]
      BY DEF Range
    <3>2. k \in DOMAIN new /\ v = new[k]
      BY <1>1, <1>2, <1>5, <3>1
    <3>3. QED
      BY <3>2 DEF Range
  <2>3. n \in Range(new)
    BY <1>2, <1>5 DEF Range
  <2>4. QED
    BY <2>1, <2>2, <2>3
<1>7. IsInjective(new)
  <2>1. \A i \in 1..Len(indices) : indices[i] # n
    BY <1>1 DEF Range
  <2>2. \A i, j \in 1..Len(indices) : indices[i] = indices[j] => i = j
    BY <1>1 DEF IsInjective
  <2>3. ASSUME NEW i \in DOMAIN new, NEW j \in DOMAIN new, new[i] = new[j]
        PROVE  i = j
    <3>1. CASE i \in 1..Len(indices) /\ j \in 1..Len(indices)
      BY <1>2, <2>2, <2>3, <3>1
    <3>2. CASE i \in 1..Len(indices) /\ j = Len(indices) + 1
      BY <1>2, <2>1, <2>3, <3>2
    <3>3. CASE i = Len(indices) + 1 /\ j \in 1..Len(indices)
      BY <1>2, <2>1, <2>3, <3>3
    <3>4. QED
      BY <1>4, <3>1, <3>2, <3>3
  <2>4. QED
    BY <2>3 DEF IsInjective
<1>8. QED
  BY <1>2, <1>6, <1>7 DEF new

(***************************************************************************)
(* Removing the k-th number: place i of the new list is place Old(k, i) of *)
(* the old one.                                                            *)
(***************************************************************************)
Old(k, i) == IF i < k THEN i ELSE i + 1

LEMMA RemovedNumber ==
  ASSUME NEW indices \in Seq(Nat), IsInjective(indices),
         NEW k \in DOMAIN indices
  PROVE  /\ RemoveAt(indices, k) \in Seq(Nat)
         /\ Len(RemoveAt(indices, k)) = Len(indices) - 1
         /\ \A i \in 1..(Len(indices) - 1) :
              /\ RemoveAt(indices, k)[i] = indices[Old(k, i)]
              /\ Old(k, i) \in 1..Len(indices)
         /\ Range(RemoveAt(indices, k)) = Range(indices) \ {indices[k]}
         /\ IsInjective(RemoveAt(indices, k))
<1> DEFINE new == RemoveAt(indices, k)
<1>1. Len(indices) \in Nat /\ DOMAIN indices = 1..Len(indices)
  BY LenProperties
<1>2. /\ new \in Seq(Nat) /\ Len(new) = Len(indices) - 1
      /\ \A i \in 1..(Len(indices) - 1) :
           new[i] = IF i < k THEN indices[i] ELSE indices[i + 1]
  BY <1>1, RemoveAtProperties
<1>3. DOMAIN new = 1..(Len(indices) - 1)
  BY <1>2, LenProperties
<1> HIDE DEF new
<1>4. \A i \in 1..(Len(indices) - 1) : new[i] = indices[Old(k, i)]
  BY <1>2 DEF Old
<1>5. \A i \in 1..(Len(indices) - 1) :
        /\ Old(k, i) \in 1..Len(indices) /\ Old(k, i) # k
        /\ \A j \in 1..(Len(indices) - 1) : Old(k, i) = Old(k, j) => i = j
  BY <1>1 DEF Old
<1>6. ASSUME NEW p \in DOMAIN indices, p # k
      PROVE  \E i \in 1..(Len(indices) - 1) : p = Old(k, i)
  <2>1. CASE p < k
    <3>1. p \in 1..(Len(indices) - 1) /\ p = Old(k, p)
      BY <1>1, <2>1 DEF Old
    <3>2. QED
      BY <3>1
  <2>2. CASE p > k
    <3>1. p - 1 \in 1..(Len(indices) - 1) /\ p = Old(k, p - 1)
      BY <1>1, <2>2 DEF Old
    <3>2. QED
      BY <3>1
  <2>3. QED
    BY <1>1, <1>6, <2>1, <2>2
<1>7. \A p, q \in 1..Len(indices) : indices[p] = indices[q] => p = q
  BY <1>1 DEF IsInjective
<1>8. Range(new) = Range(indices) \ {indices[k]}
  <2>1. ASSUME NEW v \in Range(new)
        PROVE  v \in Range(indices) \ {indices[k]}
    <3>1. PICK i \in 1..(Len(indices) - 1) : v = new[i]
      BY <1>3 DEF Range
    <3>2. v = indices[Old(k, i)] /\ Old(k, i) \in DOMAIN indices /\ Old(k, i) # k
      BY <1>1, <1>4, <1>5, <3>1
    <3>3. v # indices[k]
      BY <1>1, <1>7, <3>2
    <3>4. QED
      BY <3>2, <3>3 DEF Range
  <2>2. ASSUME NEW v \in Range(indices), v # indices[k]
        PROVE  v \in Range(new)
    <3>1. PICK p \in DOMAIN indices : v = indices[p]
      BY DEF Range
    <3>2. PICK i \in 1..(Len(indices) - 1) : p = Old(k, i)
      BY <1>6, <2>2, <3>1
    <3>3. i \in DOMAIN new /\ v = new[i]
      BY <1>3, <1>4, <3>1, <3>2
    <3>4. QED
      BY <3>3 DEF Range
  <2>3. QED
    BY <2>1, <2>2
<1>9. IsInjective(new)
  <2>1. ASSUME NEW i \in DOMAIN new, NEW j \in DOMAIN new, new[i] = new[j]
        PROVE  i = j
    <3>1. i \in 1..(Len(indices) - 1) /\ j \in 1..(Len(indices) - 1)
      BY <1>3
    <3>2. indices[Old(k, i)] = indices[Old(k, j)]
      BY <1>4, <2>1, <3>1
    <3>3. Old(k, i) = Old(k, j)
      BY <1>5, <1>7, <3>1, <3>2
    <3>4. QED
      BY <1>5, <3>1, <3>3
  <2>2. QED
    BY <2>1 DEF IsInjective
<1>10. QED
  BY <1>2, <1>4, <1>5, <1>8, <1>9 DEF new
-----------------------------------------------------------------------------
(***************************************************************************)
(* The invariant of a session without its rows, and what an edit leaves of *)
(* the variables it does not touch.                                        *)
(***************************************************************************)
LEMMA EditKeepsSaved ==
  PInv /\ UNCHANGED <<project, session>> => SavedSound' /\ session' = session
BY DEF PInv, SavedSound, Sound

(***************************************************************************)
(* Pressing Add in any session.                                            *)
(***************************************************************************)
LEMMA AddFilterPInv ==
  ASSUME PInv, NEW path \in Paths, NEW condition \in Conditions,
         AddFilter(path, condition), UNCHANGED <<project, session>>
  PROVE  PInv'
<1> DEFINE f == [data_frame_name |-> Basename[path], condition |-> condition]
           n == cur_filter_number
           r == NewRow(f, n)
<1>1. /\ f \in Filter /\ n \in Nat /\ n + 1 \in Nat /\ r \in Row
      /\ r.filter = f /\ r.index = n /\ r.checked = TRUE
  BY BasenameAssumption DEF PInv, TypeOK, Filter, Row, NewRow
<1>2. /\ table' = Append(table, r)
      /\ filters' = With(filters, n, f)
      /\ filters_enabled' = With(filters_enabled, n, TRUE)
      /\ filter_indices' = Append(filter_indices, n)
      /\ cur_filter_number' = n + 1
      /\ applied' = ActiveFilters(filters', filters_enabled')
  BY DEF AddFilter, NewFilter, NextNumber, EmitNewFilterAdded
<1>3. /\ table \in Seq(Row) /\ filter_indices \in Seq(Nat)
      /\ Len(table) \in Nat /\ Len(filter_indices) \in Nat
      /\ DOMAIN table = 1..Len(table)
      /\ DOMAIN filter_indices = 1..Len(filter_indices)
      /\ \A i \in DOMAIN filter_indices : filter_indices[i] \in Nat
  BY LenProperties, ElementOfSeq DEF PInv, TypeOK
<1>4. \A i \in DOMAIN filter_indices : filter_indices[i] < n
  BY DEF PInv, NumbersFresh, n
<1>5. n \notin Range(filter_indices) /\ IsInjective(filter_indices)
  BY <1>1, <1>4 DEF PInv, NumbersFresh, Range
<1> HIDE DEF f, n, r
<1>6. /\ table' \in Seq(Row) /\ Len(table') = Len(table) + 1
      /\ \A i \in 1..Len(table) : table'[i] = table[i]
      /\ table'[Len(table) + 1] = r
      /\ DOMAIN table' = 1..(Len(table) + 1)
  BY <1>1, <1>2, <1>3, AppendProperties
<1>7. /\ filter_indices' \in Seq(Nat)
      /\ Len(filter_indices') = Len(filter_indices) + 1
      /\ \A i \in 1..Len(filter_indices) : filter_indices'[i] = filter_indices[i]
      /\ filter_indices'[Len(filter_indices) + 1] = n
      /\ Range(filter_indices') = Range(filter_indices) \cup {n}
      /\ IsInjective(filter_indices')
  BY <1>1, <1>2, <1>3, <1>5, AppendedNumber
<1>8. DOMAIN filter_indices' = 1..(Len(filter_indices) + 1)
  BY <1>7, LenProperties
<1>9. /\ DOMAIN filters' = DOMAIN filters \cup {n}
      /\ DOMAIN filters_enabled' = DOMAIN filters_enabled \cup {n}
      /\ filters'[n] = f /\ filters_enabled'[n] = TRUE
      /\ \A k \in DOMAIN filters \ {n} : filters'[k] = filters[k]
      /\ \A k \in DOMAIN filters_enabled \ {n} :
           filters_enabled'[k] = filters_enabled[k]
      /\ filters' = [k \in DOMAIN filters' |-> filters'[k]]
      /\ filters_enabled' =
           [k \in DOMAIN filters_enabled' |-> filters_enabled'[k]]
  BY <1>2 DEF With
<1>10. TypeOK'
  <2>1. DOMAIN filters' \subseteq Nat /\ filters' \in [DOMAIN filters' -> Filter]
    BY <1>1, <1>9 DEF PInv, TypeOK
  <2>2. /\ DOMAIN filters_enabled' \subseteq Nat
        /\ filters_enabled' \in [DOMAIN filters_enabled' -> BOOLEAN]
    <3>1. \A k \in DOMAIN filters_enabled' : filters_enabled'[k] \in BOOLEAN
      <4>1. \A k \in DOMAIN filters_enabled : filters_enabled[k] \in BOOLEAN
        BY DEF PInv, TypeOK
      <4>2. \A k \in DOMAIN filters_enabled' :
              k = n \/ k \in DOMAIN filters_enabled \ {n}
        BY <1>9
      <4>3. QED
        BY <1>9, <4>1, <4>2
    <3>2. DOMAIN filters_enabled' \subseteq Nat
      BY <1>1, <1>9 DEF PInv, TypeOK
    <3>3. QED
      BY <1>9, <3>1, <3>2
  <2>3. DOMAIN applied' \subseteq Nat /\ applied' \in [DOMAIN applied' -> Filter]
    BY <1>2, <2>1, ActiveFiltersType
  <2>4. QED
    BY <1>1, <1>2, <1>6, <1>7, <2>1, <2>2, <2>3 DEF TypeOK
<1>11. NumbersFresh'
  <2>1. ASSUME NEW i \in DOMAIN filter_indices'
        PROVE  filter_indices'[i] < cur_filter_number'
    <3>1. CASE i = Len(filter_indices) + 1
      BY <1>1, <1>2, <1>7, <3>1
    <3>2. CASE i \in 1..Len(filter_indices)
      <4>1. filter_indices'[i] \in Nat /\ filter_indices'[i] < n
        BY <1>3, <1>4, <1>7, <3>2
      <4>2. QED
        BY <1>1, <1>2, <4>1
    <3>3. QED
      BY <1>3, <1>8, <3>1, <3>2
  <2>2. QED
    BY <1>7, <2>1 DEF NumbersFresh
<1>12. LookupsSucceed'
  BY <1>7, <1>9 DEF PInv, LookupsSucceed
<1>13. SavedSound' /\ session' = session
  BY EditKeepsSaved
<1>14. RowsSuffice'
  BY <1>3, <1>6, <1>7 DEF PInv, RowsSuffice
<1>15. RowsBoundInOrder'
  <2>1. SUFFICES ASSUME session # "stacked"
                 PROVE  /\ Len(table') = Len(filter_indices')
                        /\ \A i \in DOMAIN table' :
                             table'[i].index = filter_indices'[i]
    BY <1>13 DEF RowsBoundInOrder
  <2>2. /\ Len(table) = Len(filter_indices)
        /\ \A i \in DOMAIN table : table[i].index = filter_indices[i]
    BY <2>1 DEF PInv, RowsBoundInOrder
  <2>3. ASSUME NEW i \in DOMAIN table'
        PROVE  table'[i].index = filter_indices'[i]
    <3>1. CASE i = Len(table) + 1
      BY <1>1, <1>6, <1>7, <2>2, <3>1
    <3>2. CASE i \in 1..Len(table)
      BY <1>3, <1>6, <1>7, <2>2, <3>2
    <3>3. QED
      BY <1>3, <1>6, <3>1, <3>2
  <2>4. QED
    BY <1>6, <1>7, <2>2, <2>3
<1>16. CleanSessionMirrors'
  <2>1. SUFFICES ASSUME session = "clean" PROVE RowsMirrorFilters'
    BY <1>13 DEF CleanSessionMirrors
  <2>2. /\ RowsMirrorFilters
        /\ Len(table') = Len(filter_indices')
        /\ \A i \in DOMAIN table' : table'[i].index = filter_indices'[i]
    BY <1>13, <1>15, <2>1 DEF PInv, CleanSessionMirrors, RowsBoundInOrder
  <2>3. ASSUME NEW i \in DOMAIN table'
        PROVE  /\ table'[i].filter = filters'[table'[i].index]
               /\ table'[i].checked = filters_enabled'[table'[i].index]
    <3>1. CASE i = Len(table) + 1
      BY <1>1, <1>6, <1>9, <3>1
    <3>2. CASE i \in 1..Len(table)
      <4>1. /\ table'[i] = table[i] /\ i \in DOMAIN filter_indices
            /\ table[i].index = filter_indices[i]
            /\ table[i].filter = filters[table[i].index]
            /\ table[i].checked = filters_enabled[table[i].index]
        BY <1>3, <1>6, <2>2, <3>2 DEF RowsMirrorFilters
      <4>2. filter_indices[i] \in Range(filter_indices)
        BY <4>1 DEF Range
      <4>3. /\ table[i].index \in DOMAIN filters \ {n}
            /\ table[i].index \in DOMAIN filters_enabled \ {n}
        BY <1>5, <4>1, <4>2 DEF PInv, LookupsSucceed
      <4>4. QED
        BY <1>9, <4>1, <4>3
    <3>3. QED
      BY <1>3, <1>6, <3>1, <3>2
  <2>4. QED
    BY <2>2, <2>3 DEF RowsMirrorFilters
<1>17. QED
  BY <1>10, <1>11, <1>12, <1>13, <1>14, <1>15, <1>16 DEF PInv

(***************************************************************************)
(* A click on a check box, which may be bound to the number of another     *)
(* session: the flag is stored under that number all the same.             *)
(***************************************************************************)
LEMMA ToggleFilterPInv ==
  ASSUME PInv, NEW row \in DOMAIN table, ToggleFilter(row),
         UNCHANGED <<project, session>>
  PROVE  PInv'
<1> DEFINE n == table[row].index
           flag == ~table[row].checked
<1>1. /\ table' = [table EXCEPT ![row].checked = ~@]
      /\ filters_enabled' = With(filters_enabled, n, flag)
      /\ filters' = filters /\ filter_indices' = filter_indices
      /\ cur_filter_number' = cur_filter_number
      /\ applied' = ActiveFilters(filters', filters_enabled')
  BY DEF ToggleFilter, EmitNewFilterAdded
<1>2. /\ table \in Seq(Row)
      /\ DOMAIN table = 1..Len(table) /\ Len(table) \in Nat
  BY LenProperties DEF PInv, TypeOK
<1>3. \A i \in DOMAIN table : table[i] \in Row
  BY <1>2, ElementOfSeq
<1>4. n \in Nat /\ flag \in BOOLEAN
  BY <1>3 DEF Row
<1> HIDE DEF n, flag
<1>5. /\ table' \in Seq(Row) /\ Len(table') = Len(table)
      /\ DOMAIN table' = DOMAIN table
      /\ \A i \in DOMAIN table \ {row} : table'[i] = table[i]
      /\ table'[row] = [table[row] EXCEPT !.checked = ~table[row].checked]
  <2>1. table' = [table EXCEPT ![row] =
                    [table[row] EXCEPT !.checked = ~table[row].checked]]
    BY <1>1
  <2>2. [table[row] EXCEPT !.checked = ~table[row].checked] \in Row
    BY <1>3 DEF Row
  <2>3. QED
    BY <1>2, <2>1, <2>2, ExceptSeq, LenProperties
<1>6. /\ table'[row].index = n /\ table'[row].filter = table[row].filter
      /\ table'[row].checked = flag
  BY <1>3, <1>5 DEF Row, n, flag
<1>7. /\ DOMAIN filters_enabled' = DOMAIN filters_enabled \cup {n}
      /\ filters_enabled'[n] = flag
      /\ \A k \in DOMAIN filters_enabled \ {n} :
           filters_enabled'[k] = filters_enabled[k]
      /\ filters_enabled' =
           [k \in DOMAIN filters_enabled' |-> filters_enabled'[k]]
  BY <1>1, <1>4 DEF With
<1>8. \A i \in DOMAIN table' :
        table'[i].index = table[i].index /\ table'[i].filter = table[i].filter
  BY <1>5, <1>6 DEF n
<1>9. TypeOK'
  <2>1. filters_enabled' \in [DOMAIN filters_enabled' -> BOOLEAN]
    <3>1. \A k \in DOMAIN filters_enabled : filters_enabled[k] \in BOOLEAN
      BY DEF PInv, TypeOK
    <3>2. \A k \in DOMAIN filters_enabled' :
            k = n \/ k \in DOMAIN filters_enabled \ {n}
      BY <1>7
    <3>3. \A k \in DOMAIN filters_enabled' : filters_enabled'[k] \in BOOLEAN
      BY <1>4, <1>7, <3>1, <3>2
    <3>4. QED
      BY <1>7, <3>3
  <2>2. DOMAIN filters_enabled' \subseteq Nat
    BY <1>4, <1>7 DEF PInv, TypeOK
  <2>3. DOMAIN applied' \subseteq Nat /\ applied' \in [DOMAIN applied' -> Filter]
    BY <1>1, ActiveFiltersType DEF PInv, TypeOK
  <2>4. QED
    BY <1>1, <1>5, <2>1, <2>2, <2>3 DEF PInv, TypeOK
<1>10. NumbersFresh' /\ LookupsSucceed'
  BY <1>1, <1>7 DEF PInv, NumbersFresh, LookupsSucceed
<1>11. SavedSound' /\ session' = session
  BY EditKeepsSaved
<1>12. RowsSuffice'
  BY <1>1, <1>5 DEF PInv, RowsSuffice
<1>13. RowsBoundInOrder'
  BY <1>1, <1>5, <1>8, <1>11 DEF PInv, RowsBoundInOrder
<1>14. CleanSessionMirrors'
  <2>1. SUFFICES ASSUME session = "clean" PROVE RowsMirrorFilters'
    BY <1>11 DEF CleanSessionMirrors
  <2>2. RowsMirrorFilters
    BY <2>1 DEF PInv, CleanSessionMirrors
  <2>3. DOMAIN filter_indices = DOMAIN table
    BY <1>2, <2>2, LenProperties DEF RowsMirrorFilters, PInv, TypeOK
  <2>4. ASSUME NEW i \in DOMAIN table'
        PROVE  /\ table'[i].index = filter_indices'[i]
               /\ table'[i].filter = filters'[table'[i].index]
               /\ table'[i].checked = filters_enabled'[table'[i].index]
    <3>1. /\ table[i].index = filter_indices[i]
          /\ table[i].filter = filters[table[i].index]
          /\ table[i].checked = filters_enabled[table[i].index]
          /\ table'[i].index = table[i].index /\ table'[i].filter = table[i].filter
      BY <1>5, <1>8, <2>2 DEF RowsMirrorFilters
    <3>2. CASE i = row
      BY <1>1, <1>6, <1>7, <3>1, <3>2 DEF n
    <3>3. CASE i # row
      <4>1. table'[i] = table[i]
        BY <1>5, <3>3
      <4>2. i \in DOMAIN filter_indices /\ row \in DOMAIN filter_indices
        BY <1>5, <2>3
      <4>3. n = filter_indices[row]
        BY <2>2 DEF RowsMirrorFilters, n
      <4>4. filter_indices[i] # n
        BY <3>3, <4>2, <4>3 DEF PInv, NumbersFresh, IsInjective
      <4>5. filter_indices[i] \in DOMAIN filters_enabled
        BY <4>2 DEF PInv, LookupsSucceed, Range
      <4>6. filters_enabled'[filter_indices[i]] = filters_enabled[filter_indices[i]]
        BY <1>7, <4>4, <4>5
      <4>7. QED
        BY <1>1, <3>1, <4>1, <4>6
    <3>4. QED
      BY <3>2, <3>3
  <2>5. QED
    BY <1>1, <1>5, <2>2, <2>4 DEF RowsMirrorFilters
<1>15. QED
  BY <1>9, <1>10, <1>11, <1>12, <1>13, <1>14 DEF PInv

(***************************************************************************)
(* Pressing Remove, possibly in a row left over from another session: it   *)
(* takes the row that stands at the place of its number.                   *)
(***************************************************************************)
LEMMA DeleteFilterPInv ==
  ASSUME PInv, NEW row \in DOMAIN table, DeleteFilter(row),
         UNCHANGED <<project, session>>
  PROVE  PInv'
<1> DEFINE n == table[row].index
<1>1. /\ table \in Seq(Row) /\ filter_indices \in Seq(Nat)
      /\ Len(table) \in Nat /\ Len(filter_indices) \in Nat
      /\ DOMAIN table = 1..Len(table)
      /\ DOMAIN filter_indices = 1..Len(filter_indices)
      /\ IsInjective(filter_indices)
      /\ Len(filter_indices) <= Len(table)
  BY LenProperties DEF PInv, TypeOK, NumbersFresh, RowsSuffice
<1>2. n \in Range(filter_indices)
  BY DEF DeleteFilter
<1>3. PICK k \in DOMAIN filter_indices : filter_indices[k] = n
  BY <1>2 DEF Range
<1>4. RowOf(filter_indices, n) = k
  BY <1>1, <1>3, RowOfNumber
<1>5. /\ table' = RemoveAt(table, k)
      /\ filters_enabled' = Without(filters_enabled, n)
      /\ filters' = Without(filters, n)
      /\ filter_indices' = RemoveAt(filter_indices, k)
      /\ cur_filter_number' = cur_filter_number
      /\ applied' = ActiveFilters(filters', filters_enabled')
  BY <1>4 DEF DeleteFilter, EmitNewFilterAdded
<1> HIDE DEF n
<1>6. k \in 1..Len(table) /\ k \in 1..Len(filter_indices)
  BY <1>1
<1>7. /\ table' \in Seq(Row) /\ Len(table') = Len(table) - 1
      /\ \A i \in 1..(Len(table) - 1) : table'[i] = table[Old(k, i)]
      /\ DOMAIN table' = 1..(Len(table) - 1)
  <2>1. /\ table' \in Seq(Row) /\ Len(table') = Len(table) - 1
        /\ \A i \in 1..(Len(table) - 1) :
             table'[i] = IF i < k THEN table[i] ELSE table[i + 1]
    BY <1>1, <1>5, <1>6, RemoveAtProperties
  <2>2. DOMAIN table' = 1..Len(table')
    BY <2>1, LenProperties
  <2>3. QED
    BY <1>1, <2>1, <2>2 DEF Old
<1>8. /\ filter_indices' \in Seq(Nat)
      /\ Len(filter_indices') = Len(filter_indices) - 1
      /\ \A i \in 1..(Len(filter_indices) - 1) :
           /\ filter_indices'[i] = filter_indices[Old(k, i)]
           /\ Old(k, i) \in 1..Len(filter_indices)
      /\ Range(filter_indices') = Range(filter_indices) \ {n}
      /\ IsInjective(filter_indices')
  BY <1>1, <1>3, <1>5, RemovedNumber
<1>9. DOMAIN filter_indices' = 1..(Len(filter_indices) - 1)
  BY <1>8, LenProperties
<1>10. /\ DOMAIN filters' = DOMAIN filters \ {n}
       /\ DOMAIN filters_enabled' = DOMAIN filters_enabled \ {n}
       /\ \A j \in DOMAIN filters' : filters'[j] = filters[j]
       /\ \A j \in DOMAIN filters_enabled' :
            filters_enabled'[j] = filters_enabled[j]
       /\ filters' = [j \in DOMAIN filters' |-> filters'[j]]
       /\ filters_enabled' =
            [j \in DOMAIN filters_enabled' |-> filters_enabled'[j]]
  BY <1>5 DEF Without, Restrict
<1>11. TypeOK'
  <2>1. DOMAIN filters' \subseteq Nat /\ filters' \in [DOMAIN filters' -> Filter]
    BY <1>10 DEF PInv, TypeOK
  <2>2. /\ DOMAIN filters_enabled' \subseteq Nat
        /\ filters_enabled' \in [DOMAIN filters_enabled' -> BOOLEAN]
    BY <1>10 DEF PInv, TypeOK
  <2>3. DOMAIN applied' \subseteq Nat /\ applied' \in [DOMAIN applied' -> Filter]
    BY <1>5, <2>1, ActiveFiltersType
  <2>4. QED
    BY <1>5, <1>7, <1>8, <2>1, <2>2, <2>3 DEF PInv, TypeOK
<1>12. NumbersFresh'
  <2>1. \A i \in DOMAIN filter_indices' : filter_indices'[i] < cur_filter_number'
    BY <1>1, <1>5, <1>8, <1>9 DEF PInv, NumbersFresh
  <2>2. QED
    BY <1>8, <2>1 DEF NumbersFresh
<1>13. LookupsSucceed'
  BY <1>8, <1>10 DEF PInv, LookupsSucceed
<1>14. SavedSound' /\ session' = session
  BY EditKeepsSaved
<1>15. RowsSuffice'
  BY <1>1, <1>7, <1>8 DEF RowsSuffice
<1>16. RowsBoundInOrder'
  <2>1. SUFFICES ASSUME session # "stacked"
                 PROVE  /\ Len(table') = Len(filter_indices')
                        /\ \A i \in DOMAIN table' :
                             table'[i].index = filter_indices'[i]
    BY <1>14 DEF RowsBoundInOrder
  <2>2. /\ Len(table) = Len(filter_indices)
        /\ \A i \in DOMAIN table : table[i].index = filter_indices[i]
    BY <2>1 DEF PInv, RowsBoundInOrder
  <2>3. QED
    BY <1>1, <1>7, <1>8, <2>2
<1>17. CleanSessionMirrors'
  <2>1. SUFFICES ASSUME session = "clean" PROVE RowsMirrorFilters'
    BY <1>14 DEF CleanSessionMirrors
  <2>2. /\ RowsMirrorFilters
        /\ Len(table') = Len(filter_indices')
        /\ \A i \in DOMAIN table' : table'[i].index = filter_indices'[i]
    BY <1>14, <1>16, <2>1 DEF PInv, CleanSessionMirrors, RowsBoundInOrder
  <2>3. Len(table) = Len(filter_indices)
    BY <2>2 DEF RowsMirrorFilters
  <2>4. ASSUME NEW i \in DOMAIN table'
        PROVE  /\ table'[i].filter = filters'[table'[i].index]
               /\ table'[i].checked = filters_enabled'[table'[i].index]
    <3>1. /\ table'[i] = table[Old(k, i)] /\ Old(k, i) \in DOMAIN table
          /\ i \in DOMAIN filter_indices'
      BY <1>1, <1>7, <1>8, <1>9, <2>3
    <3>2. /\ table[Old(k, i)].filter = filters[table[Old(k, i)].index]
          /\ table[Old(k, i)].checked = filters_enabled[table[Old(k, i)].index]
      BY <2>2, <3>1 DEF RowsMirrorFilters
    <3>3. filter_indices'[i] \in Range(filter_indices')
      BY <3>1 DEF Range
    <3>4. /\ filter_indices'[i] \in DOMAIN filters'
          /\ filter_indices'[i] \in DOMAIN filters_enabled'
      BY <1>13, <3>3 DEF LookupsSucceed
    <3>5. QED
      BY <1>10, <2>2, <3>1, <3>2, <3>4
  <2>5. QED
    BY <2>2, <2>4 DEF RowsMirrorFilters
<1>18. QED
  BY <1>11, <1>12, <1>13, <1>14, <1>15, <1>16, <1>17 DEF PInv
-----------------------------------------------------------------------------
(***************************************************************************)
(* However the dictionary lists its keys, there are as many as numbers in  *)
(* the list.                                                               *)
(***************************************************************************)
LEMMA OrderOfKeys ==
  ASSUME NEW indices \in Seq(Nat), IsInjective(indices),
         NEW order \in DictOrders(Range(indices))
  PROVE  /\ order \in [1..Len(indices) -> Range(indices)]
         /\ DOMAIN order = 1..Len(indices)
<1> DEFINE keys == Range(indices)
           n == Len(indices)
<1>1. n \in Nat /\ DOMAIN indices = 1..n
  BY LenProperties
<1>2. indices \in [1..n -> keys] /\ \A v \in keys : \E i \in 1..n : indices[i] = v
  BY <1>1, LenProperties DEF Range
<1>3. indices \in Bijection(1..n, keys)
  BY <1>2 DEF Bijection, Injection, Surjection
<1>4. Cardinality(keys) = n
  <2> HIDE DEF keys, n
  <2>1. ExistsBijection(1..n, keys)
    BY <1>3 DEF ExistsBijection
  <2>2. QED
    BY <1>1, <2>1, FS_CountingElements
<1>5. order \in SetToSeqs(keys)
  BY DEF DictOrders
<1>6. order \in [1..Cardinality(keys) -> keys]
  BY <1>5 DEF SetToSeqs
<1>7. QED
  BY <1>4, <1>6

(***************************************************************************)
(* Opening a project over whatever is in the panel.                        *)
(***************************************************************************)
LEMMA OpenProjectPInv ==
  ASSUME PInv, OpenProject
  PROVE  PInv'
<1>1. /\ project # NoProject /\ Sound(project)
      /\ filters' = project.filters
      /\ filters_enabled' = project.filters_enabled
      /\ filter_indices' = project.filter_indices
      /\ cur_filter_number' = project.cur_filter_number
      /\ applied' = project.applied
      /\ project' = project
  BY DEF PInv, SavedSound, OpenProject, Restore
<1> DEFINE indices == project.filter_indices
           keys == DOMAIN project.filters
<1>2. PICK order \in DictOrders(keys) :
        /\ table' = table \o LoadedRows(project, order)
        /\ session' = IF table # <<>> THEN "stacked"
                      ELSE IF LoadsAsSaved(project, order) THEN "clean" ELSE "redrawn"
  BY DEF OpenProject
<1>3. /\ indices \in Seq(Nat) /\ IsInjective(indices) /\ keys = Range(indices)
      /\ Len(indices) \in Nat /\ DOMAIN indices = 1..Len(indices)
      /\ indices \in [1..Len(indices) -> Nat]
  BY <1>1, LenProperties DEF Sound
<1>4. order \in [1..Len(indices) -> keys] /\ DOMAIN order = 1..Len(indices)
  BY <1>2, <1>3, OrderOfKeys
<1> DEFINE rows == LoadedRows(project, order)
<1>5. /\ DOMAIN rows = 1..Len(indices)
      /\ \A i \in 1..Len(indices) :
           rows[i] = NewRow(project.filters[order[i]], indices[i])
      /\ rows = [i \in 1..Len(indices) |-> rows[i]]
  BY <1>4 DEF LoadedRows
<1>6. \A i \in 1..Len(indices) :
        /\ rows[i] \in Row
        /\ rows[i].index = indices[i] /\ rows[i].checked = TRUE
        /\ rows[i].filter = project.filters[order[i]]
  <2> SUFFICES ASSUME NEW i \in 1..Len(indices)
               PROVE  /\ rows[i] \in Row
                      /\ rows[i].index = indices[i] /\ rows[i].checked = TRUE
                      /\ rows[i].filter = project.filters[order[i]]
    OBVIOUS
  <2>1. order[i] \in keys /\ indices[i] \in Nat
    BY <1>3, <1>4
  <2>2. project.filters[order[i]] \in Filter
    BY <1>1, <2>1 DEF Sound
  <2>3. rows[i] = NewRow(project.filters[order[i]], indices[i])
    BY <1>5
  <2>4. QED
    BY <2>1, <2>2, <2>3 DEF NewRow, Row
<1> HIDE DEF rows
<1>7. rows \in Seq(Row) /\ Len(rows) = Len(indices)
  <2>1. rows \in [1..Len(indices) -> Row]
    BY <1>5, <1>6
  <2>2. rows \in Seq(Row)
    <3>1. \E m \in Nat : rows \in [1..m -> Row]
      BY <1>3, <2>1
    <3>2. QED
      BY <3>1, SeqDef, Zenon
  <2>3. Len(rows) \in Nat /\ DOMAIN rows = 1..Len(rows)
    BY <2>2, LenProperties
  <2>4. QED
    BY <1>3, <1>5, <2>2, <2>3
<1>8. /\ table \in Seq(Row) /\ Len(table) \in Nat
      /\ table' = table \o rows
  BY <1>2, LenProperties DEF PInv, TypeOK, rows
<1>9. table' \in Seq(Row) /\ Len(table') = Len(table) + Len(indices)
  BY <1>7, <1>8, ConcatProperties
<1>10. session' # "stacked" => table = <<>> /\ table' = rows
  <2>1. session' # "stacked" => table = <<>>
    BY <1>2
  <2>2. table = <<>> => table' = rows
    BY <1>7, <1>8, ConcatEmptySeq
  <2>3. QED
    BY <2>1, <2>2
<1>11. TypeOK' /\ NumbersFresh' /\ LookupsSucceed'
  BY <1>1, <1>9 DEF Sound, TypeOK, NumbersFresh, LookupsSucceed
<1>12. RowsSuffice'
  BY <1>1, <1>3, <1>8, <1>9 DEF RowsSuffice
<1>13. RowsBoundInOrder'
  BY <1>1, <1>5, <1>6, <1>7, <1>10 DEF RowsBoundInOrder
<1>14. CleanSessionMirrors'
  <2>1. SUFFICES ASSUME session' = "clean" PROVE RowsMirrorFilters'
    BY DEF CleanSessionMirrors
  <2>2. LoadsAsSaved(project, order)
    BY <1>2, <2>1
  <2>3. order = indices /\ \A id \in Range(indices) : project.filters_enabled[id]
    BY <2>2 DEF LoadsAsSaved
  <2>4. table' = rows
    BY <1>10, <2>1
  <2>5. ASSUME NEW i \in DOMAIN table'
        PROVE  /\ table'[i].index = filter_indices'[i]
               /\ table'[i].filter = filters'[table'[i].index]
               /\ table'[i].checked = filters_enabled'[table'[i].index]
    <3>1. i \in 1..Len(indices)
      BY <1>5, <2>4
    <3>2. indices[i] \in Range(indices)
      BY <1>3, <3>1 DEF Range
    <3>3. project.filters_enabled[indices[i]] = TRUE
      <4>1. indices[i] \in DOMAIN project.filters_enabled
        BY <1>1, <3>2 DEF Sound
      <4>2. project.filters_enabled[indices[i]] \in BOOLEAN
        BY <1>1, <4>1 DEF Sound
      <4>3. QED
        BY <2>3, <3>2, <4>2
    <3>4. QED
      BY <1>1, <1>6, <2>3, <2>4, <3>1, <3>3
  <2>6. QED
    BY <1>1, <1>7, <2>4, <2>5 DEF RowsMirrorFilters
<1>15. SavedSound'
  BY <1>1 DEF SavedSound, Sound
<1>16. QED
  BY <1>11, <1>12, <1>13, <1>14, <1>15 DEF PInv

(***************************************************************************)
(* What getState saves of a panel that is right can be opened again.       *)
(***************************************************************************)
LEMMA SaveProjectPInv ==
  ASSUME PInv, SaveProject
  PROVE  PInv'
<1>1. /\ filters' = filters /\ filters_enabled' = filters_enabled
      /\ filter_indices' = filter_indices /\ applied' = applied
      /\ cur_filter_number' = cur_filter_number /\ table' = table
      /\ session' = session /\ project' = State
  BY DEF SaveProject, vars
<1>2. /\ project'.filters = filters
      /\ project'.filters_enabled = filters_enabled
      /\ project'.filter_indices = filter_indices
      /\ project'.cur_filter_number = cur_filter_number
      /\ project'.applied = applied
  BY <1>1 DEF State
<1>3. Sound(project')
  BY <1>2 DEF PInv, TypeOK, NumbersFresh, LookupsSucceed, Sound
<1>4. SavedSound'
  BY <1>3 DEF SavedSound, Sound
<1>5. /\ TypeOK' /\ NumbersFresh' /\ LookupsSucceed' /\ RowsSuffice'
      /\ RowsBoundInOrder' /\ CleanSessionMirrors'
  BY <1>1 DEF PInv, TypeOK, NumbersFresh, LookupsSucceed, RowsSuffice,
              RowsBoundInOrder, CleanSessionMirrors, RowsMirrorFilters
<1>6. QED
  BY <1>4, <1>5 DEF PInv

(***************************************************************************)
(* An empty panel, when the program starts or starts again.                *)
(***************************************************************************)
LEMMA EmptyPanel ==
  /\ Init => /\ TypeOK /\ NumbersFresh /\ LookupsSucceed /\ RowsSuffice
             /\ RowsBoundInOrder /\ CleanSessionMirrors
  /\ Restart => /\ TypeOK' /\ NumbersFresh' /\ LookupsSucceed' /\ RowsSuffice'
                /\ RowsBoundInOrder' /\ CleanSessionMirrors'
<1>1. ASSUME Init
      PROVE  /\ TypeOK /\ NumbersFresh /\ LookupsSucceed /\ RowsSuffice
             /\ RowsBoundInOrder /\ CleanSessionMirrors
  <2>1. TypeOK /\ NumbersFresh /\ DictsMatchList /\ RowsMirrorFilters
    BY <1>1, InitInv DEF Inv
  <2>2. LookupsSucceed
    BY <2>1 DEF DictsMatchList, LookupsSucceed
  <2>3. RowsSuffice /\ RowsBoundInOrder
    BY <1>1 DEF Init, RowsSuffice, RowsBoundInOrder
  <2>4. CleanSessionMirrors
    BY <2>1 DEF CleanSessionMirrors
  <2>5. QED
    BY <2>1, <2>2, <2>3, <2>4
<1>2. ASSUME Restart
      PROVE  /\ TypeOK' /\ NumbersFresh' /\ LookupsSucceed' /\ RowsSuffice'
             /\ RowsBoundInOrder' /\ CleanSessionMirrors'
  <2>1. TypeOK'
    BY <1>2 DEF Restart, TypeOK
  <2>2. NumbersFresh' /\ LookupsSucceed' /\ RowsMirrorFilters'
    BY <1>2 DEF Restart, NumbersFresh, LookupsSucceed, RowsMirrorFilters,
                IsInjective, Range
  <2>3. RowsSuffice' /\ RowsBoundInOrder'
    BY <1>2 DEF Restart, RowsSuffice, RowsBoundInOrder
  <2>4. CleanSessionMirrors'
    BY <2>2 DEF CleanSessionMirrors
  <2>5. QED
    BY <2>1, <2>2, <2>3, <2>4
<1>3. QED
  BY <1>1, <1>2
-----------------------------------------------------------------------------
(***************************************************************************)
(* Every step of the panel and of its project file keeps the invariant.    *)
(***************************************************************************)
LEMMA ProjectNextPInv == PInv /\ [ProjectNext]_projectVars => PInv'
<1> SUFFICES ASSUME PInv, [ProjectNext]_projectVars PROVE PInv'
  OBVIOUS
<1>1. ASSUME NEW path \in Paths, NEW condition \in Conditions,
             AddFilter(path, condition), UNCHANGED <<project, session>>
      PROVE  PInv'
  BY <1>1, AddFilterPInv
<1>2. ASSUME NEW row \in DOMAIN table, ToggleFilter(row),
             UNCHANGED <<project, session>>
      PROVE  PInv'
  BY <1>2, ToggleFilterPInv
<1>3. ASSUME NEW row \in DOMAIN table, DeleteFilter(row),
             UNCHANGED <<project, session>>
      PROVE  PInv'
  BY <1>3, DeleteFilterPInv
<1>4. CASE Edit
  BY <1>1, <1>2, <1>3, <1>4 DEF Edit, Next
<1>5. CASE SaveProject
  BY <1>5, SaveProjectPInv
<1>6. CASE OpenProject
  BY <1>6, OpenProjectPInv
<1>7. CASE Restart
  <2>1. SavedSound'
    BY <1>7 DEF Restart, PInv, SavedSound, Sound
  <2>2. QED
    BY <1>7, <2>1, EmptyPanel DEF PInv
<1>8. CASE UNCHANGED projectVars
  BY <1>8 DEF projectVars, vars, PInv, TypeOK, NumbersFresh, LookupsSucceed,
              RowsSuffice, RowsBoundInOrder, CleanSessionMirrors,
              RowsMirrorFilters, SavedSound, Sound
<1>9. QED
  BY <1>4, <1>5, <1>6, <1>7, <1>8 DEF ProjectNext

(***************************************************************************)
(* The inductive invariant holds through all edits, saves, loads and       *)
(* restarts.                                                               *)
(***************************************************************************)
THEOREM ProjectInvariance == ProjectSpec => []PInv
<1>1. ProjectInit => PInv
  BY EmptyPanel DEF ProjectInit, PInv, SavedSound
<1>2. PInv /\ [ProjectNext]_projectVars => PInv'
  BY ProjectNextPInv
<1>3. QED
  BY <1>1, <1>2, PTL DEF ProjectSpec

(***************************************************************************)
(* No load, whatever it was stacked on, makes a lookup in the dictionaries *)
(* fail: the list has just the filters that exist, and each has a flag. Of *)
(* the rows, and of the list listeners keep, it says nothing               *)
(* (filter_widget.py:163-165, 258-266).                                    *)
(***************************************************************************)
THEOREM LookupsNeverFail == ProjectSpec => []LookupsSucceed
<1>1. PInv => LookupsSucceed
  BY DEF PInv
<1>2. QED
  BY <1>1, ProjectInvariance, PTL

(***************************************************************************)
(* Unless a project was opened over rows, every filter has its own row, in *)
(* the order of the numbers (filter_widget.py:152-156, 202-235).           *)
(***************************************************************************)
THEOREM RowsFollowNumbers == ProjectSpec => []RowsBoundInOrder
<1>1. PInv => RowsBoundInOrder
  BY DEF PInv
<1>2. QED
  BY <1>1, ProjectInvariance, PTL

(***************************************************************************)
(* A project that loads as it was saved is shown as it was, and stays so   *)
(* (filter_widget.py:140-158, 202-235).                                    *)
(***************************************************************************)
THEOREM CleanLoadsMirror == ProjectSpec => []CleanSessionMirrors
<1>1. PInv => CleanSessionMirrors
  BY DEF PInv
<1>2. QED
  BY <1>1, ProjectInvariance, PTL

(***************************************************************************)
(* What an Add leaves of the filters that exist.                           *)
(***************************************************************************)
NothingOverwritten ==
  \A id \in DOMAIN filters :
    (\E path \in Paths, condition \in Conditions : AddFilter(path, condition))
      => filters'[id] = filters[id] /\ filters_enabled'[id] = filters_enabled[id]

(***************************************************************************)
(* No Add overwrites a filter that exists, whatever was loaded before: the *)
(* counter is restored with the filters (filter_widget.py:140-150, 255).   *)
(***************************************************************************)
THEOREM AddsAreFresh == ProjectSpec => AddNeverOverwrites
<1>1. PInv => NothingOverwritten
  <2> SUFFICES ASSUME PInv, NEW id \in DOMAIN filters,
                      NEW path \in Paths, NEW condition \in Conditions,
                      AddFilter(path, condition)
               PROVE  /\ filters'[id] = filters[id]
                      /\ filters_enabled'[id] = filters_enabled[id]
    BY DEF NothingOverwritten
  <2>1. PICK i \in DOMAIN filter_indices : filter_indices[i] = id
    BY DEF PInv, LookupsSucceed, Range
  <2>2. id < cur_filter_number /\ id \in Nat /\ cur_filter_number \in Nat
    BY <2>1 DEF PInv, NumbersFresh, TypeOK
  <2>3. id # cur_filter_number
    BY <2>2
  <2>4. id \in DOMAIN filters_enabled
    BY DEF PInv, LookupsSucceed
  <2>5. /\ filters' = With(filters, cur_filter_number, NewFilter(path, condition))
        /\ filters_enabled' = With(filters_enabled, cur_filter_number, TRUE)
    BY DEF AddFilter
  <2>6. QED
    BY <2>3, <2>4, <2>5 DEF With
<1>2. ProjectSpec => [][NothingOverwritten]_projectVars
  BY <1>1, ProjectInvariance, PTL
<1>3. QED
  BY <1>2 DEF AddNeverOverwrites, NothingOverwritten
=============================================================================
