------------------------- MODULE PivotCombosProofs -------------------------
(***************************************************************************)
(* The combo boxes of the pivot panel, for any number of levels, files and *)
(* columns and however often the user clicks.                              *)
(*                                                                         *)
(* The predicates that steps keep take the boxes as a parameter, since one *)
(* click changes them twice: the choice is propagated first, and boxes     *)
(* for displayed values are removed or appended afterwards.                *)
(***************************************************************************)
EXTENDS PivotCombos, SequenceTheorems, TLAPS

WF == INSTANCE WellFoundedInduction

Rows == UNION {[rows -> Nat \ {0}] : rows \in SUBSET Nat}

BoxType ==
  [level : Nat, items : Seq(Columns), index : Nat, previous : Nat \cup {NoIndex},
   disabledRows : Rows, greyed : SUBSET Columns, enabled : BOOLEAN]

Shape(boxes) ==
  /\ boxes \in [Roles -> Seq(BoxType)]
  /\ \A role \in Axes : Len(boxes[role]) = Levels
  /\ \A role \in Roles : \A k \in DOMAIN boxes[role] :
       boxes[role][k].index \in 0..Len(boxes[role][k].items)

(***************************************************************************)
(* Row and column boxes keep their place in the hierarchy, and a box below *)
(* one with a choice is enabled.                                           *)
(***************************************************************************)
AxisLevels(boxes) ==
  \A role \in Axes : \A k \in 1..Levels : boxes[role][k].level = k

EnabledBelow(boxes) ==
  \A role \in Axes : \A k \in 1..(Levels - 1) :
    boxes[role][k + 1].enabled <=> boxes[role][k].index # 0

Chain(displayed) ==
  \A k \in DOMAIN displayed :
    /\ displayed[k].level = k - 1
    /\ displayed[k].index # 0 <=> k < Len(displayed)

(***************************************************************************)
(* What one box knows of another: they show the same items, and the choice *)
(* of the first is greyed in the second, as an item and as a row number.   *)
(* The row number is what a transposition carries over.                    *)
(***************************************************************************)
Yields(combo, other) ==
  /\ Choice(combo) \cap Choice(other) = {}
  /\ Choice(combo) \subseteq other.greyed
  /\ combo.index # 0 => combo.index \in DOMAIN other.disabledRows

SameItems(boxes) ==
  \A r, s \in Roles : \A j \in DOMAIN boxes[r], k \in DOMAIN boxes[s] :
    boxes[r][j].items = boxes[s][k].items

AllYield(boxes) ==
  \A r, s \in Roles : \A j \in DOMAIN boxes[r], k \in DOMAIN boxes[s] :
    <<r, j>> # <<s, k>> => Yields(boxes[r][j], boxes[s][k])

(***************************************************************************)
(* Nothing is greyed without a reason, neither a row number, which stands  *)
(* once in the list, nor an item.                                          *)
(***************************************************************************)
RowIsChosen(boxes, s, k, row) ==
  /\ boxes[s][k].disabledRows[row] = 1
  /\ row # 0
  /\ \E r \in Roles : \E j \in DOMAIN boxes[r] :
       <<r, j>> # <<s, k>> /\ boxes[r][j].index = row

ItemIsChosen(boxes, s, k, item) ==
  \E r \in Roles : \E j \in DOMAIN boxes[r] :
    <<r, j>> # <<s, k>> /\ item \in Choice(boxes[r][j])

NothingStale(boxes) ==
  \A s \in Roles : \A k \in DOMAIN boxes[s] :
    /\ \A row \in DOMAIN boxes[s][k].disabledRows : RowIsChosen(boxes, s, k, row)
    /\ \A item \in boxes[s][k].greyed : ItemIsChosen(boxes, s, k, item)

Inv ==
  /\ Shape(combos) /\ Len(combos["displayed"]) <= Levels + MaxDisplayed
  /\ files \subseteq Files
  /\ disturbed \subseteq Disturbances
  /\ clicks \in 0..MaxClicks
  /\ AxisLevels(combos)
  /\ "scrolled" \notin disturbed => EnabledBelow(combos)
  /\ disturbed \cap {"scrolled", "cleared"} = {} => Chain(combos["displayed"])
  /\ disturbed \cap {"moved", "scrolled"} = {} => SameItems(combos) /\ AllYield(combos)
  /\ disturbed = {} => NothingStale(combos)
-----------------------------------------------------------------------------
(***************************************************************************)
(* Induction over the natural numbers, for a set.                          *)
(***************************************************************************)
LEMMA Least ==
  ASSUME NEW S \in SUBSET Nat, S # {}
  PROVE  \E m \in S : \A k \in S : m <= k
<1> DEFINE R == WF!OpToRel(<, Nat)
<1>1. WF!IsWellFoundedOn(R, Nat)
  BY WF!NatLessThanWellFounded
<1> HIDE DEF R
<1>2. PICK m \in S : \A k \in S : ~ (<<k, m>> \in R)
  BY <1>1, WF!WFMin
<1>3. \A k \in S : ~ (k < m)
  BY <1>2 DEF R, WF!OpToRel
<1> QED
  BY <1>3

LEMMA SetInduction ==
  ASSUME NEW S \in SUBSET Nat, 0 \in S, \A n \in S : n + 1 \in S
  PROVE  S = Nat
<1> SUFFICES ASSUME Nat \ S # {} PROVE FALSE
  OBVIOUS
<1>1. PICK m \in Nat \ S : \A k \in Nat \ S : m <= k
  BY Least
<1>2. m # 0 /\ m - 1 \in Nat
  BY <1>1
<1>3. m - 1 \in S
  BY <1>1, <1>2
<1> QED
  BY <1>1, <1>2, <1>3

(***************************************************************************)
(* UpTo is computed from front to back: its recursive function exists.     *)
(***************************************************************************)
Longer(boxes, level, kept, n) ==
  IF n = 0 THEN <<>>
  ELSE IF boxes[n].level <= level THEN Append(kept[n - 1], boxes[n])
  ELSE kept[n - 1]

Keeps(boxes, level, kept, n) ==
  kept = [i \in 0..n |-> Longer(boxes, level, kept, i)]

LEMMA KeptExists ==
  ASSUME NEW boxes \in Seq(BoxType), NEW level, NEW N \in Nat
  PROVE  \E kept : Keeps(boxes, level, kept, N)
<1> DEFINE Ok(n) == \E kept : Keeps(boxes, level, kept, n)
           S == {n \in Nat : Ok(n)}
<1>1. 0 \in S
  <2> DEFINE g == [i \in 0..0 |-> <<>>]
  <2>1. g = [i \in 0..0 |-> Longer(boxes, level, g, i)]
    BY DEF Longer
  <2> HIDE DEF g
  <2> QED
    BY <2>1 DEF Keeps
<1>2. ASSUME NEW n \in S PROVE n + 1 \in S
  <2>1. PICK g : g = [i \in 0..n |-> Longer(boxes, level, g, i)]
    BY <1>2 DEF Keeps
  <2> DEFINE h == [i \in 0..(n + 1) |->
                     IF i = n + 1 THEN Longer(boxes, level, g, i) ELSE g[i]]
  <2>2. \A i \in 0..n : h[i] = g[i] /\ i \in 0..(n + 1)
    OBVIOUS
  <2>3. ASSUME NEW i \in 0..(n + 1) PROVE h[i] = Longer(boxes, level, h, i)
    <3>1. Longer(boxes, level, h, i) = Longer(boxes, level, g, i)
      BY <2>2 DEF Longer
    <3>2. CASE i = n + 1
      BY <3>1, <3>2
    <3>3. CASE i # n + 1
      <4>1. i \in 0..n
        BY <3>3
      <4>2. g[i] = Longer(boxes, level, g, i)
        BY <4>1, <2>1, Zenon
      <4> QED
        BY <2>2, <3>1, <4>1, <4>2
    <3> QED
      BY <3>2, <3>3
  <2>4. h = [i \in 0..(n + 1) |-> Longer(boxes, level, h, i)]
    BY <2>3, Zenon
  <2> HIDE DEF h
  <2> QED
    BY <2>4 DEF Keeps
<1> HIDE DEF S
<1>3. S = Nat
  <2>1. S \in SUBSET Nat
    BY DEF S
  <2> QED
    BY <1>1, <1>2, <2>1, SetInduction
<1> QED
  BY <1>3 DEF S

(***************************************************************************)
(* UpTo returns boxes of the sequence, each from a place of its own.  If   *)
(* the levels separate a front of it from the rest, it returns the front.  *)
(***************************************************************************)
PartOf(some, boxes, n) ==
  /\ some \in Seq(BoxType) /\ Len(some) <= n
  /\ \E place \in [1..Len(some) -> 1..n] :
       /\ \A i, j \in 1..Len(some) : place[i] = place[j] => i = j
       /\ \A i \in 1..Len(some) : some[i] = boxes[place[i]]

Separates(boxes, level, m, n) ==
  /\ \A i \in 1..m : boxes[i].level <= level
  /\ \A i \in (m + 1)..n : ~(boxes[i].level <= level)

IsFront(some, boxes, m) ==
  Len(some) = m /\ \A i \in 1..m : some[i] = boxes[i]

KeptRight(some, boxes, level, n) ==
  /\ PartOf(some, boxes, n)
  /\ \A m \in 0..n : Separates(boxes, level, m, n) => IsFront(some, boxes, m)
  /\ (\E i \in 1..n : ~(boxes[i].level <= level)) => Len(some) < n

LEMMA PartGrows ==
  ASSUME NEW boxes \in Seq(BoxType), NEW n \in Nat, n + 1 \in 1..Len(boxes),
         NEW some, PartOf(some, boxes, n)
  PROVE  /\ PartOf(some, boxes, n + 1)
         /\ PartOf(Append(some, boxes[n + 1]), boxes, n + 1)
<1> DEFINE box == boxes[n + 1]
           more == Append(some, box)
<1>0. Len(boxes) \in Nat
  BY LenProperties
<1>1. /\ some \in Seq(BoxType) /\ Len(some) \in Nat /\ Len(some) <= n
      /\ box \in BoxType
  BY <1>0, LenProperties DEF PartOf
<1>2. PICK place \in [1..Len(some) -> 1..n] :
           /\ \A i, j \in 1..Len(some) : place[i] = place[j] => i = j
           /\ \A i \in 1..Len(some) : some[i] = boxes[place[i]]
  BY DEF PartOf
<1>3. /\ more \in Seq(BoxType) /\ Len(more) = Len(some) + 1
      /\ \A i \in 1..Len(some) : more[i] = some[i]
      /\ more[Len(some) + 1] = box
  BY <1>1, AppendProperties
<1> HIDE DEF more, box
<1>4. PartOf(some, boxes, n + 1)
  <2>1. place \in [1..Len(some) -> 1..(n + 1)]
    BY <1>2
  <2> QED
    BY <1>1, <1>2, <2>1 DEF PartOf
<1>5. PartOf(more, boxes, n + 1)
  <2> DEFINE at == [i \in 1..(Len(some) + 1) |->
                      IF i = Len(some) + 1 THEN n + 1 ELSE place[i]]
  <2>1. at \in [1..Len(more) -> 1..(n + 1)]
    BY <1>1, <1>2, <1>3
  <2>2. /\ \A i \in 1..Len(some) : at[i] = place[i] /\ at[i] <= n
        /\ at[Len(some) + 1] = n + 1
    BY <1>1, <1>2
  <2> HIDE DEF at
  <2>3. \A i \in 1..Len(more) : i \in 1..Len(some) \/ i = Len(some) + 1
    BY <1>1, <1>3
  <2>4. ASSUME NEW i \in 1..Len(more), NEW j \in 1..Len(more), at[i] = at[j]
        PROVE  i = j
    BY <1>1, <1>2, <2>2, <2>3, <2>4
  <2>5. \A i \in 1..Len(more) : more[i] = boxes[at[i]]
    BY <1>2, <1>3, <2>2, <2>3 DEF box
  <2>6. \E p \in [1..Len(more) -> 1..(n + 1)] :
          /\ \A i, j \in 1..Len(more) : p[i] = p[j] => i = j
          /\ \A i \in 1..Len(more) : more[i] = boxes[p[i]]
    BY <2>1, <2>4, <2>5, Zenon
  <2>7. Len(more) <= n + 1
    BY <1>1, <1>3
  <2> QED
    BY <1>3, <2>6, <2>7 DEF PartOf
<1> QED
  BY <1>4, <1>5 DEF more, box

LEMMA UpToFacts ==
  ASSUME NEW boxes \in Seq(BoxType), NEW level
  PROVE  KeptRight(UpTo(boxes, level), boxes, level, Len(boxes))
<1> DEFINE N == Len(boxes)
<1>0. N \in Nat
  BY LenProperties
<1> DEFINE kept == CHOOSE g : Keeps(boxes, level, g, N)
<1>1. Keeps(boxes, level, kept, N)
  BY <1>0, KeptExists
<1>2. UpTo(boxes, level) = kept[N]
  BY Zenon DEF UpTo, Keeps, Longer
<1> HIDE DEF kept
<1>3. \A n \in 0..N : kept[n] = Longer(boxes, level, kept, n)
  BY <1>1, Zenon DEF Keeps
<1> DEFINE S == {n \in Nat : n <= N => KeptRight(kept[n], boxes, level, n)}
<1>4. 0 \in S
  <2>1. kept[0] = <<>>
    BY <1>0, <1>3 DEF Longer
  <2>2. PartOf(<<>>, boxes, 0)
    <3> DEFINE place == [i \in 1..0 |-> i]
    <3>1. /\ <<>> \in Seq(BoxType) /\ Len(<<>>) = 0
          /\ place \in [1..0 -> 1..0] /\ 1..0 = {}
      OBVIOUS
    <3> HIDE DEF place
    <3>2. \A i \in 1..0 : FALSE
      BY <3>1
    <3>3. \E p \in [1..Len(<<>>) -> 1..0] :
            /\ \A i, j \in 1..Len(<<>>) : p[i] = p[j] => i = j
            /\ \A i \in 1..Len(<<>>) : <<>>[i] = boxes[p[i]]
      BY <3>1, <3>2, Zenon
    <3>4. <<>> \in Seq(BoxType) /\ Len(<<>>) <= 0
      OBVIOUS
    <3> QED
      BY <3>3, <3>4, Zenon DEF PartOf
  <2>3. \A m \in 0..0 : IsFront(<<>>, boxes, m)
    BY DEF IsFront
  <2> QED
    BY <2>1, <2>2, <2>3 DEF KeptRight
<1>5. ASSUME NEW n \in S, n + 1 <= N
      PROVE  KeptRight(kept[n + 1], boxes, level, n + 1)
  <2> DEFINE some == kept[n]
             box == boxes[n + 1]
  <2>0. n \in Nat /\ n + 1 \in 1..N /\ n + 1 \in 0..N
    BY <1>0, <1>5
  <2>1. KeptRight(some, boxes, level, n)
    BY <1>0, <1>5, <2>0
  <2>2. kept[n + 1] = IF box.level <= level THEN Append(some, box) ELSE some
    BY <1>3, <2>0 DEF Longer
  <2>3. some \in Seq(BoxType) /\ box \in BoxType /\ Len(some) \in Nat
    BY <2>0, <2>1, LenProperties DEF KeptRight, PartOf
  <2>4. /\ Len(Append(some, box)) = Len(some) + 1
        /\ \A i \in 1..Len(some) : Append(some, box)[i] = some[i]
        /\ Append(some, box)[Len(some) + 1] = box
    BY <2>3, AppendProperties
  <2>5. PartOf(some, boxes, n + 1) /\ PartOf(Append(some, box), boxes, n + 1)
    BY <2>0, <2>1, PartGrows DEF KeptRight
  <2> HIDE DEF some, box
  <2>6. CASE box.level <= level
    <3>1. kept[n + 1] = Append(some, box)
      BY <2>2, <2>6
    <3>2. ASSUME NEW m \in 0..(n + 1), Separates(boxes, level, m, n + 1)
          PROVE  IsFront(Append(some, box), boxes, m)
      <4>1. m = n + 1
        BY <2>0, <2>6, <3>2 DEF Separates, box
      <4>2. IsFront(some, boxes, n)
        BY <2>0, <2>1, <3>2, <4>1 DEF Separates, KeptRight
      <4> QED
        BY <2>0, <2>4, <4>1, <4>2 DEF IsFront, box
    <3>3. ASSUME NEW i \in 1..(n + 1), ~(boxes[i].level <= level)
          PROVE  Len(Append(some, box)) < n + 1
      <4>1. i \in 1..n
        BY <2>0, <2>6, <3>3 DEF box
      <4> QED
        BY <2>0, <2>1, <2>3, <2>4, <3>3, <4>1 DEF KeptRight
    <3> QED
      BY <2>5, <3>1, <3>2, <3>3 DEF KeptRight
  <2>7. CASE ~(box.level <= level)
    <3>1. kept[n + 1] = some
      BY <2>2, <2>7
    <3>2. ASSUME NEW m \in 0..(n + 1), Separates(boxes, level, m, n + 1)
          PROVE  IsFront(some, boxes, m)
      <4>1. m # n + 1
        BY <2>0, <2>7, <3>2 DEF Separates, box
      <4>2. Separates(boxes, level, m, n) /\ m \in 0..n
        BY <2>0, <3>2, <4>1 DEF Separates
      <4> QED
        BY <2>1, <4>2 DEF KeptRight
    <3>3. Len(some) < n + 1
      BY <2>0, <2>1, <2>3 DEF KeptRight, PartOf
    <3> QED
      BY <2>5, <3>1, <3>2, <3>3 DEF KeptRight
  <2> QED
    BY <2>6, <2>7
<1> HIDE DEF N
<1>6. S = Nat
  <2>1. S \in SUBSET Nat
    OBVIOUS
  <2>2. \A n \in S : n + 1 \in S
    BY <1>5
  <2> HIDE DEF S
  <2> QED
    BY <1>4, <2>1, <2>2, SetInduction
<1>7. KeptRight(kept[N], boxes, level, N)
  BY <1>0, <1>6
<1> QED
  BY <1>2, <1>7 DEF N

-----------------------------------------------------------------------------
(***************************************************************************)
(* The operations of one box.  All but the choice itself leave the box     *)
(* what it is and change only what is greyed and which rows it lists.      *)
(***************************************************************************)
Same(new, old) ==
  /\ new \in BoxType
  /\ new.level = old.level /\ new.items = old.items
  /\ new.index = old.index /\ new.previous = old.previous

LEMMA BoxFields ==
  ASSUME NEW combo \in BoxType
  PROVE  /\ combo.level \in Nat /\ combo.items \in Seq(Columns)
         /\ combo.index \in Nat /\ combo.previous \in Nat \cup {NoIndex}
         /\ combo.disabledRows \in Rows /\ combo.greyed \in SUBSET Columns
         /\ combo.enabled \in BOOLEAN
  BY DEF BoxType

LEMMA RowsAreBags ==
  ASSUME NEW bag
  PROVE  bag \in Rows <=>
           /\ bag \in [DOMAIN bag -> Nat \ {0}]
           /\ DOMAIN bag \subseteq Nat
  BY DEF Rows

LEMMA ItemFacts ==
  ASSUME NEW items \in Seq(Columns)
  PROVE  /\ ItemAt(items, 0) = {}
         /\ \A row : ItemAt(items, row) \subseteq Columns
         /\ \A row \in 1..Len(items) : ItemAt(items, row) = {items[row]}
         /\ \A rows : ItemsAt(items, rows) \subseteq Columns
         /\ \A rows : \A row \in rows : ItemAt(items, row) \subseteq ItemsAt(items, rows)
<1>1. Len(items) \in Nat /\ DOMAIN items = 1..Len(items)
  BY LenProperties
<1>2. \A row \in DOMAIN items : items[row] \in Columns
  BY <1>1, ElementOfSeq
<1>3. ItemAt(items, 0) = {}
  BY <1>1 DEF ItemAt
<1>4. \A row : ItemAt(items, row) \subseteq Columns
  BY <1>2 DEF ItemAt
<1>5. \A rows : ItemsAt(items, rows) \subseteq Columns
  BY <1>4 DEF ItemsAt
<1>6. \A rows : \A row \in rows : ItemAt(items, row) \subseteq ItemsAt(items, rows)
  BY DEF ItemsAt
<1> QED
  BY <1>1, <1>3, <1>4, <1>5, <1>6 DEF ItemAt

LEMMA EnableItem ==
  ASSUME NEW combo \in BoxType, NEW row
  PROVE  LET new == enableItem(combo, row)
             bag == combo.disabledRows
         IN  /\ Same(new, combo) /\ new.enabled = combo.enabled
             /\ DOMAIN new.disabledRows \subseteq DOMAIN bag
             /\ \A r \in DOMAIN bag :
                  r # row => /\ r \in DOMAIN new.disabledRows
                             /\ new.disabledRows[r] = bag[r]
             /\ row \in DOMAIN bag /\ bag[row] = 1 => row \notin DOMAIN new.disabledRows
             /\ new.greyed = IF row \in DOMAIN bag
                             THEN combo.greyed \ ItemAt(combo.items, row)
                             ELSE combo.greyed
<1> DEFINE bag == combo.disabledRows
           less == BagRemove(bag, row)
<1>1. bag \in [DOMAIN bag -> Nat \ {0}] /\ DOMAIN bag \subseteq Nat
  BY BoxFields, RowsAreBags
<1>2. /\ less \in [DOMAIN less -> Nat \ {0}]
      /\ DOMAIN less \subseteq DOMAIN bag
      /\ \A r \in DOMAIN bag : r # row => r \in DOMAIN less /\ less[r] = bag[r]
      /\ row \in DOMAIN bag /\ bag[row] = 1 => row \notin DOMAIN less
  <2>1. CASE row \notin DOMAIN bag
    BY <1>1, <2>1 DEF BagRemove
  <2>2. CASE row \in DOMAIN bag /\ bag[row] = 1
    <3>1. less = [e \in DOMAIN bag \ {row} |-> bag[e]]
      BY <2>2 DEF BagRemove
    <3> HIDE DEF less, bag
    <3> QED
      BY <1>1, <2>2, <3>1
  <2>3. CASE row \in DOMAIN bag /\ bag[row] # 1
    <3>1. less = [e \in DOMAIN bag |-> IF e = row THEN bag[e] - 1 ELSE bag[e]]
      BY <2>3 DEF BagRemove
    <3>2. bag[row] - 1 \in Nat \ {0}
      BY <1>1, <2>3
    <3> HIDE DEF less, bag
    <3> QED
      BY <1>1, <2>3, <3>1, <3>2
  <2> QED
    BY <2>1, <2>2, <2>3
<1>3. less \in Rows
  BY <1>1, <1>2, RowsAreBags
<1> HIDE DEF less
<1>4. CASE row \in DOMAIN bag
  <2>1. enableItem(combo, row) =
          [combo EXCEPT !.disabledRows = less,
                        !.greyed = combo.greyed \ ItemAt(combo.items, row)]
    BY <1>4 DEF enableItem, BagIn, BagToSet, less
  <2> QED
    BY <1>2, <1>3, <1>4, <2>1 DEF BoxType, Same
<1>5. CASE row \notin DOMAIN bag
  BY <1>5 DEF enableItem, BagIn, BagToSet, Same
<1> QED
  BY <1>4, <1>5

LEMMA DisableItem ==
  ASSUME NEW combo \in BoxType, NEW row \in Nat
  PROVE  LET new == disableItem(combo, row)
             bag == combo.disabledRows
         IN  /\ Same(new, combo) /\ new.enabled = combo.enabled
             /\ DOMAIN new.disabledRows = DOMAIN bag \cup {row}
             /\ \A r \in DOMAIN bag : r # row => new.disabledRows[r] = bag[r]
             /\ row \notin DOMAIN bag => new.disabledRows[row] = 1
             /\ new.greyed = combo.greyed \cup ItemAt(combo.items, row)
<1> DEFINE bag == combo.disabledRows
           more == BagAdd(bag, row)
<1>1. bag \in [DOMAIN bag -> Nat \ {0}] /\ DOMAIN bag \subseteq Nat
  BY BoxFields, RowsAreBags
<1>2. /\ more \in [DOMAIN more -> Nat \ {0}]
      /\ DOMAIN more = DOMAIN bag \cup {row}
      /\ \A r \in DOMAIN bag : r # row => more[r] = bag[r]
      /\ row \notin DOMAIN bag => more[row] = 1
  <2>1. CASE row \in DOMAIN bag
    <3>1. more = [e \in DOMAIN bag |-> IF e = row THEN bag[e] + 1 ELSE bag[e]]
      BY <2>1 DEF BagAdd
    <3>2. bag[row] + 1 \in Nat \ {0}
      BY <1>1, <2>1
    <3> HIDE DEF more, bag
    <3> QED
      BY <1>1, <2>1, <3>1, <3>2
  <2>2. CASE row \notin DOMAIN bag
    <3>1. more = [e \in DOMAIN bag \cup {row} |-> IF e = row THEN 1 ELSE bag[e]]
      BY <2>2 DEF BagAdd
    <3> HIDE DEF more, bag
    <3> QED
      BY <1>1, <2>2, <3>1
  <2> QED
    BY <2>1, <2>2
<1>3. more \in Rows
  BY <1>1, <1>2, RowsAreBags
<1>4. combo.greyed \cup ItemAt(combo.items, row) \in SUBSET Columns
  BY BoxFields, ItemFacts
<1> HIDE DEF more
<1>5. disableItem(combo, row) =
        [combo EXCEPT !.disabledRows = more,
                      !.greyed = combo.greyed \cup ItemAt(combo.items, row)]
  BY DEF disableItem, more
<1> QED
  BY <1>2, <1>3, <1>4, <1>5 DEF BoxType, Same

LEMMA DisableItems ==
  ASSUME NEW combo \in BoxType, NEW rows \in Rows
  PROVE  LET new == disableItems(combo, rows)
             bag == combo.disabledRows
         IN  /\ Same(new, combo) /\ new.enabled = combo.enabled
             /\ DOMAIN new.disabledRows = DOMAIN bag \cup DOMAIN rows
             /\ bag = EmptyBag => new.disabledRows = rows
             /\ new.greyed = combo.greyed \cup ItemsAt(combo.items, DOMAIN rows)
<1> DEFINE bag == combo.disabledRows
           sum == bag (+) rows
<1>1. /\ bag \in [DOMAIN bag -> Nat \ {0}] /\ DOMAIN bag \subseteq Nat
      /\ rows \in [DOMAIN rows -> Nat \ {0}] /\ DOMAIN rows \subseteq Nat
  BY BoxFields, RowsAreBags
<1>2. sum = [e \in DOMAIN bag \cup DOMAIN rows |->
               (IF e \in DOMAIN bag THEN bag[e] ELSE 0)
                 + (IF e \in DOMAIN rows THEN rows[e] ELSE 0)]
  BY DEF (+)
<1>3. \A e \in DOMAIN bag \cup DOMAIN rows :
        (IF e \in DOMAIN bag THEN bag[e] ELSE 0)
          + (IF e \in DOMAIN rows THEN rows[e] ELSE 0) \in Nat \ {0}
  BY <1>1
<1>4. sum \in Rows /\ DOMAIN sum = DOMAIN bag \cup DOMAIN rows
  BY <1>1, <1>2, <1>3, RowsAreBags
<1>5. bag = EmptyBag => sum = rows
  <2> SUFFICES ASSUME bag = EmptyBag PROVE sum = rows
    OBVIOUS
  <2>1. DOMAIN bag = {}
    BY DEF EmptyBag, SetToBag
  <2>2. DOMAIN sum = DOMAIN rows /\ \A e \in DOMAIN rows : sum[e] = rows[e]
    BY <1>1, <1>2, <2>1
  <2> QED
    BY <1>1, <1>2, <2>2
<1>6. combo.greyed \cup ItemsAt(combo.items, DOMAIN rows) \in SUBSET Columns
  BY BoxFields, ItemFacts
<1> HIDE DEF sum
<1>7. disableItems(combo, rows) =
        [combo EXCEPT !.disabledRows = sum,
                      !.greyed = combo.greyed \cup ItemsAt(combo.items, DOMAIN rows)]
  BY DEF disableItems, sum, BagToSet
<1> QED
  BY <1>4, <1>5, <1>6, <1>7 DEF BoxType, Same

LEMMA EnableAllItems ==
  ASSUME NEW combo \in BoxType
  PROVE  LET new  == enableAllItems(combo)
             bag  == combo.disabledRows
             rows == (0..Len(combo.items)) \cap DOMAIN bag
         IN  /\ Same(new, combo) /\ new.enabled = combo.enabled
             /\ DOMAIN new.disabledRows \subseteq DOMAIN bag
             /\ \A r \in rows : bag[r] = 1 => r \notin DOMAIN new.disabledRows
             /\ new.greyed = combo.greyed \ ItemsAt(combo.items, rows)
<1> DEFINE bag == combo.disabledRows
           rows == (0..Len(combo.items)) \cap DOMAIN bag
           less == bag (-) SetToBag(rows)
           value == [e \in DOMAIN bag |-> IF e \in rows THEN bag[e] - 1 ELSE bag[e]]
<1>1. bag \in [DOMAIN bag -> Nat \ {0}] /\ DOMAIN bag \subseteq Nat
  BY BoxFields, RowsAreBags
<1>2. less = [e \in {d \in DOMAIN bag : value[d] > 0} |-> value[e]]
  <2>1. DOMAIN SetToBag(rows) = rows /\ \A e \in rows : SetToBag(rows)[e] = 1
    BY DEF SetToBag
  <2> DEFINE given == [e \in DOMAIN bag |->
                         IF e \in DOMAIN SetToBag(rows)
                         THEN bag[e] - SetToBag(rows)[e] ELSE bag[e]]
  <2>2. given = value
    BY <2>1
  <2>3. less = [e \in {d \in DOMAIN given : given[d] > 0} |-> given[e]]
    BY DEF (-)
  <2> HIDE DEF given, less
  <2>4. less = [e \in {d \in DOMAIN value : value[d] > 0} |-> value[e]]
    BY <2>2, <2>3
  <2>5. DOMAIN value = DOMAIN bag
    OBVIOUS
  <2> HIDE DEF value
  <2> QED
    BY <2>4, <2>5
<1>3. \A e \in DOMAIN bag : value[e] \in Nat /\ (e \in rows /\ bag[e] = 1 => value[e] = 0)
  BY <1>1
<1> HIDE DEF less, value
<1>4. /\ DOMAIN less = {d \in DOMAIN bag : value[d] > 0}
      /\ \A e \in DOMAIN less : less[e] = value[e]
  BY <1>2
<1>5. less \in Rows
  <2>1. less \in [DOMAIN less -> Nat \ {0}]
    BY <1>2, <1>3, <1>4
  <2>2. DOMAIN less \subseteq Nat
    BY <1>1, <1>4
  <2> QED
    BY <2>1, <2>2, RowsAreBags
<1>6. DOMAIN less \subseteq DOMAIN bag /\ \A r \in rows : bag[r] = 1 => r \notin DOMAIN less
  BY <1>3, <1>4
<1>7. combo.greyed \ ItemsAt(combo.items, rows) \in SUBSET Columns
  BY BoxFields
<1>8. enableAllItems(combo) =
        [combo EXCEPT !.disabledRows = less,
                      !.greyed = combo.greyed \ ItemsAt(combo.items, rows)]
  BY DEF enableAllItems, less, BagToSet
<1> HIDE DEF rows
<1>9. /\ Same(enableAllItems(combo), combo)
      /\ enableAllItems(combo).enabled = combo.enabled
      /\ enableAllItems(combo).disabledRows = less
      /\ enableAllItems(combo).greyed = combo.greyed \ ItemsAt(combo.items, rows)
  BY <1>5, <1>7, <1>8 DEF BoxType, Same
<1> QED
  BY <1>6, <1>9 DEF rows

LEMMA NewBox ==
  ASSUME NEW level \in Nat, NEW enabled \in BOOLEAN
  PROVE  LET new == EmptyCombo(level, enabled)
         IN  /\ new \in BoxType
             /\ new.level = level /\ new.enabled = enabled
             /\ new.items = <<>> /\ new.index = 0 /\ new.greyed = {}
             /\ new.disabledRows = EmptyBag /\ DOMAIN EmptyBag = {}
<1>1. EmptyBag \in Rows /\ DOMAIN EmptyBag = {}
  BY RowsAreBags DEF EmptyBag, SetToBag
<1>2. <<>> \in Seq(Columns)
  OBVIOUS
<1> QED
  BY <1>1, <1>2 DEF EmptyCombo, BoxType

LEMMA InsertItems ==
  ASSUME NEW combo \in BoxType, combo.index \in 0..Len(combo.items),
         NEW columns \in Seq(Columns)
  PROVE  LET new == insertItems(combo, columns)
         IN  /\ new \in BoxType
             /\ new.level = combo.level /\ new.previous = combo.previous
             /\ new.disabledRows = combo.disabledRows
             /\ new.greyed = combo.greyed /\ new.enabled = combo.enabled
             /\ new.items = Reverse(columns) \o combo.items
             /\ new.index = 0 <=> combo.index = 0
             /\ new.index \in 0..Len(new.items)
<1> DEFINE items == Reverse(columns) \o combo.items
           index == IF combo.index = 0 THEN 0 ELSE combo.index + Len(columns)
<1>1. Len(columns) \in Nat /\ combo.items \in Seq(Columns) /\ Len(combo.items) \in Nat
  BY LenProperties, BoxFields
<1>2. Reverse(columns) \in Seq(Columns) /\ Len(Reverse(columns)) = Len(columns)
  <2>1. \A i \in 1..Len(columns) : columns[Len(columns) - i + 1] \in Columns
    BY <1>1, ElementOfSeq
  <2> QED
    BY <1>1, <2>1 DEF Reverse
<1>3. items \in Seq(Columns) /\ Len(items) = Len(columns) + Len(combo.items)
  <2>1. /\ items \in Seq(Columns)
        /\ Len(items) = Len(Reverse(columns)) + Len(combo.items)
    BY <1>1, <1>2, ConcatProperties, Zenon
  <2> QED
    BY <1>2, <2>1
<1>4. index \in 0..Len(items) /\ index \in Nat /\ (index = 0 <=> combo.index = 0)
  BY <1>1, <1>3
<1>5. insertItems(combo, columns) = [combo EXCEPT !.items = items, !.index = index]
  BY DEF insertItems
<1> HIDE DEF items, index
<1>6. LET new == insertItems(combo, columns)
      IN  /\ new \in BoxType
          /\ new.level = combo.level /\ new.previous = combo.previous
          /\ new.disabledRows = combo.disabledRows
          /\ new.greyed = combo.greyed /\ new.enabled = combo.enabled
          /\ new.items = items /\ new.index = index
  BY <1>3, <1>4, <1>5 DEF BoxType
<1> QED
  BY <1>4, <1>6 DEF items

LEMMA SetState ==
  ASSUME NEW combo \in BoxType, NEW state \in BoxType
  PROVE  LET new == setState(combo, state)
         IN  /\ Same(new, state) /\ new.enabled = state.enabled
             /\ DOMAIN new.disabledRows
                  = DOMAIN combo.disabledRows \cup DOMAIN state.disabledRows
             /\ new.greyed = ItemsAt(state.items, DOMAIN state.disabledRows)
<1> DEFINE fresh == [state EXCEPT !.disabledRows = combo.disabledRows, !.greyed = {}]
<1>1. /\ Same(fresh, state) /\ fresh.enabled = state.enabled
      /\ fresh.disabledRows = combo.disabledRows /\ fresh.greyed = {}
      /\ state.disabledRows \in Rows
  BY DEF BoxType, Same
<1>2. setState(combo, state) = disableItems(fresh, state.disabledRows)
  BY DEF setState
<1> HIDE DEF fresh
<1>3. fresh \in BoxType
  BY <1>1 DEF Same
<1>4. LET new == disableItems(fresh, state.disabledRows)
      IN  /\ Same(new, fresh) /\ new.enabled = fresh.enabled
          /\ DOMAIN new.disabledRows
               = DOMAIN fresh.disabledRows \cup DOMAIN state.disabledRows
          /\ new.greyed = fresh.greyed \cup ItemsAt(fresh.items, DOMAIN state.disabledRows)
  BY <1>1, <1>3, DisableItems
<1>5. fresh.items = state.items
  BY <1>1 DEF Same
<1>6. Same(disableItems(fresh, state.disabledRows), state)
  BY <1>1, <1>4 DEF Same
<1> QED
  BY <1>1, <1>2, <1>4, <1>5, <1>6

(***************************************************************************)
(* What a box makes of the choice of another one.                          *)
(***************************************************************************)
IsBelow(combo, role, sourceRole, source) ==
  role = sourceRole /\ combo.level = source.level + 1

LEMMA PropagatedFacts ==
  ASSUME NEW combo \in BoxType, NEW role, NEW sourceRole, NEW source \in BoxType
  PROVE  LET new  == Propagated(combo, role, sourceRole, source)
             bag  == combo.disabledRows
             prev == source.previous
             next == IsBelow(combo, role, sourceRole, source)
         IN  /\ Same(new, combo)
             /\ \A r \in DOMAIN bag : r # prev => r \in DOMAIN new.disabledRows
             /\ source.index # 0 => source.index \in DOMAIN new.disabledRows
             /\ \A r \in DOMAIN new.disabledRows :
                  r \in DOMAIN bag \/ (r = source.index /\ source.index # 0)
             /\ prev \in DOMAIN bag /\ bag[prev] = 1 /\ prev # source.index
                  => prev \notin DOMAIN new.disabledRows
             /\ \A r \in DOMAIN bag : r # prev /\ r # source.index
                  => new.disabledRows[r] = bag[r]
             /\ source.index # 0 /\ (source.index \notin DOMAIN bag
                                      \/ (source.index = prev /\ bag[prev] = 1))
                  => new.disabledRows[source.index] = 1
             /\ new.greyed = (IF prev \in DOMAIN bag
                              THEN combo.greyed \ ItemAt(combo.items, prev)
                              ELSE combo.greyed)
                             \cup ItemAt(combo.items, source.index)
             /\ new.enabled = IF source.index = 0 THEN combo.enabled /\ ~next
                              ELSE combo.enabled \/ (next /\ prev = 0)
<1> DEFINE bag == combo.disabledRows
           prev == source.previous
           next == IsBelow(combo, role, sourceRole, source)
           new == Propagated(combo, role, sourceRole, source)
           undone == enableItem(combo, prev)
<1>1. /\ Same(undone, combo) /\ undone.enabled = combo.enabled
      /\ DOMAIN undone.disabledRows \subseteq DOMAIN bag
      /\ \A r \in DOMAIN bag :
           r # prev => /\ r \in DOMAIN undone.disabledRows
                       /\ undone.disabledRows[r] = bag[r]
      /\ prev \in DOMAIN bag /\ bag[prev] = 1 => prev \notin DOMAIN undone.disabledRows
      /\ undone.greyed = IF prev \in DOMAIN bag
                         THEN combo.greyed \ ItemAt(combo.items, prev)
                         ELSE combo.greyed
  BY EnableItem
<1>2. undone \in BoxType /\ undone.items = combo.items
  BY <1>1 DEF Same
<1>3. source.index \in Nat /\ combo.items \in Seq(Columns) /\ next \in BOOLEAN
  BY BoxFields DEF IsBelow
<1>4. undone.enabled \in BOOLEAN
  BY <1>2, BoxFields
<1> DEFINE set == disableItem(undone, source.index)
<1>5. /\ Same(set, undone) /\ set.enabled = undone.enabled
      /\ DOMAIN set.disabledRows = DOMAIN undone.disabledRows \cup {source.index}
      /\ \A r \in DOMAIN undone.disabledRows :
           r # source.index => set.disabledRows[r] = undone.disabledRows[r]
      /\ source.index \notin DOMAIN undone.disabledRows
           => set.disabledRows[source.index] = 1
      /\ set.greyed = undone.greyed \cup ItemAt(combo.items, source.index)
  BY <1>2, <1>3, DisableItem
<1>6. set \in BoxType
  BY <1>5 DEF Same
<1>7. CASE source.index = 0
  <2>1. new = [undone EXCEPT !.enabled = undone.enabled /\ ~next]
    BY <1>7 DEF Propagated, IsBelow
  <2> HIDE DEF new, undone, next
  <2>2. /\ Same(new, undone) /\ new.disabledRows = undone.disabledRows
        /\ new.greyed = undone.greyed /\ new.enabled = (undone.enabled /\ ~next)
    BY <1>2, <1>3, <1>4, <2>1 DEF BoxType, Same
  <2>3. Same(new, combo)
    BY <1>1, <2>2 DEF Same
  <2>4. ItemAt(combo.items, source.index) = {}
    BY <1>3, <1>7, ItemFacts
  <2> QED
    BY <1>1, <1>7, <2>2, <2>3, <2>4 DEF new, next
<1>8. CASE source.index # 0
  <2>1. new = [set EXCEPT !.enabled = set.enabled \/ (next /\ prev = 0)]
    BY <1>8 DEF Propagated, IsBelow
  <2> HIDE DEF new, set, undone, next
  <2>2. set.enabled \in BOOLEAN
    BY <1>6, BoxFields
  <2>3. /\ Same(new, set) /\ new.disabledRows = set.disabledRows
        /\ new.greyed = set.greyed /\ new.enabled = (set.enabled \/ (next /\ prev = 0))
    BY <1>3, <1>6, <2>1, <2>2 DEF BoxType, Same
  <2>4. Same(new, combo)
    BY <1>1, <1>5, <2>3 DEF Same
  <2>5. /\ \A r \in DOMAIN bag : r # prev => r \in DOMAIN new.disabledRows
        /\ source.index \in DOMAIN new.disabledRows
        /\ \A r \in DOMAIN new.disabledRows : r \in DOMAIN bag \/ r = source.index
        /\ \A r \in DOMAIN bag : r # prev /\ r # source.index
             => new.disabledRows[r] = bag[r]
    BY <1>1, <1>5, <2>3
  <2>6. prev \in DOMAIN bag /\ bag[prev] = 1 /\ prev # source.index
          => prev \notin DOMAIN new.disabledRows
    BY <1>1, <1>5, <2>3
  <2>7. source.index \notin DOMAIN bag \/ (source.index = prev /\ bag[prev] = 1)
          => new.disabledRows[source.index] = 1
    BY <1>1, <1>5, <2>3
  <2> QED
    BY <1>1, <1>5, <1>8, <2>3, <2>4, <2>5, <2>6, <2>7 DEF new, next
<1> QED
  BY <1>7, <1>8

(***************************************************************************)
(* The box that appears below one that has got a choice.                   *)
(***************************************************************************)
LEMMA NewDisplayedFacts ==
  ASSUME NEW source \in BoxType
  PROVE  LET new == NewDisplayed(source)
         IN  /\ new \in BoxType
             /\ new.level = source.level + 1 /\ new.items = source.items
             /\ new.index = 0 /\ new.enabled
             /\ DOMAIN new.disabledRows
                  = DOMAIN source.disabledRows \cup {source.index}
             /\ source.index \notin DOMAIN source.disabledRows =>
                  /\ new.disabledRows[source.index] = 1
                  /\ \A r \in DOMAIN source.disabledRows :
                       new.disabledRows[r] = source.disabledRows[r]
             /\ new.greyed = ItemsAt(source.items, DOMAIN source.disabledRows)
                               \cup ItemAt(source.items, source.index)
<1> DEFINE empty == EmptyCombo(source.level + 1, TRUE)
           filled == [empty EXCEPT !.items = source.items]
           copied == disableItems(filled, source.disabledRows)
           new == disableItem(copied, source.index)
<1>1. /\ source.level + 1 \in Nat /\ source.items \in Seq(Columns)
      /\ source.index \in Nat /\ source.disabledRows \in Rows
  BY BoxFields
<1>2. /\ empty \in BoxType /\ empty.level = source.level + 1 /\ empty.enabled
      /\ empty.index = 0 /\ empty.greyed = {} /\ empty.disabledRows = EmptyBag
      /\ DOMAIN EmptyBag = {}
  BY <1>1, NewBox
<1> HIDE DEF empty
<1>3. /\ filled \in BoxType /\ filled.level = source.level + 1 /\ filled.enabled
      /\ filled.index = 0 /\ filled.greyed = {} /\ filled.disabledRows = EmptyBag
      /\ filled.items = source.items
  BY <1>1, <1>2 DEF BoxType
<1> HIDE DEF filled
<1>4. /\ Same(copied, filled) /\ copied.enabled
      /\ copied.disabledRows = source.disabledRows
      /\ copied.greyed = ItemsAt(source.items, DOMAIN source.disabledRows)
  <2>1. /\ Same(copied, filled) /\ copied.enabled = filled.enabled
        /\ filled.disabledRows = EmptyBag => copied.disabledRows = source.disabledRows
        /\ copied.greyed = filled.greyed
                             \cup ItemsAt(filled.items, DOMAIN source.disabledRows)
    BY <1>1, <1>3, DisableItems
  <2> QED
    BY <1>3, <2>1
<1>5. copied \in BoxType /\ copied.items = source.items
  BY <1>3, <1>4 DEF Same
<1> HIDE DEF copied
<1>6. /\ Same(new, copied) /\ new.enabled
      /\ DOMAIN new.disabledRows = DOMAIN source.disabledRows \cup {source.index}
      /\ \A r \in DOMAIN source.disabledRows :
           r # source.index => new.disabledRows[r] = source.disabledRows[r]
      /\ source.index \notin DOMAIN source.disabledRows
           => new.disabledRows[source.index] = 1
      /\ new.greyed = ItemsAt(source.items, DOMAIN source.disabledRows)
                        \cup ItemAt(source.items, source.index)
  BY <1>1, <1>4, <1>5, DisableItem
<1>7. NewDisplayed(source) = new
  BY DEF NewDisplayed, copied, filled, empty
<1> HIDE DEF new
<1>8. /\ new \in BoxType /\ new.level = source.level + 1
      /\ new.items = source.items /\ new.index = 0
  BY <1>3, <1>4, <1>5, <1>6 DEF Same
<1> QED
  BY <1>6, <1>7, <1>8

-----------------------------------------------------------------------------
(***************************************************************************)
(* All boxes together.  A step that neither adds nor removes a box maps    *)
(* every one to its successor.                                             *)
(***************************************************************************)
Mapped(new, old) ==
  /\ new = [role \in Roles |-> new[role]]
  /\ \A role \in Roles : new[role] = [k \in DOMAIN old[role] |-> new[role][k]]

LEMMA ShapeFacts ==
  ASSUME NEW boxes, Shape(boxes)
  PROVE  \A role \in Roles :
           /\ boxes[role] \in Seq(BoxType) /\ Len(boxes[role]) \in Nat
           /\ DOMAIN boxes[role] = 1..Len(boxes[role])
           /\ \A k \in DOMAIN boxes[role] :
                /\ boxes[role][k] \in BoxType
                /\ boxes[role][k].index \in 0..Len(boxes[role][k].items)
<1> SUFFICES ASSUME NEW role \in Roles
             PROVE  /\ boxes[role] \in Seq(BoxType) /\ Len(boxes[role]) \in Nat
                    /\ DOMAIN boxes[role] = 1..Len(boxes[role])
                    /\ \A k \in DOMAIN boxes[role] :
                         /\ boxes[role][k] \in BoxType
                         /\ boxes[role][k].index \in 0..Len(boxes[role][k].items)
  OBVIOUS
<1>1. boxes[role] \in Seq(BoxType)
  BY DEF Shape
<1>2. Len(boxes[role]) \in Nat /\ DOMAIN boxes[role] = 1..Len(boxes[role])
  BY <1>1, LenProperties
<1>3. \A k \in DOMAIN boxes[role] : boxes[role][k] \in BoxType
  BY <1>1, <1>2, ElementOfSeq
<1> QED
  BY <1>1, <1>2, <1>3 DEF Shape

LEMMA MappedShape ==
  ASSUME NEW old, Shape(old), NEW new, Mapped(new, old),
         \A role \in Roles : \A k \in DOMAIN old[role] :
           /\ new[role][k] \in BoxType
           /\ new[role][k].index \in 0..Len(new[role][k].items)
  PROVE  /\ Shape(new)
         /\ \A role \in Roles : /\ DOMAIN new[role] = DOMAIN old[role]
                                /\ Len(new[role]) = Len(old[role])
<1>1. ASSUME NEW role \in Roles
      PROVE  /\ new[role] \in Seq(BoxType) /\ Len(new[role]) = Len(old[role])
             /\ DOMAIN new[role] = DOMAIN old[role]
  <2>1. Len(old[role]) \in Nat /\ DOMAIN old[role] = 1..Len(old[role])
    BY ShapeFacts
  <2>2. new[role] = [k \in 1..Len(old[role]) |-> new[role][k]]
    BY <2>1 DEF Mapped
  <2>3. new[role] \in [1..Len(old[role]) -> BoxType]
    BY <2>1, <2>2
  <2>4. new[role] \in Seq(BoxType)
    BY <2>1, <2>3, IsASeq, SeqDef
  <2>5. DOMAIN new[role] = 1..Len(old[role])
    BY <2>3
  <2>6. Len(new[role]) = Len(old[role])
    BY <2>1, <2>4, <2>5, LenProperties
  <2> QED
    BY <2>1, <2>4, <2>5, <2>6
<1>2. new \in [Roles -> Seq(BoxType)]
  BY <1>1 DEF Mapped
<1>3. \A role \in Axes : role \in Roles /\ Len(new[role]) = Levels
  BY <1>1 DEF Shape, Roles
<1> QED
  BY <1>1, <1>2, <1>3 DEF Shape

(***************************************************************************)
(* What the boxes become when the k-th of a role has become source.        *)
(***************************************************************************)
Spread(boxes, sourceRole, k, source) ==
  [role \in Roles |->
     [j \in DOMAIN boxes[role] |->
        IF role = sourceRole /\ j = k THEN source
        ELSE Propagated(boxes[role][j], role, sourceRole, source)]]

(***************************************************************************)
(* The box that changes keeps everything but its choice and what it        *)
(* remembers of it.                                                        *)
(***************************************************************************)
Turned(source, combo) ==
  /\ source \in BoxType
  /\ source.level = combo.level /\ source.items = combo.items
  /\ source.disabledRows = combo.disabledRows
  /\ source.greyed = combo.greyed /\ source.enabled = combo.enabled
  /\ source.index \in 0..Len(source.items)

HasSpread(new, boxes, sr, k, source) ==
  /\ Shape(new)
  /\ \A role \in Roles : /\ DOMAIN new[role] = DOMAIN boxes[role]
                         /\ Len(new[role]) = Len(boxes[role])
  /\ new[sr][k] = source
  /\ \A role \in Roles : \A j \in DOMAIN boxes[role] :
       /\ new[role][j].level = boxes[role][j].level
       /\ new[role][j].items = boxes[role][j].items
       /\ <<role, j>> # <<sr, k>> =>
            /\ new[role][j] = Propagated(boxes[role][j], role, sr, source)
            /\ Same(new[role][j], boxes[role][j])

LEMMA SpreadFacts ==
  ASSUME NEW boxes, Shape(boxes), NEW sr \in Roles, NEW k \in DOMAIN boxes[sr],
         NEW source, Turned(source, boxes[sr][k])
  PROVE  HasSpread(Spread(boxes, sr, k, source), boxes, sr, k, source)
<1> DEFINE new == Spread(boxes, sr, k, source)
<1>1. \A role \in Roles : \A j \in DOMAIN boxes[role] :
        new[role][j] = IF role = sr /\ j = k THEN source
                       ELSE Propagated(boxes[role][j], role, sr, source)
  BY DEF Spread
<1>2. Mapped(new, boxes)
  BY DEF Mapped, Spread
<1>3. source \in BoxType
  BY DEF Turned
<1> HIDE DEF new
<1>4. new[sr][k] = source
  BY <1>1
<1>5. ASSUME NEW role \in Roles, NEW j \in DOMAIN boxes[role], <<role, j>> # <<sr, k>>
      PROVE  /\ new[role][j] = Propagated(boxes[role][j], role, sr, source)
             /\ Same(new[role][j], boxes[role][j])
  <2>1. new[role][j] = Propagated(boxes[role][j], role, sr, source)
    BY <1>1, <1>5
  <2>2. boxes[role][j] \in BoxType
    BY ShapeFacts
  <2> QED
    BY <1>3, <2>1, <2>2, PropagatedFacts
<1>6. ASSUME NEW role \in Roles, NEW j \in DOMAIN boxes[role]
      PROVE  /\ new[role][j] \in BoxType
             /\ new[role][j].index \in 0..Len(new[role][j].items)
             /\ new[role][j].level = boxes[role][j].level
             /\ new[role][j].items = boxes[role][j].items
  <2>1. CASE <<role, j>> = <<sr, k>>
    BY <1>4, <2>1 DEF Turned
  <2>2. CASE <<role, j>> # <<sr, k>>
    <3>1. boxes[role][j].index \in 0..Len(boxes[role][j].items)
      BY ShapeFacts
    <3> QED
      BY <1>5, <2>2, <3>1 DEF Same
  <2> QED
    BY <2>1, <2>2
<1>7. /\ Shape(new)
      /\ \A role \in Roles : /\ DOMAIN new[role] = DOMAIN boxes[role]
                             /\ Len(new[role]) = Len(boxes[role])
  BY <1>2, <1>6, MappedShape
<1>8. HasSpread(new, boxes, sr, k, source)
  <2>1. \A role \in Roles : \A j \in DOMAIN boxes[role] :
          /\ new[role][j].level = boxes[role][j].level
          /\ new[role][j].items = boxes[role][j].items
    BY <1>6
  <2>2. \A role \in Roles : \A j \in DOMAIN boxes[role] :
          <<role, j>> # <<sr, k>> =>
            /\ new[role][j] = Propagated(boxes[role][j], role, sr, source)
            /\ Same(new[role][j], boxes[role][j])
    BY <1>5
  <2> QED
    BY <1>4, <1>7, <2>1, <2>2 DEF HasSpread
<1> QED
  BY <1>8 DEF new

(***************************************************************************)
(* Picking an item with the mouse: the box remembers what it had chosen,   *)
(* so that the others give back that column and nothing else.              *)
(***************************************************************************)
Picks(source, combo) ==
  /\ Turned(source, combo)
  /\ source.previous = combo.index
  /\ Choice(source) \cap combo.greyed = {}

LEMMA ChoiceFacts ==
  ASSUME NEW combo \in BoxType, combo.index \in 0..Len(combo.items)
  PROVE  /\ Choice(combo) \subseteq Columns
         /\ Choice(combo) = {} <=> combo.index = 0
<1>1. combo.items \in Seq(Columns) /\ Len(combo.items) \in Nat
  BY BoxFields, LenProperties
<1>2. combo.index = 0 \/ combo.index \in 1..Len(combo.items)
  BY <1>1
<1>3. Choice(combo) \subseteq Columns
  BY <1>1, ItemFacts DEF Choice
<1>4. combo.index = 0 => Choice(combo) = {}
  BY <1>1, ItemFacts DEF Choice
<1>5. ASSUME combo.index \in 1..Len(combo.items)
      PROVE  Choice(combo) # {}
  <2>1. ItemAt(combo.items, combo.index) = {combo.items[combo.index]}
    BY <1>1, <1>5, ItemFacts
  <2> QED
    BY <2>1 DEF Choice
<1> QED
  BY <1>2, <1>3, <1>4, <1>5

LEMMA PickKeepsYield ==
  ASSUME NEW boxes, Shape(boxes), SameItems(boxes), AllYield(boxes),
         NEW sr \in Roles, NEW k \in DOMAIN boxes[sr],
         NEW source, Picks(source, boxes[sr][k])
  PROVE  SameItems(Spread(boxes, sr, k, source)) /\ AllYield(Spread(boxes, sr, k, source))
<1> DEFINE new == Spread(boxes, sr, k, source)
           old == boxes[sr][k]
<1>0. Turned(source, old) /\ source \in BoxType
  BY DEF Picks, Turned
<1>1. /\ \A role \in Roles : DOMAIN new[role] = DOMAIN boxes[role]
      /\ new[sr][k] = source
      /\ \A role \in Roles : \A j \in DOMAIN boxes[role] :
           /\ new[role][j].items = boxes[role][j].items
           /\ <<role, j>> # <<sr, k>> =>
                /\ new[role][j] = Propagated(boxes[role][j], role, sr, source)
                /\ Same(new[role][j], boxes[role][j])
  BY <1>0, SpreadFacts DEF HasSpread
<1> HIDE DEF new
<1>2. SameItems(new)
  BY <1>1 DEF SameItems
<1>3. /\ source.items = old.items /\ source.greyed = old.greyed
      /\ source.disabledRows = old.disabledRows /\ source.previous = old.index
      /\ old \in BoxType
  BY <1>0, ShapeFacts DEF Picks, Turned
<1>4. ASSUME NEW r \in Roles, NEW j \in DOMAIN boxes[r], <<r, j>> # <<sr, k>>
      PROVE  LET box == new[r][j]
                 was == boxes[r][j]
             IN  /\ was \in BoxType
                 /\ box.index = was.index /\ Choice(box) = Choice(was)
                 /\ was.items = old.items
                 /\ \A row \in DOMAIN was.disabledRows :
                      row # old.index => row \in DOMAIN box.disabledRows
                 /\ source.index # 0 => source.index \in DOMAIN box.disabledRows
                 /\ was.greyed \ Choice(old) \subseteq box.greyed
                 /\ Choice(source) \subseteq box.greyed
                 /\ Yields(was, old) /\ Yields(old, was)
  <2> DEFINE box == new[r][j]
             was == boxes[r][j]
  <2>1. was \in BoxType /\ was.items = old.items
    BY ShapeFacts DEF SameItems
  <2>2. Same(box, was) /\ box = Propagated(was, r, sr, source)
    BY <1>1, <1>4
  <2>3. /\ \A row \in DOMAIN was.disabledRows :
             row # source.previous => row \in DOMAIN box.disabledRows
        /\ source.index # 0 => source.index \in DOMAIN box.disabledRows
        /\ box.greyed = (IF source.previous \in DOMAIN was.disabledRows
                         THEN was.greyed \ ItemAt(was.items, source.previous)
                         ELSE was.greyed)
                        \cup ItemAt(was.items, source.index)
    BY <1>0, <2>1, <2>2, PropagatedFacts
  <2>4. /\ ItemAt(was.items, source.previous) = Choice(old)
        /\ ItemAt(was.items, source.index) = Choice(source)
    BY <1>3, <2>1 DEF Choice
  <2>5. Yields(was, old) /\ Yields(old, was)
    BY <1>4 DEF AllYield
  <2>6. was.greyed \ Choice(old) \subseteq box.greyed /\ Choice(source) \subseteq box.greyed
    BY <2>3, <2>4
  <2>7. box.index = was.index /\ Choice(box) = Choice(was)
    BY <2>2 DEF Same, Choice
  <2> QED
    BY <1>3, <2>1, <2>3, <2>5, <2>6, <2>7
<1>5. ASSUME NEW r \in Roles, NEW s \in Roles,
             NEW i \in DOMAIN boxes[r], NEW j \in DOMAIN boxes[s], <<r, i>> # <<s, j>>
      PROVE  Yields(new[r][i], new[s][j])
  <2>1. CASE <<r, i>> = <<sr, k>>
    <3>1. <<s, j>> # <<sr, k>>
      BY <1>5, <2>1
    <3>2. /\ source.index # 0 => source.index \in DOMAIN new[s][j].disabledRows
          /\ Choice(source) \subseteq new[s][j].greyed
          /\ Choice(new[s][j]) = Choice(boxes[s][j])
          /\ Choice(boxes[s][j]) \subseteq old.greyed
      BY <1>4, <3>1 DEF Yields
    <3>3. Choice(source) \cap old.greyed = {}
      BY DEF Picks
    <3> QED
      BY <1>1, <2>1, <3>2, <3>3 DEF Yields
  <2>2. CASE <<s, j>> = <<sr, k>>
    <3>1. <<r, i>> # <<sr, k>>
      BY <1>5, <2>2
    <3>2. /\ new[r][i].index = boxes[r][i].index
          /\ Choice(new[r][i]) = Choice(boxes[r][i])
          /\ Yields(boxes[r][i], old)
      BY <1>4, <3>1
    <3>3. Choice(source) \cap old.greyed = {}
      BY DEF Picks
    <3> QED
      BY <1>1, <1>3, <2>2, <3>2, <3>3 DEF Yields
  <2>3. CASE <<r, i>> # <<sr, k>> /\ <<s, j>> # <<sr, k>>
    <3> DEFINE a == boxes[r][i]
               b == boxes[s][j]
    <3>1. Yields(a, b)
      BY <1>5 DEF AllYield
    <3>2. /\ new[r][i].index = a.index /\ Choice(new[r][i]) = Choice(a)
          /\ a \in BoxType /\ a.items = old.items /\ Yields(a, old)
      BY <1>4, <2>3
    <3>3. /\ Choice(new[s][j]) = Choice(b)
          /\ b.greyed \ Choice(old) \subseteq new[s][j].greyed
          /\ \A row \in DOMAIN b.disabledRows :
               row # old.index => row \in DOMAIN new[s][j].disabledRows
      BY <1>4, <2>3
    <3>4. a.index # 0 => a.index # old.index
      <4>1. a.index = old.index => Choice(a) = Choice(old)
        BY <3>2 DEF Choice
      <4>2. Choice(a) \cap Choice(old) = {}
        BY <3>2 DEF Yields
      <4>3. a.index # 0 => Choice(a) # {}
        <5>1. a \in BoxType /\ a.index \in 0..Len(a.items)
          BY <3>2, ShapeFacts
        <5> QED
          BY <5>1, ChoiceFacts
      <4> QED
        BY <4>1, <4>2, <4>3
    <3> HIDE DEF a, b
    <3> QED
      BY <3>1, <3>2, <3>3, <3>4 DEF Yields
  <2> QED
    BY <2>1, <2>2, <2>3
<1>6. AllYield(new)
  BY <1>1, <1>5 DEF AllYield
<1> QED
  BY <1>2, <1>6 DEF new

LEMMA PickLeavesNothingStale ==
  ASSUME NEW boxes, Shape(boxes), SameItems(boxes), AllYield(boxes),
         NothingStale(boxes),
         NEW sr \in Roles, NEW k \in DOMAIN boxes[sr],
         NEW source, Picks(source, boxes[sr][k])
  PROVE  NothingStale(Spread(boxes, sr, k, source))
<1> DEFINE new == Spread(boxes, sr, k, source)
           old == boxes[sr][k]
<1>0. Turned(source, old) /\ source \in BoxType /\ old \in BoxType
  BY ShapeFacts DEF Picks, Turned
<1>1. /\ \A role \in Roles : DOMAIN new[role] = DOMAIN boxes[role]
      /\ new[sr][k] = source
      /\ \A role \in Roles : \A j \in DOMAIN boxes[role] :
           <<role, j>> # <<sr, k>> =>
             /\ new[role][j] = Propagated(boxes[role][j], role, sr, source)
             /\ Same(new[role][j], boxes[role][j])
  BY <1>0, SpreadFacts DEF HasSpread
<1> HIDE DEF new
<1>2. /\ source.items = old.items /\ source.greyed = old.greyed
      /\ source.disabledRows = old.disabledRows /\ source.previous = old.index
      /\ Choice(source) \cap old.greyed = {}
  BY DEF Picks, Turned
<1>3. \A r \in Roles : \A i \in DOMAIN boxes[r] : <<r, i>> # <<sr, k>> =>
        /\ new[r][i].index = boxes[r][i].index
        /\ Choice(new[r][i]) = Choice(boxes[r][i])
        /\ boxes[r][i].items = old.items
  BY <1>1 DEF Same, Choice, SameItems
<1>4. ASSUME NEW row \in DOMAIN source.disabledRows
      PROVE  RowIsChosen(new, sr, k, row)
  BY <1>1, <1>2, <1>3 DEF NothingStale, RowIsChosen
<1>5. ASSUME NEW item \in source.greyed
      PROVE  ItemIsChosen(new, sr, k, item)
  BY <1>1, <1>2, <1>3 DEF NothingStale, ItemIsChosen
<1>6. ASSUME NEW s \in Roles, NEW j \in DOMAIN boxes[s], <<s, j>> # <<sr, k>>
      PROVE  /\ \A row \in DOMAIN new[s][j].disabledRows : RowIsChosen(new, s, j, row)
             /\ \A item \in new[s][j].greyed : ItemIsChosen(new, s, j, item)
  <2> DEFINE was == boxes[s][j]
             bag == was.disabledRows
             now == new[s][j].disabledRows
  <2>1. was \in BoxType /\ was.items = old.items
    BY ShapeFacts DEF SameItems
  <2>2. new[s][j] = Propagated(was, s, sr, source)
    BY <1>1, <1>6
  <2>3. /\ \A r \in DOMAIN now : r \in DOMAIN bag \/ (r = source.index /\ source.index # 0)
        /\ old.index \in DOMAIN bag /\ bag[old.index] = 1 /\ old.index # source.index
             => old.index \notin DOMAIN now
        /\ \A r \in DOMAIN bag : r # old.index /\ r # source.index => now[r] = bag[r]
        /\ source.index # 0 /\ (source.index \notin DOMAIN bag
                                  \/ (source.index = old.index /\ bag[old.index] = 1))
             => now[source.index] = 1
        /\ new[s][j].greyed = (IF old.index \in DOMAIN bag
                               THEN was.greyed \ ItemAt(was.items, old.index)
                               ELSE was.greyed)
                              \cup ItemAt(was.items, source.index)
    <3> HIDE DEF was, old
    <3> QED
      BY <1>0, <1>2, <2>1, <2>2, PropagatedFacts
  <2>4. /\ ItemAt(was.items, old.index) = Choice(old)
        /\ ItemAt(was.items, source.index) = Choice(source)
    BY <1>2, <2>1 DEF Choice
  <2>5. /\ \A row \in DOMAIN bag : RowIsChosen(boxes, s, j, row)
        /\ \A item \in was.greyed : ItemIsChosen(boxes, s, j, item)
    BY DEF NothingStale
  <2> HIDE DEF now, bag
  <2>6. ASSUME NEW row \in DOMAIN now PROVE RowIsChosen(new, s, j, row)
    <3>1. CASE row = source.index
      <4>1. source.index # 0
        BY <2>3, <2>5, <3>1 DEF RowIsChosen, bag
      <4>2. ASSUME source.index \in DOMAIN bag, source.index # old.index PROVE FALSE
        <5>1. PICK r \in Roles : \E i \in DOMAIN boxes[r] :
                <<r, i>> # <<s, j>> /\ boxes[r][i].index = source.index
          BY <2>5, <4>2 DEF RowIsChosen
        <5>2. PICK i \in DOMAIN boxes[r] :
                <<r, i>> # <<s, j>> /\ boxes[r][i].index = source.index
          BY <5>1
        <5>3. <<r, i>> # <<sr, k>>
          BY <4>2, <5>2
        <5>4. Choice(boxes[r][i]) = Choice(source)
          BY <1>2, <1>3, <5>2, <5>3 DEF Choice
        <5>5. Choice(boxes[r][i]) \subseteq old.greyed
          BY <5>3 DEF AllYield, Yields
        <5>6. Choice(boxes[r][i]) # {}
          BY <4>1, <5>2, ShapeFacts, ChoiceFacts
        <5> QED
          BY <1>2, <5>4, <5>5, <5>6
      <4>3. source.index \in DOMAIN bag => bag[source.index] = 1
        BY <2>5 DEF RowIsChosen, bag
      <4>4. now[source.index] = 1
        BY <2>3, <4>1, <4>2, <4>3
      <4> QED
        BY <1>1, <1>6, <3>1, <4>1, <4>4 DEF RowIsChosen, now
    <3>2. CASE row # source.index
      <4>1. row \in DOMAIN bag
        BY <2>3, <3>2
      <4>2. bag[row] = 1 /\ row # 0
        BY <2>5, <4>1 DEF RowIsChosen, bag
      <4>3. row # old.index
        BY <2>3, <3>2, <4>1, <4>2
      <4>4. now[row] = 1
        BY <2>3, <3>2, <4>1, <4>2, <4>3
      <4>5. PICK r \in Roles : \E i \in DOMAIN boxes[r] :
              <<r, i>> # <<s, j>> /\ boxes[r][i].index = row
        BY <2>5, <4>1 DEF RowIsChosen
      <4>6. PICK i \in DOMAIN boxes[r] :
              <<r, i>> # <<s, j>> /\ boxes[r][i].index = row
        BY <4>5
      <4>7. new[r][i].index = row /\ i \in DOMAIN new[r]
        BY <1>1, <1>3, <4>3, <4>6
      <4> QED
        BY <4>2, <4>4, <4>6, <4>7 DEF RowIsChosen, now
    <3> QED
      BY <3>1, <3>2
  <2>7. ASSUME NEW item \in new[s][j].greyed PROVE ItemIsChosen(new, s, j, item)
    <3>1. CASE item \in Choice(source)
      BY <1>1, <1>6, <3>1 DEF ItemIsChosen
    <3>2. CASE item \notin Choice(source)
      <4>1. item \in was.greyed /\ (old.index \in DOMAIN bag => item \notin Choice(old))
        BY <2>3, <2>4, <3>2
      <4>2. PICK r \in Roles : \E i \in DOMAIN boxes[r] :
              <<r, i>> # <<s, j>> /\ item \in Choice(boxes[r][i])
        BY <2>5, <4>1 DEF ItemIsChosen
      <4>3. PICK i \in DOMAIN boxes[r] :
              <<r, i>> # <<s, j>> /\ item \in Choice(boxes[r][i])
        BY <4>2
      <4>4. <<r, i>> # <<sr, k>>
        <5> SUFFICES ASSUME <<r, i>> = <<sr, k>> PROVE FALSE
          OBVIOUS
        <5>1. item \in Choice(old)
          BY <4>3
        <5>2. old.index # 0
          BY <1>0, <5>1, ShapeFacts, ChoiceFacts
        <5>3. Yields(old, was)
          BY <1>6 DEF AllYield
        <5> QED
          BY <4>1, <5>1, <5>2, <5>3 DEF Yields, bag
      <4> QED
        BY <1>1, <1>3, <4>3, <4>4 DEF ItemIsChosen
    <3> QED
      BY <3>1, <3>2
  <2> QED
    BY <2>6, <2>7 DEF now
<1>7. ASSUME NEW s \in Roles, NEW j \in DOMAIN new[s]
      PROVE  /\ \A row \in DOMAIN new[s][j].disabledRows : RowIsChosen(new, s, j, row)
             /\ \A item \in new[s][j].greyed : ItemIsChosen(new, s, j, item)
  <2>1. CASE <<s, j>> = <<sr, k>>
    BY <1>1, <1>4, <1>5, <2>1
  <2>2. CASE <<s, j>> # <<sr, k>>
    BY <1>1, <1>6, <2>2
  <2> QED
    BY <2>1, <2>2
<1> QED
  BY <1>7 DEF NothingStale, new

LEMMA SpreadKeepsLevels ==
  ASSUME NEW boxes, Shape(boxes), AxisLevels(boxes),
         NEW sr \in Roles, NEW k \in DOMAIN boxes[sr],
         NEW source, Turned(source, boxes[sr][k])
  PROVE  AxisLevels(Spread(boxes, sr, k, source))
<1>1. \A role \in Axes : role \in Roles /\ DOMAIN boxes[role] = 1..Levels
  BY ShapeFacts DEF Shape, Roles
<1>2. \A role \in Roles : \A j \in DOMAIN boxes[role] :
        Spread(boxes, sr, k, source)[role][j].level = boxes[role][j].level
  BY SpreadFacts DEF HasSpread
<1> QED
  BY <1>1, <1>2 DEF AxisLevels

LEMMA PickKeepsHierarchy ==
  ASSUME NEW boxes, Shape(boxes), AxisLevels(boxes), EnabledBelow(boxes),
         NEW sr \in Roles, NEW k \in DOMAIN boxes[sr],
         NEW source, Picks(source, boxes[sr][k])
  PROVE  EnabledBelow(Spread(boxes, sr, k, source))
<1> DEFINE new == Spread(boxes, sr, k, source)
           old == boxes[sr][k]
<1>1. Turned(source, old) /\ source \in BoxType /\ source.previous = old.index
  BY DEF Picks, Turned
<1>2. /\ new[sr][k] = source
      /\ \A role \in Roles : \A j \in DOMAIN boxes[role] :
           <<role, j>> # <<sr, k>> =>
             /\ new[role][j] = Propagated(boxes[role][j], role, sr, source)
             /\ Same(new[role][j], boxes[role][j])
  BY <1>1, SpreadFacts DEF HasSpread
<1> HIDE DEF new
<1> SUFFICES ASSUME NEW role \in Axes, NEW n \in 1..(Levels - 1)
             PROVE  new[role][n + 1].enabled <=> new[role][n].index # 0
  BY DEF EnabledBelow, new
<1>3. /\ role \in Roles /\ n \in DOMAIN boxes[role] /\ n + 1 \in DOMAIN boxes[role]
      /\ n \in Nat /\ n # n + 1 /\ boxes[role][n + 1] \in BoxType
      /\ boxes[role][n + 1].level = n + 1
      /\ boxes[role][n + 1].enabled <=> boxes[role][n].index # 0
  <2>1. role \in Roles /\ DOMAIN boxes[role] = 1..Levels
    BY ShapeFacts DEF Shape, Roles
  <2>2. n \in 1..Levels /\ n + 1 \in 1..Levels /\ n \in Nat /\ n # n + 1
    BY LevelsAssumption
  <2>3. boxes[role][n + 1] \in BoxType
    BY <2>1, <2>2, ShapeFacts
  <2> QED
    BY <2>1, <2>2, <2>3 DEF AxisLevels, EnabledBelow
<1>4. CASE <<role, n + 1>> = <<sr, k>>
  <2>1. <<role, n>> # <<sr, k>>
    BY <1>3, <1>4
  <2>2. new[role][n].index = boxes[role][n].index
    BY <1>2, <1>3, <2>1 DEF Same
  <2>3. source.enabled = boxes[role][n + 1].enabled
    BY <1>1, <1>4 DEF Turned
  <2> QED
    BY <1>2, <1>3, <1>4, <2>2, <2>3
<1>5. CASE <<role, n + 1>> # <<sr, k>>
  <2> DEFINE next == IsBelow(boxes[role][n + 1], role, sr, source)
  <2>1. new[role][n + 1] = Propagated(boxes[role][n + 1], role, sr, source)
    BY <1>2, <1>3, <1>5
  <2>2. new[role][n + 1].enabled
          = IF source.index = 0 THEN boxes[role][n + 1].enabled /\ ~next
            ELSE boxes[role][n + 1].enabled \/ (next /\ source.previous = 0)
    BY <1>1, <1>3, <2>1, PropagatedFacts
  <2>3. next <=> <<role, n>> = <<sr, k>>
    <3>1. CASE role = sr
      <4>1. source.level = k /\ k \in Nat
        <5>1. k \in 1..Levels
          BY <3>1, ShapeFacts DEF Shape
        <5> QED
          BY <1>1, <3>1, <5>1 DEF AxisLevels, Turned
      <4> QED
        BY <1>3, <3>1, <4>1 DEF IsBelow
    <3>2. CASE role # sr
      BY <3>2 DEF IsBelow
    <3> QED
      BY <3>1, <3>2
  <2> HIDE DEF next
  <2>4. CASE <<role, n>> = <<sr, k>>
    BY <1>1, <1>2, <1>3, <2>2, <2>3, <2>4
  <2>5. CASE <<role, n>> # <<sr, k>>
    <3>1. new[role][n].index = boxes[role][n].index
      BY <1>2, <1>3, <2>5 DEF Same
    <3>2. boxes[role][n + 1].enabled \in BOOLEAN
      BY <1>3, BoxFields
    <3>3. new[role][n + 1].enabled = boxes[role][n + 1].enabled
      BY <2>2, <2>3, <2>5, <3>2
    <3> QED
      BY <1>3, <3>1, <3>3
  <2> QED
    BY <2>4, <2>5
<1> QED
  BY <1>4, <1>5

(***************************************************************************)
(* The list of boxes for displayed values, once its k-th box has changed.  *)
(***************************************************************************)
LEMMA ActivatedCases ==
  ASSUME NEW shown \in Seq(BoxType), NEW k \in DOMAIN shown
  PROVE  LET new  == DisplayedActivated(shown, k)
             grow == Append(shown, NewDisplayed(shown[k]))
         IN  /\ shown[k].index = 0 => new = UpTo(shown, shown[k].level)
             /\ shown[k].index # 0 /\ shown[k].previous = 0 => new = grow
             /\ shown[k].index # 0 /\ shown[k].previous # 0 => new = shown
             /\ Len(shown) \in Nat /\ k \in 1..Len(shown) /\ shown[k] \in BoxType
             /\ grow \in Seq(BoxType) /\ Len(grow) = Len(shown) + 1
             /\ \A j \in 1..Len(shown) : grow[j] = shown[j]
             /\ grow[Len(shown) + 1] = NewDisplayed(shown[k])
<1>1. Len(shown) \in Nat /\ k \in 1..Len(shown) /\ shown[k] \in BoxType
  BY LenProperties, ElementOfSeq
<1>2. NewDisplayed(shown[k]) \in BoxType
  BY <1>1, NewDisplayedFacts
<1> DEFINE grow == Append(shown, NewDisplayed(shown[k]))
<1>3. /\ grow \in Seq(BoxType) /\ Len(grow) = Len(shown) + 1
      /\ \A j \in 1..Len(shown) : grow[j] = shown[j]
      /\ grow[Len(shown) + 1] = NewDisplayed(shown[k])
  BY <1>2, AppendProperties
<1> HIDE DEF grow
<1>4. /\ shown[k].index = 0
           => DisplayedActivated(shown, k) = UpTo(shown, shown[k].level)
      /\ shown[k].index # 0 /\ shown[k].previous = 0
           => DisplayedActivated(shown, k) = grow
      /\ shown[k].index # 0 /\ shown[k].previous # 0
           => DisplayedActivated(shown, k) = shown
  BY DEF DisplayedActivated, grow
<1> QED
  BY <1>1, <1>3, <1>4 DEF grow

LEMMA ActivatedTypes ==
  ASSUME NEW shown \in Seq(BoxType), NEW k \in DOMAIN shown,
         \A j \in DOMAIN shown : shown[j].index \in 0..Len(shown[j].items)
  PROVE  LET new == DisplayedActivated(shown, k)
         IN  /\ new \in Seq(BoxType)
             /\ \A j \in DOMAIN new : new[j].index \in 0..Len(new[j].items)
<1> DEFINE new == DisplayedActivated(shown, k)
           grow == Append(shown, NewDisplayed(shown[k]))
           front == UpTo(shown, shown[k].level)
<1>1. /\ shown[k].index = 0 => new = front
      /\ shown[k].index # 0 /\ shown[k].previous = 0 => new = grow
      /\ shown[k].index # 0 /\ shown[k].previous # 0 => new = shown
      /\ Len(shown) \in Nat /\ k \in 1..Len(shown) /\ shown[k] \in BoxType
      /\ grow \in Seq(BoxType) /\ Len(grow) = Len(shown) + 1
      /\ \A j \in 1..Len(shown) : grow[j] = shown[j]
      /\ grow[Len(shown) + 1] = NewDisplayed(shown[k])
  BY ActivatedCases
<1>2. NewDisplayed(shown[k]).index = 0 /\ NewDisplayed(shown[k]).items = shown[k].items
  BY <1>1, NewDisplayedFacts
<1>3. Len(shown[k].items) \in Nat
  BY <1>1, BoxFields, LenProperties
<1>4. PartOf(front, shown, Len(shown))
  BY UpToFacts DEF KeptRight
<1> HIDE DEF new, grow, front
<1>5. /\ front \in Seq(BoxType)
      /\ \A j \in DOMAIN front : front[j].index \in 0..Len(front[j].items)
  <2>1. front \in Seq(BoxType) /\ DOMAIN front = 1..Len(front)
    BY <1>4, LenProperties DEF PartOf
  <2>2. PICK place \in [1..Len(front) -> 1..Len(shown)] :
          \A i \in 1..Len(front) : front[i] = shown[place[i]]
    BY <1>4 DEF PartOf
  <2>3. DOMAIN shown = 1..Len(shown)
    BY LenProperties
  <2> QED
    BY <2>1, <2>2, <2>3
<1>6. \A j \in DOMAIN grow : grow[j].index \in 0..Len(grow[j].items)
  <2>1. DOMAIN grow = 1..(Len(shown) + 1) /\ DOMAIN shown = 1..Len(shown)
    BY <1>1, LenProperties
  <2>2. \A j \in DOMAIN grow : j \in DOMAIN shown \/ j = Len(shown) + 1
    BY <1>1, <2>1
  <2> QED
    BY <1>1, <1>2, <1>3, <2>1, <2>2
<1> QED
  BY <1>1, <1>5, <1>6 DEF new

(***************************************************************************)
(* The chain: only its last box has no choice, and a change of one that    *)
(* adds or takes its choice makes that box, or the one appended, the last. *)
(***************************************************************************)
LEMMA ActivatedChain ==
  ASSUME NEW shown \in Seq(BoxType), NEW k \in DOMAIN shown,
         \A j \in DOMAIN shown : shown[j].level = j - 1,
         \A j \in DOMAIN shown : j # k => (shown[j].index # 0 <=> j < Len(shown)),
         shown[k].previous # 0 <=> k < Len(shown)
  PROVE  Chain(DisplayedActivated(shown, k))
<1> DEFINE new == DisplayedActivated(shown, k)
           grow == Append(shown, NewDisplayed(shown[k]))
           front == UpTo(shown, shown[k].level)
<1>1. /\ shown[k].index = 0 => new = front
      /\ shown[k].index # 0 /\ shown[k].previous = 0 => new = grow
      /\ shown[k].index # 0 /\ shown[k].previous # 0 => new = shown
      /\ Len(shown) \in Nat /\ k \in 1..Len(shown) /\ shown[k] \in BoxType
      /\ grow \in Seq(BoxType) /\ Len(grow) = Len(shown) + 1
      /\ \A j \in 1..Len(shown) : grow[j] = shown[j]
      /\ grow[Len(shown) + 1] = NewDisplayed(shown[k])
  BY ActivatedCases
<1>2. DOMAIN shown = 1..Len(shown) /\ k \in Nat
  BY <1>1, LenProperties
<1>3. /\ KeptRight(front, shown, shown[k].level, Len(shown))
      /\ front \in Seq(BoxType)
  <2>1. KeptRight(front, shown, shown[k].level, Len(shown))
    BY UpToFacts
  <2> HIDE DEF front
  <2> QED
    BY <2>1 DEF KeptRight, PartOf
<1>4. /\ NewDisplayed(shown[k]).index = 0
      /\ NewDisplayed(shown[k]).level = shown[k].level + 1
  BY <1>1, NewDisplayedFacts
<1> HIDE DEF new, grow, front
<1>5. CASE shown[k].index = 0
  <2>1. Separates(shown, shown[k].level, k, Len(shown))
    <3>1. shown[k].level = k - 1
      OBVIOUS
    <3>2. \A j \in 1..Len(shown) : shown[j].level <= k - 1 <=> j <= k
      BY <1>1, <1>2
    <3>3. \A j \in 1..k : j \in 1..Len(shown)
      BY <1>1, <1>2
    <3>4. \A j \in (k + 1)..Len(shown) : j \in 1..Len(shown)
      BY <1>1, <1>2
    <3> QED
      BY <1>1, <1>2, <3>1, <3>2, <3>3, <3>4 DEF Separates
  <2>2. IsFront(front, shown, k)
    <3>1. k \in 0..Len(shown)
      BY <1>1
    <3> QED
      BY <1>3, <2>1, <3>1 DEF KeptRight
  <2>3. Len(front) = k /\ DOMAIN front = 1..k /\ \A j \in 1..k : front[j] = shown[j]
    BY <1>3, <2>2, LenProperties DEF IsFront
  <2>4. \A j \in 1..k : j \in 1..Len(shown) /\ (j # k => j < Len(shown) /\ j < k)
    BY <1>1, <1>2
  <2> QED
    BY <1>1, <1>2, <1>5, <2>3, <2>4 DEF Chain, new
<1>6. CASE shown[k].index # 0 /\ shown[k].previous = 0
  <2>1. k = Len(shown)
    BY <1>1, <1>6
  <2>2. DOMAIN grow = 1..(Len(shown) + 1)
    BY <1>1, LenProperties
  <2>3. grow[Len(shown) + 1].level = Len(shown) /\ grow[Len(shown) + 1].index = 0
    BY <1>1, <1>2, <1>4, <2>1
  <2>4. \A j \in 1..Len(shown) :
          grow[j].level = j - 1 /\ grow[j].index # 0 /\ j < Len(shown) + 1
    BY <1>1, <1>2, <1>6, <2>1
  <2>5. \A j \in 1..(Len(shown) + 1) : j \in 1..Len(shown) \/ j = Len(shown) + 1
    BY <1>1
  <2> QED
    BY <1>1, <1>6, <2>2, <2>3, <2>4, <2>5 DEF Chain, new
<1>7. CASE shown[k].index # 0 /\ shown[k].previous # 0
  BY <1>1, <1>2, <1>7 DEF Chain, new
<1> QED
  BY <1>5, <1>6, <1>7

(***************************************************************************)
(* The boxes of all roles, once those for displayed values are others.     *)
(***************************************************************************)
WithShown(boxes, shown) == [boxes EXCEPT !["displayed"] = shown]

LEMMA WithShownFacts ==
  ASSUME NEW boxes, Shape(boxes), NEW shown \in Seq(BoxType),
         \A j \in DOMAIN shown : shown[j].index \in 0..Len(shown[j].items)
  PROVE  LET new == WithShown(boxes, shown)
         IN  /\ Shape(new) /\ new["displayed"] = shown
             /\ \A role \in Axes : new[role] = boxes[role]
             /\ \A role \in Roles : role \in Axes \/ role = "displayed"
<1> DEFINE new == WithShown(boxes, shown)
<1>1. boxes \in [Roles -> Seq(BoxType)]
  BY DEF Shape
<1>2. /\ \A role \in Roles : role \in Axes \/ role = "displayed"
      /\ "displayed" \in Roles /\ "displayed" \notin Axes
  BY DEF Roles, Axes
<1>3. new \in [Roles -> Seq(BoxType)] /\ new["displayed"] = shown
  BY <1>1, <1>2 DEF WithShown
<1>4. \A role \in Axes : role \in Roles /\ new[role] = boxes[role]
  BY <1>1, <1>2 DEF WithShown, Roles
<1> HIDE DEF new
<1>5. \A role \in Axes : Len(new[role]) = Levels
  BY <1>4 DEF Shape
<1>6. \A role \in Roles : \A k \in DOMAIN new[role] :
        new[role][k].index \in 0..Len(new[role][k].items)
  BY <1>2, <1>3, <1>4 DEF Shape
<1>7. Shape(new)
  BY <1>3, <1>5, <1>6 DEF Shape
<1> QED
  BY <1>2, <1>3, <1>4, <1>7 DEF new

LEMMA PartYields ==
  ASSUME NEW boxes, Shape(boxes), SameItems(boxes), AllYield(boxes),
         NEW some, PartOf(some, boxes["displayed"], Len(boxes["displayed"])),
         \A j \in DOMAIN some : some[j].index \in 0..Len(some[j].items)
  PROVE  LET new == WithShown(boxes, some)
         IN  SameItems(new) /\ AllYield(new)
<1> DEFINE new == WithShown(boxes, some)
           N == Len(boxes["displayed"])
<1>1. some \in Seq(BoxType) /\ DOMAIN some = 1..Len(some)
  BY LenProperties DEF PartOf
<1>2. /\ new["displayed"] = some
      /\ \A role \in Axes : new[role] = boxes[role]
      /\ \A role \in Roles : role \in Axes \/ role = "displayed"
  BY <1>1, WithShownFacts
<1>3. DOMAIN boxes["displayed"] = 1..N
  BY ShapeFacts DEF Roles
<1>4. PICK place \in [1..Len(some) -> 1..N] :
        /\ \A i, j \in 1..Len(some) : place[i] = place[j] => i = j
        /\ \A i \in 1..Len(some) : some[i] = boxes["displayed"][place[i]]
  BY DEF PartOf
<1> DEFINE at(role, j) == IF role = "displayed" THEN place[j] ELSE j
<1> HIDE DEF new
<1>5. ASSUME NEW role \in Roles, NEW j \in DOMAIN new[role]
      PROVE  at(role, j) \in DOMAIN boxes[role] /\ new[role][j] = boxes[role][at(role, j)]
  <2>1. CASE role = "displayed"
    BY <1>1, <1>2, <1>3, <1>4, <2>1
  <2>2. CASE role # "displayed"
    BY <1>2, <2>2
  <2> QED
    BY <2>1, <2>2
<1>6. ASSUME NEW r \in Roles, NEW s \in Roles, NEW i \in DOMAIN new[r],
             NEW j \in DOMAIN new[s], <<r, i>> # <<s, j>>
      PROVE  <<r, at(r, i)>> # <<s, at(s, j)>>
  <2>1. CASE r # s
    BY <2>1
  <2>2. CASE r = s /\ r = "displayed"
    BY <1>1, <1>2, <1>4, <1>6, <2>2
  <2>3. CASE r = s /\ r # "displayed"
    BY <1>6, <2>3
  <2> QED
    BY <2>1, <2>2, <2>3
<1> HIDE DEF at
<1>7. SameItems(new)
  BY <1>5 DEF SameItems
<1>8. ASSUME NEW r \in Roles, NEW s \in Roles, NEW i \in DOMAIN new[r],
             NEW j \in DOMAIN new[s], <<r, i>> # <<s, j>>
      PROVE  Yields(new[r][i], new[s][j])
  <2>1. Yields(boxes[r][at(r, i)], boxes[s][at(s, j)])
    BY <1>5, <1>6, <1>8 DEF AllYield
  <2> QED
    BY <1>5, <2>1
<1>9. AllYield(new)
  BY <1>8 DEF AllYield
<1> QED
  BY <1>7, <1>9 DEF new

(***************************************************************************)
(* A new box below the k-th takes over what that one knows, and greys what *)
(* that one has chosen.                                                    *)
(***************************************************************************)
Grown(boxes, k) ==
  WithShown(boxes, Append(boxes["displayed"], NewDisplayed(boxes["displayed"][k])))

HasGrown(new, boxes, k) ==
  LET last == Len(boxes["displayed"]) + 1
      source == boxes["displayed"][k]
  IN  /\ Shape(new)
      /\ source \in BoxType /\ source.index \in 0..Len(source.items)
      /\ new["displayed"][last] = NewDisplayed(source)
      /\ <<"displayed", last>> \in Roles \X DOMAIN new["displayed"]
      /\ last \notin DOMAIN boxes["displayed"]
      /\ \A r \in Roles : \A j \in DOMAIN boxes[r] :
           /\ j \in DOMAIN new[r] /\ new[r][j] = boxes[r][j]
           /\ <<r, j>> # <<"displayed", last>>
      /\ \A r \in Roles : \A j \in DOMAIN new[r] :
           j \in DOMAIN boxes[r] \/ <<r, j>> = <<"displayed", last>>

LEMMA GrownFacts ==
  ASSUME NEW boxes, Shape(boxes), NEW k \in DOMAIN boxes["displayed"]
  PROVE  HasGrown(Grown(boxes, k), boxes, k)
<1> DEFINE new == Grown(boxes, k)
           shown == boxes["displayed"]
           last == Len(shown) + 1
           grow == Append(shown, NewDisplayed(shown[k]))
<1>1. /\ "displayed" \in Roles /\ shown \in Seq(BoxType) /\ Len(shown) \in Nat
      /\ DOMAIN shown = 1..Len(shown)
      /\ shown[k] \in BoxType /\ shown[k].index \in 0..Len(shown[k].items)
      /\ \A j \in DOMAIN shown : shown[j].index \in 0..Len(shown[j].items)
  BY ShapeFacts DEF Roles
<1>2. /\ NewDisplayed(shown[k]) \in BoxType /\ NewDisplayed(shown[k]).index = 0
      /\ NewDisplayed(shown[k]).items = shown[k].items
  BY <1>1, NewDisplayedFacts
<1>3. /\ grow \in Seq(BoxType) /\ Len(grow) = last
      /\ \A j \in 1..Len(shown) : grow[j] = shown[j]
      /\ grow[last] = NewDisplayed(shown[k])
  BY <1>1, <1>2, AppendProperties
<1>4. DOMAIN grow = 1..last
  BY <1>3, LenProperties
<1> HIDE DEF grow
<1>5. \A j \in DOMAIN grow : grow[j].index \in 0..Len(grow[j].items)
  <2>1. Len(shown[k].items) \in Nat
    BY <1>1, BoxFields, LenProperties
  <2>2. grow[last].index \in 0..Len(grow[last].items)
    BY <1>2, <1>3, <2>1
  <2>3. \A j \in DOMAIN grow : j \in DOMAIN shown \/ j = last
    <3>1. Len(shown) \in Nat /\ DOMAIN shown = 1..Len(shown)
      BY <1>1
    <3> HIDE DEF shown
    <3> QED
      BY <1>4, <3>1
  <2> QED
    BY <1>1, <1>3, <2>2, <2>3
<1>6. new = WithShown(boxes, grow)
  BY DEF Grown, grow
<1>7. /\ Shape(new) /\ new["displayed"] = grow
      /\ \A role \in Axes : new[role] = boxes[role]
      /\ \A role \in Roles : role \in Axes \/ role = "displayed"
  BY <1>3, <1>5, <1>6, WithShownFacts
<1> HIDE DEF new
<1>8. last \notin DOMAIN shown /\ last \in DOMAIN grow
  BY <1>1, <1>4
<1>9. ASSUME NEW r \in Roles, NEW j \in DOMAIN boxes[r]
      PROVE  /\ j \in DOMAIN new[r] /\ new[r][j] = boxes[r][j]
             /\ <<r, j>> # <<"displayed", last>>
  <2>1. CASE r \in Axes
    <3>1. r # "displayed"
      BY <2>1 DEF Axes
    <3> QED
      BY <1>7, <2>1, <3>1
  <2>2. CASE r = "displayed"
    <3>1. j \in 1..Len(shown) /\ j # last
      BY <1>1, <1>8, <2>2
    <3>2. j \in DOMAIN grow /\ grow[j] = shown[j]
      BY <1>1, <1>3, <1>4, <3>1
    <3> QED
      BY <1>7, <2>2, <3>1, <3>2
  <2> QED
    BY <1>7, <2>1, <2>2
<1>10. ASSUME NEW r \in Roles, NEW j \in DOMAIN new[r]
       PROVE  j \in DOMAIN boxes[r] \/ <<r, j>> = <<"displayed", last>>
  BY <1>1, <1>4, <1>7
<1> QED
  <2> HIDE DEF shown, last
  <2>1. /\ Shape(new) /\ new["displayed"][last] = NewDisplayed(shown[k])
        /\ shown[k] \in BoxType /\ shown[k].index \in 0..Len(shown[k].items)
        /\ <<"displayed", last>> \in Roles \X DOMAIN new["displayed"]
    BY <1>1, <1>3, <1>7, <1>8
  <2>2. \A r \in Roles : \A j \in DOMAIN new[r] :
          j \in DOMAIN boxes[r] \/ <<r, j>> = <<"displayed", last>>
    BY <1>10
  <2> QED
    BY <1>8, <1>9, <2>1, <2>2, Zenon DEF HasGrown, new, last, shown

LEMMA GrownYields ==
  ASSUME NEW boxes, Shape(boxes), SameItems(boxes), AllYield(boxes),
         NEW k \in DOMAIN boxes["displayed"]
  PROVE  SameItems(Grown(boxes, k)) /\ AllYield(Grown(boxes, k))
<1> DEFINE new == Grown(boxes, k)
           last == Len(boxes["displayed"]) + 1
           source == boxes["displayed"][k]
           added == NewDisplayed(source)
<1>1. /\ source \in BoxType /\ new["displayed"][last] = added
      /\ \A r \in Roles : \A j \in DOMAIN boxes[r] :
           /\ j \in DOMAIN new[r] /\ new[r][j] = boxes[r][j]
           /\ <<r, j>> # <<"displayed", last>>
      /\ \A r \in Roles : \A j \in DOMAIN new[r] :
           j \in DOMAIN boxes[r] \/ <<r, j>> = <<"displayed", last>>
  <2>1. HasGrown(new, boxes, k)
    BY GrownFacts
  <2> HIDE DEF new, added
  <2> QED
    BY <2>1 DEF HasGrown, added
<1>0. "displayed" \in Roles
  BY DEF Roles
<1> HIDE DEF new
<1>2. /\ added.items = source.items /\ added.index = 0
      /\ DOMAIN added.disabledRows = DOMAIN source.disabledRows \cup {source.index}
      /\ added.greyed = ItemsAt(source.items, DOMAIN source.disabledRows)
                          \cup Choice(source)
      /\ source.items \in Seq(Columns)
  BY <1>1, NewDisplayedFacts, BoxFields DEF Choice
<1> HIDE DEF added
<1>3. \A r \in Roles : \A j \in DOMAIN new[r] : new[r][j].items = source.items
  BY <1>0, <1>1, <1>2 DEF SameItems
<1>4. Choice(added) = {}
  BY <1>2, ItemFacts DEF Choice
<1>5. ASSUME NEW r \in Roles, NEW j \in DOMAIN boxes[r]
      PROVE  Yields(boxes[r][j], added) /\ Yields(added, boxes[r][j])
  <2> DEFINE a == boxes[r][j]
  <2>1. a.items = source.items /\ a.index \in 0..Len(a.items) /\ a \in BoxType
    BY <1>0, <1>1, ShapeFacts DEF SameItems
  <2>2. a.index # 0 => a.index \in DOMAIN source.disabledRows \/ a = source
    <3>1. CASE <<r, j>> = <<"displayed", k>>
      BY <3>1
    <3>2. CASE <<r, j>> # <<"displayed", k>>
      BY <1>0, <1>1, <3>2 DEF AllYield, Yields
    <3> QED
      BY <3>1, <3>2
  <2>3. Choice(a) # {} => a.index # 0
    BY <2>1, ChoiceFacts
  <2> HIDE DEF a
  <2>4. Choice(a) \subseteq added.greyed
    <3>1. CASE a = source
      BY <1>2, <3>1
    <3>2. CASE a.index \in DOMAIN source.disabledRows
      <4>1. Choice(a) \subseteq ItemsAt(source.items, DOMAIN source.disabledRows)
        BY <1>2, <2>1, <3>2, ItemFacts DEF Choice
      <4> QED
        BY <1>2, <4>1
    <3> QED
      BY <2>2, <2>3, <3>1, <3>2
  <2> QED
    BY <1>2, <1>4, <2>2, <2>4 DEF Yields, a
<1>6. ASSUME NEW r \in Roles, NEW s \in Roles, NEW i \in DOMAIN new[r],
             NEW j \in DOMAIN new[s], <<r, i>> # <<s, j>>
      PROVE  Yields(new[r][i], new[s][j])
  <2>1. CASE i \in DOMAIN boxes[r] /\ j \in DOMAIN boxes[s]
    BY <1>1, <1>6, <2>1 DEF AllYield
  <2>2. CASE <<r, i>> = <<"displayed", last>>
    BY <1>0, <1>1, <1>5, <1>6, <2>2
  <2>3. CASE <<s, j>> = <<"displayed", last>>
    BY <1>0, <1>1, <1>5, <1>6, <2>3
  <2> QED
    BY <1>1, <2>1, <2>2, <2>3
<1>7. SameItems(new)
  BY <1>3 DEF SameItems
<1>8. AllYield(new)
  BY <1>6 DEF AllYield
<1> QED
  BY <1>7, <1>8 DEF new

LEMMA GrownNothingStale ==
  ASSUME NEW boxes, Shape(boxes), SameItems(boxes), AllYield(boxes),
         NothingStale(boxes), NEW k \in DOMAIN boxes["displayed"],
         boxes["displayed"][k].index # 0
  PROVE  NothingStale(Grown(boxes, k))
<1> DEFINE new == Grown(boxes, k)
           last == Len(boxes["displayed"]) + 1
           source == boxes["displayed"][k]
           added == NewDisplayed(source)
           bag == source.disabledRows
<1>1. /\ source \in BoxType /\ new["displayed"][last] = added
      /\ source.index \in 0..Len(source.items)
      /\ \A r \in Roles : \A j \in DOMAIN boxes[r] :
           /\ j \in DOMAIN new[r] /\ new[r][j] = boxes[r][j]
           /\ <<r, j>> # <<"displayed", last>>
      /\ \A r \in Roles : \A j \in DOMAIN new[r] :
           j \in DOMAIN boxes[r] \/ <<r, j>> = <<"displayed", last>>
  <2>1. HasGrown(new, boxes, k)
    BY GrownFacts
  <2> HIDE DEF new, added
  <2> QED
    BY <2>1 DEF HasGrown, added
<1>0. "displayed" \in Roles
  BY DEF Roles
<1> HIDE DEF new
<1>2. /\ added.items = source.items /\ added.index = 0
      /\ DOMAIN added.disabledRows = DOMAIN bag \cup {source.index}
      /\ source.index \notin DOMAIN bag =>
           /\ added.disabledRows[source.index] = 1
           /\ \A r \in DOMAIN bag : added.disabledRows[r] = bag[r]
      /\ added.greyed = ItemsAt(source.items, DOMAIN bag) \cup Choice(source)
  BY <1>0, <1>1, NewDisplayedFacts DEF Choice
<1> HIDE DEF added
<1>3. \A row \in DOMAIN bag :
        /\ bag[row] = 1 /\ row # 0
        /\ \E r \in Roles : \E j \in DOMAIN boxes[r] :
             <<r, j>> # <<"displayed", k>> /\ boxes[r][j].index = row
  BY <1>0, <1>1 DEF NothingStale, RowIsChosen
<1> HIDE DEF bag
<1>4. source.index \notin DOMAIN bag
  <2> SUFFICES ASSUME source.index \in DOMAIN bag PROVE FALSE
    OBVIOUS
  <2>1. PICK r \in Roles : \E j \in DOMAIN boxes[r] :
          <<r, j>> # <<"displayed", k>> /\ boxes[r][j].index = source.index
    BY <1>3
  <2>2. PICK j \in DOMAIN boxes[r] :
          <<r, j>> # <<"displayed", k>> /\ boxes[r][j].index = source.index
    BY <2>1
  <2>3. Choice(boxes[r][j]) = Choice(source)
    BY <1>0, <1>1, <2>2 DEF SameItems, Choice
  <2>4. Choice(source) # {}
    BY <1>0, <1>1, ChoiceFacts
  <2>5. Choice(boxes[r][j]) \cap Choice(source) = {}
    BY <1>0, <1>1, <2>2 DEF AllYield, Yields
  <2> QED
    BY <2>3, <2>4, <2>5
<1>5. ASSUME NEW row \in DOMAIN added.disabledRows
      PROVE  RowIsChosen(new, "displayed", last, row)
  <2>1. CASE row = source.index
    <3>1. added.disabledRows[row] = 1
      BY <1>2, <1>4, <2>1
    <3> QED
      BY <1>0, <1>1, <2>1, <3>1 DEF RowIsChosen
  <2>2. CASE row # source.index
    <3>1. row \in DOMAIN bag /\ added.disabledRows[row] = 1 /\ row # 0
      BY <1>2, <1>3, <1>4, <2>2
    <3> QED
      BY <1>0, <1>1, <1>3, <3>1 DEF RowIsChosen
  <2> QED
    BY <2>1, <2>2
<1>6. ASSUME NEW item \in added.greyed
      PROVE  ItemIsChosen(new, "displayed", last, item)
  <2>1. CASE item \in Choice(source)
    BY <1>0, <1>1, <2>1 DEF ItemIsChosen
  <2>2. CASE item \notin Choice(source)
    <3>1. PICK row \in DOMAIN bag : item \in ItemAt(source.items, row)
      BY <1>2, <2>2 DEF ItemsAt
    <3>2. PICK r \in Roles : \E j \in DOMAIN boxes[r] : boxes[r][j].index = row
      BY <1>3
    <3>3. PICK j \in DOMAIN boxes[r] : boxes[r][j].index = row
      BY <3>2
    <3>4. item \in Choice(boxes[r][j])
      BY <1>0, <1>1, <3>1, <3>3 DEF SameItems, Choice
    <3> QED
      BY <1>0, <1>1, <3>4 DEF ItemIsChosen
  <2> QED
    BY <2>1, <2>2
<1>7. ASSUME NEW s \in Roles, NEW j \in DOMAIN boxes[s]
      PROVE  /\ \A row \in DOMAIN boxes[s][j].disabledRows : RowIsChosen(new, s, j, row)
             /\ \A item \in boxes[s][j].greyed : ItemIsChosen(new, s, j, item)
  BY <1>0, <1>1 DEF NothingStale, RowIsChosen, ItemIsChosen
<1>8. ASSUME NEW s \in Roles, NEW j \in DOMAIN new[s]
      PROVE  /\ \A row \in DOMAIN new[s][j].disabledRows : RowIsChosen(new, s, j, row)
             /\ \A item \in new[s][j].greyed : ItemIsChosen(new, s, j, item)
  BY <1>0, <1>1, <1>5, <1>6, <1>7
<1> QED
  BY <1>8 DEF NothingStale, new

-----------------------------------------------------------------------------
(***************************************************************************)
(* The handlers of activated: what they make of the boxes after a change   *)
(* of the k-th of a role.                                                  *)
(***************************************************************************)
LEMMA ActivateFacts ==
  ASSUME Shape(combos), AxisLevels(combos),
         NEW sr \in Roles, NEW k \in DOMAIN combos[sr],
         NEW source, Turned(source, combos[sr][k]), Activate(sr, k, source)
  PROVE  LET spread == Spread(combos, sr, k, source)
         IN  /\ Shape(combos') /\ AxisLevels(combos')
             /\ Len(combos'["displayed"]) <= MaxDisplayed
             /\ \A role \in Axes : combos'[role] = spread[role]
             /\ sr # "displayed" => combos' = spread
             /\ sr = "displayed" =>
                  combos' = WithShown(spread, DisplayedActivated(spread["displayed"], k))
<1> DEFINE spread == Spread(combos, sr, k, source)
           new == DisplayedActivated(spread["displayed"], k)
<1>1. /\ Shape(spread) /\ AxisLevels(spread)
      /\ k \in DOMAIN spread[sr]
  BY SpreadFacts, SpreadKeepsLevels DEF HasSpread
<1>2. /\ sr # "displayed" => combos' = spread
      /\ sr = "displayed" => combos' = WithShown(spread, new)
      /\ Len(combos'["displayed"]) <= MaxDisplayed
  BY DEF Activate, Spread, WithShown
<1> HIDE DEF spread
<1>3. CASE sr # "displayed"
  BY <1>1, <1>2, <1>3 DEF spread
<1>4. CASE sr = "displayed"
  <2>1. /\ spread["displayed"] \in Seq(BoxType) /\ k \in DOMAIN spread["displayed"]
        /\ \A j \in DOMAIN spread["displayed"] :
             spread["displayed"][j].index \in 0..Len(spread["displayed"][j].items)
    BY <1>1, <1>4, ShapeFacts
  <2>2. /\ new \in Seq(BoxType)
        /\ \A j \in DOMAIN new : new[j].index \in 0..Len(new[j].items)
    BY <2>1, ActivatedTypes
  <2> HIDE DEF new
  <2>3. /\ Shape(combos')
        /\ \A role \in Axes : combos'[role] = spread[role]
    BY <1>1, <1>2, <1>4, <2>2, WithShownFacts
  <2>4. AxisLevels(combos')
    BY <1>1, <2>3 DEF AxisLevels
  <2> QED
    BY <1>2, <1>4, <2>3, <2>4 DEF spread, new
<1> QED
  BY <1>3, <1>4

LEMMA PickKeepsChain ==
  ASSUME Shape(combos), AxisLevels(combos), Chain(combos["displayed"]),
         NEW sr \in Roles, NEW k \in DOMAIN combos[sr],
         NEW source, Picks(source, combos[sr][k]), Activate(sr, k, source)
  PROVE  Chain(combos'["displayed"])
<1> DEFINE spread == Spread(combos, sr, k, source)
           shown == spread["displayed"]
           was == combos["displayed"]
<1>1. Turned(source, combos[sr][k]) /\ source.previous = combos[sr][k].index
  BY DEF Picks
<1>2. /\ Shape(spread) /\ spread[sr][k] = source
      /\ \A role \in Roles : /\ DOMAIN spread[role] = DOMAIN combos[role]
                             /\ Len(spread[role]) = Len(combos[role])
      /\ \A role \in Roles : \A j \in DOMAIN combos[role] :
           /\ spread[role][j].level = combos[role][j].level
           /\ <<role, j>> # <<sr, k>> => Same(spread[role][j], combos[role][j])
  BY <1>1, SpreadFacts DEF HasSpread
<1>3. /\ sr # "displayed" => combos' = spread
      /\ sr = "displayed" => combos' = WithShown(spread, DisplayedActivated(shown, k))
  BY <1>1, ActivateFacts
<1>4. "displayed" \in Roles
  BY DEF Roles
<1> HIDE DEF spread
<1>5. /\ shown \in Seq(BoxType)
      /\ DOMAIN shown = DOMAIN was /\ Len(shown) = Len(was)
      /\ \A j \in DOMAIN shown : shown[j].index \in 0..Len(shown[j].items)
      /\ \A j \in DOMAIN shown : shown[j].level = j - 1
  BY <1>2, <1>4, ShapeFacts DEF Chain
<1>6. CASE sr # "displayed"
  <2>1. \A j \in DOMAIN shown : shown[j].index # 0 <=> j < Len(shown)
    BY <1>2, <1>4, <1>5, <1>6 DEF Chain, Same
  <2> QED
    BY <1>3, <1>5, <1>6, <2>1 DEF Chain
<1>7. CASE sr = "displayed"
  <2> DEFINE new == DisplayedActivated(shown, k)
  <2>1. \A j \in DOMAIN shown : j # k => (shown[j].index # 0 <=> j < Len(shown))
    BY <1>2, <1>4, <1>5, <1>7 DEF Chain, Same
  <2>2. k \in DOMAIN shown /\ (shown[k].previous # 0 <=> k < Len(shown))
    BY <1>1, <1>2, <1>4, <1>5, <1>7 DEF Chain
  <2>3. /\ new \in Seq(BoxType)
        /\ \A j \in DOMAIN new : new[j].index \in 0..Len(new[j].items)
    BY <1>5, <2>2, ActivatedTypes
  <2>4. Chain(new)
    BY <1>5, <2>1, <2>2, ActivatedChain
  <2> HIDE DEF new
  <2>5. combos'["displayed"] = new
    BY <1>2, <1>3, <1>7, <2>3, WithShownFacts DEF new
  <2> QED
    BY <2>4, <2>5
<1> QED
  BY <1>6, <1>7

LEMMA PickKeepsExclusion ==
  ASSUME Shape(combos), AxisLevels(combos), SameItems(combos), AllYield(combos),
         NEW sr \in Roles, NEW k \in DOMAIN combos[sr],
         NEW source, Picks(source, combos[sr][k]), Activate(sr, k, source)
  PROVE  /\ SameItems(combos') /\ AllYield(combos')
         /\ NothingStale(combos) /\ ~(Len(combos'["displayed"]) < Len(combos["displayed"]))
              => NothingStale(combos')
<1> DEFINE spread == Spread(combos, sr, k, source)
           shown == spread["displayed"]
           front == UpTo(shown, shown[k].level)
<1>1. Turned(source, combos[sr][k])
  BY DEF Picks
<1>2. /\ Shape(spread) /\ SameItems(spread) /\ AllYield(spread)
      /\ NothingStale(combos) => NothingStale(spread)
      /\ DOMAIN spread[sr] = DOMAIN combos[sr]
      /\ Len(shown) = Len(combos["displayed"])
  <2>1. "displayed" \in Roles
    BY DEF Roles
  <2>2. /\ Shape(spread) /\ DOMAIN spread[sr] = DOMAIN combos[sr]
        /\ Len(shown) = Len(combos["displayed"])
    BY <1>1, <2>1, SpreadFacts DEF HasSpread
  <2>3. SameItems(spread) /\ AllYield(spread)
    BY PickKeepsYield
  <2>4. NothingStale(combos) => NothingStale(spread)
    BY PickLeavesNothingStale
  <2> QED
    BY <2>2, <2>3, <2>4
<1>3. /\ sr # "displayed" => combos' = spread
      /\ sr = "displayed" => combos' = WithShown(spread, DisplayedActivated(shown, k))
  BY <1>1, ActivateFacts
<1> HIDE DEF spread
<1>4. CASE sr # "displayed"
  BY <1>2, <1>3, <1>4
<1>5. CASE sr = "displayed"
  <2>1. /\ shown \in Seq(BoxType) /\ k \in DOMAIN shown
        /\ \A j \in DOMAIN shown : shown[j].index \in 0..Len(shown[j].items)
    BY <1>2, <1>5, ShapeFacts
  <2>2. /\ shown[k].index = 0 => combos' = WithShown(spread, front)
        /\ shown[k].index # 0 /\ shown[k].previous = 0 => combos' = Grown(spread, k)
        /\ shown[k].index # 0 /\ shown[k].previous # 0 => combos' = WithShown(spread, shown)
    BY <1>3, <1>5, <2>1, ActivatedCases DEF Grown
  <2>3. WithShown(spread, shown) = spread
    BY <1>2 DEF WithShown, Shape
  <2>4. CASE shown[k].index = 0
    <3>1. KeptRight(front, shown, shown[k].level, Len(shown))
      BY <2>1, UpToFacts
    <3>2. DisplayedActivated(shown, k) = front
      BY <2>4 DEF DisplayedActivated
    <3>3. /\ front \in Seq(BoxType)
          /\ \A j \in DOMAIN front : front[j].index \in 0..Len(front[j].items)
      BY <2>1, <3>2, ActivatedTypes
    <3> HIDE DEF front
    <3>4. SameItems(combos') /\ AllYield(combos')
      BY <1>2, <2>2, <2>4, <3>1, <3>3, PartYields DEF KeptRight
    <3>5. ASSUME NothingStale(combos), ~(Len(combos'["displayed"]) < Len(combos["displayed"]))
          PROVE  NothingStale(combos')
      <4>1. combos'["displayed"] = front
        BY <1>2, <2>2, <2>4, <3>3, WithShownFacts
      <4>2. Len(front) \in Nat /\ Len(shown) \in Nat
        BY <2>1, <3>3, LenProperties
      <4>3. ~(Len(front) < Len(shown))
        BY <1>2, <3>5, <4>1
      <4>4. \A i \in 1..Len(shown) : shown[i].level <= shown[k].level
        BY <3>1, <4>3 DEF KeptRight
      <4>5. Separates(shown, shown[k].level, Len(shown), Len(shown))
        BY <4>2, <4>4 DEF Separates
      <4>6. IsFront(front, shown, Len(shown))
        <5>1. Len(shown) \in 0..Len(shown)
          BY <4>2
        <5> QED
          BY <3>1, <4>5, <5>1 DEF KeptRight
      <4>7. front = shown
        <5>1. /\ front = [i \in 1..Len(front) |-> front[i]]
              /\ shown = [i \in 1..Len(shown) |-> shown[i]]
          BY <2>1, <3>3, SeqDef, LenProperties
        <5> QED
          BY <4>6, <5>1 DEF IsFront
      <4> QED
        BY <1>2, <2>2, <2>3, <2>4, <3>5, <4>7
    <3> QED
      BY <3>4, <3>5
  <2>5. CASE shown[k].index # 0 /\ shown[k].previous = 0
    BY <1>2, <2>1, <2>2, <2>5, GrownYields, GrownNothingStale
  <2>6. CASE shown[k].index # 0 /\ shown[k].previous # 0
    BY <1>2, <2>2, <2>3, <2>6
  <2> QED
    BY <2>4, <2>5, <2>6
<1> QED
  BY <1>4, <1>5

LEMMA Clicked ==
  ASSUME clicks \in 0..MaxClicks, Click
  PROVE  clicks' \in 0..MaxClicks
  BY BoundsAssumption DEF Click

LEMMA ChooseStep ==
  ASSUME Inv, NEW role \in Roles, NEW k \in DOMAIN combos[role],
         NEW index \in 0..Len(combos[role][k].items), Choose(role, k, index)
  PROVE  Inv'
<1> DEFINE combo == combos[role][k]
           source == [combo EXCEPT !.previous = combo.index, !.index = index]
<1>1. combo \in BoxType /\ combo.items \in Seq(Columns)
      /\ combo.index \in Nat /\ index \in Nat /\ Len(combo.items) \in Nat
  BY ShapeFacts, BoxFields, LenProperties DEF Inv
<1>2. /\ Selectable(combo, index) /\ Activate(role, k, source)
      /\ disturbed' = IF Len(combos'["displayed"]) < Len(combos["displayed"])
                      THEN disturbed \cup {"removed"} ELSE disturbed
      /\ Click /\ files' = files
  BY DEF Choose
<1> HIDE DEF combo
<1>3. Picks(source, combo)
  <2>1. /\ source \in BoxType /\ source.level = combo.level
        /\ source.items = combo.items /\ source.disabledRows = combo.disabledRows
        /\ source.greyed = combo.greyed /\ source.enabled = combo.enabled
        /\ source.index = index /\ source.previous = combo.index
    BY <1>1 DEF BoxType
  <2>2. ItemAt(combo.items, index) \cap combo.greyed = {}
        /\ index \in 0..Len(combo.items)
    BY <1>2 DEF Selectable
  <2> HIDE DEF source
  <2> QED
    BY <2>1, <2>2 DEF Picks, Turned, Choice
<1> HIDE DEF source
<1>4. Picks(source, combos[role][k]) /\ Turned(source, combos[role][k])
  BY <1>3 DEF combo, Picks
<1>5. Shape(combos) /\ AxisLevels(combos)
  BY DEF Inv
<1>6. /\ Shape(combos') /\ AxisLevels(combos')
      /\ Len(combos'["displayed"]) <= MaxDisplayed
      /\ \A axis \in Axes : combos'[axis] = Spread(combos, role, k, source)[axis]
  BY <1>2, <1>4, <1>5, ActivateFacts
<1>7. Len(combos'["displayed"]) <= Levels + MaxDisplayed
  <2>1. "displayed" \in Roles
    BY DEF Roles
  <2>2. Len(combos'["displayed"]) \in Nat
    BY <1>6, <2>1, ShapeFacts
  <2> QED
    BY <1>6, <2>2, LevelsAssumption, BoundsAssumption
<1>8. /\ disturbed' \subseteq Disturbances /\ disturbed \subseteq disturbed'
      /\ files' \subseteq Files /\ clicks' \in 0..MaxClicks
  BY <1>2, Clicked DEF Inv, Disturbances
<1>9. ASSUME "scrolled" \notin disturbed' PROVE EnabledBelow(combos')
  <2>1. EnabledBelow(combos)
    BY <1>8, <1>9 DEF Inv
  <2>2. EnabledBelow(Spread(combos, role, k, source))
    BY <1>4, <1>5, <2>1, PickKeepsHierarchy
  <2> QED
    BY <1>6, <2>2 DEF EnabledBelow
<1>10. ASSUME disturbed' \cap {"scrolled", "cleared"} = {}
       PROVE  Chain(combos'["displayed"])
  <2>1. Chain(combos["displayed"])
    BY <1>8, <1>10 DEF Inv
  <2> QED
    BY <1>2, <1>4, <1>5, <2>1, PickKeepsChain
<1>11. ASSUME disturbed' \cap {"moved", "scrolled"} = {}
       PROVE  SameItems(combos') /\ AllYield(combos')
  <2>1. SameItems(combos) /\ AllYield(combos)
    BY <1>8, <1>11 DEF Inv
  <2> QED
    BY <1>2, <1>4, <1>5, <2>1, PickKeepsExclusion
<1>12. ASSUME disturbed' = {} PROVE NothingStale(combos')
  <2>1. disturbed = {} /\ ~(Len(combos'["displayed"]) < Len(combos["displayed"]))
    BY <1>2, <1>12
  <2>2. SameItems(combos) /\ AllYield(combos) /\ NothingStale(combos)
    BY <2>1 DEF Inv
  <2> QED
    BY <1>2, <1>4, <1>5, <2>1, <2>2, PickKeepsExclusion
<1> QED
  BY <1>6, <1>7, <1>8, <1>9, <1>10, <1>11, <1>12 DEF Inv

LEMMA ScrollStep ==
  ASSUME Inv, NEW role \in Roles, NEW k \in DOMAIN combos[role],
         NEW index \in 0..Len(combos[role][k].items), Scroll(role, k, index)
  PROVE  Inv'
<1> DEFINE combo == combos[role][k]
           source == [combo EXCEPT !.index = index]
<1>1. combo \in BoxType /\ index \in Nat
  <2>1. combo \in BoxType
    BY ShapeFacts DEF Inv
  <2>2. Len(combo.items) \in Nat
    BY <2>1, BoxFields, LenProperties
  <2> QED
    BY <2>1, <2>2
<1>2. /\ Activate(role, k, source) /\ disturbed' = disturbed \cup {"scrolled"}
      /\ Click /\ files' = files
  BY DEF Scroll
<1>3. Turned(source, combo)
  <2> HIDE DEF combo
  <2>1. /\ source \in BoxType /\ source.level = combo.level
        /\ source.items = combo.items /\ source.disabledRows = combo.disabledRows
        /\ source.greyed = combo.greyed /\ source.enabled = combo.enabled
        /\ source.index = index
    BY <1>1 DEF BoxType
  <2>2. index \in 0..Len(combo.items)
    BY DEF combo
  <2> HIDE DEF source
  <2> QED
    BY <2>1, <2>2 DEF Turned
<1> HIDE DEF source
<1>4. Shape(combos) /\ AxisLevels(combos)
  BY DEF Inv
<1>5. /\ Shape(combos') /\ AxisLevels(combos')
      /\ Len(combos'["displayed"]) <= MaxDisplayed
  BY <1>2, <1>3, <1>4, ActivateFacts
<1>6. Len(combos'["displayed"]) <= Levels + MaxDisplayed
  <2>1. "displayed" \in Roles
    BY DEF Roles
  <2>2. Len(combos'["displayed"]) \in Nat
    BY <1>5, <2>1, ShapeFacts
  <2> QED
    BY <1>5, <2>2, LevelsAssumption, BoundsAssumption
<1>7. /\ disturbed' \subseteq Disturbances /\ "scrolled" \in disturbed'
      /\ files' \subseteq Files /\ clicks' \in 0..MaxClicks
  BY <1>2, Clicked DEF Inv, Disturbances
<1>8. disturbed' \cap {"scrolled", "cleared"} # {} /\ disturbed' # {}
      /\ disturbed' \cap {"moved", "scrolled"} # {}
  BY <1>7
<1> QED
  BY <1>5, <1>6, <1>7, <1>8 DEF Inv

(***************************************************************************)
(* The steps that change every box in its place.                           *)
(***************************************************************************)
LEMMA AxisBoxes ==
  ASSUME NEW boxes, Shape(boxes)
  PROVE  /\ \A axis \in Axes : axis \in Roles
         /\ \A axis \in Axes : \A n \in 1..Levels : n \in DOMAIN boxes[axis]
         /\ \A n \in 1..(Levels - 1) :
              n \in 1..Levels /\ n + 1 \in 1..Levels /\ n + 1 > 1
<1>1. \A axis \in Axes : axis \in Roles
  BY DEF Roles
<1>2. \A axis \in Axes : DOMAIN boxes[axis] = 1..Levels
  BY <1>1, ShapeFacts DEF Shape
<1>3. \A n \in 1..(Levels - 1) :
        n \in 1..Levels /\ n + 1 \in 1..Levels /\ n + 1 > 1
  BY LevelsAssumption
<1> QED
  BY <1>1, <1>2, <1>3

LEMMA LevelsStay ==
  ASSUME NEW old, Shape(old), AxisLevels(old), NEW new,
         \A r \in Roles : \A j \in DOMAIN old[r] : new[r][j].level = old[r][j].level
  PROVE  AxisLevels(new)
<1> SUFFICES ASSUME NEW axis \in Axes, NEW n \in 1..Levels
             PROVE  new[axis][n].level = n
  BY DEF AxisLevels
<1>1. axis \in Roles /\ n \in DOMAIN old[axis]
  BY AxisBoxes
<1> QED
  BY <1>1 DEF AxisLevels

LEMMA HierarchyStays ==
  ASSUME NEW old, Shape(old), EnabledBelow(old), NEW new,
         \A axis \in Axes : \A j \in DOMAIN old[axis] :
           /\ new[axis][j].index = 0 <=> old[axis][j].index = 0
           /\ j > 1 => new[axis][j].enabled = old[axis][j].enabled
  PROVE  EnabledBelow(new)
<1> SUFFICES ASSUME NEW axis \in Axes, NEW n \in 1..(Levels - 1)
             PROVE  new[axis][n + 1].enabled <=> new[axis][n].index # 0
  BY DEF EnabledBelow
<1>1. /\ n \in DOMAIN old[axis] /\ n + 1 \in DOMAIN old[axis] /\ n + 1 > 1
  BY AxisBoxes
<1>2. /\ new[axis][n].index = 0 <=> old[axis][n].index = 0
      /\ new[axis][n + 1].enabled = old[axis][n + 1].enabled
  BY <1>1
<1> QED
  BY <1>2 DEF EnabledBelow

LEMMA ChainStays ==
  ASSUME NEW old, Chain(old), NEW new, DOMAIN new = DOMAIN old, Len(new) = Len(old),
         \A j \in DOMAIN old : /\ new[j].level = old[j].level
                               /\ new[j].index = 0 <=> old[j].index = 0
  PROVE  Chain(new)
  BY DEF Chain

LEMMA PeekStep ==
  ASSUME Inv, NEW role \in Roles, NEW k \in DOMAIN combos[role], Peek(role, k)
  PROVE  Inv'
<1> DEFINE box == [combos[role][k] EXCEPT !.previous = combos[role][k].index]
           new == combos'
<1>1. /\ Click /\ files' = files /\ disturbed' = disturbed
      /\ new = [combos EXCEPT ![role] = [@ EXCEPT ![k] = box]]
  BY DEF Peek
<1>2. /\ Shape(combos) /\ combos \in [Roles -> Seq(BoxType)]
      /\ combos[role] \in Seq(BoxType) /\ "displayed" \in Roles
      /\ combos[role][k] \in BoxType /\ combos[role][k].index \in Nat
  BY ShapeFacts, BoxFields DEF Inv, Shape, Roles
<1>3. /\ box \in BoxType /\ box.level = combos[role][k].level
      /\ box.items = combos[role][k].items /\ box.index = combos[role][k].index
      /\ box.disabledRows = combos[role][k].disabledRows
      /\ box.greyed = combos[role][k].greyed /\ box.enabled = combos[role][k].enabled
  BY <1>2 DEF BoxType
<1> HIDE DEF box, new
<1>4. \A r \in Roles : \A j \in DOMAIN combos[r] :
        new[r][j] = IF <<r, j>> = <<role, k>> THEN box ELSE combos[r][j]
  BY <1>1, <1>2
<1>5. ASSUME NEW r \in Roles, NEW j \in DOMAIN combos[r]
      PROVE  /\ new[r][j] \in BoxType
             /\ new[r][j].items = combos[r][j].items
             /\ new[r][j].index = combos[r][j].index
             /\ new[r][j].disabledRows = combos[r][j].disabledRows
             /\ new[r][j].greyed = combos[r][j].greyed
             /\ new[r][j].enabled = combos[r][j].enabled
             /\ new[r][j].level = combos[r][j].level
             /\ new[r][j].index \in 0..Len(new[r][j].items)
  <2>1. /\ combos[r][j] \in BoxType
        /\ combos[r][j].index \in 0..Len(combos[r][j].items)
    BY <1>2, ShapeFacts
  <2>2. CASE <<r, j>> = <<role, k>>
    BY <1>3, <1>4, <2>1, <2>2
  <2>3. CASE <<r, j>> # <<role, k>>
    BY <1>4, <2>1, <2>3
  <2> QED
    BY <2>2, <2>3
<1>6. Mapped(new, combos)
  <2>1. new = [r \in Roles |-> new[r]]
    BY <1>1, <1>2
  <2>2. \A r \in Roles : combos[r] = [j \in DOMAIN combos[r] |-> combos[r][j]]
    <3>1. \A r \in Roles : combos[r] \in Seq(BoxType)
      BY <1>2
    <3>2. \A s \in Seq(BoxType) : s = [j \in DOMAIN s |-> s[j]]
      OBVIOUS
    <3> QED
      BY <3>1, <3>2, Zenon
  <2>3. \A r \in Roles : new[r] = [j \in DOMAIN combos[r] |-> new[r][j]]
    BY <1>1, <1>2, <2>2
  <2> QED
    BY <2>1, <2>3 DEF Mapped
<1>7. /\ Shape(new)
      /\ \A r \in Roles : DOMAIN new[r] = DOMAIN combos[r] /\ Len(new[r]) = Len(combos[r])
  BY <1>2, <1>5, <1>6, MappedShape
<1>8. AxisLevels(combos) => AxisLevels(new)
  BY <1>2, <1>5, LevelsStay
<1>9. EnabledBelow(combos) => EnabledBelow(new)
  <2>1. \A axis \in Axes : axis \in Roles
    BY DEF Roles
  <2>2. \A axis \in Axes : \A j \in DOMAIN combos[axis] :
          /\ new[axis][j].index = 0 <=> combos[axis][j].index = 0
          /\ j > 1 => new[axis][j].enabled = combos[axis][j].enabled
    BY <1>5, <2>1
  <2> QED
    BY <1>2, <2>2, HierarchyStays
<1>10. Chain(combos["displayed"]) => Chain(new["displayed"])
  <2>1. \A j \in DOMAIN combos["displayed"] :
          /\ new["displayed"][j].level = combos["displayed"][j].level
          /\ new["displayed"][j].index = combos["displayed"][j].index
    BY <1>2, <1>5
  <2>2. /\ DOMAIN new["displayed"] = DOMAIN combos["displayed"]
        /\ Len(new["displayed"]) = Len(combos["displayed"])
    BY <1>2, <1>7
  <2> QED
    BY <2>1, <2>2, ChainStays
<1>11. SameItems(combos) => SameItems(new)
  BY <1>5, <1>7 DEF SameItems
<1>12. ASSUME NEW r \in Roles, NEW j \in DOMAIN combos[r]
       PROVE  Choice(new[r][j]) = Choice(combos[r][j])
  BY <1>5 DEF Choice
<1>13. AllYield(combos) => AllYield(new)
  <2>1. ASSUME NEW r \in Roles, NEW i \in DOMAIN combos[r],
               NEW s \in Roles, NEW j \in DOMAIN combos[s],
               Yields(combos[r][i], combos[s][j])
        PROVE  Yields(new[r][i], new[s][j])
    BY <1>5, <1>12, <2>1 DEF Yields
  <2> QED
    BY <1>7, <2>1 DEF AllYield
<1>14. NothingStale(combos) => NothingStale(new)
  <2> SUFFICES ASSUME NothingStale(combos), NEW s \in Roles, NEW i \in DOMAIN combos[s]
      PROVE  /\ \A row \in DOMAIN new[s][i].disabledRows : RowIsChosen(new, s, i, row)
             /\ \A item \in new[s][i].greyed : ItemIsChosen(new, s, i, item)
    BY <1>7 DEF NothingStale
  <2>1. /\ new[s][i].disabledRows = combos[s][i].disabledRows
        /\ new[s][i].greyed = combos[s][i].greyed
    BY <1>5
  <2>2. ASSUME NEW row \in DOMAIN combos[s][i].disabledRows
        PROVE  RowIsChosen(new, s, i, row)
    <3>1. RowIsChosen(combos, s, i, row)
      BY DEF NothingStale
    <3>2. PICK r \in Roles : \E j \in DOMAIN combos[r] :
            <<r, j>> # <<s, i>> /\ combos[r][j].index = row
      BY <3>1 DEF RowIsChosen
    <3>3. PICK j \in DOMAIN combos[r] : <<r, j>> # <<s, i>> /\ combos[r][j].index = row
      BY <3>2
    <3>4. new[r][j].index = row /\ j \in DOMAIN new[r]
      BY <1>5, <1>7, <3>3
    <3> QED
      BY <2>1, <3>1, <3>3, <3>4 DEF RowIsChosen
  <2>3. \A item \in combos[s][i].greyed : ItemIsChosen(new, s, i, item)
    BY <1>7, <1>12 DEF NothingStale, ItemIsChosen
  <2> QED
    BY <2>1, <2>2, <2>3
<1>15. clicks' \in 0..MaxClicks
  BY <1>1, Clicked DEF Inv
<1> QED
  BY <1>1, <1>2, <1>7, <1>8, <1>9, <1>10, <1>11, <1>13, <1>14, <1>15 DEF Inv, new

(***************************************************************************)
(* Boxes that have chosen nothing exclude nothing, and nothing is stale in *)
(* boxes that have greyed nothing.                                         *)
(***************************************************************************)
LEMMA NoChoiceYields ==
  ASSUME NEW boxes, Shape(boxes),
         \A r \in Roles : \A j \in DOMAIN boxes[r] : boxes[r][j].index = 0
  PROVE  AllYield(boxes)
<1>1. \A r \in Roles : \A j \in DOMAIN boxes[r] : Choice(boxes[r][j]) = {}
  BY ShapeFacts, ChoiceFacts
<1> QED
  BY <1>1 DEF AllYield, Yields

LEMMA NothingGreyedNothingStale ==
  ASSUME NEW boxes,
         \A r \in Roles : \A j \in DOMAIN boxes[r] :
           DOMAIN boxes[r][j].disabledRows = {} /\ boxes[r][j].greyed = {}
  PROVE  NothingStale(boxes)
  BY DEF NothingStale

LEMMA ClearStep ==
  ASSUME Inv, Clear
  PROVE  Inv'
<1> DEFINE now == combos'
<1>1. /\ Click /\ files' = files
      /\ now = [role \in Roles |->
           [k \in DOMAIN combos[role] |->
              [enableAllItems(combos[role][k]) EXCEPT
                 !.index = 0, !.enabled = combos[role][k].level <= 1]]]
      /\ disturbed' = IF Len(combos["displayed"]) > 1
                      THEN disturbed \cup {"cleared"} ELSE disturbed
  BY DEF Clear
<1> HIDE DEF now
<1>2. Shape(combos) /\ AxisLevels(combos) /\ "displayed" \in Roles
  BY DEF Inv, Roles
<1>3. Mapped(now, combos)
  BY <1>1 DEF Mapped
<1>4. ASSUME NEW r \in Roles, NEW j \in DOMAIN combos[r]
      PROVE  LET new == now[r][j]
                 old == combos[r][j]
                 bag == old.disabledRows
                 rows == (0..Len(old.items)) \cap DOMAIN bag
             IN  /\ new \in BoxType /\ new.index \in 0..Len(new.items)
                 /\ new.level = old.level /\ new.items = old.items
                 /\ new.index = 0 /\ new.enabled = (old.level <= 1)
                 /\ DOMAIN new.disabledRows \subseteq DOMAIN bag
                 /\ \A row \in rows : bag[row] = 1 => row \notin DOMAIN new.disabledRows
                 /\ new.greyed = old.greyed \ ItemsAt(old.items, rows)
  <2> DEFINE old == combos[r][j]
             cleared == enableAllItems(old)
             new == [cleared EXCEPT !.index = 0, !.enabled = old.level <= 1]
             rows == (0..Len(old.items)) \cap DOMAIN old.disabledRows
  <2>1. old \in BoxType
    BY <1>2, ShapeFacts
  <2>2. now[r][j] = new
    BY <1>1
  <2>3. /\ Same(cleared, old)
        /\ DOMAIN cleared.disabledRows \subseteq DOMAIN old.disabledRows
        /\ \A row \in rows : old.disabledRows[row] = 1
             => row \notin DOMAIN cleared.disabledRows
        /\ cleared.greyed = old.greyed \ ItemsAt(old.items, rows)
    BY <2>1, EnableAllItems
  <2> HIDE DEF cleared, rows
  <2>4. /\ new \in BoxType /\ new.level = cleared.level /\ new.items = cleared.items
        /\ new.index = 0 /\ new.enabled = (old.level <= 1)
        /\ new.disabledRows = cleared.disabledRows /\ new.greyed = cleared.greyed
    <3>1. cleared \in BoxType
      BY <2>3 DEF Same
    <3>2. (old.level <= 1) \in BOOLEAN
      OBVIOUS
    <3> HIDE DEF old
    <3> QED
      BY <3>1, <3>2 DEF BoxType
  <2>5. 0 \in 0..Len(old.items)
    BY <2>1, BoxFields, LenProperties
  <2> QED
    BY <2>2, <2>3, <2>4, <2>5 DEF Same, rows
<1>5. /\ Shape(now)
      /\ \A role \in Roles : /\ DOMAIN now[role] = DOMAIN combos[role]
                             /\ Len(now[role]) = Len(combos[role])
  <2>1. \A r \in Roles : \A j \in DOMAIN combos[r] :
          now[r][j] \in BoxType /\ now[r][j].index \in 0..Len(now[r][j].items)
    BY <1>4
  <2> QED
    BY <1>2, <1>3, <2>1, MappedShape
<1>6. ASSUME NEW s \in Roles, NEW i \in DOMAIN combos[s]
      PROVE  /\ now[s][i].level = combos[s][i].level
             /\ now[s][i].items = combos[s][i].items /\ now[s][i].index = 0
             /\ now[s][i].enabled = (combos[s][i].level <= 1)
  BY <1>4
<1>7. AxisLevels(now)
  BY <1>2, <1>6, LevelsStay
<1>8. EnabledBelow(now)
  <2> SUFFICES ASSUME NEW axis \in Axes, NEW n \in 1..(Levels - 1)
               PROVE  ~now[axis][n + 1].enabled /\ now[axis][n].index = 0
    BY DEF EnabledBelow
  <2>1. /\ axis \in Roles /\ n \in DOMAIN combos[axis] /\ n + 1 \in DOMAIN combos[axis]
        /\ n + 1 \in 1..Levels /\ n + 1 > 1
    BY <1>2, AxisBoxes
  <2>2. combos[axis][n + 1].level = n + 1
    BY <1>2, <2>1 DEF AxisLevels
  <2>3. ~(combos[axis][n + 1].level <= 1)
    <3>1. n + 1 \in Nat /\ n + 1 > 1
      BY LevelsAssumption
    <3> QED
      BY <2>2, <3>1
  <2>4. /\ now[axis][n + 1].enabled = (combos[axis][n + 1].level <= 1)
        /\ now[axis][n].index = 0
    BY <1>6, <2>1
  <2> QED
    BY <2>3, <2>4
<1>9. ASSUME disturbed' \cap {"scrolled", "cleared"} = {}
      PROVE  Chain(now["displayed"])
  <2>1. Chain(combos["displayed"]) /\ ~(Len(combos["displayed"]) > 1)
    BY <1>1, <1>9 DEF Inv
  <2>2. Len(combos["displayed"]) \in Nat
        /\ DOMAIN combos["displayed"] = 1..Len(combos["displayed"])
    BY <1>2, ShapeFacts
  <2>3. \A j \in DOMAIN combos["displayed"] : ~(j < Len(combos["displayed"]))
    BY <2>1, <2>2
  <2>4. \A j \in DOMAIN combos["displayed"] :
          /\ now["displayed"][j].level = combos["displayed"][j].level
          /\ now["displayed"][j].index = 0
    BY <1>2, <1>6
  <2>5. /\ DOMAIN now["displayed"] = DOMAIN combos["displayed"]
        /\ Len(now["displayed"]) = Len(combos["displayed"])
    BY <1>2, <1>5
  <2> QED
    BY <2>1, <2>3, <2>4, <2>5 DEF Chain
<1>10. SameItems(combos) => SameItems(now)
  BY <1>5, <1>6 DEF SameItems
<1>11. AllYield(now)
  BY <1>5, <1>6, NoChoiceYields
<1>12. ASSUME disturbed' = {} PROVE NothingStale(now)
  <2>1. NothingStale(combos) /\ SameItems(combos) /\ AllYield(combos)
    BY <1>1, <1>12 DEF Inv
  <2>2. ASSUME NEW r \in Roles, NEW j \in DOMAIN combos[r]
        PROVE  DOMAIN now[r][j].disabledRows = {} /\ now[r][j].greyed = {}
    <3> DEFINE old == combos[r][j]
               rows == (0..Len(old.items)) \cap DOMAIN old.disabledRows
    <3>1. DOMAIN old.disabledRows \subseteq rows
      <4> SUFFICES ASSUME NEW row \in DOMAIN old.disabledRows
                   PROVE  row \in 0..Len(old.items)
        OBVIOUS
      <4>1. PICK s \in Roles : \E i \in DOMAIN combos[s] : combos[s][i].index = row
        BY <2>1 DEF NothingStale, RowIsChosen
      <4>2. PICK i \in DOMAIN combos[s] : combos[s][i].index = row
        BY <4>1
      <4> QED
        BY <1>2, <2>1, <4>2, ShapeFacts DEF SameItems
    <3>2. \A row \in DOMAIN old.disabledRows : old.disabledRows[row] = 1
      BY <2>1 DEF NothingStale, RowIsChosen
    <3>3. old.greyed \subseteq ItemsAt(old.items, rows)
      <4> SUFFICES ASSUME NEW item \in old.greyed
                   PROVE  item \in ItemsAt(old.items, rows)
        OBVIOUS
      <4>1. PICK s \in Roles : \E i \in DOMAIN combos[s] :
              <<s, i>> # <<r, j>> /\ item \in Choice(combos[s][i])
        BY <2>1 DEF NothingStale, ItemIsChosen
      <4>2. PICK i \in DOMAIN combos[s] :
              <<s, i>> # <<r, j>> /\ item \in Choice(combos[s][i])
        BY <4>1
      <4>3. combos[s][i].index # 0
        BY <1>2, <4>2, ShapeFacts, ChoiceFacts
      <4>4. combos[s][i].index \in rows
        BY <2>1, <3>1, <4>2, <4>3 DEF AllYield, Yields
      <4>5. item \in ItemAt(old.items, combos[s][i].index)
        BY <2>1, <4>2 DEF SameItems, Choice
      <4> QED
        BY <4>4, <4>5 DEF ItemsAt
    <3>4. /\ DOMAIN now[r][j].disabledRows \subseteq DOMAIN old.disabledRows
          /\ \A row \in rows : old.disabledRows[row] = 1
               => row \notin DOMAIN now[r][j].disabledRows
          /\ now[r][j].greyed = old.greyed \ ItemsAt(old.items, rows)
      BY <1>4
    <3> HIDE DEF old, rows
    <3> QED
      BY <3>1, <3>2, <3>3, <3>4
  <2> QED
    BY <1>5, <2>2, NothingGreyedNothingStale
<1>13. /\ disturbed' \subseteq Disturbances /\ disturbed \subseteq disturbed'
       /\ files' \subseteq Files /\ clicks' \in 0..MaxClicks
  BY <1>1, Clicked DEF Inv, Disturbances
<1>14. Len(now["displayed"]) <= Levels + MaxDisplayed
  BY <1>2, <1>5 DEF Inv
<1>15. disturbed' \cap {"moved", "scrolled"} = {} => SameItems(now) /\ AllYield(now)
  BY <1>10, <1>11, <1>13 DEF Inv
<1> QED
  BY <1>5, <1>7, <1>8, <1>9, <1>12, <1>13, <1>14, <1>15 DEF Inv, now

LEMMA AddFileStep ==
  ASSUME Inv, NEW file \in Files, AddFile(file)
  PROVE  Inv'
<1> DEFINE now == combos'
           columns == ColumnsOf[file]
           Added(combo) == insertItems(combo, columns)
           anyDisabled == \E role \in Roles : \E k \in DOMAIN combos[role] :
                            combos[role][k].disabledRows # EmptyBag
<1>1. /\ Click /\ files' = files \cup {file}
      /\ now = [role \in Roles |->
                  [k \in DOMAIN combos[role] |->
                     IF role = "displayed" /\ k > 1 THEN combos[role][k]
                     ELSE IF k > 1 THEN Added(combos[role][k])
                     ELSE [Added(combos[role][k]) EXCEPT
                             !.enabled = @ \/ role \in Axes \/ files = {}]]]
      /\ disturbed' = IF anyDisabled \/ Len(combos["displayed"]) > 1
                      THEN disturbed \cup {"moved"} ELSE disturbed
  BY DEF AddFile
<1> HIDE DEF now
<1>2. /\ Shape(combos) /\ "displayed" \in Roles
      /\ \A axis \in Axes : axis \in Roles /\ axis # "displayed"
  BY DEF Inv, Roles, Axes
<1>3. Mapped(now, combos)
  BY <1>1 DEF Mapped
<1>4. columns \in Seq(Columns)
  <2>1. columns \in Seq(Range(columns))
    BY ColumnsAssumption
  <2>2. Range(columns) \subseteq Columns
    BY DEF Columns
  <2>3. Len(columns) \in Nat /\ DOMAIN columns = 1..Len(columns)
        /\ columns = [i \in 1..Len(columns) |-> columns[i]]
    BY <2>1, LenProperties, SeqDef
  <2>4. \A i \in 1..Len(columns) : columns[i] \in Columns
    BY <2>1, <2>2, ElementOfSeq
  <2> HIDE DEF columns
  <2>5. columns \in [1..Len(columns) -> Columns]
    BY <2>3, <2>4
  <2> QED
    BY <2>3, <2>5, SeqDef
<1> HIDE DEF columns, anyDisabled
<1>5. ASSUME NEW r \in Roles, NEW j \in DOMAIN combos[r]
      PROVE  /\ now[r][j] \in BoxType
             /\ now[r][j].index \in 0..Len(now[r][j].items)
             /\ now[r][j].level = combos[r][j].level
             /\ now[r][j].index = 0 <=> combos[r][j].index = 0
             /\ now[r][j].disabledRows = combos[r][j].disabledRows
             /\ now[r][j].greyed = combos[r][j].greyed
             /\ r # "displayed" \/ ~(j > 1)
                  => now[r][j].items = Reverse(columns) \o combos[r][j].items
             /\ r # "displayed" /\ j > 1 => now[r][j].enabled = combos[r][j].enabled
  <2> DEFINE was == combos[r][j]
             added == Added(was)
             opened == [added EXCEPT !.enabled = @ \/ r \in Axes \/ files = {}]
  <2>1. was \in BoxType /\ was.index \in 0..Len(was.items)
    BY <1>2, ShapeFacts
  <2>2. /\ added \in BoxType /\ added.level = was.level
        /\ added.disabledRows = was.disabledRows
        /\ added.greyed = was.greyed /\ added.enabled = was.enabled
        /\ added.items = Reverse(columns) \o was.items
        /\ added.index = 0 <=> was.index = 0
        /\ added.index \in 0..Len(added.items)
    BY <1>4, <2>1, InsertItems
  <2>3. now[r][j] = IF r = "displayed" /\ j > 1 THEN was
                    ELSE IF j > 1 THEN added ELSE opened
    BY <1>1
  <2> HIDE DEF was, added
  <2>4. /\ opened \in BoxType /\ opened.level = added.level
        /\ opened.disabledRows = added.disabledRows /\ opened.greyed = added.greyed
        /\ opened.items = added.items /\ opened.index = added.index
    <3>1. (added.enabled \/ r \in Axes \/ files = {}) \in BOOLEAN
      OBVIOUS
    <3>2. opened = [added EXCEPT !.enabled = (added.enabled \/ r \in Axes \/ files = {})]
      OBVIOUS
    <3> HIDE DEF opened
    <3> QED
      BY <2>2, <3>1, <3>2 DEF BoxType
  <2> HIDE DEF opened
  <2>5. CASE r = "displayed" /\ j > 1
    BY <2>1, <2>3, <2>5 DEF was
  <2>6. CASE r # "displayed" /\ j > 1
    BY <2>2, <2>3, <2>6 DEF was
  <2>7. CASE ~(j > 1)
    BY <2>2, <2>3, <2>4, <2>7 DEF was
  <2> QED
    BY <2>5, <2>6, <2>7
<1>6. /\ Shape(now)
      /\ \A r \in Roles : DOMAIN now[r] = DOMAIN combos[r] /\ Len(now[r]) = Len(combos[r])
  <2>1. \A r \in Roles : \A j \in DOMAIN combos[r] :
          now[r][j] \in BoxType /\ now[r][j].index \in 0..Len(now[r][j].items)
    BY <1>5
  <2> QED
    BY <1>2, <1>3, <2>1, MappedShape
<1>7. AxisLevels(now)
  <2>1. AxisLevels(combos)
    BY DEF Inv
  <2>2. \A r \in Roles : \A j \in DOMAIN combos[r] : now[r][j].level = combos[r][j].level
    BY <1>5
  <2> QED
    BY <1>2, <2>1, <2>2, LevelsStay
<1>8. EnabledBelow(combos) => EnabledBelow(now)
  <2>1. \A axis \in Axes : \A j \in DOMAIN combos[axis] :
          /\ now[axis][j].index = 0 <=> combos[axis][j].index = 0
          /\ j > 1 => now[axis][j].enabled = combos[axis][j].enabled
    BY <1>2, <1>5
  <2> QED
    BY <1>2, <2>1, HierarchyStays
<1>9. Chain(combos["displayed"]) => Chain(now["displayed"])
  <2>1. \A j \in DOMAIN combos["displayed"] :
          /\ now["displayed"][j].level = combos["displayed"][j].level
          /\ now["displayed"][j].index = 0 <=> combos["displayed"][j].index = 0
    BY <1>2, <1>5
  <2>2. /\ DOMAIN now["displayed"] = DOMAIN combos["displayed"]
        /\ Len(now["displayed"]) = Len(combos["displayed"])
    BY <1>2, <1>6
  <2> QED
    BY <2>1, <2>2, ChainStays
<1>10. disturbed' \subseteq Disturbances /\ disturbed \subseteq disturbed'
  BY <1>1 DEF Inv, Disturbances
<1>11. ASSUME disturbed' \cap {"moved", "scrolled"} = {}
       PROVE  /\ SameItems(now) /\ AllYield(now)
              /\ \A r \in Roles : \A j \in DOMAIN combos[r] :
                   /\ combos[r][j].index = 0
                   /\ DOMAIN combos[r][j].disabledRows = {}
  <2>1. SameItems(combos) /\ AllYield(combos)
    BY <1>10, <1>11 DEF Inv
  <2>2. ~anyDisabled /\ ~(Len(combos["displayed"]) > 1)
    BY <1>1, <1>11
  <2>3. \A r \in Roles : \A j \in DOMAIN combos[r] :
          DOMAIN combos[r][j].disabledRows = {}
    <3>1. DOMAIN EmptyBag = {}
      BY DEF EmptyBag, SetToBag
    <3> QED
      BY <2>2, <3>1 DEF anyDisabled
  <2>4. ASSUME NEW r \in Roles, NEW j \in DOMAIN combos[r]
        PROVE  combos[r][j].index = 0
    <3>1. PICK axis \in Axes : axis # r
      BY DEF Axes
    <3>2. axis \in Roles /\ 1 \in DOMAIN combos[axis]
      BY <1>2, AxisBoxes, LevelsAssumption
    <3>3. Yields(combos[r][j], combos[axis][1])
      BY <2>1, <3>1, <3>2 DEF AllYield
    <3> QED
      BY <2>3, <3>2, <3>3 DEF Yields
  <2>5. \A j \in DOMAIN combos["displayed"] : ~(j > 1)
    <3>1. Len(combos["displayed"]) \in Nat
          /\ DOMAIN combos["displayed"] = 1..Len(combos["displayed"])
      BY <1>2, ShapeFacts
    <3> QED
      BY <2>2, <3>1
  <2>6. \A r \in Roles : \A j \in DOMAIN combos[r] :
          now[r][j].items = Reverse(columns) \o combos[r][j].items
    BY <1>5, <2>5
  <2>7. SameItems(now)
    <3> SUFFICES ASSUME NEW r \in Roles, NEW s \in Roles,
                        NEW j \in DOMAIN combos[r], NEW k \in DOMAIN combos[s]
                 PROVE  now[r][j].items = now[s][k].items
      BY <1>6 DEF SameItems
    <3>1. combos[r][j].items = combos[s][k].items
      BY <2>1 DEF SameItems
    <3> QED
      BY <2>6, <3>1
  <2>8. \A r \in Roles : \A j \in DOMAIN now[r] : now[r][j].index = 0
    BY <1>5, <1>6, <2>4
  <2>9. AllYield(now)
    BY <1>6, <2>8, NoChoiceYields
  <2> QED
    BY <2>3, <2>4, <2>7, <2>9
<1>12. ASSUME disturbed' = {} PROVE NothingStale(now)
  <2>1. NothingStale(combos)
    BY <1>10, <1>12 DEF Inv
  <2>2. \A r \in Roles : \A j \in DOMAIN combos[r] :
          combos[r][j].index = 0 /\ DOMAIN combos[r][j].disabledRows = {}
    BY <1>11, <1>12
  <2>3. \A r \in Roles : \A j \in DOMAIN combos[r] : Choice(combos[r][j]) = {}
    BY <1>2, <2>2, ShapeFacts, ChoiceFacts
  <2>4. \A r \in Roles : \A j \in DOMAIN combos[r] : combos[r][j].greyed = {}
    BY <2>1, <2>3 DEF NothingStale, ItemIsChosen
  <2>5. \A r \in Roles : \A j \in DOMAIN now[r] :
          DOMAIN now[r][j].disabledRows = {} /\ now[r][j].greyed = {}
    BY <1>5, <1>6, <2>2, <2>4
  <2> QED
    BY <2>5, NothingGreyedNothingStale
<1>13. files' \subseteq Files /\ clicks' \in 0..MaxClicks
  BY <1>1, Clicked DEF Inv
<1>14. Len(now["displayed"]) <= Levels + MaxDisplayed
  BY <1>2, <1>6 DEF Inv
<1>15. /\ "scrolled" \notin disturbed' => EnabledBelow(now)
       /\ disturbed' \cap {"scrolled", "cleared"} = {} => Chain(now["displayed"])
  BY <1>8, <1>9, <1>10 DEF Inv
<1> QED
  BY <1>6, <1>7, <1>10, <1>11, <1>12, <1>13, <1>14, <1>15 DEF Inv, now

(***************************************************************************)
(* Transposition: a row box becomes what the column box of its level was,  *)
(* and the other way round, with at least the rows listed that were.       *)
(***************************************************************************)
Across(role) ==
  CASE role = "row" -> "column" [] role = "column" -> "row" [] OTHER -> role

LEMMA TransposeStep ==
  ASSUME Inv, Transpose
  PROVE  Inv'
<1> DEFINE now == combos'
           column == [k \in 1..Levels |-> setState(combos["column"][k], combos["row"][k])]
           fresh(k) == [combos["column"][k] EXCEPT !.disabledRows = column[k].disabledRows]
           row == [k \in 1..Levels |-> setState(combos["row"][k], fresh(k))]
<1>1. /\ Click /\ files' = files /\ disturbed' = disturbed \cup {"transposed"}
      /\ now = [combos EXCEPT !["column"] = column, !["row"] = row]
  BY DEF Transpose
<1> HIDE DEF now
<1>2. /\ Shape(combos) /\ "displayed" \in Roles
      /\ "row" \in Axes /\ "column" \in Axes
      /\ "displayed" \notin Axes
      /\ \A axis \in Axes : axis \in Roles /\ (axis = "row" \/ axis = "column")
      /\ \A role \in Roles : role \in Axes \/ role = "displayed"
  BY DEF Inv, Roles, Axes
<1>3. \A axis \in Axes : DOMAIN combos[axis] = 1..Levels
  BY <1>2, ShapeFacts DEF Shape
<1>4. /\ now["column"] = column /\ now["row"] = row
      /\ now["displayed"] = combos["displayed"]
      /\ now = [role \in Roles |-> now[role]]
  BY <1>1, <1>2 DEF Shape
<1>5. Mapped(now, combos)
  <2>1. combos["displayed"] = [k \in DOMAIN combos["displayed"] |-> combos["displayed"][k]]
    <3>1. combos["displayed"] \in Seq(BoxType)
      BY <1>2, ShapeFacts
    <3>2. \A s \in Seq(BoxType) : s = [j \in DOMAIN s |-> s[j]]
      OBVIOUS
    <3> QED
      BY <3>1, <3>2, Zenon
  <2>2. /\ column = [k \in 1..Levels |-> column[k]]
        /\ row = [k \in 1..Levels |-> row[k]]
    OBVIOUS
  <2> HIDE DEF column, row
  <2>3. \A role \in Roles : now[role] = [k \in DOMAIN combos[role] |-> now[role][k]]
    BY <1>2, <1>3, <1>4, <2>1, <2>2
  <2> QED
    BY <1>4, <2>3 DEF Mapped
<1>6. ASSUME NEW k \in 1..Levels
      PROVE  LET c == combos["column"][k]
                 r == combos["row"][k]
             IN  /\ c \in BoxType /\ r \in BoxType
                 /\ Same(now["column"][k], r) /\ now["column"][k].enabled = r.enabled
                 /\ DOMAIN r.disabledRows \subseteq DOMAIN now["column"][k].disabledRows
                 /\ now["column"][k].greyed = ItemsAt(r.items, DOMAIN r.disabledRows)
                 /\ Same(now["row"][k], c) /\ now["row"][k].enabled = c.enabled
                 /\ DOMAIN c.disabledRows \subseteq DOMAIN now["row"][k].disabledRows
                 /\ ItemsAt(c.items, DOMAIN c.disabledRows) \subseteq now["row"][k].greyed
  <2> DEFINE c == combos["column"][k]
             r == combos["row"][k]
             state == fresh(k)
  <2>1. c \in BoxType /\ r \in BoxType
    BY <1>2, <1>3, ShapeFacts
  <2>2. now["column"][k] = setState(c, r) /\ now["row"][k] = setState(r, state)
    BY <1>4
  <2>3. /\ Same(now["column"][k], r) /\ now["column"][k].enabled = r.enabled
        /\ DOMAIN now["column"][k].disabledRows
             = DOMAIN c.disabledRows \cup DOMAIN r.disabledRows
        /\ now["column"][k].greyed = ItemsAt(r.items, DOMAIN r.disabledRows)
    BY <2>1, <2>2, SetState
  <2>4. state = [c EXCEPT !.disabledRows = now["column"][k].disabledRows]
    BY <1>4
  <2> HIDE DEF c, r, fresh
  <2>5. /\ Same(state, c) /\ state.enabled = c.enabled
        /\ state.disabledRows = now["column"][k].disabledRows
    <3>1. now["column"][k].disabledRows \in Rows
      BY <2>3, BoxFields DEF Same
    <3> QED
      BY <2>1, <2>4, <3>1 DEF Same, BoxType
  <2> HIDE DEF state
  <2>6. /\ Same(now["row"][k], state) /\ now["row"][k].enabled = state.enabled
        /\ DOMAIN now["row"][k].disabledRows
             = DOMAIN r.disabledRows \cup DOMAIN state.disabledRows
        /\ now["row"][k].greyed = ItemsAt(state.items, DOMAIN state.disabledRows)
    <3>1. state \in BoxType
      BY <2>5 DEF Same
    <3> QED
      BY <2>1, <2>2, <3>1, SetState
  <2>7. Same(now["row"][k], c) /\ now["row"][k].enabled = c.enabled
    BY <2>5, <2>6 DEF Same
  <2>8. DOMAIN c.disabledRows \subseteq DOMAIN state.disabledRows
    BY <2>3, <2>5
  <2>9. ItemsAt(c.items, DOMAIN c.disabledRows) \subseteq now["row"][k].greyed
    BY <2>5, <2>6, <2>8 DEF ItemsAt, Same
  <2> QED
    BY <2>1, <2>3, <2>6, <2>7, <2>8, <2>9 DEF c, r
<1>7. ASSUME NEW s \in Roles, NEW k \in DOMAIN combos[s]
      PROVE  LET was == combos[Across(s)][k]
             IN  /\ Across(s) \in Roles /\ k \in DOMAIN combos[Across(s)]
                 /\ was \in BoxType
                 /\ Same(now[s][k], was) /\ now[s][k].enabled = was.enabled
                 /\ DOMAIN was.disabledRows \subseteq DOMAIN now[s][k].disabledRows
                 /\ s \in Axes => ItemsAt(was.items, DOMAIN was.disabledRows)
                                    \subseteq now[s][k].greyed
                 /\ s \notin Axes => now[s][k] = was
  <2>1. CASE s = "row"
    BY <1>2, <1>3, <1>6, <2>1 DEF Across
  <2>2. CASE s = "column"
    BY <1>2, <1>3, <1>6, <2>2 DEF Across
  <2>3. CASE s = "displayed"
    <3>1. Across(s) = s
      BY <2>3 DEF Across
    <3>2. combos[s][k] \in BoxType
      BY <1>2, ShapeFacts
    <3> QED
      BY <1>2, <1>4, <2>3, <3>1, <3>2 DEF Same
  <2> QED
    BY <1>2, <2>1, <2>2, <2>3
<1>8. /\ Shape(now)
      /\ \A r \in Roles : DOMAIN now[r] = DOMAIN combos[r] /\ Len(now[r]) = Len(combos[r])
  <2>1. ASSUME NEW r \in Roles, NEW j \in DOMAIN combos[r]
        PROVE  now[r][j] \in BoxType /\ now[r][j].index \in 0..Len(now[r][j].items)
    <3> DEFINE was == combos[Across(r)][j]
    <3>1. Across(r) \in Roles /\ j \in DOMAIN combos[Across(r)] /\ Same(now[r][j], was)
      BY <1>7
    <3>2. was.index \in 0..Len(was.items)
      BY <1>2, <3>1, ShapeFacts
    <3> QED
      BY <3>1, <3>2 DEF Same
  <2> QED
    BY <1>2, <1>5, <2>1, MappedShape
<1>9. AxisLevels(now)
  <2>1. AxisLevels(combos)
    BY DEF Inv
  <2>2. ASSUME NEW axis \in Axes, NEW k \in 1..Levels
        PROVE  now[axis][k].level = k
    BY <1>2, <1>3, <1>6, <2>1 DEF AxisLevels, Same
  <2> QED
    BY <2>2 DEF AxisLevels
<1>10. EnabledBelow(combos) => EnabledBelow(now)
  <2> SUFFICES ASSUME EnabledBelow(combos), NEW axis \in Axes, NEW n \in 1..(Levels - 1)
               PROVE  now[axis][n + 1].enabled <=> now[axis][n].index # 0
    BY DEF EnabledBelow
  <2>1. n \in 1..Levels /\ n + 1 \in 1..Levels
    BY <1>2, AxisBoxes
  <2>2. CASE axis = "row"
    BY <1>2, <1>6, <2>1, <2>2 DEF EnabledBelow, Same
  <2>3. CASE axis = "column"
    BY <1>2, <1>6, <2>1, <2>3 DEF EnabledBelow, Same
  <2> QED
    BY <1>2, <2>2, <2>3
<1>11. SameItems(combos) => SameItems(now)
  <2> SUFFICES ASSUME SameItems(combos), NEW r \in Roles, NEW s \in Roles,
                      NEW j \in DOMAIN combos[r], NEW k \in DOMAIN combos[s]
               PROVE  now[r][j].items = now[s][k].items
    BY <1>8 DEF SameItems
  <2> QED
    BY <1>7 DEF SameItems, Same
<1>12. SameItems(combos) /\ AllYield(combos) => AllYield(now)
  <2> SUFFICES ASSUME SameItems(combos), AllYield(combos),
                      NEW r \in Roles, NEW s \in Roles,
                      NEW i \in DOMAIN combos[r], NEW j \in DOMAIN combos[s],
                      <<r, i>> # <<s, j>>
               PROVE  Yields(now[r][i], now[s][j])
    BY <1>8 DEF AllYield
  <2> DEFINE a == combos[Across(r)][i]
             b == combos[Across(s)][j]
  <2>1. /\ Across(r) \in Roles /\ i \in DOMAIN combos[Across(r)]
        /\ a \in BoxType /\ Same(now[r][i], a)
    BY <1>7
  <2>2. /\ Across(s) \in Roles /\ j \in DOMAIN combos[Across(s)] /\ b \in BoxType
        /\ Same(now[s][j], b)
        /\ DOMAIN b.disabledRows \subseteq DOMAIN now[s][j].disabledRows
        /\ s \in Axes => ItemsAt(b.items, DOMAIN b.disabledRows) \subseteq now[s][j].greyed
        /\ s \notin Axes => now[s][j] = b
    BY <1>7
  <2>3. <<Across(r), i>> # <<Across(s), j>>
    <3>1. Across(r) = Across(s) => r = s
      BY DEF Across, Roles, Axes
    <3> QED
      BY <3>1
  <2>4. Yields(a, b) /\ a.items = b.items
    BY <2>1, <2>2, <2>3 DEF AllYield, SameItems
  <2>5. a.index \in 0..Len(a.items)
    BY <1>2, <2>1, ShapeFacts
  <2> HIDE DEF a, b
  <2>6. Choice(now[r][i]) = Choice(a) /\ Choice(now[s][j]) = Choice(b)
        /\ now[r][i].index = a.index
    BY <2>1, <2>2 DEF Same, Choice
  <2>7. Choice(a) \subseteq now[s][j].greyed
    <3>1. CASE s \notin Axes
      BY <2>2, <2>4, <3>1 DEF Yields
    <3>2. CASE Choice(a) = {}
      BY <3>2
    <3>3. CASE s \in Axes /\ Choice(a) # {}
      <4>1. a.index \in DOMAIN b.disabledRows
        BY <2>1, <2>4, <2>5, <3>3, ChoiceFacts DEF Yields
      <4>2. Choice(a) = ItemAt(b.items, a.index) /\ b.items \in Seq(Columns)
        BY <2>2, <2>4, BoxFields DEF Choice
      <4>3. Choice(a) \subseteq ItemsAt(b.items, DOMAIN b.disabledRows)
        BY <4>1, <4>2, ItemFacts
      <4> QED
        BY <2>2, <3>3, <4>3
    <3> QED
      BY <3>1, <3>2, <3>3
  <2> QED
    BY <2>2, <2>4, <2>6, <2>7 DEF Yields
<1>13. /\ disturbed' \subseteq Disturbances /\ disturbed \subseteq disturbed'
       /\ disturbed' # {} /\ files' \subseteq Files /\ clicks' \in 0..MaxClicks
  BY <1>1, Clicked DEF Inv, Disturbances
<1>14. Len(now["displayed"]) <= Levels + MaxDisplayed
  BY <1>4 DEF Inv
<1>15. /\ "scrolled" \notin disturbed' => EnabledBelow(now)
       /\ disturbed' \cap {"scrolled", "cleared"} = {} => Chain(now["displayed"])
       /\ disturbed' \cap {"moved", "scrolled"} = {} => SameItems(now) /\ AllYield(now)
  BY <1>4, <1>10, <1>11, <1>12, <1>13 DEF Inv
<1> QED
  BY <1>8, <1>9, <1>13, <1>14, <1>15 DEF Inv, now

LEMMA InitInv == Init => Inv
<1> SUFFICES ASSUME Init PROVE Inv
  OBVIOUS
<1>1. /\ combos = [role \in Roles |->
                     IF role = "displayed" THEN <<EmptyCombo(0, FALSE)>>
                     ELSE [k \in 1..Levels |-> EmptyCombo(k, FALSE)]]
      /\ files = {} /\ disturbed = {} /\ clicks = 0
  BY DEF Init
<1>2. /\ "displayed" \in Roles /\ \A axis \in Axes : axis \in Roles /\ axis # "displayed"
      /\ \A role \in Roles : role \in Axes \/ role = "displayed"
  BY DEF Roles, Axes
<1>3. /\ combos["displayed"] = <<EmptyCombo(0, FALSE)>>
      /\ \A axis \in Axes : combos[axis] = [k \in 1..Levels |-> EmptyCombo(k, FALSE)]
  BY <1>1, <1>2
<1>4. ASSUME NEW level \in Nat
      PROVE  /\ EmptyCombo(level, FALSE) \in BoxType
             /\ EmptyCombo(level, FALSE).level = level
             /\ ~EmptyCombo(level, FALSE).enabled
             /\ EmptyCombo(level, FALSE).items = <<>>
             /\ EmptyCombo(level, FALSE).index = 0
             /\ EmptyCombo(level, FALSE).greyed = {}
             /\ DOMAIN EmptyCombo(level, FALSE).disabledRows = {}
  BY NewBox
<1>5. \A axis \in Axes : /\ combos[axis] \in Seq(BoxType) /\ Len(combos[axis]) = Levels
                         /\ DOMAIN combos[axis] = 1..Levels
  <2> DEFINE boxes == [k \in 1..Levels |-> EmptyCombo(k, FALSE)]
  <2>1. boxes \in [1..Levels -> BoxType] /\ Levels \in Nat
    <3>1. \A k \in 1..Levels : k \in Nat
      BY LevelsAssumption
    <3>2. \A k \in 1..Levels : EmptyCombo(k, FALSE) \in BoxType
      BY <1>4, <3>1
    <3> QED
      BY <3>2, LevelsAssumption
  <2>2. DOMAIN boxes = 1..Levels
    OBVIOUS
  <2> HIDE DEF boxes
  <2>3. boxes \in Seq(BoxType)
    BY <2>1, SeqDef
  <2>4. Len(boxes) = Levels
    BY <2>1, <2>2, <2>3, LenProperties
  <2> QED
    BY <1>3, <2>2, <2>3, <2>4 DEF boxes
<1>6. /\ combos["displayed"] \in Seq(BoxType) /\ Len(combos["displayed"]) = 1
      /\ DOMAIN combos["displayed"] = {1}
      /\ combos["displayed"][1] = EmptyCombo(0, FALSE)
  <2>1. EmptyCombo(0, FALSE) \in BoxType
    BY <1>4
  <2>2. \A box \in BoxType : /\ <<box>> \in Seq(BoxType) /\ Len(<<box>>) = 1
                             /\ DOMAIN <<box>> = {1} /\ <<box>>[1] = box
    OBVIOUS
  <2> QED
    BY <1>3, <2>1, <2>2
<1>7. ASSUME NEW role \in Roles, NEW k \in DOMAIN combos[role]
      PROVE  /\ combos[role][k].index = 0 /\ combos[role][k].items = <<>>
             /\ combos[role][k].greyed = {} /\ ~combos[role][k].enabled
             /\ DOMAIN combos[role][k].disabledRows = {}
             /\ combos[role][k].level = IF role = "displayed" THEN 0 ELSE k
  <2>1. CASE role = "displayed"
    <3> DEFINE combo == EmptyCombo(0, FALSE)
    <3>1. combos[role][k] = combo
      BY <1>6, <2>1
    <3>2. /\ combo.level = 0 /\ combo.index = 0 /\ combo.items = <<>>
          /\ combo.greyed = {} /\ ~combo.enabled /\ DOMAIN combo.disabledRows = {}
      BY <1>4
    <3> HIDE DEF combo
    <3> QED
      BY <2>1, <3>1, <3>2
  <2>2. CASE role # "displayed"
    <3>1. k \in Nat /\ combos[role][k] = EmptyCombo(k, FALSE)
      <4>1. role \in Axes
        BY <1>2, <2>2
      <4>2. k \in 1..Levels
        BY <1>5, <4>1
      <4>3. k \in Nat
        BY <4>2, LevelsAssumption
      <4> QED
        BY <1>3, <4>1, <4>2, <4>3
    <3> QED
      BY <1>4, <2>2, <3>1
  <2> QED
    BY <2>1, <2>2
<1>8. Shape(combos)
  <2>1. combos \in [Roles -> Seq(BoxType)]
    BY <1>1, <1>2, <1>5, <1>6
  <2>2. \A role \in Roles : \A k \in DOMAIN combos[role] :
          combos[role][k].index \in 0..Len(combos[role][k].items)
    BY <1>7
  <2> QED
    BY <1>5, <2>1, <2>2 DEF Shape
<1>9. AxisLevels(combos)
  BY <1>2, <1>5, <1>7 DEF AxisLevels
<1>10. EnabledBelow(combos)
  <2> SUFFICES ASSUME NEW axis \in Axes, NEW n \in 1..(Levels - 1)
               PROVE  ~combos[axis][n + 1].enabled /\ combos[axis][n].index = 0
    BY DEF EnabledBelow
  <2>1. axis \in Roles /\ n \in DOMAIN combos[axis] /\ n + 1 \in DOMAIN combos[axis]
    BY <1>8, AxisBoxes
  <2> QED
    BY <1>7, <2>1
<1>11. Chain(combos["displayed"])
  BY <1>2, <1>6, <1>7 DEF Chain
<1>12. SameItems(combos) /\ AllYield(combos) /\ NothingStale(combos)
  <2>1. SameItems(combos)
    BY <1>7 DEF SameItems
  <2>2. AllYield(combos)
    BY <1>7, <1>8, NoChoiceYields
  <2>3. NothingStale(combos)
    BY <1>7, NothingGreyedNothingStale
  <2> QED
    BY <2>1, <2>2, <2>3
<1>13. /\ Len(combos["displayed"]) <= Levels + MaxDisplayed
       /\ clicks \in 0..MaxClicks
  <2>1. Len(combos["displayed"]) = 1 /\ clicks = 0
    BY <1>1, <1>6
  <2> QED
    BY <2>1, LevelsAssumption, BoundsAssumption
<1> QED
  BY <1>1, <1>8, <1>9, <1>10, <1>11, <1>12, <1>13 DEF Inv

-----------------------------------------------------------------------------
LEMMA NextInv == Inv /\ [Next]_vars => Inv'
<1> SUFFICES ASSUME Inv, [Next]_vars PROVE Inv'
  OBVIOUS
<1>1. CASE \E file \in Files : AddFile(file)
  BY <1>1, AddFileStep
<1>2. CASE \E role \in Roles : \E k \in DOMAIN combos[role] :
             \E index \in 0..Len(combos[role][k].items) :
               \/ Choose(role, k, index)
               \/ Scroll(role, k, index)
  BY <1>2, ChooseStep, ScrollStep
<1>3. CASE \E role \in Roles : \E k \in DOMAIN combos[role] : Peek(role, k)
  BY <1>3, PeekStep
<1>4. CASE Clear
  BY <1>4, ClearStep
<1>5. CASE Transpose
  BY <1>5, TransposeStep
<1>6. CASE UNCHANGED vars
  <2>1. combos' = combos /\ files' = files /\ disturbed' = disturbed /\ clicks' = clicks
    BY <1>6 DEF vars
  <2> QED
    BY <2>1 DEF Inv
<1> QED
  BY <1>1, <1>2, <1>3, <1>4, <1>5, <1>6 DEF Next

(***************************************************************************)
(* What the boxes keep, of which the properties below are consequences.    *)
(***************************************************************************)
THEOREM Invariance == Spec => []Inv
  BY InitInv, NextInv, PTL DEF Spec

(***************************************************************************)
(* A box has a choice only among the items it shows, whatever the user     *)
(* clicks, boxes are appended and items inserted before the chosen one     *)
(* (pivot_combo_box.py:12-18, __main__.py:397-418, 554-595).               *)
(***************************************************************************)
THEOREM TypesHold == Spec => []TypeOK
<1>1. Inv => TypeOK
  <2> SUFFICES ASSUME Inv PROVE TypeOK
    OBVIOUS
  <2>1. Shape(combos) /\ combos \in [Roles -> Seq(BoxType)]
    BY DEF Inv, Shape
  <2>2. ASSUME NEW role \in Roles, NEW k \in DOMAIN combos[role]
        PROVE  /\ combos[role][k].items \in Seq(Columns)
               /\ combos[role][k].index \in 0..Len(combos[role][k].items)
               /\ combos[role][k].previous \in Nat \cup {NoIndex}
               /\ combos[role][k].greyed \subseteq Columns
               /\ IsABag(combos[role][k].disabledRows)
               /\ combos[role][k].enabled \in BOOLEAN
    <3>1. /\ combos[role][k] \in BoxType
          /\ combos[role][k].index \in 0..Len(combos[role][k].items)
      BY <2>1, ShapeFacts
    <3>2. IsABag(combos[role][k].disabledRows)
      BY <3>1, BoxFields, RowsAreBags DEF IsABag
    <3> QED
      BY <3>1, <3>2, BoxFields
  <2> QED
    BY <2>1, <2>2 DEF TypeOK, Inv
<1> QED
  BY <1>1, Invariance, PTL

LEMMA Addresses ==
  ASSUME NEW a \in Boxes
  PROVE  a[1] \in Roles /\ a[2] \in DOMAIN combos[a[1]] /\ a = <<a[1], a[2]>>
  BY DEF Boxes

(***************************************************************************)
(* No column is row and column at once, or chosen twice, however long the  *)
(* user chooses, clears and transposes and whatever boxes for displayed    *)
(* values come and go: as long as no file was opened after a choice or     *)
(* with several boxes for displayed values, and no choice was made without *)
(* pressing the mouse, by the wheel or a key (__main__.py:397-418,         *)
(* pivot_combo_box.py:64-84).                                              *)
(***************************************************************************)
THEOREM Exclusive == Spec => []ChoicesExclusive
<1>1. Inv => ChoicesExclusive
  <2> SUFFICES ASSUME Inv, disturbed \cap {"moved", "scrolled"} = {},
                      NEW a \in Boxes, NEW b \in Boxes, a # b
               PROVE  Choice(Box(a)) \cap Choice(Box(b)) = {}
    BY DEF ChoicesExclusive
  <2>1. Yields(combos[a[1]][a[2]], combos[b[1]][b[2]])
    BY Addresses DEF Inv, AllYield
  <2> QED
    BY <2>1 DEF Yields, Box
<1> QED
  BY <1>1, Invariance, PTL

(***************************************************************************)
(* A column that is chosen in one box is greyed in all others, which is    *)
(* what enableItem and disableItem keep up (pivot_combo_box.py:28-42),     *)
(* through transpositions as well, which set the flags on fresh items;     *)
(* under the two conditions of Exclusive.                                  *)
(***************************************************************************)
THEOREM Greyed == Spec => []ChosenIsGreyed
<1>1. Inv => ChosenIsGreyed
  <2> SUFFICES ASSUME Inv, disturbed \cap {"moved", "scrolled"} = {},
                      NEW a \in Boxes, NEW b \in Boxes, a # b
               PROVE  Choice(Box(a)) \subseteq Box(b).greyed
    BY DEF ChosenIsGreyed
  <2>1. Yields(combos[a[1]][a[2]], combos[b[1]][b[2]])
    BY Addresses DEF Inv, AllYield
  <2> QED
    BY <2>1 DEF Yields, Box
<1> QED
  BY <1>1, Invariance, PTL

(***************************************************************************)
(* A column is greyed in a box only while another box has chosen it, in a  *)
(* session of choices that are made and undone with the mouse, and of      *)
(* files opened before the first choice: not once boxes were transposed,   *)
(* cleared with several boxes for displayed values, or such boxes removed  *)
(* (__main__.py:397-418).                                                  *)
(***************************************************************************)
THEOREM Selectability == Spec => []FreeIsSelectable
<1>1. Inv => FreeIsSelectable
  <2> SUFFICES ASSUME Inv, disturbed = {}, NEW b \in Boxes, NEW item \in Box(b).greyed
               PROVE  \E a \in Boxes \ {b} : item \in Choice(Box(a))
    BY DEF FreeIsSelectable
  <2>1. Shape(combos) /\ NothingStale(combos)
    BY DEF Inv
  <2>2. PICK r \in Roles : \E j \in DOMAIN combos[r] :
          <<r, j>> # <<b[1], b[2]>> /\ item \in Choice(combos[r][j])
    BY <2>1, Addresses DEF NothingStale, ItemIsChosen, Box
  <2>3. PICK j \in DOMAIN combos[r] :
          <<r, j>> # <<b[1], b[2]>> /\ item \in Choice(combos[r][j])
    BY <2>2
  <2>4. j \in 1..(Levels + MaxDisplayed)
    <3>1. Len(combos[r]) \in Nat /\ j \in 1..Len(combos[r])
      BY <2>1, ShapeFacts
    <3>2. Len(combos[r]) <= Levels + MaxDisplayed
      <4>1. r \in Axes \/ r = "displayed"
        BY DEF Roles
      <4>2. CASE r \in Axes
        BY <2>1, <4>2, LevelsAssumption, BoundsAssumption DEF Shape
      <4>3. CASE r = "displayed"
        BY <4>3 DEF Inv
      <4> QED
        BY <4>1, <4>2, <4>3
    <3> QED
      BY <3>1, <3>2, LevelsAssumption, BoundsAssumption
  <2>5. <<r, j>> \in Boxes /\ <<r, j>> # b /\ Box(<<r, j>>) = combos[r][j]
    BY <2>3, <2>4, Addresses DEF Boxes, Box
  <2> QED
    BY <2>3, <2>5
<1> QED
  BY <1>1, Invariance, PTL

(***************************************************************************)
(* The row or column box of the next level can be used just when the one   *)
(* above it has a choice, also after a transposition, a reset or another   *)
(* file, unless a choice was made by the wheel or a key                    *)
(* (__main__.py:397-418, pivot_combo_box.py:64-84).                        *)
(***************************************************************************)
THEOREM Hierarchy == Spec => []NextLevelEnabled
<1>1. Inv => NextLevelEnabled
  BY DEF Inv, NextLevelEnabled, EnabledBelow
<1> QED
  BY <1>1, Invariance, PTL

(***************************************************************************)
(* Boxes for displayed values are appended and removed so that just the    *)
(* last is free, also when one in the middle is emptied: all of higher     *)
(* level go; unless a choice was made by the wheel or a key, or Clear was  *)
(* pressed while there were several (__main__.py:554-595).                 *)
(***************************************************************************)
THEOREM OneFreeBox == Spec => []DisplayedChain
<1>1. Inv => DisplayedChain
  BY DEF Inv, DisplayedChain, Chain
<1> QED
  BY <1>1, Invariance, PTL
=============================================================================
