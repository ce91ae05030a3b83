---------------------------- MODULE PivotCombos ----------------------------
(***************************************************************************)
(* The combo boxes with which the user picks the rows, the columns and the *)
(* displayed values of the pivot table: src/cp/gui/pivot_combo_box.py and  *)
(* their handlers in src/cp/__main__.py.                                   *)
(*                                                                         *)
(* A column that is chosen in one box is greyed out in all others.  Every  *)
(* box remembers the numbers of the rows it greyed (disabledRows), while   *)
(* Qt keeps the flag with the item itself; the handlers know what to undo  *)
(* from the index a box had when the mouse was last pressed on it.  Both   *)
(* memories can go stale: an opened file moves all rows, and the wheel     *)
(* and the keyboard change the choice without a mouse press.               *)
(***************************************************************************)
EXTENDS Integers, SequencesExt, BagsExt

CONSTANTS
  Levels,        \* row boxes, and column boxes, of the window
  Files,         \* data files that can be opened
  ColumnsOf,     \* file -> sequence of its columns
  NoIndex,       \* Python's None
  MaxDisplayed,  \* bound: boxes for displayed values
  MaxClicks      \* bound: how often the user does something

ASSUME LevelsAssumption == Levels \in Nat \ {0}
ASSUME BoundsAssumption == MaxDisplayed \in Nat /\ MaxClicks \in Nat
ASSUME ColumnsAssumption ==
  \A f \in Files : ColumnsOf[f] \in Seq(Range(ColumnsOf[f]))

Columns == UNION {Range(ColumnsOf[f]) : f \in Files}

VARIABLES
  combos,        \* role -> the boxes of that role, in order
  files,         \* the open files
  disturbed,     \* history: which steps that leave memories stale were taken
  clicks         \* history: how often the user did something

vars == <<combos, files, disturbed, clicks>>

Axes == {"row", "column"}
Roles == Axes \cup {"displayed"}
Disturbances == {"scrolled", "cleared", "moved", "transposed", "removed"}

(***************************************************************************)
(* A box: its items after the empty one at index 0, the index chosen and   *)
(* the one when the mouse was last pressed, the bag of row numbers it      *)
(* believes greyed, the items that really are, and whether it is enabled.  *)
(***************************************************************************)
EmptyCombo(level, enabled) ==
  [level |-> level, items |-> <<>>, index |-> 0, previous |-> NoIndex,
   disabledRows |-> EmptyBag, greyed |-> {}, enabled |-> enabled]

ItemAt(items, row) == IF row \in DOMAIN items THEN {items[row]} ELSE {}

ItemsAt(items, rows) == UNION {ItemAt(items, row) : row \in rows}

(***************************************************************************)
(* The column a box has chosen, as a set of at most one.                   *)
(***************************************************************************)
Choice(combo) == ItemAt(combo.items, combo.index)

(***************************************************************************)
(* PivotComboBox.enableItem, disableItem and enableAllItems.               *)
(***************************************************************************)
enableItem(combo, row) ==
  IF BagIn(row, combo.disabledRows)
  THEN [combo EXCEPT !.disabledRows = BagRemove(@, row),
                     !.greyed = @ \ ItemAt(combo.items, row)]
  ELSE combo

disableItem(combo, row) ==
  [combo EXCEPT !.disabledRows = BagAdd(@, row),
                !.greyed = @ \cup ItemAt(combo.items, row)]

disableItems(combo, rows) ==
  [combo EXCEPT !.disabledRows = @ (+) rows,
                !.greyed = @ \cup ItemsAt(combo.items, BagToSet(rows))]

enableAllItems(combo) ==
  LET rows == (0..Len(combo.items)) \cap BagToSet(combo.disabledRows)
  IN  [combo EXCEPT !.disabledRows = @ (-) SetToBag(rows),
                    !.greyed = @ \ ItemsAt(combo.items, rows)]

(***************************************************************************)
(* PivotComboBox.setState: the flags of the other box are set again on     *)
(* fresh items, and its row numbers are added to the box's own.            *)
(***************************************************************************)
setStateButEnabled(combo, state) ==          \* a slip: setEnabled is left out
  disableItems([state EXCEPT !.disabledRows = combo.disabledRows,
                             !.greyed = {}, !.enabled = combo.enabled],
               state.disabledRows)

setState(combo, state) ==
  disableItems([state EXCEPT !.disabledRows = combo.disabledRows,
                             !.greyed = {}],
               state.disabledRows)

(***************************************************************************)
(* Items are inserted at index 1 one by one; Qt keeps the current item.    *)
(***************************************************************************)
insertItems(combo, columns) ==
  [combo EXCEPT !.items = Reverse(columns) \o @,
                !.index = IF @ = 0 THEN 0 ELSE @ + Len(columns)]

-----------------------------------------------------------------------------
Init ==
  /\ combos = [role \in Roles |->
       IF role = "displayed" THEN <<EmptyCombo(0, FALSE)>>
       ELSE [k \in 1..Levels |-> EmptyCombo(k, FALSE)]]
  /\ files = {}
  /\ disturbed = {}
  /\ clicks = 0

Click == clicks < MaxClicks /\ clicks' = clicks + 1

(***************************************************************************)
(* addDataFile, of a file that is not open yet.  Boxes for displayed       *)
(* values but the first do not get the new columns.                        *)
(***************************************************************************)
AddFile(file) ==
  LET Added(combo) == insertItems(combo, ColumnsOf[file])
      anyDisabled  == \E role \in Roles : \E k \in DOMAIN combos[role] :
                        combos[role][k].disabledRows # EmptyBag
  IN  /\ Click
      /\ file \notin files
      /\ files' = files \cup {file}
      /\ combos' =
           [role \in Roles |->
              [k \in DOMAIN combos[role] |->
                 LET combo == combos[role][k]
                 IN  IF role = "displayed" /\ k > 1 THEN combo
                     ELSE IF k > 1 THEN Added(combo)
                     ELSE [Added(combo) EXCEPT
                             !.enabled = @ \/ role \in Axes \/ files = {}]]]
      /\ disturbed' = IF anyDisabled \/ Len(combos["displayed"]) > 1
                      THEN disturbed \cup {"moved"} ELSE disturbed

(***************************************************************************)
(* propagateComboBoxChange for one other box, given the role of the box    *)
(* that was changed and that box as it is now.                             *)
(***************************************************************************)
PropagatedToRole(combo, role, sourceRole, source) ==  \* a slip: only to its role
  IF role = sourceRole
  THEN disableItem(enableItem(combo, source.previous), source.index)
  ELSE combo

PropagatedUndoLast(combo, role, sourceRole, source) ==  \* a slip: in other order
  enableItem(disableItem(combo, source.index), source.previous)

PropagatedNoUndo(combo, role, sourceRole, source) ==  \* a slip: nothing undone
  disableItem(combo, source.index)

Propagated(combo, role, sourceRole, source) ==
  LET undone == enableItem(combo, source.previous)
      next   == role = sourceRole /\ combo.level = source.level + 1
  IN  IF source.index = 0
      THEN [undone EXCEPT !.enabled = @ /\ ~next]
      ELSE [disableItem(undone, source.index) EXCEPT
              !.enabled = @ \/ (next /\ source.previous = 0)]

(***************************************************************************)
(* The boxes of at most the given level, in order.                         *)
(***************************************************************************)
UpTo(boxes, level) ==
  LET kept[n \in 0..Len(boxes)] ==
        IF n = 0 THEN <<>>
        ELSE IF boxes[n].level <= level THEN Append(kept[n - 1], boxes[n])
        ELSE kept[n - 1]
  IN  kept[Len(boxes)]

(***************************************************************************)
(* _onDisplayedValueComboActivated for the k-th box of boxes: emptying it  *)
(* removes the boxes of higher level, filling it appends a new one.        *)
(***************************************************************************)
NewDisplayed(source) ==
  disableItem(disableItems([EmptyCombo(source.level + 1, TRUE) EXCEPT
                              !.items = source.items],
                           source.disabledRows),
              source.index)

RemovesItself(boxes, k) ==                    \* a slip: >= for >
  IF boxes[k].index = 0
  THEN UpTo(boxes, boxes[k].level - 1)
  ELSE IF boxes[k].previous = 0 THEN Append(boxes, NewDisplayed(boxes[k]))
  ELSE boxes

DisplayedActivated(boxes, k) ==
  IF boxes[k].index = 0
  THEN UpTo(boxes, boxes[k].level)
  ELSE IF boxes[k].previous = 0 THEN Append(boxes, NewDisplayed(boxes[k]))
  ELSE boxes

(***************************************************************************)
(* The handlers of activated, in the order they were connected, after the  *)
(* k-th box of a role has become source.                                   *)
(***************************************************************************)
Activate(sourceRole, k, source) ==
  LET others == [role \in Roles |->
        [j \in DOMAIN combos[role] |->
           IF role = sourceRole /\ j = k THEN source
           ELSE Propagated(combos[role][j], role, sourceRole, source)]]
  IN  /\ combos' = IF sourceRole # "displayed" THEN others
                   ELSE [others EXCEPT !["displayed"] = DisplayedActivated(@, k)]
      /\ Len(combos'["displayed"]) <= MaxDisplayed

Selectable(combo, index) ==
  /\ combo.enabled
  /\ index \in 0..Len(combo.items)
  /\ ItemAt(combo.items, index) \cap combo.greyed = {}

(***************************************************************************)
(* The user opens a box with the mouse, which remembers its index, and     *)
(* picks an item.                                                          *)
(***************************************************************************)
Choose(role, k, index) ==
  LET combo == combos[role][k]
  IN  /\ Click
      /\ Selectable(combo, index)
      /\ Activate(role, k, [combo EXCEPT !.previous = combo.index,
                                         !.index = index])
      /\ disturbed' = IF Len(combos'["displayed"]) < Len(combos["displayed"])
                      THEN disturbed \cup {"removed"} ELSE disturbed
      /\ UNCHANGED files

(***************************************************************************)
(* The user opens a box and closes it again without picking anything.      *)
(***************************************************************************)
Peek(role, k) ==
  /\ Click
  /\ combos[role][k].enabled
  /\ combos' = [combos EXCEPT ![role][k].previous = combos[role][k].index]
  /\ UNCHANGED <<files, disturbed>>

(***************************************************************************)
(* The wheel or a key changes the choice: no mouse press.                  *)
(***************************************************************************)
Scroll(role, k, index) ==
  LET combo == combos[role][k]
  IN  /\ Click
      /\ Selectable(combo, index) /\ index # combo.index
      /\ Activate(role, k, [combo EXCEPT !.index = index])
      /\ disturbed' = disturbed \cup {"scrolled"}
      /\ UNCHANGED files

(***************************************************************************)
(* clearComboChoices, from the button that the first file enables.         *)
(***************************************************************************)
Clear ==
  /\ Click
  /\ files # {}
  /\ combos' = [role \in Roles |->
       [k \in DOMAIN combos[role] |->
          [enableAllItems(combos[role][k]) EXCEPT
             !.index = 0, !.enabled = combos[role][k].level <= 1]]]
  /\ disturbed' = IF Len(combos["displayed"]) > 1
                  THEN disturbed \cup {"cleared"} ELSE disturbed
  /\ UNCHANGED files

(***************************************************************************)
(* _onTransposeViewPressed: the boxes swap their states, the column boxes  *)
(* first.  The states hold references to the row numbers, so that the row  *)
(* boxes see what was just added to those of the column boxes.             *)
(***************************************************************************)
Transpose ==
  LET column == [k \in 1..Levels |->
                   setState(combos["column"][k], combos["row"][k])]
      row    == [k \in 1..Levels |->
                   setState(combos["row"][k],
                            [combos["column"][k] EXCEPT
                               !.disabledRows = column[k].disabledRows])]
  IN  /\ Click
      /\ files # {}
      /\ combos' = [combos EXCEPT !["column"] = column, !["row"] = row]
      /\ disturbed' = disturbed \cup {"transposed"}
      /\ UNCHANGED files

Next ==
  \/ \E file \in Files : AddFile(file)
  \/ \E role \in Roles : \E k \in DOMAIN combos[role] :
       \E index \in 0..Len(combos[role][k].items) :
         \/ Choose(role, k, index)
         \/ Scroll(role, k, index)
  \/ \E role \in Roles : \E k \in DOMAIN combos[role] : Peek(role, k)
  \/ Clear
  \/ Transpose

Spec == Init /\ [][Next]_vars
-----------------------------------------------------------------------------
(***************************************************************************)
(* Types: an index points at an item, or at the empty one before them      *)
(* (pivot_combo_box.py:12-18).                                             *)
(***************************************************************************)
TypeOK ==
  /\ DOMAIN combos = Roles
  /\ \A role \in Roles : \A k \in DOMAIN combos[role] :
       LET combo == combos[role][k]
       IN  /\ combo.items \in Seq(Columns)
           /\ combo.index \in 0..Len(combo.items)
           /\ combo.previous \in Nat \cup {NoIndex}
           /\ combo.greyed \subseteq Columns
           /\ IsABag(combo.disabledRows)
           /\ combo.enabled \in BOOLEAN
  /\ files \subseteq Files
  /\ disturbed \subseteq Disturbances
  /\ clicks \in 0..MaxClicks

Boxes == {address \in Roles \X (1..(Levels + MaxDisplayed)) :
            address[2] \in DOMAIN combos[address[1]]}
Box(address) == combos[address[1]][address[2]]

(***************************************************************************)
(* No column is chosen in two boxes, so that pivot never gets a column as  *)
(* both row and column (__main__.py:397-409).  That is lost once a file is *)
(* opened after a choice, which moves the rows that were remembered, or    *)
(* the wheel or a key changes a choice (disturbed).                        *)
(***************************************************************************)
ChoicesExclusive ==
  disturbed \cap {"moved", "scrolled"} = {} =>
    \A a, b \in Boxes : a # b => Choice(Box(a)) \cap Choice(Box(b)) = {}

(***************************************************************************)
(* What is chosen in one box is greyed in all others, whatever was chosen, *)
(* cleared and transposed before, under the same two conditions            *)
(* (pivot_combo_box.py:28-42, 64-84).                                      *)
(***************************************************************************)
ChosenIsGreyed ==
  disturbed \cap {"moved", "scrolled"} = {} =>
    \A a, b \in Boxes : a # b => Choice(Box(a)) \subseteq Box(b).greyed

(***************************************************************************)
(* Nothing else is greyed in a session without disturbances: a column that *)
(* no other box has chosen can be chosen, however often choices were       *)
(* undone (__main__.py:397-418). Boxes for displayed values that are       *)
(* removed take their choice with them without freeing it, and boxes that  *)
(* are transposed get rows greyed that were greyed before.                 *)
(***************************************************************************)
FreeIsSelectable ==
  disturbed = {} =>
    \A b \in Boxes :
      Box(b).greyed \subseteq UNION {Choice(Box(a)) : a \in Boxes \ {b}}

(***************************************************************************)
(* The row or column box of level n + 1 is enabled just when that of level *)
(* n has a choice, unless the wheel or a key made one                      *)
(* (__main__.py:397-418).                                                  *)
(***************************************************************************)
NextLevelEnabled ==
  "scrolled" \notin disturbed =>
    \A role \in Axes : \A k \in 1..(Levels - 1) :
      combos[role][k + 1].enabled <=> combos[role][k].index # 0

(***************************************************************************)
(* Of the boxes for displayed values all but the last have a choice, and   *)
(* the last is there to make another (__main__.py:554-595), unless the     *)
(* wheel or a key made a choice or Clear left several boxes empty.         *)
(***************************************************************************)
DisplayedChain ==
  disturbed \cap {"scrolled", "cleared"} = {} =>
    LET boxes == combos["displayed"]
    IN  \A k \in DOMAIN boxes :
          /\ boxes[k].level = k - 1
          /\ boxes[k].index # 0 <=> k < Len(boxes)
=============================================================================
