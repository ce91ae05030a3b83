--------------------------- MODULE SessionProofs ---------------------------
(***************************************************************************)
(* Proofs about Session, for any data files, filters and choices and runs  *)
(* of any length: what the window shows agrees with what it holds, but for *)
(* the steps its properties name, also through project files.              *)
(***************************************************************************)
EXTENDS Session, TLAPS

(***************************************************************************)
(* What holds of the window also holds of a project file, which was the    *)
(* state of a window once; the parts are stated of either.                 *)
(***************************************************************************)
FilesOK(losses, frames, offers, c) ==
  losses \cap {"removed", "halfway"} = {} =>
    InFixedBoxes(c) \subseteq frames /\ offers \subseteq frames

FilteredOK(shown, events, fs) ==
  shown # NoTable /\ events \subseteq {"chosen", "cut"} => shown.filters = fs

AxesOK(shown, events, c) ==
  shown # NoTable /\ events \cap {"chosen", "opened"} = {} =>
    /\ SameFirst(shown.row, c.row) /\ SameFirst(shown.column, c.column)
    /\ "cut" \notin events => shown.row = c.row /\ shown.column = c.column

\* Every axis of a table has a level.
Leveled(shown) == shown # NoTable => shown.row # <<>> /\ shown.column # <<>>

ListOK ==
  /\ dataFilesList \subseteq data_frames
  /\ "removed" \notin lost => dataFilesList = data_frames

FurtherOK ==
  /\ choice.more \subseteq further
  /\ lost = {} => further \subseteq data_frames

WindowOK ==
  /\ ListOK
  /\ FilesOK(lost, data_frames, offered, choice)
  /\ FurtherOK
  /\ busy \/ FilteredOK(table, since, active)
  /\ AxesOK(table, since, choice)
  /\ Leveled(table)
  /\ dataDisplayed /\ table = NoTable => "warned" \in since

ProjectOK ==
  Saved =>
    /\ FilesOK(project.lost, project.data_frames, project.offered, project.choice)
    /\ FilteredOK(project.table, project.since, project.active)
    /\ AxesOK(project.table, project.since, project.choice)
    /\ Leveled(project.table)

Inv == TypeOK /\ WindowOK /\ ProjectOK

(***************************************************************************)
(* Types, one by one.                                                      *)
(***************************************************************************)
LEMMA Types ==
  ASSUME TypeOK
  PROVE  /\ data_frames \subseteq Paths /\ dataFilesList \subseteq Paths
         /\ offered \subseteq Paths /\ further \subseteq Paths
         /\ panel \subseteq Paths /\ disk \subseteq Paths
         /\ choice \in Choice /\ active \subseteq Filters
         /\ enabled \subseteq Controls /\ table \in Tables
         /\ busy \in BOOLEAN /\ dataDisplayed \in BOOLEAN
         /\ since \subseteq Events /\ lost \subseteq Losses
BY DEF TypeOK

LEMMA ChoiceParts ==
  ASSUME NEW c \in Choice
  PROVE  /\ c.row \in Seq(Paths) /\ c.column \in Seq(Paths)
         /\ c.displayed \subseteq Paths /\ c.more \subseteq Paths /\ c.gap \in BOOLEAN
BY DEF Choice

LEMMA TableParts ==
  ASSUME NEW t \in Table
  PROVE  /\ t.row \in Seq(Paths) /\ t.column \in Seq(Paths)
         /\ t.values \subseteq Axes /\ t.filters \subseteq Filters
BY DEF Table

LEMMA ProjectParts ==
  ASSUME TypeOK, Saved
  PROVE  /\ project \in Projects
         /\ project.data_frames \subseteq Paths /\ project.offered \subseteq Paths
         /\ project.choice \in Choice /\ project.panel \subseteq Paths
         /\ project.active \subseteq Filters /\ project.table \in Tables
         /\ project.since \subseteq Events /\ project.lost \subseteq Losses
<1>1. project \in Projects
  BY DEF TypeOK, Saved
<1> QED
  BY <1>1 DEF Projects

(***************************************************************************)
(* The operations on choices and tables.                                   *)
(***************************************************************************)
LEMMA TransposedChoice ==
  ASSUME NEW c \in Choice
  PROVE  /\ Transposed(c) \in Choice
         /\ Transposed(c).row = c.column /\ Transposed(c).column = c.row
         /\ Transposed(c).more = c.more
         /\ InFixedBoxes(Transposed(c)) = InFixedBoxes(c)
<1>1. /\ Transposed(c) \in Choice
      /\ Transposed(c).row = c.column /\ Transposed(c).column = c.row
      /\ Transposed(c).displayed = c.displayed /\ Transposed(c).more = c.more
  BY DEF Transposed, Choice
<1> QED
  BY <1>1 DEF InFixedBoxes

LEMMA ChoiceWithMore ==
  ASSUME NEW c \in Choice, NEW more \in SUBSET Paths
  PROVE  /\ WithMore(c, more) \in Choice
         /\ WithMore(c, more).row = c.row /\ WithMore(c, more).column = c.column
         /\ WithMore(c, more).more = more
         /\ InFixedBoxes(WithMore(c, more)) = InFixedBoxes(c)
<1>1. /\ WithMore(c, more) \in Choice
      /\ WithMore(c, more).row = c.row /\ WithMore(c, more).column = c.column
      /\ WithMore(c, more).displayed = c.displayed /\ WithMore(c, more).more = more
  BY DEF WithMore, Choice
<1> QED
  BY <1>1 DEF InFixedBoxes

LEMMA TransposedShown ==
  ASSUME table \in Table
  PROVE  /\ TransposedTable \in Table
         /\ TransposedTable.filters = table.filters
         /\ TransposedTable.row = table.column
         /\ TransposedTable.column = table.row
<1> DEFINE v == {Opposite(axis) : axis \in table.values}
<1>1. v \subseteq Axes
  BY DEF Opposite, Axes
<1> HIDE DEF v
<1>2. TransposedTable = [table EXCEPT !.row = table.column, !.column = table.row,
                                      !.values = v]
  BY DEF TransposedTable, v
<1> QED
  BY <1>1, <1>2 DEF Table

(***************************************************************************)
(* What pivot makes and what a project file leaves of it.                  *)
(***************************************************************************)
LEMMA TwoLevelsKept ==
  ASSUME NEW axis \in Seq(Paths), axis # <<>>
  PROVE  /\ TwoLevels(axis) \in Seq(Paths) /\ SameFirst(TwoLevels(axis), axis)
         /\ Len(axis) <= 2 => TwoLevels(axis) = axis
<1>1. CASE Len(axis) > 2
  <2>1. TwoLevels(axis) = SubSeq(axis, 1, 2)
    BY <1>1 DEF TwoLevels
  <2>2. /\ SubSeq(axis, 1, 2) \in Seq(Paths) /\ Len(SubSeq(axis, 1, 2)) = 2
        /\ SubSeq(axis, 1, 2)[1] = axis[1]
    BY <1>1
  <2> QED
    BY <1>1, <2>1, <2>2 DEF SameFirst
<1>2. CASE ~ (Len(axis) > 2)
  BY <1>2 DEF TwoLevels, SameFirst
<1> QED
  BY <1>1, <1>2

LEMMA PivotedTable ==
  ASSUME NEW fs \in SUBSET Filters, choice \in Choice, PivotStarts
  PROVE  /\ Pivoted(fs) \in Table /\ Pivoted(fs) # NoTable
         /\ Pivoted(fs).filters = fs
         /\ Leveled(Pivoted(fs))
         /\ SameFirst(Pivoted(fs).row, choice.row)
         /\ SameFirst(Pivoted(fs).column, choice.column)
         /\ Pivoted(fs).row = choice.row
         /\ ~ (Concatenates /\ Len(choice.column) > 2) =>
              Pivoted(fs).column = choice.column
<1> DEFINE column == IF Concatenates THEN TwoLevels(choice.column) ELSE choice.column
           values == IF Concatenates THEN {"column"} ELSE {}
<1>1. /\ choice.row \in Seq(Paths) /\ choice.column \in Seq(Paths)
      /\ choice.row # <<>> /\ choice.column # <<>>
  BY ChoiceParts DEF PivotStarts
<1>2. /\ column \in Seq(Paths) /\ SameFirst(column, choice.column)
      /\ ~ (Concatenates /\ Len(choice.column) > 2) => column = choice.column
  <2>1. Len(choice.column) \in Nat
    BY <1>1
  <2> QED
    BY <1>1, <2>1, TwoLevelsKept DEF SameFirst
<1>3. values \subseteq Axes
  BY DEF Axes
<1>4. Pivoted(fs) = [row |-> choice.row, column |-> column, values |-> values, filters |-> fs]
  BY DEF Pivoted
<1> HIDE DEF column, values
<1>5. /\ Pivoted(fs) \in Table
      /\ Pivoted(fs).row = choice.row /\ Pivoted(fs).column = column
      /\ Pivoted(fs).filters = fs
  BY <1>1, <1>2, <1>3, <1>4 DEF Table
<1>6. Pivoted(fs) # NoTable
  BY <1>5, NothingAssumption
<1> QED
  BY <1>1, <1>2, <1>5, <1>6 DEF Leveled, SameFirst

LEMMA RereadTable ==
  ASSUME NEW t \in Table, Leveled(t), t # NoTable
  PROVE  /\ Reread(t) \in Table /\ Reread(t) # NoTable /\ Leveled(Reread(t))
         /\ Reread(t).filters = t.filters
         /\ SameFirst(Reread(t).row, t.row) /\ SameFirst(Reread(t).column, t.column)
         /\ OneLevel(t) => Reread(t).row = t.row /\ Reread(t).column = t.column
<1>1. /\ t.row \in Seq(Paths) /\ t.column \in Seq(Paths)
      /\ t.row # <<>> /\ t.column # <<>>
  BY TableParts DEF Leveled
<1>2. /\ Head(t.row) \in Paths /\ Head(t.column) \in Paths
  BY <1>1
<1>3. /\ Reread(t) \in Table
      /\ Reread(t).row = <<Head(t.row)>> /\ Reread(t).column = <<Head(t.column)>>
      /\ Reread(t).filters = t.filters
  <2> DEFINE rows == <<Head(t.row)>>
             columns == <<Head(t.column)>>
  <2>1. rows \in Seq(Paths) /\ columns \in Seq(Paths)
    BY <1>2
  <2>2. Reread(t) = [t EXCEPT !.row = rows, !.column = columns, !.values = {}]
    BY DEF Reread
  <2> HIDE DEF rows, columns
  <2>3. Reread(t) \in Table /\ Reread(t).row = rows /\ Reread(t).column = columns
        /\ Reread(t).filters = t.filters
    BY <2>1, <2>2 DEF Table
  <2> QED
    BY <2>3 DEF rows, columns
<1>4. Reread(t) # NoTable
  BY <1>3, NothingAssumption
<1>5. ASSUME NEW axis \in Seq(Paths), axis # <<>>
      PROVE  /\ SameFirst(<<Head(axis)>>, axis) /\ <<Head(axis)>> # <<>>
             /\ Len(axis) = 1 => <<Head(axis)>> = axis
  BY <1>5 DEF SameFirst
<1> QED
  BY <1>1, <1>3, <1>4, <1>5 DEF Leveled, OneLevel

LEMMA NothingChosen ==
  Nothing \in Choice /\ InFixedBoxes(Nothing) = {} /\ Nothing.more = {}
<1>1. Nothing \in Choice /\ Nothing.row = <<>> /\ Nothing.column = <<>>
      /\ Nothing.displayed = {} /\ Nothing.more = {}
  BY DEF Nothing, Choice
<1>2. Range(<<>>) = {}
  BY DEF Range
<1> QED
  BY <1>1, <1>2 DEF InFixedBoxes

LEMMA InitInv ==
  ASSUME Init
  PROVE  Inv
<1>1. Nothing \in Choice /\ InFixedBoxes(Nothing) = {} /\ Nothing.more = {}
  BY NothingChosen
<1>2. TypeOK
  BY <1>1 DEF Init, TypeOK, Tables
<1>3. WindowOK
  BY <1>1 DEF Init, WindowOK, ListOK, FilesOK, FurtherOK, FilteredOK, AxesOK, Leveled
<1>4. ProjectOK
  BY DEF Init, ProjectOK, Saved
<1> QED
  BY <1>2, <1>3, <1>4 DEF Inv

(***************************************************************************)
(* Most steps leave the project file alone.                                *)
(***************************************************************************)
LEMMA SameProject ==
  ASSUME ProjectOK, project' = project
  PROVE  ProjectOK'
BY DEF ProjectOK, Saved, FilesOK, FilteredOK, AxesOK, SameFirst, Leveled,
       InFixedBoxes, Range

LEMMA SaveInv ==
  ASSUME Inv, SaveProject
  PROVE  Inv'
<1>1. TypeOK /\ WindowOK
  BY DEF Inv
<1>2. /\ data_frames' = data_frames /\ dataFilesList' = dataFilesList /\ offered' = offered
      /\ further' = further /\ choice' = choice /\ panel' = panel
      /\ active' = active /\ enabled' = enabled
      /\ table' = table /\ busy' = busy /\ since' = since
      /\ dataDisplayed' = dataDisplayed /\ disk' = disk /\ lost' = lost
  BY DEF SaveProject, window, boxes, display
<1>3. WindowOK'
  BY <1>1, <1>2
     DEF WindowOK, ListOK, FilesOK, FurtherOK, FilteredOK, AxesOK, SameFirst,
          Leveled, InFixedBoxes, Range
<1> DEFINE s == since \cup (IF busy THEN {"unfinished"} ELSE {})
<1>4. s \subseteq Events
  BY <1>1, Types DEF Events
<1> DEFINE c == WithMore(choice, {})
<1>5. /\ c \in Choice /\ c.row = choice.row /\ c.column = choice.column
      /\ InFixedBoxes(c) = InFixedBoxes(choice)
  BY <1>1, Types, ChoiceWithMore
<1>6. /\ State \in Projects
      /\ State.data_frames = data_frames /\ State.offered = offered
      /\ State.choice = c /\ State.active = active /\ State.table = table
      /\ State.since = s /\ State.lost = lost \ {"leftover"}
  <2> HIDE DEF s, c
  <2>1. State = [data_frames |-> data_frames, offered |-> offered, choice |-> c,
                 panel |-> panel, active |-> active, table |-> table,
                 since |-> s, lost |-> lost \ {"leftover"}]
    BY DEF State, s, c
  <2> QED
    BY <1>1, <1>4, <1>5, <2>1, Types DEF Projects
<1> HIDE DEF c
<1>7. project' \in {State, Truncated}
  BY DEF SaveProject
<1>8. TypeOK'
  BY <1>1, <1>2, <1>6, <1>7 DEF TypeOK
<1>9. ProjectOK'
  <2> SUFFICES ASSUME Saved'
               PROVE  /\ FilesOK(project'.lost, project'.data_frames,
                                 project'.offered, project'.choice)
                      /\ FilteredOK(project'.table, project'.since, project'.active)
                      /\ AxesOK(project'.table, project'.since, project'.choice)
                      /\ Leveled(project'.table)
    BY DEF ProjectOK, FilesOK, FilteredOK, AxesOK, SameFirst, Leveled, InFixedBoxes, Range
  <2>1. project' = State
    BY <1>7 DEF Saved
  <2>2. FilesOK(lost \ {"leftover"}, data_frames, offered, c)
    BY <1>1, <1>5 DEF WindowOK, FilesOK
  <2>3. FilteredOK(table, s, active)
    <3>1. CASE busy
      BY <3>1 DEF FilteredOK
    <3>2. CASE ~busy
      BY <3>2, <1>1 DEF WindowOK, FilteredOK
    <3> QED
      BY <3>1, <3>2
  <2>4. AxesOK(table, s, c) /\ Leveled(table)
    BY <1>1, <1>5 DEF WindowOK, AxesOK, SameFirst
  <2> QED
    BY <2>1, <2>2, <2>3, <2>4, <1>6
<1> QED
  BY <1>3, <1>8, <1>9 DEF Inv

(***************************************************************************)
(* Files come and go.                                                      *)
(***************************************************************************)
LEMMA AddFileInv ==
  ASSUME Inv, NEW path \in Paths, AddFile(path)
  PROVE  Inv'
<1>1. TypeOK /\ WindowOK /\ ProjectOK
  BY DEF Inv
<1>2. /\ data_frames' = data_frames \cup {path} /\ dataFilesList' = dataFilesList \cup {path}
      /\ offered' = offered \cup {path} /\ panel' = panel \cup {path}
      /\ enabled' \subseteq enabled \cup {"apply", "transpose"}
      /\ further' = further /\ choice' = choice /\ active' = active /\ table' = table
      /\ busy' = busy /\ since' = since /\ dataDisplayed' = dataDisplayed
      /\ project' = project /\ disk' = disk /\ lost' = lost
  BY DEF AddFile, display
<1>3. ProjectOK'
  BY <1>1, <1>2, SameProject
<1>4. TypeOK'
  BY <1>1, <1>2 DEF TypeOK, Controls
<1>5. WindowOK'
  BY <1>1, <1>2
     DEF WindowOK, ListOK, FilesOK, FurtherOK, FilteredOK, AxesOK, SameFirst,
          Leveled, InFixedBoxes, Range
<1> QED
  BY <1>3, <1>4, <1>5 DEF Inv

LEMMA RemoveFileInv ==
  ASSUME Inv, NEW path \in Paths, RemoveFile(path)
  PROVE  Inv'
<1>1. TypeOK /\ WindowOK /\ ProjectOK
  BY DEF Inv
<1>2. /\ dataFilesList' = dataFilesList \ {path}
      /\ data_frames' \in {data_frames, data_frames \ {path}}
      /\ lost' = lost \cup {"removed"}
      /\ offered' = offered /\ further' = further /\ panel' = panel /\ enabled' = enabled
      /\ choice' = choice /\ active' = active /\ table' = table /\ busy' = busy
      /\ since' = since /\ dataDisplayed' = dataDisplayed /\ project' = project
      /\ disk' = disk
  BY DEF RemoveFile, boxes, display
<1>3. ProjectOK'
  BY <1>1, <1>2, SameProject
<1>4. TypeOK'
  BY <1>1, <1>2 DEF TypeOK, Losses
<1>5. ListOK' /\ FilesOK(lost', data_frames', offered', choice')
  BY <1>1, <1>2
     DEF WindowOK, ListOK, FilesOK
<1>6. FurtherOK'
  BY <1>1, <1>2 DEF WindowOK, FurtherOK
<1>7. WindowOK'
  BY <1>1, <1>2, <1>5, <1>6
     DEF WindowOK, ListOK, FilesOK, FurtherOK, FilteredOK, AxesOK, SameFirst,
          Leveled, InFixedBoxes, Range
<1> QED
  BY <1>3, <1>4, <1>7 DEF Inv

LEMMA VanishInv ==
  ASSUME Inv, NEW path \in Paths, Vanish(path)
  PROVE  Inv'
<1>1. TypeOK /\ WindowOK /\ ProjectOK
  BY DEF Inv
<1>2. /\ data_frames' = data_frames /\ dataFilesList' = dataFilesList
      /\ offered' = offered /\ further' = further /\ panel' = panel /\ enabled' = enabled
      /\ choice' = choice /\ active' = active /\ table' = table /\ busy' = busy
      /\ since' = since /\ dataDisplayed' = dataDisplayed /\ project' = project
      /\ disk' \subseteq disk /\ lost' = lost
  BY DEF Vanish, boxes, display, window
<1>3. ProjectOK'
  BY <1>1, <1>2, SameProject
<1>4. TypeOK'
  BY <1>1, <1>2 DEF TypeOK
<1>5. WindowOK'
  BY <1>1, <1>2
     DEF WindowOK, ListOK, FilesOK, FurtherOK, FilteredOK, AxesOK, SameFirst,
          Leveled, InFixedBoxes, Range
<1> QED
  BY <1>3, <1>4, <1>5 DEF Inv

LEMMA ChooseInv ==
  ASSUME Inv, NEW c \in Selections, Choose(c)
  PROVE  Inv'
<1>1. TypeOK /\ WindowOK /\ ProjectOK
  BY DEF Inv
<1>2. /\ data_frames' = data_frames /\ dataFilesList' = dataFilesList
      /\ offered' = offered /\ panel' = panel /\ enabled' = enabled
      /\ choice' = c /\ active' = active /\ table' = table /\ busy' = busy
      /\ since' = since \cup {"chosen"} /\ dataDisplayed' = dataDisplayed
      /\ project' = project /\ disk' = disk /\ lost' = lost
      /\ InFixedBoxes(c) \subseteq offered /\ c.more \subseteq further'
      /\ further' \subseteq further \cup offered
  BY DEF Choose, FurtherBoxes
<1>3. ProjectOK'
  BY <1>1, <1>2, SameProject
<1>4. TypeOK'
  BY <1>1, <1>2, SelectionsAssumption DEF TypeOK, Events
<1>5. WindowOK'
  <2>1. FilesOK(lost, data_frames, offered, c)
    BY <1>1, <1>2 DEF WindowOK, FilesOK
  <2>2. busy \/ FilteredOK(table, since \cup {"chosen"}, active)
    BY <1>1 DEF WindowOK, FilteredOK
  <2>3. AxesOK(table, since \cup {"chosen"}, c)
    BY DEF AxesOK
  <2>4. FurtherOK'
    BY <1>1, <1>2 DEF WindowOK, FilesOK, FurtherOK
  <2> QED
    BY <1>1, <1>2, <2>1, <2>2, <2>3, <2>4
       DEF WindowOK, ListOK, FilesOK, FurtherOK, FilteredOK, AxesOK, SameFirst,
          Leveled, InFixedBoxes, Range
<1> QED
  BY <1>3, <1>4, <1>5 DEF Inv

(***************************************************************************)
(* How pivotData leaves the table: as it was, with a warning or with the   *)
(* indicator on, or new and made with the filters fs.                      *)
(***************************************************************************)
KeepsTable ==
  /\ table' = table
  /\ \/ since' = since \cup {"warned"} /\ busy' = busy
     \/ since' = since /\ busy' = TRUE

NewTable(fs) ==
  /\ PivotStarts
  /\ table' = Pivoted(fs)
  /\ since' = IF Concatenates /\ Len(choice.column) > 2 THEN {"cut"} ELSE {}
  /\ busy' = FALSE

LEMMA PivotEnds ==
  ASSUME NEW fs, PivotAgain(fs)
  PROVE  KeepsTable \/ NewTable(fs)
BY DEF PivotAgain, PivotInvalid, PivotRefuses, PivotFails, PivotShows, KeepsTable, NewTable

(***************************************************************************)
(* However pivotData ends, the display is right for the filters it used,   *)
(* provided the display was right or it was asked for a reason.            *)
(***************************************************************************)
LEMMA PivotedDisplay ==
  ASSUME TypeOK, WindowOK, NEW fs \in SUBSET Filters, KeepsTable \/ NewTable(fs)
  PROVE  /\ table' \in Tables /\ busy' \in BOOLEAN /\ since' \subseteq Events
         /\ busy' \/ FilteredOK(table', since', fs)
         /\ AxesOK(table', since', choice) /\ Leveled(table')
         /\ table' # NoTable \/ "warned" \in since' \/ busy'
         /\ table = NoTable \/ table' # NoTable
         /\ dataDisplayed /\ table' = NoTable => "warned" \in since'
<1>1. /\ choice \in Choice /\ table \in Tables /\ busy \in BOOLEAN /\ since \subseteq Events
  BY Types
<1>2. CASE NewTable(fs)
  <2> DEFINE many == Concatenates /\ Len(choice.column) > 2
             t == Pivoted(fs)
  <2>1. /\ t \in Table /\ t # NoTable /\ t.filters = fs /\ Leveled(t)
        /\ SameFirst(t.row, choice.row) /\ SameFirst(t.column, choice.column)
        /\ t.row = choice.row /\ (~many => t.column = choice.column)
    BY <1>1, <1>2, PivotedTable DEF NewTable
  <2>2. /\ table' = t /\ busy' = FALSE
        /\ since' = IF many THEN {"cut"} ELSE {}
    BY <1>2 DEF NewTable
  <2> HIDE DEF t, many
  <2>3. since' \subseteq Events /\ (~many <=> "cut" \notin since')
    BY <2>2 DEF Events
  <2>4. AxesOK(table', since', choice) /\ FilteredOK(table', since', fs)
    BY <2>1, <2>2, <2>3 DEF AxesOK, FilteredOK
  <2> QED
    BY <2>1, <2>2, <2>3, <2>4 DEF Tables
<1>3. CASE KeepsTable
  <2>1. /\ table' \in Tables /\ busy' \in BOOLEAN /\ since' \subseteq Events
    BY <1>1, <1>3 DEF KeepsTable, Events
  <2>2. "warned" \in since' \/ busy'
    BY <1>3 DEF KeepsTable
  <2>3. busy' \/ FilteredOK(table', since', fs)
    BY <2>2 DEF FilteredOK
  <2>4. since \subseteq since'
    BY <1>3 DEF KeepsTable
  <2>5. AxesOK(table', since', choice) /\ Leveled(table')
    BY <1>3, <2>4 DEF WindowOK, AxesOK, KeepsTable
  <2> QED
    BY <1>3, <2>1, <2>2, <2>3, <2>4, <2>5 DEF KeepsTable, WindowOK
<1> QED
  BY <1>2, <1>3

LEMMA ApplyInv ==
  ASSUME Inv, Apply
  PROVE  Inv'
<1>1. TypeOK /\ WindowOK /\ ProjectOK
  BY DEF Inv
<1>2. /\ data_frames' = data_frames /\ dataFilesList' = dataFilesList
      /\ offered' = offered /\ further' = further /\ panel' = panel
      /\ choice' = choice /\ active' = active
      /\ project' = project /\ disk' = disk /\ lost' = lost
  BY DEF Apply, boxes, window
<1>3. PivotAgain(active)
  BY DEF Apply, PivotAgain
<1>4. KeepsTable \/ NewTable(active)
  BY <1>3, PivotEnds
<1>5. active \in SUBSET Filters /\ enabled \subseteq Controls
      /\ dataDisplayed \in BOOLEAN /\ table \in Tables
  BY <1>1, Types
<1>6. /\ table' \in Tables /\ busy' \in BOOLEAN /\ since' \subseteq Events
      /\ busy' \/ FilteredOK(table', since', active)
      /\ AxesOK(table', since', choice) /\ Leveled(table')
      /\ dataDisplayed /\ table' = NoTable => "warned" \in since'
  BY <1>1, <1>4, <1>5, PivotedDisplay
<1>7. /\ enabled' \subseteq Controls /\ dataDisplayed' \in BOOLEAN
      /\ dataDisplayed => dataDisplayed'
  BY <1>5 DEF Apply, Controls, ShownIfReturned
<1>8. table' # NoTable => dataDisplayed'
  <2>1. CASE PivotRefuses \/ PivotShows(active)
    <3>1. CASE dataDisplayed' = ShownIfReturned(TRUE)
      BY <3>1 DEF ShownIfReturned
    <3>2. CASE dataDisplayed' # ShownIfReturned(TRUE)
      <4>1. PivotInvalid \/ PivotFails
        BY <3>2 DEF Apply
      <4>2. table' = table
        BY <4>1 DEF PivotInvalid, PivotFails
      <4> QED
        BY <4>2, <1>1, <1>7 DEF TypeOK
    <3> QED
      BY <3>1, <3>2
  <2>2. CASE PivotInvalid \/ PivotFails
    <3>1. table' = table
      BY <2>2 DEF PivotInvalid, PivotFails
    <3> QED
      BY <3>1, <1>1, <1>7 DEF TypeOK
  <2> QED
    BY <2>1, <2>2 DEF Apply
<1>9. dataDisplayed' /\ table' = NoTable => "warned" \in since'
  <2>1. CASE dataDisplayed
    BY <2>1, <1>6
  <2>2. CASE ~dataDisplayed /\ dataDisplayed'
    <3>1. PivotRefuses \/ PivotShows(active)
      BY <2>2 DEF Apply, ShownIfReturned
    <3>2. CASE PivotRefuses
      BY <3>2 DEF PivotRefuses
    <3>3. CASE PivotShows(active)
      <4>1. table' = Pivoted(active) /\ PivotStarts
        BY <3>3 DEF PivotShows
      <4> QED
        BY <4>1, <1>1, <1>5, Types, PivotedTable
    <3> QED
      BY <3>1, <3>2, <3>3
  <2> QED
    BY <2>1, <2>2
<1>10. ProjectOK'
  BY <1>1, <1>2, SameProject
<1>11. TypeOK'
  BY <1>1, <1>2, <1>6, <1>7, <1>8 DEF TypeOK
<1>12. WindowOK'
  BY <1>1, <1>2, <1>6, <1>9
     DEF WindowOK, ListOK, FilesOK, FurtherOK, FilteredOK, AxesOK, SameFirst,
          Leveled, InFixedBoxes, Range
<1> QED
  BY <1>10, <1>11, <1>12 DEF Inv

LEMMA EditFilterInv ==
  ASSUME Inv, NEW f \in Filters, EditFilter(f)
  PROVE  Inv'
<1>1. TypeOK /\ WindowOK /\ ProjectOK
  BY DEF Inv
<1>2. /\ data_frames' = data_frames /\ dataFilesList' = dataFilesList
      /\ offered' = offered /\ further' = further /\ panel' = panel
      /\ choice' = choice /\ enabled' = enabled
      /\ dataDisplayed' = dataDisplayed /\ project' = project /\ disk' = disk /\ lost' = lost
  BY DEF EditFilter, boxes
<1>3. active' \in SUBSET Filters
  BY <1>1, Types DEF EditFilter
<1>4. IF dataDisplayed THEN PivotAgain(active') ELSE UNCHANGED display
  BY DEF EditFilter, onNewFilterAdded
<1>5. ProjectOK'
  BY <1>1, <1>2, SameProject
<1>6. CASE dataDisplayed
  <2>1. KeepsTable \/ NewTable(active')
    BY <1>4, <1>6, PivotEnds
  <2>2. /\ table' \in Tables /\ busy' \in BOOLEAN /\ since' \subseteq Events
        /\ busy' \/ FilteredOK(table', since', active')
        /\ AxesOK(table', since', choice) /\ Leveled(table')
        /\ dataDisplayed /\ table' = NoTable => "warned" \in since'
    BY <1>1, <1>3, <2>1, PivotedDisplay
  <2>3. TypeOK'
    BY <1>1, <1>2, <1>3, <1>6, <2>2 DEF TypeOK
  <2>4. WindowOK'
    BY <1>1, <1>2, <2>2
       DEF WindowOK, ListOK, FilesOK, FurtherOK, FilteredOK, AxesOK, SameFirst,
          Leveled, InFixedBoxes, Range
  <2> QED
    BY <1>5, <2>3, <2>4 DEF Inv
<1>7. CASE ~dataDisplayed
  <2>1. table' = table /\ busy' = busy /\ since' = since
    BY <1>4, <1>7 DEF display
  <2>2. table = NoTable
    BY <1>1, <1>7 DEF TypeOK
  <2>3. TypeOK'
    BY <1>1, <1>2, <1>3, <2>1 DEF TypeOK
  <2>4. WindowOK'
    BY <1>1, <1>2, <2>1, <2>2
       DEF WindowOK, ListOK, FilesOK, FurtherOK, FilteredOK, AxesOK, SameFirst,
          Leveled, InFixedBoxes, Range
  <2> QED
    BY <1>5, <2>3, <2>4 DEF Inv
<1> QED
  BY <1>6, <1>7

LEMMA TransposeInv ==
  ASSUME Inv, TransposeView
  PROVE  Inv'
<1>1. TypeOK /\ WindowOK /\ ProjectOK
  BY DEF Inv
<1>2. /\ data_frames' = data_frames /\ dataFilesList' = dataFilesList
      /\ offered' = offered /\ further' = further /\ panel' = panel /\ enabled' = enabled
      /\ choice' = Transposed(choice) /\ active' = active /\ busy' = busy
      /\ since' = since /\ dataDisplayed' = dataDisplayed
      /\ project' = project /\ disk' = disk /\ lost' = lost
      /\ table' = IF table = NoTable THEN NoTable ELSE TransposedTable
  BY DEF TransposeView
<1>3. choice \in Choice /\ table \in Tables
  BY <1>1, Types
<1> DEFINE c == Transposed(choice)
<1>4. c \in Choice /\ c.row = choice.column /\ c.column = choice.row
      /\ c.more = choice.more /\ InFixedBoxes(c) = InFixedBoxes(choice)
  BY <1>3, TransposedChoice
<1> HIDE DEF c
<1>5. /\ table' \in Tables
      /\ table' = NoTable <=> table = NoTable
      /\ table # NoTable => /\ table'.filters = table.filters
                            /\ table'.row = table.column
                            /\ table'.column = table.row
  <2>1. CASE table = NoTable
    BY <2>1, <1>2 DEF Tables
  <2>2. CASE table # NoTable
    <3>1. table \in Table
      BY <2>2, <1>3 DEF Tables
    <3>2. table' = TransposedTable
      BY <2>2, <1>2
    <3> QED
      BY <2>2, <3>1, <3>2, TransposedShown, NothingAssumption DEF Tables
  <2> QED
    BY <2>1, <2>2
<1>6. ProjectOK'
  BY <1>1, <1>2, SameProject
<1>7. choice' = c
  BY <1>2 DEF c
<1>8. TypeOK'
  BY <1>1, <1>2, <1>4, <1>5, <1>7 DEF TypeOK
<1>9. FilesOK(lost, data_frames, offered, c)
  BY <1>1, <1>4 DEF WindowOK, FilesOK
<1>10. busy \/ FilteredOK(table', since, active)
  BY <1>1, <1>5 DEF WindowOK, FilteredOK
<1>11. AxesOK(table', since, c) /\ Leveled(table')
  BY <1>1, <1>4, <1>5 DEF WindowOK, AxesOK, SameFirst, Leveled
<1>12. ListOK' /\ FurtherOK'
  BY <1>1, <1>2, <1>4, <1>7 DEF WindowOK, ListOK, FurtherOK
<1>13. WindowOK'
  BY <1>1, <1>2, <1>5, <1>7, <1>9, <1>10, <1>11, <1>12
     DEF WindowOK, ListOK, FilesOK, FurtherOK, FilteredOK, AxesOK, SameFirst,
          Leveled, InFixedBoxes, Range
<1> QED
  BY <1>6, <1>8, <1>13 DEF Inv

(***************************************************************************)
(* Opening a project, completely or halfway.                               *)
(***************************************************************************)
LEMMA RestoredBoxes ==
  ASSUME TypeOK, ProjectOK, Saved, RestoreBoxes
  PROVE  /\ offered' \subseteq Paths /\ choice' \in Choice
         /\ choice'.row = project.choice.row /\ choice'.column = project.choice.column
         /\ InFixedBoxes(choice') = InFixedBoxes(project.choice)
         /\ choice'.more = choice.more /\ further' = further
         /\ offered' = project.offered
<1>1. project.choice \in Choice /\ project.offered \subseteq Paths
  BY ProjectParts
<1>2. choice.more \in SUBSET Paths
  BY Types, ChoiceParts
<1>3. choice' = WithMore(project.choice, choice.more) /\ offered' = project.offered
      /\ further' = further
  BY DEF RestoreBoxes
<1> QED
  BY <1>1, <1>2, <1>3, ChoiceWithMore

LEMMA OpenInv ==
  ASSUME Inv, OpenProject
  PROVE  Inv'
<1>1. TypeOK /\ WindowOK /\ ProjectOK /\ Saved
  BY DEF Inv, OpenProject
<1>2. /\ data_frames' = project.data_frames /\ dataFilesList' = project.data_frames
      /\ active' = project.active /\ panel' = panel \cup project.panel
      /\ since' = IF project.table = NoTable THEN since \cup {"opened"}
                  ELSE project.since \cup (IF OneLevel(project.table) THEN {} ELSE {"cut"})
      /\ lost' = project.lost \cup LeftOver
      /\ busy' = busy /\ project' = project /\ disk' = disk
  BY DEF OpenProject
<1>3. /\ table' = IF project.table = NoTable THEN table ELSE Reread(project.table)
      /\ enabled' \subseteq enabled \cup {"filters", "transpose"}
      /\ dataDisplayed' = (dataDisplayed \/ project.table # NoTable)
  BY DEF OpenProject, RestoreTable
<1>4. /\ project.data_frames \subseteq Paths /\ project.panel \subseteq Paths
      /\ project.active \subseteq Filters /\ project.table \in Tables
      /\ project.since \subseteq Events /\ project.lost \subseteq Losses
  BY <1>1, ProjectParts
<1>5. /\ offered' \subseteq Paths /\ choice' \in Choice
      /\ choice'.row = project.choice.row /\ choice'.column = project.choice.column
      /\ InFixedBoxes(choice') = InFixedBoxes(project.choice)
      /\ choice'.more = choice.more /\ further' = further
      /\ offered' = project.offered
  BY <1>1, RestoredBoxes DEF OpenProject
<1>6. /\ FilesOK(project.lost, project.data_frames, project.offered, project.choice)
      /\ FilteredOK(project.table, project.since, project.active)
      /\ AxesOK(project.table, project.since, project.choice)
      /\ Leveled(project.table)
  BY <1>1 DEF ProjectOK
<1>7. /\ FilesOK(lost', data_frames', offered', choice')
      /\ ListOK' /\ FurtherOK'
  <2>1. FilesOK(lost', data_frames', offered', choice')
    BY <1>2, <1>5, <1>6 DEF FilesOK
  <2>2. ListOK'
    BY <1>2 DEF ListOK
  <2>3. FurtherOK'
    BY <1>1, <1>2, <1>5 DEF WindowOK, FurtherOK, LeftOver
  <2> QED
    BY <2>1, <2>2, <2>3
<1>8. FilteredOK(table', since', active') /\ AxesOK(table', since', choice')
      /\ Leveled(table')
      /\ (dataDisplayed' /\ table' = NoTable => "warned" \in since')
      /\ (table' # NoTable => dataDisplayed')
      /\ since' \subseteq Events /\ table' \in Tables
  <2>1. CASE project.table = NoTable
    <3>1. table' = table /\ since' = since \cup {"opened"} /\ dataDisplayed' = dataDisplayed
      BY <1>1, <1>2, <1>3, <2>1, Types
    <3>2. FilteredOK(table', since', active') /\ AxesOK(table', since', choice')
      BY <3>1 DEF FilteredOK, AxesOK
    <3>3. /\ dataDisplayed' /\ table' = NoTable => "warned" \in since'
          /\ Leveled(table')
          /\ table' # NoTable => dataDisplayed'
          /\ since' \subseteq Events /\ table' \in Tables
      BY <1>1, <3>1 DEF TypeOK, WindowOK, Events
    <3> QED
      BY <3>2, <3>3
  <2>2. CASE project.table # NoTable
    <3> DEFINE t == project.table
    <3>1. t \in Table
      BY <1>4, <2>2 DEF Tables
    <3>2. /\ table' = Reread(t) /\ dataDisplayed' = TRUE
          /\ since' = project.since \cup (IF OneLevel(t) THEN {} ELSE {"cut"})
      BY <1>2, <1>3, <2>2
    <3>3. /\ Reread(t) \in Table /\ Reread(t) # NoTable /\ Leveled(Reread(t))
          /\ Reread(t).filters = t.filters
          /\ SameFirst(Reread(t).row, t.row) /\ SameFirst(Reread(t).column, t.column)
          /\ OneLevel(t) => Reread(t).row = t.row /\ Reread(t).column = t.column
      BY <1>6, <2>2, <3>1, RereadTable
    <3>4. FilteredOK(t, project.since, project.active)
          /\ AxesOK(t, project.since, project.choice)
      BY <1>6
    <3>5. t # NoTable
      BY <2>2
    <3> HIDE DEF t
    <3>6. /\ project.since \subseteq since' /\ since' \subseteq Events
          /\ since' \subseteq project.since \cup {"cut"}
          /\ "cut" \notin since' => OneLevel(t)
      BY <1>4, <3>2 DEF Events
    <3>7. FilteredOK(table', since', active')
      BY <1>2, <3>2, <3>3, <3>4, <3>5, <3>6 DEF FilteredOK
    <3>8. AxesOK(table', since', choice')
      <4>1. SUFFICES ASSUME since' \cap {"chosen", "opened"} = {}
                     PROVE  /\ SameFirst(table'.row, choice'.row)
                            /\ SameFirst(table'.column, choice'.column)
                            /\ "cut" \notin since' =>
                                 table'.row = choice'.row /\ table'.column = choice'.column
        BY DEF AxesOK
      <4>2. /\ SameFirst(t.row, project.choice.row)
            /\ SameFirst(t.column, project.choice.column)
            /\ "cut" \notin since' =>
                 t.row = project.choice.row /\ t.column = project.choice.column
        BY <3>4, <3>5, <3>6, <4>1 DEF AxesOK
      <4> QED
        BY <1>5, <3>2, <3>3, <3>6, <4>2 DEF SameFirst
    <3> QED
      BY <3>2, <3>3, <3>6, <3>7, <3>8 DEF Tables
  <2> QED
    BY <2>1, <2>2
<1>9. lost' \subseteq Losses
  BY <1>2, <1>4 DEF LeftOver, Losses
<1>10. dataDisplayed' \in BOOLEAN
  BY <1>3
<1>11. enabled' \subseteq Controls
  BY <1>1, <1>3, Types DEF Controls
<1>12. ProjectOK'
  BY <1>1, <1>2, SameProject
<1>13. TypeOK'
  BY <1>1, <1>2, <1>4, <1>5, <1>8, <1>9, <1>10, <1>11 DEF TypeOK
<1>14. WindowOK'
  BY <1>2, <1>7, <1>8
     DEF WindowOK, ListOK, FilesOK, FurtherOK, FilteredOK, AxesOK, SameFirst,
          Leveled, InFixedBoxes, Range
<1> QED
  BY <1>12, <1>13, <1>14 DEF Inv

LEMMA OpenHalfwayInv ==
  ASSUME Inv, OpenHalfway
  PROVE  Inv'
<1>1. TypeOK /\ WindowOK /\ ProjectOK /\ Saved
  BY DEF Inv, OpenHalfway
<1>2. /\ since' = since \cup {"opened"} /\ lost' = project.lost \cup {"halfway"}
      /\ panel' = panel /\ active' = active /\ enabled' = enabled /\ table' = table
      /\ busy' = busy /\ dataDisplayed' = dataDisplayed
      /\ project' = project /\ disk' = disk
  BY DEF OpenHalfway
<1>3. /\ project.data_frames \subseteq Paths /\ project.lost \subseteq Losses
  BY <1>1, ProjectParts
<1>4. data_frames' \subseteq project.data_frames /\ dataFilesList' = data_frames'
  BY DEF OpenHalfway
<1>5. /\ offered' \subseteq Paths /\ choice' \in Choice
      /\ choice'.more = choice.more /\ further' = further
  BY <1>1, RestoredBoxes DEF OpenHalfway
<1>6. "halfway" \in lost' /\ lost' \subseteq Losses
  BY <1>2, <1>3 DEF Losses
<1>7. ProjectOK'
  BY <1>1, <1>2, SameProject
<1>8. TypeOK'
  BY <1>1, <1>2, <1>3, <1>4, <1>5, <1>6 DEF TypeOK, Events
<1>9. FilteredOK(table', since', active') /\ AxesOK(table', since', choice')
  BY <1>2 DEF FilteredOK, AxesOK
<1>10. /\ FilesOK(lost', data_frames', offered', choice')
       /\ ListOK' /\ FurtherOK' /\ Leveled(table')
  <2>1. FilesOK(lost', data_frames', offered', choice')
    BY <1>6 DEF FilesOK
  <2>2. ListOK' /\ FurtherOK' /\ Leveled(table')
    BY <1>1, <1>2, <1>4, <1>5, <1>6 DEF WindowOK, ListOK, FurtherOK
  <2> QED
    BY <2>1, <2>2
<1>11. dataDisplayed' /\ table' = NoTable => "warned" \in since'
  BY <1>1, <1>2 DEF WindowOK
<1>12. WindowOK'
  BY <1>6, <1>9, <1>10, <1>11
     DEF WindowOK, ListOK, FilesOK, FurtherOK, FilteredOK, AxesOK, SameFirst,
          Leveled, InFixedBoxes, Range
<1> QED
  BY <1>7, <1>8, <1>12 DEF Inv

LEMMA RestartInv ==
  ASSUME Inv, Restart
  PROVE  Inv'
<1>1. TypeOK /\ ProjectOK
  BY DEF Inv
<1>2. /\ data_frames' = {} /\ dataFilesList' = {} /\ offered' = {}
      /\ further' = {} /\ choice' = Nothing
      /\ panel' = {} /\ active' = {} /\ enabled' = {}
      /\ table' = NoTable /\ busy' = FALSE /\ since' = {}
      /\ dataDisplayed' = FALSE /\ lost' = {}
      /\ project' = project /\ disk' = disk
  BY DEF Restart
<1>3. Nothing \in Choice /\ InFixedBoxes(Nothing) = {} /\ Nothing.more = {}
  BY NothingChosen
<1>4. ProjectOK'
  BY <1>1, <1>2, SameProject
<1>5. TypeOK'
  BY <1>1, <1>2, <1>3 DEF TypeOK, Tables
<1>6. WindowOK'
  <2>1. FilesOK({}, {}, {}, Nothing)
    BY <1>3 DEF FilesOK
  <2> QED
    BY <1>2, <1>3, <2>1
       DEF WindowOK, ListOK, FilesOK, FurtherOK, FilteredOK, AxesOK, SameFirst,
          Leveled, InFixedBoxes, Range
<1> QED
  BY <1>4, <1>5, <1>6 DEF Inv

LEMMA StutterInv ==
  ASSUME Inv, UNCHANGED vars
  PROVE  Inv'
<1>1. TypeOK /\ WindowOK /\ ProjectOK
  BY DEF Inv
<1>2. /\ data_frames' = data_frames /\ dataFilesList' = dataFilesList
      /\ offered' = offered /\ further' = further /\ panel' = panel /\ enabled' = enabled
      /\ choice' = choice /\ active' = active /\ table' = table /\ busy' = busy
      /\ since' = since /\ dataDisplayed' = dataDisplayed /\ project' = project
      /\ disk' = disk /\ lost' = lost
  BY DEF vars, boxes, display, window
<1>3. ProjectOK'
  BY <1>1, <1>2, SameProject
<1>4. TypeOK'
  BY <1>1, <1>2 DEF TypeOK
<1>5. WindowOK'
  BY <1>1, <1>2
     DEF WindowOK, ListOK, FilesOK, FurtherOK, FilteredOK, AxesOK, SameFirst,
          Leveled, InFixedBoxes, Range
<1> QED
  BY <1>3, <1>4, <1>5 DEF Inv

LEMMA NextInv ==
  ASSUME Inv, [Next]_vars
  PROVE  Inv'
<1>1. CASE \E path \in Paths : AddFile(path) \/ RemoveFile(path) \/ Vanish(path)
  BY <1>1, AddFileInv, RemoveFileInv, VanishInv
<1>2. CASE \E c \in Selections : Choose(c)
  BY <1>2, ChooseInv
<1>3. CASE \E f \in Filters : EditFilter(f)
  BY <1>3, EditFilterInv
<1>4. CASE Apply
  BY <1>4, ApplyInv
<1>5. CASE TransposeView
  BY <1>5, TransposeInv
<1>6. CASE SaveProject
  BY <1>6, SaveInv
<1>7. CASE OpenProject
  BY <1>7, OpenInv
<1>8. CASE OpenHalfway
  BY <1>8, OpenHalfwayInv
<1>9. CASE Restart
  BY <1>9, RestartInv
<1>10. CASE UNCHANGED vars
  BY <1>10, StutterInv
<1> QED
  BY <1>1, <1>2, <1>3, <1>4, <1>5, <1>6, <1>7, <1>8, <1>9, <1>10 DEF Next

(***************************************************************************)
(* The invariant from which the theorems follow.                           *)
(***************************************************************************)
THEOREM Invariance == Spec => []Inv
<1>1. Init => Inv
  BY InitInv
<1>2. Inv /\ [Next]_vars => Inv'
  BY NextInv
<1> QED
  BY <1>1, <1>2, PTL DEF Spec

(***************************************************************************)
(* The window is well typed, and shows a table only when it counts data as *)
(* displayed (__main__.py:60-84, 298-315).                                 *)
(***************************************************************************)
THEOREM TypeCorrect == Spec => []TypeOK
<1>1. Inv => TypeOK
  BY DEF Inv
<1> QED
  BY <1>1, Invariance, PTL

(***************************************************************************)
(* The list shows none but open files, and all of them but for removals;   *)
(* the columns chosen in the boxes of the window are in open files but for *)
(* removals and projects opened halfway, those in the further boxes also   *)
(* but for projects without a file these list (__main__.py:273-285,        *)
(* 333-345, 574-594).                                                      *)
(***************************************************************************)
THEOREM FilesStayTogether == Spec => []FilesAgree
<1>1. Inv => FilesAgree
  BY DEF Inv, WindowOK, ListOK, FilesOK, FurtherOK, FilesAgree
<1> QED
  BY <1>1, Invariance, PTL

(***************************************************************************)
(* A table that was not made with the active filters shows, as long as no  *)
(* project without a table was opened over it and it is not from a project *)
(* saved while a pivot was unfinished (__main__.py:93-95, 290-296,         *)
(* 358-395).                                                               *)
(***************************************************************************)
THEOREM StaleTableShows == Spec => []ShownIsFiltered
<1>1. Inv => ShownIsFiltered
  BY DEF Inv, WindowOK, FilteredOK, ShownIsFiltered
<1> QED
  BY <1>1, Invariance, PTL

(***************************************************************************)
(* The axes of the table begin with the levels the boxes show first,       *)
(* through transpositions and projects, until a box is clicked or a        *)
(* project opened over the table; and they have all levels unless pivot or *)
(* a project file cut some (__main__.py:287-292, 307-311, 482-496).        *)
(***************************************************************************)
THEOREM AxesAgree == Spec => []TableMatchesBoxes
<1>1. Inv => TableMatchesBoxes
  BY DEF Inv, WindowOK, AxesOK, TableMatchesBoxes
<1> QED
  BY <1>1, Invariance, PTL

(***************************************************************************)
(* Emptying the project file is announced by a refusal.                    *)
(***************************************************************************)
EmptiesWarned == Saved /\ project' = Truncated => "warned" \in since

(***************************************************************************)
(* Saving never empties a project file but after a refused table           *)
(* (__main__.py:309-323, 477-479).                                         *)
(***************************************************************************)
THEOREM SavesKeepProject == Spec => ProjectIntact
<1>1. Inv /\ [Next]_vars => [EmptiesWarned]_vars
  <2> SUFFICES ASSUME Inv, [Next]_vars, Saved, project' = Truncated
               PROVE  "warned" \in since
    BY DEF EmptiesWarned
  <2>1. project' # project
    BY DEF Saved
  <2>2. SaveProject
    BY <2>1 DEF Next, vars, AddFile, RemoveFile, Vanish, Choose, EditFilter, Apply,
                TransposeView, OpenProject, OpenHalfway, Restart
  <2>3. State # Truncated
    <3>1. TypeOK
      BY DEF Inv
    <3> DEFINE s == since \cup (IF busy THEN {"unfinished"} ELSE {})
               c == WithMore(choice, {})
    <3>2. s \subseteq Events /\ c \in Choice
      BY <3>1, Types, ChoiceWithMore DEF Events
    <3> HIDE DEF s, c
    <3>3. State = [data_frames |-> data_frames, offered |-> offered, choice |-> c,
                   panel |-> panel, active |-> active, table |-> table,
                   since |-> s, lost |-> lost \ {"leftover"}]
      BY DEF State, s, c
    <3>4. State \in Projects
      BY <3>1, <3>2, <3>3, Types DEF Projects
    <3> QED
      BY <3>4, NothingAssumption
  <2>4. dataDisplayed /\ table = NoTable
    BY <2>2, <2>3 DEF SaveProject
  <2> QED
    BY <2>4 DEF Inv, WindowOK
<1>2. ProjectIntact <=> [][EmptiesWarned]_vars
  BY DEF ProjectIntact, EmptiesWarned
<1> QED
  BY <1>1, <1>2, Invariance, PTL DEF Spec
=============================================================================
