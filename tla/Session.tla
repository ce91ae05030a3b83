------------------------------ MODULE Session ------------------------------
(***************************************************************************)
(* A session of the C.Profiler window, src/cp/__main__.py: data files are  *)
(* opened and removed, columns chosen, tables pivoted, filtered and        *)
(* transposed, projects saved and opened, and the program started anew.    *)
(*                                                                         *)
(* Every handler may stop halfway: on a message, on an exception that Qt   *)
(* prints and forgets, or because pivot (src/cp/pivot.py) failed in the    *)
(* thread it runs in.  What the handler did until then stays.  The boxes   *)
(* and the filter panel have modules of their own (PivotCombos,            *)
(* FilterWidget); here a box is the file its chosen column is in, and a    *)
(* filter is active or not.                                                *)
(***************************************************************************)
EXTENDS Integers, SequencesExt

CONSTANTS
  Paths,         \* data files on disk
  Names,         \* their base names
  Basename,      \* os.path.basename, a function from Paths to Names
  ColumnsOf,     \* the names of the columns of a file, index included
  Selections,    \* what the user may have chosen in the boxes
  Filters,       \* filters the user may add
  NameOf,        \* the name of the file a filter is for
  Unreadable,    \* filters that DataFrame.query cannot parse
  NoTable, NoProject, Truncated,
  MaxSteps       \* bound: steps of a run

(***************************************************************************)
(* The files of the columns chosen in the row boxes and the column boxes,  *)
(* level by level, in the first box for displayed values and in the        *)
(* further ones, and whether a box is empty that stands before a chosen    *)
(* one.                                                                    *)
(***************************************************************************)
Choice == [row : Seq(Paths), column : Seq(Paths), displayed : SUBSET Paths,
           more : SUBSET Paths, gap : BOOLEAN]

ASSUME SelectionsAssumption == Selections \subseteq Choice
ASSUME BasenameAssumption == Basename \in [Paths -> Names]
ASSUME FiltersAssumption == NameOf \in [Filters -> Names] /\ Unreadable \subseteq Filters

(***************************************************************************)
(* A table is the levels of its rows and columns, which of the two has one *)
(* more level for the names of several displayed values, and the filters   *)
(* it was made with; a project file holds the state of the window, with    *)
(* the history of its table and its files.                                 *)
(***************************************************************************)
Axes == {"row", "column"}
Table == [row : Seq(Paths), column : Seq(Paths), values : SUBSET Axes,
          filters : SUBSET Filters]
Tables == Table \cup {NoTable}

Controls == {"apply", "transpose", "filters"}
Events == {"chosen", "warned", "opened", "unfinished", "cut"}
Losses == {"removed", "halfway", "leftover"}

Projects ==
  [data_frames : SUBSET Paths, offered : SUBSET Paths, choice : Choice,
   panel : SUBSET Paths, active : SUBSET Filters, table : Tables,
   since : SUBSET Events, lost : SUBSET Losses]

ASSUME NothingAssumption ==
  NoTable \notin Table /\ {NoProject, Truncated} \cap Projects = {} /\ NoProject # Truncated

VARIABLES
  data_frames,   \* the paths that are keys of the dictionary
  dataFilesList, \* the paths listed on the screen
  offered,       \* the files whose columns the boxes list
  further,       \* those the further boxes for displayed values list, if any
  choice,        \* what is chosen in the boxes
  panel,         \* the files for which the filter panel offers new filters
  active,        \* the active filters
  enabled,       \* which of the buttons and panels below are enabled
  table,         \* what the table on display was made from, or NoTable
  dataDisplayed,
  busy,          \* the progress indicator turns
  project,       \* the project file: none, empty, or what it holds
  disk,          \* the data files that can be read
  since,         \* history: what happened since the table was made
  lost,          \* history: how files and choices were torn apart
  steps          \* history: steps taken

boxes == <<offered, further, choice>>
window == <<data_frames, dataFilesList, boxes, panel, active>>
display == <<table, busy, since>>
vars == <<window, enabled, display, dataDisplayed, project, disk, lost, steps>>

Nothing ==
  [row |-> <<>>, column |-> <<>>, displayed |-> {}, more |-> {}, gap |-> FALSE]

\* The boxes of the window, and those that come and go.
InFixedBoxes(c) == Range(c.row) \cup Range(c.column) \cup c.displayed
ChosenIn(c) == InFixedBoxes(c) \cup c.more

Init ==
  /\ data_frames = {} /\ dataFilesList = {} /\ offered = {} /\ further = {}
  /\ choice = Nothing
  /\ panel = {} /\ active = {}
  /\ enabled = {}
  /\ table = NoTable /\ busy = FALSE /\ since = {}
  /\ dataDisplayed = FALSE
  /\ lost = {}
  /\ project = NoProject
  /\ disk = Paths
  /\ steps = 0

Step == steps < MaxSteps /\ steps' = steps + 1

(***************************************************************************)
(* addDataFile for one path: a file that is open already, or cannot be     *)
(* read, changes nothing.  The further boxes do not get its columns.       *)
(***************************************************************************)
AddFile(path) ==
  /\ Step
  /\ path \in disk \ data_frames
  /\ data_frames' = data_frames \cup {path}
  /\ dataFilesList' = dataFilesList \cup {path}
  /\ offered' = offered \cup {path}
  /\ panel' = panel \cup {path}
  /\ enabled' = IF data_frames = {} THEN enabled \cup {"apply", "transpose"} ELSE enabled
  /\ UNCHANGED <<further, choice, active, display, dataDisplayed, project, disk, lost>>

(***************************************************************************)
(* _onRemoveFileButtonClicked asks for the data with a type, ItemDataRole, *)
(* for the role.  PySide may refuse the call, answer None, with which the  *)
(* deletion fails when the line is gone, or answer the path.               *)
(***************************************************************************)
RemoveFile(path) ==
  /\ Step
  /\ path \in dataFilesList
  /\ dataFilesList' = dataFilesList \ {path}
  /\ data_frames' \in {data_frames, data_frames \ {path}}
  /\ lost' = lost \cup {"removed"}
  /\ UNCHANGED <<boxes, panel, active, enabled, display, dataDisplayed, project, disk>>

(***************************************************************************)
(* The user clicks in the boxes, and on Clear, until they show c.  A       *)
(* choice in the first box for displayed values makes a further box, with  *)
(* the items of the first; an empty choice there removes those behind it,  *)
(* Clear does not, and a choice by the wheel makes none.                   *)
(***************************************************************************)
FurtherBoxes == {{}, offered, further, further \cup offered}

Choose(c) ==
  /\ Step
  /\ c # choice
  /\ InFixedBoxes(c) \subseteq offered
  /\ further' \in FurtherBoxes
  /\ c.more \subseteq further'
  /\ choice' = c
  /\ since' = since \cup {"chosen"}
  /\ UNCHANGED <<data_frames, dataFilesList, offered, panel, active, enabled,
                 table, busy, dataDisplayed, project, disk, lost>>
-----------------------------------------------------------------------------
(***************************************************************************)
(* pivot merges the data frames it needs in the order of a dictionary,     *)
(* each with what was merged before it by the columns they share.          *)
(***************************************************************************)
Merges(order) ==
  \A i \in DOMAIN order : i > 1 =>
    \E j \in 1..(i - 1) : ColumnsOf[order[i]] \cap ColumnsOf[order[j]] # {}

Readable(fs) ==
  \A f \in fs \cap Unreadable : \A path \in data_frames : Basename[path] # NameOf[f]

(***************************************************************************)
(* The four ways pivotData ends.  No column or displayed value, or a gap:  *)
(* a message, and the None of _getComboChoices is unpacked (TypeError).    *)
(***************************************************************************)
PivotInvalid ==
  /\ choice.gap \/ choice.displayed = {}
  /\ since' = since \cup {"warned"}
  /\ UNCHANGED <<table, busy>>

PivotRefuses ==
  /\ ~choice.gap /\ choice.displayed # {}
  /\ <<>> \in {choice.row, choice.column}
  /\ since' = since \cup {"warned"}
  /\ UNCHANGED <<table, busy>>

PivotStarts ==
  ~choice.gap /\ choice.displayed # {} /\ <<>> \notin {choice.row, choice.column}

(***************************************************************************)
(* An exception in the thread, for one of the reasons below or because of  *)
(* the data, is lost; ret[0] then raises, and the indicator goes on.       *)
(***************************************************************************)
PivotFails ==
  /\ PivotStarts
  /\ busy' = TRUE
  /\ UNCHANGED <<table, since>>

(***************************************************************************)
(* The tables of several displayed values are put side by side, with their *)
(* names as one more level of the columns.  _concat_data_frames then takes *)
(* no more than two of the levels there were.                              *)
(***************************************************************************)
Concatenates == choice.more # {}
TwoLevels(axis) == IF Len(axis) > 2 THEN SubSeq(axis, 1, 2) ELSE axis

Pivoted(fs) ==
  [row |-> choice.row,
   column |-> IF Concatenates THEN TwoLevels(choice.column) ELSE choice.column,
   values |-> IF Concatenates THEN {"column"} ELSE {},
   filters |-> fs]

PivotShows(fs) ==
  /\ PivotStarts
  /\ ChosenIn(choice) \subseteq data_frames
  /\ \E order \in SetToSeqs(ChosenIn(choice)) : Merges(order)
  /\ Readable(fs)
  /\ table' = Pivoted(fs)
  /\ busy' = FALSE
  /\ since' = IF Concatenates /\ Len(choice.column) > 2 THEN {"cut"} ELSE {}

(***************************************************************************)
(* The Apply button.  The first time pivotData returns, with a table or    *)
(* not, data counts as displayed; the panels are only enabled if there is  *)
(* a model to connect to.  Slip: the flag is set before pivotData runs.    *)
(***************************************************************************)
ShownAtOnce(returned) == TRUE
ShownIfReturned(returned) == dataDisplayed \/ returned

Apply ==
  /\ Step
  /\ "apply" \in enabled
  /\ \/ /\ PivotInvalid \/ PivotFails
        /\ dataDisplayed' = ShownIfReturned(FALSE)
        /\ UNCHANGED enabled
     \/ /\ PivotRefuses \/ PivotShows(active)
        /\ dataDisplayed' = ShownIfReturned(TRUE)
        /\ enabled' = enabled \cup {"transpose"} \cup
                        (IF ~dataDisplayed /\ table' # NoTable THEN {"filters"} ELSE {})
  /\ UNCHANGED <<window, project, disk, lost>>

(***************************************************************************)
(* A filter is added, ticked, unticked or removed, and newFilterAdded is   *)
(* delivered to onNewFilterAdded.  Slip: only with the filter added.       *)
(***************************************************************************)
PivotAgain(fs) ==
  \/ PivotInvalid \/ PivotRefuses \/ PivotFails \/ PivotShows(fs)

OnNewFilterIfNone(fs) ==
  IF dataDisplayed /\ active = {} THEN PivotAgain(fs) ELSE UNCHANGED display

onNewFilterAdded(fs) ==
  IF dataDisplayed THEN PivotAgain(fs) ELSE UNCHANGED display

EditFilter(f) ==
  /\ Step
  /\ "filters" \in enabled
  /\ \E path \in panel : Basename[path] = NameOf[f]
  /\ active' = IF f \in active THEN active \ {f} ELSE active \cup {f}
  /\ onNewFilterAdded(active')
  /\ UNCHANGED <<data_frames, dataFilesList, boxes, panel, enabled,
                 dataDisplayed, project, disk, lost>>

(***************************************************************************)
(* The rows of a choice become its columns.  Slip: the states of the boxes *)
(* are fetched one after the other, when the columns already have changed. *)
(***************************************************************************)
TransposedInPlace(c) == [c EXCEPT !.column = c.row]
Transposed(c) == [c EXCEPT !.row = c.column, !.column = c.row]

(***************************************************************************)
(* The table is transposed by pandas, if there is one; getDataFrame fails  *)
(* otherwise, with the boxes changed.                                      *)
(***************************************************************************)
Opposite(axis) == IF axis = "row" THEN "column" ELSE "row"

TransposedTable ==
  [table EXCEPT !.row = table.column, !.column = table.row,
                !.values = {Opposite(axis) : axis \in table.values}]

TransposeView ==
  /\ Step
  /\ "transpose" \in enabled
  /\ choice' = Transposed(choice)
  /\ table' = IF table = NoTable THEN NoTable ELSE TransposedTable
  /\ UNCHANGED <<data_frames, dataFilesList, offered, further, panel, active, enabled,
                 busy, since, dataDisplayed, project, disk, lost>>
-----------------------------------------------------------------------------
(***************************************************************************)
(* saveProjectAs truncates the file first; getState then fails if data     *)
(* counts as displayed and there is no table.  The further boxes are not   *)
(* saved.  Nor is it that a pivot failed: the history remembers it.        *)
(***************************************************************************)
WithMore(c, more) == [c EXCEPT !.more = more]

State == [data_frames |-> data_frames, offered |-> offered,
          choice |-> WithMore(choice, {}),
          panel |-> panel, active |-> active, table |-> table,
          since |-> since \cup (IF busy THEN {"unfinished"} ELSE {}),
          lost |-> lost \ {"leftover"}]

SaveProject ==
  /\ Step
  /\ project' = IF dataDisplayed /\ table = NoTable THEN Truncated ELSE State
  /\ UNCHANGED <<window, enabled, display, dataDisplayed, disk, lost>>

(***************************************************************************)
(* setState restores one box for displayed values; the further ones stay,  *)
(* with their columns and choices.  Slip: the fixed boxes do not get their *)
(* columns either.                                                         *)
(***************************************************************************)
RestoreChoiceOnly ==
  /\ choice' = WithMore(project.choice, choice.more)
  /\ UNCHANGED <<offered, further>>

RestoreBoxes ==
  /\ offered' = project.offered
  /\ choice' = WithMore(project.choice, choice.more)
  /\ UNCHANGED further

LeftOver == IF further \subseteq project.data_frames THEN {} ELSE {"leftover"}

(***************************************************************************)
(* The table is saved as CSV, every level of its rows a column of the file *)
(* and every level of its columns a line, and read back with one of each   *)
(* for labels: the levels behind the first become data.                    *)
(***************************************************************************)
OneLevel(t) == t.values = {} /\ Len(t.row) = 1 /\ Len(t.column) = 1

Reread(t) ==
  [t EXCEPT !.row = <<Head(t.row)>>, !.column = <<Head(t.column)>>, !.values = {}]

(***************************************************************************)
(* openProject, when every file of the project can be read.  A table on    *)
(* display stays if the project has none.  Slip: nothing marks the table   *)
(* of the project as displayed.                                            *)
(***************************************************************************)
RestoreTableUnmarked ==
  /\ table' = IF project.table = NoTable THEN table ELSE Reread(project.table)
  /\ enabled' = enabled \cup {"filters"} \cup
                  (IF project.table = NoTable THEN {} ELSE {"transpose"})
  /\ UNCHANGED dataDisplayed

RestoreTable ==
  /\ table' = IF project.table = NoTable THEN table ELSE Reread(project.table)
  /\ enabled' = enabled \cup {"filters"} \cup
                  (IF project.table = NoTable THEN {} ELSE {"transpose"})
  /\ dataDisplayed' = (dataDisplayed \/ project.table # NoTable)

Saved == project \notin {NoProject, Truncated}

OpenProject ==
  /\ Step
  /\ Saved /\ project.data_frames \subseteq disk
  /\ RestoreBoxes
  /\ data_frames' = project.data_frames
  /\ dataFilesList' = project.data_frames
  /\ active' = project.active
  /\ panel' = panel \cup project.panel
  /\ RestoreTable
  /\ since' = IF project.table = NoTable THEN since \cup {"opened"}
              ELSE project.since \cup (IF OneLevel(project.table) THEN {} ELSE {"cut"})
  /\ lost' = project.lost \cup LeftOver
  /\ UNCHANGED <<busy, project, disk>>

(***************************************************************************)
(* openProject, when a file is missing: the boxes are those of the project *)
(* and some of its files are open; all else is as it was.                  *)
(***************************************************************************)
OpenHalfway ==
  /\ Step
  /\ Saved /\ ~(project.data_frames \subseteq disk)
  /\ RestoreBoxes
  /\ \E read \in SUBSET (project.data_frames \cap disk) :
       data_frames' = read /\ dataFilesList' = read
  /\ since' = since \cup {"opened"}
  /\ lost' = project.lost \cup {"halfway"}
  /\ UNCHANGED <<panel, active, enabled, table, busy, dataDisplayed, project, disk>>

Restart ==
  /\ Step
  /\ data_frames' = {} /\ dataFilesList' = {} /\ offered' = {} /\ further' = {}
  /\ choice' = Nothing
  /\ panel' = {} /\ active' = {}
  /\ enabled' = {}
  /\ table' = NoTable /\ busy' = FALSE /\ since' = {}
  /\ dataDisplayed' = FALSE
  /\ lost' = {}
  /\ UNCHANGED <<project, disk>>

(***************************************************************************)
(* Outside the program a data file is moved away.                          *)
(***************************************************************************)
Vanish(path) ==
  /\ Step
  /\ path \in disk
  /\ disk' = disk \ {path}
  /\ UNCHANGED <<window, enabled, display, dataDisplayed, project, lost>>

Next ==
  \/ \E path \in Paths : AddFile(path) \/ RemoveFile(path) \/ Vanish(path)
  \/ \E c \in Selections : Choose(c)
  \/ \E f \in Filters : EditFilter(f)
  \/ Apply
  \/ TransposeView
  \/ SaveProject
  \/ OpenProject
  \/ OpenHalfway
  \/ Restart

Spec == Init /\ [][Next]_vars
-----------------------------------------------------------------------------
(***************************************************************************)
(* Types (__main__.py:60-84, 298-315); a table is only on display when the *)
(* window counts data as displayed.                                        *)
(***************************************************************************)
TypeOK ==
  /\ {data_frames, dataFilesList, offered, further, panel, disk} \subseteq SUBSET Paths
  /\ choice \in Choice
  /\ active \subseteq Filters
  /\ enabled \subseteq Controls
  /\ table \in Tables
  /\ {busy, dataDisplayed} \subseteq BOOLEAN
  /\ project \in {NoProject, Truncated} \cup Projects
  /\ since \subseteq Events /\ lost \subseteq Losses
  /\ table # NoTable => dataDisplayed

(***************************************************************************)
(* Every file on the screen is open, and the screen shows all open files   *)
(* unless one was removed.  The boxes of the window have columns of open   *)
(* files, so that pivot finds them, unless a file was removed or a project *)
(* opened halfway, now or before the project was saved.  The further boxes *)
(* have, too, unless a project was opened that lacks a file they list      *)
(* (__main__.py:273-285, 333-345, 574-594).                                *)
(***************************************************************************)
FilesAgree ==
  /\ dataFilesList \subseteq data_frames
  /\ "removed" \notin lost => dataFilesList = data_frames
  /\ lost \cap {"removed", "halfway"} = {} => InFixedBoxes(choice) \subseteq data_frames
  /\ lost = {} => choice.more \subseteq data_frames

(***************************************************************************)
(* A table that was not made with the filters that are active now shows:   *)
(* the indicator turns, a message was given since, or a project was opened *)
(* over the table; unless it comes from a project that was saved while the *)
(* indicator turned (__main__.py:230-232, 290-296, 352-394).               *)
(***************************************************************************)
ShownIsFiltered ==
  table # NoTable /\ ~busy /\ since \subseteq {"chosen", "cut"} =>
    table.filters = active

(***************************************************************************)
(* Unless boxes were clicked or a project opened over it, the rows and     *)
(* columns of the table begin with the first level the boxes show for      *)
(* them, and have all their levels if none were cut: by a project file, if *)
(* an axis had several, or by several displayed values over three column   *)
(* boxes.  However often table and boxes are transposed, before and after  *)
(* (__main__.py:287-292, 307-311, 482-496; pivot.py:81-129).               *)
(***************************************************************************)
SameFirst(axis, chosen) == axis # <<>> /\ chosen # <<>> /\ Head(axis) = Head(chosen)

TableMatchesBoxes ==
  table # NoTable /\ since \cap {"chosen", "opened"} = {} =>
    /\ SameFirst(table.row, choice.row) /\ SameFirst(table.column, choice.column)
    /\ "cut" \notin since => table.row = choice.row /\ table.column = choice.column

(***************************************************************************)
(* A project file that was saved is never replaced by an empty one, unless *)
(* the user was refused a table before (__main__.py:309-310, 325-331,      *)
(* 359-366, 475-479).                                                      *)
(***************************************************************************)
ProjectIntact ==
  [][Saved /\ project' = Truncated => "warned" \in since]_vars
=============================================================================
