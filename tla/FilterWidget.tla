---------------------------- MODULE FilterWidget ----------------------------
(***************************************************************************)
(* The filter panel of the C.Profiler window, src/cp/gui/filter_widget.py.  *)
(*                                                                         *)
(* Every filter exists three times: in the dictionaries filters and        *)
(* filters_enabled, keyed by a number that is never shown; in the list     *)
(* filter_indices, which says which number stands in which row; and in the *)
(* table on the screen, whose check box and Remove button were bound, when *)
(* the row was made, to the number and not to the row.  Removing a row     *)
(* moves every later row up, so the widget is right only as long as the    *)
(* three copies stay in step.                                              *)
(*                                                                         *)
(* This module is one session of the widget without project files;         *)
(* FilterProject adds saving, opening and restarting.                      *)
(***************************************************************************)
EXTENDS Integers, SequencesExt

CONSTANTS
  Paths,          \* paths of the open data files
  Names,          \* base names of those files
  Basename,       \* os.path.basename, a function from Paths to Names
  Conditions,     \* what the user typed: column, comparison and value
  MaxFilters      \* bound: filters made in one session

ASSUME BasenameAssumption == Basename \in [Paths -> Names]
ASSUME MaxFiltersAssumption == MaxFilters \in Nat

VARIABLES
  filters,            \* filter number -> filter
  filters_enabled,    \* filter number -> its flag
  filter_indices,     \* the filter numbers, in table order
  cur_filter_number,  \* the number the next filter gets
  table,              \* the rows on the screen
  applied             \* the active filters when listeners were last told

vars == <<filters, filters_enabled, filter_indices, cur_filter_number,
          table, applied>>

Filter == [data_frame_name : Names, condition : Conditions]

(***************************************************************************)
(* A row shows a filter and a check box; index is the number its two       *)
(* widgets were bound to with functools.partial.                           *)
(***************************************************************************)
Row == [filter : Filter, index : Nat, checked : BOOLEAN]

(***************************************************************************)
(* Some definitions are preceded by variants with a plausible slip, each   *)
(* used to show that a property notices it.  Here: the filter names its    *)
(* file by the path, not by the base name that pivot looks it up by.       *)
(***************************************************************************)
NewFilterByPath(path, condition) ==
  [data_frame_name |-> path, condition |-> condition]

NewFilter(path, condition) ==
  [data_frame_name |-> Basename[path], condition |-> condition]

NextNumber == cur_filter_number + 1

(***************************************************************************)
(* A dictionary without one of its keys (Python's del).                    *)
(***************************************************************************)
Without(dict, key) == Restrict(dict, DOMAIN dict \ {key})

With(dict, key, value) ==
  [k \in DOMAIN dict \cup {key} |-> IF k = key THEN value ELSE dict[k]]

(***************************************************************************)
(* list.index: the first row of a number.  Slip: the number is the row.    *)
(***************************************************************************)
NumberAsRow(indices, number) ==
  IF number + 1 \in DOMAIN indices THEN number + 1 ELSE Len(indices)

RowOf(indices, number) ==
  CHOOSE i \in DOMAIN indices :
    /\ indices[i] = number
    /\ \A j \in DOMAIN indices : indices[j] = number => i <= j

(***************************************************************************)
(* getActiveFilters, as a function from the numbers to the filters.        *)
(***************************************************************************)
ActiveFilters(fs, enabled) ==
  [id \in {k \in DOMAIN fs : enabled[k]} |-> fs[id]]

(***************************************************************************)
(* newFilterAdded is delivered before emit returns, and every listener     *)
(* reads getActiveFilters at that moment.  Slips: it is emitted before the *)
(* change is stored, or not at all.                                        *)
(***************************************************************************)
EmitBeforeStore == applied' = ActiveFilters(filters, filters_enabled)

EmitNothing == UNCHANGED applied

EmitNewFilterAdded == applied' = ActiveFilters(filters', filters_enabled')

(***************************************************************************)
(* _insertNewFilterIntoTable ticks the box of a new row.  Slip: it does    *)
(* not, as Qt does by default.                                             *)
(***************************************************************************)
UntickedRow(filter, number) ==
  [filter |-> filter, index |-> number, checked |-> FALSE]

NewRow(filter, number) == [filter |-> filter, index |-> number, checked |-> TRUE]

-----------------------------------------------------------------------------
Init ==
  /\ filters = <<>>
  /\ filters_enabled = <<>>
  /\ filter_indices = <<>>
  /\ cur_filter_number = 0
  /\ table = <<>>
  /\ applied = <<>>

(***************************************************************************)
(* The user presses Add with a column of the file path chosen.             *)
(***************************************************************************)
AddFilter(path, condition) ==
  LET new_filter == NewFilter(path, condition)
  IN  /\ cur_filter_number < MaxFilters
      /\ table' = Append(table, NewRow(new_filter, cur_filter_number))
      /\ filters' = With(filters, cur_filter_number, new_filter)
      /\ filters_enabled' = With(filters_enabled, cur_filter_number, TRUE)
      /\ filter_indices' = Append(filter_indices, cur_filter_number)
      /\ cur_filter_number' = NextNumber
      /\ EmitNewFilterAdded

(***************************************************************************)
(* The user clicks the check box in a row: Qt flips the box, then calls    *)
(* the handler bound to the row's number.                                  *)
(***************************************************************************)
ToggleFilter(row) ==
  /\ row \in DOMAIN table
  /\ table' = [table EXCEPT ![row].checked = ~@]
  /\ filters_enabled' =
       With(filters_enabled, table[row].index, ~table[row].checked)
  /\ UNCHANGED <<filters, filter_indices, cur_filter_number>>
  /\ EmitNewFilterAdded

(***************************************************************************)
(* The user presses Remove in a row.  The row that goes is the one where   *)
(* filter_indices has the number.  With a number that is not in the list   *)
(* the handler raises before it changes anything.                          *)
(***************************************************************************)
DeleteFilter(row) ==
  /\ row \in DOMAIN table
  /\ LET number     == table[row].index
         row_number == RowOf(filter_indices, number)
     IN  /\ number \in Range(filter_indices)
         /\ table' = RemoveAt(table, row_number)
         /\ filters_enabled' = Without(filters_enabled, number)
         /\ filters' = Without(filters, number)
         /\ filter_indices' = RemoveAt(filter_indices, row_number)
  /\ UNCHANGED cur_filter_number
  /\ EmitNewFilterAdded

Next ==
  \/ \E path \in Paths, condition \in Conditions : AddFilter(path, condition)
  \/ \E row \in DOMAIN table : ToggleFilter(row)
  \/ \E row \in DOMAIN table : DeleteFilter(row)

Spec == Init /\ [][Next]_vars

-----------------------------------------------------------------------------
(***************************************************************************)
(* Types: the two dictionaries have filter numbers as keys, the list and   *)
(* the table are sequences (filter_widget.py:124-128).                     *)
(***************************************************************************)
TypeOK ==
  /\ cur_filter_number \in Nat
  /\ DOMAIN filters \subseteq Nat /\ filters \in [DOMAIN filters -> Filter]
  /\ DOMAIN filters_enabled \subseteq Nat
  /\ filters_enabled \in [DOMAIN filters_enabled -> BOOLEAN]
  /\ filter_indices \in Seq(Nat)
  /\ table \in Seq(Row)
  /\ DOMAIN applied \subseteq Nat /\ applied \in [DOMAIN applied -> Filter]

(***************************************************************************)
(* Every number handed out so far is below the next one, and no number     *)
(* stands in two rows: a number names one filter for the whole session.    *)
(***************************************************************************)
NumbersFresh ==
  /\ \A i \in DOMAIN filter_indices : filter_indices[i] < cur_filter_number
  /\ IsInjective(filter_indices)

(***************************************************************************)
(* The dictionaries hold exactly the numbers in the list, so no lookup in  *)
(* getActiveFilters or _deleteFilter raises KeyError.                      *)
(***************************************************************************)
DictsMatchList ==
  /\ DOMAIN filters = Range(filter_indices)
  /\ DOMAIN filters_enabled = Range(filter_indices)

(***************************************************************************)
(* What the user sees is what the widget holds: row i is bound to the i-th *)
(* number, shows that filter, and is ticked just when it is enabled.       *)
(***************************************************************************)
RowsMirrorFilters ==
  /\ Len(table) = Len(filter_indices)
  /\ \A i \in DOMAIN table :
       /\ table[i].index = filter_indices[i]
       /\ table[i].filter = filters[table[i].index]
       /\ table[i].checked = filters_enabled[table[i].index]

(***************************************************************************)
(* The filters the data shown was filtered by are the active ones.         *)
(***************************************************************************)
AppliedIsActive == applied = ActiveFilters(filters, filters_enabled)

(***************************************************************************)
(* The filters the listeners last heard of are the ones ticked on screen:  *)
(* no handler forgets to emit, or emits before it is done.                 *)
(***************************************************************************)
TickedRows == {i \in DOMAIN table : table[i].checked}

AppliedIsShown ==
  /\ DOMAIN applied = {table[i].index : i \in TickedRows}
  /\ \A i \in TickedRows : applied[table[i].index] = table[i].filter

(***************************************************************************)
(* Pressing Remove in a row takes away that row and the filter it shows,   *)
(* and neither another row nor another filter, however the rows have moved *)
(* since the buttons were bound (filter_widget.py:258-268).                *)
(***************************************************************************)
RemoveTakesItsOwnRow ==
  [][\A row \in DOMAIN table :
       DeleteFilter(row) =>
         /\ table' = RemoveAt(table, row)
         /\ filters' = Without(filters, table[row].index)]_vars

(***************************************************************************)
(* The widget does what the user is promised: read off the screen alone,   *)
(* its steps are those of FilterList.                                      *)
(***************************************************************************)
ShownEntries ==
  [i \in DOMAIN table |-> [filter |-> table[i].filter,
                           ticked |-> table[i].checked]]

List == INSTANCE FilterList WITH entries <- ShownEntries,
                                 inForce <- Range(applied)

ImplementsFilterList == List!ListSpec
=============================================================================
