--------------------------- MODULE FilterProject ---------------------------
(***************************************************************************)
(* The filter panel together with project files: getState and setState of  *)
(* src/cp/gui/filter_widget.py, called by saveProjectAs and openProject of *)
(* src/cp/__main__.py, and program restarts between them.                  *)
(*                                                                         *)
(* setState replaces the dictionaries and the list but adds rows to        *)
(* whatever table is there, pairs the filters in dictionary order with the *)
(* numbers in list order, and draws every box ticked.  The widget is as    *)
(* good as new only after some of the possible loads; the variable session *)
(* says which kind of load the current session has seen.                   *)
(***************************************************************************)
EXTENDS FilterWidget

CONSTANTS
  NoProject,    \* nothing has been saved yet
  Slots,        \* size of a small CPython 2 dictionary
  MaxRows       \* bound: rows on the screen after a load

ASSUME SlotsAssumption == Slots \in Nat \ {0}

VARIABLES
  project,      \* the saved file
  session       \* "clean", "redrawn" or "stacked", see OpenProject

projectVars == <<vars, project, session>>

(***************************************************************************)
(* The orders in which a CPython 2 dictionary may list a set of small      *)
(* integers: by slot when no two of them share one, any order otherwise.   *)
(***************************************************************************)
DictOrders(keys) ==
  LET bySlot   == {s \in SetToSeqs(keys) : \A i, j \in DOMAIN s :
                     i < j => s[i] % Slots < s[j] % Slots}
  IN  IF bySlot # {} THEN bySlot ELSE SetToSeqs(keys)

(***************************************************************************)
(* What is pickled: the widget's own state, and the pivoted table, of      *)
(* which all that matters here is the filters it was computed with.  The   *)
(* widget is only enabled once a table is displayed.                       *)
(***************************************************************************)
State == [filters |-> filters, filters_enabled |-> filters_enabled,
          filter_indices |-> filter_indices,
          cur_filter_number |-> cur_filter_number, applied |-> applied]

ProjectInit ==
  /\ Init
  /\ project = NoProject
  /\ session = "clean"

SaveProject ==
  /\ project' = State
  /\ UNCHANGED <<vars, session>>

(***************************************************************************)
(* Slips: the rows are bound to their places in the table, or to the keys  *)
(* of the dictionary.                                                      *)
(***************************************************************************)
LoadedRowsByPlace(state, order) ==
  [i \in DOMAIN order |-> NewRow(state.filters[order[i]], i - 1)]

LoadedRowsByKey(state, order) ==
  [i \in DOMAIN order |-> NewRow(state.filters[order[i]], order[i])]

(***************************************************************************)
(* The rows setState inserts when the dictionary lists its keys in order.  *)
(***************************************************************************)
LoadedRows(state, order) ==
  [i \in DOMAIN order |->
     NewRow(state.filters[order[i]], state.filter_indices[i])]

(***************************************************************************)
(* A load redraws the widget as it was saved when the dictionary happens   *)
(* to be listed in table order and every filter was enabled.               *)
(***************************************************************************)
LoadsAsSaved(state, order) ==
  /\ order = state.filter_indices
  /\ \A id \in Range(order) : state.filters_enabled[id]

(***************************************************************************)
(* The widget's own state is replaced; the filters of the table that is    *)
(* displayed again come with it.  Slips: one part is not restored.         *)
(***************************************************************************)
RestoreButCounter(state) ==
  /\ filters' = state.filters
  /\ filters_enabled' = state.filters_enabled
  /\ filter_indices' = state.filter_indices
  /\ applied' = state.applied
  /\ UNCHANGED cur_filter_number

RestoreButFlags(state) ==
  /\ filters' = state.filters
  /\ filter_indices' = state.filter_indices
  /\ cur_filter_number' = state.cur_filter_number
  /\ applied' = state.applied
  /\ UNCHANGED filters_enabled

Restore(state) ==
  /\ filters' = state.filters
  /\ filters_enabled' = state.filters_enabled
  /\ filter_indices' = state.filter_indices
  /\ cur_filter_number' = state.cur_filter_number
  /\ applied' = state.applied

(***************************************************************************)
(* The user opens the saved project: setState, and the table with which it *)
(* was saved is displayed again.                                           *)
(***************************************************************************)
OpenProject ==
  /\ project # NoProject
  /\ Len(table) + Len(project.filter_indices) <= MaxRows
  /\ \E order \in DictOrders(DOMAIN project.filters) :
       /\ table' = table \o LoadedRows(project, order)
       /\ session' = IF table # <<>> THEN "stacked"
                     ELSE IF LoadsAsSaved(project, order) THEN "clean" ELSE "redrawn"
  /\ Restore(project)
  /\ UNCHANGED project

Restart ==
  /\ filters' = <<>>
  /\ filters_enabled' = <<>>
  /\ filter_indices' = <<>>
  /\ cur_filter_number' = 0
  /\ table' = <<>>
  /\ applied' = <<>>
  /\ session' = "clean"
  /\ UNCHANGED project

Edit == Next /\ UNCHANGED <<project, session>>

ProjectNext == Edit \/ SaveProject \/ OpenProject \/ Restart

ProjectSpec == ProjectInit /\ [][ProjectNext]_projectVars
-----------------------------------------------------------------------------
(***************************************************************************)
(* Through any mixture of edits, saves, loads and restarts, clicks on rows *)
(* left over from before a load included: getActiveFilters finds a flag    *)
(* for every filter, and the list has exactly the filters that exist       *)
(* (filter_widget.py:163-165, 258-266).                                    *)
(***************************************************************************)
LookupsSucceed ==
  /\ DOMAIN filters = Range(filter_indices)
  /\ DOMAIN filters \subseteq DOMAIN filters_enabled

(***************************************************************************)
(* A project that was saved with every filter enabled, and whose dictionary *)
(* lists in table order, opened over an empty table, puts on the screen     *)
(* what the widget holds, and editing keeps it so.                          *)
(***************************************************************************)
CleanSessionMirrors == session = "clean" => RowsMirrorFilters

(***************************************************************************)
(* As long as nothing was loaded over existing rows, the i-th row is bound *)
(* to the i-th number, even where it shows the wrong filter or tick: every *)
(* filter can be switched and removed by exactly one row.                  *)
(***************************************************************************)
RowsBoundInOrder ==
  session # "stacked" =>
    /\ Len(table) = Len(filter_indices)
    /\ \A i \in DOMAIN table : table[i].index = filter_indices[i]

(***************************************************************************)
(* A new filter never takes the number, and so the dictionary entry, of    *)
(* one that exists, in whatever session and after whatever loads: setState *)
(* must restore the counter with the filters (filter_widget.py:140-158).   *)
(***************************************************************************)
AddNeverOverwrites ==
  [][\A id \in DOMAIN filters :
       (\E path \in Paths, condition \in Conditions : AddFilter(path, condition))
         => filters'[id] = filters[id] /\ filters_enabled'[id] = filters_enabled[id]
    ]_projectVars
=============================================================================
