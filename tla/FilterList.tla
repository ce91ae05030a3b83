----------------------------- MODULE FilterList -----------------------------
(***************************************************************************)
(* What the filter panel promises its user: a list of filters, each with a *)
(* tick, where Add puts one at the end, a click on a tick flips it, Remove *)
(* takes one out, and the data shown is always filtered by exactly those   *)
(* that are ticked.  No numbers, dictionaries or bindings: FilterWidget    *)
(* implements this, see ImplementsFilterList there.                        *)
(***************************************************************************)
EXTENDS Integers, SequencesExt

CONSTANT Filter           \* every filter there can be

VARIABLES
  entries,                \* the list on the screen
  inForce                 \* the filters the data was filtered by

listVars == <<entries, inForce>>

Entry == [filter : Filter, ticked : BOOLEAN]

Ticked(list) == {list[i].filter : i \in {j \in DOMAIN list : list[j].ticked}}

ListInit == entries = <<>> /\ inForce = {}

Add(filter) == entries' = Append(entries, [filter |-> filter, ticked |-> TRUE])

Flip(i) == entries' = [entries EXCEPT ![i].ticked = ~@]

Take(i) == entries' = RemoveAt(entries, i)

ListNext ==
  /\ \/ \E filter \in Filter : Add(filter)
     \/ \E i \in DOMAIN entries : Flip(i)
     \/ \E i \in DOMAIN entries : Take(i)
  /\ inForce' = Ticked(entries')

ListSpec == ListInit /\ [][ListNext]_listVars
=============================================================================
