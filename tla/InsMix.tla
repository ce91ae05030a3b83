------------------------------- MODULE InsMix -------------------------------
(***************************************************************************)
(* The Pin tool src/pin/insmix.cpp: a counter for every basic block that   *)
(* is instrumented, and at the end a profile of the instructions executed. *)
(*                                                                         *)
(* Trace runs under Pin's lock.  The analysis routine docount takes none   *)
(* and adds to a counter that all threads share, reading it and writing it *)
(* back.  Fini sums the counters; it runs when the program ends, and also, *)
(* without a lock and in the middle of the run, whenever a thread makes    *)
(* system call 24 (Syscall, FINI_BROKEN).  It leaves a null pointer in     *)
(* statsList, which the sort of the next Fini follows.                     *)
(***************************************************************************)
EXTENDS Integers, SequencesExt

CONSTANTS
  Threads,       \* threads of the profiled program
  Pin,           \* who runs Fini when the program ends
  Code,          \* basic blocks of the program
  Ins,           \* their instructions
  RtnOf,         \* the number of the routine a block is in, 0 if unknown
  Address,       \* the address of a routine, in rtn_table
  Opcodes,       \* what INS_Opcode returns, below INDEX_SPECIAL
  Special,       \* further indices an instruction counts under
  Total,         \* INDEX_TOTAL
  MaxBlocks,     \* bound: blocks instrumented
  MaxWork        \* bound: blocks instrumented and executions counted, together

Instruction == [opcode : Opcodes, special : SUBSET Special]
Indices == Opcodes \cup Special \cup {Total}

ASSUME CodeAssumption ==
  /\ Ins \in [Code -> Seq(Instruction)]
  /\ RtnOf \in [Code -> Nat]
  /\ \A c \in Code : RtnOf[c] \in DOMAIN Address /\ Address[RtnOf[c]] \in Nat
ASSUME NamesAssumption ==
  Pin \notin Threads /\ Opcodes \cap Special = {} /\ Total \notin Opcodes \cup Special
ASSUME OpcodesAssumption == IsFiniteSet(Opcodes)

VARIABLES
  block,         \* the code each BBLSTATS object counts, by its number
  counter,       \* its _counter
  statsList,     \* the numbers in the vector, Null for the terminator
  enabled,       \* 1 between CONTROL_START and CONTROL_STOP
  docount,       \* thread -> the counter it will write, and the new value
  fini,          \* the Fini that runs
  process,       \* "running", "exiting", "ended", or "broken", see Breaks
  dynamic,       \* GlobalStatsDynamic.unpredicated
  insmix,        \* the file insmix.out
  bblcnt,        \* the file bblcnt.out
  executed,      \* history: executions of each block while enabled
  users          \* history: the threads that ran docount for it

instrumented == <<block, counter, statsList>>
files == <<dynamic, insmix, bblcnt>>
history == <<executed, users>>
vars == <<instrumented, enabled, docount, fini, process, files, history>>

Null == 0
Idle == [block |-> Null, value |-> 0]
Zero == [i \in Indices |-> 0]
NoFini == [by |-> Pin, place |-> 0, rtn |-> 0, sum |-> Zero]

(***************************************************************************)
(* How many of the instructions of a block count under an index: what      *)
(* INS_GenerateIndexString writes for it.                                  *)
(***************************************************************************)
Occurs(c, index) ==
  Cardinality({k \in DOMAIN Ins[c] :
                 index \in {Ins[c][k].opcode} \cup Ins[c][k].special})

(***************************************************************************)
(* A loop of Fini adds the counter once for every index of the block.      *)
(***************************************************************************)
Added(stats, b) ==
  [i \in Indices |-> stats[i] + counter[b] * Occurs(block[b], i)]

(***************************************************************************)
(* DumpStats adds up the opcodes before it prints.  Slip: all indices.     *)
(***************************************************************************)
DumpedOfAll(stats) ==
  [stats EXCEPT ![Total] = @ + SumFunctionOnSet(stats, Opcodes \cup Special)]

Dumped(stats) ==
  [stats EXCEPT ![Total] = @ + SumFunctionOnSet(stats, Opcodes)]

(***************************************************************************)
(* Following the null pointer in the list, or changing the list while a    *)
(* Fini works on it, is undefined behaviour: the process is "broken" from  *)
(* then on, and nothing is said of what it does.                           *)
(***************************************************************************)
Breaks == process' = "broken"

FiniRuns == fini # NoFini
Alive == process \in {"running", "exiting"}
Work == Len(block) + FoldSeq(LAMBDA x, y : x + y, 0, executed)
Runs(t) == process = "running" /\ docount[t] = Idle /\ (FiniRuns => fini.by # t)

Init ==
  /\ block = <<>> /\ counter = <<>> /\ statsList = <<>>
  /\ enabled \in {0, 1}
  /\ docount = [t \in Threads |-> Idle]
  /\ fini = NoFini
  /\ process = "running"
  /\ dynamic = Zero
  /\ insmix = [whole |-> FALSE, sections |-> <<>>, dynamic |-> Zero]
  /\ bblcnt = <<>>
  /\ executed = <<>> /\ users = <<>>

(***************************************************************************)
(* Pin is about to run code for the first time, or again after it threw    *)
(* its translation away.                                                   *)
(***************************************************************************)
Trace(c) ==
  /\ process = "running" /\ Len(block) < MaxBlocks /\ Work < MaxWork
  /\ block' = Append(block, c)
  /\ counter' = Append(counter, 0)
  /\ statsList' = Append(statsList, Len(block) + 1)
  /\ executed' = Append(executed, 0)
  /\ users' = Append(users, {})
  /\ IF FiniRuns THEN Breaks ELSE UNCHANGED process
  /\ UNCHANGED <<enabled, docount, fini, files>>

(***************************************************************************)
(* Slips: a START inside a START counts twice; the call is inserted before *)
(* every instruction of the block; STOP is ignored.                        *)
(***************************************************************************)
NestedEnabled == {0, enabled + 1}
Enabled == {0, 1}

PerInstruction(b) == counter[b] + enabled * Len(Ins[block[b]])
EvenIfDisabled(b) == counter[b] + 1
NewValue(b) == counter[b] + enabled

Handler ==
  /\ process = "running"
  /\ enabled' \in Enabled
  /\ UNCHANGED <<instrumented, docount, fini, process, files, history>>

(***************************************************************************)
(* docount: a thread executes a block, reads its counter and enabled, and  *)
(* writes the counter back.                                                *)
(***************************************************************************)
Read(t, b) ==
  /\ Runs(t)
  /\ Work < MaxWork
  /\ docount' = [docount EXCEPT ![t] = [block |-> b, value |-> NewValue(b)]]
  /\ executed' = [executed EXCEPT ![b] = @ + enabled]
  /\ users' = [users EXCEPT ![b] = @ \cup {t}]
  /\ UNCHANGED <<instrumented, enabled, fini, process, files>>

Write(t) ==
  /\ process = "running" /\ docount[t] # Idle
  /\ counter' = [counter EXCEPT ![docount[t].block] = docount[t].value]
  /\ docount' = [docount EXCEPT ![t] = Idle]
  /\ UNCHANGED <<block, statsList, enabled, fini, process, files, history>>

(***************************************************************************)
(* Fini opens insmix.out, which truncates it, and sorts the list by the    *)
(* address of the routine; std::sort may leave equals in any order.        *)
(***************************************************************************)
AddressOf(b) == Address[RtnOf[block[b]]]

FollowsNull == Null \in Range(statsList) /\ Len(statsList) > 1

Sorted(s) ==
  \A i, j \in DOMAIN s : i < j => s[i] # s[j] /\
    (Null \notin {s[i], s[j]} => AddressOf(s[i]) <= AddressOf(s[j]))

StartFini(by) ==
  /\ insmix' = [whole |-> FALSE, sections |-> <<>>, dynamic |-> Zero]
  /\ \E s \in [DOMAIN statsList -> Range(statsList)] :
       /\ Sorted(s)
       /\ statsList' = Append(s, Null)
  /\ fini' = [by |-> by, place |-> 1, rtn |-> 0, sum |-> Zero]

Syscall(t) ==
  /\ Runs(t)
  /\ IF FiniRuns \/ FollowsNull
       THEN Breaks /\ UNCHANGED <<statsList, fini, insmix>>
       ELSE StartFini(t) /\ UNCHANGED process
  /\ UNCHANGED <<block, counter, enabled, docount, dynamic, bblcnt, history>>

Exit ==
  /\ process = "running"
  /\ IF FiniRuns \/ FollowsNull
       THEN Breaks /\ UNCHANGED <<statsList, fini, insmix>>
       ELSE StartFini(Pin) /\ process' = "exiting"
  /\ UNCHANGED <<block, counter, enabled, docount, dynamic, bblcnt, history>>

(***************************************************************************)
(* One iteration of the loop of Fini.  Where the routine changes, the sums *)
(* of the last one are printed and cleared.  Slip: they are not cleared.   *)
(***************************************************************************)
NeverCleared(b) == fini.sum
DynamicRtn(b) == IF RtnOf[block[b]] = fini.rtn THEN fini.sum ELSE Zero

WithSection(rtn) ==
  IF fini.rtn # rtn /\ fini.rtn > 0
    THEN Append(insmix.sections, [rtn |-> fini.rtn, stats |-> Dumped(fini.sum)])
    ELSE insmix.sections

AddBlock ==
  /\ Alive /\ fini.place \in DOMAIN statsList
  /\ LET b == statsList[fini.place]
         rtn == RtnOf[block[b]]
     IN  /\ b # Null
         /\ insmix' = [insmix EXCEPT !.sections = WithSection(rtn)]
         /\ fini' = [fini EXCEPT !.place = @ + 1, !.rtn = rtn,
                                 !.sum = Added(DynamicRtn(b), b)]
         /\ dynamic' = Added(dynamic, b)
  /\ UNCHANGED <<instrumented, enabled, docount, process, bblcnt, history>>

AddTotals ==
  /\ Alive /\ fini.place \in DOMAIN statsList
  /\ statsList[fini.place] = Null
  /\ dynamic' = Dumped(dynamic)
  /\ insmix' = [whole |-> TRUE, sections |-> WithSection(-1), dynamic |-> dynamic']
  /\ fini' = [fini EXCEPT !.place = Len(statsList) + 1]
  /\ UNCHANGED <<instrumented, enabled, docount, process, bblcnt, history>>

(***************************************************************************)
(* The second file: the blocks up to the terminator and their counters.    *)
(***************************************************************************)
Listed == 1..(SelectInSeq(statsList, LAMBDA b : b = Null) - 1)

ListBlocks ==
  /\ Alive /\ FiniRuns /\ fini.place = Len(statsList) + 1
  /\ bblcnt' = [i \in Listed |-> [block |-> statsList[i],
                                  count |-> counter[statsList[i]]]]
  /\ fini' = NoFini
  /\ process' = IF fini.by = Pin THEN "ended" ELSE process
  /\ UNCHANGED <<instrumented, enabled, docount, dynamic, insmix, history>>

Next ==
  \/ \E c \in Code : Trace(c)
  \/ Handler
  \/ \E t \in Threads :
       \/ \E b \in DOMAIN block : Read(t, b)
       \/ Write(t)
       \/ Syscall(t)
  \/ Exit
  \/ AddBlock
  \/ AddTotals
  \/ ListBlocks

Spec == Init /\ [][Next]_vars
-----------------------------------------------------------------------------
(***************************************************************************)
(* Types: every block has a counter, and what a thread is about to write   *)
(* is for a block that exists (insmix.cpp:227-313).                        *)
(***************************************************************************)
CountersOK ==
  /\ block \in Seq(Code)
  /\ counter \in Seq(Nat) /\ Len(counter) = Len(block)
  /\ executed \in Seq(Nat) /\ Len(executed) = Len(block)
  /\ users \in Seq(SUBSET Threads) /\ Len(users) = Len(block)
  /\ enabled \in {0, 1}
  /\ docount \in [Threads -> [block : Nat, value : Nat]]
  /\ \A t \in Threads : docount[t] # Idle => docount[t].block \in DOMAIN block

TypeOK ==
  /\ CountersOK
  /\ Range(statsList) \subseteq (DOMAIN block) \cup {Null}
  /\ fini.by \in Threads \cup {Pin}
  /\ process \in {"running", "exiting", "ended", "broken"}
  /\ dynamic \in [Indices -> Nat]

(***************************************************************************)
(* However the threads interleave, no block is counted more often than it  *)
(* was executed between START and STOP (insmix.cpp:311-314): what is lost  *)
(* is lost downwards, and a profile is a lower bound.                      *)
(***************************************************************************)
NeverOvercounts ==
  \A b \in DOMAIN block : counter[b] <= executed[b]

(***************************************************************************)
(* A block that only one thread executed is counted exactly, whatever the  *)
(* other threads do to other counters and to enabled: its counter is wrong *)
(* only by the execution its thread is about to write.                     *)
(***************************************************************************)
AboutToWrite(b) == {t \in Threads : docount[t].block = b}

PrivateBlocksExact ==
  \A b \in DOMAIN block : \A t \in Threads :
    users[b] \subseteq {t} /\ AboutToWrite(b) = {} => counter[b] = executed[b]

(***************************************************************************)
(* Executions counted in the history, under an index and in instructions.  *)
(***************************************************************************)
SumOver(blocks, index) ==
  SumFunction([b \in blocks |-> counter[b] * Occurs(block[b], index)])

ExecutedAs(index) == [b \in DOMAIN block |-> executed[b] * Occurs(block[b], index)]
ExecutedIns == [b \in DOMAIN block |-> executed[b] * Len(Ins[block[b]])]

(***************************************************************************)
(* A profile is a lower bound, the one of a Fini in the middle of the run  *)
(* too, which reads the counters while the threads write them.             *)
(***************************************************************************)
ProfileIsLow ==
  insmix.whole /\ process # "broken" =>
    /\ \A i \in Opcodes \cup Special : insmix.dynamic[i] <= SumFunction(ExecutedAs(i))
    /\ insmix.dynamic[Total] <= SumFunction(ExecutedIns)

(***************************************************************************)
(* The last profile agrees with the counters and with bblcnt.out: every    *)
(* index has the sum over the blocks that have it, the total is the sum of *)
(* count times instructions over the lines of bblcnt.out, and every block  *)
(* has a line.                                                             *)
(***************************************************************************)
LastProfileAgrees ==
  process = "ended" =>
    /\ insmix.whole
    /\ \A i \in Opcodes \cup Special : insmix.dynamic[i] = SumOver(DOMAIN block, i)
    /\ insmix.dynamic[Total] =
         SumFunction([i \in DOMAIN bblcnt |->
                        bblcnt[i].count * Len(Ins[block[bblcnt[i].block]])])
    /\ \A b \in DOMAIN block : \E i \in DOMAIN bblcnt : bblcnt[i].block = b
    /\ Len(bblcnt) = Len(block)

(***************************************************************************)
(* No profile, written at the end or in the middle of the run, shows more  *)
(* under an index or in total than was executed between START and STOP;    *)
(* and the one of a program that ends is the sum of the counters that      *)
(* bblcnt.out lists (insmix.cpp:311-314, 438-444, 518-556).                *)
(***************************************************************************)
ProfileIsSum == ProfileIsLow /\ LastProfileAgrees

(***************************************************************************)
(* The sections of a routine add up to its share of the profile, and there *)
(* is one section, unless blocks of another routine with the same address  *)
(* were instrumented, as after an image was unloaded: the sort then mixes  *)
(* the blocks of the two (insmix.cpp:276-279, 487-516).                    *)
(***************************************************************************)
BlocksOf(rtn) == {b \in DOMAIN block : RtnOf[block[b]] = rtn}
SectionsOf(rtn) == {k \in DOMAIN insmix.sections : insmix.sections[k].rtn = rtn}

SectionsAddUp ==
  process = "ended" =>
    \A rtn \in Range(RtnOf) \ {0} :
      /\ \A i \in Opcodes \cup Special :
           SumFunction([k \in SectionsOf(rtn) |-> insmix.sections[k].stats[i]])
             = SumOver(BlocksOf(rtn), i)
      /\ (\A b \in DOMAIN block :
            AddressOf(b) = Address[rtn] => RtnOf[block[b]] = rtn) =>
           Cardinality(SectionsOf(rtn)) = (IF BlocksOf(rtn) = {} THEN 0 ELSE 1)
=============================================================================
