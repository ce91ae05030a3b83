# C.Profiler in TLA+

C.Profiler (`cp`) shows where a program spends its time, by instruction mix,
basic block, function and class.  Pin and DynamoRIO tools run the program and
write what it executed; a disassembler built on XED says what the blocks consist
of; a PySide window loads the resulting CSV files, joins, filters and pivots them.
This directory holds TLA+ models of the parts whose correctness depends on
the order of events or on several copies of one piece of state, their model-checking
runs, and proofs.

## 1. The system

| component | state | operations | what is hard | what makes it correct |
|---|---|---|---|---|
| **Filter panel** `cp/gui/filter_widget.py` | `filters`, `filters_enabled`, `filter_indices`, `cur_filter_number`, the table on the screen | Add, tick, Remove, `getState`, `setState` | rows move while buttons stay bound to numbers; listeners are called inside `emit`; a project is laid over a panel in use | the copies agree; a button acts on its own row; listeners see the final state; numbers are never given twice |
| **Pivot combo boxes** `cp/gui/pivot_combo_box.py`, `cp/__main__.py` 397-465, 481-635 | per box: items, choice, remembered choice, greyed rows, enabled | choose, clear, transpose, open a file, boxes that come and go | rows are remembered by number while items are inserted above them; the remembered choice is set by the mouse only | a column is chosen once; greyed just when chosen elsewhere; levels are filled in order |
| **Main window** `cp/__main__.py` | open files, choices, displayed table, which widgets are enabled | add and remove files, pivot, transpose, aggregates, save and open projects | one handler calls many others; pivoting may be refused or raise | what is displayed belongs to the choices and filters shown |
| **Pivot engine** `cp/pivot.py` | none (a function of data frames) | drop, filter, merge, concatenate, pivot | joining on common columns | the pivot of the filtered join |
| **Table models** `cp/gui/qtpandas.py`, `TagModel.py` | data frame, header model | display, sort | spans in the headers | what is drawn is the data frame |
| **Tags** `cp/tags/tag.py`, `cp/symcollector/` | a tree of address ranges | build, merge, feed, sum | overlapping and nested functions; both ends included; cumulative sums | a sample is counted once in each tag it belongs to |
| **bbtrace** `pin/bbtrace.cpp` | a file, counts and a total per thread; ids of blocks | Pin callbacks; `CountBlock` in every block | analysis code runs in all threads without a lock; thread ids are used again | a file lists what its thread executed and a summary that agrees |
| **insmix** `pin/insmix.cpp` | a counter per instrumented block, sums per opcode | Pin callbacks; `docount` in every block; `Fini` at the end and at system call 24 | counters shared by all threads without a lock; `Fini` in the middle of the run | no count is too high; the sum of the parts is the whole |
| **bbcount** `dynamorio-example/bbcount.cpp` | one counter, statistics | DynamoRIO callbacks | some state updated outside the lock | the counter counts |
| **Chopper** `cp/xed/xed_bb_chop.cxx` | a set of addresses | linear sweep | data between code, both ends of sections, address arithmetic | the sweep misses no byte; the addresses cut the code into basic blocks |
| **Disassembler** `cp/elf/disass.py`, `cp/xed/` | a list of instructions, a window of bytes | decode a range, a block; make rows | chunks too short for the block; reading again | each row is the instruction at its offset; it ends |

The parts meet in files: bbtrace and insmix write text that scripts turn into CSV, the
disassembler turns addresses into a data frame, and the window opens
both.  Inside the window they meet in Qt signals, which call their slots before
`emit` returns, so that one click is one step, however many handlers it runs.

`PROJECT.json` lists every component with its status, and every hazard at its line.

### Not modelled

- The vendored code, which is nine tenths of the lines: the headers of XED, DynamoRIO
  and Pin (three copies of the generated XED enumerations), the demangler of binutils,
  pyelftools, intervaltree, addr2line, the header view libhhv.  It keeps no state of this program;
  where the program depends on it, a definition marked external says how.  A share of the
  implementation's lines therefore says little about how much of the program is modelled.
- The sample tools `inscount*`, `bbcount` and the snippets: what they show is in bbtrace and
  insmix, and what may run concurrently in a DynamoRIO client is not said in the repository.
- Drawing: item models, header views, sorting, colours, the progress indicator but for whether it
  turns; the aggregates beside the table, which are computed from it and change nothing else.
- Text: CSV, pickles, the output of readelf and nm.  Of the table of a project, which is written
  as CSV and read back (`__main__.py` 287-292, 307-311), the model has the levels of the axes that survive; that the
  entries do is not modelled.
- The algebra of data frames, which is pandas; `Session` has the conditions under which
  `pivot` raises.
- In insmix the static counts, the counts of predicated instructions and the knobs, which are off or at
  their defaults; the wrap-around of a 64-bit counter.
- The tree of tags, the SWIG list of instructions with its shared error flag, `get_basic_blocks`
  (nothing but a broken test calls it), `detect_static_basic_blocks` (its only use is commented out).

## 2. Modules

| module | models | extends |
|---|---|---|
| `FilterList` | what the filter panel promises: a list of filters, each ticked or not, and the ones in force | - |
| `FilterWidget` | the panel in one session; implements `FilterList` | - |
| `FilterProject` | the panel with projects saved and opened and the program restarted | `FilterWidget` |
| `ThreadTraces` | what the reader of traces may believe: a list and counts per thread, recorded in one step, and a report at its end | - |
| `BbTrace` | the Pin tool, statement by statement where it takes no lock; implements `ThreadTraces` | - |
| `InsMix` | the instruction mix tool | - |
| `PivotCombos` | the combo boxes of the pivot panel | - |
| `Session` | the window: files, choices, pivots, the table on display, projects, restarts | - |
| `TagRanges` | `merge` and `aggregate` for one tag | - |
| `Xed` | what the disassemblers ask of the XED library | - |
| `BbChop` | `new_detect_static_basic_blocks` | `Xed` |
| `Disassembly` | `get_inst_lists_for_basic_blocks` down to `_disassemble`, and `_disassemble_until_bb_end` | `Xed` |
| `MC...` | values of the constants for TLC | the module |
| `...Proofs` | theorems | the module |

### The filter panel

An action is one click with every handler it runs.  `table` is the
screen: row `i` carries the filter it shows, its check box, and the number its two
widgets were bound to.  `applied` is what a listener reads when `newFilterAdded`
is emitted; `pivotData` reads it in the same way.  `DeleteFilter` emits
twice in the code when the filter was enabled; both emits see the same state.

`FilterProject` adds the pickled state and a restart.  `setState` has three
peculiarities that the module keeps: it appends rows to whatever the table shows,
it pairs dictionary order with list order, and it ticks every box.  `session` records
which of them has happened, and the properties say what each of them
leaves true.  `DictOrders` is the order in which a CPython 2 dictionary lists small
integers: by value modulo its size as long as nothing collides.

### bbtrace

Pin runs callbacks one at a time under its client lock (an assumption about Pin, mapped
as external); `CountBlock` is analysis code and runs in all threads at once, so its
three statements are three actions.  `Image` is two, since it writes its line
and its line end to the stream of thread 0 while thread 0 may be in `CountBlock`.  The data race
on that stream is modelled as the loss of a write.  Thread ids are the lowest free
ones and come back.  `ran` and `lives` are history variables: what the live
thread executed, and how many threads have had the id.

`ThreadTraces` has no ids, lines, streams, lock or images: a thread records a block in its list and
its count in one step, and reports when it ends.  Its list is read off the text of the file (`Decoded`: the ids,
each turned back into the block that has it), its counts off the counters, less one while a
block is counted and its id not yet written, so that `WriteId` is the step that records.  Thread 0 is left out: its file
holds the markers of images, truncates under `Image` and races with it.  The abstract counts go on from one thread of an
id to the next, as they do in the code.

### insmix

`docount` is one C statement and two actions, `Read` and `Write`: `(*counter) += enabled` loads and
stores a counter that all threads share.  `Fini` is a step for each block of its loop (`AddBlock`),
one for the terminator and the totals (`AddTotals`) and one for the second file (`ListBlocks`), since at
system call 24 it runs in a thread of the program while others count.  What is
undefined there is not guessed: a `push_back` during the loop, a second `Fini` beside the first, or a
`Fini` after one that left its null pointer among other entries makes the process `"broken"`, and no
property speaks of what follows.  A sort leaves blocks of equal address in any order.
`executed` and `users` are history variables: how often each block ran while counting was on, and in
which threads.

### The session

A box is the file its chosen column is in, a filter is active or not, a table is what it was made from:
the levels of its rows and of its columns, and the filters; `values` is the axis that has one more level, for
the names of several displayed values.
What the boxes and the filter panel do in detail is in their own modules.  The boxes for displayed values behind the
first (`further`, `more`) are kept apart, since `addDataFile` gives them no columns of later files, a project does not save
them, and opening one leaves them as they are.  Which files their columns come from is any choice `Choose` may have led to.  Handlers
stop where the code raises: `PivotInvalid` is the `None` of `_getComboChoices`
unpacked, `PivotFails` an exception in the thread (`ret[0]` raises, the indicator goes on turning),
`OpenHalfway` a file of the project that is missing, `SaveProject` with no table to save a project file
emptied and not written.  A table comes back from a project with the first level of each axis
(`Reread`), because `from_csv` takes one column and one line for the labels; several displayed values over three column boxes make
a table without the third level (`TwoLevels`), because `_concat_data_frames` builds its tuples of two.
In both cases `since` has `"cut"`.  `RemoveFile` allows everything that `item.data(Qt.ItemDataRole)`, a type
where a role belongs, may make PySide do.  `since` and `lost` are history variables: what happened
since the table was made, and how files and choices were torn apart.  They are saved with a
project because the damage is.

### The combo boxes

`items` are columns in box order, `index` the choice (0 is the empty item),
`previous` what `mousePressEvent` remembered, `disabledRows` the bag of row numbers
the box believes greyed, `greyed` the items that are.  `disturbed` records which of
five kinds of event has happened after which the code no longer keeps a
property: a file opened after a choice or with several boxes for displayed values (`moved`), a choice without a mouse press
(`scrolled`), a transposition, a removed box for displayed values, a Clear with several of them (`cleared`).  Only
`FreeIsSelectable` excludes all five.

### Tags

One run of the module is one call of `Tag.finalize` on a tag: it starts from the
ranges of the tag and its children in the order `sorted` may leave them, and every
iteration of `merge` and of `aggregate` is a step.  Every sample counts one.

### The disassemblers

A binary is a function `code` from offsets to the instruction whose bytes begin there, or
`Undecodable`; overlapping instructions are allowed, as in x86.  `Xed` holds what is assumed of
the decoder: it succeeds just when the window holds a whole instruction.

`BbChop` takes one step per call of `xed_decode`.  `Unsigned` is C's wrap-around, which gives
a symbol below the base of the binary an address near 2^64.  `OverrunSymbols` is the
undefined behaviour of a symbol table with more entries than a `uint16_t` can count:
the computation stops there and nothing is claimed of it.  `swept` is a history variable.

`Disassembly` follows one request through its blocks.  `_disassemble` tries windows of 1, 2, 3 ...
bytes; `Grow` is one failed attempt.  Where the window reaches behind the bytes
that were read, the outcome is any instruction of that length, an error, or a crash (`Decoded`,
`MayFail`, `Crash`).  `_disassemble_until_bb_end` has one window, up to a length that is its caller's and may be less or more than
there is data; `DecodedAtOnce` is what it may find.  `AddRow` consumes the list as the `for` loop does, adding lengths up.
`starts` is a history variable: where each instruction of `bb` was found.

## 3. Runs

| run | bounds | distinct states |
|---|---|---|
| `filter_widget` | 4 filters, 2 files of different base name | 781 |
| `filter_project` | 2 filters a session, 3 rows, a dictionary of one slot | 831,797 |
| `bbtrace` | 2 threads, each id used twice, 2 blocks, 2 executions a thread, 3 images | 3,150,235 |
| `pivot_combos` | 2 files, 3 columns, 2 levels, 3 boxes for displayed values, 7 clicks | 1,458,175 |
| `tag_ranges` | 3 ranges, 3 samples, 5 addresses | 463,265 |
| `tag_sum` | the same, 2 samples | violated |
| `bb_chop` | 5 bytes, 5 instructions of 1 or 2 bytes, 2 section tables, 2 symbols, 2^64 as 16 | 1,189,728 |
| `disassembly` | 6 bytes, 3 instructions of 1 or 2 bytes, chunks of 2 and 4 bytes, requests of 1 or 2 blocks, any data and length up to 6 bytes | 2,560,682 |
| `disassembly_long`, `disassembly_endless` | the same | violated |
| `insmix` | 2 threads, 3 blocks of 3 routines, 2 of them at one address, 4 instrumentations and executions together | 3,333,032 |
| `session` | 2 files, 2 filters, one unreadable, 4 selections, one of two row levels and one of three column levels with two displayed values, 10 steps | 4,161,578 |

Four filters are enough to remove one before, between and after others and to add
again.  Two threads are one that owns file 0 and one that does not,
and reusing an id needs two lives.  Seven clicks choose three columns, undo
one, transpose and choose again.  Five addresses with both ends included
hold two ranges that touch, overlap, nest or lie apart with a sample before, in
and behind each.

Five bytes hold sections that touch, one that is missing, an instruction that reaches over the
end of its section, and branches forwards, backwards and below zero; a `uint16_t` of
one bit makes the symbol table overrun.  Six bytes and a chunk of two
hold a block that fits, one that does not, one that is cut off by the end of the
file, and a second read; a caller's length below, at and beyond the data.

Two threads are one that reads a counter and one that writes it in between; three blocks are two
routines that share an address and code without a symbol.  Ten steps of a session make a table, save
it, lose a file and open the project halfway, or transpose, save, start again, open and transpose.  Two files, a choice with a
further box in the one and a project with the other alone leave a choice in a closed file; three column levels are
the fewest of which one is lost.

Symmetry is used for the threads of `insmix`, which are never compared; it has no liveness property.
The window is driven by a user who may
stop at any time, and the tool by a program that may block, so their code justifies no
fairness and all their properties are safety properties.  `Disassembly` is one thread that
waits for nobody: weak fairness of its next step is what a running process has, and under it
`Terminates` says that no request is computed for ever.  Its last resort is the `MemoryError` of
`fd.read`, which the bound `MaxString` stands for.  `StepsDescend` says why, and needs no fairness: every
step decreases four natural numbers, compared one after the other: the blocks left, the stage of the one being worked on,
the memory left for a larger chunk, and the windows, rows or bytes left.  Where `CHECK_DEADLOCK` is off the cfg says why.

Two violations are disagreements of `tag.py` and `disass.py` with their own comments; the third, `disassembly_endless`, is
one of `get_basic_block` with its test: for a request without an end the length is that of the bytes less the offset, negative
beyond the first chunk, and the call raises where the test expects a block.  `RaisesOnlyIf` is therefore about requests with an end.
See `findings` in `PROJECT.json`.

## 4. Proofs

All for any values of the constants.

Type correctness is proved for every module with proofs; runs check it where it says more than types.

*FilterProofs.*  In one session the inductive invariant is `TypeOK` with
`NumbersFresh`, `DictsMatchList`, `RowsMirrorFilters` and `AppliedIsActive`: the number a button was
bound to is found in the list at the button's own row only because the list
has no number twice, and that is kept only because every number is below
the next.  From it follow all properties of the run, the refinement of `FilterList` included.
With projects, dictionaries may hold flags without a filter and the table rows without
a number, so that invariant fails.  `PInv` keeps what survives: numbers below the counter and in one row, a
flag for every filter, at least as many rows as numbers (`RowsSuffice`, without which removing a row of another
session could reach behind the table), and the same of the saved state (`Sound`).  That the dictionary has as
many keys as the list has numbers, in whatever order it lists them, is `OrderOfKeys`.  All four
properties of the run follow.

*PivotCombosProofs.*  One click is a chain of calls that visit every box, and the boxes tell each other what
is chosen.  The invariant says which of their copies agree as long as which disturbance has not happened:
the levels of the boxes (`AxisLevels`), that a choice enables the next box (`EnabledBelow`), the chain of
boxes for displayed values (`Chain`), that all boxes show the same items (`SameItems`), that the choice of each
is greyed in all others (`AllYield`), and that nothing else is greyed (`NothingStale`).  The last two are about
row numbers too, which no property mentions: a transposition greys by the numbers that `setState` gets from
another box, and would grey the wrong items if numbers and items disagreed.  What holds inside a click is
stated of boxes, not of the variable: the choice is propagated first, which may break the chain, and
`DisplayedActivated` repairs it by removing or appending boxes in the same click.  The theorems hold under the conditions the
properties name: `Exclusive` and `Greyed` without a moved file or a scrolled choice, `Hierarchy` without a scrolled choice,
`OneFreeBox` without that and without a Clear of several boxes, `Selectability` in sessions without any disturbance.

*BbTraceProofs.*  Opening by the callbacks is enough for every write because a
thread leaves `CountBlock` before it ends.  `LinesAreWhole` rests on the
alternation of id and line end, which `pc` determines; `SummaryIsRight` on the
equality of three counts of the same executions: in `ran`, in the file and
in the thread's slot, the first being the bridge between the other two.
`LogIsExecution` needs in addition that the last block in `ran` is the one whose id is written next
(`LastIsCurrent`), that everything in `ran` has an id, which later traces do not change (`RanKnown`), and that a file
of an earlier thread is opened anew (`OpenedAnew`).  What reading a text back gives, and that
appending a token adds its id at the end, is proved by induction over the length of the text.
`TracesRefined` puts these together (`TInv`), with the life of a file other than 0: there is none before the first thread,
and it holds a summary when its thread has ended (`Cycle`).  The text of a file, read as blocks, is then what its thread
executed and has written down (`DecodedIsExecution`), so that the steps are compared thread by
thread (`SameView`): only `ThreadStart`, `WriteId` and `ThreadFini` change what is seen, each in its own thread.  That
`Trace` sets the counts of new blocks to zero is not seen because they are zero already.

*InsMixProofs.*  A counter, or the value a thread is about to write to it, is at most the number of
executions begun.  For a block of one thread it is that number, less the one that thread has begun and
not written.  For the files, `FiniInv` says first which `Fini` may still follow (`Ready`): as long as the list has no
terminator it is every block once and nothing has been summed; once it has one it is longer than the blocks are
many, so that a last `Fini` that does not follow the null pointer has no blocks to sum and finds all sums zero.
Then what the last one has done when it has passed some places of the sorted list (`Midway`) and
all of them (`Complete`): the sums are those of the places passed, and a routine has its share in the sections printed
and in `DynamicRtn`.  That there is one section for a routine whose address is its own is where the sort
is needed: its blocks follow each other.  The sum over places becomes the sum over blocks because the
list has each of them once, and the total becomes a number of instructions by exchanging two sums.
The laws of sums are proved first, for the folds of the library.
`LowInv` is the other half of `ProfileIsSum`: a `Fini` in the middle of the run reads the counters one after the other while threads
write them, so its sums are no sums of one moment.  They are never above what was executed, because every counter it
has read was at most the number of executions then, and that number only grows (`PassedBlocks`, `LowKept`).
`LastProfileAgrees` is about the last profile only: where there are blocks, a second `Fini` follows the null pointer of the first, and the
process is broken before a sum could be accumulated twice.

*SessionProofs.*  `FilesAgree` needs that boxes offer only open files, also in the saved project, and that
the further boxes do as long as no project was opened without a file they list (`FurtherOK`);
`ShownIsFiltered` that a table without filters, message or load since was made with the active filters, and that
its history is saved with it; `ProjectIntact` that data counts as displayed only with a table or after a refusal.

*TagRangesProofs.*  `merged` is disjoint, ordered and covers exactly what was passed over so far;
the running total is the number of samples in the ranges already added, for
which disjointness is needed, and the cumulative sums are counts of samples.

*BbChopProofs.*  The invariant says that what was swept in a section lies behind the window
(`Behind`), that no two steps overlap (`Apart`), that every byte passed is covered (`Covered`), and that
the starts each step adds stay in the set (`StartsKept`); `Order` ties `pc` to the
section.  `BlocksAreBasic` follows because a branch inside a block would have put
an address there.  Assumed: the file is smaller than 0x4000000000 bytes, so that the limit on
targets excludes none that lies in it.

*DisassemblyProofs.*  `Tried` says that every window shorter than the present one has failed: with it
the window that succeeds is exactly as long as its instruction, so that
`start = stop` and the sum of lengths of the rows agree (`Adjoining`, `FirstAndLast`), and a loop
that ends early ends at no instruction.  For a block up to its end the invariant follows the starts: each is where the instruction
before ends, within the length the caller gave (`After`).  Assumed: a chunk holds the longest instruction.
`Descends` is the argument for termination: the measure is natural (`MeasureIsNatural`, for which no more blocks are
finished than were asked for and no chunk exceeds the memory, `Bounds`) and every step lowers it.

The assumptions on `Xed` are those of the decoder; all others are in the `ASSUME`s of the modules.

Induction over data.  Where a definition walks along a sequence or a set (`UpTo`, `IdsIn`, the sums), the proofs
use induction over a set of numbers or of subsets instead of over a predicate: the set of those for which the claim
holds has a least counterexample or none (`Least`, `SetInduction`, `SizeInduction`).  That the recursive function exists is
proved in the same way (`KeptExists`, `SumsExist`); without it nothing is known of its values.  `UpTo` and `IdsIn` are
recursive functions for this reason, not recursive operators.

Only model-checked: `Terminates`.  `Descends` proves that no run takes steps for ever; that a
run stops nowhere before its end is about fairness and ENABLED, which are beyond the prover.  The three runs that expect a violation have
counterexamples and no theorems.

## 5. What the code does not do

Met while modelling; the properties state what holds in spite of it.

- Opening a project over a panel with filters stacks the rows of both; after a load all boxes are
  ticked, whatever the flags; rows and numbers are paired in dictionary order.
- Opening a project enables neither the apply nor the clear button.
- A later thread with the same Pin id reports its predecessor's counts as well.
- `Image` reopens, and thereby truncates, the file of thread 0 if that thread has ended, and
  races with it if it has not.
- Exclusive choices are lost once a file is opened after a choice, or after a choice by wheel
  or key.  Removed boxes for displayed values leave their column greyed, and transposing adds
  stale rows to the greyed ones.
- `_getComboChoices` answers a gap between levels with `None`, which its callers unpack.
- If `pivot` raises in its thread, `ret[0]` raises `KeyError` and the busy indicator stays on; the
  `except` clause for it is never reached.  That the table is stale is not saved: the project
  opens with the old table, the new filters and no sign.
- `dataDisplayed` is set even if the pivot was refused.  Saving then truncates the project file
  and raises.
- Opening a project whose files are missing leaves its choices, some of its files, and the old table
  and filters.  Further boxes for displayed values keep their columns and their choice, so that a column of
  a file that is no longer open can be chosen and pivoted, and a project without a table keeps the old one on display.
- A table of a project comes back with one level on each axis: `to_csv` writes all levels, `from_csv` takes one column and one
  line for labels, and the other levels become data.
- Several displayed values over three column boxes lose the third level of the columns: `_concat_data_frames` builds its
  tuples of two.
- Counts of insmix are a lower bound, not what the comment in `Trace` (line 414) says: two threads
  that read a counter at the same time count once.
- System call 24 in a program that goes on to instrument a block leaves a null pointer that the
  sort of the last `Fini` follows.  With a block instrumented before the call it is followed as well; nothing is claimed
  of the process from then on.
- `merge` drops a function of one byte that lies behind the last merged range (`tag.py` 19-26), although the comment there says that
  what it passes over lies within it; `filterSymbols` makes such a range of every function of size 1.  `AddressesKept` excepts it.
- A tag without ranges stops `merge` with an `IndexError`.
- The bounds of `.fini` are not among the chopper's addresses, although `.fini` is swept; its comment
  also adds one to the ends of sections and symbols, which the code does not.
- A block of more than 64 bytes is disassembled from memory behind what was read.
- `get_basic_block` without an end raises `OverflowError` for every offset beyond 64, which
  `get_disassembly_for_basic_blocks`, `elf/demo.py` and `tests/test_disass.py` run into (run `disassembly_endless`);
  `disassemble_x64_until_bb_end` believes a length that exceeds its data; a range
  that starts with no instruction is read again and again up to a `MemoryError`.
- `get_basic_blocks` takes a number of instructions for an address.
- Functions of the same name share one entry of `childLookup`.

## 6. What could come next

1. `TagTree`: `functionTag` and `classTag` on top of `TagRanges`, with names used twice.
2. `InstList`: the SWIG list, its slices and the error flag its iterators share.
3. The refinement of `FilterList` by `FilterProject` in sessions that load nothing over rows.
