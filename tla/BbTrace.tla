------------------------------ MODULE BbTrace ------------------------------
(***************************************************************************)
(* The Pin tool src/pin/bbtrace.cpp: every thread of the profiled program  *)
(* writes the ids of the basic blocks it executes into a file of its own,  *)
(* followed, when it ends, by how often it executed each block.            *)
(*                                                                         *)
(* Pin runs the callbacks Trace, Image, ThreadStart and ThreadFini one at  *)
(* a time, under its client lock, on whichever thread triggers them.  The  *)
(* analysis routine CountBlock takes no lock: its statements interleave    *)
(* with everything.  That is safe while threads stay in their own slot of  *)
(* profiles and _globalBlockCount; Image, which always writes to the file  *)
(* of thread 0, does not.  Pin gives a new thread the lowest id that no    *)
(* live thread has, so the id of a thread that ended is used again.        *)
(***************************************************************************)
EXTENDS Integers, FiniteSets, SequencesExt

CONSTANTS
  MAX_THREADS,     \* size of profiles
  MAX_IMAGES,      \* size of img_info
  Blocks,          \* basic blocks of the program, by address
  NoBlock,         \* a thread that has executed no block yet
  MaxLength,       \* bound: blocks executed by one thread
  MaxLives         \* bound: threads that get the same id

ASSUME ThreadsAssumption == MAX_THREADS \in Nat \ {0}
ASSUME ImagesAssumption == MAX_IMAGES \in Nat \ {0, 1}
ASSUME BlocksAssumption == IsFiniteSet(Blocks) /\ NoBlock \notin Blocks

Threads == 0..(MAX_THREADS - 1)

VARIABLES
  pc,                     \* what each thread is doing
  current,                \* the block a thread in CountBlock counts
  block_map,              \* block -> its id, 0 before it was instrumented
  currentId,              \* BLOCK::_currentId
  currentImgId,           \* IMG_INFO::_currentImgId
  globalBlockCount,       \* block -> thread -> executions
  globalInstructionCount, \* thread -> block -> executions added up so far
  file,                   \* thread -> its stream and what was written
  aborted,                \* an ASSERTX failed
  ran,                    \* history: what the live thread executed
  lives                   \* history: how many threads had this id

tool == <<block_map, currentId, currentImgId>>
counters == <<globalBlockCount, globalInstructionCount>>
history == <<ran, lives>>
vars == <<pc, current, tool, counters, file, aborted, history>>

(***************************************************************************)
(* A thread is absent, between blocks, at one of the three places of       *)
(* CountBlock (block counted, id written, line ended), or in Image.        *)
(***************************************************************************)
Places == {"none", "run", "counted", "written", "image"}

Known == {b \in Blocks : block_map[b] # 0}

(***************************************************************************)
(* A file holds the ids, marker lines and line ends written so far; the    *)
(* lines of the final summary, one per block with a nonzero count; and the *)
(* instruction total, kept as how many executions of each block went into  *)
(* it, since the weights never change.                                     *)
(***************************************************************************)
NL == -1          \* not an id
Marker == -2      \* the text of a "G:" line, not an id either
Token == Nat \cup {NL, Marker}
Counts == [Blocks -> Nat]
File == [open : BOOLEAN, text : Seq(Token), summary : Counts, total : Counts,
         ended : BOOLEAN]
None == [b \in Blocks |-> 0]
NewFile == [open |-> TRUE, text |-> <<>>, summary |-> None, total |-> None,
            ended |-> FALSE]
NoFile == [open |-> FALSE, text |-> <<>>, summary |-> None, total |-> None,
           ended |-> FALSE]

(***************************************************************************)
(* Variants with a plausible slip stand before the definition they change, *)
(* each used to show that a property would notice it.  Here: a file that   *)
(* is opened again is appended to.                                         *)
(***************************************************************************)
OpensForAppending(f) == [f EXCEPT !.open = TRUE, !.ended = FALSE]

(***************************************************************************)
(* Opening truncates; a stream that is already open stays as it is.        *)
(***************************************************************************)
OpenIfClosed(f) == IF f.open THEN f ELSE NewFile

Written(f, tokens) == [f EXCEPT !.text = @ \o tokens]

Closed(f, summary, total) ==
  [open |-> FALSE, text |-> f.text, summary |-> summary, total |-> total,
   ended |-> TRUE]

(***************************************************************************)
(* Thread 0 in CountBlock and another thread in Image use the stream of    *)
(* file 0 without a lock.  What such a data race can do to the stream is   *)
(* modelled as the loss of a write.                                        *)
(***************************************************************************)
InCountBlock(t) == pc[t] \in {"counted", "written"}

Races(t) ==
  t = 0 /\ InCountBlock(0) /\ \E u \in Threads \ {0} : pc[u] = "image"

Write(t, token) ==
  \/ file' = [file EXCEPT ![t] = Written(@, <<token>>)]
  \/ Races(t) /\ UNCHANGED file

(***************************************************************************)
(* Pin's client lock is held by a thread that is in Image.                 *)
(***************************************************************************)
LockFree == \A t \in Threads : pc[t] # "image"

Init ==
  /\ pc = [t \in Threads |-> "none"]
  /\ current = [t \in Threads |-> NoBlock]
  /\ block_map = None
  /\ currentId = 1
  /\ currentImgId = 1
  /\ globalBlockCount = [b \in Blocks |-> [t \in Threads |-> 0]]
  /\ globalInstructionCount = [t \in Threads |-> None]
  /\ file = [t \in Threads |-> NoFile]
  /\ aborted = FALSE
  /\ ran = [t \in Threads |-> <<>>]
  /\ lives = [t \in Threads |-> 0]

-----------------------------------------------------------------------------
(***************************************************************************)
(* Callbacks under the client lock.                                        *)
(***************************************************************************)

(***************************************************************************)
(* Pin starts a thread, the program's main one or one that a running       *)
(* thread creates.  With MAX_THREADS threads alive the next one fails the  *)
(* assertion.                                                              *)
(***************************************************************************)
ProgramStarts == \A t \in Threads : lives[t] = 0

ProgramRuns ==
  /\ LockFree /\ ~aborted
  /\ ProgramStarts \/ \E t \in Threads : pc[t] = "run"

ThreadStart(t) ==
  /\ ProgramRuns
  /\ pc[t] = "none" /\ \A u \in Threads : u < t => pc[u] # "none"
  /\ lives[t] < MaxLives
  /\ pc' = [pc EXCEPT ![t] = "run"]
  /\ file' = [file EXCEPT ![t] = OpenIfClosed(@)]
  /\ ran' = [ran EXCEPT ![t] = <<>>]
  /\ lives' = [lives EXCEPT ![t] = @ + 1]
  /\ UNCHANGED <<current, tool, counters, aborted>>

ThreadStartAborts ==
  /\ ProgramRuns
  /\ \A t \in Threads : pc[t] # "none"
  /\ aborted' = TRUE
  /\ UNCHANGED <<pc, current, tool, counters, file, history>>

(***************************************************************************)
(* LookupBlock makes a BLOCK for what is not in the map, and each gets the *)
(* next id.                                                                *)
(***************************************************************************)
NewBlocks(bbls) == bbls \ Known

NextId(new) == currentId + Cardinality(new)

(***************************************************************************)
(* Thread t is about to run a trace of the blocks bbls for the first time: *)
(* the new ones get their ids in the order of the trace, and a count of    *)
(* zero for every thread.                                                  *)
(***************************************************************************)
Trace(t, bbls) ==
  LET new == NewBlocks(bbls)
  IN  /\ LockFree /\ ~aborted
      /\ pc[t] = "run"
      /\ new # {}
      /\ \E position \in Bijection(new, 0..(Cardinality(new) - 1)) :
           block_map' = [b \in Blocks |-> IF b \in new
                                          THEN currentId + position[b]
                                          ELSE block_map[b]]
      /\ currentId' = NextId(new)
      /\ globalBlockCount' = [b \in Blocks |-> IF b \in new
                                               THEN [u \in Threads |-> 0]
                                               ELSE globalBlockCount[b]]
      /\ UNCHANGED <<pc, current, currentImgId, globalInstructionCount, file,
                     aborted, history>>

(***************************************************************************)
(* Marker lines go to the file of thread 0, whichever thread loads the     *)
(* image.  Slip: they go to its own file.                                  *)
(***************************************************************************)
OwnFile(t) == t

ImageFile(t) == 0

(***************************************************************************)
(* Thread t loads an image.  The marker line goes to file 0, opened first  *)
(* if need be; the line end is a statement of its own.                     *)
(***************************************************************************)
Image(t) ==
  /\ LockFree /\ ~aborted
  /\ pc[t] = "run"
  /\ currentImgId < MAX_IMAGES - 1
  /\ currentImgId' = currentImgId + 1
  /\ \/ file' = [file EXCEPT ![ImageFile(t)] = Written(OpenIfClosed(@), <<Marker>>)]
     \/ t # 0 /\ InCountBlock(0) /\ UNCHANGED file
  /\ pc' = [pc EXCEPT ![t] = "image"]
  /\ UNCHANGED <<current, block_map, currentId, counters, aborted, history>>

ImageLineEnd(t) ==
  /\ pc[t] = "image" /\ ~aborted
  /\ Write(ImageFile(t), NL)
  /\ pc' = [pc EXCEPT ![t] = "run"]
  /\ UNCHANGED <<current, tool, counters, aborted, history>>

(***************************************************************************)
(* Images the loader maps before the first instruction of the program, and *)
(* so before ThreadStart(0).                                               *)
(***************************************************************************)
FirstImage ==
  /\ ProgramStarts /\ ~aborted
  /\ currentImgId < MAX_IMAGES - 1
  /\ currentImgId' = currentImgId + 1
  /\ file' = [file EXCEPT ![0] = Written(OpenIfClosed(@), <<Marker, NL>>)]
  /\ UNCHANGED <<pc, current, block_map, currentId, counters, aborted, history>>

(***************************************************************************)
(* One image too many: the assertion fails after the file was opened.      *)
(***************************************************************************)
ImageAborts ==
  /\ ProgramRuns
  /\ ~(currentImgId < MAX_IMAGES - 1)
  /\ aborted' = TRUE
  /\ file' = [file EXCEPT ![0] = OpenIfClosed(@)]
  /\ UNCHANGED <<pc, current, tool, counters, history>>

(***************************************************************************)
(* Slip: the files of all threads are closed when one ends.                *)
(***************************************************************************)
ThreadFiniClosesAll(t) ==
  /\ LockFree /\ ~aborted
  /\ pc[t] = "run"
  /\ file' = [u \in Threads |-> [file[u] EXCEPT !.open = FALSE]]
  /\ pc' = [pc EXCEPT ![t] = "none"]
  /\ UNCHANGED <<current, tool, counters, aborted, history>>

(***************************************************************************)
(* Thread t ends: EmitProgramEnd writes a line for every block with a      *)
(* nonzero count and the total, then the file is closed.  Neither the      *)
(* counts nor the total are cleared.  Slip: the counts of thread 0 are     *)
(* written.                                                                *)
(***************************************************************************)
CountsOfThreadZero(t) == [b \in Blocks |-> globalBlockCount[b][0]]

CountsOf(t) == [b \in Blocks |-> globalBlockCount[b][t]]

ThreadFini(t) ==
  LET total == [b \in Blocks |->
                  globalInstructionCount[t][b] + globalBlockCount[b][t]]
  IN  /\ LockFree /\ ~aborted
      /\ pc[t] = "run"
      /\ globalInstructionCount' = [globalInstructionCount EXCEPT ![t] = total]
      /\ file' = [file EXCEPT ![t] = Closed(@, CountsOf(t), total)]
      /\ pc' = [pc EXCEPT ![t] = "none"]
      /\ UNCHANGED <<current, tool, globalBlockCount, aborted, history>>

-----------------------------------------------------------------------------
(***************************************************************************)
(* CountBlock, statement by statement, without a lock: BLOCK::Execute, in  *)
(* the thread's own slot of the counts, then the id, then the line end.    *)
(* Slip: all threads count in one slot.                                    *)
(***************************************************************************)
CountedInOneSlot(b, t) == [globalBlockCount EXCEPT ![b][0] = @ + 1]

CountedInOwnSlot(b, t) == [globalBlockCount EXCEPT ![b][t] = @ + 1]

Execute(t, b) ==
  /\ pc[t] = "run" /\ ~aborted
  /\ b \in Known
  /\ Len(ran[t]) < MaxLength
  /\ globalBlockCount' = CountedInOwnSlot(b, t)
  /\ current' = [current EXCEPT ![t] = b]
  /\ ran' = [ran EXCEPT ![t] = Append(@, b)]
  /\ pc' = [pc EXCEPT ![t] = "counted"]
  /\ UNCHANGED <<tool, globalInstructionCount, file, aborted, lives>>

WriteId(t) ==
  /\ pc[t] = "counted" /\ ~aborted
  /\ Write(t, block_map[current[t]])
  /\ pc' = [pc EXCEPT ![t] = "written"]
  /\ UNCHANGED <<current, tool, counters, aborted, history>>

WriteLineEnd(t) ==
  /\ pc[t] = "written" /\ ~aborted
  /\ Write(t, NL)
  /\ pc' = [pc EXCEPT ![t] = "run"]
  /\ UNCHANGED <<current, tool, counters, aborted, history>>

Next ==
  \/ FirstImage
  \/ ThreadStartAborts
  \/ ImageAborts
  \/ \E t \in Threads :
       \/ ThreadStart(t)
       \/ ThreadFini(t)
       \/ \E bbls \in SUBSET Blocks : Trace(t, bbls)
       \/ Image(t)
       \/ ImageLineEnd(t)
       \/ \E b \in Blocks : Execute(t, b)
       \/ WriteId(t)
       \/ WriteLineEnd(t)

Spec == Init /\ [][Next]_vars
-----------------------------------------------------------------------------
(***************************************************************************)
(* Types: ids and counts are natural numbers, and a file holds tokens, of  *)
(* which ids are natural numbers and marks are not (bbtrace.cpp:113-171).  *)
(***************************************************************************)
TypeOK ==
  /\ pc \in [Threads -> Places]
  /\ current \in [Threads -> Blocks \cup {NoBlock}]
  /\ block_map \in [Blocks -> Nat]
  /\ currentId \in Nat /\ currentImgId \in Nat
  /\ globalBlockCount \in [Blocks -> [Threads -> Nat]]
  /\ globalInstructionCount \in [Threads -> [Blocks -> Nat]]
  /\ file \in [Threads -> File]
  /\ aborted \in BOOLEAN
  /\ ran \in [Threads -> Seq(Blocks)]
  /\ lives \in [Threads -> Nat]

(***************************************************************************)
(* ASSERTX in ThreadFini, and what CountBlock takes for granted: a live    *)
(* thread's stream is open (bbtrace.cpp:229-230, 350).                     *)
(***************************************************************************)
LiveFilesOpen == \A t \in Threads : pc[t] # "none" => file[t].open

(***************************************************************************)
(* An id in a file names one block, of all threads and for the whole run.  *)
(***************************************************************************)
IdsUnique ==
  /\ \A b \in Known : block_map[b] < currentId
  /\ \A b, c \in Known : block_map[b] = block_map[c] => b = c

(***************************************************************************)
(* Without the marker lines, the ids in the file of thread t are the       *)
(* blocks the thread executed, in that order: none missing, none of        *)
(* another thread, none left over from an earlier thread with this id.     *)
(* File 0 is reliable as long as no other thread was ever started, since   *)
(* then no other can be in Image.                                          *)
(***************************************************************************)
Reliable(t) == t # 0 \/ \A u \in Threads \ {0} : lives[u] = 0

IdsIn(text) ==
  LET ids[n \in 0..Len(text)] ==
        IF n = 0 THEN <<>>
        ELSE IF text[n] \in Nat THEN Append(ids[n - 1], text[n])
        ELSE ids[n - 1]
  IN  ids[Len(text)]

ExecutedIds(t) == [i \in DOMAIN ran[t] |-> block_map[ran[t][i]]]

TraceIsExecution ==
  \A t \in Threads :
    Reliable(t) /\ (pc[t] # "none" \/ file[t].ended) =>
      IdsIn(file[t].text) = IF pc[t] = "counted" THEN Front(ExecutedIds(t))
                                                 ELSE ExecutedIds(t)

(***************************************************************************)
(* Every line of a file other than 0 is one id: an id is never followed by *)
(* anything but its line end, whatever the other threads do meanwhile.     *)
(***************************************************************************)
PrivateLinesWhole ==
  \A t \in Threads \ {0} :
    \A i \in DOMAIN file[t].text :
      IF i % 2 = 1 THEN file[t].text[i] \in Nat ELSE file[t].text[i] = NL

(***************************************************************************)
(* The summary at the end of a file agrees with the ids above it, and the  *)
(* instruction total with the summary, in a reliable file and for the      *)
(* first thread with this id.                                              *)
(* (A later one inherits the counts of its predecessors: see the README.)  *)
(***************************************************************************)
Occurrences(x, s) == Cardinality({i \in DOMAIN s : s[i] = x})

SummaryAgreesWithTrace ==
  \A t \in Threads : Reliable(t) /\ file[t].ended /\ lives[t] = 1 =>
    /\ \A b \in Known :
         file[t].summary[b] = Occurrences(block_map[b], file[t].text)
    /\ file[t].total = file[t].summary

(***************************************************************************)
(* A file other than 0 changes only by steps of its own thread: no other   *)
(* thread writes into it, and once its thread has ended nothing happens to *)
(* it until Pin gives the id to a new thread.                              *)
(***************************************************************************)
OthersFilesKept == \A t \in Threads \ {0} : pc'[t] = pc[t] => file'[t] = file[t]

PrivateFiles == [][OthersFilesKept]_vars

(***************************************************************************)
(* How the traces a reader believes in are read off the state: the ids in  *)
(* a file stand for blocks, and a block that is counted but not written    *)
(* yet was not recorded.  Thread 0 is left out, whose file holds the       *)
(* markers of images too.                                                  *)
(***************************************************************************)
Private == Threads \ {0}

BlockOf(id) == CHOOSE b \in Known : block_map[b] = id

Decoded(text) ==
  LET ids == IdsIn(text) IN [i \in DOMAIN ids |-> BlockOf(ids[i])]

Executing(t, b) == IF pc[t] = "counted" /\ current[t] = b THEN 1 ELSE 0

Recorded(t) == [b \in Blocks |-> globalBlockCount[b][t] - Executing(t, b)]

LiveThreads == {t \in Private : pc[t] # "none"}

Logs == [t \in Private |-> Decoded(file[t].text)]

Recordings == [t \in Private |-> Recorded(t)]

Totals == [t \in Private |-> globalInstructionCount[t]]

Reports == [t \in Private |-> [summary |-> file[t].summary,
                               total |-> file[t].total]]

Traces == INSTANCE ThreadTraces WITH
  Thread <- Private, Block <- Blocks, live <- LiveThreads, trace <- Logs,
  executions <- Recordings, total <- Totals, report <- Reports

(***************************************************************************)
(* However the statements of CountBlock interleave with everything else,   *)
(* each execution of a block is as if recorded in one step of its thread,  *)
(* and the report at a thread's end as if made in one                      *)
(* (bbtrace.cpp:227-231, 311-331, 339-356).                                *)
(***************************************************************************)
ImplementsThreadTraces == Traces!TracesSpec
=============================================================================
