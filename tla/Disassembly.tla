---------------------------- MODULE Disassembly ----------------------------
(***************************************************************************)
(* The instructions of basic blocks: get_inst_lists_for_basic_blocks and   *)
(* get_basic_block of src/cp/elf/disass.py on top of _disassemble of       *)
(* src/cp/xed/xed_disass.c, which tries windows of one byte, two bytes and *)
(* so on until one decodes; and _disassemble_until_bb_end, which decodes   *)
(* with one window.                                                        *)
(***************************************************************************)
EXTENDS Xed, Sequences

CONSTANTS
  FileSize,    \* bytes of the binary
  CHUNK_SIZE,  \* 64: bytes read at first
  MaxString,   \* the longest string Python can allocate
  None,        \* no end given: get_disassembly_for_basic_blocks
  Mapped,      \* the offsets that lie in a section
  Requests     \* bound: lists of pairs of an offset and an end, or None

Offsets == 0..(FileSize - 1)

Range == [offset : Offsets, to : 0..FileSize \cup {None}]

ASSUME SizesAssumption ==
  /\ FileSize \in Nat /\ CHUNK_SIZE \in Nat /\ MaxString \in Nat
  /\ LONGEST_POSSIBLE_INSTRUCTION >= 1
  /\ LONGEST_POSSIBLE_INSTRUCTION <= CHUNK_SIZE
  /\ CHUNK_SIZE <= MaxString
ASSUME RequestsAssumption ==
  /\ None \notin Int
  /\ Mapped \subseteq Offsets
  /\ Requests \subseteq Seq(Range)

Code ==
  {code \in [Offsets -> Instructions \cup {Undecodable}] :
     \A x \in Offsets : code[x] # Undecodable => x + code[x].length <= FileSize}

VARIABLES
  code,              \* input: the instruction at each offset
  addrs_list,        \* input: the request
  pc,                \* where the computation is; see TypeOK
  block,             \* the element of addrs_list being worked on
  chunk_size,
  bytes,             \* how many bytes fd.read returned
  length,            \* how many bytes to decode
  start, stop,       \* the window tried next
  bb,                \* the instructions decoded
  offset_inside_bb,
  rows,              \* the rows of the data frame
  starts             \* history: start at each append to bb

inputs == <<code, addrs_list>>
frame == <<offset_inside_bb, rows>>
vars == <<inputs, pc, block, chunk_size, bytes, length, start, stop, bb, frame, starts>>

offset == addrs_list[block].offset
to == addrs_list[block].to

BytesRead ==
  IF chunk_size <= FileSize - offset THEN chunk_size ELSE FileSize - offset

RangeLength(n) == IF to = None THEN n - offset ELSE to - offset

(***************************************************************************)
(* The condition of the loop of _disassemble.  Slip: the end of the window *)
(* excluded.                                                               *)
(***************************************************************************)
InRangeExclusive == start < length /\ stop < length

InRange == start < length /\ stop <= length

(***************************************************************************)
(* What xed_decode may find in the window.  Behind the bytes read lies     *)
(* memory that nothing is known of.                                        *)
(***************************************************************************)
Decoded ==
  IF stop <= bytes
  THEN {i \in {code[offset + start]} : decodes(i, stop - start)}
  ELSE {i \in Instructions : i.length = stop - start}

MayFail ==
  stop <= bytes => ~decodes(code[offset + start], stop - start)

\* How the window grows after an error.  Slip: by two bytes.
GrownByTwo == stop + 2

Grown == stop + 1

\* How the chunk grows.  Slip: it does not.
SameChunk == chunk_size

LargerChunk == 2 * chunk_size

\* Where the rows of a list start to count.  Slip: where the last ones ended.
NotReset == offset_inside_bb

FirstOffset == 0

(***************************************************************************)
(* _disassemble_until_bb_end has one window, all that is left.  Slip: as   *)
(* long as in BbChop.  It, too, finds anything in what does not end within *)
(* the data.                                                               *)
(***************************************************************************)
LongestWindow == LONGEST_POSSIBLE_INSTRUCTION + 1

Remaining == length - start

EndsInData == decodes(code[start], Remaining) /\ start + code[start].length <= bytes

DecodedAtOnce ==
  IF EndsInData
  THEN {code[start]}
  ELSE {i \in Instructions : decodes(i, Remaining) /\ start + i.length > bytes}

\* Where decoding goes on.  Slip: at the next byte.
NextByte(instruction) == start + 1

Behind(instruction) == start + instruction.length
-----------------------------------------------------------------------------
InitRanges ==
  /\ addrs_list \in Requests
  /\ pc = "call"
  /\ bytes = 0 /\ length = 0

(***************************************************************************)
(* disassemble_x64_until_bb_end: the length is the caller's, or that of    *)
(* the data, which begins where the binary does.                           *)
(***************************************************************************)
InitUntilBbEnd ==
  /\ addrs_list = << >>
  /\ pc = "until_bb_end"
  /\ bytes \in 0..FileSize /\ length \in 0..FileSize

Init ==
  /\ code \in Code
  /\ InitRanges \/ InitUntilBbEnd
  /\ block = 1
  /\ chunk_size = CHUNK_SIZE
  /\ start = 0 /\ stop = 1
  /\ bb = << >> /\ starts = << >>
  /\ offset_inside_bb = 0 /\ rows = << >>

(***************************************************************************)
(* get_section_by_offset raises an ELFFileError for an offset that lies in *)
(* no section.                                                             *)
(***************************************************************************)
NoSection ==
  /\ pc = "call" /\ block <= Len(addrs_list)
  /\ offset \notin Mapped
  /\ pc' = "raised"
  /\ UNCHANGED <<inputs, block, chunk_size, bytes, length, start, stop, bb, frame, starts>>

GetBasicBlock ==
  /\ pc = "call" /\ block <= Len(addrs_list)
  /\ offset \in Mapped
  /\ pc' = "read"
  /\ chunk_size' = CHUNK_SIZE
  /\ UNCHANGED <<inputs, block, bytes, length, start, stop, bb, frame, starts>>

(***************************************************************************)
(* A negative length is not converted to unsigned: OverflowError.          *)
(***************************************************************************)
ReadNegative ==
  /\ pc = "read"
  /\ RangeLength(BytesRead) < 0
  /\ bytes' = BytesRead
  /\ pc' = "raised"
  /\ UNCHANGED <<inputs, block, chunk_size, length, start, stop, bb, frame, starts>>

Read ==
  /\ pc = "read"
  /\ RangeLength(BytesRead) >= 0
  /\ bytes' = BytesRead
  /\ length' = RangeLength(BytesRead)
  /\ start' = 0 /\ stop' = 1
  /\ bb' = << >> /\ starts' = << >>
  /\ pc' = "decode"
  /\ UNCHANGED <<inputs, block, chunk_size, frame>>

Found(instruction) ==
  /\ bb' = Append(bb, instruction)
  /\ starts' = Append(starts, start)

Decode ==
  /\ pc = "decode" /\ InRange
  /\ \E instruction \in Decoded : Found(instruction)
  /\ start' = stop
  /\ stop' = stop + 1
  /\ UNCHANGED <<inputs, pc, block, chunk_size, bytes, length, frame>>

Grow ==
  /\ pc = "decode" /\ InRange /\ MayFail
  /\ stop' = Grown
  /\ UNCHANGED <<inputs, pc, block, chunk_size, bytes, length, start, bb, frame, starts>>

Crash ==
  /\ \/ pc = "decode" /\ InRange /\ stop > bytes
     \/ pc = "until_bb_end" /\ start # length /\ length > bytes /\ ~EndsInData
  /\ pc' = "crashed"
  /\ UNCHANGED <<inputs, block, chunk_size, bytes, length, start, stop, bb, frame, starts>>

(***************************************************************************)
(* A list without instructions makes get_basic_block read more, until      *)
(* fd.read raises a MemoryError.                                           *)
(***************************************************************************)
ReadMore ==
  /\ pc = "decode" /\ ~InRange /\ bb = << >>
  /\ LargerChunk <= MaxString
  /\ chunk_size' = LargerChunk
  /\ pc' = "read"
  /\ UNCHANGED <<inputs, block, bytes, length, start, stop, bb, frame, starts>>

OutOfMemory ==
  /\ pc = "decode" /\ ~InRange /\ bb = << >>
  /\ LargerChunk > MaxString
  /\ pc' = "raised"
  /\ UNCHANGED <<inputs, block, chunk_size, bytes, length, start, stop, bb, frame, starts>>

ReturnBlock ==
  /\ pc = "decode" /\ ~InRange /\ bb # << >>
  /\ pc' = "rows"
  /\ offset_inside_bb' = FirstOffset
  /\ UNCHANGED <<inputs, block, chunk_size, bytes, length, start, stop, bb, rows, starts>>

(***************************************************************************)
(* for inst in bb; the instructions still to come are those left in bb.    *)
(***************************************************************************)
AddRow ==
  /\ pc = "rows" /\ bb # << >>
  /\ rows' = Append(rows, [bb_offset |-> offset, inst_offset |-> offset_inside_bb,
                           inst |-> Head(bb)])
  /\ offset_inside_bb' = offset_inside_bb + Head(bb).length
  /\ bb' = Tail(bb) /\ starts' = Tail(starts)
  /\ UNCHANGED <<inputs, pc, block, chunk_size, bytes, length, start, stop>>

NextBlock ==
  /\ pc = "rows" /\ bb = << >>
  /\ block' = block + 1
  /\ pc' = "call"
  /\ UNCHANGED <<inputs, chunk_size, bytes, length, start, stop, bb, frame, starts>>

Return ==
  /\ pc = "call" /\ block > Len(addrs_list)
  /\ pc' = "done"
  /\ UNCHANGED <<inputs, block, chunk_size, bytes, length, start, stop, bb, frame, starts>>

(***************************************************************************)
(* _disassemble_until_bb_end.  Its offset is start.  length - offset is    *)
(* unsigned, so that the loop ends only where the two are equal.           *)
(***************************************************************************)
DecodeUntilBbEnd ==
  /\ pc = "until_bb_end" /\ start # length
  /\ \E instruction \in DecodedAtOnce :
       /\ Found(instruction)
       /\ IF terminates_bb(instruction)
            THEN pc' = "returned" /\ start' = start
            ELSE pc' = pc /\ start' = Behind(instruction)
  /\ UNCHANGED <<inputs, block, chunk_size, bytes, length, stop, frame>>

ReturnUntilBbEnd ==
  /\ pc = "until_bb_end"
  /\ start # length => ~EndsInData
  /\ pc' = "returned"
  /\ UNCHANGED <<inputs, block, chunk_size, bytes, length, start, stop, bb, frame, starts>>

Next ==
  \/ NoSection \/ GetBasicBlock \/ ReadNegative \/ Read
  \/ Decode \/ Grow \/ Crash \/ ReadMore \/ OutOfMemory \/ ReturnBlock
  \/ AddRow \/ NextBlock \/ Return
  \/ DecodeUntilBbEnd \/ ReturnUntilBbEnd

(***************************************************************************)
(* One thread computes, and nothing makes it wait: it goes on.             *)
(***************************************************************************)
Spec == Init /\ [][Next]_vars /\ WF_vars(Next)
-----------------------------------------------------------------------------
(***************************************************************************)
(* The window never leaves the range that was asked for (disass.py:221-247, *)
(* xed_disass.c:109-195).                                                  *)
(***************************************************************************)
Ended == {"done", "returned", "raised", "crashed"}

Row == [bb_offset : Offsets, inst_offset : Nat, inst : Instructions]

TypeOK ==
  /\ code \in Code
  /\ addrs_list \in Seq(Range)
  /\ pc \in {"call", "read", "decode", "rows", "until_bb_end"} \cup Ended
  /\ pc \in {"read", "decode", "rows"} => block \in DOMAIN addrs_list
  /\ block \in Nat \ {0} /\ chunk_size \in Nat
  /\ bytes \in 0..FileSize /\ length \in 0..FileSize
  /\ start \in 0..length /\ stop \in 0..(length + 1)
  /\ bb \in Seq(Instructions)
  /\ starts \in Seq(Nat)
  /\ offset_inside_bb \in Nat
  /\ rows \in Seq(Row)

(***************************************************************************)
(* In the first chunk of a block, every row is the instruction of the      *)
(* binary at the place the row names: the sums of the lengths of the       *)
(* instructions (disass.py:130-185) retrace the windows they came from     *)
(* (xed_disass.c:119-137).                                                 *)
(***************************************************************************)
Place(row) == row.bb_offset + row.inst_offset

InFirstChunk(row) ==
  /\ row.inst_offset + row.inst.length <= CHUNK_SIZE
  /\ Place(row) + row.inst.length <= FileSize

RowsAreCode ==
  \A k \in DOMAIN rows : InFirstChunk(rows[k]) => code[Place(rows[k])] = rows[k].inst

(***************************************************************************)
(* Decoding of a range that was read ends at its end, or at the first      *)
(* bytes that are no instruction or one that the range cuts off            *)
(* (xed_disass.c:119-138).                                                 *)
(***************************************************************************)
StopsAtNoInstruction ==
  pc = "rows" /\ length <= bytes =>
    start = length \/ ~decodes(code[offset + start], length - start)

(***************************************************************************)
(* A request with an end is only refused if its offset is outside all      *)
(* sections or the range does not start with an instruction (disass.py:    *)
(* 226-247).                                                               *)
(***************************************************************************)
RaisesOnlyIf ==
  pc = "raised" /\ to # None =>
    offset \notin Mapped \/ ~decodes(code[offset], to - offset)

(***************************************************************************)
(* _disassemble_until_bb_end returns one block, the instructions one after *)
(* the other from the start of the data: those that end within the data    *)
(* are its own, none but the last ends the block, and the last does unless *)
(* the length is used up or the data has no further instruction that it    *)
(* allows (xed_disass.c:163-195).                                          *)
(***************************************************************************)
After(k) == IF k = 0 THEN 0 ELSE starts[k] + bb[k].length

OneBlock ==
  pc \in {"until_bb_end", "returned"} =>
    /\ \A k \in DOMAIN bb :
         /\ starts[k] = After(k - 1) /\ After(k) <= length
         /\ After(k) <= bytes => bb[k] = code[starts[k]]
         /\ terminates_bb(bb[k]) => k = Len(bb)
    /\ pc = "returned" =>
         LET end == After(Len(bb))
         IN  \/ bb # << >> /\ terminates_bb(bb[Len(bb)])
             \/ end = length
             \/ ~decodes(code[end], length - end)
             \/ end + code[end].length > bytes

(***************************************************************************)
(* Whatever is asked for, the computation ends: get_basic_block does not   *)
(* read the same bytes for ever (disass.py:232-247).                       *)
(***************************************************************************)
Terminates == <>(pc \in Ended)

(***************************************************************************)
(* Why it ends.  Of these four numbers, the first that a step changes      *)
(* decreases: the blocks still to come, the stage of the one being worked  *)
(* on, the memory left for a larger chunk (twice, and one more before it   *)
(* is read), and the windows, rows or bytes left in the stage.             *)
(***************************************************************************)
BlocksLeft == Len(addrs_list) + 1 - block

Stage ==
  CASE pc = "call" -> 3
    [] pc \in {"read", "decode", "until_bb_end"} -> 2
    [] pc = "rows" -> 1
    [] OTHER -> 0

MemoryLeft == 2 * (MaxString - chunk_size) + (IF pc = "read" THEN 1 ELSE 0)

WorkLeft ==
  CASE pc = "decode" -> length + 1 - stop
    [] pc = "rows" -> Len(bb)
    [] pc = "until_bb_end" -> length - start
    [] OTHER -> 0

Measure == <<BlocksLeft, Stage, MemoryLeft, WorkLeft>>

Below(m, n) ==
  /\ \A k \in 1..4 : m[k] \in Nat
  /\ \E k \in 1..4 : m[k] < n[k] /\ \A j \in 1..(k - 1) : m[j] = n[j]

(***************************************************************************)
(* Every step of the two disassemblers brings them nearer to their end     *)
(* (disass.py:120-160, 221-247; xed_disass.c:119-137, 163-195): the chunk  *)
(* that is read again is larger, a window that fails is followed by a      *)
(* longer one, and one that decodes by one behind it.                      *)
(***************************************************************************)
StepsDescend == [][Below(Measure', Measure)]_vars

-----------------------------------------------------------------------------
(***************************************************************************)
(* What get_inst_lists_for_basic_blocks says of itself (disass.py:104):    *)
(* the rows are the instructions of the blocks.  A block longer than a     *)
(* chunk is decoded from the memory behind the chunk.                      *)
(***************************************************************************)
RowsAreOfTheFile ==
  \A k \in DOMAIN rows :
    Place(rows[k]) \in Offsets /\ code[Place(rows[k])] = rows[k].inst

(***************************************************************************)
(* What tests/test_disass.py:10-14 says of a request without an end: there *)
(* is a block at an offset where the binary has an instruction.            *)
(***************************************************************************)
EndlessAnswered ==
  pc = "raised" /\ to = None =>
    offset \notin Mapped \/ code[offset] \notin Instructions
=============================================================================
