------------------------- MODULE DisassemblyProofs -------------------------
(***************************************************************************)
(* Proofs about Disassembly, for every binary, request and size.           *)
(***************************************************************************)
EXTENDS Disassembly, TLAPS

(***************************************************************************)
(* While a block is read, decoded and turned into rows: what was read.     *)
(***************************************************************************)
BytesAreRead ==
  /\ pc \in {"read", "decode", "rows"} => chunk_size >= CHUNK_SIZE
  /\ pc \in {"decode", "rows"} => bytes = BytesRead /\ length = RangeLength(bytes)

(***************************************************************************)
(* All windows shorter than the next one have failed.                      *)
(***************************************************************************)
Tried ==
  pc = "decode" =>
    /\ start < stop
    /\ \A w \in 1..(stop - 1 - start) :
         start + w <= bytes => ~decodes(code[offset + start], w)

(***************************************************************************)
(* The instructions of bb adjoin and, where they were read, are the code.  *)
(***************************************************************************)
Adjoining ==
  pc \in {"decode", "rows"} =>
    /\ Len(starts) = Len(bb)
    /\ \A k \in DOMAIN bb :
         starts[k] + bb[k].length <= bytes => code[offset + starts[k]] = bb[k]
    /\ \A k \in DOMAIN bb : k + 1 \in DOMAIN bb => starts[k + 1] = starts[k] + bb[k].length

FirstAndLast ==
  /\ pc = "decode" /\ bb = << >> => start = 0
  /\ pc = "decode" /\ bb # << >> =>
       starts[1] = 0 /\ starts[Len(bb)] + bb[Len(bb)].length = start
  /\ pc = "rows" /\ bb # << >> => starts[1] = offset_inside_bb

(***************************************************************************)
(* Before it returns, _disassemble_until_bb_end has met no end of a block  *)
(* and goes on behind the last instruction.                                *)
(***************************************************************************)
NoEndYet ==
  pc = "until_bb_end" =>
    /\ Len(starts) = Len(bb) /\ start = After(Len(bb))
    /\ \A k \in DOMAIN bb : ~terminates_bb(bb[k])

Inv ==
  /\ TypeOK /\ BytesAreRead /\ Tried /\ Adjoining /\ FirstAndLast
  /\ RowsAreCode /\ StopsAtNoInstruction /\ RaisesOnlyIf
  /\ NoEndYet /\ OneBlock

-----------------------------------------------------------------------------
LEMMA Sizes ==
  /\ FileSize \in Nat /\ CHUNK_SIZE \in Nat /\ MaxString \in Nat
  /\ LONGEST_POSSIBLE_INSTRUCTION \in Nat
  /\ 1 <= LONGEST_POSSIBLE_INSTRUCTION /\ LONGEST_POSSIBLE_INSTRUCTION <= CHUNK_SIZE
  /\ None \notin Int
BY SizesAssumption, RequestsAssumption, InstructionsAssumption

(***************************************************************************)
(* The instruction at an offset is one of known length, in the file.       *)
(***************************************************************************)
LEMMA CodeFacts ==
  ASSUME code \in Code, NEW x \in Offsets
  PROVE  /\ code[x] \in Instructions \cup {Undecodable}
         /\ code[x] \in Instructions =>
              /\ code[x].length \in Nat \ {0}
              /\ code[x].length <= LONGEST_POSSIBLE_INSTRUCTION
              /\ x + code[x].length <= FileSize
<1>1. code[x] \in Instructions \cup {Undecodable}
  BY DEF Code
<1>2. ASSUME code[x] \in Instructions
      PROVE  /\ code[x].length \in 1..LONGEST_POSSIBLE_INSTRUCTION
             /\ x + code[x].length <= FileSize
  BY <1>2, InstructionsAssumption, UndecodableAssumption DEF Code
<1> QED
  BY <1>1, <1>2, Sizes

LEMMA InstructionFacts ==
  ASSUME NEW i \in Instructions
  PROVE  i.length \in Nat \ {0} /\ i.length <= LONGEST_POSSIBLE_INSTRUCTION
BY InstructionsAssumption, Sizes

(***************************************************************************)
(* The range asked for lies in the file, and so do the bytes read.         *)
(***************************************************************************)
LEMMA RangeFacts ==
  ASSUME TypeOK, block \in DOMAIN addrs_list
  PROVE  /\ offset \in Offsets /\ offset \in Nat /\ offset < FileSize
         /\ to \in 0..FileSize \cup {None}
         /\ BytesRead \in Nat /\ BytesRead <= FileSize - offset
         /\ BytesRead <= chunk_size
         /\ BytesRead = chunk_size \/ BytesRead = FileSize - offset
<1>1. addrs_list[block] \in Range
  BY DEF TypeOK
<1>2. offset \in Offsets /\ to \in 0..FileSize \cup {None}
  BY <1>1 DEF Range, offset, to
<1>3. offset \in Nat /\ offset < FileSize
  BY <1>2, Sizes DEF Offsets
<1>4. chunk_size \in Nat
  BY DEF TypeOK
<1> HIDE DEF offset, to
<1> QED
  BY <1>2, <1>3, <1>4, Sizes DEF BytesRead

-----------------------------------------------------------------------------
LEMMA InitInv == Init => Inv
<1> SUFFICES ASSUME Init PROVE Inv
  OBVIOUS
<1>1. /\ addrs_list \in Seq(Range) /\ pc \in {"call", "until_bb_end"}
      /\ bytes \in 0..FileSize /\ length \in 0..FileSize
  <2>1. CASE InitRanges
    BY <2>1, RequestsAssumption, Sizes DEF InitRanges
  <2>2. CASE InitUntilBbEnd
    BY <2>2 DEF InitUntilBbEnd
  <2> QED
    BY <2>1, <2>2 DEF Init
<1>2. TypeOK
  BY <1>1, Sizes DEF Init, TypeOK, Ended
<1> QED
  BY <1>1, <1>2, Sizes DEF Init, Inv, BytesAreRead, Tried, Adjoining, FirstAndLast,
    RowsAreCode, StopsAtNoInstruction, RaisesOnlyIf, NoEndYet, OneBlock, After

(***************************************************************************)
(* Steps of the range reader that leave bb alone.                          *)
(***************************************************************************)
LEMMA CallInv == Inv /\ (NoSection \/ GetBasicBlock) => Inv'
<1> SUFFICES ASSUME Inv, NoSection \/ GetBasicBlock PROVE Inv'
  OBVIOUS
<1>1. block \in DOMAIN addrs_list
  BY DEF NoSection, GetBasicBlock, Inv, TypeOK
<1>2. TypeOK'
  BY <1>1, Sizes DEF NoSection, GetBasicBlock, Inv, TypeOK, Ended, inputs, frame
<1> QED
  BY <1>2, Sizes DEF NoSection, GetBasicBlock, Inv, BytesAreRead, Tried, Adjoining, FirstAndLast,
    RowsAreCode, InFirstChunk, Place, StopsAtNoInstruction, RaisesOnlyIf, NoEndYet, OneBlock, After,
    inputs, frame, offset, to

LEMMA ReadNegativeInv == Inv /\ ReadNegative => Inv'
<1> SUFFICES ASSUME Inv, ReadNegative PROVE Inv'
  OBVIOUS
<1>1. block \in DOMAIN addrs_list /\ TypeOK
  BY DEF ReadNegative, Inv, TypeOK
<1>2. bytes' \in 0..FileSize
  BY <1>1, RangeFacts, Sizes DEF ReadNegative
<1>3. TypeOK'
  BY <1>1, <1>2 DEF ReadNegative, TypeOK, Ended, inputs, frame
<1>4. RaisesOnlyIf'
  <2> SUFFICES ASSUME to # None PROVE ~decodes(code[offset], to - offset)
    BY DEF ReadNegative, RaisesOnlyIf, offset, to, inputs
  <2>1. to - offset < 0 /\ to - offset \in Int
    BY <1>1, RangeFacts DEF ReadNegative, RangeLength
  <2> QED
    BY <2>1, InstructionFacts DEF decodes
<1> QED
  BY <1>3, <1>4 DEF ReadNegative, Inv, BytesAreRead, Tried, Adjoining, FirstAndLast,
    RowsAreCode, InFirstChunk, Place, StopsAtNoInstruction, NoEndYet, OneBlock, After, inputs, frame

LEMMA ReadInv == Inv /\ Read => Inv'
<1> SUFFICES ASSUME Inv, Read PROVE Inv'
  OBVIOUS
<1>1. block \in DOMAIN addrs_list /\ TypeOK
  BY DEF Read, Inv, TypeOK
<1>2. BytesRead \in 0..FileSize /\ RangeLength(BytesRead) \in 0..FileSize
  BY <1>1, RangeFacts, Sizes DEF Read, RangeLength
<1>3. TypeOK'
  BY <1>1, <1>2 DEF Read, TypeOK, Ended, inputs, frame
<1>4. BytesAreRead'
  BY DEF Read, Inv, BytesAreRead, BytesRead, RangeLength, offset, to, inputs
<1>5. Tried'
  BY DEF Read, Tried
<1> QED
  BY <1>3, <1>4, <1>5 DEF Read, Inv, Adjoining, FirstAndLast,
    RowsAreCode, InFirstChunk, Place, StopsAtNoInstruction, RaisesOnlyIf, NoEndYet, OneBlock, After,
    inputs, frame

(***************************************************************************)
(* The window that decodes is as long as the instruction, if it was read.  *)
(***************************************************************************)
LEMMA DecodedFacts ==
  ASSUME Inv, pc = "decode", InRange, NEW i \in Decoded
  PROVE  /\ i \in Instructions /\ start + i.length = stop
         /\ stop <= bytes => i = code[offset + start]
<1>1. TypeOK /\ block \in DOMAIN addrs_list
  BY DEF Inv, TypeOK
<1>2. /\ start \in Nat /\ stop \in Nat /\ start < stop
      /\ bytes \in Nat /\ bytes <= FileSize - offset
  BY <1>1, RangeFacts DEF Inv, TypeOK, Tried, BytesAreRead
<1>3. CASE stop <= bytes
  <2>1. i = code[offset + start] /\ decodes(i, stop - start)
    BY <1>3 DEF Decoded
  <2>2. offset + start \in Offsets
    BY <1>1, <1>2, <1>3, RangeFacts, Sizes DEF Offsets
  <2>3. i \in Instructions /\ i.length <= stop - start /\ i.length \in Nat \ {0}
    BY <2>1, InstructionFacts DEF decodes
  <2>4. ASSUME i.length < stop - start PROVE FALSE
    <3>1. i.length \in 1..(stop - 1 - start) /\ start + i.length <= bytes
      BY <2>3, <2>4, <1>2, <1>3
    <3>2. ~decodes(code[offset + start], i.length)
      BY <3>1 DEF Inv, Tried
    <3> QED
      BY <3>2, <2>1, <2>3 DEF decodes
  <2> QED
    BY <2>1, <2>3, <2>4, <1>2
<1>4. CASE ~(stop <= bytes)
  <2>1. i \in Instructions /\ i.length = stop - start
    BY <1>4 DEF Decoded
  <2> QED
    BY <2>1, <1>2, <1>4
<1> QED
  BY <1>3, <1>4

LEMMA DecodeInv == Inv /\ Decode => Inv'
<1> SUFFICES ASSUME Inv, Decode PROVE Inv'
  OBVIOUS
<1>1. TypeOK /\ block \in DOMAIN addrs_list /\ pc = "decode" /\ InRange
  BY DEF Decode, Inv, TypeOK
<1>2. PICK i \in Decoded : bb' = Append(bb, i) /\ starts' = Append(starts, start)
  BY DEF Decode, Found
<1>3. /\ i \in Instructions /\ start + i.length = stop
      /\ stop <= bytes => i = code[offset + start]
  BY <1>1, DecodedFacts
<1>4. /\ start' = stop /\ stop' = stop + 1
      /\ pc' = pc /\ block' = block /\ chunk_size' = chunk_size /\ bytes' = bytes
      /\ length' = length /\ offset_inside_bb' = offset_inside_bb /\ rows' = rows
      /\ code' = code /\ addrs_list' = addrs_list
      /\ offset' = offset /\ to' = to
  BY DEF Decode, inputs, frame, offset, to
<1>5. /\ bb \in Seq(Instructions) /\ starts \in Seq(Nat) /\ Len(starts) = Len(bb)
      /\ start \in Nat /\ stop \in Nat /\ start < stop /\ stop <= length /\ length \in Nat
  BY <1>1 DEF Inv, TypeOK, Adjoining, Tried, InRange
<1>6. TypeOK'
  <2>1. bb' \in Seq(Instructions) /\ starts' \in Seq(Nat)
    BY <1>2, <1>3, <1>5
  <2>2. start' \in 0..length' /\ stop' \in 0..(length' + 1)
    BY <1>4, <1>5
  <2> QED
    BY <1>1, <1>4, <2>1, <2>2 DEF TypeOK
<1>7. /\ Len(bb') = Len(bb) + 1 /\ Len(starts') = Len(bb) + 1 /\ bb' # << >>
      /\ DOMAIN bb' = DOMAIN bb \cup {Len(bb) + 1} /\ DOMAIN bb = 1..Len(bb) /\ Len(bb) \in Nat
      /\ bb'[Len(bb) + 1] = i /\ starts'[Len(bb) + 1] = start
      /\ \A k \in DOMAIN bb : bb'[k] = bb[k] /\ starts'[k] = starts[k]
  BY <1>2, <1>3, <1>5
<1>8. BytesAreRead'
  BY <1>4 DEF Inv, BytesAreRead, BytesRead, RangeLength
<1>9. Tried'
  BY <1>4, <1>5 DEF Tried
<1>10. Adjoining'
  <2>1. ASSUME NEW k \in DOMAIN bb', starts'[k] + bb'[k].length <= bytes'
        PROVE  code'[offset' + starts'[k]] = bb'[k]
    <3>1. CASE k \in DOMAIN bb
      BY <3>1, <2>1, <1>1, <1>4, <1>7 DEF Inv, Adjoining
    <3>2. CASE k = Len(bb) + 1
      BY <3>2, <2>1, <1>3, <1>4, <1>7
    <3> QED
      BY <3>1, <3>2, <1>7
  <2>2. ASSUME NEW k \in DOMAIN bb', k + 1 \in DOMAIN bb'
        PROVE  starts'[k + 1] = starts'[k] + bb'[k].length
    <3>1. k \in DOMAIN bb
      BY <2>2, <1>7
    <3>2. CASE k + 1 \in DOMAIN bb
      BY <3>1, <3>2, <1>1, <1>7 DEF Inv, Adjoining
    <3>3. CASE k = Len(bb)
      <4>1. bb # << >> /\ starts[Len(bb)] + bb[Len(bb)].length = start
        BY <3>1, <3>3, <1>1, <1>5 DEF Inv, FirstAndLast
      <4> QED
        BY <3>1, <3>3, <4>1, <1>7
    <3> QED
      BY <3>1, <3>2, <3>3, <2>2, <1>7
  <2> QED
    BY <2>1, <2>2, <1>7 DEF Adjoining
<1>11. FirstAndLast'
  <2>1. starts'[1] = 0
    <3>1. CASE bb = << >>
      BY <3>1, <1>1, <1>5, <1>7 DEF Inv, FirstAndLast
    <3>2. CASE bb # << >>
      BY <3>2, <1>1, <1>5, <1>7 DEF Inv, FirstAndLast
    <3> QED
      BY <3>1, <3>2
  <2>2. starts'[Len(bb')] + bb'[Len(bb')].length = start'
    BY <1>3, <1>4, <1>7
  <2> QED
    BY <2>1, <2>2, <1>1, <1>4, <1>7 DEF FirstAndLast
<1>12. RowsAreCode'
  BY <1>4 DEF Inv, RowsAreCode, InFirstChunk, Place
<1> QED
  BY <1>1, <1>4, <1>6, <1>8, <1>9, <1>10, <1>11, <1>12
  DEF Inv, StopsAtNoInstruction, RaisesOnlyIf, NoEndYet, OneBlock, After

LEMMA GrowInv == Inv /\ Grow => Inv'
<1> SUFFICES ASSUME Inv, Grow PROVE Inv'
  OBVIOUS
<1>1. TypeOK /\ block \in DOMAIN addrs_list /\ pc = "decode" /\ InRange /\ MayFail
  BY DEF Grow, Inv, TypeOK
<1>2. /\ stop' = stop + 1 /\ start' = start
      /\ pc' = pc /\ block' = block /\ chunk_size' = chunk_size /\ bytes' = bytes
      /\ length' = length /\ offset_inside_bb' = offset_inside_bb /\ rows' = rows
      /\ code' = code /\ addrs_list' = addrs_list /\ bb' = bb /\ starts' = starts
      /\ offset' = offset /\ to' = to
  BY DEF Grow, Grown, inputs, frame, offset, to
<1>3. /\ start \in Nat /\ stop \in Nat /\ start < stop /\ stop <= length /\ length \in Nat
      /\ bytes \in Nat
  BY <1>1 DEF Inv, TypeOK, Tried, InRange
<1>4. TypeOK'
  <2>1. stop' \in 0..(length' + 1)
    BY <1>2, <1>3
  <2> QED
    BY <1>1, <1>2, <2>1 DEF TypeOK
<1>5. Tried'
  <2> SUFFICES ASSUME NEW w \in 1..(stop - start), start + w <= bytes
               PROVE  ~decodes(code[offset + start], w)
    BY <1>2, <1>3 DEF Tried
  <2>1. CASE w = stop - start
    BY <2>1, <1>1, <1>3 DEF MayFail
  <2>2. CASE w # stop - start
    <3>1. w \in 1..(stop - 1 - start)
      BY <2>2, <1>3
    <3> QED
      BY <3>1, <1>1 DEF Inv, Tried
  <2> QED
    BY <2>1, <2>2
<1>6. BytesAreRead' /\ RowsAreCode'
  BY <1>2 DEF Inv, BytesAreRead, BytesRead, RangeLength, RowsAreCode, InFirstChunk, Place
<1>7. Adjoining' /\ FirstAndLast'
  BY <1>2 DEF Inv, Adjoining, FirstAndLast
<1> QED
  BY <1>1, <1>2, <1>4, <1>5, <1>6, <1>7
  DEF Inv, StopsAtNoInstruction, RaisesOnlyIf, NoEndYet, OneBlock, After

(***************************************************************************)
(* Where the loop ends at a range that was read, nothing decodes.          *)
(***************************************************************************)
LEMMA LoopEnd ==
  ASSUME Inv, pc = "decode", ~InRange, length <= bytes
  PROVE  start = length \/ ~decodes(code[offset + start], length - start)
<1>1. /\ start \in Nat /\ stop \in Nat /\ start < stop /\ length \in Nat
      /\ start <= length /\ stop <= length + 1 /\ bytes \in Nat
  BY DEF Inv, TypeOK, Tried
<1>2. CASE start # length
  <2>1. stop = length + 1
    BY <1>1, <1>2 DEF InRange
  <2>2. length - start \in 1..(stop - 1 - start) /\ start + (length - start) <= bytes
    BY <2>1, <1>1, <1>2
  <2> QED
    BY <2>2 DEF Inv, Tried
<1> QED
  BY <1>2

LEMMA CrashInv == Inv /\ Crash => Inv'
<1> SUFFICES ASSUME Inv, Crash PROVE Inv'
  OBVIOUS
<1>1. TypeOK'
  BY DEF Crash, Inv, TypeOK, Ended, inputs, frame
<1> QED
  BY <1>1 DEF Crash, Inv, BytesAreRead, Tried, Adjoining, FirstAndLast,
    RowsAreCode, InFirstChunk, Place, StopsAtNoInstruction, RaisesOnlyIf, NoEndYet, OneBlock,
    After, inputs, frame

LEMMA ReadMoreInv == Inv /\ ReadMore => Inv'
<1> SUFFICES ASSUME Inv, ReadMore PROVE Inv'
  OBVIOUS
<1>1. TypeOK /\ block \in DOMAIN addrs_list /\ chunk_size >= CHUNK_SIZE /\ chunk_size \in Nat
  BY DEF ReadMore, Inv, TypeOK, BytesAreRead
<1>2. 2 * chunk_size >= CHUNK_SIZE /\ 2 * chunk_size \in Nat
  BY <1>1, Sizes
<1>3. TypeOK'
  BY <1>1, <1>2 DEF ReadMore, LargerChunk, TypeOK, inputs, frame
<1>4. BytesAreRead'
  BY <1>2 DEF ReadMore, LargerChunk, BytesAreRead
<1> QED
  BY <1>3, <1>4 DEF ReadMore, Inv, Tried, Adjoining, FirstAndLast,
    RowsAreCode, InFirstChunk, Place, StopsAtNoInstruction, RaisesOnlyIf, NoEndYet, OneBlock,
    After, inputs, frame

LEMMA OutOfMemoryInv == Inv /\ OutOfMemory => Inv'
<1> SUFFICES ASSUME Inv, OutOfMemory PROVE Inv'
  OBVIOUS
<1>1. /\ TypeOK /\ block \in DOMAIN addrs_list /\ pc = "decode" /\ ~InRange /\ start = 0
      /\ length = RangeLength(bytes) /\ bytes = BytesRead /\ chunk_size >= CHUNK_SIZE
  BY DEF OutOfMemory, Inv, TypeOK, FirstAndLast, BytesAreRead
<1>2. offset \in Offsets /\ offset \in Nat /\ length \in Nat /\ bytes \in Nat /\ stop \in Nat
  BY <1>1, RangeFacts DEF TypeOK
<1>3. ~decodes(code[offset], length)
  <2>1. CASE length <= bytes
    <3>1. length = 0 \/ ~decodes(code[offset + 0], length - 0)
      BY <2>1, <1>1, LoopEnd
    <3>2. offset + 0 = offset /\ length - 0 = length
      BY <1>2
    <3>3. ~decodes(code[offset], 0)
      BY <1>1, <1>2, CodeFacts DEF TypeOK, decodes
    <3> QED
      BY <3>1, <3>2, <3>3
  <2>2. CASE length > bytes
    <3>1. code[offset] \in Instructions => code[offset].length <= bytes
      <4>1. code \in Code
        BY <1>1 DEF TypeOK
      <4>2. /\ bytes = chunk_size \/ bytes = FileSize - offset
            /\ chunk_size \in Nat
        BY <1>1, RangeFacts DEF TypeOK
      <4> QED
        BY <4>1, <4>2, <1>1, <1>2, CodeFacts, Sizes
    <3>2. stop = length + 1
      BY <1>1, <1>2, <2>2 DEF InRange, TypeOK
    <3>3. code[offset] \in Instructions => ~decodes(code[offset], code[offset].length)
      <4> SUFFICES ASSUME code[offset] \in Instructions
                   PROVE  ~decodes(code[offset], code[offset].length)
        OBVIOUS
      <4>1. code[offset].length \in Nat \ {0}
        BY InstructionFacts
      <4>2. /\ code[offset].length \in 1..(stop - 1 - start)
            /\ start + code[offset].length <= bytes /\ offset + start = offset
        BY <4>1, <3>1, <3>2, <2>2, <1>1, <1>2
      <4> QED
        BY <4>2, <1>1 DEF Inv, Tried
    <3> QED
      BY <3>3, InstructionFacts DEF decodes
  <2> QED
    BY <2>1, <2>2, <1>2
<1>4. /\ pc' = "raised" /\ block' = block /\ chunk_size' = chunk_size /\ bytes' = bytes
      /\ length' = length /\ offset_inside_bb' = offset_inside_bb /\ rows' = rows
      /\ code' = code /\ addrs_list' = addrs_list /\ bb' = bb /\ starts' = starts
      /\ start' = start /\ stop' = stop /\ offset' = offset /\ to' = to
  BY DEF OutOfMemory, inputs, frame, offset, to
<1>5. RaisesOnlyIf'
  BY <1>1, <1>3, <1>4 DEF RaisesOnlyIf, RangeLength
<1> QED
  BY <1>1, <1>4, <1>5 DEF Inv, TypeOK, Ended, BytesAreRead, Tried, Adjoining, FirstAndLast,
    RowsAreCode, InFirstChunk, Place, StopsAtNoInstruction, NoEndYet, OneBlock, After

LEMMA ReturnBlockInv == Inv /\ ReturnBlock => Inv'
<1> SUFFICES ASSUME Inv, ReturnBlock PROVE Inv'
  OBVIOUS
<1>1. /\ TypeOK /\ block \in DOMAIN addrs_list /\ pc = "decode" /\ ~InRange /\ bb # << >>
  BY DEF ReturnBlock, Inv, TypeOK
<1>2. /\ pc' = "rows" /\ block' = block /\ chunk_size' = chunk_size /\ bytes' = bytes
      /\ length' = length /\ offset_inside_bb' = 0 /\ rows' = rows
      /\ code' = code /\ addrs_list' = addrs_list /\ bb' = bb /\ starts' = starts
      /\ start' = start /\ stop' = stop /\ offset' = offset /\ to' = to
  BY DEF ReturnBlock, FirstOffset, inputs, frame, offset, to
<1>3. TypeOK'
  BY <1>1, <1>2 DEF TypeOK, Ended
<1>4. StopsAtNoInstruction'
  BY <1>1, <1>2, LoopEnd DEF StopsAtNoInstruction
<1>5. Adjoining' /\ FirstAndLast'
  BY <1>1, <1>2 DEF Inv, Adjoining, FirstAndLast
<1> QED
  BY <1>1, <1>2, <1>3, <1>4, <1>5 DEF Inv, BytesAreRead, BytesRead, RangeLength, Tried,
    RowsAreCode, InFirstChunk, Place, RaisesOnlyIf, NoEndYet, OneBlock, After

LEMMA AddRowInv == Inv /\ AddRow => Inv'
<1> SUFFICES ASSUME Inv, AddRow PROVE Inv'
  OBVIOUS
<1> DEFINE row == [bb_offset |-> offset, inst_offset |-> offset_inside_bb, inst |-> Head(bb)]
<1>1. /\ TypeOK /\ block \in DOMAIN addrs_list /\ pc = "rows" /\ bb # << >>
      /\ bb \in Seq(Instructions) /\ starts \in Seq(Nat) /\ rows \in Seq(Row)
      /\ Len(starts) = Len(bb) /\ offset_inside_bb \in Nat
  BY DEF AddRow, Inv, TypeOK, Adjoining
<1>2. /\ pc' = pc /\ block' = block /\ chunk_size' = chunk_size /\ bytes' = bytes
      /\ length' = length /\ offset_inside_bb' = offset_inside_bb + Head(bb).length
      /\ rows' = Append(rows, row)
      /\ code' = code /\ addrs_list' = addrs_list /\ bb' = Tail(bb) /\ starts' = Tail(starts)
      /\ start' = start /\ stop' = stop /\ offset' = offset /\ to' = to
  BY DEF AddRow, inputs, frame, offset, to
<1>3. /\ Head(bb) \in Instructions /\ Head(bb) = bb[1] /\ 1 \in DOMAIN bb
      /\ Head(bb).length \in Nat /\ starts[1] = offset_inside_bb
  BY <1>1, InstructionFacts DEF Inv, FirstAndLast
<1>4. row \in Row
  BY <1>1, <1>3, RangeFacts DEF Row
<1>5. TypeOK'
  <2>1. bb' \in Seq(Instructions) /\ starts' \in Seq(Nat) /\ rows' \in Seq(Row)
    BY <1>1, <1>2, <1>4
  <2>2. offset_inside_bb' \in Nat
    BY <1>1, <1>2, <1>3
  <2> QED
    BY <1>1, <1>2, <2>1, <2>2 DEF TypeOK
<1>6. /\ Len(bb') = Len(bb) - 1 /\ Len(starts') = Len(bb) - 1 /\ Len(bb) \in Nat
      /\ DOMAIN bb = 1..Len(bb) /\ DOMAIN bb' = 1..(Len(bb) - 1)
      /\ \A k \in DOMAIN bb' : k + 1 \in DOMAIN bb /\ bb'[k] = bb[k + 1] /\ starts'[k] = starts[k + 1]
  BY <1>1, <1>2
<1>7. Adjoining'
  BY <1>1, <1>2, <1>6 DEF Inv, Adjoining
<1>8. FirstAndLast'
  <2> SUFFICES ASSUME bb' # << >> PROVE starts'[1] = offset_inside_bb'
    BY <1>1, <1>2 DEF FirstAndLast
  <2>1. 1 \in DOMAIN bb' /\ 2 \in DOMAIN bb /\ starts'[1] = starts[2]
    <3>1. Len(bb') # 0
      BY <1>5 DEF TypeOK
    <3> QED
      BY <3>1, <1>6
  <2>2. starts[1 + 1] = starts[1] + bb[1].length
    <3>1. \A k \in DOMAIN bb : k + 1 \in DOMAIN bb => starts[k + 1] = starts[k] + bb[k].length
      BY <1>1 DEF Inv, Adjoining
    <3>2. 1 \in DOMAIN bb /\ 1 + 1 \in DOMAIN bb
      BY <2>1, <1>3
    <3> HIDE DEF row
    <3> QED
      BY <3>1, <3>2
  <2> QED
    BY <2>1, <2>2, <1>2, <1>3
<1>9. RowsAreCode'
  <2> SUFFICES ASSUME NEW k \in DOMAIN rows', InFirstChunk(rows'[k])
               PROVE  code[Place(rows'[k])] = rows'[k].inst
    BY <1>2 DEF RowsAreCode, Place, InFirstChunk
  <2>1. InFirstChunk(rows'[k])
    OBVIOUS
  <2>2. CASE k \in DOMAIN rows
    <3>1. rows'[k] = rows[k]
      BY <2>2, <1>1, <1>2, <1>4
    <3> QED
      BY <2>1, <2>2, <3>1 DEF Inv, RowsAreCode
  <2>3. CASE k = Len(rows) + 1
    <3>1. rows'[k] = row
      BY <2>3, <1>1, <1>2, <1>4
    <3>2. offset_inside_bb + Head(bb).length <= bytes
      <4>1. /\ offset_inside_bb + Head(bb).length <= CHUNK_SIZE
            /\ offset + offset_inside_bb + Head(bb).length <= FileSize
        BY <2>1, <3>1 DEF InFirstChunk, Place
      <4>2. /\ bytes = chunk_size \/ bytes = FileSize - offset
            /\ chunk_size \in Nat /\ chunk_size >= CHUNK_SIZE /\ offset \in Nat
        BY <1>1, RangeFacts DEF Inv, TypeOK, BytesAreRead
      <4> HIDE DEF row
      <4> QED
        BY <4>1, <4>2, <1>1, <1>3, Sizes
    <3>3. code[offset + starts[1]] = bb[1]
      BY <3>2, <1>1, <1>3 DEF Inv, Adjoining
    <3> QED
      BY <3>1, <3>3, <1>3 DEF Place
  <2>4. DOMAIN rows' = DOMAIN rows \cup {Len(rows) + 1}
    BY <1>1, <1>2, <1>4
  <2> QED
    BY <2>2, <2>3, <2>4
<1> QED
  BY <1>1, <1>2, <1>5, <1>7, <1>8, <1>9 DEF Inv, BytesAreRead, BytesRead, RangeLength, Tried,
    StopsAtNoInstruction, RaisesOnlyIf, NoEndYet, OneBlock, After

LEMMA NextBlockInv == Inv /\ (NextBlock \/ Return) => Inv'
<1> SUFFICES ASSUME Inv, NextBlock \/ Return PROVE Inv'
  OBVIOUS
<1>1. TypeOK'
  <2>1. /\ block' \in Nat \ {0} /\ pc' \in {"call", "done"}
        /\ code' = code /\ addrs_list' = addrs_list
    BY DEF NextBlock, Return, Inv, TypeOK, inputs
  <2>2. UNCHANGED <<chunk_size, bytes, length, start, stop, bb, frame, starts>>
    BY DEF NextBlock, Return
  <2>3. TypeOK
    BY DEF Inv
  <2> QED
    BY <2>1, <2>2, <2>3 DEF TypeOK, Ended, frame
<1> QED
  BY <1>1 DEF NextBlock, Return, Inv, BytesAreRead, Tried, Adjoining, FirstAndLast,
    RowsAreCode, InFirstChunk, Place, StopsAtNoInstruction, RaisesOnlyIf, NoEndYet, OneBlock, After,
    inputs, frame

LEMMA DecodeUntilBbEndInv == Inv /\ DecodeUntilBbEnd => Inv'
<1> SUFFICES ASSUME Inv, DecodeUntilBbEnd PROVE Inv'
  OBVIOUS
<1>1. PICK i \in DecodedAtOnce :
        /\ bb' = Append(bb, i) /\ starts' = Append(starts, start)
        /\ \/ pc' = "returned" /\ start' = start /\ terminates_bb(i)
           \/ pc' = pc /\ start' = start + i.length /\ ~terminates_bb(i)
  BY DEF DecodeUntilBbEnd, Found, Behind
<1>2. /\ block' = block /\ chunk_size' = chunk_size /\ bytes' = bytes
      /\ length' = length /\ offset_inside_bb' = offset_inside_bb /\ rows' = rows
      /\ code' = code /\ addrs_list' = addrs_list /\ stop' = stop
      /\ pc = "until_bb_end" /\ start # length
  BY DEF DecodeUntilBbEnd, inputs, frame
<1>3. /\ TypeOK
      /\ bb \in Seq(Instructions) /\ starts \in Seq(Nat) /\ Len(starts) = Len(bb)
      /\ start \in Nat /\ length \in Nat /\ bytes \in Nat /\ start <= length
      /\ start = After(Len(bb))
  BY <1>2 DEF Inv, TypeOK, NoEndYet
<1>4. /\ i \in Instructions /\ i.length <= length - start
      /\ start + i.length <= bytes => i = code[start]
  <2>1. CASE EndsInData
    BY <2>1 DEF DecodedAtOnce, EndsInData, Remaining, decodes
  <2>2. CASE ~EndsInData
    <3>1. i \in Instructions /\ i.length <= length - start /\ start + i.length > bytes
      BY <2>2 DEF DecodedAtOnce, Remaining, decodes
    <3>2. i.length \in Nat
      BY <3>1, InstructionFacts
    <3> QED
      BY <3>1, <3>2, <1>3
  <2> QED
    BY <2>1, <2>2
<1>5. i.length \in Nat \ {0}
  BY <1>4, InstructionFacts
<1>6. TypeOK'
  <2>1. bb' \in Seq(Instructions) /\ starts' \in Seq(Nat)
    BY <1>1, <1>3, <1>4
  <2>2. start' \in 0..length
    BY <1>1, <1>3, <1>4, <1>5
  <2>3. pc' \in {"until_bb_end", "returned"}
    BY <1>1, <1>2
  <2> QED
    BY <1>2, <1>3, <2>1, <2>2, <2>3 DEF TypeOK, Ended
<1>7. /\ Len(bb') = Len(bb) + 1 /\ Len(starts') = Len(bb) + 1 /\ bb' # << >>
      /\ DOMAIN bb' = DOMAIN bb \cup {Len(bb) + 1} /\ DOMAIN bb = 1..Len(bb)
      /\ Len(bb) \in Nat
      /\ bb'[Len(bb) + 1] = i /\ starts'[Len(bb) + 1] = start
      /\ \A k \in DOMAIN bb : bb'[k] = bb[k] /\ starts'[k] = starts[k]
  BY <1>1, <1>3, <1>4
<1> DEFINE after(k) == IF k = 0 THEN 0 ELSE starts'[k] + bb'[k].length
<1>8. /\ \A k \in 0..Len(bb) : after(k) = After(k)
      /\ after(Len(bb) + 1) = start + i.length
  BY <1>7 DEF After
<1> HIDE DEF after
<1>9. ASSUME NEW k \in DOMAIN bb'
      PROVE  /\ starts'[k] = after(k - 1) /\ after(k) <= length
             /\ after(k) <= bytes => bb'[k] = code[starts'[k]]
             /\ terminates_bb(bb'[k]) => k = Len(bb')
  <2>1. CASE k \in DOMAIN bb
    <3>1. /\ starts[k] = After(k - 1) /\ After(k) <= length
          /\ After(k) <= bytes => bb[k] = code[starts[k]]
      BY <2>1, <1>2 DEF Inv, OneBlock
    <3>2. ~terminates_bb(bb[k])
      BY <2>1, <1>2 DEF Inv, NoEndYet
    <3>3. k \in 0..Len(bb) /\ k - 1 \in 0..Len(bb)
      BY <2>1, <1>7
    <3> QED
      BY <2>1, <3>1, <3>2, <3>3, <1>7, <1>8
  <2>2. CASE k = Len(bb) + 1
    <3>1. k - 1 = Len(bb) /\ Len(bb) \in 0..Len(bb) /\ k = Len(bb')
      BY <2>2, <1>7
    <3> QED
      BY <2>2, <3>1, <1>3, <1>4, <1>5, <1>7, <1>8
  <2> QED
    BY <2>1, <2>2, <1>7
<1>10. NoEndYet'
  <2> SUFFICES ASSUME pc' = "until_bb_end"
               PROVE  /\ Len(starts') = Len(bb') /\ start' = after(Len(bb'))
                      /\ \A k \in DOMAIN bb' : ~terminates_bb(bb'[k])
    BY DEF NoEndYet, After, after
  <2>1. start' = start + i.length /\ ~terminates_bb(i)
    BY <1>1, <1>2
  <2>2. \A k \in DOMAIN bb : ~terminates_bb(bb[k])
    BY <1>2 DEF Inv, NoEndYet
  <2> QED
    BY <2>1, <2>2, <1>7, <1>8
<1>11. OneBlock'
  <2>1. pc' = "returned" => bb' # << >> /\ terminates_bb(bb'[Len(bb')])
    BY <1>1, <1>2, <1>7
  <2>2. \A k \in DOMAIN bb' :
          /\ starts'[k] = (IF k - 1 = 0 THEN 0 ELSE starts'[k - 1] + bb'[k - 1].length)
          /\ (IF k = 0 THEN 0 ELSE starts'[k] + bb'[k].length) <= length
          /\ (IF k = 0 THEN 0 ELSE starts'[k] + bb'[k].length) <= bytes
               => bb'[k] = code[starts'[k]]
          /\ terminates_bb(bb'[k]) => k = Len(bb')
    BY <1>9 DEF after
  <2> QED
    BY <2>1, <2>2, <1>2 DEF OneBlock, After
<1> QED
  BY <1>1, <1>2, <1>6, <1>10, <1>11
  DEF Inv, BytesAreRead, Tried, Adjoining, FirstAndLast,
    RowsAreCode, InFirstChunk, Place, StopsAtNoInstruction, RaisesOnlyIf

LEMMA ReturnUntilBbEndInv == Inv /\ ReturnUntilBbEnd => Inv'
<1> SUFFICES ASSUME Inv, ReturnUntilBbEnd PROVE Inv'
  OBVIOUS
<1>1. TypeOK'
  BY DEF ReturnUntilBbEnd, Inv, TypeOK, Ended, inputs, frame
<1>2. /\ pc = "until_bb_end" /\ start = After(Len(bb))
      /\ start = length \/ ~decodes(code[start], length - start)
           \/ ~(start + code[start].length <= bytes)
  BY DEF ReturnUntilBbEnd, EndsInData, Remaining, Inv, NoEndYet
<1>3. \/ start + code[start].length \in Int /\ bytes \in Int
      \/ ~decodes(code[start], length - start)
  <2>1. ASSUME decodes(code[start], length - start)
        PROVE  start + code[start].length \in Int /\ bytes \in Int
    <3>1. code[start].length \in Nat
      BY <2>1, InstructionFacts DEF decodes
    <3> QED
      BY <3>1, Sizes DEF Inv, TypeOK
  <2> QED
    BY <2>1
<1>4. OneBlock'
  <2>1. UNCHANGED <<code, bytes, length, bb, starts>>
    BY DEF ReturnUntilBbEnd, inputs
  <2>2. \/ After(Len(bb)) = length
        \/ ~decodes(code[After(Len(bb))], length - After(Len(bb)))
        \/ After(Len(bb)) + code[After(Len(bb))].length > bytes
    BY <1>2, <1>3
  <2> QED
    BY <1>2, <2>1, <2>2 DEF Inv, OneBlock, After
<1> QED
  BY <1>1, <1>4 DEF ReturnUntilBbEnd, Inv, BytesAreRead, Tried, Adjoining, FirstAndLast,
    RowsAreCode, InFirstChunk, Place, StopsAtNoInstruction, RaisesOnlyIf, NoEndYet,
    inputs, frame

LEMMA NextInv == Inv /\ [Next]_vars => Inv'
<1> SUFFICES ASSUME Inv, [Next]_vars PROVE Inv'
  OBVIOUS
<1>1. CASE Next
  BY <1>1, CallInv, ReadNegativeInv, ReadInv, DecodeInv, GrowInv, CrashInv, ReadMoreInv, OutOfMemoryInv,
    ReturnBlockInv, AddRowInv, NextBlockInv, DecodeUntilBbEndInv, ReturnUntilBbEndInv DEF Next
<1>2. CASE UNCHANGED vars
  BY <1>2 DEF vars, inputs, frame, Inv, TypeOK, BytesAreRead, BytesRead, RangeLength, offset, to,
    Tried, Adjoining, FirstAndLast, RowsAreCode, InFirstChunk, Place, StopsAtNoInstruction,
    RaisesOnlyIf, NoEndYet, OneBlock, After
<1> QED
  BY <1>1, <1>2
-----------------------------------------------------------------------------
(***************************************************************************)
(* Inv is an invariant of both disassemblers.                              *)
(***************************************************************************)
THEOREM Invariance == Spec => []Inv
BY InitInv, NextInv, PTL DEF Spec

(***************************************************************************)
(* The window of _disassemble stays in the range that was asked for        *)
(* (xed_disass.c:109-195).                                                 *)
(***************************************************************************)
THEOREM TypeCorrect == Spec => []TypeOK
<1>1. Inv => TypeOK
  BY DEF Inv
<1> QED
  BY <1>1, Invariance, PTL

(***************************************************************************)
(* Every row within the first chunk of its block shows the instruction of  *)
(* the binary at the place it names (disass.py:130-185).                   *)
(***************************************************************************)
THEOREM RowsRight == Spec => []RowsAreCode
<1>1. Inv => RowsAreCode
  BY DEF Inv
<1> QED
  BY <1>1, Invariance, PTL

(***************************************************************************)
(* Decoding a range that was read leaves out only what is no instruction   *)
(* and what follows it (xed_disass.c:119-138).                             *)
(***************************************************************************)
THEOREM Complete == Spec => []StopsAtNoInstruction
<1>1. Inv => StopsAtNoInstruction
  BY DEF Inv
<1> QED
  BY <1>1, Invariance, PTL

(***************************************************************************)
(* get_basic_block refuses a range only if its offset is outside all       *)
(* sections or no instruction of the range begins there; of a request      *)
(* without an end it says nothing (disass.py:221-247).                     *)
(***************************************************************************)
THEOREM RaisesRightly == Spec => []RaisesOnlyIf
<1>1. Inv => RaisesOnlyIf
  BY DEF Inv
<1> QED
  BY <1>1, Invariance, PTL

(***************************************************************************)
(* Whatever length it is given, _disassemble_until_bb_end returns          *)
(* instructions one after the other, those within the data the code's, up  *)
(* to the first that ends the block or as far as they go (xed_disass.c:    *)
(* 163-195).                                                               *)
(***************************************************************************)
THEOREM ReturnsOneBlock == Spec => []OneBlock
<1>1. Inv => OneBlock
  BY DEF Inv
<1> QED
  BY <1>1, Invariance, PTL
-----------------------------------------------------------------------------
(***************************************************************************)
(* Why the computation ends.                                               *)
(***************************************************************************)

(***************************************************************************)
(* The request and the memory are not exceeded.                            *)
(***************************************************************************)
Bounds == block <= Len(addrs_list) + 1 /\ chunk_size <= MaxString

LEMMA InitBounds == Init => Bounds
<1> SUFFICES ASSUME Init PROVE Bounds
  OBVIOUS
<1>1. block = 1 /\ chunk_size = CHUNK_SIZE /\ addrs_list \in Seq(Range)
  BY InitInv DEF Init, Inv, TypeOK
<1> QED
  BY <1>1, SizesAssumption DEF Bounds

(***************************************************************************)
(* A block is finished only if there is one, and a chunk is enlarged only  *)
(* if there is memory for it.                                              *)
(***************************************************************************)
LEMMA NextBounds == Inv /\ Bounds /\ [Next]_vars => Bounds'
<1> SUFFICES ASSUME Inv, Bounds, [Next]_vars PROVE Bounds'
  OBVIOUS
<1>1. /\ addrs_list \in Seq(Range) /\ block \in Nat
      /\ pc = "rows" => block \in DOMAIN addrs_list
      /\ CHUNK_SIZE <= MaxString
  BY SizesAssumption DEF Inv, TypeOK
<1> USE DEF Bounds, inputs
<1>2. CASE GetBasicBlock
  BY <1>1, <1>2 DEF GetBasicBlock
<1>3. CASE ReadMore
  BY <1>1, <1>3 DEF ReadMore
<1>4. CASE NextBlock
  BY <1>1, <1>4 DEF NextBlock
<1>5. CASE UNCHANGED <<block, addrs_list, chunk_size>>
  BY <1>5
<1>6. \/ GetBasicBlock \/ ReadMore \/ NextBlock
      \/ UNCHANGED <<block, addrs_list, chunk_size>>
  BY DEF Next, NoSection, ReadNegative, Read, Decode, Grow, Crash, OutOfMemory,
         ReturnBlock, AddRow, Return, DecodeUntilBbEnd, ReturnUntilBbEnd, vars
<1> QED
  BY <1>2, <1>3, <1>4, <1>5, <1>6

(***************************************************************************)
(* The four numbers are natural, before a step and after it.               *)
(***************************************************************************)
Natural ==
  BlocksLeft \in Nat /\ Stage \in Nat /\ MemoryLeft \in Nat /\ WorkLeft \in Nat

LEMMA MeasureIsNatural == Inv /\ Bounds => Natural
<1> SUFFICES ASSUME Inv, Bounds PROVE Natural
  OBVIOUS
<1>1. /\ addrs_list \in Seq(Range) /\ block \in Nat /\ chunk_size \in Nat
      /\ length \in Nat /\ start \in 0..length /\ stop \in 0..(length + 1)
      /\ bb \in Seq(Instructions) /\ Len(bb) \in Nat /\ Len(addrs_list) \in Nat
  BY Sizes DEF Inv, TypeOK
<1>2. BlocksLeft \in Nat
  BY <1>1 DEF BlocksLeft, Bounds
<1>3. MemoryLeft \in Nat
  <2>1. MaxString - chunk_size \in Nat
    BY <1>1, Sizes DEF Bounds
  <2> QED
    BY <2>1 DEF MemoryLeft
<1>4. Stage \in Nat
  BY DEF Stage
<1>5. WorkLeft \in Nat
  <2>1. length + 1 - stop \in Nat /\ length - start \in Nat
    BY <1>1
  <2> QED
    BY <1>1, <2>1 DEF WorkLeft
<1> QED
  BY <1>2, <1>3, <1>4, <1>5 DEF Natural

LEMMA NaturalNext == (Inv /\ Bounds)' => Natural'
  BY MeasureIsNatural, PTL

(***************************************************************************)
(* The first of the four that changes decreases.                           *)
(***************************************************************************)
LEMMA Lower ==
  ASSUME Natural', Natural,
         \/ BlocksLeft' < BlocksLeft
         \/ BlocksLeft' = BlocksLeft /\ Stage' < Stage
         \/ BlocksLeft' = BlocksLeft /\ Stage' = Stage /\ MemoryLeft' < MemoryLeft
         \/ /\ BlocksLeft' = BlocksLeft /\ Stage' = Stage
            /\ MemoryLeft' = MemoryLeft /\ WorkLeft' < WorkLeft
  PROVE  Below(Measure', Measure)
<1> DEFINE m == Measure'
           n == Measure
<1>1. /\ m[1] = BlocksLeft' /\ m[2] = Stage' /\ m[3] = MemoryLeft' /\ m[4] = WorkLeft'
      /\ n[1] = BlocksLeft /\ n[2] = Stage /\ n[3] = MemoryLeft /\ n[4] = WorkLeft
  BY DEF Measure
<1> HIDE DEF m, n
<1>2. /\ m[1] \in Nat /\ m[2] \in Nat /\ m[3] \in Nat /\ m[4] \in Nat
      /\ n[1] \in Nat /\ n[2] \in Nat /\ n[3] \in Nat /\ n[4] \in Nat
  BY <1>1 DEF Natural
<1>3. \A k \in 1..4 : k = 1 \/ k = 2 \/ k = 3 \/ k = 4
  OBVIOUS
<1>4. \A k \in 1..4 : m[k] \in Nat
  BY <1>2, <1>3
<1>5. \E k \in 1..4 : m[k] < n[k] /\ \A j \in 1..(k - 1) : m[j] = n[j]
  <2>1. CASE m[1] < n[1]
    <3>1. 1 \in 1..4 /\ \A j \in 1..(1 - 1) : m[j] = n[j]
      OBVIOUS
    <3> QED
      BY <2>1, <3>1
  <2>2. CASE m[1] = n[1] /\ m[2] < n[2]
    <3>1. 2 \in 1..4 /\ \A j \in 1..(2 - 1) : j = 1
      OBVIOUS
    <3> QED
      BY <2>2, <3>1
  <2>3. CASE m[1] = n[1] /\ m[2] = n[2] /\ m[3] < n[3]
    <3>1. 3 \in 1..4 /\ \A j \in 1..(3 - 1) : j = 1 \/ j = 2
      OBVIOUS
    <3> QED
      BY <2>3, <3>1
  <2>4. CASE m[1] = n[1] /\ m[2] = n[2] /\ m[3] = n[3] /\ m[4] < n[4]
    <3>1. 4 \in 1..4 /\ \A j \in 1..(4 - 1) : j = 1 \/ j = 2 \/ j = 3
      OBVIOUS
    <3> QED
      BY <2>4, <3>1
  <2> QED
    BY <1>1, <2>1, <2>2, <2>3, <2>4
<1> QED
  BY <1>4, <1>5 DEF Below, m, n

(***************************************************************************)
(* Every step takes the computation nearer to its end.                     *)
(***************************************************************************)
LEMMA NextDescends ==
  Inv /\ Bounds /\ (Inv /\ Bounds)' /\ [Next]_vars
    => [Below(Measure', Measure)]_vars
<1> SUFFICES ASSUME Inv, Bounds, (Inv /\ Bounds)', Next
             PROVE  Below(Measure', Measure)
  BY DEF vars
<1>1. Natural /\ Natural'
  BY MeasureIsNatural, NaturalNext
<1>2. /\ addrs_list \in Seq(Range) /\ Len(addrs_list) \in Nat /\ block \in Nat
      /\ chunk_size \in Nat /\ length \in Nat /\ start \in Nat /\ stop \in Nat
      /\ bb \in Seq(Instructions) /\ MaxString \in Nat
  BY Sizes DEF Inv, TypeOK
<1> USE DEF inputs, frame
\* The block is done with, or the stage of it.
<1>3. CASE NextBlock
  <2>1. BlocksLeft' < BlocksLeft
    BY <1>2, <1>3 DEF NextBlock, BlocksLeft
  <2> QED
    BY <1>1, <2>1, Lower
<1>4. CASE \/ NoSection \/ GetBasicBlock \/ ReadNegative \/ Crash \/ OutOfMemory
           \/ ReturnBlock \/ Return \/ ReturnUntilBbEnd
  <2>1. BlocksLeft' = BlocksLeft
    BY <1>4 DEF NoSection, GetBasicBlock, ReadNegative, Crash, OutOfMemory,
                ReturnBlock, Return, ReturnUntilBbEnd, BlocksLeft
  <2>2. Stage' < Stage
    BY <1>4 DEF NoSection, GetBasicBlock, ReadNegative, Crash, OutOfMemory,
                ReturnBlock, Return, ReturnUntilBbEnd, Stage
  <2> QED
    BY <1>1, <2>1, <2>2, Lower
\* The chunk is read, or a larger one will be.
<1>5. CASE Read
  <2>1. BlocksLeft' = BlocksLeft /\ Stage' = Stage
    BY <1>5 DEF Read, BlocksLeft, Stage
  <2>2. MemoryLeft' < MemoryLeft
    BY <1>2, <1>5 DEF Read, MemoryLeft
  <2> QED
    BY <1>1, <2>1, <2>2, Lower
<1>6. CASE ReadMore
  <2>1. BlocksLeft' = BlocksLeft /\ Stage' = Stage
    BY <1>6 DEF ReadMore, BlocksLeft, Stage
  <2>2. chunk_size >= 1
    BY <1>2, <1>6, Sizes DEF ReadMore, Inv, BytesAreRead
  <2>3. /\ pc = "decode" /\ pc' = "read" /\ chunk_size' = 2 * chunk_size
    BY <1>6 DEF ReadMore, LargerChunk
  <2>4. MemoryLeft' < MemoryLeft
    BY <1>2, <2>2, <2>3 DEF MemoryLeft
  <2> QED
    BY <1>1, <2>1, <2>4, Lower
\* One window, row or instruction less is left.
<1>7. CASE Decode \/ Grow \/ AddRow \/ (DecodeUntilBbEnd /\ pc' = pc)
  <2>1. BlocksLeft' = BlocksLeft /\ Stage' = Stage /\ MemoryLeft' = MemoryLeft
    <3>1. UNCHANGED <<addrs_list, block, pc, chunk_size>>
      BY <1>7 DEF Decode, Grow, AddRow, DecodeUntilBbEnd
    <3> QED
      BY <3>1 DEF BlocksLeft, Stage, MemoryLeft
  <2>2. WorkLeft' < WorkLeft
    <3>1. CASE Decode \/ Grow
      <4>1. pc = "decode" /\ pc' = "decode" /\ length' = length /\ stop' = stop + 1
        BY <3>1 DEF Decode, Grow, Grown
      <4> QED
        BY <1>2, <4>1 DEF WorkLeft
    <3>2. CASE AddRow
      <4>1. pc = "rows" /\ pc' = "rows" /\ bb # << >> /\ bb' = Tail(bb)
        BY <3>2 DEF AddRow
      <4>2. Len(bb') = Len(bb) - 1 /\ Len(bb) \in Nat
        BY <1>2, <4>1
      <4> QED
        BY <4>1, <4>2 DEF WorkLeft
    <3>3. CASE DecodeUntilBbEnd /\ pc' = pc
      <4>1. /\ pc = "until_bb_end" /\ length' = length
            /\ \E i \in Instructions : start' = start + i.length
        BY <3>3 DEF DecodeUntilBbEnd, DecodedAtOnce, EndsInData, decodes, Behind
      <4>2. PICK i \in Instructions : start' = start + i.length
        BY <4>1
      <4>3. i.length \in Nat \ {0}
        BY InstructionFacts
      <4> QED
        BY <1>2, <3>3, <4>1, <4>2, <4>3 DEF WorkLeft
    <3> QED
      BY <1>7, <3>1, <3>2, <3>3
  <2> QED
    BY <1>1, <2>1, <2>2, Lower
<1>8. CASE DecodeUntilBbEnd /\ pc' = "returned"
  <2>1. BlocksLeft' = BlocksLeft /\ Stage' < Stage
    BY <1>8 DEF DecodeUntilBbEnd, BlocksLeft, Stage
  <2> QED
    BY <1>1, <2>1, Lower
<1>9. DecodeUntilBbEnd => pc' = pc \/ pc' = "returned"
  BY DEF DecodeUntilBbEnd
<1> QED
  <2>1. \/ NextBlock
        \/ \/ NoSection \/ GetBasicBlock \/ ReadNegative \/ Crash \/ OutOfMemory
           \/ ReturnBlock \/ Return \/ ReturnUntilBbEnd
        \/ Read \/ ReadMore
        \/ Decode \/ Grow \/ AddRow \/ DecodeUntilBbEnd
    BY Zenon DEF Next
  <2> QED
    BY <2>1, <1>3, <1>4, <1>5, <1>6, <1>7, <1>8, <1>9
(***************************************************************************)
(* No step of either disassembler leaves it as far from its end as it was: *)
(* however the bytes decode and whatever is asked for, get_basic_block     *)
(* reads a block a bounded number of times, each time more of it, and each *)
(* byte of it is decoded with a bounded number of windows                  *)
(* (disass.py:120-160, 221-247; xed_disass.c:119-137, 163-195).            *)
(***************************************************************************)
THEOREM Descends == Spec => StepsDescend
<1>1. Init => Inv /\ Bounds
  BY InitInv, InitBounds
<1>2. Inv /\ Bounds /\ [Next]_vars => (Inv /\ Bounds)'
  BY NextInv, NextBounds
<1>3. Inv /\ Bounds /\ (Inv /\ Bounds)' /\ [Next]_vars
        => [Below(Measure', Measure)]_vars
  BY NextDescends
<1> QED
  BY <1>1, <1>2, <1>3, PTL DEF Spec, StepsDescend
=============================================================================
