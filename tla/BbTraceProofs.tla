--------------------------- MODULE BbTraceProofs ---------------------------
(***************************************************************************)
(* Proofs about BbTrace, for any number of threads, images and blocks and  *)
(* for runs of any length.                                                 *)
(***************************************************************************)
EXTENDS BbTrace, FiniteSetTheorems, SequenceTheorems, TLAPS

WF == INSTANCE WellFoundedInduction

(***************************************************************************)
(* These names stand for expressions of a few symbols: always expanded.    *)
(***************************************************************************)
USE DEF NewBlocks, NextId, ImageFile, CountedInOwnSlot

(***************************************************************************)
(* There is a thread 0, to whose file the image markers go.                *)
(***************************************************************************)
LEMMA ThreadZero == 0 \in Threads
  BY ThreadsAssumption DEF Threads

(***************************************************************************)
(* Blocks met for the first time are a finite set, so that numbering them  *)
(* moves the next id by a natural number (bbtrace.cpp:236, 275-282).       *)
(***************************************************************************)
LEMMA NewBlocksFinite ==
  ASSUME NEW bbls \in SUBSET Blocks
  PROVE  /\ IsFiniteSet(bbls \ Known)
         /\ Cardinality(bbls \ Known) \in Nat
  BY FS_Subset, FS_CardinalityType, BlocksAssumption

(***************************************************************************)
(* The tokens that are written are tokens.                                 *)
(***************************************************************************)
LEMMA TokenTypes ==
  /\ NL \in Token /\ Marker \in Token /\ NL < 0 /\ Marker < 0
  /\ \A n \in Nat : n \in Token
  /\ \A token \in Token : <<token>> \in Seq(Token)
  /\ <<Marker, NL>> \in Seq(Token)
<1>1. NL \in Token /\ Marker \in Token /\ NL < 0 /\ Marker < 0
      /\ \A n \in Nat : n \in Token
  BY DEF NL, Marker, Token
<1> QED
  BY <1>1

(***************************************************************************)
(* A file is still a file after it was opened or written to.               *)
(***************************************************************************)
LEMMA FileTypes ==
  /\ NewFile \in File /\ NoFile \in File
  /\ \A f \in File : OpenIfClosed(f) \in File
  /\ \A f \in File, tokens \in Seq(Token) : Written(f, tokens) \in File
  /\ \A f \in File, summary, total \in Counts :
       Closed(f, summary, total) \in File
<1>1. NewFile \in File /\ NoFile \in File
  BY DEF NewFile, NoFile, File, None, Counts
<1>2. \A f \in File : OpenIfClosed(f) \in File
  BY <1>1 DEF OpenIfClosed
<1>3. ASSUME NEW f \in File, NEW tokens \in Seq(Token)
      PROVE  Written(f, tokens) \in File
  <2>1. f.text \in Seq(Token)
    BY DEF File
  <2>2. f.text \o tokens \in Seq(Token)
    BY <2>1, ConcatProperties
  <2> QED
    BY <2>2 DEF File, Written
<1>4. \A f \in File, summary, total \in Counts :
       Closed(f, summary, total) \in File
  BY DEF File, Closed
<1> QED
  BY <1>1, <1>2, <1>3, <1>4

(***************************************************************************)
(* A step that may write to the file of t leaves the others alone.         *)
(***************************************************************************)
LEMMA OneFile ==
  ASSUME file \in [Threads -> File], NEW t \in Threads, NEW f \in File,
         \/ file' = [file EXCEPT ![t] = f]
         \/ UNCHANGED file
  PROVE  /\ file' \in [Threads -> File]
         /\ file'[t] = file[t] \/ file'[t] = f
         /\ \A u \in Threads \ {t} : file'[u] = file[u]
<1>1. CASE file' = [file EXCEPT ![t] = f]
  BY <1>1
<1>2. CASE UNCHANGED file
  BY <1>2
<1> QED
  BY <1>1, <1>2

(***************************************************************************)
(* The state is well typed to begin with.                                  *)
(***************************************************************************)
LEMMA InitType == Init => TypeOK
<1> SUFFICES ASSUME Init PROVE TypeOK
  OBVIOUS
<1>1. file \in [Threads -> File]
  BY FileTypes DEF Init
<1>2. None \in [Blocks -> Nat]
  BY DEF None
<1>3. /\ globalBlockCount \in [Blocks -> [Threads -> Nat]]
      /\ globalInstructionCount \in [Threads -> [Blocks -> Nat]]
      /\ block_map \in [Blocks -> Nat]
  BY <1>2 DEF Init
<1>4. /\ pc \in [Threads -> Places]
      /\ current \in [Threads -> Blocks \cup {NoBlock}]
      /\ lives \in [Threads -> Nat]
      /\ ran \in [Threads -> Seq(Blocks)]
  BY DEF Init, Places
<1> QED
  BY <1>1, <1>3, <1>4 DEF Init, TypeOK

(***************************************************************************)
(* A thread in CountBlock counts a block that has an id: its call was put  *)
(* there by Trace (bbtrace.cpp:279-280).                                   *)
(***************************************************************************)
CountedIsKnown == \A t \in Threads : pc[t] = "counted" => current[t] \in Known

(***************************************************************************)
(* Every step of the tool keeps the state well typed.                      *)
(***************************************************************************)
LEMMA NextType == TypeOK /\ CountedIsKnown /\ [Next]_vars => TypeOK'
<1> SUFFICES ASSUME TypeOK, CountedIsKnown, [Next]_vars PROVE TypeOK'
  OBVIOUS
<1> USE DEF TypeOK, tool, counters, history
<1>0. /\ 0 \in Threads
      /\ \A t \in Threads : file[t] \in File /\ OpenIfClosed(file[t]) \in File
      /\ \A f \in File : /\ Written(f, <<NL>>) \in File
                         /\ Written(f, <<Marker>>) \in File
                         /\ Written(f, <<Marker, NL>>) \in File
  BY FileTypes, TokenTypes, ThreadZero
<1>1. CASE FirstImage
  <2>1. file' \in [Threads -> File]
    BY <1>0, <1>1 DEF FirstImage
  <2> QED
    BY <1>1, <2>1 DEF FirstImage
<1>2. CASE ThreadStartAborts
  BY <1>2 DEF ThreadStartAborts
<1>3. CASE ImageAborts
  BY <1>3, <1>0 DEF ImageAborts
<1>4. ASSUME NEW t \in Threads, ThreadStart(t) PROVE TypeOK'
  <2>1. file' \in [Threads -> File]
    BY <1>0, <1>4 DEF ThreadStart
  <2>2. pc' \in [Threads -> Places] /\ lives' \in [Threads -> Nat]
        /\ ran' \in [Threads -> Seq(Blocks)]
    BY <1>4 DEF ThreadStart, Places
  <2> QED
    BY <1>4, <2>1, <2>2 DEF ThreadStart
<1>5. ASSUME NEW t \in Threads, ThreadFini(t) PROVE TypeOK'
  <2> DEFINE total == [b \in Blocks |->
                  globalInstructionCount[t][b] + globalBlockCount[b][t]]
  <2>1. total \in Counts /\ CountsOf(t) \in Counts
    BY DEF Counts, CountsOf
  <2>2. Closed(file[t], CountsOf(t), total) \in File
    BY <2>1, FileTypes
  <2>3. file' \in [Threads -> File]
    BY <1>5, <2>2 DEF ThreadFini
  <2>4. globalInstructionCount' \in [Threads -> [Blocks -> Nat]]
    BY <1>5, <2>1 DEF ThreadFini, Counts
  <2> QED
    BY <1>5, <2>3, <2>4 DEF ThreadFini, Places
<1>6. ASSUME NEW t \in Threads, NEW bbls \in SUBSET Blocks, Trace(t, bbls)
      PROVE  TypeOK'
  <2> DEFINE new == bbls \ Known
  <2>1. Cardinality(new) \in Nat
    BY NewBlocksFinite
  <2>2. PICK position \in Bijection(new, 0..(Cardinality(new) - 1)) :
           block_map' = [b \in Blocks |-> IF b \in new
                                          THEN currentId + position[b]
                                          ELSE block_map[b]]
    BY <1>6 DEF Trace
  <2>3. \A b \in new : position[b] \in Nat
    BY <2>1, <2>2 DEF Bijection, Injection, Surjection
  <2>4. block_map' \in [Blocks -> Nat]
    BY <2>2, <2>3
  <2>5. globalBlockCount' \in [Blocks -> [Threads -> Nat]]
    BY <1>6 DEF Trace
  <2>6. currentId' \in Nat
    BY <1>6, <2>1 DEF Trace
  <2> QED
    BY <1>6, <2>4, <2>5, <2>6 DEF Trace
<1>7. ASSUME NEW t \in Threads, Image(t) PROVE TypeOK'
  <2>1. file' \in [Threads -> File] /\ pc' \in [Threads -> Places]
    <3> DEFINE f == Written(OpenIfClosed(file[0]), <<Marker>>)
    <3>1. pc' \in [Threads -> Places] /\ f \in File
      BY <1>0, <1>7 DEF Image, Places
    <3>2. (file' = [file EXCEPT ![0] = f]) \/ UNCHANGED file
      BY <1>7 DEF Image
    <3> HIDE DEF f
    <3> QED
      BY <1>0, <3>1, <3>2, OneFile
  <2> QED
    BY <1>7, <2>1 DEF Image
<1>8. ASSUME NEW t \in Threads, ImageLineEnd(t) PROVE TypeOK'
  <2>1. file' \in [Threads -> File] /\ pc' \in [Threads -> Places]
    <3>1. pc' \in [Threads -> Places]
      BY <1>0, <1>8 DEF ImageLineEnd, Places
    <3>2. CASE file' = [file EXCEPT ![0] = Written(file[0], <<NL>>)]
      BY <1>0, <3>1, <3>2
    <3>3. CASE UNCHANGED file
      BY <1>0, <3>1, <3>3
    <3> QED
      BY <1>8, <3>2, <3>3 DEF ImageLineEnd, Write
  <2> QED
    BY <1>8, <2>1 DEF ImageLineEnd
<1>9. ASSUME NEW t \in Threads, NEW b \in Blocks, Execute(t, b) PROVE TypeOK'
  <2> DEFINE row == [globalBlockCount[b] EXCEPT ![t] = globalBlockCount[b][t] + 1]
  <2>3. row \in [Threads -> Nat]
    OBVIOUS
  <2>4. globalBlockCount' = [globalBlockCount EXCEPT ![b] = row]
    BY <1>9 DEF Execute
  <2> HIDE DEF row
  <2>1. globalBlockCount' \in [Blocks -> [Threads -> Nat]]
    BY <2>3, <2>4
  <2>2. ran' \in [Threads -> Seq(Blocks)]
    BY <1>9 DEF Execute
  <2> QED
    BY <1>9, <2>1, <2>2 DEF Execute, Places
<1>10. ASSUME NEW t \in Threads, WriteId(t) PROVE TypeOK'
  <2>1. block_map[current[t]] \in Nat
    BY <1>10 DEF WriteId, CountedIsKnown, Known
  <2>2. <<block_map[current[t]]>> \in Seq(Token)
    BY <2>1, TokenTypes
  <2>3. file' \in [Threads -> File] /\ pc' \in [Threads -> Places]
    <3> DEFINE id == <<block_map[current[t]]>>
    <3>1. pc' \in [Threads -> Places]
      BY <1>0, <1>10 DEF WriteId, Places
    <3>2. \/ file' = [file EXCEPT ![t] = Written(file[t], id)]
          \/ UNCHANGED file
      BY <1>10 DEF WriteId, Write
    <3>3. id \in Seq(Token)
      BY <2>2
    <3> HIDE DEF id
    <3>4. Written(file[t], id) \in File
      BY <1>0, <3>3, FileTypes
    <3> QED
      BY <3>1, <3>2, <3>4, OneFile
  <2> QED
    BY <1>10, <2>3 DEF WriteId
<1>11. ASSUME NEW t \in Threads, WriteLineEnd(t) PROVE TypeOK'
  <2>1. file' \in [Threads -> File] /\ pc' \in [Threads -> Places]
    <3>1. pc' \in [Threads -> Places]
      BY <1>0, <1>11 DEF WriteLineEnd, Places
    <3>2. CASE file' = [file EXCEPT ![t] = Written(file[t], <<NL>>)]
      BY <1>0, <3>1, <3>2
    <3>3. CASE UNCHANGED file
      BY <1>0, <3>1, <3>3
    <3> QED
      BY <1>11, <3>2, <3>3 DEF WriteLineEnd, Write
  <2> QED
    BY <1>11, <2>1 DEF WriteLineEnd
<1>12. CASE UNCHANGED vars
  BY <1>12 DEF vars
<1> QED
  BY <1>1, <1>2, <1>3, <1>4, <1>5, <1>6, <1>7, <1>8, <1>9, <1>10, <1>11, <1>12
     DEF Next

(***************************************************************************)
(* A file that holds a summary is closed.                                  *)
(***************************************************************************)
EndedIsClosed == \A t \in Threads : file[t].ended => ~file[t].open

Streams == TypeOK /\ CountedIsKnown /\ LiveFilesOpen /\ EndedIsClosed

(***************************************************************************)
(* What opening, writing and closing do to a file.                         *)
(***************************************************************************)
LEMMA FileSteps ==
  /\ ~NoFile.open /\ ~NoFile.ended
  /\ \A f \in File : /\ OpenIfClosed(f).open
                     /\ (f.ended => ~f.open) => ~OpenIfClosed(f).ended
                     /\ f.open => OpenIfClosed(f) = f
                     /\ ~f.open => OpenIfClosed(f).text = <<>>
  /\ \A f \in File, tokens \in Seq(Token) :
       /\ Written(f, tokens).open = f.open
       /\ Written(f, tokens).ended = f.ended
       /\ Written(f, tokens).text = f.text \o tokens
       /\ Written(f, tokens).summary = f.summary
       /\ Written(f, tokens).total = f.total
  /\ \A f \in File, summary, total \in Counts :
       /\ ~Closed(f, summary, total).open /\ Closed(f, summary, total).ended
       /\ Closed(f, summary, total).text = f.text
       /\ Closed(f, summary, total).summary = summary
       /\ Closed(f, summary, total).total = total
<1>1. NewFile.open /\ ~NewFile.ended /\ NewFile.text = <<>>
      /\ ~NoFile.open /\ ~NoFile.ended
  BY DEF NewFile, NoFile
<1>2. ASSUME NEW f \in File
      PROVE  /\ OpenIfClosed(f).open
             /\ (f.ended => ~f.open) => ~OpenIfClosed(f).ended
             /\ f.open => OpenIfClosed(f) = f
             /\ ~f.open => OpenIfClosed(f).text = <<>>
  BY <1>1 DEF OpenIfClosed, File
<1>3. ASSUME NEW f \in File, NEW tokens \in Seq(Token)
      PROVE  /\ Written(f, tokens).open = f.open
             /\ Written(f, tokens).ended = f.ended
             /\ Written(f, tokens).text = f.text \o tokens
             /\ Written(f, tokens).summary = f.summary
             /\ Written(f, tokens).total = f.total
  BY DEF Written, File
<1>4. ASSUME NEW f \in File, NEW summary \in Counts, NEW total \in Counts
      PROVE  /\ ~Closed(f, summary, total).open
             /\ Closed(f, summary, total).ended
             /\ Closed(f, summary, total).text = f.text
             /\ Closed(f, summary, total).summary = summary
             /\ Closed(f, summary, total).total = total
  BY DEF Closed
<1> QED
  BY <1>1, <1>2, <1>3, <1>4

(***************************************************************************)
(* A token that is written is appended, and nothing else changes.          *)
(***************************************************************************)
LEMMA WrittenToken ==
  ASSUME NEW f \in File, NEW token \in Token
  PROVE  /\ Written(f, <<token>>).text = f.text \o <<token>>
         /\ Written(f, <<token>>).ended = f.ended
         /\ Written(f, <<token>>).summary = f.summary
         /\ Written(f, <<token>>).total = f.total
<1> DEFINE tokens == <<token>>
<1>1. tokens \in Seq(Token)
  OBVIOUS
<1> HIDE DEF tokens
<1>2. /\ Written(f, tokens).text = f.text \o tokens
      /\ Written(f, tokens).ended = f.ended
      /\ Written(f, tokens).summary = f.summary
      /\ Written(f, tokens).total = f.total
  BY <1>1, FileSteps
<1> QED
  BY <1>2 DEF tokens

(***************************************************************************)
(* Streams holds to begin with, and every step keeps it.                   *)
(***************************************************************************)
LEMMA InitStreams == Init => Streams
<1> SUFFICES ASSUME Init PROVE Streams
  OBVIOUS
<1>1. CountedIsKnown /\ LiveFilesOpen /\ EndedIsClosed
  BY FileSteps DEF Init, CountedIsKnown, LiveFilesOpen, EndedIsClosed
<1> QED
  BY <1>1, InitType DEF Streams

(***************************************************************************)
(* Every step keeps the streams in order: the file of a live thread open,  *)
(* and a file with a summary closed.                                       *)
(***************************************************************************)
LEMMA NextStreams == Streams /\ [Next]_vars => Streams'
<1> SUFFICES ASSUME Streams, [Next]_vars PROVE Streams'
  OBVIOUS
<1>1. TypeOK'
  BY NextType DEF Streams
<1> SUFFICES CountedIsKnown' /\ LiveFilesOpen' /\ EndedIsClosed'
  BY <1>1 DEF Streams
<1>2. /\ 0 \in Threads
      /\ pc \in [Threads -> Places]
      /\ current \in [Threads -> Blocks \cup {NoBlock}]
      /\ block_map \in [Blocks -> Nat]
      /\ file \in [Threads -> File]
      /\ \A t \in Threads : file[t] \in File /\ OpenIfClosed(file[t]) \in File
  BY FileTypes, ThreadZero DEF Streams, TypeOK
<1> USE <1>2 DEF CountedIsKnown, LiveFilesOpen, EndedIsClosed, Streams
<1>3. CASE FirstImage
  BY <1>3, FileSteps, TokenTypes DEF FirstImage, Known
<1>4. CASE ThreadStartAborts
  BY <1>4 DEF ThreadStartAborts, Known, tool
<1>5. CASE ImageAborts
  BY <1>5, FileSteps DEF ImageAborts, Known, tool
<1>6. ASSUME NEW t \in Threads, ThreadStart(t)
      PROVE  CountedIsKnown' /\ LiveFilesOpen' /\ EndedIsClosed'
  BY <1>6, FileSteps DEF ThreadStart, Known, tool
<1>7. ASSUME NEW t \in Threads, ThreadFini(t)
      PROVE  CountedIsKnown' /\ LiveFilesOpen' /\ EndedIsClosed'
  <2> DEFINE total == [b \in Blocks |->
                  globalInstructionCount[t][b] + globalBlockCount[b][t]]
  <2>1. total \in Counts /\ CountsOf(t) \in Counts
    BY DEF Counts, CountsOf, TypeOK
  <2>2. /\ file' = [file EXCEPT ![t] = Closed(file[t], CountsOf(t), total)]
        /\ pc' = [pc EXCEPT ![t] = "none"]
        /\ UNCHANGED <<current, block_map>>
    BY <1>7 DEF ThreadFini, tool
  <2>3. file'[t].ended /\ ~file'[t].open
    BY <2>1, <2>2, FileSteps
  <2> HIDE DEF total
  <2> QED
    BY <2>2, <2>3 DEF Known
<1>8. ASSUME NEW t \in Threads, NEW bbls \in SUBSET Blocks, Trace(t, bbls)
      PROVE  CountedIsKnown' /\ LiveFilesOpen' /\ EndedIsClosed'
  <2>1. UNCHANGED <<pc, current, file>>
    BY <1>8 DEF Trace
  <2>2. Known \subseteq Known'
    BY <1>8 DEF Trace, Known
  <2> QED
    BY <2>1, <2>2
<1>9. ASSUME NEW t \in Threads, Image(t)
      PROVE  CountedIsKnown' /\ LiveFilesOpen' /\ EndedIsClosed'
  <2>1. \/ file' = [file EXCEPT ![0] = Written(OpenIfClosed(file[0]), <<Marker>>)]
        \/ UNCHANGED file
    BY <1>9 DEF Image
  <2>2. /\ pc' = [pc EXCEPT ![t] = "image"] /\ pc[t] = "run"
        /\ UNCHANGED <<current, block_map>>
    BY <1>9 DEF Image
  <2>3. \A u \in Threads : /\ file[u].open => file'[u].open
                           /\ file'[u].ended => ~file'[u].open
    <3> DEFINE g == OpenIfClosed(file[0])
               marker == <<Marker>>
               f == Written(g, marker)
    <3>1. g \in File /\ g.open /\ ~g.ended
      BY FileSteps
    <3>2. marker \in Seq(Token)
      BY TokenTypes
    <3>3. (file' = [file EXCEPT ![0] = f]) \/ UNCHANGED file
      BY <2>1
    <3> HIDE DEF g, marker
    <3>4. \A h \in File : /\ Written(h, marker) \in File
                          /\ Written(h, marker).open = h.open
                          /\ Written(h, marker).ended = h.ended
      BY <3>2, FileSteps, FileTypes
    <3>5. f \in File /\ f.open /\ ~f.ended
      BY <3>1, <3>4
    <3> HIDE DEF f
    <3> QED
      BY <3>3, <3>5, OneFile
  <2>4. Known' = Known
    BY <2>2 DEF Known
  <2> QED
    BY <2>2, <2>3, <2>4 DEF Places
<1>10. ASSUME NEW t \in Threads, ImageLineEnd(t)
       PROVE  CountedIsKnown' /\ LiveFilesOpen' /\ EndedIsClosed'
  BY <1>10, FileSteps, TokenTypes DEF ImageLineEnd, Write, Known, tool
<1>11. ASSUME NEW t \in Threads, NEW b \in Blocks, Execute(t, b)
       PROVE  CountedIsKnown' /\ LiveFilesOpen' /\ EndedIsClosed'
  BY <1>11 DEF Execute, Known, tool
<1>12. ASSUME NEW t \in Threads, WriteId(t)
       PROVE  CountedIsKnown' /\ LiveFilesOpen' /\ EndedIsClosed'
  <2> DEFINE id == <<block_map[current[t]]>>
  <2>1. id \in Seq(Token)
    BY <1>12, TokenTypes DEF WriteId, Known
  <2>3. \/ file' = [file EXCEPT ![t] = Written(file[t], id)]
        \/ UNCHANGED file
    BY <1>12 DEF WriteId, Write
  <2> HIDE DEF id
  <2>2. \A u \in Threads : /\ file'[u].open = file[u].open
                           /\ file'[u].ended = file[u].ended
    <3> DEFINE f == Written(file[t], id)
    <3>1. f \in File /\ f.open = file[t].open /\ f.ended = file[t].ended
      BY <2>1, FileSteps, FileTypes
    <3> QED
      BY <2>3, <3>1, OneFile
  <2> QED
    BY <1>12, <2>2 DEF WriteId, Known, tool
<1>13. ASSUME NEW t \in Threads, WriteLineEnd(t)
       PROVE  CountedIsKnown' /\ LiveFilesOpen' /\ EndedIsClosed'
  <2>1. \A u \in Threads : /\ file'[u].open = file[u].open
                           /\ file'[u].ended = file[u].ended
    <3> DEFINE end == <<NL>>
               f == Written(file[t], end)
    <3>1. end \in Seq(Token)
      BY TokenTypes
    <3>2. (file' = [file EXCEPT ![t] = f]) \/ UNCHANGED file
      BY <1>13 DEF WriteLineEnd, Write
    <3> HIDE DEF end
    <3>3. f \in File /\ f.open = file[t].open /\ f.ended = file[t].ended
      BY <3>1, FileSteps, FileTypes
    <3> HIDE DEF f
    <3> QED
      BY <3>2, <3>3, OneFile
  <2> QED
    BY <1>13, <2>1 DEF WriteLineEnd, Known, tool
<1>14. CASE UNCHANGED vars
  BY <1>14 DEF vars, tool, Known
<1> QED
  BY <1>3, <1>4, <1>5, <1>6, <1>7, <1>8, <1>9, <1>10, <1>11, <1>12, <1>13,
     <1>14 DEF Next

(***************************************************************************)
(* The state is well typed, and the ASSERTX of ThreadFini never fails: a   *)
(* thread's stream is open as long as it lives (bbtrace.cpp:350).          *)
(***************************************************************************)
THEOREM StreamsAlways == Spec => []Streams
<1>1. Init => Streams
  BY InitStreams
<1>2. Streams /\ [Next]_vars => Streams'
  BY NextStreams
<1> QED
  BY <1>1, <1>2, PTL DEF Spec

(***************************************************************************)
(* The variables of the tool have their types (bbtrace.cpp:113-171).       *)
(***************************************************************************)
THEOREM TypeCorrect == Spec => []TypeOK
<1>1. Streams => TypeOK
  BY DEF Streams
<1> QED
  BY <1>1, StreamsAlways, PTL

(***************************************************************************)
(* CountBlock and ThreadFini find the thread's stream open.                *)
(***************************************************************************)
THEOREM OpenWhileAlive == Spec => []LiveFilesOpen
<1>1. Streams => LiveFilesOpen
  BY DEF Streams
<1> QED
  BY <1>1, StreamsAlways, PTL

(***************************************************************************)
(* A number below a bound stays below it when the bound grows, and a text  *)
(* keeps its bound when tokens below it are appended.                      *)
(***************************************************************************)
Bounded(text, bound) == \A i \in DOMAIN text : text[i] < bound

(***************************************************************************)
(* Appending what is below a bound to what is below it.                    *)
(***************************************************************************)
LEMMA BoundedConcat ==
  ASSUME NEW s \in Seq(Token), NEW tokens \in Seq(Token), NEW bound \in Nat,
         Bounded(s, bound), Bounded(tokens, bound)
  PROVE  Bounded(s \o tokens, bound)
<1> SUFFICES ASSUME NEW i \in DOMAIN (s \o tokens)
             PROVE  (s \o tokens)[i] < bound
  BY DEF Bounded
<1>1. i \in 1..(Len(s) + Len(tokens))
  OBVIOUS
<1>2. CASE i <= Len(s)
  BY <1>1, <1>2 DEF Bounded
<1>3. CASE i > Len(s)
  <2>1. i - Len(s) \in DOMAIN tokens /\ (s \o tokens)[i] = tokens[i - Len(s)]
    BY <1>1, <1>3
  <2> QED
    BY <2>1 DEF Bounded
<1> QED
  BY <1>1, <1>2, <1>3

(***************************************************************************)
(* Numbering: ids start at 1, are different, and a file holds only ids     *)
(* that were given out, so that a new block's id occurs in no file yet.    *)
(***************************************************************************)
TextsBounded == \A t \in Threads : Bounded(file[t].text, currentId)

Ids == currentId # 0 /\ IdsUnique /\ TextsBounded

(***************************************************************************)
(* Trace gives the new blocks different ids from currentId on, and leaves  *)
(* the others theirs (bbtrace.cpp:236, 247-271).                           *)
(***************************************************************************)
LEMMA TraceNumbers ==
  ASSUME Streams, IdsUnique, NEW t \in Threads, NEW bbls \in SUBSET Blocks,
         Trace(t, bbls)
  PROVE  /\ Known' = Known \cup (bbls \ Known) \/ currentId = 0
         /\ \A b \in Known : block_map'[b] = block_map[b]
         /\ \A b \in bbls \ Known : block_map'[b] >= currentId
         /\ currentId' \in Nat /\ currentId <= currentId'
         /\ IdsUnique'
<1> DEFINE new == bbls \ Known
<1>1. /\ currentId \in Nat /\ block_map \in [Blocks -> Nat]
      /\ new \subseteq Blocks /\ Known \subseteq Blocks
      /\ \A b \in Known : b \notin new
  BY DEF Streams, TypeOK, Known
<1>2. Cardinality(new) \in Nat
  BY NewBlocksFinite
<1>3. PICK position \in Bijection(new, 0..(Cardinality(new) - 1)) :
           block_map' = [b \in Blocks |-> IF b \in new
                                          THEN currentId + position[b]
                                          ELSE block_map[b]]
  BY DEF Trace
<1>4. currentId' = currentId + Cardinality(new)
  BY DEF Trace
<1>5. /\ \A b \in new : position[b] \in 0..(Cardinality(new) - 1)
      /\ \A b, c \in new : position[b] = position[c] => b = c
  BY <1>3 DEF Bijection, Injection, Surjection, IsInjective
<1> HIDE DEF new
<1>6. /\ \A b \in new : block_map'[b] = currentId + position[b]
      /\ \A b \in Blocks \ new : block_map'[b] = block_map[b]
  BY <1>1, <1>3
<1>7. /\ \A b \in new : /\ block_map'[b] >= currentId
                         /\ block_map'[b] < currentId'
                         /\ block_map'[b] \in Nat
      /\ \A b, c \in new : block_map'[b] = block_map'[c] => b = c
  BY <1>1, <1>2, <1>4, <1>5, <1>6
<1>8. \A b \in Known : block_map'[b] = block_map[b] /\ block_map[b] < currentId
  BY <1>1, <1>6 DEF IdsUnique
<1>9. Known' \subseteq Known \cup new
  BY <1>1, <1>6 DEF Known
<1>10. currentId = 0 \/ Known' = Known \cup new
  BY <1>1, <1>7, <1>8, <1>9 DEF Known
<1>11. IdsUnique'
  <2>1. \A b \in Known' : block_map'[b] < currentId'
    BY <1>1, <1>2, <1>4, <1>7, <1>8, <1>9
  <2>2. ASSUME NEW b \in Known', NEW c \in Known', block_map'[b] = block_map'[c]
        PROVE  b = c
    <3>1. CASE b \in new /\ c \in new
      BY <1>7, <2>2, <3>1
    <3>2. CASE b \in Known /\ c \in Known
      BY <1>8, <2>2, <3>2 DEF IdsUnique
    <3>3. CASE b \in new /\ c \in Known
      BY <1>1, <1>7, <1>8, <2>2, <3>3
    <3>4. CASE b \in Known /\ c \in new
      BY <1>1, <1>7, <1>8, <2>2, <3>4
    <3> QED
      BY <1>9, <3>1, <3>2, <3>3, <3>4
  <2> QED
    BY <2>1, <2>2 DEF IdsUnique
<1> QED
  BY <1>1, <1>2, <1>4, <1>7, <1>8, <1>10, <1>11 DEF new

(***************************************************************************)
(* What a step does to a file's text: it is left alone, emptied, or        *)
(* extended by tokens below the next id.                                   *)
(***************************************************************************)
LEMMA TextSteps ==
  ASSUME NEW f \in File, NEW tokens \in Seq(Token), NEW bound \in Nat,
         Bounded(tokens, bound), Bounded(f.text, bound)
  PROVE  /\ Bounded(OpenIfClosed(f).text, bound)
         /\ Bounded(Written(f, tokens).text, bound)
         /\ Bounded(Written(OpenIfClosed(f), tokens).text, bound)
<1>1. OpenIfClosed(f) \in File /\ f.text \in Seq(Token)
      /\ OpenIfClosed(f).text \in Seq(Token)
  BY FileTypes DEF File
<1>2. Bounded(OpenIfClosed(f).text, bound)
  <2>1. CASE f.open
    BY <2>1, FileSteps
  <2>2. CASE ~f.open
    BY <2>2, FileSteps DEF Bounded
  <2> QED
    BY <2>1, <2>2
<1>3. /\ Written(f, tokens).text = f.text \o tokens
      /\ Written(OpenIfClosed(f), tokens).text = OpenIfClosed(f).text \o tokens
  BY <1>1, FileSteps
<1>4. Bounded(f.text \o tokens, bound)
  BY <1>1, BoundedConcat
<1>5. Bounded(OpenIfClosed(f).text \o tokens, bound)
  BY <1>1, <1>2, BoundedConcat
<1> QED
  BY <1>2, <1>3, <1>4, <1>5

(***************************************************************************)
(* No id was given out yet, and nothing was written.                       *)
(***************************************************************************)
LEMMA InitIds == Init => Ids
<1> SUFFICES ASSUME Init PROVE Ids
  OBVIOUS
<1>1. Known = {}
  BY DEF Init, Known, None
<1>2. TextsBounded
  BY DEF Init, TextsBounded, Bounded, NoFile
<1> QED
  BY <1>1, <1>2 DEF Init, Ids, IdsUnique

(***************************************************************************)
(* Every step keeps ids unique and every id in a file below the next one.  *)
(***************************************************************************)
LEMMA NextIds == Streams /\ Ids /\ [Next]_vars => Ids'
<1> SUFFICES ASSUME Streams, Ids, [Next]_vars PROVE Ids'
  OBVIOUS
<1>1. /\ 0 \in Threads /\ currentId \in Nat /\ currentId # 0
      /\ pc \in [Threads -> Places]
      /\ file \in [Threads -> File]
      /\ IdsUnique
      /\ \A t \in Threads : file[t] \in File /\ Bounded(file[t].text, currentId)
  BY ThreadZero DEF Streams, TypeOK, Ids, TextsBounded
<1>2. /\ Bounded(<<NL>>, currentId) /\ Bounded(<<Marker>>, currentId)
      /\ Bounded(<<Marker, NL>>, currentId)
      /\ <<NL>> \in Seq(Token) /\ <<Marker>> \in Seq(Token)
      /\ <<Marker, NL>> \in Seq(Token)
  BY <1>1, TokenTypes DEF Bounded, NL, Marker
<1>3. ASSUME UNCHANGED <<block_map, currentId>>, TextsBounded'
      PROVE  Ids'
  BY <1>1, <1>3 DEF Ids, IdsUnique, Known
<1>4. CASE FirstImage
  <2>1. file' = [file EXCEPT ![0] = Written(OpenIfClosed(file[0]), <<Marker, NL>>)]
    BY <1>4 DEF FirstImage
  <2>2. Bounded(Written(OpenIfClosed(file[0]), <<Marker, NL>>).text, currentId)
    BY <1>1, <1>2, TextSteps
  <2> QED
    BY <1>1, <1>3, <1>4, <2>1, <2>2 DEF FirstImage, TextsBounded
<1>5. CASE ThreadStartAborts
  BY <1>1, <1>3, <1>5 DEF ThreadStartAborts, TextsBounded, tool
<1>6. CASE ImageAborts
  <2>1. Bounded(OpenIfClosed(file[0]).text, currentId)
    BY <1>1, <1>2, TextSteps
  <2> QED
    BY <1>1, <1>3, <1>6, <2>1 DEF ImageAborts, TextsBounded, tool
<1>7. ASSUME NEW t \in Threads, ThreadStart(t) PROVE Ids'
  <2>1. Bounded(OpenIfClosed(file[t]).text, currentId)
    BY <1>1, <1>2, TextSteps
  <2> QED
    BY <1>1, <1>3, <1>7, <2>1 DEF ThreadStart, TextsBounded, tool
<1>8. ASSUME NEW t \in Threads, ThreadFini(t) PROVE Ids'
  <2> DEFINE total == [b \in Blocks |->
                  globalInstructionCount[t][b] + globalBlockCount[b][t]]
  <2>1. total \in Counts /\ CountsOf(t) \in Counts
    BY DEF Counts, CountsOf, TypeOK, Streams
  <2>2. file' = [file EXCEPT ![t] = Closed(file[t], CountsOf(t), total)]
        /\ UNCHANGED <<block_map, currentId>>
    BY <1>8 DEF ThreadFini, tool
  <2>3. Closed(file[t], CountsOf(t), total).text = file[t].text
    BY <1>1, <2>1, FileSteps
  <2> HIDE DEF total
  <2>4. TextsBounded'
    BY <1>1, <2>2, <2>3 DEF TextsBounded
  <2> QED
    BY <1>3, <2>2, <2>4
<1>9. ASSUME NEW t \in Threads, NEW bbls \in SUBSET Blocks, Trace(t, bbls)
      PROVE  Ids'
  <2>1. IdsUnique' /\ currentId' \in Nat /\ currentId <= currentId'
    BY <1>1, <1>9, TraceNumbers
  <2>2. file' = file
    BY <1>9 DEF Trace
  <2>3. ASSUME NEW u \in Threads
        PROVE  Bounded(file[u].text, currentId')
    <3>1. \A i \in DOMAIN file[u].text : file[u].text[i] \in Int
      <4>1. file[u].text \in Seq(Token)
        BY <1>1 DEF File
      <4>2. \A i \in DOMAIN file[u].text : file[u].text[i] \in Token
        BY <4>1
      <4>3. \A token \in Token : token \in Int
        BY DEF Token, NL, Marker
      <4> QED
        BY <4>2, <4>3
    <3>2. currentId \in Int /\ currentId' \in Int /\ currentId <= currentId'
      BY <1>1, <2>1
    <3>3. Bounded(file[u].text, currentId)
      BY <1>1
    <3> QED
      BY <3>1, <3>2, <3>3 DEF Bounded
  <2> QED
    BY <1>1, <2>1, <2>2, <2>3 DEF Ids, TextsBounded
<1>10. ASSUME NEW t \in Threads, Image(t) PROVE Ids'
  <2>1. Bounded(Written(OpenIfClosed(file[0]), <<Marker>>).text, currentId)
    BY <1>1, <1>2, TextSteps
  <2> QED
    BY <1>1, <1>3, <1>10, <2>1 DEF Image, TextsBounded
<1>11. ASSUME NEW t \in Threads, ImageLineEnd(t) PROVE Ids'
  <2>1. Bounded(Written(file[0], <<NL>>).text, currentId)
    BY <1>1, <1>2, TextSteps
  <2> QED
    BY <1>1, <1>3, <1>11, <2>1 DEF ImageLineEnd, Write, TextsBounded, tool
<1>12. ASSUME NEW t \in Threads, NEW b \in Blocks, Execute(t, b) PROVE Ids'
  BY <1>1, <1>3, <1>12 DEF Execute, TextsBounded, tool
<1>13. ASSUME NEW t \in Threads, WriteId(t) PROVE Ids'
  <2> DEFINE id == <<block_map[current[t]]>>
  <2>1. current[t] \in Known
    BY <1>13 DEF WriteId, Streams, CountedIsKnown
  <2>2. block_map[current[t]] \in Nat /\ block_map[current[t]] < currentId
    BY <1>1, <2>1 DEF IdsUnique, Known, Streams, TypeOK
  <2>3. id \in Seq(Token) /\ Bounded(id, currentId)
    BY <2>2, TokenTypes DEF Bounded
  <2>4. \/ file' = [file EXCEPT ![t] = Written(file[t], id)]
        \/ UNCHANGED file
    BY <1>13 DEF WriteId, Write
  <2> HIDE DEF id
  <2>5. Bounded(Written(file[t], id).text, currentId)
    BY <1>1, <2>3, TextSteps
  <2>6. UNCHANGED <<block_map, currentId>>
    BY <1>13 DEF WriteId, tool
  <2>7. TextsBounded'
    BY <1>1, <2>4, <2>5, <2>6 DEF TextsBounded
  <2> QED
    BY <1>3, <2>6, <2>7
<1>14. ASSUME NEW t \in Threads, WriteLineEnd(t) PROVE Ids'
  <2>1. Bounded(Written(file[t], <<NL>>).text, currentId)
    BY <1>1, <1>2, TextSteps
  <2> QED
    BY <1>1, <1>3, <1>14, <2>1 DEF WriteLineEnd, Write, TextsBounded, tool
<1>15. CASE UNCHANGED vars
  BY <1>1, <1>3, <1>15 DEF vars, tool, TextsBounded
<1> QED
  BY <1>4, <1>5, <1>6, <1>7, <1>8, <1>9, <1>10, <1>11, <1>12, <1>13, <1>14,
     <1>15 DEF Next

(***************************************************************************)
(* An id names one block in the files of all threads, from the first Trace *)
(* to the end of the run (bbtrace.cpp:236, 247-271).                       *)
(***************************************************************************)
THEOREM IdsNameBlocks == Spec => []IdsUnique
<1>1. Init => Streams /\ Ids
  BY InitStreams, InitIds
<1>2. Streams /\ Ids /\ [Next]_vars => (Streams /\ Ids)'
  BY NextStreams, NextIds
<1>3. Streams /\ Ids => IdsUnique
  BY DEF Ids
<1> QED
  BY <1>1, <1>2, <1>3, PTL DEF Spec

(***************************************************************************)
(* A step of one thread leaves the files of all others alone, but for file *)
(* 0 (bbtrace.cpp:227-231, 298-308, 339-354).                              *)
(***************************************************************************)
THEOREM FilesArePrivate == Spec => PrivateFiles
<1>1. TypeOK /\ [Next]_vars => [OthersFilesKept]_vars
  <2> SUFFICES ASSUME TypeOK, [Next]_vars,
                      NEW u \in Threads \ {0}, pc'[u] = pc[u]
               PROVE  file'[u] = file[u]
    BY DEF OthersFilesKept
  <2>1. pc \in [Threads -> Places] /\ file \in [Threads -> File]
        /\ 0 \in Threads /\ u \in Threads /\ u # 0
    BY ThreadZero DEF TypeOK
  <2> USE <2>1
  <2>2. CASE FirstImage \/ ThreadStartAborts \/ ImageAborts \/ UNCHANGED vars
    BY <2>2 DEF FirstImage, ThreadStartAborts, ImageAborts, vars
  <2>3. ASSUME NEW t \in Threads, ThreadStart(t) PROVE file'[u] = file[u]
    BY <2>3 DEF ThreadStart, Places
  <2>4. ASSUME NEW t \in Threads, ThreadFini(t) PROVE file'[u] = file[u]
    BY <2>4 DEF ThreadFini, Places
  <2>5. ASSUME NEW t \in Threads, NEW bbls \in SUBSET Blocks, Trace(t, bbls)
        PROVE  file'[u] = file[u]
    BY <2>5 DEF Trace
  <2>6. ASSUME NEW t \in Threads, Image(t) \/ ImageLineEnd(t)
        PROVE  file'[u] = file[u]
    BY <2>6 DEF Image, ImageLineEnd, Write
  <2>7. ASSUME NEW t \in Threads, NEW b \in Blocks, Execute(t, b)
        PROVE  file'[u] = file[u]
    BY <2>7 DEF Execute
  <2>8. ASSUME NEW t \in Threads, WriteId(t) \/ WriteLineEnd(t)
        PROVE  file'[u] = file[u]
    BY <2>8 DEF WriteId, WriteLineEnd, Write, Places
  <2> QED
    BY <2>2, <2>3, <2>4, <2>5, <2>6, <2>7, <2>8 DEF Next
<1> QED
  BY <1>1, TypeCorrect, PTL DEF Spec, PrivateFiles

(***************************************************************************)
(* How often an id occurs in a text, when something is appended.           *)
(***************************************************************************)
LEMMA OccurrencesTypes ==
  ASSUME NEW s \in Seq(Token), NEW x
  PROVE  /\ IsFiniteSet({i \in DOMAIN s : s[i] = x})
         /\ Occurrences(x, s) \in Nat
<1>1. IsFiniteSet(1..Len(s))
  BY FS_Interval
<1>2. {i \in DOMAIN s : s[i] = x} \subseteq 1..Len(s)
  OBVIOUS
<1>3. IsFiniteSet({i \in DOMAIN s : s[i] = x})
  BY <1>1, <1>2, FS_Subset
<1> QED
  BY <1>3, FS_CardinalityType DEF Occurrences

(***************************************************************************)
(* What is not in a text occurs in it zero times.                          *)
(***************************************************************************)
LEMMA OccurrencesNone ==
  ASSUME NEW s, NEW x, \A i \in DOMAIN s : s[i] # x
  PROVE  Occurrences(x, s) = 0
<1>1. {i \in DOMAIN s : s[i] = x} = {}
  OBVIOUS
<1> QED
  BY <1>1, FS_EmptySet DEF Occurrences

(***************************************************************************)
(* Appending a token adds one to its occurrences, and to no others.        *)
(***************************************************************************)
LEMMA OccurrencesAppend ==
  ASSUME NEW s \in Seq(Token), NEW x, NEW token \in Token
  PROVE  Occurrences(x, s \o <<token>>)
           = Occurrences(x, s) + (IF token = x THEN 1 ELSE 0)
<1> DEFINE r == s \o <<token>>
           At(q) == {i \in DOMAIN q : q[i] = x}
<1>1. DOMAIN s = 1..Len(s) /\ DOMAIN r = 1..(Len(s) + 1) /\ Len(s) \in Nat
  OBVIOUS
<1>2. r[Len(s) + 1] = token /\ \A i \in 1..Len(s) : r[i] = s[i]
  OBVIOUS
<1>3. IsFiniteSet(At(s)) /\ Cardinality(At(s)) \in Nat
  BY OccurrencesTypes DEF Occurrences
<1> HIDE DEF r
<1>4. CASE token = x
  <2>1. At(r) = At(s) \cup {Len(s) + 1}
    BY <1>1, <1>2, <1>4
  <2>2. Len(s) + 1 \notin At(s)
    BY <1>1
  <2>3. Cardinality(At(r)) = Cardinality(At(s)) + 1
    BY <1>3, <2>1, <2>2, FS_AddElement
  <2> QED
    BY <1>4, <2>3 DEF Occurrences, r
<1>5. CASE token # x
  <2>1. At(r) = At(s)
    BY <1>1, <1>2, <1>5
  <2>2. Occurrences(x, r) = Occurrences(x, s)
    BY <2>1 DEF Occurrences
  <2>3. Occurrences(x, s) + 0 = Occurrences(x, s)
    BY <1>3 DEF Occurrences
  <2> QED
    BY <1>5, <2>2, <2>3 DEF r
<1> QED
  BY <1>4, <1>5

(***************************************************************************)
(* Marker lines and line ends are not occurrences of an id.                *)
(***************************************************************************)
LEMMA OccurrencesMark ==
  ASSUME NEW s \in Seq(Token), NEW x \in Nat, NEW token \in Token, token < 0
  PROVE  Occurrences(x, s \o <<token>>) = Occurrences(x, s)
<1>1. token # x
  BY DEF Token, NL, Marker
<1>2. Occurrences(x, s \o <<token>>) = Occurrences(x, s) + 0
  BY <1>1, OccurrencesAppend
<1>3. Occurrences(x, s) \in Nat
  BY OccurrencesTypes
<1> QED
  BY <1>2, <1>3

(***************************************************************************)
(* The strengthening of SummaryAgreesWithTrace.  Before the first thread   *)
(* with an id starts there is nothing in its file or its counters; while   *)
(* it lives, a block's counter is the number of its lines, and one more    *)
(* between the two statements of CountBlock; a block without an id was     *)
(* never counted.                                                          *)
(***************************************************************************)
NoIds(text) == \A i \in DOMAIN text : text[i] < 0

NotYet(t) ==
  lives[t] = 0 =>
    /\ pc[t] = "none" /\ ~file[t].ended /\ NoIds(file[t].text)
    /\ globalInstructionCount[t] = None
    /\ \A b \in Blocks : globalBlockCount[b][t] = 0

Alive(t) ==
  Reliable(t) /\ lives[t] = 1 /\ pc[t] # "none" =>
    /\ globalInstructionCount[t] = None
    /\ \A b \in Known :
         globalBlockCount[b][t] = Occurrences(block_map[b], file[t].text)
                                    + Executing(t, b)

Unmet(t) ==
  \A b \in Blocks \ Known :
    globalBlockCount[b][t] = 0 /\ file[t].summary[b] = 0

Over(t) ==
  Reliable(t) /\ lives[t] = 1 /\ file[t].ended =>
    /\ \A b \in Known :
         file[t].summary[b] = Occurrences(block_map[b], file[t].text)
    /\ file[t].total = file[t].summary

Counted(t) == NotYet(t) /\ Alive(t) /\ Unmet(t) /\ Over(t)

AllCounted == \A t \in Threads : Counted(t)

(***************************************************************************)
(* A file that is not reliable never becomes so.                           *)
(***************************************************************************)
LEMMA ReliableKept ==
  ASSUME Streams, [Next]_vars, NEW t \in Threads
  PROVE  Reliable(t)' => Reliable(t)
<1>1. lives \in [Threads -> Nat]
  BY DEF Streams, TypeOK
<1>2. \A u \in Threads : lives'[u] = 0 => lives[u] = 0
  <2>1. CASE \E u \in Threads : ThreadStart(u)
    BY <1>1, <2>1 DEF ThreadStart
  <2>2. CASE UNCHANGED lives
    BY <2>2
  <2>3. (\E u \in Threads : ThreadStart(u)) \/ UNCHANGED lives
    BY DEF Next, FirstImage, ThreadStartAborts, ImageAborts, ThreadFini, Trace,
           Image, ImageLineEnd, Execute, WriteId, WriteLineEnd, vars, history
  <2> QED
    BY <2>1, <2>2, <2>3
<1> QED
  BY <1>2 DEF Reliable

(***************************************************************************)
(* A thread whose counters do not change stays Counted when its file is    *)
(* left alone or gets a line end or a marker.                              *)
(***************************************************************************)
SameCounters(t) ==
  /\ block_map' = block_map
  /\ lives'[t] = lives[t]
  /\ globalInstructionCount'[t] = globalInstructionCount[t]
  /\ \A b \in Blocks : globalBlockCount'[b][t] = globalBlockCount[b][t]
  /\ pc'[t] = "none" <=> pc[t] = "none"
  /\ (pc'[t] = "counted" <=> pc[t] = "counted") /\ current'[t] = current[t]

(***************************************************************************)
(* Leaving the file alone, or writing a line end or marker to it.          *)
(***************************************************************************)
LEMMA CountedKept ==
  ASSUME Streams, NEW t \in Threads, Counted(t), SameCounters(t),
         \/ file'[t] = file[t]
         \/ \E token \in Token : token < 0 /\ file'[t] = Written(file[t], <<token>>),
         Reliable(t)' => Reliable(t)
  PROVE  Counted(t)'
<1>1. file[t] \in File /\ file[t].text \in Seq(Token)
      /\ block_map \in [Blocks -> Nat] /\ Known' = Known /\ Known \subseteq Blocks
  BY DEF Streams, TypeOK, File, Known, SameCounters
<1> DEFINE Kept ==
             /\ file'[t].ended = file[t].ended
             /\ file'[t].summary = file[t].summary
             /\ file'[t].total = file[t].total
             /\ NoIds(file[t].text) => NoIds(file'[t].text)
             /\ \A x \in Nat : Occurrences(x, file'[t].text)
                                = Occurrences(x, file[t].text)
<1>2. Kept
  <2>1. CASE file'[t] = file[t]
    BY <2>1
  <2>2. ASSUME NEW token \in Token, token < 0,
               file'[t] = Written(file[t], <<token>>)
        PROVE  Kept
    <3>1. /\ file'[t].text = file[t].text \o <<token>>
          /\ file'[t].ended = file[t].ended
          /\ file'[t].summary = file[t].summary
          /\ file'[t].total = file[t].total
      <4> HIDE DEF Kept
      <4>1. file[t] \in File
        BY <1>1
      <4> QED
        BY <2>2, <4>1, WrittenToken
    <3>2. NoIds(file[t].text) => NoIds(file[t].text \o <<token>>)
      BY <1>1, <2>2 DEF NoIds
    <3>3. \A x \in Nat : Occurrences(x, file'[t].text) = Occurrences(x, file[t].text)
      BY <1>1, <2>2, <3>1, OccurrencesMark
    <3> QED
      BY <3>1, <3>2, <3>3
  <2> QED
    BY <2>1, <2>2
<1>3. NotYet(t)'
  BY <1>2 DEF NotYet, Counted, SameCounters
<1>4. Alive(t)'
  BY <1>1, <1>2 DEF Alive, Counted, SameCounters, Executing
<1>5. Unmet(t)'
  BY <1>1, <1>2 DEF Unmet, Counted, SameCounters
<1>6. Over(t)'
  BY <1>1, <1>2 DEF Over, Counted, SameCounters
<1> QED
  BY <1>3, <1>4, <1>5, <1>6 DEF Counted

(***************************************************************************)
(* A thread that is not running, or never ran, stays Counted when its file *)
(* is opened anew for the markers of images.                               *)
(***************************************************************************)
LEMMA CountedMarked ==
  ASSUME Streams, NEW t \in Threads, Counted(t), SameCounters(t),
         pc[t] = "none", ~file'[t].ended, NoIds(file[t].text) => NoIds(file'[t].text),
         \/ file'[t].summary = file[t].summary
         \/ file'[t].summary = None,
         Reliable(t)' => Reliable(t)
  PROVE  Counted(t)'
<1>1. Known' = Known /\ Known \subseteq Blocks
  BY DEF Known, SameCounters
<1>2. NotYet(t)' /\ Alive(t)' /\ Over(t)'
  BY DEF Counted, NotYet, Alive, Over, SameCounters
<1>3. Unmet(t)'
  BY <1>1 DEF Unmet, Counted, SameCounters, None
<1> QED
  BY <1>2, <1>3 DEF Counted

(***************************************************************************)
(* Opening a file that was closed empties it.                              *)
(***************************************************************************)
LEMMA OpenFields ==
  \A f \in File : ~f.open => /\ ~OpenIfClosed(f).ended
                            /\ OpenIfClosed(f).summary = None
                            /\ OpenIfClosed(f).text = <<>>
  BY DEF OpenIfClosed, NewFile

(***************************************************************************)
(* Before the first step nothing is counted and nothing is written.        *)
(***************************************************************************)
LEMMA InitCounted == Init => AllCounted
<1> SUFFICES ASSUME Init, NEW t \in Threads PROVE Counted(t)
  BY DEF AllCounted
<1>1. /\ lives[t] = 0 /\ pc[t] = "none" /\ file[t] = NoFile
      /\ globalInstructionCount[t] = None
      /\ \A b \in Blocks : globalBlockCount[b][t] = 0
  BY DEF Init
<1>2. /\ ~NoFile.ended /\ NoFile.text = <<>>
      /\ \A b \in Blocks : NoFile.summary[b] = 0
  BY DEF NoFile, None
<1>3. NoIds(<<>>)
  BY DEF NoIds
<1> QED
  BY <1>1, <1>2, <1>3 DEF Counted, NotYet, Alive, Unmet, Over

(***************************************************************************)
(* The steps of the threads' own code.                                     *)
(***************************************************************************)
LEMMA StartCounted ==
  ASSUME Streams, NEW t \in Threads, Counted(t), ThreadStart(t),
         Reliable(t)' => Reliable(t)
  PROVE  Counted(t)'
<1>1. /\ file[t] \in File /\ lives[t] \in Nat /\ Known \subseteq Blocks
      /\ block_map \in [Blocks -> Nat]
      /\ lives'[t] = lives[t] + 1 /\ pc'[t] = "run" /\ pc[t] = "none"
      /\ file'[t] = OpenIfClosed(file[t])
      /\ UNCHANGED <<block_map, globalBlockCount, globalInstructionCount>>
      /\ Known' = Known
  BY DEF Streams, TypeOK, ThreadStart, Known, tool, counters
<1>2. /\ ~file'[t].ended
      /\ \/ file'[t] = file[t]
         \/ file'[t].text = <<>> /\ file'[t].summary = None
  BY <1>1, FileSteps, OpenFields DEF Streams, EndedIsClosed
<1>3. NotYet(t)' /\ Over(t)'
  BY <1>1, <1>2 DEF NotYet, Over
<1>4. Unmet(t)'
  BY <1>1, <1>2 DEF Unmet, Counted, None
<1>5. Alive(t)'
  <2> SUFFICES ASSUME Reliable(t), lives'[t] = 1
               PROVE  /\ globalInstructionCount'[t] = None
                      /\ \A b \in Known :
                           globalBlockCount'[b][t]
                             = Occurrences(block_map[b], file'[t].text)
                                 + Executing(t, b)'
    BY <1>1 DEF Alive
  <2>1. lives[t] = 0
    BY <1>1
  <2> SUFFICES ASSUME NEW b \in Known
               PROVE  globalBlockCount'[b][t]
                        = Occurrences(block_map[b], file'[t].text)
                            + Executing(t, b)'
    BY <1>1, <2>1 DEF Counted, NotYet
  <2>2. globalBlockCount[b][t] = 0 /\ NoIds(file'[t].text)
        /\ globalInstructionCount[t] = None
    BY <1>1, <1>2, <2>1 DEF Counted, NotYet, NoIds
  <2>3. Executing(t, b)' = 0
    BY <1>1 DEF Executing
  <2>4. block_map[b] \in Nat
    BY <1>1
  <2>5. file'[t].text \in Seq(Token)
    BY <1>1, FileTypes DEF File
  <2>6. \A i \in DOMAIN file'[t].text : file'[t].text[i] # block_map[b]
    BY <2>2, <2>4, <2>5 DEF NoIds, Token, NL, Marker
  <2>7. Occurrences(block_map[b], file'[t].text) = 0
    BY <2>6, OccurrencesNone
  <2> QED
    BY <1>1, <2>2, <2>3, <2>7
<1> QED
  BY <1>3, <1>4, <1>5 DEF Counted

(***************************************************************************)
(* The summary a thread writes when it ends is right.                      *)
(***************************************************************************)
LEMMA FiniCounted ==
  ASSUME Streams, NEW t \in Threads, Counted(t), ThreadFini(t),
         Reliable(t)' => Reliable(t)
  PROVE  Counted(t)'
<1> DEFINE total == [b \in Blocks |->
                  globalInstructionCount[t][b] + globalBlockCount[b][t]]
<1>1. total \in Counts /\ CountsOf(t) \in Counts
      /\ globalBlockCount \in [Blocks -> [Threads -> Nat]]
      /\ file[t] \in File /\ Known \subseteq Blocks
      /\ \A b \in Blocks : CountsOf(t)[b] = globalBlockCount[b][t]
  BY DEF Counts, CountsOf, TypeOK, Streams, Known
<1>2. /\ file'[t] = Closed(file[t], CountsOf(t), total)
      /\ pc[t] = "run" /\ pc'[t] = "none"
      /\ UNCHANGED <<current, block_map, globalBlockCount, lives>>
      /\ Known' = Known
  BY DEF ThreadFini, tool, history, Known, Streams, TypeOK
<1>3. globalInstructionCount[t] = None => total = CountsOf(t)
  BY <1>1 DEF CountsOf, None
<1> HIDE DEF total
<1>4. /\ file'[t].text = file[t].text /\ file'[t].summary = CountsOf(t)
      /\ file'[t].total = total
  BY <1>1, <1>2, FileSteps
<1>5. lives[t] # 0
  BY <1>2 DEF Counted, NotYet
<1>6. NotYet(t)' /\ Alive(t)'
  BY <1>2, <1>5 DEF NotYet, Alive
<1>7. Unmet(t)'
  BY <1>1, <1>2, <1>4 DEF Unmet, Counted
<1>8. Over(t)'
  <2> SUFFICES ASSUME Reliable(t), lives[t] = 1
               PROVE  /\ \A b \in Known :
                           CountsOf(t)[b] = Occurrences(block_map[b], file[t].text)
                      /\ total = CountsOf(t)
    BY <1>2, <1>4 DEF Over
  <2>1. globalInstructionCount[t] = None
    BY <1>2 DEF Counted, Alive
  <2>2. ASSUME NEW b \in Known
        PROVE  CountsOf(t)[b] = Occurrences(block_map[b], file[t].text)
    <3>1. Executing(t, b) = 0
      BY <1>2 DEF Executing
    <3>2. CountsOf(t)[b] = Occurrences(block_map[b], file[t].text) + 0
      BY <1>1, <1>2, <3>1 DEF Counted, Alive
    <3>3. Occurrences(block_map[b], file[t].text) \in Nat
      BY <1>1, OccurrencesTypes DEF File
    <3> QED
      BY <3>2, <3>3
  <2> QED
    BY <1>3, <2>1, <2>2
<1> QED
  BY <1>6, <1>7, <1>8 DEF Counted

(***************************************************************************)
(* Blocks that are instrumented for the first time were counted and        *)
(* written zero times, by all threads.                                     *)
(***************************************************************************)
LEMMA TraceCounted ==
  ASSUME Streams, Ids, NEW u \in Threads, NEW bbls \in SUBSET Blocks,
         Trace(u, bbls), NEW t \in Threads, Counted(t),
         Reliable(t)' => Reliable(t)
  PROVE  Counted(t)'
<1> DEFINE new == bbls \ Known
<1>1. /\ Known' = Known \cup new
      /\ \A b \in Known : block_map'[b] = block_map[b]
      /\ \A b \in new : block_map'[b] >= currentId /\ block_map'[b] \in Nat
  BY TraceNumbers, NextType DEF Ids, Streams, TypeOK, Next
<1>2. UNCHANGED <<pc, current, file, globalInstructionCount, lives>>
  BY DEF Trace, history
<1>3. /\ globalBlockCount \in [Blocks -> [Threads -> Nat]]
      /\ file[t] \in File /\ Known \subseteq Blocks /\ new \subseteq Blocks
      /\ \A b \in new : b \notin Known
      /\ currentId \in Nat
  BY DEF Streams, TypeOK, Known
<1>4. \A b \in Blocks : globalBlockCount'[b] = IF b \in new
                                               THEN [v \in Threads |-> 0]
                                               ELSE globalBlockCount[b]
  BY DEF Trace
<1> HIDE DEF new
<1>5. \A b \in Blocks : globalBlockCount'[b][t] = globalBlockCount[b][t]
  BY <1>3, <1>4 DEF Counted, Unmet
<1>6. ASSUME NEW b \in new
      PROVE  Occurrences(block_map'[b], file[t].text) = 0
  <2>1. \A i \in DOMAIN file[t].text : file[t].text[i] # block_map'[b]
    <3>1. /\ file[t].text \in Seq(Token)
          /\ \A i \in DOMAIN file[t].text : file[t].text[i] < currentId
      BY <1>3 DEF Ids, TextsBounded, Bounded, File
    <3>2. \A i \in DOMAIN file[t].text : file[t].text[i] \in Int
      BY <3>1 DEF Token, NL, Marker
    <3> QED
      BY <1>1, <1>3, <3>1, <3>2
  <2> QED
    BY <2>1, OccurrencesNone
<1>7. NotYet(t)'
  BY <1>2, <1>5 DEF Counted, NotYet
<1>8. Alive(t)'
  <2> SUFFICES ASSUME Reliable(t), lives[t] = 1, pc[t] # "none"
               PROVE  /\ globalInstructionCount[t] = None
                      /\ \A b \in Known' :
                           globalBlockCount'[b][t]
                             = Occurrences(block_map'[b], file[t].text)
                                 + Executing(t, b)'
    BY <1>2 DEF Alive
  <2>1. \A b \in Known : /\ Executing(t, b)' = Executing(t, b)
                         /\ block_map'[b] = block_map[b]
    BY <1>1, <1>2 DEF Executing
  <2>2. \A b \in Known : globalBlockCount'[b][t]
                            = Occurrences(block_map'[b], file[t].text)
                                + Executing(t, b)'
    BY <1>3, <1>5, <2>1 DEF Counted, Alive
  <2>3. \A b \in new : Executing(t, b)' = 0
    BY <1>2, <1>3 DEF Executing, Streams, CountedIsKnown
  <2>4. \A b \in new : globalBlockCount'[b][t] = 0
    BY <1>3, <1>5 DEF Counted, Unmet
  <2> QED
    BY <1>1, <1>6, <2>2, <2>3, <2>4 DEF Counted, Alive
<1>9. Unmet(t)'
  BY <1>1, <1>2, <1>5 DEF Counted, Unmet
<1>10. Over(t)'
  <2> SUFFICES ASSUME Reliable(t), lives[t] = 1, file[t].ended
               PROVE  /\ \A b \in Known' :
                           file[t].summary[b]
                             = Occurrences(block_map'[b], file[t].text)
                      /\ file[t].total = file[t].summary
    BY <1>2 DEF Over
  <2>1. \A b \in Known : file[t].summary[b]
                            = Occurrences(block_map'[b], file[t].text)
    BY <1>1 DEF Counted, Over
  <2>2. \A b \in new : file[t].summary[b] = 0
    BY <1>3 DEF Counted, Unmet
  <2> QED
    BY <1>1, <1>6, <2>1, <2>2 DEF Counted, Over
<1> QED
  BY <1>7, <1>8, <1>9, <1>10 DEF Counted

(***************************************************************************)
(* Counting a block leaves the thread one id ahead of its file.            *)
(***************************************************************************)
LEMMA ExecuteCounted ==
  ASSUME Streams, NEW t \in Threads, NEW b \in Blocks, Counted(t), Execute(t, b),
         Reliable(t)' => Reliable(t)
  PROVE  Counted(t)'
<1>1. /\ pc[t] = "run" /\ pc'[t] = "counted" /\ current'[t] = b
      /\ UNCHANGED <<block_map, globalInstructionCount, file, lives>>
      /\ Known' = Known /\ b \in Known /\ Known \subseteq Blocks
      /\ file[t] \in File /\ block_map \in [Blocks -> Nat]
  BY DEF Execute, tool, Streams, TypeOK, Known
<1>2. /\ globalBlockCount \in [Blocks -> [Threads -> Nat]]
      /\ globalBlockCount'[b][t] = globalBlockCount[b][t] + 1
      /\ \A c \in Blocks \ {b} : globalBlockCount'[c][t] = globalBlockCount[c][t]
  BY DEF Execute, Streams, TypeOK
<1>3. NotYet(t)' /\ Over(t)'
  BY <1>1 DEF Counted, NotYet, Over
<1>4. Unmet(t)'
  BY <1>1, <1>2 DEF Counted, Unmet
<1>5. Alive(t)'
  <2>1. ASSUME Reliable(t), lives[t] = 1, NEW c \in Known
        PROVE  globalBlockCount'[c][t]
                 = Occurrences(block_map[c], file[t].text) + Executing(t, c)'
    <3>1. Executing(t, c) = 0 /\ Executing(t, c)' = IF c = b THEN 1 ELSE 0
      BY <1>1 DEF Executing
    <3>2. Occurrences(block_map[c], file[t].text) \in Nat
      BY <1>1, OccurrencesTypes DEF File
    <3>3. globalBlockCount[c][t] = Occurrences(block_map[c], file[t].text) + 0
      BY <1>1, <2>1, <3>1 DEF Counted, Alive
    <3> QED
      BY <1>1, <1>2, <3>1, <3>2, <3>3
  <2> QED
    BY <1>1, <2>1 DEF Counted, Alive
<1> QED
  BY <1>3, <1>4, <1>5 DEF Counted

(***************************************************************************)
(* Writing the id makes up for it, unless the file is not reliable and the *)
(* write is lost.                                                          *)
(***************************************************************************)
LEMMA WriteIdCounted ==
  ASSUME Streams, Ids, AllCounted, NEW t \in Threads, Counted(t), WriteId(t),
         Reliable(t)' => Reliable(t)
  PROVE  Counted(t)'
<1> DEFINE id == block_map[current[t]]
<1>1. /\ pc[t] = "counted" /\ pc'[t] = "written"
      /\ UNCHANGED <<current, block_map, globalBlockCount,
                     globalInstructionCount, lives>>
      /\ Known' = Known /\ Known \subseteq Blocks
      /\ file[t] \in File /\ file[t].text \in Seq(Token)
      /\ block_map \in [Blocks -> Nat]
      /\ globalBlockCount \in [Blocks -> [Threads -> Nat]]
  BY DEF WriteId, tool, counters, history, Streams, TypeOK, Known, File
<1>2. current[t] \in Known /\ id \in Nat /\ id \in Token
  BY <1>1, TokenTypes DEF Streams, CountedIsKnown
<1>3. \/ file'[t] = Written(file[t], <<id>>)
      \/ Races(t) /\ file'[t] = file[t]
  BY <1>1 DEF WriteId, Write, Streams, TypeOK
<1>4. \A b \in Known : block_map[b] = id <=> b = current[t]
  BY <1>2 DEF Ids, IdsUnique
<1>5. Races(t) => ~Reliable(t)
  BY DEF Races, Reliable, AllCounted, Counted, NotYet
<1> HIDE DEF id
<1>6. /\ file'[t].ended = file[t].ended
      /\ file'[t].summary = file[t].summary
      /\ Reliable(t) => file'[t].text = file[t].text \o <<id>>
  BY <1>1, <1>2, <1>3, <1>5, WrittenToken
<1>7. ~file[t].ended /\ lives[t] # 0
  BY <1>1 DEF Streams, LiveFilesOpen, EndedIsClosed, Counted, NotYet
<1>8. NotYet(t)' /\ Over(t)'
  BY <1>1, <1>6, <1>7 DEF NotYet, Over
<1>9. Unmet(t)'
  BY <1>1, <1>6 DEF Counted, Unmet
<1>10. Alive(t)'
  <2>1. ASSUME Reliable(t), lives[t] = 1, NEW b \in Known
        PROVE  globalBlockCount[b][t]
                 = Occurrences(block_map[b], file'[t].text) + Executing(t, b)'
    <3>1. Executing(t, b)' = 0
          /\ Executing(t, b) = IF b = current[t] THEN 1 ELSE 0
      BY <1>1 DEF Executing
    <3>2. Occurrences(block_map[b], file'[t].text)
            = Occurrences(block_map[b], file[t].text) + (IF id = block_map[b] THEN 1 ELSE 0)
      <4>1. file'[t].text = file[t].text \o <<id>>
        BY <1>6, <2>1
      <4>2. block_map[b] \in Nat
        BY <1>1
      <4> QED
        BY <1>1, <1>2, <4>1, <4>2, OccurrencesAppend
    <3>3. Occurrences(block_map[b], file[t].text) \in Nat
      BY <1>1, OccurrencesTypes
    <3>4. globalBlockCount[b][t]
            = Occurrences(block_map[b], file[t].text) + Executing(t, b)
      BY <1>1, <2>1 DEF Counted, Alive
    <3> QED
      BY <1>4, <3>1, <3>2, <3>3, <3>4
  <2> QED
    BY <1>1, <2>1 DEF Counted, Alive
<1> QED
  BY <1>8, <1>9, <1>10 DEF Counted

(***************************************************************************)
(* The steps that write to file 0: a line end, or the marker of an image,  *)
(* for which the file may have to be opened first.                         *)
(***************************************************************************)
LEMMA MarkCounted ==
  ASSUME Streams, NEW t \in Threads, Counted(t), SameCounters(t),
         \/ file'[t] = OpenIfClosed(file[t])
         \/ file'[t] = Written(OpenIfClosed(file[t]), <<Marker>>),
         Reliable(t)' => Reliable(t)
  PROVE  Counted(t)'
<1>1. file[t] \in File /\ Marker \in Token /\ Marker < 0
  BY TokenTypes DEF Streams, TypeOK
<1>2. CASE file[t].open
  <2>1. OpenIfClosed(file[t]) = file[t]
    BY <1>1, <1>2, FileSteps
  <2> QED
    BY <1>1, <2>1, CountedKept
<1>3. CASE ~file[t].open
  <2> DEFINE g == OpenIfClosed(file[t])
  <2>1. g \in File /\ ~g.ended /\ g.summary = None /\ g.text = <<>>
    BY <1>1, <1>3, OpenFields, FileTypes
  <2>2. pc[t] = "none"
    BY <1>3 DEF Streams, LiveFilesOpen
  <2> HIDE DEF g
  <2>3. /\ Written(g, <<Marker>>).text = g.text \o <<Marker>>
        /\ ~Written(g, <<Marker>>).ended
        /\ Written(g, <<Marker>>).summary = None
    BY <1>1, <2>1, WrittenToken
  <2>4. NoIds(<<>>) /\ NoIds(<<>> \o <<Marker>>)
    BY <1>1 DEF NoIds
  <2>5. ~file'[t].ended /\ file'[t].summary = None /\ NoIds(file'[t].text)
    BY <2>1, <2>3, <2>4 DEF g
  <2> QED
    BY <2>2, <2>5, CountedMarked
<1> QED
  BY <1>2, <1>3

(***************************************************************************)
(* The images loaded before any thread runs.                               *)
(***************************************************************************)
LEMMA FirstImageCounted ==
  ASSUME Streams, NEW t \in Threads, Counted(t), FirstImage,
         Reliable(t)' => Reliable(t)
  PROVE  Counted(t)'
<1>1. /\ SameCounters(t) /\ lives[t] = 0 /\ file[t] \in File
      /\ file \in [Threads -> File]
  BY DEF FirstImage, SameCounters, counters, history, ProgramStarts, Streams, TypeOK
<1>2. pc[t] = "none" /\ ~file[t].ended /\ NoIds(file[t].text)
  BY <1>1 DEF Counted, NotYet
<1>3. CASE t # 0
  <2>1. file'[t] = file[t]
    BY <1>1, <1>3, ThreadZero DEF FirstImage
  <2> QED
    BY <1>1, <2>1, CountedKept
<1>4. CASE t = 0
  <2> DEFINE g == OpenIfClosed(file[t])
             marks == <<Marker, NL>>
  <2>1. file'[t] = Written(g, marks)
    BY <1>1, <1>4 DEF FirstImage
  <2>2. /\ g \in File /\ ~g.ended /\ NoIds(g.text)
        /\ g.summary = file[t].summary \/ g.summary = None
    <3>1. CASE file[t].open
      BY <1>1, <1>2, <3>1, FileSteps
    <3>2. CASE ~file[t].open
      BY <1>1, <3>2, FileTypes, OpenFields DEF NoIds
    <3> QED
      BY <3>1, <3>2
  <2>3. marks \in Seq(Token) /\ NoIds(marks) /\ g.text \in Seq(Token)
    BY <2>2, TokenTypes DEF NoIds, File
  <2> HIDE DEF g, marks
  <2>4. /\ Written(g, marks).text = g.text \o marks
        /\ Written(g, marks).ended = g.ended
        /\ Written(g, marks).summary = g.summary
    BY <2>2, <2>3, FileSteps
  <2>5. NoIds(g.text \o marks)
    <3> SUFFICES ASSUME NEW i \in 1..(Len(g.text) + Len(marks))
                 PROVE  (g.text \o marks)[i] < 0
      BY <2>3 DEF NoIds
    <3>1. CASE i <= Len(g.text)
      BY <2>2, <2>3, <3>1 DEF NoIds
    <3>2. CASE i > Len(g.text)
      <4>1. /\ i - Len(g.text) \in DOMAIN marks
            /\ (g.text \o marks)[i] = marks[i - Len(g.text)]
        BY <2>3, <3>2
      <4> QED
        BY <2>3, <4>1 DEF NoIds
    <3> QED
      BY <2>3, <3>1, <3>2
  <2> QED
    BY <1>1, <1>2, <2>1, <2>2, <2>4, <2>5, CountedMarked
<1> QED
  BY <1>3, <1>4

(***************************************************************************)
(* Every step keeps every thread Counted: the thread that takes it by the  *)
(* lemmas above, the others because nothing of theirs changes.             *)
(***************************************************************************)
LEMMA NextCounted == Streams /\ Ids /\ AllCounted /\ [Next]_vars => AllCounted'
<1> SUFFICES ASSUME Streams, Ids, AllCounted, [Next]_vars,
                    NEW u \in Threads, Counted(u)
             PROVE  Counted(u)'
  BY DEF AllCounted
<1>0. Reliable(u)' => Reliable(u)
  BY ReliableKept
<1>1. /\ pc \in [Threads -> Places]
      /\ file \in [Threads -> File]
      /\ current \in [Threads -> Blocks \cup {NoBlock}]
      /\ globalBlockCount \in [Blocks -> [Threads -> Nat]]
      /\ globalInstructionCount \in [Threads -> [Blocks -> Nat]]
      /\ lives \in [Threads -> Nat]
  BY DEF Streams, TypeOK
<1>2. NL \in Token /\ NL < 0
  BY TokenTypes
<1>3. ASSUME SameCounters(u), file'[u] = file[u] PROVE Counted(u)'
  BY <1>0, <1>3, CountedKept
<1> USE <1>0, <1>1 DEF SameCounters, tool, counters, history, Places
<1>4. CASE FirstImage
  BY <1>4, FirstImageCounted
<1>5. CASE ThreadStartAborts
  BY <1>3, <1>5 DEF ThreadStartAborts
<1>6. CASE ImageAborts
  <2>1. SameCounters(u)
    BY <1>6 DEF ImageAborts
  <2>2. file'[u] = file[u] \/ file'[u] = OpenIfClosed(file[u])
    BY <1>6 DEF ImageAborts
  <2> QED
    BY <1>3, <2>1, <2>2, MarkCounted
<1>7. ASSUME NEW t \in Threads, ThreadStart(t) PROVE Counted(u)'
  <2>1. CASE u = t
    BY <1>7, <2>1, StartCounted
  <2>2. CASE u # t
    BY <1>3, <1>7, <2>2 DEF ThreadStart
  <2> QED
    BY <2>1, <2>2
<1>8. ASSUME NEW t \in Threads, ThreadFini(t) PROVE Counted(u)'
  <2>1. CASE u = t
    BY <1>8, <2>1, FiniCounted
  <2>2. CASE u # t
    BY <1>3, <1>8, <2>2 DEF ThreadFini
  <2> QED
    BY <2>1, <2>2
<1>9. ASSUME NEW t \in Threads, NEW bbls \in SUBSET Blocks, Trace(t, bbls)
      PROVE  Counted(u)'
  BY <1>9, TraceCounted
<1>10. ASSUME NEW t \in Threads, Image(t) PROVE Counted(u)'
  <2>1. SameCounters(u)
    BY <1>10 DEF Image
  <2>2. \/ file'[u] = file[u]
        \/ file'[u] = Written(OpenIfClosed(file[u]), <<Marker>>)
    BY <1>10 DEF Image
  <2> QED
    BY <1>3, <2>1, <2>2, MarkCounted
<1>11. ASSUME NEW t \in Threads, ImageLineEnd(t) PROVE Counted(u)'
  <2>1. SameCounters(u)
    BY <1>11 DEF ImageLineEnd
  <2>2. file'[u] = file[u] \/ file'[u] = Written(file[u], <<NL>>)
    BY <1>11 DEF ImageLineEnd, Write
  <2> QED
    BY <1>2, <2>1, <2>2, CountedKept
<1>12. ASSUME NEW t \in Threads, NEW b \in Blocks, Execute(t, b) PROVE Counted(u)'
  <2>1. CASE u = t
    BY <1>12, <2>1, ExecuteCounted
  <2>2. CASE u # t
    <3>1. \A c \in Blocks : globalBlockCount'[c][u] = globalBlockCount[c][u]
      BY <1>12, <2>2 DEF Execute
    <3> QED
      BY <1>3, <1>12, <2>2, <3>1 DEF Execute
  <2> QED
    BY <2>1, <2>2
<1>13. ASSUME NEW t \in Threads, WriteId(t) PROVE Counted(u)'
  <2>1. CASE u = t
    BY <1>13, <2>1, WriteIdCounted
  <2>2. CASE u # t
    BY <1>3, <1>13, <2>2 DEF WriteId, Write
  <2> QED
    BY <2>1, <2>2
<1>14. ASSUME NEW t \in Threads, WriteLineEnd(t) PROVE Counted(u)'
  <2>1. SameCounters(u)
    BY <1>14 DEF WriteLineEnd
  <2>2. file'[u] = file[u] \/ file'[u] = Written(file[u], <<NL>>)
    BY <1>14 DEF WriteLineEnd, Write
  <2> QED
    BY <1>2, <2>1, <2>2, CountedKept
<1>15. CASE UNCHANGED vars
  BY <1>3, <1>15 DEF vars
<1> QED
  BY <1>4, <1>5, <1>6, <1>7, <1>8, <1>9, <1>10, <1>11, <1>12, <1>13, <1>14,
     <1>15 DEF Next

(***************************************************************************)
(* However the threads interleave, and wherever Image writes its markers,  *)
(* the summary of the first thread with an id says how often each id       *)
(* stands above it (bbtrace.cpp:227-231, 311-331).                         *)
(***************************************************************************)
THEOREM SummaryIsRight == Spec => []SummaryAgreesWithTrace
<1>1. Init => Streams /\ Ids /\ AllCounted
  BY InitStreams, InitIds, InitCounted
<1>2. Streams /\ Ids /\ AllCounted /\ [Next]_vars => (Streams /\ Ids /\ AllCounted)'
  BY NextStreams, NextIds, NextCounted
<1>3. AllCounted => SummaryAgreesWithTrace
  BY DEF AllCounted, Counted, Over, SummaryAgreesWithTrace
<1> QED
  BY <1>1, <1>2, <1>3, PTL DEF Spec

(***************************************************************************)
(* The strengthening of PrivateLinesWhole: a text of whole lines has even  *)
(* length, and only between the two statements that write a line is the    *)
(* last one unfinished.                                                    *)
(***************************************************************************)
LinesOf(text) ==
  \A i \in DOMAIN text : IF i % 2 = 1 THEN text[i] \in Nat ELSE text[i] = NL

LineState(t) ==
  /\ LinesOf(file[t].text)
  /\ pc[t] = "written" => Len(file[t].text) % 2 = 1
  /\ pc[t] # "written" => Len(file[t].text) % 2 = 0

AllLines == \A t \in Threads \ {0} : LineState(t)

(***************************************************************************)
(* An id after whole lines, or a line end after an id, keeps the lines in  *)
(* shape.                                                                  *)
(***************************************************************************)
LEMMA LineGrows ==
  ASSUME NEW s \in Seq(Token), NEW token \in Token, LinesOf(s),
         \/ Len(s) % 2 = 0 /\ token \in Nat
         \/ Len(s) % 2 = 1 /\ token = NL
  PROVE  LinesOf(s \o <<token>>) /\ Len(s \o <<token>>) = Len(s) + 1
<1>1. Len(s) \in Nat /\ DOMAIN s = 1..Len(s) /\ Len(s \o <<token>>) = Len(s) + 1
      /\ DOMAIN (s \o <<token>>) = 1..(Len(s) + 1)
  OBVIOUS
<1>2. (s \o <<token>>)[Len(s) + 1] = token
      /\ \A i \in 1..Len(s) : (s \o <<token>>)[i] = s[i]
  OBVIOUS
<1>3. (Len(s) + 1) % 2 = 1 <=> Len(s) % 2 = 0
  BY <1>1
<1>4. ASSUME NEW i \in 1..(Len(s) + 1)
      PROVE  IF i % 2 = 1 THEN (s \o <<token>>)[i] \in Nat
                          ELSE (s \o <<token>>)[i] = NL
  <2>1. CASE i = Len(s) + 1
    BY <1>2, <1>3, <2>1
  <2>2. CASE i \in 1..Len(s)
    BY <1>1, <1>2, <2>2 DEF LinesOf
  <2> QED
    BY <1>1, <2>1, <2>2
<1> QED
  BY <1>1, <1>4 DEF LinesOf

(***************************************************************************)
(* Odd and even lengths take turns.                                        *)
(***************************************************************************)
LEMMA Parity ==
  \A n \in Nat : /\ n % 2 = 0 => (n + 1) % 2 = 1
                 /\ n % 2 = 1 => (n + 1) % 2 = 0
  OBVIOUS

(***************************************************************************)
(* All files are empty to begin with.                                      *)
(***************************************************************************)
LEMMA InitLines == Init => AllLines
<1>1. LinesOf(<<>>) /\ Len(<<>>) % 2 = 0 /\ NoFile.text = <<>>
  BY DEF LinesOf, NoFile
<1> QED
  BY <1>1 DEF Init, AllLines, LineState

(***************************************************************************)
(* Every step keeps the lines of all files but that of thread 0 whole.     *)
(***************************************************************************)
LEMMA NextLines == Streams /\ AllLines /\ [Next]_vars => AllLines'
<1> SUFFICES ASSUME Streams, [Next]_vars, NEW u \in Threads \ {0}, LineState(u)
             PROVE  LineState(u)'
  BY DEF AllLines
<1>1. /\ pc \in [Threads -> Places]
      /\ file \in [Threads -> File]
      /\ block_map \in [Blocks -> Nat]
      /\ u \in Threads /\ u # 0
      /\ file[u] \in File /\ file[u].text \in Seq(Token)
  BY DEF Streams, TypeOK, File
<1>2. NL \in Token /\ NL \notin Nat /\ Len(file[u].text) \in Nat
  BY <1>1, LenProperties DEF NL, Token
<1>3. ASSUME file'[u].text = file[u].text, pc'[u] = "written" <=> pc[u] = "written"
      PROVE  LineState(u)'
  BY <1>3 DEF LineState
<1> USE <1>1 DEF tool, counters, history, Places
<1>4. CASE FirstImage
  BY <1>3, <1>4 DEF FirstImage
<1>5. CASE ThreadStartAborts
  BY <1>3, <1>5 DEF ThreadStartAborts
<1>6. CASE ImageAborts
  BY <1>3, <1>6 DEF ImageAborts
<1>7. ASSUME NEW t \in Threads, ThreadStart(t) PROVE LineState(u)'
  <2>1. CASE u = t
    <3>1. file'[u] = OpenIfClosed(file[u]) /\ pc[u] = "none" /\ pc'[u] = "run"
      BY <1>7, <2>1 DEF ThreadStart
    <3>2. file'[u].text = file[u].text \/ file'[u].text = <<>>
      BY <3>1, FileSteps
    <3>3. LinesOf(<<>>) /\ Len(<<>>) % 2 = 0
      BY DEF LinesOf
    <3> QED
      BY <3>1, <3>2, <3>3 DEF LineState
  <2>2. CASE u # t
    BY <1>3, <1>7, <2>2 DEF ThreadStart
  <2> QED
    BY <2>1, <2>2
<1>8. ASSUME NEW t \in Threads, ThreadFini(t) PROVE LineState(u)'
  <2> DEFINE total == [b \in Blocks |->
                  globalInstructionCount[t][b] + globalBlockCount[b][t]]
  <2>1. /\ pc[t] = "run" /\ pc' = [pc EXCEPT ![t] = "none"]
        /\ file' = [file EXCEPT ![t] = Closed(file[t], CountsOf(t), total)]
    BY <1>8 DEF ThreadFini
  <2>2. Closed(file[t], CountsOf(t), total).text = file[t].text
    BY DEF Closed
  <2> HIDE DEF total
  <2> QED
    BY <1>3, <2>1, <2>2
<1>9. ASSUME NEW t \in Threads, NEW bbls \in SUBSET Blocks, Trace(t, bbls)
      PROVE  LineState(u)'
  BY <1>3, <1>9 DEF Trace
<1>10. ASSUME NEW t \in Threads, Image(t) PROVE LineState(u)'
  BY <1>3, <1>10 DEF Image
<1>11. ASSUME NEW t \in Threads, ImageLineEnd(t) PROVE LineState(u)'
  BY <1>3, <1>11 DEF ImageLineEnd, Write
<1>12. ASSUME NEW t \in Threads, NEW b \in Blocks, Execute(t, b)
       PROVE  LineState(u)'
  BY <1>3, <1>12 DEF Execute
<1>13. ASSUME NEW t \in Threads, WriteId(t) PROVE LineState(u)'
  <2>1. CASE u = t
    <3> DEFINE id == block_map[current[t]]
    <3>1. id \in Nat /\ id \in Token
      BY <1>13, TokenTypes DEF WriteId, Streams, CountedIsKnown, Known
    <3>2. file'[u] = Written(file[u], <<id>>) /\ pc[u] = "counted"
          /\ pc'[u] = "written"
      BY <1>13, <2>1 DEF WriteId, Write, Races
    <3> HIDE DEF id
    <3>3. LinesOf(file[u].text \o <<id>>)
          /\ Len(file[u].text \o <<id>>) = Len(file[u].text) + 1
      BY <3>1, <3>2, LineGrows DEF LineState
    <3>4. file'[u].text = file[u].text \o <<id>>
      BY <3>1, <3>2, WrittenToken
    <3>5. Len(file[u].text) % 2 = 0
      BY <3>2 DEF LineState
    <3>6. (Len(file[u].text) + 1) % 2 = 1
      BY <1>2, <3>5, Parity
    <3> QED
      BY <3>2, <3>3, <3>4, <3>6 DEF LineState
  <2>2. CASE u # t
    BY <1>3, <1>13, <2>2 DEF WriteId, Write
  <2> QED
    BY <2>1, <2>2
<1>14. ASSUME NEW t \in Threads, WriteLineEnd(t) PROVE LineState(u)'
  <2>1. CASE u = t
    <3>1. file'[u] = Written(file[u], <<NL>>) /\ pc[u] = "written"
          /\ pc'[u] = "run"
      BY <1>14, <2>1 DEF WriteLineEnd, Write, Races
    <3>2. LinesOf(file[u].text \o <<NL>>)
          /\ Len(file[u].text \o <<NL>>) = Len(file[u].text) + 1
      BY <1>2, <3>1, LineGrows DEF LineState
    <3>3. file'[u].text = file[u].text \o <<NL>>
      BY <1>2, <3>1, WrittenToken
    <3>4. Len(file[u].text) % 2 = 1
      BY <3>1 DEF LineState
    <3>5. (Len(file[u].text) + 1) % 2 = 0
      BY <1>2, <3>4, Parity
    <3> QED
      BY <3>1, <3>2, <3>3, <3>5 DEF LineState
  <2>2. CASE u # t
    BY <1>3, <1>14, <2>2 DEF WriteLineEnd, Write
  <2> QED
    BY <2>1, <2>2
<1>15. CASE UNCHANGED vars
  BY <1>3, <1>15 DEF vars
<1> QED
  BY <1>4, <1>5, <1>6, <1>7, <1>8, <1>9, <1>10, <1>11, <1>12, <1>13, <1>14,
     <1>15 DEF Next

(***************************************************************************)
(* Whatever the other threads do, every file but that of thread 0 is a     *)
(* sequence of ids, each on a line of its own (bbtrace.cpp:227-231).       *)
(***************************************************************************)
THEOREM LinesAreWhole == Spec => []PrivateLinesWhole
<1>1. Init => Streams /\ AllLines
  BY InitStreams, InitLines
<1>2. Streams /\ AllLines /\ [Next]_vars => (Streams /\ AllLines)'
  BY NextStreams, NextLines
<1>3. AllLines => PrivateLinesWhole
  BY DEF AllLines, LineState, LinesOf, PrivateLinesWhole
<1> QED
  BY <1>1, <1>2, <1>3, PTL DEF Spec

(***************************************************************************)
(* Induction over the natural numbers, for a set.                          *)
(***************************************************************************)
LEMMA Least ==
  ASSUME NEW S \in SUBSET Nat, S # {}
  PROVE  \E m \in S : \A k \in S : m <= k
<1> DEFINE R == WF!OpToRel(<, Nat)
<1>1. WF!IsWellFoundedOn(R, Nat)
  BY WF!NatLessThanWellFounded
<1> HIDE DEF R
<1>2. PICK m \in S : \A k \in S : ~ (<<k, m>> \in R)
  BY <1>1, WF!WFMin
<1>3. \A k \in S : ~ (k < m)
  BY <1>2 DEF R, WF!OpToRel
<1> QED
  BY <1>3

LEMMA SetInduction ==
  ASSUME NEW S \in SUBSET Nat, 0 \in S, \A n \in S : n + 1 \in S
  PROVE  S = Nat
<1> SUFFICES ASSUME Nat \ S # {} PROVE FALSE
  OBVIOUS
<1>1. PICK m \in Nat \ S : \A k \in Nat \ S : m <= k
  BY Least
<1>2. m # 0 /\ m - 1 \in Nat
  BY <1>1
<1>3. m - 1 \in S
  BY <1>1, <1>2
<1> QED
  BY <1>1, <1>2, <1>3

(***************************************************************************)
(* IdsIn is computed from front to back: its recursive function exists,    *)
(* and its first values are those for any text that begins alike.          *)
(***************************************************************************)
NextIdsIn(text, ids, n) ==
  IF n = 0 THEN <<>>
  ELSE IF text[n] \in Nat THEN Append(ids[n - 1], text[n])
  ELSE ids[n - 1]

Collects(text, ids, n) ==
  ids = [i \in 0..n |-> NextIdsIn(text, ids, i)]

Alike(s, r, n) == \A i \in 1..n : s[i] = r[i]

LEMMA CollectsExists ==
  ASSUME NEW text, NEW N \in Nat
  PROVE  \E ids : Collects(text, ids, N)
<1> DEFINE Ok(n) == \E ids : Collects(text, ids, n)
           S == {n \in Nat : Ok(n)}
<1>1. 0 \in S
  <2> DEFINE g == [i \in 0..0 |-> <<>>]
  <2>1. g = [i \in 0..0 |-> NextIdsIn(text, g, i)]
    BY DEF NextIdsIn
  <2> HIDE DEF g
  <2> QED
    BY <2>1 DEF Collects
<1>2. ASSUME NEW n \in S PROVE n + 1 \in S
  <2>1. PICK g : g = [i \in 0..n |-> NextIdsIn(text, g, i)]
    BY <1>2 DEF Collects
  <2> DEFINE h == [i \in 0..(n + 1) |->
                     IF i = n + 1 THEN NextIdsIn(text, g, i) ELSE g[i]]
  <2>2. \A i \in 0..n : h[i] = g[i] /\ i \in 0..(n + 1)
    OBVIOUS
  <2>3. ASSUME NEW i \in 0..(n + 1) PROVE h[i] = NextIdsIn(text, h, i)
    <3>1. NextIdsIn(text, h, i) = NextIdsIn(text, g, i)
      BY <2>2 DEF NextIdsIn
    <3>2. CASE i = n + 1
      BY <3>1, <3>2
    <3>3. CASE i # n + 1
      <4>1. i \in 0..n
        BY <3>3
      <4>2. g[i] = NextIdsIn(text, g, i)
        BY <4>1, <2>1, Zenon
      <4> QED
        BY <2>2, <3>1, <4>1, <4>2
    <3> QED
      BY <3>2, <3>3
  <2>4. h = [i \in 0..(n + 1) |-> NextIdsIn(text, h, i)]
    BY <2>3, Zenon
  <2> HIDE DEF h
  <2> QED
    BY <2>4 DEF Collects
<1> HIDE DEF S
<1>3. S = Nat
  <2>1. S \in SUBSET Nat
    BY DEF S
  <2> QED
    BY <1>1, <1>2, <2>1, SetInduction
<1> QED
  BY <1>3 DEF S

LEMMA CollectsAlike ==
  ASSUME NEW s, NEW r, NEW N \in Nat, NEW M \in Nat, N <= M,
         Alike(s, r, N), NEW g, Collects(s, g, N), NEW h, Collects(r, h, M)
  PROVE  g[N] = h[N]
<1>1. \A n \in 0..N : g[n] = NextIdsIn(s, g, n)
  BY Zenon DEF Collects
<1>2. \A n \in 0..M : h[n] = NextIdsIn(r, h, n)
  BY Zenon DEF Collects
<1> DEFINE S == {n \in Nat : n <= N => g[n] = h[n]}
<1>3. 0 \in S
  BY <1>1, <1>2 DEF NextIdsIn
<1>4. ASSUME NEW n \in S PROVE n + 1 \in S
  <2> SUFFICES ASSUME n + 1 <= N PROVE g[n + 1] = h[n + 1]
    OBVIOUS
  <2>1. n \in Nat /\ n + 1 \in 0..N /\ n + 1 \in 0..M /\ n + 1 \in 1..N /\ n + 1 # 0
        /\ (n + 1) - 1 = n
    OBVIOUS
  <2>2. g[n] = h[n] /\ s[n + 1] = r[n + 1]
    BY <2>1 DEF Alike
  <2>3. NextIdsIn(s, g, n + 1) = NextIdsIn(r, h, n + 1)
    BY <2>1, <2>2 DEF NextIdsIn
  <2>4. g[n + 1] = NextIdsIn(s, g, n + 1) /\ h[n + 1] = NextIdsIn(r, h, n + 1)
    BY <1>1, <1>2, <2>1, Zenon
  <2> QED
    BY <2>3, <2>4
<1> HIDE DEF S
<1>5. S = Nat
  <2>1. S \in SUBSET Nat
    BY DEF S
  <2> QED
    BY <1>3, <1>4, <2>1, SetInduction
<1>6. N \in S
  BY <1>5
<1>7. N <= N => g[N] = h[N]
  BY <1>6 DEF S
<1> QED
  BY <1>7

LEMMA IdsInValue ==
  ASSUME NEW text \in Seq(Token)
  PROVE  \E ids : Collects(text, ids, Len(text)) /\ IdsIn(text) = ids[Len(text)]
<1> DEFINE N == Len(text)
<1>0. N \in Nat
  BY LenProperties
<1> DEFINE kept == CHOOSE g : Collects(text, g, N)
<1>1. Collects(text, kept, N)
  BY <1>0, CollectsExists
<1>2. IdsIn(text) = kept[N]
  BY Zenon DEF IdsIn, Collects, NextIdsIn
<1> HIDE DEF kept
<1> QED
  BY <1>1, <1>2

(***************************************************************************)
(* An id that is appended to a text is appended to its ids, and line ends  *)
(* and markers are not among them.                                         *)
(***************************************************************************)
LEMMA IdsInNone ==
  ASSUME NEW text \in Seq(Token), NoIds(text)
  PROVE  IdsIn(text) = <<>>
<1> DEFINE N == Len(text)
<1>0. N \in Nat /\ DOMAIN text = 1..N
  BY LenProperties
<1>1. PICK g : Collects(text, g, N) /\ IdsIn(text) = g[N]
  BY IdsInValue
<1>2. \A n \in 0..N : g[n] = NextIdsIn(text, g, n)
  BY <1>1, Zenon DEF Collects
<1> DEFINE S == {n \in Nat : n <= N => g[n] = <<>>}
<1> HIDE DEF N
<1>3. 0 \in S
  BY <1>0, <1>2 DEF NextIdsIn
<1>4. ASSUME NEW n \in S PROVE n + 1 \in S
  <2> SUFFICES ASSUME n + 1 <= N PROVE g[n + 1] = <<>>
    OBVIOUS
  <2>1. /\ n \in Nat /\ n + 1 \in 0..N /\ n + 1 \in 1..N /\ n + 1 # 0
        /\ (n + 1) - 1 = n /\ n <= N
    BY <1>0
  <2>2. g[n] = <<>>
    BY <2>1
  <2>3. text[n + 1] \notin Nat
    BY <1>0, <2>1 DEF NoIds
  <2>4. g[n + 1] = NextIdsIn(text, g, n + 1)
    BY <1>2, <2>1, Zenon
  <2> QED
    BY <2>1, <2>2, <2>3, <2>4 DEF NextIdsIn
<1> HIDE DEF S
<1>5. S = Nat
  <2>1. S \in SUBSET Nat
    BY DEF S
  <2> QED
    BY <1>3, <1>4, <2>1, SetInduction
<1>6. N \in S
  BY <1>0, <1>5
<1> QED
  BY <1>0, <1>1, <1>6 DEF S, N

LEMMA IdsInAppend ==
  ASSUME NEW s \in Seq(Token), NEW token \in Token
  PROVE  IdsIn(s \o <<token>>) =
           IF token \in Nat THEN Append(IdsIn(s), token) ELSE IdsIn(s)
<1> DEFINE r == s \o <<token>>
           N == Len(s)
<1>1. /\ N \in Nat /\ r \in Seq(Token) /\ Len(r) = N + 1
      /\ \A i \in 1..N : s[i] = r[i]
      /\ r[N + 1] = token
  BY LenProperties
<1> HIDE DEF r
<1>2. PICK g : Collects(s, g, N) /\ IdsIn(s) = g[N]
  BY IdsInValue
<1>3. PICK h : Collects(r, h, N + 1) /\ IdsIn(r) = h[N + 1]
  BY <1>1, IdsInValue
<1> HIDE DEF N
<1>4. N + 1 \in Nat /\ N <= N + 1 /\ N + 1 \in 0..(N + 1) /\ N + 1 # 0 /\ (N + 1) - 1 = N
  BY <1>1
<1>5. g[N] = h[N]
  <2> DEFINE M == N + 1
  <2>1. M \in Nat /\ N \in Nat /\ N <= M
    BY <1>1, <1>4
  <2>2. Alike(s, r, N)
    BY <1>1 DEF Alike
  <2>3. Collects(s, g, N) /\ Collects(r, h, M)
    BY <1>2, <1>3
  <2> HIDE DEF M
  <2> QED
    BY <2>1, <2>2, <2>3, CollectsAlike
<1>6. h[N + 1] = NextIdsIn(r, h, N + 1)
  BY <1>3, <1>4, Zenon DEF Collects
<1>7. IdsIn(r) = IF token \in Nat THEN Append(IdsIn(s), token) ELSE IdsIn(s)
  BY <1>1, <1>2, <1>3, <1>4, <1>5, <1>6 DEF NextIdsIn
<1> QED
  BY <1>7 DEF r

(***************************************************************************)
(* The strengthening of TraceIsExecution.  What a thread executed has ids, *)
(* which Trace does not change; between the statements of CountBlock the   *)
(* last of it is the block whose id is written next.  A reliable file of a *)
(* thread that ended stays closed, so that the next thread with this id    *)
(* opens it anew and starts with nothing in it.                            *)
(***************************************************************************)
RanKnown(t) == \A i \in DOMAIN ran[t] : ran[t][i] \in Known

LastIsCurrent(t) ==
  pc[t] = "counted" => Len(ran[t]) # 0 /\ ran[t][Len(ran[t])] = current[t]

OpenedAnew(t) ==
  Reliable(t) /\ pc[t] = "none" /\ lives[t] # 0 => ~file[t].open

Logged(t) == pc[t] # "none" \/ file[t].ended

IdsRight(t) ==
  Reliable(t) /\ Logged(t) =>
    IdsIn(file[t].text) = IF pc[t] = "counted" THEN Front(ExecutedIds(t))
                                               ELSE ExecutedIds(t)

Log(t) == RanKnown(t) /\ LastIsCurrent(t) /\ OpenedAnew(t) /\ IdsRight(t)

AllLogs == \A t \in Threads : Log(t)

(***************************************************************************)
(* Nothing that the log of thread t is about changes, but for a line end   *)
(* or marker in its file.                                                  *)
(***************************************************************************)
SameLog(t) ==
  /\ block_map' = block_map /\ ran'[t] = ran[t] /\ lives'[t] = lives[t]
  /\ current'[t] = current[t]
  /\ pc'[t] = "none" <=> pc[t] = "none"
  /\ pc'[t] = "counted" <=> pc[t] = "counted"

LEMMA LogKept ==
  ASSUME Streams, NEW t \in Threads, Log(t), SameLog(t),
         \/ file'[t] = file[t]
         \/ \E token \in Token : token < 0 /\ file'[t] = Written(file[t], <<token>>),
         Reliable(t)' => Reliable(t)
  PROVE  Log(t)'
<1>1. file[t] \in File /\ file[t].text \in Seq(Token) /\ Known' = Known
  BY DEF Streams, TypeOK, File, Known, SameLog
<1>2. /\ file'[t].ended = file[t].ended /\ file'[t].open = file[t].open
      /\ IdsIn(file'[t].text) = IdsIn(file[t].text)
  <2>1. CASE file'[t] = file[t]
    BY <2>1
  <2>2. ASSUME NEW token \in Token, token < 0,
               file'[t] = Written(file[t], <<token>>)
        PROVE  /\ file'[t].ended = file[t].ended /\ file'[t].open = file[t].open
               /\ IdsIn(file'[t].text) = IdsIn(file[t].text)
    <3>1. /\ file'[t].text = file[t].text \o <<token>>
          /\ file'[t].ended = file[t].ended
      BY <1>1, <2>2, WrittenToken
    <3>2. file'[t].open = file[t].open
      BY <1>1, <2>2 DEF Written, File
    <3>3. token \notin Nat
      BY <2>2
    <3> QED
      BY <1>1, <3>1, <3>2, <3>3, IdsInAppend
  <2> QED
    BY <2>1, <2>2
<1>3. ExecutedIds(t)' = ExecutedIds(t)
  BY DEF ExecutedIds, SameLog
<1>4. RanKnown(t)'
  BY <1>1 DEF Log, RanKnown, SameLog
<1>5. LastIsCurrent(t)'
  BY DEF Log, LastIsCurrent, SameLog
<1>6. OpenedAnew(t)'
  BY <1>2 DEF Log, OpenedAnew, SameLog
<1>7. IdsRight(t)'
  BY <1>2, <1>3 DEF Log, IdsRight, Logged, SameLog
<1> QED
  BY <1>4, <1>5, <1>6, <1>7 DEF Log

(***************************************************************************)
(* A file that is no log, since its thread does not live and wrote no      *)
(* summary, need only be closed if a thread had it before.                 *)
(***************************************************************************)
LEMMA LogOpened ==
  ASSUME Streams, NEW t \in Threads, Log(t), SameLog(t),
         pc[t] = "none", ~file'[t].ended, Reliable(t)' => Reliable(t),
         Reliable(t) => lives[t] = 0
  PROVE  Log(t)'
<1>1. Known' = Known
  BY DEF Known, SameLog
<1>2. RanKnown(t)'
  BY <1>1 DEF Log, RanKnown, SameLog
<1>3. LastIsCurrent(t)'
  BY DEF Log, LastIsCurrent, SameLog
<1>4. OpenedAnew(t)'
  BY DEF OpenedAnew, SameLog
<1>5. IdsRight(t)'
  BY DEF IdsRight, Logged, SameLog
<1> QED
  BY <1>2, <1>3, <1>4, <1>5 DEF Log

LEMMA InitLogs == Init => AllLogs
<1> SUFFICES ASSUME Init, NEW t \in Threads PROVE Log(t)
  BY DEF AllLogs
<1>1. lives[t] = 0 /\ pc[t] = "none" /\ file[t] = NoFile /\ ran[t] = <<>>
  BY DEF Init
<1>2. ~NoFile.ended
  BY DEF NoFile
<1> QED
  BY <1>1, <1>2 DEF Log, RanKnown, LastIsCurrent, OpenedAnew, IdsRight, Logged

(***************************************************************************)
(* A thread that starts finds no ids in its file.                          *)
(***************************************************************************)
LEMMA StartLog ==
  ASSUME Streams, NEW t \in Threads, Counted(t), Log(t), ThreadStart(t),
         Reliable(t)' => Reliable(t)
  PROVE  Log(t)'
<1>1. /\ file[t] \in File /\ pc[t] = "none" /\ pc'[t] = "run" /\ ran'[t] = <<>>
      /\ file'[t] = OpenIfClosed(file[t])
  BY DEF Streams, TypeOK, ThreadStart
<1>2. RanKnown(t)' /\ LastIsCurrent(t)' /\ OpenedAnew(t)'
  BY <1>1 DEF RanKnown, LastIsCurrent, OpenedAnew
<1>3. IdsRight(t)'
  <2> SUFFICES ASSUME Reliable(t) PROVE IdsIn(file'[t].text) = ExecutedIds(t)'
    BY <1>1 DEF IdsRight
  <2>1. ExecutedIds(t)' = <<>>
    BY <1>1 DEF ExecutedIds
  <2>2. NoIds(file'[t].text) /\ file'[t].text \in Seq(Token)
    <3>1. CASE file[t].open
      <4>1. lives[t] = 0
        BY <1>1, <3>1 DEF Log, OpenedAnew
      <4>2. file'[t] = file[t]
        BY <1>1, <3>1, FileSteps
      <4> QED
        BY <1>1, <4>1, <4>2 DEF Counted, NotYet, File
    <3>2. CASE ~file[t].open
      <4>1. file'[t].text = <<>>
        BY <1>1, <3>2, OpenFields
      <4> QED
        BY <4>1 DEF NoIds
    <3> QED
      BY <3>1, <3>2
  <2> QED
    BY <2>1, <2>2, IdsInNone
<1> QED
  BY <1>2, <1>3 DEF Log

(***************************************************************************)
(* The last thing a thread does to its file is to close it.                *)
(***************************************************************************)
LEMMA FiniLog ==
  ASSUME Streams, NEW t \in Threads, Log(t), ThreadFini(t),
         Reliable(t)' => Reliable(t)
  PROVE  Log(t)'
<1> DEFINE total == [b \in Blocks |->
                  globalInstructionCount[t][b] + globalBlockCount[b][t]]
<1>1. /\ file'[t] = Closed(file[t], CountsOf(t), total)
      /\ pc[t] = "run" /\ pc'[t] = "none"
      /\ UNCHANGED <<current, block_map, ran>> /\ Known' = Known
  BY DEF ThreadFini, tool, history, Known, Streams, TypeOK
<1>2. file'[t].text = file[t].text /\ ~file'[t].open
  BY <1>1 DEF Closed
<1>3. ExecutedIds(t)' = ExecutedIds(t)
  BY <1>1 DEF ExecutedIds
<1> HIDE DEF total
<1>4. RanKnown(t)'
  BY <1>1 DEF Log, RanKnown
<1>5. LastIsCurrent(t)' /\ OpenedAnew(t)'
  BY <1>1, <1>2 DEF LastIsCurrent, OpenedAnew
<1>6. IdsRight(t)'
  BY <1>1, <1>2, <1>3 DEF Log, IdsRight, Logged
<1> QED
  BY <1>4, <1>5, <1>6 DEF Log

(***************************************************************************)
(* Numbering new blocks renumbers none that was executed.                  *)
(***************************************************************************)
LEMMA TraceLog ==
  ASSUME Streams, Ids, NEW u \in Threads, NEW bbls \in SUBSET Blocks,
         Trace(u, bbls), NEW t \in Threads, Log(t),
         Reliable(t)' => Reliable(t)
  PROVE  Log(t)'
<1> DEFINE new == bbls \ Known
<1>1. /\ Known' = Known \cup new
      /\ \A b \in Known : block_map'[b] = block_map[b]
  BY TraceNumbers, NextType DEF Ids, Streams, TypeOK, Next
<1>2. UNCHANGED <<pc, current, file, ran, lives>>
  BY DEF Trace, history
<1>3. ExecutedIds(t)' = ExecutedIds(t)
  BY <1>1, <1>2 DEF ExecutedIds, Log, RanKnown
<1>4. RanKnown(t)'
  BY <1>1, <1>2 DEF Log, RanKnown
<1>5. LastIsCurrent(t)' /\ OpenedAnew(t)'
  BY <1>2 DEF Log, LastIsCurrent, OpenedAnew
<1>6. IdsRight(t)'
  BY <1>2, <1>3 DEF Log, IdsRight, Logged
<1> QED
  BY <1>4, <1>5, <1>6 DEF Log

(***************************************************************************)
(* A block that is counted is one more than the ids in the file, and the   *)
(* id that is written next is the missing one.                             *)
(***************************************************************************)
LEMMA FrontOfAppended ==
  ASSUME NEW S, NEW s \in Seq(S), NEW x \in S
  PROVE  Front(Append(s, x)) = s
<1> DEFINE r == Append(s, x)
<1>1. /\ r \in Seq(S) /\ Len(r) = Len(s) + 1 /\ Len(s) \in Nat
      /\ \A i \in 1..Len(s) : r[i] = s[i]
  BY AppendProperties, LenProperties
<1> HIDE DEF r
<1>2. SubSeq(r, 1, Len(s)) = s
  BY <1>1
<1>3. Len(r) - 1 = Len(s)
  BY <1>1
<1>4. Front(r) = SubSeq(r, 1, Len(r) - 1)
  BY Zenon DEF Front
<1> QED
  BY <1>2, <1>3, <1>4 DEF r

LEMMA ExecuteLog ==
  ASSUME Streams, NEW t \in Threads, NEW b \in Blocks, Log(t), Execute(t, b),
         Reliable(t)' => Reliable(t)
  PROVE  Log(t)'
<1>1. /\ pc[t] = "run" /\ pc'[t] = "counted" /\ current'[t] = b
      /\ UNCHANGED <<block_map, file, lives>>
      /\ Known' = Known /\ b \in Known /\ Known \subseteq Blocks
      /\ block_map \in [Blocks -> Nat]
      /\ ran[t] \in Seq(Blocks) /\ ran'[t] = Append(ran[t], b)
  BY DEF Execute, tool, Streams, TypeOK, Known
<1>2. /\ Len(ran'[t]) = Len(ran[t]) + 1 /\ Len(ran[t]) \in Nat
      /\ DOMAIN ran[t] = 1..Len(ran[t]) /\ DOMAIN ran'[t] = 1..(Len(ran[t]) + 1)
      /\ \A i \in 1..Len(ran[t]) : ran'[t][i] = ran[t][i]
      /\ ran'[t][Len(ran[t]) + 1] = b
  BY <1>1, AppendProperties, LenProperties
<1>3. RanKnown(t)'
  BY <1>1, <1>2 DEF Log, RanKnown
<1>4. LastIsCurrent(t)' /\ OpenedAnew(t)'
  BY <1>1, <1>2 DEF LastIsCurrent, OpenedAnew
<1>5. ExecutedIds(t)' = Append(ExecutedIds(t), block_map[b])
      /\ ExecutedIds(t) \in Seq(Nat)
  <2> DEFINE e == ExecutedIds(t)
  <2>1. e = [i \in 1..Len(ran[t]) |-> block_map[ran[t][i]]]
    BY <1>2 DEF ExecutedIds
  <2>2. e \in Seq(Nat) /\ Len(e) = Len(ran[t])
    <3>1. \A i \in 1..Len(ran[t]) : block_map[ran[t][i]] \in Nat
      BY <1>1
    <3> QED
      BY <1>2, <2>1, <3>1
  <2>3. ExecutedIds(t)' = [i \in 1..(Len(ran[t]) + 1) |-> block_map[ran'[t][i]]]
    BY <1>1, <1>2 DEF ExecutedIds
  <2> HIDE DEF e
  <2>4. Append(e, block_map[b]) = [i \in 1..(Len(ran[t]) + 1) |->
           IF i = Len(ran[t]) + 1 THEN block_map[b] ELSE e[i]]
    BY <1>2, <2>2
  <2>5. \A i \in 1..(Len(ran[t]) + 1) : block_map[ran'[t][i]] =
           IF i = Len(ran[t]) + 1 THEN block_map[b] ELSE e[i]
    BY <1>2, <2>1
  <2> QED
    BY <2>2, <2>3, <2>4, <2>5 DEF e
<1>6. Front(ExecutedIds(t)') = ExecutedIds(t)
  <2>1. block_map[b] \in Nat
    BY <1>1
  <2> QED
    BY <1>5, <2>1, FrontOfAppended
<1>7. IdsRight(t)'
  BY <1>1, <1>6 DEF Log, IdsRight, Logged
<1> QED
  BY <1>3, <1>4, <1>7 DEF Log

LEMMA WriteIdLog ==
  ASSUME Streams, AllCounted, NEW t \in Threads, Log(t), WriteId(t),
         Reliable(t)' => Reliable(t)
  PROVE  Log(t)'
<1> DEFINE id == block_map[current[t]]
<1>1. /\ pc[t] = "counted" /\ pc'[t] = "written"
      /\ UNCHANGED <<current, block_map, ran, lives>> /\ Known' = Known
      /\ file[t] \in File /\ file[t].text \in Seq(Token)
      /\ block_map \in [Blocks -> Nat] /\ ran[t] \in Seq(Blocks)
  BY DEF WriteId, tool, history, Streams, TypeOK, Known, File
<1>2. id \in Nat /\ id \in Token
  BY <1>1, TokenTypes DEF Streams, CountedIsKnown, Known
<1>3. \/ file'[t] = Written(file[t], <<id>>)
      \/ Races(t) /\ file'[t] = file[t]
  BY <1>1 DEF WriteId, Write, Streams, TypeOK
<1>4. Races(t) => ~Reliable(t)
  BY DEF Races, Reliable, AllCounted, Counted, NotYet
<1>5. RanKnown(t)'
  BY <1>1 DEF Log, RanKnown
<1>6. LastIsCurrent(t)' /\ OpenedAnew(t)'
  BY <1>1 DEF LastIsCurrent, OpenedAnew
<1> DEFINE e == ExecutedIds(t)
           n == Len(ran[t])
<1>7. /\ n \in Nat /\ n # 0 /\ ran[t][n] = current[t] /\ DOMAIN ran[t] = 1..n
  BY <1>1, LenProperties DEF Log, LastIsCurrent
<1>8. e \in Seq(Nat) /\ Len(e) = n /\ e[n] = id
  <2>1. e = [i \in 1..n |-> block_map[ran[t][i]]]
    BY <1>7 DEF ExecutedIds
  <2>2. \A i \in 1..n : block_map[ran[t][i]] \in Nat
    BY <1>1
  <2> HIDE DEF e
  <2> QED
    BY <1>7, <2>1, <2>2
<1>9. ExecutedIds(t)' = e
  BY <1>1 DEF ExecutedIds
<1> HIDE DEF e, n, id
<1>10. Append(Front(e), id) = e
  <2> DEFINE f == SubSeq(e, 1, n - 1)
  <2>1. n - 1 \in Nat /\ n - 1 <= Len(e) /\ (n - 1) + 1 = n
    BY <1>7, <1>8
  <2>2. f \in Seq(Nat) /\ Len(f) = n - 1 /\ \A i \in 1..(n - 1) : f[i] = e[i]
    BY <1>8, <2>1
  <2>3. Front(e) = f
    BY <1>8, Zenon DEF Front
  <2> HIDE DEF f
  <2>4. Append(f, id) = e
    <3>1. /\ Append(f, id) \in Seq(Nat) /\ Len(Append(f, id)) = n
          /\ \A i \in 1..n : Append(f, id)[i] = e[i]
      BY <1>2, <1>7, <1>8, <2>1, <2>2
    <3> QED
      BY <1>8, <3>1, SeqEqual
  <2> QED
    BY <2>3, <2>4
<1>11. IdsRight(t)'
  <2> SUFFICES ASSUME Reliable(t) PROVE IdsIn(file'[t].text) = e
    BY <1>1, <1>9 DEF IdsRight
  <2>1. file'[t].text = file[t].text \o <<id>>
    BY <1>1, <1>2, <1>3, <1>4, WrittenToken
  <2>2. IdsIn(file[t].text) = Front(e)
    BY <1>1 DEF Log, IdsRight, Logged, e
  <2>3. IdsIn(file'[t].text) = Append(Front(e), id)
    BY <1>1, <1>2, <2>1, <2>2, IdsInAppend
  <2> QED
    BY <1>10, <2>3
<1> QED
  BY <1>5, <1>6, <1>11 DEF Log

(***************************************************************************)
(* A program that runs has a live thread, so that file 0 is unreliable     *)
(* once thread 0 has ended.                                                *)
(***************************************************************************)
LEMMA AnotherRuns ==
  ASSUME Streams, AllCounted, ProgramRuns, pc[0] = "none", Reliable(0)
  PROVE  lives[0] = 0
<1>1. CASE ProgramStarts
  BY <1>1, ThreadZero DEF ProgramStarts
<1>2. CASE \E u \in Threads : pc[u] = "run"
  <2>1. PICK u \in Threads : pc[u] = "run"
    BY <1>2
  <2>2. u # 0 /\ lives[u] # 0
    BY <2>1 DEF AllCounted, Counted, NotYet
  <2> QED
    BY <2>2 DEF Reliable
<1> QED
  BY <1>1, <1>2 DEF ProgramRuns

LEMMA FirstImageLog ==
  ASSUME Streams, AllCounted, NEW t \in Threads, Log(t), FirstImage,
         Reliable(t)' => Reliable(t)
  PROVE  Log(t)'
<1>1. /\ SameLog(t) /\ lives[t] = 0 /\ file[t] \in File
      /\ file \in [Threads -> File]
      /\ pc[t] = "none" /\ ~file[t].ended
  BY DEF FirstImage, SameLog, tool, counters, history, ProgramStarts, Streams, TypeOK,
         AllCounted, Counted, NotYet
<1>2. CASE t # 0
  <2>1. file'[t] = file[t]
    BY <1>1, <1>2, ThreadZero DEF FirstImage
  <2> QED
    BY <1>1, <2>1, LogKept
<1>3. CASE t = 0
  <2> DEFINE g == OpenIfClosed(file[t])
             marks == <<Marker, NL>>
  <2>1. file'[t] = Written(g, marks)
    BY <1>1, <1>3 DEF FirstImage
  <2>2. g \in File /\ ~g.ended
    <3>1. CASE file[t].open
      BY <1>1, <3>1, FileSteps
    <3>2. CASE ~file[t].open
      BY <1>1, <3>2, FileTypes, OpenFields
    <3> QED
      BY <3>1, <3>2
  <2>3. marks \in Seq(Token)
    BY TokenTypes
  <2> HIDE DEF g, marks
  <2>4. ~file'[t].ended
    BY <2>1, <2>2, <2>3, FileSteps
  <2> QED
    BY <1>1, <2>4, LogOpened
<1> QED
  BY <1>2, <1>3

(***************************************************************************)
(* The marker of an image, in the middle of the run or in one that stops.  *)
(***************************************************************************)
LEMMA MarkLog ==
  ASSUME Streams, AllCounted, NEW t \in Threads, t = 0, Log(t), SameLog(t), ProgramRuns,
         \/ file'[t] = OpenIfClosed(file[t])
         \/ file'[t] = Written(OpenIfClosed(file[t]), <<Marker>>),
         Reliable(t)' => Reliable(t)
  PROVE  Log(t)'
<1>1. file[t] \in File /\ Marker \in Token /\ Marker < 0
  BY TokenTypes DEF Streams, TypeOK
<1>2. CASE file[t].open
  <2>1. OpenIfClosed(file[t]) = file[t]
    BY <1>1, <1>2, FileSteps
  <2> QED
    BY <1>1, <2>1, LogKept
<1>3. CASE ~file[t].open
  <2> DEFINE g == OpenIfClosed(file[t])
  <2>1. g \in File /\ ~g.ended
    BY <1>1, <1>3, OpenFields, FileTypes
  <2>2. pc[t] = "none"
    BY <1>3 DEF Streams, LiveFilesOpen
  <2> HIDE DEF g
  <2>3. ~Written(g, <<Marker>>).ended
    BY <1>1, <2>1, WrittenToken
  <2>4. ~file'[t].ended
    BY <2>1, <2>3 DEF g
  <2>5. Reliable(t) => lives[t] = 0
    BY <2>2, AnotherRuns
  <2> QED
    BY <2>2, <2>4, <2>5, LogOpened
<1> QED
  BY <1>2, <1>3

(***************************************************************************)
(* Every step keeps every log, whoever takes it.                           *)
(***************************************************************************)
LEMMA NextLogs ==
  Streams /\ Ids /\ AllCounted /\ AllLogs /\ [Next]_vars => AllLogs'
<1> SUFFICES ASSUME Streams, Ids, AllCounted, AllLogs, [Next]_vars,
                    NEW u \in Threads, Log(u), Counted(u)
             PROVE  Log(u)'
  BY DEF AllLogs, AllCounted
<1>0. Reliable(u)' => Reliable(u)
  BY ReliableKept
<1>1. /\ pc \in [Threads -> Places]
      /\ file \in [Threads -> File]
      /\ current \in [Threads -> Blocks \cup {NoBlock}]
      /\ ran \in [Threads -> Seq(Blocks)]
      /\ lives \in [Threads -> Nat]
  BY DEF Streams, TypeOK
<1>2. NL \in Token /\ NL < 0
  BY TokenTypes
<1>3. ASSUME SameLog(u), file'[u] = file[u] PROVE Log(u)'
  BY <1>0, <1>3, LogKept
<1> USE <1>0, <1>1 DEF SameLog, tool, counters, history, Places
<1>4. CASE FirstImage
  BY <1>4, FirstImageLog
<1>5. CASE ThreadStartAborts
  BY <1>3, <1>5 DEF ThreadStartAborts
<1>6. CASE ImageAborts
  <2>1. SameLog(u) /\ ProgramRuns
    BY <1>6 DEF ImageAborts
  <2>2. file'[u] = file[u] \/ (u = 0 /\ file'[u] = OpenIfClosed(file[u]))
    BY <1>6 DEF ImageAborts
  <2> QED
    BY <1>3, <2>1, <2>2, MarkLog
<1>7. ASSUME NEW t \in Threads, ThreadStart(t) PROVE Log(u)'
  <2>1. CASE u = t
    BY <1>7, <2>1, StartLog
  <2>2. CASE u # t
    BY <1>3, <1>7, <2>2 DEF ThreadStart
  <2> QED
    BY <2>1, <2>2
<1>8. ASSUME NEW t \in Threads, ThreadFini(t) PROVE Log(u)'
  <2>1. CASE u = t
    BY <1>8, <2>1, FiniLog
  <2>2. CASE u # t
    BY <1>3, <1>8, <2>2 DEF ThreadFini
  <2> QED
    BY <2>1, <2>2
<1>9. ASSUME NEW t \in Threads, NEW bbls \in SUBSET Blocks, Trace(t, bbls)
      PROVE  Log(u)'
  BY <1>9, TraceLog
<1>10. ASSUME NEW t \in Threads, Image(t) PROVE Log(u)'
  <2>1. SameLog(u) /\ ProgramRuns
    BY <1>10 DEF Image, ProgramRuns
  <2>2. \/ file'[u] = file[u]
        \/ u = 0 /\ file'[u] = Written(OpenIfClosed(file[u]), <<Marker>>)
    BY <1>10 DEF Image
  <2> QED
    BY <1>3, <2>1, <2>2, MarkLog
<1>11. ASSUME NEW t \in Threads, ImageLineEnd(t) PROVE Log(u)'
  <2>1. SameLog(u)
    BY <1>11 DEF ImageLineEnd
  <2>2. file'[u] = file[u] \/ file'[u] = Written(file[u], <<NL>>)
    BY <1>11 DEF ImageLineEnd, Write
  <2> QED
    BY <1>2, <2>1, <2>2, LogKept
<1>12. ASSUME NEW t \in Threads, NEW b \in Blocks, Execute(t, b) PROVE Log(u)'
  <2>1. CASE u = t
    BY <1>12, <2>1, ExecuteLog
  <2>2. CASE u # t
    BY <1>3, <1>12, <2>2 DEF Execute
  <2> QED
    BY <2>1, <2>2
<1>13. ASSUME NEW t \in Threads, WriteId(t) PROVE Log(u)'
  <2>1. CASE u = t
    BY <1>13, <2>1, WriteIdLog
  <2>2. CASE u # t
    BY <1>3, <1>13, <2>2 DEF WriteId, Write
  <2> QED
    BY <2>1, <2>2
<1>14. ASSUME NEW t \in Threads, WriteLineEnd(t) PROVE Log(u)'
  <2>1. SameLog(u)
    BY <1>14 DEF WriteLineEnd
  <2>2. file'[u] = file[u] \/ file'[u] = Written(file[u], <<NL>>)
    BY <1>14 DEF WriteLineEnd, Write
  <2> QED
    BY <1>2, <2>1, <2>2, LogKept
<1>15. CASE UNCHANGED vars
  BY <1>3, <1>15 DEF vars
<1> QED
  BY <1>4, <1>5, <1>6, <1>7, <1>8, <1>9, <1>10, <1>11, <1>12, <1>13, <1>14,
     <1>15 DEF Next

(***************************************************************************)
(* However the threads interleave, a thread's file lists the blocks it     *)
(* executed, in order, none missing and none of another thread or of an    *)
(* earlier one with this id; the file of thread 0 as long as the program   *)
(* has no other thread (bbtrace.cpp:227-231, 333-356).                     *)
(***************************************************************************)
THEOREM LogIsExecution == Spec => []TraceIsExecution
<1> DEFINE I == Streams /\ Ids /\ AllCounted /\ AllLogs
<1>1. Init => I
  BY InitStreams, InitIds, InitCounted, InitLogs
<1>2. I /\ [Next]_vars => I'
  BY NextStreams, NextIds, NextCounted, NextLogs
<1>3. I => TraceIsExecution
  BY DEF AllLogs, Log, IdsRight, Logged, TraceIsExecution
<1> HIDE DEF I
<1> QED
  BY <1>1, <1>2, <1>3, PTL DEF Spec
-----------------------------------------------------------------------------
(***************************************************************************)
(* BbTrace implements ThreadTraces.                                        *)
(***************************************************************************)

(***************************************************************************)
(* The life of a file other than 0: there is none before the first thread  *)
(* with its number, and when no thread has the number, the last one wrote  *)
(* its summary.                                                            *)
(***************************************************************************)
Cycle(t) ==
  /\ lives[t] = 0 => file[t] = NoFile /\ ran[t] = <<>>
  /\ lives[t] # 0 /\ pc[t] = "none" => file[t].ended

AllCycles == \A t \in Private : Cycle(t)

(***************************************************************************)
(* No thread was started yet.                                              *)
(***************************************************************************)
LEMMA InitCycles == Init => AllCycles
  BY DEF Init, AllCycles, Cycle, Private

(***************************************************************************)
(* Every step keeps the lives of the files in order.                       *)
(***************************************************************************)
LEMMA NextCycles ==
  Streams /\ AllCounted /\ AllCycles /\ [Next]_vars => AllCycles'
<1> SUFFICES ASSUME Streams, AllCounted, AllCycles, [Next]_vars,
                    NEW u \in Private, Cycle(u)
             PROVE  Cycle(u)'
  BY DEF AllCycles
<1>1. /\ pc \in [Threads -> Places]
      /\ file \in [Threads -> File]
      /\ ran \in [Threads -> Seq(Blocks)]
      /\ lives \in [Threads -> Nat]
      /\ u \in Threads /\ u # 0
      /\ lives[u] = 0 => pc[u] = "none"
  BY DEF Streams, TypeOK, Private, AllCounted, Counted, NotYet
<1>2. ASSUME lives'[u] = lives[u], ran'[u] = ran[u], file'[u] = file[u],
             pc'[u] = "none" => pc[u] = "none"
      PROVE  Cycle(u)'
  BY <1>2 DEF Cycle
<1>3. ASSUME lives'[u] = lives[u], pc[u] # "none", pc'[u] # "none"
      PROVE  Cycle(u)'
  BY <1>1, <1>3 DEF Cycle
<1> USE <1>1 DEF tool, counters, history
<1>4. CASE FirstImage
  BY <1>2, <1>4 DEF FirstImage
<1>5. CASE ThreadStartAborts \/ ImageAborts
  BY <1>2, <1>5 DEF ThreadStartAborts, ImageAborts
<1>6. ASSUME NEW t \in Threads, ThreadStart(t) PROVE Cycle(u)'
  <2>1. CASE u = t
    <3>1. lives'[u] # 0 /\ pc'[u] = "run"
      BY <1>6, <2>1 DEF ThreadStart
    <3> QED
      BY <3>1 DEF Cycle
  <2>2. CASE u # t
    BY <1>2, <1>6, <2>2 DEF ThreadStart
  <2> QED
    BY <2>1, <2>2
<1>7. ASSUME NEW t \in Threads, ThreadFini(t) PROVE Cycle(u)'
  <2>1. CASE u = t
    <3>1. /\ pc[u] = "run" /\ lives'[u] = lives[u]
          /\ file'[u].ended
      BY <1>7, <2>1 DEF ThreadFini, Closed
    <3>2. lives'[u] # 0
      BY <3>1
    <3> QED
      BY <3>1, <3>2 DEF Cycle
  <2>2. CASE u # t
    BY <1>2, <1>7, <2>2 DEF ThreadFini
  <2> QED
    BY <2>1, <2>2
<1>8. ASSUME NEW t \in Threads, NEW bbls \in SUBSET Blocks, Trace(t, bbls)
      PROVE  Cycle(u)'
  BY <1>2, <1>8 DEF Trace
<1>9. ASSUME NEW t \in Threads, Image(t) PROVE Cycle(u)'
  BY <1>2, <1>9 DEF Image
<1>10. ASSUME NEW t \in Threads, ImageLineEnd(t) PROVE Cycle(u)'
  BY <1>2, <1>10 DEF ImageLineEnd, Write
<1>11. ASSUME NEW t \in Threads, NEW b \in Blocks, Execute(t, b)
       PROVE  Cycle(u)'
  <2>1. CASE u = t
    BY <1>3, <1>11, <2>1 DEF Execute
  <2>2. CASE u # t
    BY <1>2, <1>11, <2>2 DEF Execute
  <2> QED
    BY <2>1, <2>2
<1>12. ASSUME NEW t \in Threads, WriteId(t) \/ WriteLineEnd(t)
       PROVE  Cycle(u)'
  <2>1. CASE u = t
    BY <1>3, <1>12, <2>1 DEF WriteId, WriteLineEnd
  <2>2. CASE u # t
    BY <1>2, <1>12, <2>2 DEF WriteId, WriteLineEnd, Write
  <2> QED
    BY <2>1, <2>2
<1>13. CASE UNCHANGED vars
  BY <1>2, <1>13 DEF vars
<1> QED
  BY <1>4, <1>5, <1>6, <1>7, <1>8, <1>9, <1>10, <1>11, <1>12, <1>13 DEF Next

(***************************************************************************)
(* Together with the invariants of the earlier theorems: all that the      *)
(* refinement rests on.                                                    *)
(***************************************************************************)
TInv == Streams /\ Ids /\ AllCounted /\ AllLogs /\ AllCycles

(***************************************************************************)
(* It holds of every state that can be reached.                            *)
(***************************************************************************)
THEOREM TracesInvariant == Spec => []TInv
<1>1. Init => TInv
  BY InitStreams, InitIds, InitCounted, InitLogs, InitCycles DEF TInv
<1>2. TInv /\ [Next]_vars => TInv'
  BY NextStreams, NextIds, NextCounted, NextLogs, NextCycles DEF TInv
<1> QED
  BY <1>1, <1>2, PTL DEF Spec

(***************************************************************************)
(* An id leads back to its block.                                          *)
(***************************************************************************)
LEMMA BlockOfId ==
  ASSUME IdsUnique, NEW b \in Known
  PROVE  BlockOf(block_map[b]) = b
<1>1. \A c \in Known : block_map[c] = block_map[b] => c = b
  BY DEF IdsUnique
<1> QED
  BY <1>1 DEF BlockOf

(***************************************************************************)
(* What a thread executed and has written down.                            *)
(***************************************************************************)
WrittenDown(t) == IF pc[t] = "counted" THEN Front(ran[t]) ELSE ran[t]

(***************************************************************************)
(* The ids in a file, read as blocks, are what its thread executed.        *)
(***************************************************************************)
LEMMA DecodedIsExecution ==
  ASSUME TInv, NEW t \in Private
  PROVE  Decoded(file[t].text) = WrittenDown(t)
<1> DEFINE s == WrittenDown(t)
           ids == IdsIn(file[t].text)
<1>1. /\ t \in Threads /\ Reliable(t) /\ IdsUnique
      /\ ran[t] \in Seq(Blocks) /\ file[t] \in File
      /\ Log(t) /\ Cycle(t) /\ Counted(t)
  BY DEF TInv, Private, Streams, TypeOK, Ids, AllLogs, AllCycles, Reliable,
         AllCounted
<1>2. /\ s \in Seq(Blocks) /\ \A i \in DOMAIN s : s[i] \in Known
      /\ ids = [i \in DOMAIN s |-> block_map[s[i]]]
  <2>1. CASE pc[t] = "counted"
    <3> DEFINE n == Len(ran[t])
               m == n - 1
    <3>1. n \in Nat /\ n # 0 /\ DOMAIN ran[t] = 1..n
      BY <1>1, <2>1 DEF Log, LastIsCurrent
    <3>2. m \in Nat /\ m <= n
      BY <3>1
    <3>3. /\ s = SubSeq(ran[t], 1, m)
          /\ s = [i \in 1..m |-> ran[t][i]]
          /\ s \in Seq(Blocks) /\ Len(s) = m /\ DOMAIN s = 1..m
      <4>1. s = SubSeq(ran[t], 1, m)
        BY <2>1, Zenon DEF WrittenDown, Front
      <4> HIDE DEF s
      <4>2. SubSeq(ran[t], 1, m) = [i \in 1..m |-> ran[t][i]]
        BY <1>1, <3>1, <3>2
      <4>3. \A i \in 1..m : ran[t][i] \in Blocks
        BY <1>1, <3>1, <3>2
      <4> QED
        BY <3>2, <4>1, <4>2, <4>3
    <3>4. ids = Front(ExecutedIds(t))
      BY <1>1, <2>1 DEF Log, IdsRight, Logged
    <3>5. /\ ExecutedIds(t) = [i \in 1..n |-> block_map[ran[t][i]]]
          /\ \A i \in 1..n : block_map[ran[t][i]] \in Nat
      BY <1>1, <3>1 DEF ExecutedIds, Log, RanKnown, TInv, Streams, TypeOK, Known
    <3> HIDE DEF s, m, n
    <3>6. ExecutedIds(t) \in Seq(Nat) /\ Len(ExecutedIds(t)) = n
      BY <3>1, <3>5
    <3>7. Front(ExecutedIds(t)) = SubSeq(ExecutedIds(t), 1, m)
      BY <3>6, Zenon DEF Front, m
    <3>8. SubSeq(ExecutedIds(t), 1, m) = [i \in 1..m |-> ExecutedIds(t)[i]]
      BY <3>1, <3>2, <3>6
    <3>9. [i \in 1..m |-> ExecutedIds(t)[i]] = [i \in 1..m |-> block_map[s[i]]]
      BY <3>1, <3>2, <3>3, <3>5
    <3> QED
      BY <1>1, <3>1, <3>2, <3>3, <3>4, <3>7, <3>8, <3>9 DEF Log, RanKnown
  <2>2. CASE pc[t] # "counted" /\ Logged(t)
    <3>1. s = ran[t] /\ ids = ExecutedIds(t)
      BY <1>1, <2>2 DEF WrittenDown, Log, IdsRight
    <3> QED
      BY <1>1, <3>1 DEF ExecutedIds, Log, RanKnown
  <2>3. CASE ~Logged(t)
    <3>1. file[t] = NoFile /\ ran[t] = <<>> /\ pc[t] = "none"
      BY <1>1, <2>3 DEF Logged, Cycle
    <3>2. file[t].text = <<>>
      BY <3>1 DEF NoFile
    <3>3. <<>> \in Seq(Token) /\ NoIds(<<>>)
      BY DEF NoIds
    <3>4. ids = <<>>
      BY <3>2, <3>3, IdsInNone
    <3>5. s = <<>>
      BY <3>1 DEF WrittenDown
    <3> QED
      BY <3>4, <3>5
  <2> QED
    BY <2>1, <2>2, <2>3 DEF Logged
<1> HIDE DEF s, ids
<1>3. \A i \in DOMAIN s : BlockOf(block_map[s[i]]) = s[i]
  BY <1>1, <1>2, BlockOfId
<1>4. DOMAIN ids = DOMAIN s /\ \A i \in DOMAIN s : ids[i] = block_map[s[i]]
  BY <1>2
<1>5. Decoded(file[t].text) = [i \in DOMAIN s |-> BlockOf(ids[i])]
  BY <1>4, Zenon DEF Decoded, ids
<1>6. [i \in DOMAIN s |-> BlockOf(ids[i])] = [i \in DOMAIN s |-> s[i]]
  BY <1>3, <1>4
<1>7. [i \in DOMAIN s |-> s[i]] = s
  BY <1>2
<1> QED
  BY <1>5, <1>6, <1>7 DEF s
(***************************************************************************)
(* What a reader sees of thread t does not change, or changes as said.     *)
(***************************************************************************)
SameLife(t) == pc'[t] = "none" <=> pc[t] = "none"

SameTrace(t) == WrittenDown(t)' = WrittenDown(t)

SameCounts(t) ==
  /\ \A b \in Blocks : Recorded(t)'[b] = Recorded(t)[b]
  /\ globalInstructionCount'[t] = globalInstructionCount[t]

SameReport(t) ==
  file'[t].summary = file[t].summary /\ file'[t].total = file[t].total

SameView(t) == SameLife(t) /\ SameTrace(t) /\ SameCounts(t) /\ SameReport(t)

(***************************************************************************)
(* Thread t leaves alone what a reader sees of it.                         *)
(***************************************************************************)
LEMMA ViewKept ==
  ASSUME NEW t \in Private, SameLife(t), SameReport(t),
         pc'[t] = "counted" <=> pc[t] = "counted",
         current'[t] = current[t], ran'[t] = ran[t],
         \A b \in Blocks : globalBlockCount'[b][t] = globalBlockCount[b][t],
         globalInstructionCount'[t] = globalInstructionCount[t]
  PROVE  SameView(t)
<1>1. SameTrace(t)
  BY DEF SameTrace, WrittenDown
<1>2. SameCounts(t)
  BY DEF SameCounts, Recorded, Executing
<1> QED
  BY <1>1, <1>2 DEF SameView

(***************************************************************************)
(* So it is before a step, and after it.                                   *)
(***************************************************************************)
AllDecoded == \A t \in Private : Decoded(file[t].text) = WrittenDown(t)

LEMMA DecodedAlways == TInv => AllDecoded
  BY DecodedIsExecution DEF AllDecoded

LEMMA DecodedNext == TInv' => AllDecoded'
  BY DecodedAlways, PTL

(***************************************************************************)
(* The views of all threads, as ThreadTraces has them.                     *)
(***************************************************************************)
LEMMA Views ==
  ASSUME TInv, TInv'
  PROVE  /\ Logs = [t \in Private |-> WrittenDown(t)]
         /\ Logs' = [t \in Private |-> WrittenDown(t)']
         /\ Recordings = [t \in Private |-> Recorded(t)]
         /\ Recordings' = [t \in Private |-> Recorded(t)']
         /\ \A t \in Private : /\ Recorded(t) = [b \in Blocks |-> Recorded(t)[b]]
                              /\ Recorded(t)' = [b \in Blocks |-> Recorded(t)'[b]]
<1>1. AllDecoded
  BY DecodedAlways
<1>2. AllDecoded'
  BY DecodedNext
<1>3. Logs = [t \in Private |-> WrittenDown(t)]
  BY <1>1 DEF Logs, AllDecoded
<1>4. Logs' = [t \in Private |-> WrittenDown(t)']
  BY <1>2 DEF Logs, AllDecoded, Private
<1>5. Recordings = [t \in Private |-> Recorded(t)]
      /\ Recordings' = [t \in Private |-> Recorded(t)']
  BY DEF Recordings, Private
<1>6. \A t \in Private : /\ Recorded(t) = [b \in Blocks |-> Recorded(t)[b]]
                         /\ Recorded(t)' = [b \in Blocks |-> Recorded(t)'[b]]
  BY DEF Recorded
<1> QED
  BY <1>3, <1>4, <1>5, <1>6
(***************************************************************************)
(* When no thread's view changes, neither do the traces.                   *)
(***************************************************************************)
LEMMA StutterStep ==
  ASSUME TInv, TInv', \A u \in Private : SameView(u)
  PROVE  UNCHANGED Traces!traceVars
<1>1. LiveThreads' = LiveThreads
  BY DEF LiveThreads, Private, SameView, SameLife
<1>2. Logs' = Logs
  BY Views DEF SameView, SameTrace
<1>3. Recordings' = Recordings
  BY Views DEF SameView, SameCounts
<1>4. Totals' = Totals
  BY DEF Totals, Private, SameView, SameCounts
<1>5. Reports' = Reports
  BY DEF Reports, Private, SameView, SameReport
<1> QED
  BY <1>1, <1>2, <1>3, <1>4, <1>5 DEF Traces!traceVars

(***************************************************************************)
(* A thread that starts.                                                   *)
(***************************************************************************)
LEMMA StartStep ==
  ASSUME TInv, TInv', NEW t \in Private,
         \A u \in Private \ {t} : SameView(u),
         pc[t] = "none", pc'[t] # "none", WrittenDown(t)' = <<>>,
         SameCounts(t),
         file'[t].summary = None, file'[t].total = None
  PROVE  Traces!Start(t)
<1>1. t \notin LiveThreads /\ LiveThreads' = LiveThreads \cup {t}
  BY DEF LiveThreads, Private, SameView, SameLife
<1>2. Logs' = [Logs EXCEPT ![t] = <<>>]
  BY Views DEF SameView, SameTrace
<1>3. Recordings' = Recordings
  BY Views DEF SameView, SameCounts
<1>4. Totals' = Totals
  BY DEF Totals, Private, SameView, SameCounts
<1>5. Reports' = [Reports EXCEPT ![t] = [summary |-> None, total |-> None]]
  BY DEF Reports, Private, SameView, SameReport
<1>6. Traces!NoReport = [summary |-> None, total |-> None]
  BY DEF Traces!NoReport, Traces!Zero, None
<1> QED
  BY <1>1, <1>2, <1>3, <1>4, <1>5, <1>6 DEF Traces!Start

(***************************************************************************)
(* A thread that writes down a block it has counted.                       *)
(***************************************************************************)
LEMMA RecordStep ==
  ASSUME TInv, TInv', NEW t \in Private, NEW b \in Blocks,
         \A u \in Private \ {t} : SameView(u),
         pc[t] # "none", pc'[t] # "none",
         WrittenDown(t)' = Append(WrittenDown(t), b),
         Recorded(t)' = [Recorded(t) EXCEPT ![b] = @ + 1],
         globalInstructionCount'[t] = globalInstructionCount[t],
         SameReport(t)
  PROVE  Traces!Record(t, b)
<1>1. t \in LiveThreads /\ LiveThreads' = LiveThreads
  BY DEF LiveThreads, Private, SameView, SameLife
<1>2. Logs' = [Logs EXCEPT ![t] = Append(Logs[t], b)]
  BY Views DEF SameView, SameTrace
<1>3. Recordings' = [Recordings EXCEPT ![t] = [Recordings[t] EXCEPT ![b] = @ + 1]]
  BY Views DEF SameView, SameCounts
<1>4. Totals' = Totals
  BY DEF Totals, Private, SameView, SameCounts
<1>5. Reports' = Reports
  BY DEF Reports, Private, SameView, SameReport
<1> QED
  BY <1>1, <1>2, <1>3, <1>4, <1>5 DEF Traces!Record

(***************************************************************************)
(* A thread that ends.                                                     *)
(***************************************************************************)
LEMMA EndStep ==
  ASSUME TInv, TInv', NEW t \in Private,
         \A u \in Private \ {t} : SameView(u),
         pc[t] # "none", pc'[t] = "none", SameTrace(t),
         \A b \in Blocks : Recorded(t)'[b] = Recorded(t)[b],
         globalInstructionCount'[t] =
           [b \in Blocks |-> globalInstructionCount[t][b] + Recorded(t)[b]],
         file'[t].summary = Recorded(t),
         file'[t].total = globalInstructionCount'[t]
  PROVE  Traces!End(t)
<1> DEFINE sum == [b \in Blocks |-> Totals[t][b] + Recordings[t][b]]
<1>1. t \in LiveThreads /\ LiveThreads' = LiveThreads \ {t}
  BY DEF LiveThreads, Private, SameView, SameLife
<1>2. Logs' = Logs
  BY Views DEF SameView, SameTrace
<1>3. Recordings' = Recordings /\ Recordings[t] = Recorded(t)
  BY Views DEF SameView, SameCounts
<1>4. Totals[t] = globalInstructionCount[t]
  BY DEF Totals
<1>5. sum = globalInstructionCount'[t]
  BY <1>3, <1>4
<1> HIDE DEF sum
<1>6. Totals' = [Totals EXCEPT ![t] = sum]
  BY <1>5 DEF Totals, Private, SameView, SameCounts
<1>7. Reports' = [Reports EXCEPT ![t] = [summary |-> Recordings[t],
                                        total |-> sum]]
  BY <1>3, <1>5 DEF Reports, Private, SameView, SameReport
<1> QED
  BY <1>1, <1>2, <1>3, <1>6, <1>7 DEF Traces!End, sum
(***************************************************************************)
(* ThreadStart opens a file with nothing in it.                            *)
(***************************************************************************)
LEMMA StartTraces ==
  ASSUME TInv, TInv', NEW t \in Private, ThreadStart(t),
         \A u \in Private \ {t} : SameView(u)
  PROVE  Traces!Start(t)
<1>1. /\ t \in Threads /\ pc \in [Threads -> Places]
      /\ file \in [Threads -> File] /\ ran \in [Threads -> Seq(Blocks)]
      /\ ~file[t].ended \/ ~file[t].open
      /\ Cycle(t)
  BY DEF TInv, Streams, TypeOK, Private, EndedIsClosed, AllCycles
<1>2. /\ pc[t] = "none" /\ pc'[t] = "run" /\ ran'[t] = <<>>
      /\ file'[t] = OpenIfClosed(file[t])
      /\ UNCHANGED <<globalBlockCount, globalInstructionCount>>
  BY <1>1 DEF ThreadStart, counters
<1>3. ~file[t].open
  BY <1>1, <1>2 DEF Cycle, NoFile
<1>4. file'[t].summary = None /\ file'[t].total = None
  BY <1>2, <1>3 DEF OpenIfClosed, NewFile
<1>5. WrittenDown(t)' = <<>>
  BY <1>2 DEF WrittenDown
<1>6. SameCounts(t)
  BY <1>2 DEF SameCounts, Recorded, Executing
<1> QED
  BY <1>2, <1>4, <1>5, <1>6, StartStep

(***************************************************************************)
(* A sequence is its front with its last element appended.                 *)
(***************************************************************************)
LEMMA LastAppended ==
  ASSUME NEW S, NEW s \in Seq(S), Len(s) # 0
  PROVE  Append(Front(s), s[Len(s)]) = s
<1> DEFINE n == Len(s)
           m == n - 1
           f == SubSeq(s, 1, m)
<1>1. n \in Nat /\ n \in 1..n /\ m \in Nat /\ m <= n /\ m + 1 = n
  OBVIOUS
<1>2. /\ f = [i \in 1..m |-> s[i]]
      /\ \A i \in 1..m : i \in 1..n
  BY <1>1
<1>3. f \in Seq(S) /\ Len(f) = m /\ \A i \in 1..m : f[i] = s[i]
  BY <1>1, <1>2
<1>4. Front(s) = f
  BY Zenon DEF Front
<1>5. s[n] \in S
  BY <1>1
<1> DEFINE r == Append(f, s[n])
<1> HIDE DEF f
<1>6. r \in Seq(S) /\ Len(r) = m + 1
  BY <1>3, <1>5
<1>7. \A i \in 1..n : r[i] = s[i]
  <2> HIDE DEF m
  <2>1. r[m + 1] = s[n] /\ \A i \in 1..m : r[i] = f[i]
    BY <1>1, <1>3, <1>5
  <2>2. \A i \in 1..n : i \in 1..m \/ i = m + 1
    BY <1>1
  <2> HIDE DEF r
  <2> QED
    BY <1>1, <1>3, <2>1, <2>2
<1> HIDE DEF r
<1>8. r = s
  BY <1>1, <1>6, <1>7, SeqEqual
<1> QED
  BY <1>4, <1>8 DEF r

(***************************************************************************)
(* WriteId writes down the block that Execute counted: the end of its      *)
(* line is yet to come, and no other thread can tell.                      *)
(***************************************************************************)
LEMMA WriteIdTraces ==
  ASSUME TInv, TInv', NEW t \in Private, WriteId(t),
         \A u \in Private \ {t} : SameView(u)
  PROVE  Traces!Record(t, current[t])
<1> DEFINE b == current[t]
           s == ran[t]
<1>1. /\ t \in Threads /\ t # 0 /\ pc \in [Threads -> Places]
      /\ file \in [Threads -> File] /\ ran[t] \in Seq(Blocks)
      /\ globalBlockCount \in [Blocks -> [Threads -> Nat]]
      /\ CountedIsKnown /\ Log(t)
  BY DEF TInv, Streams, TypeOK, Private, AllLogs
<1>2. /\ pc[t] = "counted" /\ pc'[t] = "written"
      /\ UNCHANGED <<current, ran, globalBlockCount, globalInstructionCount>>
  BY <1>1 DEF WriteId, counters, history
<1>3. b \in Blocks
  BY <1>1, <1>2 DEF CountedIsKnown, Known
<1>4. WrittenDown(t)' = Append(WrittenDown(t), b)
  <2>1. s \in Seq(Blocks) /\ Len(s) # 0 /\ s[Len(s)] = b
    BY <1>1, <1>2 DEF Log, LastIsCurrent
  <2>2. WrittenDown(t)' = s /\ WrittenDown(t) = Front(s)
    BY <1>2 DEF WrittenDown
  <2> HIDE DEF s
  <2> QED
    BY <2>1, <2>2, LastAppended
<1>5. Recorded(t)' = [Recorded(t) EXCEPT ![b] = @ + 1]
  <2>1. \A c \in Blocks : Executing(t, c) = IF c = b THEN 1 ELSE 0
    BY <1>2 DEF Executing
  <2>2. \A c \in Blocks : Executing(t, c)' = 0
    BY <1>2 DEF Executing
  <2>3. \A c \in Blocks : globalBlockCount[c][t] \in Nat
    BY <1>1
  <2>4. \A c \in Blocks : globalBlockCount[c][t] - 0
                          = globalBlockCount[c][t] - Executing(t, c)
                              + (IF c = b THEN 1 ELSE 0)
    BY <2>1, <2>3
  <2>5. /\ Recorded(t) = [c \in Blocks |-> globalBlockCount[c][t] - Executing(t, c)]
        /\ Recorded(t)' = [c \in Blocks |-> globalBlockCount[c][t] - 0]
    BY <1>2, <2>2 DEF Recorded
  <2>6. \A c \in Blocks : globalBlockCount[c][t] - Executing(t, c) \in Int
    BY <2>1, <2>3
  <2> HIDE DEF b
  <2> QED
    BY <1>3, <2>4, <2>5, <2>6
<1>6. SameReport(t)
  <2>1. \/ file'[t] = Written(file[t], <<block_map[b]>>)
        \/ file'[t] = file[t]
    BY <1>1 DEF WriteId, Write
  <2> QED
    BY <1>1, <2>1 DEF SameReport, Written, File
<1> QED
  BY <1>2, <1>3, <1>4, <1>5, <1>6, RecordStep

(***************************************************************************)
(* ThreadFini reports what was recorded, since it does not interrupt       *)
(* CountBlock.                                                             *)
(***************************************************************************)
LEMMA FiniTraces ==
  ASSUME TInv, TInv', NEW t \in Private, ThreadFini(t),
         \A u \in Private \ {t} : SameView(u)
  PROVE  Traces!End(t)
<1> DEFINE sum == [b \in Blocks |->
                     globalInstructionCount[t][b] + globalBlockCount[b][t]]
<1>1. /\ t \in Threads /\ pc \in [Threads -> Places]
      /\ file \in [Threads -> File]
      /\ globalInstructionCount \in [Threads -> [Blocks -> Nat]]
      /\ \A b \in Blocks : globalBlockCount[b][t] \in Nat
  BY DEF TInv, Streams, TypeOK, Private
<1>2. /\ pc[t] = "run" /\ pc'[t] = "none"
      /\ globalInstructionCount'[t] = sum
      /\ file'[t] = Closed(file[t], CountsOf(t), sum)
      /\ UNCHANGED <<current, ran, globalBlockCount>>
  BY <1>1 DEF ThreadFini, history
<1> HIDE DEF sum
<1>3. /\ file'[t].summary = CountsOf(t) /\ file'[t].total = sum
  BY <1>2 DEF Closed
<1>4. \A b \in Blocks : Executing(t, b) = 0 /\ Executing(t, b)' = 0
  BY <1>2 DEF Executing
<1>5. Recorded(t) = CountsOf(t) /\ Recorded(t)' = Recorded(t)
  BY <1>1, <1>2, <1>4 DEF Recorded, CountsOf
<1>6. sum = [b \in Blocks |-> globalInstructionCount[t][b] + Recorded(t)[b]]
  BY <1>5 DEF sum, CountsOf
<1>7. SameTrace(t)
  BY <1>2 DEF SameTrace, WrittenDown
<1> QED
  BY <1>2, <1>3, <1>5, <1>6, <1>7, EndStep

(***************************************************************************)
(* Execute is not seen yet: the block is counted but not written down.     *)
(***************************************************************************)
LEMMA ExecuteUnseen ==
  ASSUME TInv, NEW t \in Private, NEW b \in Blocks, Execute(t, b)
  PROVE  SameView(t)
<1>1. /\ t \in Threads /\ pc \in [Threads -> Places]
      /\ ran \in [Threads -> Seq(Blocks)]
      /\ current \in [Threads -> Blocks \cup {NoBlock}]
      /\ globalBlockCount \in [Blocks -> [Threads -> Nat]]
  BY DEF TInv, Streams, TypeOK, Private
<1>2. /\ pc[t] = "run" /\ pc'[t] = "counted" /\ current'[t] = b
      /\ ran'[t] = Append(ran[t], b)
      /\ globalBlockCount'[b][t] = globalBlockCount[b][t] + 1
      /\ \A c \in Blocks \ {b} : globalBlockCount'[c][t] = globalBlockCount[c][t]
      /\ UNCHANGED <<globalInstructionCount, file>>
  BY <1>1 DEF Execute
<1>3. SameTrace(t)
  <2>1. WrittenDown(t)' = Front(Append(ran[t], b)) /\ WrittenDown(t) = ran[t]
    BY <1>2 DEF WrittenDown
  <2> QED
    BY <1>1, <2>1, FrontOfAppended DEF SameTrace
<1>4. SameCounts(t)
  <2>1. \A c \in Blocks : /\ Executing(t, c) = 0
                          /\ Executing(t, c)' = IF c = b THEN 1 ELSE 0
    BY <1>2 DEF Executing
  <2>2. \A c \in Blocks : globalBlockCount[c][t] \in Nat
    BY <1>1
  <2>3. \A c \in Blocks : globalBlockCount'[c][t] - Executing(t, c)'
                          = globalBlockCount[c][t] - Executing(t, c)
    <3> SUFFICES ASSUME NEW c \in Blocks
                 PROVE  globalBlockCount'[c][t] - Executing(t, c)'
                          = globalBlockCount[c][t] - Executing(t, c)
      OBVIOUS
    <3>1. globalBlockCount[c][t] \in Nat
      BY <2>2
    <3>2. CASE c = b
      <4>1. globalBlockCount'[c][t] = globalBlockCount[c][t] + 1
        BY <1>2, <3>2
      <4>2. Executing(t, c) = 0 /\ Executing(t, c)' = 1
        BY <2>1, <3>2
      <4> QED
        BY <3>1, <4>1, <4>2
    <3>3. CASE c # b
      <4>1. globalBlockCount'[c][t] = globalBlockCount[c][t]
        BY <1>2, <3>3
      <4>2. Executing(t, c) = 0 /\ Executing(t, c)' = 0
        BY <2>1, <3>3
      <4> QED
        BY <4>1, <4>2
    <3> QED
      BY <3>2, <3>3
  <2>4. \A c \in Blocks :
          /\ Recorded(t)[c] = globalBlockCount[c][t] - Executing(t, c)
          /\ Recorded(t)'[c] = globalBlockCount'[c][t] - Executing(t, c)'
    BY DEF Recorded
  <2> QED
    BY <1>2, <2>3, <2>4 DEF SameCounts
<1>5. SameLife(t) /\ SameReport(t)
  BY <1>2 DEF SameLife, SameReport
<1> QED
  BY <1>3, <1>4, <1>5 DEF SameView
(***************************************************************************)
(* Trace sets the counts of new blocks to zero, which they are already.    *)
(***************************************************************************)
LEMMA TraceUnseen ==
  ASSUME TInv, NEW t \in Threads, NEW bbls \in SUBSET Blocks, Trace(t, bbls),
         NEW u \in Private
  PROVE  SameView(u)
<1>1. UNCHANGED <<pc, current, globalInstructionCount, file, ran>>
  BY DEF Trace, history
<1>2. u \in Threads /\ Unmet(u)
  BY DEF TInv, Private, AllCounted, Counted
<1>3. \A b \in Blocks : globalBlockCount'[b][u] = globalBlockCount[b][u]
  <2> SUFFICES ASSUME NEW b \in Blocks
               PROVE  globalBlockCount'[b][u] = globalBlockCount[b][u]
    OBVIOUS
  <2>1. globalBlockCount' = [c \in Blocks |-> IF c \in bbls \ Known
                                              THEN [v \in Threads |-> 0]
                                              ELSE globalBlockCount[c]]
    BY DEF Trace
  <2>2. CASE b \in bbls \ Known
    BY <1>2, <2>1, <2>2 DEF Unmet
  <2>3. CASE b \notin bbls \ Known
    BY <2>1, <2>3
  <2> QED
    BY <2>2, <2>3
<1> QED
  BY <1>1, <1>3, ViewKept DEF SameLife, SameReport

(***************************************************************************)
(* A step of thread t is not seen in any other thread.                     *)
(***************************************************************************)
ThreadStep(t) ==
  \/ ThreadStart(t) \/ ThreadFini(t)
  \/ Image(t) \/ ImageLineEnd(t)
  \/ \E b \in Blocks : Execute(t, b)
  \/ WriteId(t) \/ WriteLineEnd(t)

LEMMA OthersUnseen ==
  ASSUME TInv, NEW t \in Threads, ThreadStep(t), NEW u \in Private, u # t
  PROVE  SameView(u)
<1>1. /\ u \in Threads /\ u # 0
      /\ pc \in [Threads -> Places]
      /\ file \in [Threads -> File]
      /\ ran \in [Threads -> Seq(Blocks)]
      /\ current \in [Threads -> Blocks \cup {NoBlock}]
      /\ globalBlockCount \in [Blocks -> [Threads -> Nat]]
      /\ globalInstructionCount \in [Threads -> [Blocks -> Nat]]
  BY DEF TInv, Streams, TypeOK, Private
<1>2. ASSUME pc'[u] = pc[u], current'[u] = current[u], ran'[u] = ran[u],
             \A b \in Blocks : globalBlockCount'[b][u] = globalBlockCount[b][u],
             globalInstructionCount'[u] = globalInstructionCount[u],
             file'[u] = file[u]
      PROVE  SameView(u)
  BY <1>2, ViewKept DEF SameLife, SameReport
<1> USE <1>1 DEF tool, counters, history
<1>3. CASE ThreadStart(t)
  BY <1>2, <1>3 DEF ThreadStart
<1>4. CASE ThreadFini(t)
  BY <1>2, <1>4 DEF ThreadFini
<1>5. CASE Image(t)
  BY <1>2, <1>5 DEF Image
<1>6. CASE ImageLineEnd(t)
  BY <1>2, <1>6 DEF ImageLineEnd, Write
<1>7. ASSUME NEW b \in Blocks, Execute(t, b) PROVE SameView(u)
  <2>1. \A c \in Blocks : globalBlockCount'[c][u] = globalBlockCount[c][u]
    BY <1>7 DEF Execute
  <2> QED
    BY <1>2, <1>7, <2>1 DEF Execute
<1>8. CASE WriteId(t) \/ WriteLineEnd(t)
  BY <1>2, <1>8 DEF WriteId, WriteLineEnd, Write
<1> QED
  BY <1>3, <1>4, <1>5, <1>6, <1>7, <1>8 DEF ThreadStep

(***************************************************************************)
(* A thread other than 0 is not seen to load an image or to end a line.    *)
(***************************************************************************)
LEMMA OwnUnseen ==
  ASSUME TInv, NEW t \in Private,
         Image(t) \/ ImageLineEnd(t) \/ WriteLineEnd(t)
  PROVE  SameView(t)
<1>1. /\ t \in Threads /\ t # 0
      /\ pc \in [Threads -> Places]
      /\ file \in [Threads -> File]
  BY DEF TInv, Streams, TypeOK, Private
<1>2. /\ UNCHANGED <<current, ran, counters>>
      /\ pc'[t] = "none" <=> pc[t] = "none"
      /\ pc'[t] = "counted" <=> pc[t] = "counted"
  BY <1>1 DEF Image, ImageLineEnd, WriteLineEnd, history
<1>3. file'[t] = file[t] \/ file'[t] = Written(file[t], <<NL>>)
  BY <1>1 DEF Image, ImageLineEnd, WriteLineEnd, Write
<1>4. SameReport(t)
  BY <1>1, <1>3 DEF SameReport, Written, File
<1> QED
  BY <1>2, <1>4, ViewKept DEF SameLife, counters

(***************************************************************************)
(* Every step of the tool is a step of ThreadTraces or is not seen there.  *)
(***************************************************************************)
LEMMA TracesStep ==
  TInv /\ TInv' /\ [Next]_vars => [Traces!TracesNext]_(Traces!traceVars)
<1> SUFFICES ASSUME TInv, TInv', [Next]_vars
             PROVE  Traces!TracesNext \/ UNCHANGED Traces!traceVars
  OBVIOUS
<1>1. ASSUME NEW t \in Threads, ThreadStep(t),
             t \in Private => SameView(t)
      PROVE  UNCHANGED Traces!traceVars
  <2>1. \A u \in Private : SameView(u)
    BY <1>1, OthersUnseen
  <2> QED
    BY <2>1, StutterStep
<1>2. CASE FirstImage \/ ThreadStartAborts \/ ImageAborts \/ UNCHANGED vars
  <2> SUFFICES ASSUME NEW u \in Private PROVE SameView(u)
    BY StutterStep
  <2>1. UNCHANGED <<pc, current, counters, ran>>
    BY <1>2 DEF FirstImage, ThreadStartAborts, ImageAborts, vars, history
  <2>2. file'[u] = file[u]
    <3>1. u \in Threads /\ u # 0 /\ file \in [Threads -> File]
      BY DEF TInv, Streams, TypeOK, Private
    <3> QED
      BY <1>2, <3>1 DEF FirstImage, ThreadStartAborts, ImageAborts, vars
  <2> QED
    BY <2>1, <2>2, ViewKept DEF SameLife, SameReport, counters
<1>3. ASSUME NEW t \in Threads, NEW bbls \in SUBSET Blocks, Trace(t, bbls)
      PROVE  UNCHANGED Traces!traceVars
  BY <1>3, TraceUnseen, StutterStep
<1>4. ASSUME NEW t \in Threads, ThreadStep(t)
      PROVE  Traces!TracesNext \/ UNCHANGED Traces!traceVars
  <2>1. CASE t \notin Private
    BY <1>1, <1>4, <2>1
  <2>2. CASE t \in Private
    <3>1. \A u \in Private \ {t} : SameView(u)
      BY <1>4, OthersUnseen
    <3>2. CASE ThreadStart(t)
      BY <2>2, <3>1, <3>2, StartTraces DEF Traces!TracesNext
    <3>3. CASE ThreadFini(t)
      BY <2>2, <3>1, <3>3, FiniTraces DEF Traces!TracesNext
    <3>4. CASE WriteId(t)
      <4>1. current[t] \in Blocks
        BY <2>2, <3>4 DEF WriteId, TInv, Streams, CountedIsKnown, Known, Private
      <4> QED
        BY <2>2, <3>1, <3>4, <4>1, WriteIdTraces DEF Traces!TracesNext
    <3>5. CASE Image(t) \/ ImageLineEnd(t) \/ WriteLineEnd(t)
      BY <1>1, <1>4, <2>2, <3>5, OwnUnseen
    <3>6. CASE \E b \in Blocks : Execute(t, b)
      BY <1>1, <1>4, <2>2, <3>6, ExecuteUnseen
    <3> QED
      BY <1>4, <3>2, <3>3, <3>4, <3>5, <3>6 DEF ThreadStep
  <2> QED
    BY <2>1, <2>2
<1>5. \/ FirstImage \/ ThreadStartAborts \/ ImageAborts \/ UNCHANGED vars
      \/ \E t \in Threads : \E bbls \in SUBSET Blocks : Trace(t, bbls)
      \/ \E t \in Threads : ThreadStep(t)
  BY Zenon DEF Next, ThreadStep
<1> QED
  BY <1>2, <1>3, <1>4, <1>5

(***************************************************************************)
(* No thread has a trace yet.                                              *)
(***************************************************************************)
LEMMA TracesStart == Init => Traces!TracesInit
<1> SUFFICES ASSUME Init PROVE Traces!TracesInit
  OBVIOUS
<1>1. Private \subseteq Threads
  BY DEF Private
<1>2. LiveThreads = {}
  BY <1>1 DEF Init, LiveThreads
<1>3. Logs = [t \in Private |-> <<>>]
  <2>1. IdsIn(<<>>) = <<>>
    <3>1. NoIds(<<>>)
      BY DEF NoIds
    <3>2. <<>> \in Seq(Token)
      OBVIOUS
    <3> QED
      BY <3>1, <3>2, IdsInNone
  <2>2. Decoded(<<>>) = <<>>
    BY <2>1 DEF Decoded
  <2>3. \A t \in Private : file[t].text = <<>>
    BY <1>1 DEF Init, NoFile
  <2> QED
    BY <2>2, <2>3 DEF Logs
<1>4. Recordings = [t \in Private |-> None]
  <2>1. \A t \in Private, b \in Blocks :
          globalBlockCount[b][t] = 0 /\ Executing(t, b) = 0
    BY <1>1 DEF Init, Executing
  <2>2. \A t \in Private : Recorded(t) = None
    BY <2>1 DEF Recorded, None
  <2> QED
    BY <2>2 DEF Recordings
<1>5. Totals = [t \in Private |-> None]
  BY <1>1 DEF Init, Totals
<1>6. Reports = [t \in Private |-> [summary |-> None, total |-> None]]
  <2>1. \A t \in Private : file[t].summary = None /\ file[t].total = None
    BY <1>1 DEF Init, NoFile
  <2> QED
    BY <2>1 DEF Reports
<1> QED
  BY <1>2, <1>3, <1>4, <1>5, <1>6
  DEF Traces!TracesInit, Traces!NoReport, Traces!Zero, None

(***************************************************************************)
(* The statements of CountBlock take no lock, yet to the reader of a file  *)
(* other than 0 each execution of a block is recorded in one step of its   *)
(* own thread, and what the thread reports at its end is what was recorded *)
(* (bbtrace.cpp:227-231, 311-331, 339-356).                                *)
(***************************************************************************)
THEOREM TracesRefined == Spec => ImplementsThreadTraces
<1>1. Init => Traces!TracesInit
  BY TracesStart
<1>2. TInv /\ TInv' /\ [Next]_vars => [Traces!TracesNext]_(Traces!traceVars)
  BY TracesStep
<1> QED
  BY <1>1, <1>2, TracesInvariant, PTL
  DEF Spec, ImplementsThreadTraces, Traces!TracesSpec
=============================================================================
