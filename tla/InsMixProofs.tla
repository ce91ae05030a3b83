--------------------------- MODULE InsMixProofs ----------------------------
(***************************************************************************)
(* Proofs about InsMix, for any number of threads, blocks and executions.  *)
(*                                                                         *)
(* The counters: however the threads interleave in docount, no block is    *)
(* counted too often, and one that a single thread executes is counted     *)
(* exactly.  Then the laws of sums over finite sets, by induction over the *)
(* subsets.  Then Fini: the profile of a program that ends is the sum of   *)
(* its counters, its sections add up to it, and no profile, in the middle  *)
(* of the run or at its end, is above what was executed.                   *)
(***************************************************************************)
EXTENDS InsMix, FiniteSetTheorems, SequenceTheorems, TLAPS

WF == INSTANCE WellFoundedInduction

(***************************************************************************)
(* What a thread is about to write is not too much, and it is a user of    *)
(* the block; a block with one user is exact, its thread's value included. *)
(***************************************************************************)
PendingBounded ==
  \A t \in Threads : docount[t].block \in DOMAIN block =>
    /\ docount[t].value <= executed[docount[t].block]
    /\ t \in users[docount[t].block]

OneUserExact ==
  \A b \in DOMAIN block : \A t \in Threads :
    users[b] \subseteq {t} =>
      IF docount[t].block = b THEN docount[t].value = executed[b]
                              ELSE counter[b] = executed[b]

Inv ==
  /\ CountersOK
  /\ NeverOvercounts
  /\ PendingBounded
  /\ OneUserExact

counters == <<block, counter, executed, users, enabled, docount>>

(***************************************************************************)
(* Lists of equal length have the same domain, and Append adds one place.  *)
(***************************************************************************)
LEMMA AppendedTo ==
  ASSUME NEW S, NEW s \in Seq(S), NEW e \in S
  PROVE  /\ Append(s, e) \in Seq(S)
         /\ Len(Append(s, e)) = Len(s) + 1
         /\ DOMAIN Append(s, e) = 1..(Len(s) + 1)
         /\ \A i \in DOMAIN s : Append(s, e)[i] = s[i]
         /\ Append(s, e)[Len(s) + 1] = e
         /\ Len(s) \in Nat
         /\ DOMAIN s = 1..Len(s)
OBVIOUS

LEMMA UpdatedAt ==
  ASSUME NEW S, NEW s \in Seq(S), NEW i \in DOMAIN s, NEW e \in S
  PROVE  /\ [s EXCEPT ![i] = e] \in Seq(S)
         /\ Len([s EXCEPT ![i] = e]) = Len(s)
         /\ [s EXCEPT ![i] = e][i] = e
         /\ \A j \in DOMAIN s : j # i => [s EXCEPT ![i] = e][j] = s[j]
OBVIOUS

(***************************************************************************)
(* What CountersOK says of one block.                                      *)
(***************************************************************************)
LEMMA OneBlock ==
  ASSUME CountersOK, NEW b \in DOMAIN block
  PROVE  /\ b \in Nat /\ b # Null
         /\ b \in DOMAIN counter /\ b \in DOMAIN executed /\ b \in DOMAIN users
         /\ counter[b] \in Nat /\ executed[b] \in Nat
         /\ users[b] \subseteq Threads
<1>1. /\ block \in Seq(Code) /\ counter \in Seq(Nat) /\ Len(counter) = Len(block)
      /\ executed \in Seq(Nat) /\ Len(executed) = Len(block)
      /\ users \in Seq(SUBSET Threads) /\ Len(users) = Len(block)
  BY DEF CountersOK
<1>2. /\ DOMAIN block = 1..Len(block) /\ DOMAIN counter = 1..Len(block)
      /\ DOMAIN executed = 1..Len(block) /\ DOMAIN users = 1..Len(block)
  BY <1>1
<1>3. Len(block) \in Nat
  BY <1>1
<1>4. b \in Nat /\ b # Null
  BY <1>2, <1>3 DEF Null
<1>5. counter[b] \in Nat /\ executed[b] \in Nat
  BY <1>1, <1>2
<1>6. users[b] \in SUBSET Threads
  BY <1>1, <1>2
<1> QED
  BY <1>2, <1>4, <1>5, <1>6

LEMMA InitInv ==
  ASSUME Init
  PROVE  Inv
<1>1. /\ block = <<>> /\ counter = <<>> /\ executed = <<>> /\ users = <<>>
      /\ enabled \in {0, 1}
      /\ docount = [t \in Threads |-> Idle]
  BY DEF Init
<1>2. DOMAIN block = {}
  BY <1>1
<1>3. Idle \in [block : Nat, value : Nat]
  BY DEF Idle, Null
<1>4. docount \in [Threads -> [block : Nat, value : Nat]]
  BY <1>1, <1>3
<1>5. /\ block \in Seq(Code) /\ counter \in Seq(Nat) /\ Len(counter) = Len(block)
      /\ executed \in Seq(Nat) /\ Len(executed) = Len(block)
      /\ users \in Seq(SUBSET Threads) /\ Len(users) = Len(block)
  BY <1>1
<1>6. CountersOK
  BY <1>1, <1>4, <1>5 DEF CountersOK
<1> QED
  BY <1>2, <1>6 DEF Inv, NeverOvercounts, PendingBounded, OneUserExact

(***************************************************************************)
(* A new block: nothing has executed it, and no thread is about to write.  *)
(***************************************************************************)
LEMMA TraceInv ==
  ASSUME Inv, NEW c \in Code, Trace(c)
  PROVE  Inv'
<1> DEFINE n == Len(block) + 1
<1>1. /\ block \in Seq(Code) /\ counter \in Seq(Nat) /\ Len(counter) = Len(block)
      /\ executed \in Seq(Nat) /\ Len(executed) = Len(block)
      /\ users \in Seq(SUBSET Threads) /\ Len(users) = Len(block)
      /\ docount \in [Threads -> [block : Nat, value : Nat]]
      /\ \A t \in Threads : docount[t] # Idle => docount[t].block \in DOMAIN block
      /\ enabled \in {0, 1}
  BY DEF Inv, CountersOK
<1>2. /\ block' = Append(block, c) /\ counter' = Append(counter, 0)
      /\ executed' = Append(executed, 0) /\ users' = Append(users, {})
      /\ enabled' = enabled /\ docount' = docount
  BY DEF Trace
<1>3. /\ block' \in Seq(Code) /\ Len(block') = n
      /\ DOMAIN block = 1..Len(block) /\ DOMAIN block' = 1..n /\ Len(block) \in Nat
  BY <1>1, <1>2, AppendedTo
<1>4. /\ counter' \in Seq(Nat) /\ Len(counter') = n /\ counter'[n] = 0
      /\ \A b \in DOMAIN block : counter'[b] = counter[b]
  <2>1. /\ Append(counter, 0) \in Seq(Nat) /\ Len(Append(counter, 0)) = Len(counter) + 1
        /\ \A i \in DOMAIN counter : Append(counter, 0)[i] = counter[i]
        /\ Append(counter, 0)[Len(counter) + 1] = 0
        /\ DOMAIN counter = 1..Len(counter)
    BY <1>1, AppendedTo
  <2>2. DOMAIN counter = DOMAIN block /\ Len(counter) + 1 = n
    BY <2>1, <1>1, <1>3
  <2> QED
    BY <2>1, <2>2, <1>2
<1>5. /\ executed' \in Seq(Nat) /\ Len(executed') = n /\ executed'[n] = 0
      /\ \A b \in DOMAIN block : executed'[b] = executed[b]
  <2>1. /\ Append(executed, 0) \in Seq(Nat) /\ Len(Append(executed, 0)) = Len(executed) + 1
        /\ \A i \in DOMAIN executed : Append(executed, 0)[i] = executed[i]
        /\ Append(executed, 0)[Len(executed) + 1] = 0
        /\ DOMAIN executed = 1..Len(executed)
    BY <1>1, AppendedTo
  <2>2. DOMAIN executed = DOMAIN block /\ Len(executed) + 1 = n
    BY <2>1, <1>1, <1>3
  <2> QED
    BY <2>1, <2>2, <1>2
<1>6. {} \in SUBSET Threads
  OBVIOUS
<1>7. /\ users' \in Seq(SUBSET Threads) /\ Len(users') = n /\ users'[n] = {}
      /\ \A b \in DOMAIN block : users'[b] = users[b]
  <2>1. /\ Append(users, {}) \in Seq(SUBSET Threads)
        /\ Len(Append(users, {})) = Len(users) + 1
        /\ \A i \in DOMAIN users : Append(users, {})[i] = users[i]
        /\ Append(users, {})[Len(users) + 1] = {}
        /\ DOMAIN users = 1..Len(users)
    BY <1>1, <1>6, AppendedTo
  <2>2. DOMAIN users = DOMAIN block /\ Len(users) + 1 = n
    BY <2>1, <1>1, <1>3
  <2> QED
    BY <2>1, <2>2, <1>2
<1>8. \A b \in DOMAIN block' : b \in DOMAIN block \/ b = n
  BY <1>3
<1>9. /\ DOMAIN block \subseteq DOMAIN block'
      /\ n \in DOMAIN block' /\ n \notin DOMAIN block /\ n # Null
  BY <1>3 DEF Null
<1> HIDE DEF n
<1>10. \A t \in Threads : docount'[t].block \in DOMAIN block' =>
         docount[t].block \in DOMAIN block
  <2> SUFFICES ASSUME NEW t \in Threads, docount[t].block \in DOMAIN block',
                      docount[t].block \notin DOMAIN block
               PROVE  FALSE
    BY <1>2
  <2>1. docount[t] = Idle
    BY <1>1
  <2>2. docount[t].block = Null
    BY <2>1 DEF Idle
  <2> QED
    BY <2>2, <1>3, <1>8, <1>9 DEF Null
<1>11. CountersOK'
  BY <1>1, <1>2, <1>3, <1>4, <1>5, <1>7, <1>9 DEF CountersOK, Idle
<1>12. NeverOvercounts'
  BY <1>4, <1>5, <1>8 DEF Inv, NeverOvercounts
<1>13. PendingBounded'
  BY <1>2, <1>5, <1>7, <1>10 DEF Inv, PendingBounded
<1>14. OneUserExact'
  <2> SUFFICES ASSUME NEW b \in DOMAIN block', NEW t \in Threads,
                      users'[b] \subseteq {t}
               PROVE  IF docount'[t].block = b THEN docount'[t].value = executed'[b]
                                               ELSE counter'[b] = executed'[b]
    BY DEF OneUserExact
  <2>1. CASE b \in DOMAIN block
    BY <2>1, <1>2, <1>4, <1>5, <1>7 DEF Inv, OneUserExact
  <2>2. CASE b = n
    <3>1. docount'[t].block # b
      BY <2>2, <1>2, <1>9, <1>10
    <3> QED
      BY <3>1, <2>2, <1>4, <1>5
  <2> QED
    BY <2>1, <2>2, <1>8
<1> QED
  BY <1>11, <1>12, <1>13, <1>14 DEF Inv

(***************************************************************************)
(* A thread reads a counter: the value it will write is at most one more,  *)
(* and the execution is counted in the history.                            *)
(***************************************************************************)
LEMMA ReadInv ==
  ASSUME Inv, NEW t \in Threads, NEW b \in DOMAIN block, Read(t, b)
  PROVE  Inv'
<1> DEFINE w == [block |-> b, value |-> counter[b] + enabled]
<1> DEFINE e == executed[b] + enabled
<1>1. /\ CountersOK /\ NeverOvercounts /\ PendingBounded /\ OneUserExact
  BY DEF Inv
<1>2. /\ b \in Nat /\ b # Null /\ b \in DOMAIN executed /\ b \in DOMAIN users
      /\ counter[b] \in Nat /\ executed[b] \in Nat /\ users[b] \subseteq Threads
      /\ enabled \in {0, 1}
  BY <1>1, OneBlock DEF CountersOK
<1>3. /\ docount[t] = Idle
      /\ docount' = [docount EXCEPT ![t] = w]
      /\ executed' = [executed EXCEPT ![b] = e]
      /\ users' = [users EXCEPT ![b] = users[b] \cup {t}]
      /\ block' = block /\ counter' = counter /\ enabled' = enabled
  BY DEF Read, Runs, NewValue, instrumented
<1>4. /\ docount \in [Threads -> [block : Nat, value : Nat]]
      /\ executed \in Seq(Nat) /\ users \in Seq(SUBSET Threads)
      /\ Len(executed) = Len(block) /\ Len(users) = Len(block)
  BY <1>1 DEF CountersOK
<1>5. e \in Nat /\ executed[b] <= e /\ counter[b] + enabled \in Nat
  BY <1>2
<1>6. counter[b] + enabled <= e
  BY <1>1, <1>2 DEF NeverOvercounts
<1>7. w \in [block : Nat, value : Nat] /\ w.block = b /\ w.value = counter[b] + enabled
  BY <1>2, <1>5
<1>8. /\ docount' \in [Threads -> [block : Nat, value : Nat]]
      /\ docount'[t] = w /\ \A u \in Threads : u # t => docount'[u] = docount[u]
  BY <1>3, <1>4, <1>7
<1> HIDE DEF w, e
<1>9. /\ executed' \in Seq(Nat) /\ Len(executed') = Len(block) /\ executed'[b] = e
      /\ \A d \in DOMAIN executed : d # b => executed'[d] = executed[d]
  BY <1>2, <1>3, <1>4, <1>5, UpdatedAt
<1>10. users[b] \cup {t} \in SUBSET Threads
  BY <1>2
<1>11. /\ users' \in Seq(SUBSET Threads) /\ Len(users') = Len(block)
       /\ users'[b] = users[b] \cup {t}
       /\ \A d \in DOMAIN users : d # b => users'[d] = users[d]
  BY <1>2, <1>3, <1>4, <1>10, UpdatedAt
<1>12. \A d \in DOMAIN block :
         /\ d \in DOMAIN executed /\ d \in DOMAIN users
         /\ counter[d] \in Nat /\ executed[d] \in Nat
  BY <1>1, OneBlock
<1>13. \A d \in DOMAIN block : executed[d] <= executed'[d] /\ executed'[d] \in Nat
  <2> SUFFICES ASSUME NEW d \in DOMAIN block
               PROVE  executed[d] <= executed'[d] /\ executed'[d] \in Nat
    OBVIOUS
  <2>1. CASE d = b
    BY <2>1, <1>5, <1>9
  <2>2. CASE d # b
    BY <2>2, <1>9, <1>12
  <2> QED
    BY <2>1, <2>2
<1>14. CountersOK'
  <2>1. \A u \in Threads : docount'[u] # Idle => docount'[u].block \in DOMAIN block
    BY <1>1, <1>7, <1>8 DEF CountersOK
  <2>2. /\ block' \in Seq(Code) /\ counter' \in Seq(Nat) /\ Len(counter') = Len(block)
        /\ enabled' \in {0, 1}
    BY <1>1, <1>3 DEF CountersOK
  <2>3. Idle' = Idle
    BY DEF Idle, Null
  <2> QED
    BY <2>1, <2>2, <2>3, <1>3, <1>8, <1>9, <1>11 DEF CountersOK
<1>15. NeverOvercounts'
  <2> SUFFICES ASSUME NEW d \in DOMAIN block
               PROVE  counter[d] <= executed'[d]
    BY <1>3 DEF NeverOvercounts
  <2>1. counter[d] <= executed[d]
    BY <1>1 DEF NeverOvercounts
  <2> QED
    BY <2>1, <1>12, <1>13
<1>16. PendingBounded'
  <2> SUFFICES ASSUME NEW u \in Threads, docount'[u].block \in DOMAIN block
               PROVE  /\ docount'[u].value <= executed'[docount'[u].block]
                      /\ u \in users'[docount'[u].block]
    BY <1>3 DEF PendingBounded
  <2>1. CASE u = t
    BY <2>1, <1>6, <1>7, <1>8, <1>9, <1>11
  <2>2. CASE u # t
    <3> DEFINE d == docount[u].block
    <3>1. docount'[u] = docount[u] /\ d \in DOMAIN block
      BY <2>2, <1>8
    <3>2. docount[u].value \in Nat
      BY <1>4
    <3>3. docount[u].value <= executed[d] /\ u \in users[d]
      BY <3>1, <1>1 DEF PendingBounded
    <3> HIDE DEF d
    <3>4. docount[u].value <= executed'[d]
      BY <3>1, <3>2, <3>3, <1>12, <1>13
    <3>5. u \in users'[d]
      BY <3>1, <3>3, <1>11, <1>12
    <3> QED
      BY <3>1, <3>4, <3>5 DEF d
  <2> QED
    BY <2>1, <2>2
<1>17. OneUserExact'
  <2> SUFFICES ASSUME NEW d \in DOMAIN block, NEW u \in Threads,
                      users'[d] \subseteq {u}
               PROVE  IF docount'[u].block = d THEN docount'[u].value = executed'[d]
                                               ELSE counter[d] = executed'[d]
    BY <1>3 DEF OneUserExact
  <2>1. CASE d = b
    <3>1. u = t /\ users[b] \subseteq {t}
      BY <2>1, <1>11
    <3>2. docount[t].block # b
      BY <1>2, <1>3 DEF Idle
    <3>3. counter[b] = executed[b]
      BY <3>1, <3>2, <1>1 DEF OneUserExact
    <3>4. counter[b] + enabled = e
      BY <3>3 DEF e
    <3> QED
      BY <2>1, <3>1, <3>4, <1>7, <1>8, <1>9
  <2>2. CASE d # b
    <3>1. users[d] \subseteq {u} /\ executed'[d] = executed[d]
      BY <2>2, <1>9, <1>11, <1>12
    <3>2. IF docount[u].block = d THEN docount[u].value = executed[d]
                                  ELSE counter[d] = executed[d]
      BY <3>1, <1>1 DEF OneUserExact
    <3>3. CASE u = t
      <4>1. docount[u].block # d /\ docount'[u].block # d
        <5>1. d # Null
          BY <1>1, OneBlock
        <5> QED
          BY <5>1, <3>3, <2>2, <1>3, <1>7, <1>8 DEF Idle
      <4> QED
        BY <4>1, <3>1, <3>2
    <3>4. CASE u # t
      BY <3>4, <3>1, <3>2, <1>8
    <3> QED
      BY <3>3, <3>4
  <2> QED
    BY <2>1, <2>2
<1> QED
  BY <1>14, <1>15, <1>16, <1>17 DEF Inv

(***************************************************************************)
(* A thread writes: what it writes is bounded, and if another thread could *)
(* disturb the counter, the block has two users.                           *)
(***************************************************************************)
LEMMA WriteInv ==
  ASSUME Inv, NEW t \in Threads, Write(t)
  PROVE  Inv'
<1> DEFINE b == docount[t].block
<1> DEFINE v == docount[t].value
<1>1. /\ CountersOK /\ NeverOvercounts /\ PendingBounded /\ OneUserExact
  BY DEF Inv
<1>2. /\ docount[t] # Idle
      /\ docount' = [docount EXCEPT ![t] = Idle]
      /\ counter' = [counter EXCEPT ![b] = v]
      /\ block' = block /\ executed' = executed /\ users' = users /\ enabled' = enabled
  BY DEF Write, history
<1>3. /\ docount \in [Threads -> [block : Nat, value : Nat]]
      /\ counter \in Seq(Nat) /\ Len(counter) = Len(block)
      /\ b \in DOMAIN block
  BY <1>1, <1>2 DEF CountersOK
<1>4. v \in Nat
  BY <1>3
<1>5. v <= executed[b] /\ t \in users[b]
  BY <1>1, <1>3 DEF PendingBounded
<1>6. Idle \in [block : Nat, value : Nat] /\ Idle.block = Null
  BY DEF Idle, Null
<1>7. /\ docount' \in [Threads -> [block : Nat, value : Nat]]
      /\ docount'[t] = Idle /\ \A u \in Threads : u # t => docount'[u] = docount[u]
  BY <1>2, <1>3, <1>6
<1>8. b \in DOMAIN counter
  BY <1>1, <1>3, OneBlock
<1> HIDE DEF b, v
<1>9. /\ counter' \in Seq(Nat) /\ Len(counter') = Len(block) /\ counter'[b] = v
      /\ \A d \in DOMAIN counter : d # b => counter'[d] = counter[d]
  BY <1>2, <1>3, <1>4, <1>8, UpdatedAt
<1>10. \A d \in DOMAIN block : d \in DOMAIN counter /\ d # Null
  BY <1>1, OneBlock
<1>11. CountersOK'
  <2>1. \A u \in Threads : docount'[u] # Idle => docount'[u].block \in DOMAIN block
    BY <1>1, <1>7 DEF CountersOK
  <2>2. /\ block' \in Seq(Code) /\ executed' \in Seq(Nat) /\ Len(executed') = Len(block)
        /\ users' \in Seq(SUBSET Threads) /\ Len(users') = Len(block)
        /\ enabled' \in {0, 1}
    BY <1>1, <1>2 DEF CountersOK
  <2>3. Idle' = Idle
    BY DEF Idle, Null
  <2> QED
    BY <2>1, <2>2, <2>3, <1>2, <1>7, <1>9 DEF CountersOK
<1>12. NeverOvercounts'
  <2> SUFFICES ASSUME NEW d \in DOMAIN block
               PROVE  counter'[d] <= executed[d]
    BY <1>2 DEF NeverOvercounts
  <2>1. CASE d = b
    BY <2>1, <1>5, <1>9
  <2>2. CASE d # b
    BY <2>2, <1>1, <1>9, <1>10 DEF NeverOvercounts
  <2> QED
    BY <2>1, <2>2
<1>13. PendingBounded'
  <2> SUFFICES ASSUME NEW u \in Threads, docount'[u].block \in DOMAIN block
               PROVE  /\ docount'[u].value <= executed[docount'[u].block]
                      /\ u \in users[docount'[u].block]
    BY <1>2 DEF PendingBounded
  <2>1. u # t
    BY <1>6, <1>7, <1>10
  <2> QED
    BY <2>1, <1>1, <1>7 DEF PendingBounded
<1>14. OneUserExact'
  <2> SUFFICES ASSUME NEW d \in DOMAIN block, NEW u \in Threads, users[d] \subseteq {u}
               PROVE  IF docount'[u].block = d THEN docount'[u].value = executed[d]
                                               ELSE counter'[d] = executed[d]
    BY <1>2 DEF OneUserExact
  <2>1. IF docount[u].block = d THEN docount[u].value = executed[d]
                                ELSE counter[d] = executed[d]
    BY <1>1 DEF OneUserExact
  <2>2. CASE d = b
    <3>1. u = t
      BY <2>2, <1>5
    <3>2. v = executed[d]
      BY <3>1, <2>1, <2>2 DEF b, v
    <3>3. docount'[u].block # d
      BY <3>1, <1>6, <1>7, <1>10
    <3> QED
      BY <3>2, <3>3, <2>2, <1>9
  <2>3. CASE d # b
    <3>1. counter'[d] = counter[d]
      BY <2>3, <1>9, <1>10
    <3>2. CASE u = t
      <4>1. docount[u].block # d /\ docount'[u].block # d
        BY <3>2, <2>3, <1>6, <1>7, <1>10 DEF b
      <4> QED
        BY <4>1, <3>1, <2>1
    <3>3. CASE u # t
      BY <3>3, <3>1, <2>1, <1>7
    <3> QED
      BY <3>2, <3>3
  <2> QED
    BY <2>2, <2>3
<1> QED
  BY <1>11, <1>12, <1>13, <1>14 DEF Inv

(***************************************************************************)
(* START and STOP change nothing but enabled, every Fini reads only.       *)
(***************************************************************************)
LEMMA HandlerInv ==
  ASSUME Inv, Handler
  PROVE  Inv'
<1>1. /\ block' = block /\ counter' = counter /\ executed' = executed
      /\ users' = users /\ docount' = docount /\ enabled' \in {0, 1}
  BY DEF Handler, Enabled, instrumented, history
<1>2. CountersOK'
  BY <1>1 DEF Inv, CountersOK, Idle, Null
<1>3. NeverOvercounts' /\ PendingBounded' /\ OneUserExact'
  BY <1>1 DEF Inv, NeverOvercounts, PendingBounded, OneUserExact
<1> QED
  BY <1>2, <1>3 DEF Inv

LEMMA UnrelatedInv ==
  ASSUME Inv, UNCHANGED counters
  PROVE  Inv'
<1>1. /\ block' = block /\ counter' = counter /\ executed' = executed
      /\ users' = users /\ docount' = docount /\ enabled' = enabled
  BY DEF counters
<1>2. CountersOK'
  BY <1>1 DEF Inv, CountersOK, Idle, Null
<1>3. NeverOvercounts' /\ PendingBounded' /\ OneUserExact'
  BY <1>1 DEF Inv, NeverOvercounts, PendingBounded, OneUserExact
<1> QED
  BY <1>2, <1>3 DEF Inv

LEMMA NextInv ==
  ASSUME Inv, [Next]_vars
  PROVE  Inv'
<1>1. CASE \E c \in Code : Trace(c)
  BY <1>1, TraceInv
<1>2. CASE Handler
  BY <1>2, HandlerInv
<1>3. CASE \E t \in Threads : \E b \in DOMAIN block : Read(t, b)
  BY <1>3, ReadInv
<1>4. CASE \E t \in Threads : Write(t)
  BY <1>4, WriteInv
<1>5. CASE \E t \in Threads : Syscall(t)
  <2>1. UNCHANGED counters
    BY <1>5 DEF Syscall, counters, history
  <2> QED
    BY <2>1, UnrelatedInv
<1>6. CASE Exit
  <2>1. UNCHANGED counters
    BY <1>6 DEF Exit, counters, history
  <2> QED
    BY <2>1, UnrelatedInv
<1>7. CASE AddBlock \/ AddTotals \/ ListBlocks
  <2>1. UNCHANGED counters
    BY <1>7 DEF AddBlock, AddTotals, ListBlocks, counters, history, instrumented
  <2> QED
    BY <2>1, UnrelatedInv
<1>8. CASE UNCHANGED vars
  <2>1. UNCHANGED counters
    BY <1>8 DEF vars, counters, history, instrumented
  <2> QED
    BY <2>1, UnrelatedInv
<1> QED
  BY <1>1, <1>2, <1>3, <1>4, <1>5, <1>6, <1>7, <1>8 DEF Next

(***************************************************************************)
(* The invariant from which the theorems follow.                           *)
(***************************************************************************)
THEOREM Invariance == Spec => []Inv
<1>1. Init => Inv
  BY InitInv
<1>2. Inv /\ [Next]_vars => Inv'
  BY NextInv
<1> QED
  BY <1>1, <1>2, PTL DEF Spec

(***************************************************************************)
(* The counters, the histories and what threads are about to write are     *)
(* well typed in every reachable state (insmix.cpp:227-313).               *)
(***************************************************************************)
THEOREM CountersTyped == Spec => []CountersOK
<1>1. Inv => CountersOK
  BY DEF Inv
<1> QED
  BY <1>1, Invariance, PTL

(***************************************************************************)
(* No interleaving of docount counts a block more often than it was        *)
(* executed between START and STOP (insmix.cpp:311-314).                   *)
(***************************************************************************)
THEOREM LowerBound == Spec => []NeverOvercounts
<1>1. Inv => NeverOvercounts
  BY DEF Inv
<1> QED
  BY <1>1, Invariance, PTL

(***************************************************************************)
(* The counter of a block that one thread executes is exact, but for what  *)
(* the thread is about to write (insmix.cpp:311-314).                      *)
(***************************************************************************)
THEOREM PrivateExact == Spec => []PrivateBlocksExact
<1>1. Inv => PrivateBlocksExact
  <2> SUFFICES ASSUME Inv, NEW b \in DOMAIN block, NEW t \in Threads,
                      users[b] \subseteq {t}, AboutToWrite(b) = {}
               PROVE  counter[b] = executed[b]
    BY DEF PrivateBlocksExact
  <2>1. docount[t].block # b
    BY DEF AboutToWrite
  <2> QED
    BY <2>1 DEF Inv, OneUserExact
<1> QED
  BY <1>1, Invariance, PTL

(***************************************************************************)
(* Induction over the natural numbers, for a set.                          *)
(***************************************************************************)
LEMMA Least ==
  ASSUME NEW S \in SUBSET Nat, S # {}
  PROVE  \E m \in S : \A k \in S : m <= k
<1> DEFINE R == WF!OpToRel(<, Nat)
<1>1. WF!IsWellFoundedOn(R, Nat)
  BY WF!NatLessThanWellFounded
<1> HIDE DEF R
<1>2. PICK m \in S : \A k \in S : ~ (<<k, m>> \in R)
  BY <1>1, WF!WFMin
<1>3. \A k \in S : ~ (k < m)
  BY <1>2 DEF R, WF!OpToRel
<1> QED
  BY <1>3

LEMMA SetInduction ==
  ASSUME NEW S \in SUBSET Nat, 0 \in S, \A n \in S : n + 1 \in S
  PROVE  S = Nat
<1> SUFFICES ASSUME Nat \ S # {} PROVE FALSE
  OBVIOUS
<1>1. PICK m \in Nat \ S : \A k \in Nat \ S : m <= k
  BY Least
<1>2. m # 0 /\ m - 1 \in Nat
  BY <1>1
<1>3. m - 1 \in S
  BY <1>1, <1>2
<1> QED
  BY <1>1, <1>2, <1>3

-----------------------------------------------------------------------------
(***************************************************************************)
(* Sums of a function over a finite set: the fold of the library is a      *)
(* recursive function on the subsets, which exists and picks any element   *)
(* first.                                                                  *)
(***************************************************************************)
First(s) == CHOOSE x \in s : TRUE

NextSum(f, sum, s) ==
  IF s = {} THEN 0 ELSE f[First(s)] + sum[s \ {First(s)}]

Sums(f, S, sum) == sum = [s \in SUBSET S |-> NextSum(f, sum, s)]

UpToSize(S, n) == {s \in SUBSET S : Cardinality(s) <= n}

SumOn(f, S) == SumFunctionOnSet(f, S)

LEMMA FirstIn ==
  ASSUME NEW s, s # {}
  PROVE  First(s) \in s
BY DEF First

LEMMA Smaller ==
  ASSUME NEW S, IsFiniteSet(S), NEW s \in SUBSET S, NEW x \in s
  PROVE  /\ s \ {x} \in SUBSET S
         /\ Cardinality(s) \in Nat /\ Cardinality(s) # 0
         /\ Cardinality(s \ {x}) = Cardinality(s) - 1
<1>1. IsFiniteSet(s)
  BY FS_Subset
<1>2. Cardinality(s) \in Nat
  BY <1>1, FS_CardinalityType
<1>3. Cardinality(s) # 0
  BY <1>1, FS_EmptySet
<1>4. Cardinality(s \ {x}) = Cardinality(s) - 1
  BY <1>1, FS_RemoveElement
<1> QED
  BY <1>2, <1>3, <1>4

LEMMA SumsExist ==
  ASSUME NEW S, IsFiniteSet(S), NEW f
  PROVE  \E sum : Sums(f, S, sum)
<1> DEFINE Ok(n) == \E g : g = [s \in UpToSize(S, n) |-> NextSum(f, g, s)]
           N == {n \in Nat : Ok(n)}
<1>1. 0 \in N
  <2> DEFINE g == [s \in UpToSize(S, 0) |-> 0]
  <2>1. \A s \in UpToSize(S, 0) : s = {}
    <3> SUFFICES ASSUME NEW s \in UpToSize(S, 0), s # {} PROVE FALSE
      OBVIOUS
    <3>1. s \in SUBSET S /\ Cardinality(s) <= 0
      BY DEF UpToSize
    <3>2. Cardinality(s) \in Nat /\ Cardinality(s) # 0
      <4>1. First(s) \in s
        BY FirstIn
      <4> QED
        BY <3>1, <4>1, Smaller
    <3> QED
      BY <3>1, <3>2
  <2>2. \A s \in UpToSize(S, 0) : NextSum(f, g, s) = 0
    BY <2>1 DEF NextSum
  <2>3. g = [s \in UpToSize(S, 0) |-> NextSum(f, g, s)]
    BY <2>2
  <2> HIDE DEF g
  <2> QED
    BY <2>3
<1>2. ASSUME NEW n \in N PROVE n + 1 \in N
  <2>1. PICK g : g = [s \in UpToSize(S, n) |-> NextSum(f, g, s)]
    OBVIOUS
  <2> DEFINE h == [s \in UpToSize(S, n + 1) |->
                     IF s \in UpToSize(S, n) THEN g[s] ELSE NextSum(f, g, s)]
  <2>2. \A s \in UpToSize(S, n) : s \in UpToSize(S, n + 1) /\ h[s] = g[s]
    <3> SUFFICES ASSUME NEW s \in UpToSize(S, n)
                 PROVE  s \in UpToSize(S, n + 1)
      OBVIOUS
    <3>1. s \in SUBSET S /\ Cardinality(s) <= n
      BY DEF UpToSize
    <3>2. Cardinality(s) \in Nat
      BY <3>1, FS_Subset, FS_CardinalityType
    <3>3. Cardinality(s) <= n + 1
      BY <3>1, <3>2
    <3> QED
      BY <3>1, <3>3 DEF UpToSize
  <2>3. ASSUME NEW s \in UpToSize(S, n + 1) PROVE h[s] = NextSum(f, h, s)
    <3>1. NextSum(f, h, s) = NextSum(f, g, s)
      <4>1. CASE s = {}
        BY <4>1 DEF NextSum
      <4>2. CASE s # {}
        <5>1. First(s) \in s /\ s \in SUBSET S /\ Cardinality(s) <= n + 1
          BY <4>2, FirstIn DEF UpToSize
        <5>2. /\ s \ {First(s)} \in SUBSET S /\ Cardinality(s) \in Nat
              /\ Cardinality(s \ {First(s)}) = Cardinality(s) - 1
          BY <5>1, Smaller
        <5>3. Cardinality(s \ {First(s)}) <= n
          BY <5>1, <5>2
        <5>4. s \ {First(s)} \in UpToSize(S, n)
          BY <5>2, <5>3 DEF UpToSize
        <5>5. h[s \ {First(s)}] = g[s \ {First(s)}]
          BY <2>2, <5>4
        <5> HIDE DEF h
        <5> QED
          BY <5>5 DEF NextSum
      <4> QED
        BY <4>1, <4>2
    <3>2. CASE s \in UpToSize(S, n)
      <4>1. g[s] = NextSum(f, g, s)
        BY <2>1, <3>2, Zenon
      <4> QED
        BY <2>2, <3>1, <3>2, <4>1
    <3>3. CASE s \notin UpToSize(S, n)
      BY <3>1, <3>3
    <3> QED
      BY <3>2, <3>3
  <2>4. h = [s \in UpToSize(S, n + 1) |-> NextSum(f, h, s)]
    BY <2>3, Zenon
  <2> HIDE DEF h
  <2> QED
    BY <2>4
<1> HIDE DEF N
<1>3. N = Nat
  <2>1. N \in SUBSET Nat
    BY DEF N
  <2> QED
    BY <1>1, <1>2, <2>1, SetInduction
<1>4. Cardinality(S) \in Nat
  BY FS_CardinalityType
<1>5. UpToSize(S, Cardinality(S)) = SUBSET S
  BY FS_Subset DEF UpToSize
<1>6. Ok(Cardinality(S))
  BY <1>3, <1>4 DEF N
<1> QED
  BY <1>5, <1>6 DEF Sums

LEMMA SumValue ==
  ASSUME NEW S, IsFiniteSet(S), NEW f
  PROVE  \E sum : Sums(f, S, sum) /\ SumOn(f, S) = sum[S]
<1> DEFINE sum == CHOOSE g : Sums(f, S, g)
<1>1. Sums(f, S, sum)
  BY SumsExist
<1>2. SumOn(f, S) = sum[S]
  BY Zenon DEF SumOn, SumFunctionOnSet, FoldFunctionOnSet, MapThenFoldSet, Sums,
               NextSum, First
<1> HIDE DEF sum
<1> QED
  BY <1>1, <1>2

(***************************************************************************)
(* What holds of all finite subsets, by their size.                        *)
(***************************************************************************)
LEMMA SizeInduction ==
  ASSUME NEW S, IsFiniteSet(S), NEW P \in SUBSET (SUBSET S),
         \A s \in SUBSET S : (\A x \in s : s \ {x} \in P) => s \in P
  PROVE  P = SUBSET S
<1> DEFINE N == {n \in Nat : \A s \in SUBSET S : Cardinality(s) = n => s \in P}
<1>1. 0 \in N
  <2> SUFFICES ASSUME NEW s \in SUBSET S, Cardinality(s) = 0 PROVE s \in P
    OBVIOUS
  <2>1. \A x \in s : FALSE
    BY Smaller
  <2> QED
    BY <2>1
<1>2. ASSUME NEW n \in N PROVE n + 1 \in N
  <2> SUFFICES ASSUME NEW s \in SUBSET S, Cardinality(s) = n + 1 PROVE s \in P
    OBVIOUS
  <2>1. ASSUME NEW x \in s PROVE s \ {x} \in P
    <3>1. s \ {x} \in SUBSET S /\ Cardinality(s \ {x}) = (n + 1) - 1
      BY Smaller
    <3>2. Cardinality(s \ {x}) = n
      BY <3>1
    <3> QED
      BY <3>1, <3>2
  <2> QED
    BY <2>1
<1> HIDE DEF N
<1>3. N = Nat
  <2>1. N \in SUBSET Nat
    BY DEF N
  <2> QED
    BY <1>1, <1>2, <2>1, SetInduction
<1>4. ASSUME NEW s \in SUBSET S PROVE s \in P
  <2>1. Cardinality(s) \in Nat
    BY FS_Subset, FS_CardinalityType
  <2>2. Cardinality(s) \in N
    BY <1>3, <2>1
  <2> QED
    BY <2>2 DEF N
<1> QED
  BY <1>4

LEMMA SumsAlike ==
  ASSUME NEW S, IsFiniteSet(S), NEW T \in SUBSET S, NEW f,
         NEW g, Sums(f, S, g), NEW h, Sums(f, T, h)
  PROVE  g[T] = h[T]
<1>1. \A s \in SUBSET S : g[s] = NextSum(f, g, s)
  BY Zenon DEF Sums
<1>2. \A s \in SUBSET T : h[s] = NextSum(f, h, s)
  BY Zenon DEF Sums
<1>3. IsFiniteSet(T)
  BY FS_Subset
<1> DEFINE P == {s \in SUBSET T : g[s] = h[s]}
<1>4. ASSUME NEW s \in SUBSET T, \A x \in s : s \ {x} \in P PROVE s \in P
  <2>1. g[s] = NextSum(f, g, s) /\ h[s] = NextSum(f, h, s)
    BY <1>1, <1>2
  <2>2. NextSum(f, g, s) = NextSum(f, h, s)
    <3>1. CASE s = {}
      BY <3>1 DEF NextSum
    <3>2. CASE s # {}
      <4>1. g[s \ {First(s)}] = h[s \ {First(s)}]
        BY <1>4, <3>2, FirstIn
      <4> QED
        BY <4>1 DEF NextSum
    <3> QED
      BY <3>1, <3>2
  <2> QED
    BY <2>1, <2>2
<1>5. P \in SUBSET (SUBSET T)
  OBVIOUS
<1> HIDE DEF P
<1>6. P = SUBSET T
  BY <1>3, <1>4, <1>5, SizeInduction
<1>7. T \in P
  BY <1>6
<1> QED
  BY <1>7 DEF P

LEMMA SumEmpty ==
  ASSUME NEW f
  PROVE  SumOn(f, {}) = 0
<1>1. IsFiniteSet({})
  BY FS_EmptySet
<1>2. PICK g : Sums(f, {}, g) /\ SumOn(f, {}) = g[{}]
  BY <1>1, SumValue
<1>3. g[{}] = NextSum(f, g, {})
  BY <1>2, Zenon DEF Sums
<1> QED
  BY <1>2, <1>3 DEF NextSum

LEMMA SumOfFirst ==
  ASSUME NEW S, IsFiniteSet(S), S # {}, NEW f
  PROVE  SumOn(f, S) = f[First(S)] + SumOn(f, S \ {First(S)})
<1> DEFINE T == S \ {First(S)}
<1>1. T \in SUBSET S /\ IsFiniteSet(T)
  BY FS_Subset
<1>2. PICK g : Sums(f, S, g) /\ SumOn(f, S) = g[S]
  BY SumValue
<1>3. PICK h : Sums(f, T, h) /\ SumOn(f, T) = h[T]
  BY <1>1, SumValue
<1> HIDE DEF T
<1>4. g[T] = h[T]
  BY <1>1, <1>2, <1>3, SumsAlike
<1>5. g[S] = NextSum(f, g, S)
  BY <1>2, Zenon DEF Sums
<1>6. g[S] = f[First(S)] + g[T]
  BY <1>5 DEF NextSum, T
<1> QED
  BY <1>2, <1>3, <1>4, <1>6 DEF T

(***************************************************************************)
(* Laws of sums of natural numbers: any element may be taken first, and    *)
(* sums may be split, added, scaled, exchanged and moved to another index. *)
(***************************************************************************)
Numbers(f, S) == \A x \in S : f[x] \in Nat

LEMMA SumIsNumber ==
  ASSUME NEW S, IsFiniteSet(S), NEW f, Numbers(f, S)
  PROVE  \A s \in SUBSET S : SumOn(f, s) \in Nat
<1> DEFINE P == {s \in SUBSET S : SumOn(f, s) \in Nat}
<1>1. ASSUME NEW s \in SUBSET S, \A x \in s : s \ {x} \in P PROVE s \in P
  <2>1. CASE s = {}
    BY <2>1, SumEmpty
  <2>2. CASE s # {}
    <3>1. First(s) \in s /\ IsFiniteSet(s)
      BY <2>2, FirstIn, FS_Subset
    <3>2. SumOn(f, s) = f[First(s)] + SumOn(f, s \ {First(s)})
      BY <2>2, <3>1, SumOfFirst
    <3>3. f[First(s)] \in Nat /\ SumOn(f, s \ {First(s)}) \in Nat
      BY <1>1, <3>1 DEF Numbers
    <3> QED
      BY <3>2, <3>3
  <2> QED
    BY <2>1, <2>2
<1>2. P \in SUBSET (SUBSET S)
  OBVIOUS
<1> HIDE DEF P
<1>3. P = SUBSET S
  BY <1>1, <1>2, SizeInduction
<1> QED
  BY <1>3 DEF P

LEMMA SumRemove ==
  ASSUME NEW S, IsFiniteSet(S), NEW f, Numbers(f, S), NEW y \in S
  PROVE  /\ SumOn(f, S) = f[y] + SumOn(f, S \ {y})
         /\ SumOn(f, S) \in Nat /\ SumOn(f, S \ {y}) \in Nat
<1> DEFINE P == {s \in SUBSET S : \A x \in s : SumOn(f, s) = f[x] + SumOn(f, s \ {x})}
<1>0. \A s \in SUBSET S : SumOn(f, s) \in Nat
  BY SumIsNumber
<1>1. ASSUME NEW s \in SUBSET S, \A x \in s : s \ {x} \in P PROVE s \in P
  <2> SUFFICES ASSUME NEW x \in s PROVE SumOn(f, s) = f[x] + SumOn(f, s \ {x})
    OBVIOUS
  <2> DEFINE c == First(s)
  <2>1. c \in s /\ IsFiniteSet(s)
    BY FirstIn, FS_Subset
  <2>2. SumOn(f, s) = f[c] + SumOn(f, s \ {c})
    BY <2>1, SumOfFirst
  <2>3. CASE x = c
    BY <2>2, <2>3
  <2>4. CASE x # c
    <3> HIDE DEF c
    <3> DEFINE rest == (s \ {c}) \ {x}
    <3>1. SumOn(f, s \ {c}) = f[x] + SumOn(f, rest)
      BY <1>1, <2>1, <2>4
    <3>2. rest = (s \ {x}) \ {c}
      OBVIOUS
    <3>3. SumOn(f, s \ {x}) = f[c] + SumOn(f, rest)
      BY <1>1, <2>1, <2>4, <3>2
    <3>4. rest \in SUBSET S
      OBVIOUS
    <3> HIDE DEF rest
    <3>5. f[x] \in Nat /\ f[c] \in Nat /\ SumOn(f, rest) \in Nat
      BY <1>0, <2>1, <3>4 DEF Numbers
    <3> QED
      BY <2>2, <3>1, <3>3, <3>5
  <2> QED
    BY <2>3, <2>4
<1>2. P \in SUBSET (SUBSET S)
  OBVIOUS
<1> HIDE DEF P
<1>3. P = SUBSET S
  BY <1>1, <1>2, SizeInduction
<1>4. S \in P
  BY <1>3
<1> QED
  BY <1>0, <1>4 DEF P

LEMMA SumAdd ==
  ASSUME NEW S, IsFiniteSet(S), NEW f, Numbers(f, S), NEW y, y \notin S, f[y] \in Nat
  PROVE  /\ SumOn(f, S \cup {y}) = f[y] + SumOn(f, S)
         /\ SumOn(f, S) \in Nat
<1> DEFINE T == S \cup {y}
<1>1. IsFiniteSet(T) /\ Numbers(f, T) /\ y \in T /\ T \ {y} = S
  BY FS_AddElement DEF Numbers
<1> HIDE DEF T
<1>2. SumOn(f, T) = f[y] + SumOn(f, T \ {y}) /\ SumOn(f, T \ {y}) \in Nat
  BY <1>1, SumRemove
<1> QED
  BY <1>1, <1>2 DEF T

(***************************************************************************)
(* What holds of the empty set and is kept when an element is added.       *)
(***************************************************************************)
LEMMA GrowInduction ==
  ASSUME NEW S, IsFiniteSet(S), NEW P \in SUBSET (SUBSET S), {} \in P,
         \A s \in P : \A x \in S \ s : s \cup {x} \in P
  PROVE  S \in P
<1>1. ASSUME NEW s \in SUBSET S, \A x \in s : s \ {x} \in P PROVE s \in P
  <2>1. CASE s = {}
    BY <2>1
  <2>2. CASE s # {}
    <3>1. PICK x \in s : TRUE
      BY <2>2
    <3>2. s \ {x} \in P /\ x \in S \ (s \ {x}) /\ (s \ {x}) \cup {x} = s
      BY <1>1, <3>1
    <3>3. (s \ {x}) \cup {x} \in P
      BY <3>2
    <3> QED
      BY <3>2, <3>3
  <2> QED
    BY <2>1, <2>2
<1>2. P = SUBSET S
  BY <1>1, SizeInduction
<1> QED
  BY <1>2

LEMMA SumSame ==
  ASSUME NEW S, IsFiniteSet(S), NEW f, NEW g, \A x \in S : f[x] = g[x]
  PROVE  SumOn(f, S) = SumOn(g, S)
<1> DEFINE P == {s \in SUBSET S : SumOn(f, s) = SumOn(g, s)}
<1>1. ASSUME NEW s \in SUBSET S, \A x \in s : s \ {x} \in P PROVE s \in P
  <2>1. CASE s = {}
    BY <2>1, SumEmpty
  <2>2. CASE s # {}
    <3>1. First(s) \in s /\ IsFiniteSet(s)
      BY <2>2, FirstIn, FS_Subset
    <3>2. /\ SumOn(f, s) = f[First(s)] + SumOn(f, s \ {First(s)})
          /\ SumOn(g, s) = g[First(s)] + SumOn(g, s \ {First(s)})
      BY <2>2, <3>1, SumOfFirst
    <3>3. f[First(s)] = g[First(s)]
          /\ SumOn(f, s \ {First(s)}) = SumOn(g, s \ {First(s)})
      BY <1>1, <3>1
    <3> QED
      BY <3>2, <3>3
  <2> QED
    BY <2>1, <2>2
<1>2. P \in SUBSET (SUBSET S)
  OBVIOUS
<1> HIDE DEF P
<1>3. P = SUBSET S
  BY <1>1, <1>2, SizeInduction
<1>4. S \in P
  BY <1>3
<1> QED
  BY <1>4 DEF P

LEMMA SumZero ==
  ASSUME NEW S, IsFiniteSet(S), NEW f, \A x \in S : f[x] = 0
  PROVE  SumOn(f, S) = 0
<1> DEFINE P == {s \in SUBSET S : SumOn(f, s) = 0}
<1>1. {} \in P
  BY SumEmpty
<1>2. ASSUME NEW s \in P, NEW x \in S \ s PROVE s \cup {x} \in P
  <2>1. IsFiniteSet(s) /\ Numbers(f, s) /\ f[x] \in Nat
    BY FS_Subset DEF Numbers
  <2>2. SumOn(f, s \cup {x}) = f[x] + SumOn(f, s)
    BY <2>1, SumAdd
  <2> QED
    BY <2>2
<1>3. P \in SUBSET (SUBSET S)
  OBVIOUS
<1> HIDE DEF P
<1>4. S \in P
  BY <1>1, <1>2, <1>3, GrowInduction
<1> QED
  BY <1>4 DEF P

LEMMA SumUnion ==
  ASSUME NEW S, IsFiniteSet(S), NEW T, IsFiniteSet(T), S \cap T = {},
         NEW f, Numbers(f, S), Numbers(f, T)
  PROVE  SumOn(f, S \cup T) = SumOn(f, S) + SumOn(f, T)
<1> DEFINE P == {s \in SUBSET T : SumOn(f, S \cup s) = SumOn(f, S) + SumOn(f, s)}
<1>0. SumOn(f, S) \in Nat /\ \A s \in SUBSET T : SumOn(f, s) \in Nat
  BY SumIsNumber
<1>1. {} \in P
  <2>1. S \cup {} = S
    OBVIOUS
  <2>2. SumOn(f, S) + 0 = SumOn(f, S)
    BY <1>0
  <2> QED
    BY <2>1, <2>2, SumEmpty
<1>2. ASSUME NEW s \in P, NEW x \in T \ s PROVE s \cup {x} \in P
  <2> DEFINE u == S \cup s
  <2>1. /\ IsFiniteSet(s) /\ Numbers(f, s) /\ f[x] \in Nat
        /\ IsFiniteSet(u) /\ Numbers(f, u) /\ x \notin u
    BY FS_Subset, FS_Union DEF Numbers
  <2>2. SumOn(f, s \cup {x}) = f[x] + SumOn(f, s)
    BY <2>1, SumAdd
  <2> HIDE DEF u
  <2>3. SumOn(f, u \cup {x}) = f[x] + SumOn(f, u)
    BY <2>1, SumAdd
  <2>4. u \cup {x} = S \cup (s \cup {x})
    BY DEF u
  <2>5. SumOn(f, u) = SumOn(f, S) + SumOn(f, s) /\ SumOn(f, s) \in Nat
    BY <1>0 DEF u
  <2>6. SumOn(f, S \cup (s \cup {x})) = SumOn(f, S) + SumOn(f, s \cup {x})
    BY <1>0, <2>1, <2>2, <2>3, <2>4, <2>5
  <2> QED
    BY <2>6
<1>3. P \in SUBSET (SUBSET T)
  OBVIOUS
<1> HIDE DEF P
<1>4. T \in P
  BY <1>1, <1>2, <1>3, GrowInduction
<1> QED
  BY <1>4 DEF P

LEMMA SumPlus ==
  ASSUME NEW S, IsFiniteSet(S), NEW f, Numbers(f, S), NEW g, Numbers(g, S)
  PROVE  SumOn([x \in S |-> f[x] + g[x]], S) = SumOn(f, S) + SumOn(g, S)
<1> DEFINE h == [x \in S |-> f[x] + g[x]]
           P == {s \in SUBSET S : SumOn(h, s) = SumOn(f, s) + SumOn(g, s)}
<1>0. \A x \in S : h[x] = f[x] + g[x] /\ h[x] \in Nat
  BY DEF Numbers
<1> HIDE DEF h
<1>1. {} \in P
  BY SumEmpty
<1>2. ASSUME NEW s \in P, NEW x \in S \ s PROVE s \cup {x} \in P
  <2>1. /\ IsFiniteSet(s) /\ Numbers(f, s) /\ Numbers(g, s) /\ Numbers(h, s)
        /\ f[x] \in Nat /\ g[x] \in Nat /\ h[x] \in Nat
    BY <1>0, FS_Subset DEF Numbers
  <2>2. /\ SumOn(f, s \cup {x}) = f[x] + SumOn(f, s) /\ SumOn(f, s) \in Nat
        /\ SumOn(g, s \cup {x}) = g[x] + SumOn(g, s) /\ SumOn(g, s) \in Nat
        /\ SumOn(h, s \cup {x}) = h[x] + SumOn(h, s)
    BY <2>1, SumAdd
  <2>3. SumOn(h, s) = SumOn(f, s) + SumOn(g, s) /\ h[x] = f[x] + g[x]
    BY <1>0
  <2>4. SumOn(h, s \cup {x}) = SumOn(f, s \cup {x}) + SumOn(g, s \cup {x})
    BY <2>1, <2>2, <2>3
  <2> QED
    BY <2>4
<1>3. P \in SUBSET (SUBSET S)
  OBVIOUS
<1> HIDE DEF P
<1>4. S \in P
  BY <1>1, <1>2, <1>3, GrowInduction
<1> QED
  BY <1>4 DEF P, h

LEMMA Distributes ==
  ASSUME NEW c \in Nat, NEW a \in Nat, NEW b \in Nat
  PROVE  c * (a + b) = c * a + c * b /\ c * a \in Nat /\ c * 0 = 0
OBVIOUS

LEMMA SumTimes ==
  ASSUME NEW S, IsFiniteSet(S), NEW f, Numbers(f, S), NEW c \in Nat
  PROVE  SumOn([x \in S |-> c * f[x]], S) = c * SumOn(f, S)
<1> DEFINE h == [x \in S |-> c * f[x]]
           P == {s \in SUBSET S : SumOn(h, s) = c * SumOn(f, s)}
<1>0. \A x \in S : h[x] = c * f[x] /\ h[x] \in Nat
  BY Distributes DEF Numbers
<1> HIDE DEF h
<1>1. {} \in P
  <2>1. c * 0 = 0
    BY Distributes
  <2> QED
    BY <2>1, SumEmpty
<1>2. ASSUME NEW s \in P, NEW x \in S \ s PROVE s \cup {x} \in P
  <2>1. /\ IsFiniteSet(s) /\ Numbers(f, s) /\ Numbers(h, s)
        /\ f[x] \in Nat /\ h[x] \in Nat
    BY <1>0, FS_Subset DEF Numbers
  <2>2. /\ SumOn(f, s \cup {x}) = f[x] + SumOn(f, s) /\ SumOn(f, s) \in Nat
        /\ SumOn(h, s \cup {x}) = h[x] + SumOn(h, s)
    BY <2>1, SumAdd
  <2>3. SumOn(h, s) = c * SumOn(f, s) /\ h[x] = c * f[x]
    BY <1>0
  <2>4. c * (f[x] + SumOn(f, s)) = c * f[x] + c * SumOn(f, s)
    BY <2>1, <2>2, Distributes
  <2>5. SumOn(h, s \cup {x}) = c * SumOn(f, s \cup {x})
    BY <2>2, <2>3, <2>4, Zenon
  <2> QED
    BY <2>5
<1>3. P \in SUBSET (SUBSET S)
  OBVIOUS
<1> HIDE DEF P
<1>4. S \in P
  BY <1>1, <1>2, <1>3, GrowInduction
<1> QED
  BY <1>4 DEF P, h

LEMMA SumMoved ==
  ASSUME NEW S, IsFiniteSet(S), NEW T, IsFiniteSet(T), NEW g, Numbers(g, T),
         NEW p \in [S -> T], \A x, y \in S : p[x] = p[y] => x = y,
         \A z \in T : \E x \in S : p[x] = z
  PROVE  SumOn([x \in S |-> g[p[x]]], S) = SumOn(g, T)
<1> DEFINE h == [x \in S |-> g[p[x]]]
           At(s) == {p[x] : x \in s}
           P == {s \in SUBSET S : SumOn(h, s) = SumOn(g, At(s))}
<1>0. \A x \in S : h[x] = g[p[x]] /\ h[x] \in Nat
  BY DEF Numbers
<1> HIDE DEF h
<1>1. {} \in P
  <2>1. At({}) = {}
    OBVIOUS
  <2> QED
    BY <2>1, SumEmpty
<1>2. ASSUME NEW s \in P, NEW x \in S \ s PROVE s \cup {x} \in P
  <2>1. /\ IsFiniteSet(s) /\ Numbers(h, s) /\ h[x] \in Nat
        /\ At(s) \in SUBSET T /\ p[x] \notin At(s) /\ g[p[x]] \in Nat
    BY <1>0, FS_Subset DEF Numbers
  <2>2. IsFiniteSet(At(s)) /\ Numbers(g, At(s))
    BY <2>1, FS_Subset DEF Numbers
  <2>3. SumOn(h, s \cup {x}) = h[x] + SumOn(h, s)
    BY <2>1, SumAdd
  <2>4. At(s \cup {x}) = At(s) \cup {p[x]}
    OBVIOUS
  <2>5. SumOn(h, s) = SumOn(g, At(s)) /\ h[x] = g[p[x]]
    BY <1>0
  <2> HIDE DEF At
  <2>6. SumOn(g, At(s) \cup {p[x]}) = g[p[x]] + SumOn(g, At(s))
    BY <2>1, <2>2, SumAdd
  <2>7. SumOn(h, s \cup {x}) = SumOn(g, At(s \cup {x}))
    BY <2>3, <2>4, <2>5, <2>6
  <2> QED
    BY <2>7
<1>3. P \in SUBSET (SUBSET S)
  OBVIOUS
<1>4. At(S) = T
  OBVIOUS
<1> HIDE DEF P, At
<1>5. S \in P
  BY <1>1, <1>2, <1>3, GrowInduction
<1> QED
  BY <1>4, <1>5 DEF P, h

LEMMA SumExchange ==
  ASSUME NEW I, IsFiniteSet(I), NEW B, IsFiniteSet(B), NEW m \in [I -> [B -> Nat]]
  PROVE  SumOn([i \in I |-> SumOn(m[i], B)], I)
           = SumOn([b \in B |-> SumOn([i \in I |-> m[i][b]], I)], B)
<1> DEFINE Row(s) == [i \in I |-> SumOn(m[i], s)]
           column == [b \in B |-> SumOn([i \in I |-> m[i][b]], I)]
           P == {s \in SUBSET B : SumOn(Row(s), I) = SumOn(column, s)}
<1>0. \A i \in I : Numbers(m[i], B) /\ \A s \in SUBSET B : SumOn(m[i], s) \in Nat
  <2>1. \A i \in I : Numbers(m[i], B)
    BY DEF Numbers
  <2> QED
    BY <2>1, SumIsNumber
<1>1. ASSUME NEW b \in B
      PROVE  /\ column[b] = SumOn([i \in I |-> m[i][b]], I) /\ column[b] \in Nat
             /\ Numbers([i \in I |-> m[i][b]], I)
  <2>1. Numbers([i \in I |-> m[i][b]], I)
    BY DEF Numbers
  <2> QED
    BY <2>1, SumIsNumber
<1> HIDE DEF column
<1>2. {} \in P
  <2>1. \A i \in I : Row({})[i] = 0
    BY SumEmpty
  <2>2. SumOn(Row({}), I) = 0
    BY <2>1, SumZero
  <2> QED
    BY <2>2, SumEmpty
<1>3. ASSUME NEW s \in P, NEW x \in B \ s PROVE s \cup {x} \in P
  <2> DEFINE at == [i \in I |-> m[i][x]]
             row == Row(s)
  <2>1. IsFiniteSet(s) /\ Numbers(column, s) /\ column[x] \in Nat
        /\ Numbers(at, I) /\ Numbers(row, I) /\ column[x] = SumOn(at, I)
    BY <1>0, <1>1, FS_Subset DEF Numbers
  <2>2. SumOn(column, s \cup {x}) = column[x] + SumOn(column, s)
    BY <2>1, SumAdd
  <2>3. \A i \in I : SumOn(m[i], s \cup {x}) = m[i][x] + SumOn(m[i], s)
    <3> SUFFICES ASSUME NEW i \in I
                 PROVE  SumOn(m[i], s \cup {x}) = m[i][x] + SumOn(m[i], s)
      OBVIOUS
    <3>1. Numbers(m[i], s) /\ m[i][x] \in Nat
      BY <1>0 DEF Numbers
    <3> QED
      BY <2>1, <3>1, SumAdd
  <2>4. \A i \in I : Row(s \cup {x})[i] = [j \in I |-> at[j] + row[j]][i]
    BY <2>3
  <2>5. SumOn(Row(s \cup {x}), I) = SumOn([j \in I |-> at[j] + row[j]], I)
    <3> DEFINE f == Row(s \cup {x})
               g == [j \in I |-> at[j] + row[j]]
    <3>1. \A i \in I : f[i] = g[i]
      BY <2>4
    <3> HIDE DEF f, g
    <3>2. SumOn(f, I) = SumOn(g, I)
      BY <3>1, SumSame
    <3> QED
      BY <3>2 DEF f, g
  <2>6. SumOn(row, I) = SumOn(column, s)
    OBVIOUS
  <2> HIDE DEF at, row
  <2>7. SumOn([j \in I |-> at[j] + row[j]], I) = SumOn(at, I) + SumOn(row, I)
    BY <2>1, SumPlus
  <2>8. SumOn(Row(s \cup {x}), I) = SumOn(column, s \cup {x})
    BY <2>1, <2>2, <2>5, <2>6, <2>7
  <2> QED
    BY <2>8
<1>4. P \in SUBSET (SUBSET B)
  OBVIOUS
<1> HIDE DEF P
<1>5. B \in P
  BY <1>2, <1>3, <1>4, GrowInduction
<1> QED
  BY <1>5 DEF P, column

-----------------------------------------------------------------------------
(***************************************************************************)
(* Fini.  What it works on is well typed, and which Fini may follow:       *)
(* without a terminator the list has every block once, and nothing was     *)
(* summed yet; with one it is longer than the blocks are many, so that     *)
(* after it only a Fini without blocks does not follow the null pointer.   *)
(***************************************************************************)
Stats == [Indices -> Nat]
Section == [rtn : Nat, stats : Stats]

FiniTypes ==
  /\ statsList \in Seq((DOMAIN block) \cup {Null})
  /\ fini \in [by : Threads \cup {Pin}, place : Nat, rtn : Nat, sum : Stats]
  /\ process \in {"running", "exiting", "ended", "broken"}
  /\ dynamic \in Stats
  /\ insmix \in [whole : BOOLEAN, sections : Seq(Section), dynamic : Stats]

Listing(list, n) ==
  /\ \A k \in 1..n : list[k] \in 1..n
  /\ \A j, k \in 1..n : list[j] = list[k] => j = k
  /\ \A b \in 1..n : \E k \in 1..n : list[k] = b

Unlisted ==
  /\ Len(statsList) = Len(block)
  /\ Listing(statsList, Len(block))
  /\ dynamic = Zero

Ready ==
  process = "running" =>
    /\ Null \in Range(statsList) => Len(statsList) > Len(block)
    /\ FiniRuns => Null \in Range(statsList) /\ fini.by # Pin
    /\ block = <<>> => dynamic = Zero
    /\ Null \notin Range(statsList) => Unlisted

(***************************************************************************)
(* The last Fini: the list is the blocks, by address, and the terminator.  *)
(***************************************************************************)
Terminated ==
  /\ Len(statsList) > Len(block)
  /\ Listing(statsList, Len(block))
  /\ statsList[Len(block) + 1] = Null
  /\ \A j, k \in 1..Len(block) :
       j < k => AddressOf(statsList[j]) <= AddressOf(statsList[k])

(***************************************************************************)
(* What place k of the list adds to an index, the places with a routine,   *)
(* and the sections printed for it so far.                                 *)
(***************************************************************************)
Adds(i) ==
  [k \in 1..Len(block) |-> counter[statsList[k]] * Occurs(block[statsList[k]], i)]

Places(rtn, n) == {k \in 1..n : RtnOf[block[statsList[k]]] = rtn}

Printed(sections, rtn) == {k \in DOMAIN sections : sections[k].rtn = rtn}

PrintedSum(sections, rtn, i) ==
  SumOn([k \in DOMAIN sections |-> sections[k].stats[i]], Printed(sections, rtn))

Alone(rtn) ==
  \A b \in DOMAIN block : AddressOf(b) = Address[rtn] => RtnOf[block[b]] = rtn

Routines == Range(RtnOf) \ {0}
Kinds == Opcodes \cup Special

OneIf(condition) == IF condition THEN 1 ELSE 0

(***************************************************************************)
(* In the loop the sums so far are those of the places passed; a routine   *)
(* has its share in the sections printed and, if it is the present one, in *)
(* DynamicRtn.  Behind the loop they are those of all places.              *)
(***************************************************************************)
SectionsSoFar(passed, rtn) ==
  /\ \A i \in Kinds :
       PrintedSum(insmix.sections, rtn, i)
         + (IF fini.rtn = rtn THEN fini.sum[i] ELSE 0)
         = SumOn(Adds(i), Places(rtn, passed))
  /\ Alone(rtn) =>
       Cardinality(Printed(insmix.sections, rtn)) + OneIf(fini.rtn = rtn)
         = OneIf(Places(rtn, passed) # {})

Midway ==
  /\ dynamic[Total] = 0
  /\ \A i \in Kinds : dynamic[i] = SumOn(Adds(i), 1..(fini.place - 1))
  /\ fini.rtn = IF fini.place = 1 THEN 0
                ELSE RtnOf[block[statsList[fini.place - 1]]]
  /\ \A rtn \in Routines : SectionsSoFar(fini.place - 1, rtn)

AllSections(rtn) ==
  /\ \A i \in Kinds :
       PrintedSum(insmix.sections, rtn, i) = SumOn(Adds(i), Places(rtn, Len(block)))
  /\ Alone(rtn) =>
       Cardinality(Printed(insmix.sections, rtn))
         = OneIf(Places(rtn, Len(block)) # {})

Complete ==
  /\ insmix.whole
  /\ \A i \in Kinds : insmix.dynamic[i] = SumOn(Adds(i), 1..Len(block))
  /\ insmix.dynamic[Total] = SumOn(insmix.dynamic, Opcodes)
  /\ \A rtn \in Routines : AllSections(rtn)

Exiting ==
  process = "exiting" =>
    /\ FiniRuns /\ fini.by = Pin
    /\ Terminated
    /\ \/ fini.place \in 1..(Len(block) + 1) /\ Midway
       \/ fini.place = Len(statsList) + 1 /\ Complete

FiniInv == FiniTypes /\ Ready /\ Exiting /\ LastProfileAgrees /\ SectionsAddUp

(***************************************************************************)
(* The opcodes of the instructions of a block: every instruction has one.  *)
(***************************************************************************)
Uses(c, K, i) == Cardinality({k \in K : Ins[c][k].opcode = i})

LEMMA SumOfOne ==
  ASSUME NEW S, IsFiniteSet(S), NEW o \in S
  PROVE  SumOn([i \in S |-> OneIf(i = o)], S) = 1
<1> DEFINE f == [i \in S |-> OneIf(i = o)]
<1>1. /\ f[o] = 1 /\ \A i \in S \ {o} : f[i] = 0
      /\ Numbers(f, S)
  BY DEF OneIf, Numbers
<1> HIDE DEF f
<1>2. IsFiniteSet(S \ {o})
  BY FS_Subset
<1>3. SumOn(f, S \ {o}) = 0
  BY <1>1, <1>2, SumZero
<1>4. SumOn(f, S) = f[o] + SumOn(f, S \ {o})
  BY <1>1, SumRemove
<1>5. SumOn(f, S) = 1
  BY <1>1, <1>3, <1>4
<1> QED
  BY <1>5 DEF f

LEMMA OneBlockIns ==
  ASSUME NEW c \in Code
  PROVE  /\ Len(Ins[c]) \in Nat /\ DOMAIN Ins[c] = 1..Len(Ins[c])
         /\ IsFiniteSet(DOMAIN Ins[c]) /\ Cardinality(DOMAIN Ins[c]) = Len(Ins[c])
         /\ \A k \in DOMAIN Ins[c] : Ins[c][k].opcode \in Opcodes
                                     /\ Ins[c][k].special \in SUBSET Special
<1>1. Ins[c] \in Seq(Instruction)
  BY CodeAssumption
<1>2. Len(Ins[c]) \in Nat /\ DOMAIN Ins[c] = 1..Len(Ins[c])
  BY <1>1
<1>3. \A k \in DOMAIN Ins[c] : Ins[c][k] \in Instruction
  BY <1>1
<1>4. \A k \in DOMAIN Ins[c] : Ins[c][k].opcode \in Opcodes
                               /\ Ins[c][k].special \in SUBSET Special
  BY <1>3 DEF Instruction
<1>5. /\ IsFiniteSet(1..Len(Ins[c])) /\ Cardinality(1..Len(Ins[c])) = Len(Ins[c])
  BY <1>2, FS_Interval
<1> QED
  BY <1>2, <1>4, <1>5

LEMMA UsesAllOpcodes ==
  ASSUME NEW c \in Code
  PROVE  SumOn([i \in Opcodes |-> Uses(c, DOMAIN Ins[c], i)], Opcodes) = Len(Ins[c])
<1> DEFINE D == DOMAIN Ins[c]
           f(K) == [i \in Opcodes |-> Uses(c, K, i)]
           P == {K \in SUBSET D : SumOn(f(K), Opcodes) = Cardinality(K)}
<1>1. IsFiniteSet(D) /\ Cardinality(D) = Len(Ins[c])
  BY OneBlockIns
<1>2. ASSUME NEW k \in D PROVE Ins[c][k].opcode \in Opcodes
  BY OneBlockIns
<1> HIDE DEF D
<1>3. IsFiniteSet(Opcodes)
  BY OpcodesAssumption
<1>4. {} \in P
  <2>1. \A i \in Opcodes : {k \in {} : Ins[c][k].opcode = i} = {}
    OBVIOUS
  <2>2. \A i \in Opcodes : f({})[i] = 0
    BY <2>1, FS_EmptySet DEF Uses
  <2> HIDE DEF f
  <2>3. SumOn(f({}), Opcodes) = 0
    BY <1>3, <2>2, SumZero
  <2> QED
    BY <2>3, FS_EmptySet
<1>5. ASSUME NEW K \in P, NEW x \in D \ K PROVE K \cup {x} \in P
  <2> DEFINE o == Ins[c][x].opcode
             h == [i \in Opcodes |-> OneIf(i = o)]
             g == f(K)
             e == f(K \cup {x})
  <2>1. o \in Opcodes
    BY <1>2
  <2>2. IsFiniteSet(K) /\ x \notin K /\ SumOn(g, Opcodes) = Cardinality(K)
    BY <1>1, FS_Subset
  <2>3. ASSUME NEW i \in Opcodes
        PROVE  Uses(c, K, i) \in Nat
               /\ Uses(c, K \cup {x}, i) = OneIf(i = o) + Uses(c, K, i)
    <3> DEFINE A == {k \in K : Ins[c][k].opcode = i}
               B == {k \in K \cup {x} : Ins[c][k].opcode = i}
    <3>1. A \in SUBSET K /\ x \notin A
      BY <2>2
    <3>2. IsFiniteSet(A)
      BY <2>2, <3>1, FS_Subset
    <3>3. Cardinality(A) \in Nat /\ Cardinality(A \cup {x}) = Cardinality(A) + 1
      BY <3>1, <3>2, FS_AddElement, FS_CardinalityType
    <3>4. B = IF i = o THEN A \cup {x} ELSE A
      OBVIOUS
    <3> HIDE DEF A, B
    <3>5. Cardinality(B) = OneIf(i = o) + Cardinality(A)
      BY <3>3, <3>4 DEF OneIf
    <3> QED
      BY <3>3, <3>5 DEF A, B, Uses
  <2>4. \A i \in Opcodes : /\ g[i] \in Nat /\ h[i] \in Nat
                           /\ e[i] = [j \in Opcodes |-> h[j] + g[j]][i]
    BY <2>3 DEF OneIf
  <2>5. SumOn(h, Opcodes) = 1
    BY <1>3, <2>1, SumOfOne
  <2> HIDE DEF f, g, h, e
  <2>6. Numbers(g, Opcodes) /\ Numbers(h, Opcodes)
    BY <2>4 DEF Numbers
  <2>7. SumOn([j \in Opcodes |-> h[j] + g[j]], Opcodes)
          = SumOn(h, Opcodes) + SumOn(g, Opcodes)
    BY <1>3, <2>6, SumPlus
  <2>8. SumOn(e, Opcodes) = SumOn([j \in Opcodes |-> h[j] + g[j]], Opcodes)
    <3> DEFINE s == [j \in Opcodes |-> h[j] + g[j]]
    <3>1. \A i \in Opcodes : e[i] = s[i]
      BY <2>4
    <3> HIDE DEF s
    <3>2. SumOn(e, Opcodes) = SumOn(s, Opcodes)
      BY <1>3, <3>1, SumSame
    <3> QED
      BY <3>2 DEF s
  <2>9. Cardinality(K \cup {x}) = Cardinality(K) + 1 /\ Cardinality(K) \in Nat
    BY <2>2, FS_AddElement, FS_CardinalityType
  <2>10. SumOn(e, Opcodes) = Cardinality(K \cup {x})
    BY <2>2, <2>5, <2>7, <2>8, <2>9
  <2> QED
    BY <2>10 DEF e
<1>6. P \in SUBSET (SUBSET D)
  OBVIOUS
<1> HIDE DEF P
<1>7. D \in P
  BY <1>1, <1>4, <1>5, <1>6, GrowInduction
<1> QED
  BY <1>1, <1>7 DEF P, D

LEMMA OccursInBlock ==
  ASSUME NEW c \in Code
  PROVE  /\ \A i : Occurs(c, i) \in Nat
         /\ Occurs(c, Total) = 0
         /\ SumOn([i \in Opcodes |-> Occurs(c, i)], Opcodes) = Len(Ins[c])
<1> DEFINE At(i) == {k \in DOMAIN Ins[c] : i \in {Ins[c][k].opcode} \cup Ins[c][k].special}
<1>1. ASSUME NEW i PROVE Occurs(c, i) \in Nat
  <2>1. At(i) \in SUBSET DOMAIN Ins[c] /\ IsFiniteSet(DOMAIN Ins[c])
    BY OneBlockIns
  <2>2. IsFiniteSet(At(i))
    BY <2>1, FS_Subset
  <2> QED
    BY <2>2, FS_CardinalityType DEF Occurs
<1>2. Occurs(c, Total) = 0
  <2>1. At(Total) = {}
    BY OneBlockIns, NamesAssumption
  <2> QED
    BY <2>1, FS_EmptySet DEF Occurs
<1>3. ASSUME NEW i \in Opcodes PROVE Occurs(c, i) = Uses(c, DOMAIN Ins[c], i)
  <2>1. At(i) = {k \in DOMAIN Ins[c] : Ins[c][k].opcode = i}
    BY OneBlockIns, NamesAssumption
  <2> QED
    BY <2>1 DEF Occurs, Uses
<1>4. SumOn([i \in Opcodes |-> Occurs(c, i)], Opcodes)
        = SumOn([i \in Opcodes |-> Uses(c, DOMAIN Ins[c], i)], Opcodes)
  BY <1>3
<1> QED
  BY <1>1, <1>2, <1>4, UsesAllOpcodes

(***************************************************************************)
(* The steps of Fini keep their types.                                     *)
(***************************************************************************)
LEMMA AddedStats ==
  ASSUME CountersOK, NEW stats \in Stats, NEW b \in DOMAIN block
  PROVE  /\ Added(stats, b) \in Stats
         /\ \A i : counter[b] * Occurs(block[b], i) \in Nat
         /\ \A i \in Indices :
              Added(stats, b)[i] = stats[i] + counter[b] * Occurs(block[b], i)
         /\ Added(stats, b)[Total] = stats[Total]
<1>1. counter[b] \in Nat
  BY OneBlock
<1>2. block[b] \in Code
  BY DEF CountersOK
<1>3. ASSUME NEW i PROVE counter[b] * Occurs(block[b], i) \in Nat
  <2>1. Occurs(block[b], i) \in Nat
    BY <1>2, OccursInBlock
  <2> QED
    BY <1>1, <2>1
<1>4. \A i \in Indices : stats[i] \in Nat
  BY DEF Stats
<1>5. \A i \in Indices : Added(stats, b)[i] = stats[i] + counter[b] * Occurs(block[b], i)
  BY DEF Added
<1>6. Added(stats, b) \in Stats
  <2>1. ASSUME NEW i \in Indices
        PROVE  stats[i] + counter[b] * Occurs(block[b], i) \in Nat
    <3> DEFINE n == counter[b] * Occurs(block[b], i)
    <3>1. n \in Nat /\ stats[i] \in Nat
      BY <1>3, <1>4
    <3> HIDE DEF n
    <3>2. stats[i] + n \in Nat
      BY <3>1
    <3> QED
      BY <3>2 DEF n
  <2> QED
    BY <2>1, Zenon DEF Added, Stats
<1>7. Added(stats, b)[Total] = stats[Total]
  <2>1. Total \in Indices
    BY DEF Indices
  <2>2. Occurs(block[b], Total) = 0
    BY <1>2, OccursInBlock
  <2>3. counter[b] * 0 = 0
    BY <1>1
  <2> QED
    BY <1>4, <1>5, <2>1, <2>2, <2>3
<1> QED
  BY <1>3, <1>5, <1>6, <1>7

LEMMA DumpedStats ==
  ASSUME NEW stats \in Stats
  PROVE  /\ Dumped(stats) \in Stats
         /\ Dumped(stats)[Total] = stats[Total] + SumOn(stats, Opcodes)
         /\ \A i \in Kinds : Dumped(stats)[i] = stats[i]
         /\ SumOn(Dumped(stats), Opcodes) = SumOn(stats, Opcodes)
         /\ SumOn(stats, Opcodes) \in Nat
<1>1. IsFiniteSet(Opcodes) /\ Numbers(stats, Opcodes)
  BY OpcodesAssumption DEF Numbers, Stats, Indices
<1>2. SumOn(stats, Opcodes) \in Nat
  BY <1>1, SumIsNumber
<1>3. Dumped(stats) = [stats EXCEPT ![Total] = stats[Total] + SumOn(stats, Opcodes)]
  BY DEF Dumped, SumOn
<1>4. Total \in Indices /\ stats[Total] \in Nat
  BY DEF Indices, Stats
<1>5. stats[Total] + SumOn(stats, Opcodes) \in Nat
  BY <1>2, <1>4
<1>6. Dumped(stats) \in Stats /\ Dumped(stats)[Total] = stats[Total] + SumOn(stats, Opcodes)
  BY <1>3, <1>4, <1>5 DEF Stats
<1>7. \A i \in Kinds : Dumped(stats)[i] = stats[i]
  <2> SUFFICES ASSUME NEW i \in Kinds PROVE Dumped(stats)[i] = stats[i]
    OBVIOUS
  <2>1. i # Total /\ i \in Indices
    BY NamesAssumption DEF Kinds, Indices
  <2> QED
    BY <1>3, <2>1 DEF Stats
<1>8. \A i \in Opcodes : Dumped(stats)[i] = stats[i]
  BY <1>7 DEF Kinds
<1>9. SumOn(Dumped(stats), Opcodes) = SumOn(stats, Opcodes)
  BY <1>1, <1>8, SumSame
<1> QED
  BY <1>2, <1>6, <1>7, <1>9

LEMMA ZeroStats ==
  /\ Zero \in Stats
  /\ \A i \in Indices : Zero[i] = 0
  /\ Dumped(Zero) = Zero
<1>1. Zero \in Stats /\ \A i \in Indices : Zero[i] = 0
  BY DEF Zero, Stats
<1>2. SumOn(Zero, Opcodes) = 0
  <2>1. \A i \in Opcodes : Zero[i] = 0
    BY <1>1 DEF Indices
  <2> QED
    BY <2>1, OpcodesAssumption, SumZero
<1>3. Zero[Total] = 0 /\ Total \in Indices
  BY <1>1 DEF Indices
<1>4. Dumped(Zero) = [Zero EXCEPT ![Total] = 0]
  BY <1>2, <1>3 DEF Dumped, SumOn
<1>5. Dumped(Zero) = Zero
  BY <1>3, <1>4 DEF Zero
<1> QED
  BY <1>1, <1>5

LEMMA FiniTyped ==
  ASSUME FiniTypes
  PROVE  /\ fini.by \in Threads \cup {Pin} /\ fini.place \in Nat /\ fini.rtn \in Nat
         /\ fini.sum \in Stats
         /\ insmix.whole \in BOOLEAN /\ insmix.sections \in Seq(Section)
         /\ insmix.dynamic \in Stats
         /\ Len(statsList) \in Nat /\ DOMAIN statsList = 1..Len(statsList)
         /\ \A k \in DOMAIN statsList : statsList[k] \in (DOMAIN block) \cup {Null}
         /\ \A k \in DOMAIN statsList : k # 0
         /\ \A k \in DOMAIN statsList :
              statsList[k] # Null => statsList[k] \in DOMAIN block
<1>1. fini \in [by : Threads \cup {Pin}, place : Nat, rtn : Nat, sum : Stats]
  BY DEF FiniTypes
<1>2. insmix \in [whole : BOOLEAN, sections : Seq(Section), dynamic : Stats]
  BY DEF FiniTypes
<1>3. statsList \in Seq((DOMAIN block) \cup {Null})
  BY DEF FiniTypes
<1>4. /\ fini.by \in Threads \cup {Pin} /\ fini.place \in Nat /\ fini.rtn \in Nat
      /\ fini.sum \in Stats
  BY <1>1
<1>5. /\ insmix.whole \in BOOLEAN /\ insmix.sections \in Seq(Section)
      /\ insmix.dynamic \in Stats
  BY <1>2
<1>6. /\ Len(statsList) \in Nat /\ DOMAIN statsList = 1..Len(statsList)
      /\ \A k \in DOMAIN statsList : statsList[k] \in (DOMAIN block) \cup {Null}
  BY <1>3
<1> QED
  BY <1>4, <1>5, <1>6

LEMMA SectionPrinted ==
  ASSUME FiniTypes, NEW rtn
  PROVE  /\ WithSection(rtn) \in Seq(Section)
         /\ [rtn |-> fini.rtn, stats |-> Dumped(fini.sum)] \in Section
<1>1. [rtn |-> fini.rtn, stats |-> Dumped(fini.sum)] \in Section
  BY FiniTyped, DumpedStats DEF Section
<1>2. insmix.sections \in Seq(Section)
  BY FiniTyped
<1>3. Append(insmix.sections, [rtn |-> fini.rtn, stats |-> Dumped(fini.sum)])
        \in Seq(Section)
  BY <1>1, <1>2, AppendedTo
<1> QED
  BY <1>1, <1>2, <1>3 DEF WithSection

LEMMA InitFini ==
  ASSUME Init
  PROVE  FiniInv
<1>1. /\ block = <<>> /\ statsList = <<>> /\ fini = NoFini /\ process = "running"
      /\ dynamic = Zero
      /\ insmix = [whole |-> FALSE, sections |-> <<>>, dynamic |-> Zero]
  BY DEF Init
<1>2. NoFini \in [by : Threads \cup {Pin}, place : Nat, rtn : Nat, sum : Stats]
  BY ZeroStats DEF NoFini
<1>3. FiniTypes
  BY <1>1, <1>2, ZeroStats DEF FiniTypes
<1>4. Ready
  <2>1. Null \notin Range(statsList)
    BY <1>1 DEF Range
  <2>2. Len(block) = 0 /\ Len(statsList) = 0
    BY <1>1
  <2>3. Listing(statsList, 0)
    BY DEF Listing
  <2> QED
    BY <1>1, <2>1, <2>2, <2>3 DEF Ready, Unlisted, FiniRuns
<1> QED
  BY <1>1, <1>3, <1>4 DEF FiniInv, Exiting, LastProfileAgrees, SectionsAddUp

(***************************************************************************)
(* Nothing is said of the profile before the program ends.                 *)
(***************************************************************************)
LEMMA NotEnded ==
  ASSUME process' # "ended"
  PROVE  LastProfileAgrees' /\ SectionsAddUp'
BY DEF LastProfileAgrees, SectionsAddUp

(***************************************************************************)
(* A new block is listed where the list has no terminator.                 *)
(***************************************************************************)
LEMMA TraceFini ==
  ASSUME Inv, FiniInv, NEW c \in Code, Trace(c)
  PROVE  FiniInv'
<1> DEFINE n == Len(block) + 1
<1>1. /\ process = "running" /\ block' = Append(block, c)
      /\ statsList' = Append(statsList, n)
      /\ process' = IF FiniRuns THEN "broken" ELSE "running"
      /\ fini' = fini /\ dynamic' = dynamic /\ insmix' = insmix
  BY DEF Trace, Breaks, files
<1>2. /\ FiniTypes /\ Ready /\ block \in Seq(Code)
  BY DEF FiniInv, Inv, CountersOK
<1>3. /\ block' \in Seq(Code) /\ Len(block') = n /\ DOMAIN block' = 1..n
      /\ DOMAIN block = 1..Len(block) /\ Len(block) \in Nat
  BY <1>1, <1>2, AppendedTo
<1>4. /\ n \in DOMAIN block' /\ n # Null /\ DOMAIN block \subseteq DOMAIN block'
  BY <1>3 DEF Null
<1> HIDE DEF n
<1>5. statsList \in Seq((DOMAIN block') \cup {Null})
  BY <1>2, <1>4 DEF FiniTypes
<1>6. /\ statsList' \in Seq((DOMAIN block') \cup {Null})
      /\ Len(statsList') = Len(statsList) + 1
      /\ DOMAIN statsList' = 1..(Len(statsList) + 1)
      /\ \A i \in DOMAIN statsList : statsList'[i] = statsList[i]
      /\ statsList'[Len(statsList) + 1] = n
      /\ Len(statsList) \in Nat /\ DOMAIN statsList = 1..Len(statsList)
  BY <1>1, <1>4, <1>5, AppendedTo
<1>7. FiniTypes'
  BY <1>1, <1>2, <1>6 DEF FiniTypes, Stats, Section, Indices, Null
<1>8. ASSUME process' = "running" PROVE Ready'
  <2>1. ~ FiniRuns
    BY <1>1, <1>8
  <2>2. Null \in Range(statsList') <=> Null \in Range(statsList)
    BY <1>4, <1>6 DEF Range
  <2>3. ~ FiniRuns'
    BY <2>1, <1>1 DEF FiniRuns, NoFini, Zero, Indices
  <2>4. block' # <<>>
    BY <1>3, <1>4
  <2>5. ASSUME Null \in Range(statsList) PROVE Len(statsList') > Len(block')
    <3>1. Len(statsList) > Len(block)
      BY <1>1, <1>2, <2>5 DEF Ready
    <3> QED
      BY <3>1, <1>3, <1>6 DEF n
  <2>6. ASSUME Null \notin Range(statsList) PROVE Unlisted'
    <3>1. Unlisted
      BY <1>1, <1>2, <2>6 DEF Ready
    <3>2. Len(statsList) = Len(block) /\ dynamic = Zero /\ Listing(statsList, Len(block))
      BY <3>1 DEF Unlisted
    <3>3. Len(statsList') = n /\ statsList'[n] = n
          /\ \A k \in 1..Len(block) : statsList'[k] = statsList[k]
      BY <3>2, <1>6 DEF n
    <3>4. \A k \in 1..n : k \in 1..Len(block) \/ k = n
      BY <1>3 DEF n
    <3>5. \A k \in 1..Len(block) : k \in 1..n /\ k # n
      BY <1>3 DEF n
    <3>6. n \in 1..n
      BY <1>3 DEF n
    <3>7. Listing(statsList', n)
      <4>1. \A k \in 1..n : statsList'[k] \in 1..n
        BY <3>2, <3>3, <3>4, <3>5, <3>6 DEF Listing
      <4>2. \A j, k \in 1..n : statsList'[j] = statsList'[k] => j = k
        <5> SUFFICES ASSUME NEW j \in 1..n, NEW k \in 1..n,
                            statsList'[j] = statsList'[k]
                     PROVE  j = k
          OBVIOUS
        <5>1. CASE j = n \/ k = n
          BY <5>1, <3>2, <3>3, <3>4, <3>5 DEF Listing
        <5>2. CASE j # n /\ k # n
          <6>1. j \in 1..Len(block) /\ k \in 1..Len(block)
            BY <5>2, <3>4
          <6>2. statsList[j] = statsList[k]
            BY <6>1, <3>3
          <6> QED
            BY <6>1, <6>2, <3>2 DEF Listing
        <5> QED
          BY <5>1, <5>2
      <4>3. \A b \in 1..n : \E k \in 1..n : statsList'[k] = b
        BY <3>2, <3>3, <3>4, <3>5, <3>6 DEF Listing
      <4> QED
        BY <4>1, <4>2, <4>3 DEF Listing
    <3>8. dynamic' = Zero'
      BY <3>2, <1>1 DEF Zero, Indices
    <3> QED
      BY <3>3, <3>7, <3>8, <1>3 DEF Unlisted, Listing
  <2> QED
    BY <2>2, <2>3, <2>4, <2>5, <2>6 DEF Ready
<1>9. process' \in {"running", "broken"}
  BY <1>1
<1>10. Ready'
  BY <1>8 DEF Ready
<1> QED
  BY <1>7, <1>9, <1>10, NotEnded DEF FiniInv, Exiting

(***************************************************************************)
(* What does not touch the blocks, the list, Fini and the files.           *)
(***************************************************************************)
LEMMA RunningFini ==
  ASSUME FiniInv, process = "running",
         UNCHANGED <<block, statsList, fini, process, dynamic, insmix>>
  PROVE  FiniInv'
<1>1. FiniTypes /\ Ready
  BY DEF FiniInv
<1>2. FiniTypes'
  BY <1>1 DEF FiniTypes, Stats, Section, Indices, Null
<1>3. Ready'
  BY <1>1 DEF Ready, Unlisted, Listing, FiniRuns, NoFini, Zero, Indices, Null, Range
<1> QED
  BY <1>2, <1>3, NotEnded DEF FiniInv, Exiting

(***************************************************************************)
(* A Fini starts: the list is sorted and gets its terminator.              *)
(***************************************************************************)
LEMMA SortedList ==
  ASSUME FiniTypes, NEW by, StartFini(by)
  PROVE  \E s \in Seq((DOMAIN block) \cup {Null}) :
           /\ Len(s) = Len(statsList) /\ Sorted(s)
           /\ \A k \in 1..Len(statsList) : s[k] \in Range(statsList)
           /\ statsList' = Append(s, Null)
<1>1. PICK s \in [DOMAIN statsList -> Range(statsList)] :
        Sorted(s) /\ statsList' = Append(s, Null)
  BY DEF StartFini
<1>2. /\ Len(statsList) \in Nat /\ DOMAIN statsList = 1..Len(statsList)
      /\ \A k \in DOMAIN statsList : statsList[k] \in (DOMAIN block) \cup {Null}
  BY FiniTyped
<1>3. Range(statsList) \subseteq (DOMAIN block) \cup {Null}
  BY <1>2 DEF Range
<1>4. \A k \in 1..Len(statsList) : s[k] \in Range(statsList)
  BY <1>2
<1>5. s \in [1..Len(statsList) -> (DOMAIN block) \cup {Null}]
  BY <1>2, <1>3
<1>6. s \in Seq((DOMAIN block) \cup {Null}) /\ Len(s) = Len(statsList)
  BY <1>2, <1>5
<1> QED
  BY <1>1, <1>4, <1>6

LEMMA StartTypes ==
  ASSUME FiniTypes, NEW by \in Threads \cup {Pin}, StartFini(by),
         UNCHANGED <<block, dynamic>>,
         process' \in {"running", "exiting", "ended", "broken"}
  PROVE  /\ FiniTypes'
         /\ Len(statsList') = Len(statsList) + 1
         /\ statsList'[Len(statsList) + 1] = Null
         /\ (Null \in Range(statsList))'
         /\ FiniRuns'
         /\ fini'.by = by /\ fini'.place = 1 /\ fini'.rtn = 0
         /\ insmix'.sections = <<>>
<1>1. PICK s \in Seq((DOMAIN block) \cup {Null}) :
        Len(s) = Len(statsList) /\ statsList' = Append(s, Null)
  BY SortedList
<1>2. /\ statsList' \in Seq((DOMAIN block) \cup {Null})
      /\ Len(statsList') = Len(statsList) + 1
      /\ statsList'[Len(statsList) + 1] = Null
      /\ DOMAIN statsList' = 1..(Len(statsList) + 1)
      /\ Len(statsList) \in Nat
  BY <1>1, AppendedTo
<1>3. (Null \in Range(statsList))'
  BY <1>2 DEF Range, Null
<1>4. fini' = [by |-> by, place |-> 1, rtn |-> 0, sum |-> Zero]
      /\ insmix' = [whole |-> FALSE, sections |-> <<>>, dynamic |-> Zero]
  BY DEF StartFini
<1>5. fini' \in [by : Threads \cup {Pin}, place : Nat, rtn : Nat, sum : Stats]
  BY <1>4, ZeroStats
<1>6. insmix' \in [whole : BOOLEAN, sections : Seq(Section), dynamic : Stats]
  BY <1>4, ZeroStats
<1>7. FiniTypes'
  BY <1>2, <1>5, <1>6 DEF FiniTypes, Stats, Section, Indices, Null
<1>8. FiniRuns'
  <2>1. fini'.place = 1
    BY <1>4
  <2> QED
    BY <2>1 DEF FiniRuns, NoFini
<1> QED
  BY <1>2, <1>3, <1>4, <1>7, <1>8

LEMMA SyscallFini ==
  ASSUME Inv, FiniInv, NEW t \in Threads, Syscall(t)
  PROVE  FiniInv'
<1>1. /\ FiniTypes /\ Ready /\ process = "running"
      /\ block' = block /\ dynamic' = dynamic
  BY DEF FiniInv, Syscall, Runs
<1>2. CASE FiniRuns \/ FollowsNull
  <2>1. process' = "broken" /\ statsList' = statsList /\ fini' = fini /\ insmix' = insmix
    BY <1>2 DEF Syscall, Breaks
  <2>2. FiniTypes'
    BY <1>1, <2>1 DEF FiniTypes, Stats, Section, Indices, Null
  <2> QED
    BY <2>1, <2>2, NotEnded DEF FiniInv, Ready, Exiting
<1>3. CASE ~ (FiniRuns \/ FollowsNull)
  <2>1. StartFini(t) /\ process' = "running"
    BY <1>1, <1>3 DEF Syscall
  <2>2. /\ FiniTypes'
        /\ Len(statsList') = Len(statsList) + 1
        /\ (Null \in Range(statsList))'
        /\ FiniRuns'
        /\ fini'.by = t
    BY <1>1, <2>1, StartTypes
  <2>3. t # Pin
    BY NamesAssumption
  <2>4. Len(statsList') > Len(block)
    <3>1. Len(statsList) \in Nat /\ (Len(block) = Len(statsList) \/ Len(statsList) > Len(block))
      BY <1>1, FiniTyped DEF Ready, Unlisted
    <3>2. CASE Len(block) = Len(statsList)
      BY <2>2, <3>1, <3>2
    <3>3. CASE Len(statsList) > Len(block)
      <4>1. Len(block) \in Nat
        BY DEF Inv, CountersOK
      <4> QED
        BY <2>2, <3>1, <3>3, <4>1
    <3> QED
      BY <3>1, <3>2, <3>3
  <2>5. block' = <<>> => dynamic' = Zero'
    BY <1>1 DEF Ready, Zero, Indices
  <2>6. Ready'
    BY <1>1, <2>2, <2>3, <2>4, <2>5 DEF Ready, Null
  <2> QED
    BY <2>1, <2>2, <2>6, NotEnded DEF FiniInv, Exiting
<1> QED
  BY <1>2, <1>3

(***************************************************************************)
(* The places of a list of the first n numbers, each of them once, hold    *)
(* every one of them.                                                      *)
(***************************************************************************)
LEMMA AllListed ==
  ASSUME NEW n \in Nat, NEW s, \A k \in 1..n : s[k] \in 1..n,
         \A j, k \in 1..n : j < k => s[j] # s[k]
  PROVE  Listing(s, n)
<1> DEFINE p == [k \in 1..n |-> s[k]]
<1>1. \A j, k \in 1..n : s[j] = s[k] => j = k
  <2> SUFFICES ASSUME NEW j \in 1..n, NEW k \in 1..n, s[j] = s[k], j # k
               PROVE  FALSE
    OBVIOUS
  <2>1. j < k \/ k < j
    OBVIOUS
  <2> QED
    BY <2>1
<1>2. p \in Injection(1..n, 1..n)
  BY <1>1 DEF Injection, IsInjective
<1>3. IsFiniteSet(1..n)
  BY FS_Interval
<1> HIDE DEF p
<1>4. p \in Surjection(1..n, 1..n)
  BY <1>2, <1>3, FS_Injection
<1>5. \A b \in 1..n : \E k \in 1..n : p[k] = b
  BY <1>4 DEF Surjection
<1> QED
  BY <1>1, <1>5 DEF Listing, p

LEMMA SameListing ==
  ASSUME NEW n \in Nat, NEW s, Listing(s, n), NEW r, \A k \in 1..n : r[k] = s[k]
  PROVE  Listing(r, n)
<1>1. /\ \A k \in 1..n : r[k] \in 1..n
      /\ \A b \in 1..n : \E k \in 1..n : r[k] = b
  BY DEF Listing
<1>2. ASSUME NEW j \in 1..n, NEW k \in 1..n, r[j] = r[k] PROVE j = k
  <2>1. s[j] = s[k]
    BY <1>2
  <2> QED
    BY <2>1 DEF Listing
<1> QED
  BY <1>1, <1>2 DEF Listing

(***************************************************************************)
(* Before the first block nothing is summed.                               *)
(***************************************************************************)
LEMMA NothingSoFar ==
  ASSUME fini'.place = 1, fini'.rtn = 0, insmix'.sections = <<>>, dynamic' = Zero
  PROVE  Midway'
<1>1. 1..(fini'.place - 1) = {} /\ 1..0 = {} /\ fini'.place - 1 = 0
  OBVIOUS
<1>2. \A rtn : Places(rtn, 0)' = {} /\ Printed(insmix'.sections, rtn) = {}
  BY <1>1 DEF Places, Printed
<1>3. \A i \in Kinds : dynamic'[i] = SumOn(Adds(i)', {})
  BY SumEmpty, ZeroStats DEF Kinds, Indices
<1>4. dynamic'[Total] = 0
  BY ZeroStats DEF Indices
<1>5. ASSUME NEW rtn \in Routines PROVE SectionsSoFar(0, rtn)'
  <2>1. rtn # 0
    BY DEF Routines
  <2>2. \A i \in Kinds :
          PrintedSum(insmix'.sections, rtn, i) = 0 /\ SumOn(Adds(i)', Places(rtn, 0)') = 0
    BY <1>2, SumEmpty DEF PrintedSum
  <2>3. Cardinality(Printed(insmix'.sections, rtn)) = 0
    BY <1>2, FS_EmptySet
  <2> QED
    BY <1>2, <2>1, <2>2, <2>3 DEF SectionsSoFar, OneIf
<1> QED
  BY <1>1, <1>3, <1>4, <1>5 DEF Midway

(***************************************************************************)
(* A Fini starts only over a list without terminator, or without blocks.   *)
(***************************************************************************)
LEMMA StartTerminated ==
  ASSUME Inv, FiniInv, process = "running", ~ FollowsNull,
         NEW by \in Threads \cup {Pin}, StartFini(by), UNCHANGED <<block, dynamic>>,
         process' \in {"running", "exiting", "ended", "broken"}
  PROVE  Terminated' /\ dynamic' = Zero
<1> DEFINE n == Len(block)
<1>1. FiniTypes /\ Ready /\ process = "running" /\ block' = block /\ dynamic' = dynamic
  BY DEF FiniInv
<1>2. /\ Len(statsList') = Len(statsList) + 1
      /\ statsList'[Len(statsList) + 1] = Null
  BY <1>1, StartTypes
<1>3. n \in Nat /\ DOMAIN block = 1..n
  BY DEF Inv, CountersOK
<1>4. PICK s \in Seq((DOMAIN block) \cup {Null}) :
         /\ Len(s) = Len(statsList) /\ Sorted(s)
         /\ \A k \in 1..Len(statsList) : s[k] \in Range(statsList)
         /\ statsList' = Append(s, Null)
  BY <1>1, SortedList
<1>5. /\ Len(statsList) \in Nat /\ DOMAIN statsList = 1..Len(statsList)
      /\ DOMAIN s = 1..Len(statsList)
      /\ \A k \in 1..Len(statsList) : statsList'[k] = s[k]
  BY <1>1, <1>4, FiniTyped, AppendedTo
<1> HIDE DEF n
<1>6. CASE Null \notin Range(statsList)
  <2>1. Unlisted
    BY <1>1, <1>6 DEF Ready
  <2>2. Len(statsList) = n /\ Listing(statsList, n) /\ dynamic = Zero
    BY <2>1 DEF Unlisted, n
  <2>3. \A k \in 1..n : s[k] \in 1..n
    <3>1. Range(statsList) \subseteq 1..n
      BY <1>5, <2>2 DEF Range, Listing
    <3> QED
      BY <1>4, <2>2, <3>1
  <2>4. \A j, k \in 1..n : j < k => s[j] # s[k] /\ AddressOf(s[j]) <= AddressOf(s[k])
    <3>1. \A k \in 1..n : s[k] # Null
      BY <1>3, <2>3 DEF Null
    <3> QED
      BY <1>4, <1>5, <2>2, <3>1 DEF Sorted
  <2>5. Listing(s, n)
    BY <1>3, <2>3, <2>4, AllListed
  <2>6. Listing(statsList', n)
    <3>1. \A k \in 1..n : statsList'[k] = s[k]
      BY <1>5, <2>2
    <3> QED
      BY <1>3, <2>5, <3>1, SameListing
  <2>7. \A j, k \in 1..n : j < k => AddressOf(statsList'[j]) <= AddressOf(statsList'[k])
    BY <1>5, <2>2, <2>4
  <2>8. Len(block') = n /\ Len(statsList') > n /\ statsList'[n + 1] = Null
    BY <1>1, <1>2, <1>3, <2>2 DEF n
  <2> QED
    BY <1>1, <2>2, <2>6, <2>7, <2>8 DEF Terminated, Listing, AddressOf, Null
<1>7. CASE Null \in Range(statsList)
  <2>1. Len(statsList) > n /\ Len(statsList) <= 1
    BY <1>1, <1>5, <1>7 DEF Ready, FollowsNull, n
  <2>2. n = 0 /\ Len(statsList) = 1
    BY <1>3, <1>5, <2>1
  <2>3. block = <<>>
    BY <2>2 DEF n, Inv, CountersOK
  <2>4. dynamic = Zero
    BY <1>1, <2>3 DEF Ready
  <2>5. Range(statsList) = {Null}
    BY <1>5, <1>7, <2>2 DEF Range
  <2>6. statsList'[1] = Null /\ Len(statsList') > 0 /\ Len(block') = 0
    BY <1>1, <1>2, <1>4, <1>5, <2>2, <2>5 DEF n
  <2>7. 1..0 = {} /\ 0 + 1 = 1
    OBVIOUS
  <2>8. Terminated'
    BY <2>6, <2>7 DEF Terminated, Listing, Null
  <2> QED
    BY <1>1, <2>4, <2>8
<1> QED
  BY <1>6, <1>7

LEMMA ExitFini ==
  ASSUME Inv, FiniInv, Exit
  PROVE  FiniInv'
<1>1. /\ FiniTypes /\ Ready /\ process = "running"
      /\ block' = block /\ dynamic' = dynamic
  BY DEF FiniInv, Exit
<1>2. CASE FiniRuns \/ FollowsNull
  <2>1. process' = "broken" /\ statsList' = statsList /\ fini' = fini /\ insmix' = insmix
    BY <1>2 DEF Exit, Breaks
  <2>2. FiniTypes'
    BY <1>1, <2>1 DEF FiniTypes, Stats, Section, Indices, Null
  <2> QED
    BY <2>1, <2>2, NotEnded DEF FiniInv, Ready, Exiting
<1>3. CASE ~ (FiniRuns \/ FollowsNull)
  <2> DEFINE n == Len(block)
  <2>1. StartFini(Pin) /\ process' = "exiting"
    BY <1>1, <1>3 DEF Exit
  <2>2. /\ FiniTypes'
        /\ Len(statsList') = Len(statsList) + 1
        /\ statsList'[Len(statsList) + 1] = Null
        /\ FiniRuns'
        /\ fini'.by = Pin /\ fini'.place = 1 /\ fini'.rtn = 0
        /\ insmix'.sections = <<>>
    BY <1>1, <2>1, StartTypes
  <2>3. n \in Nat
    BY DEF Inv, CountersOK
  <2> HIDE DEF n
  <2>4. Terminated' /\ dynamic' = Zero
    BY <1>1, <1>3, <2>1, StartTerminated
  <2>5. Zero' = Zero
    BY DEF Zero, Indices
  <2>6. Midway'
    BY <2>2, <2>4, <2>5, NothingSoFar
  <2>7. fini'.place \in 1..(Len(block') + 1)
    BY <1>1, <2>2, <2>3 DEF n
  <2>8. Exiting'
    BY <2>2, <2>4, <2>6, <2>7 DEF Exiting
  <2> QED
    BY <2>1, <2>2, <2>8, NotEnded DEF FiniInv, Ready
<1> QED
  BY <1>2, <1>3

(***************************************************************************)
(* One more section: it counts for its routine and for no other.           *)
(***************************************************************************)
LEMMA PrintedSums ==
  ASSUME NEW sections \in Seq(Section), NEW rtn, NEW i \in Indices
  PROVE  /\ IsFiniteSet(Printed(sections, rtn))
         /\ Cardinality(Printed(sections, rtn)) \in Nat
         /\ Numbers([k \in DOMAIN sections |-> sections[k].stats[i]], DOMAIN sections)
         /\ PrintedSum(sections, rtn, i) \in Nat
<1> DEFINE f == [k \in DOMAIN sections |-> sections[k].stats[i]]
<1>1. DOMAIN sections = 1..Len(sections) /\ Len(sections) \in Nat
  OBVIOUS
<1>2. IsFiniteSet(DOMAIN sections)
  BY <1>1, FS_Interval
<1>3. Printed(sections, rtn) \in SUBSET DOMAIN sections
  BY DEF Printed
<1>4. IsFiniteSet(Printed(sections, rtn))
  BY <1>2, <1>3, FS_Subset
<1>5. \A k \in DOMAIN sections : sections[k].stats[i] \in Nat
  <2>1. \A k \in DOMAIN sections : sections[k] \in Section
    OBVIOUS
  <2> QED
    BY <2>1 DEF Section, Stats
<1>6. Numbers(f, DOMAIN sections)
  BY <1>5 DEF Numbers
<1> HIDE DEF f
<1>7. SumOn(f, Printed(sections, rtn)) \in Nat
  BY <1>2, <1>3, <1>6, SumIsNumber
<1> QED
  BY <1>4, <1>6, <1>7, FS_CardinalityType DEF PrintedSum, f

LEMMA SectionAppended ==
  ASSUME NEW sections \in Seq(Section), NEW e \in Section, NEW rtn, NEW i \in Indices
  PROVE  IF e.rtn = rtn
           THEN /\ PrintedSum(Append(sections, e), rtn, i)
                     = PrintedSum(sections, rtn, i) + e.stats[i]
                /\ Cardinality(Printed(Append(sections, e), rtn))
                     = Cardinality(Printed(sections, rtn)) + 1
           ELSE /\ PrintedSum(Append(sections, e), rtn, i) = PrintedSum(sections, rtn, i)
                /\ Printed(Append(sections, e), rtn) = Printed(sections, rtn)
<1> DEFINE n == Len(sections) + 1
           more == Append(sections, e)
           f == [k \in DOMAIN sections |-> sections[k].stats[i]]
           g == [k \in DOMAIN more |-> more[k].stats[i]]
           S == Printed(sections, rtn)
<1>1. /\ more \in Seq(Section) /\ DOMAIN more = 1..n /\ more[n] = e
      /\ \A k \in DOMAIN sections : more[k] = sections[k]
      /\ Len(sections) \in Nat /\ DOMAIN sections = 1..Len(sections)
  BY AppendedTo
<1>2. n \in DOMAIN more /\ n \notin DOMAIN sections
      /\ DOMAIN more = (DOMAIN sections) \cup {n}
  BY <1>1
<1>3. IsFiniteSet(S) /\ Numbers(f, DOMAIN sections) /\ S \in SUBSET DOMAIN sections
      /\ PrintedSum(sections, rtn, i) = SumOn(f, S)
  BY PrintedSums DEF Printed, PrintedSum
<1>4. Numbers(g, DOMAIN more)
  BY <1>1, PrintedSums
<1>5. Printed(more, rtn) = IF e.rtn = rtn THEN S \cup {n} ELSE S
  <2> HIDE DEF more, n
  <2> QED
    BY <1>1, <1>2 DEF Printed
<1>6. \A k \in S : g[k] = f[k]
  <2> HIDE DEF more, n
  <2> QED
    BY <1>1, <1>2, <1>3
<1>7. g[n] = e.stats[i]
  <2> HIDE DEF more, n
  <2> QED
    BY <1>1, <1>2
<1>8. PrintedSum(more, rtn, i) = SumOn(g, Printed(more, rtn))
  BY DEF PrintedSum
<1> HIDE DEF f, g, S, more, n
<1>9. SumOn(g, S) = SumOn(f, S)
  BY <1>3, <1>6, SumSame
<1>10. CASE e.rtn = rtn
  <2>1. Numbers(g, S) /\ n \notin S /\ g[n] \in Nat
    BY <1>2, <1>3, <1>4 DEF Numbers
  <2>2. SumOn(g, S \cup {n}) = g[n] + SumOn(g, S) /\ SumOn(g, S) \in Nat
    BY <1>3, <2>1, SumAdd
  <2>3. Cardinality(S \cup {n}) = Cardinality(S) + 1
    BY <1>3, <2>1, FS_AddElement
  <2>4. PrintedSum(more, rtn, i) = PrintedSum(sections, rtn, i) + e.stats[i]
    BY <1>3, <1>5, <1>7, <1>8, <1>9, <1>10, <2>1, <2>2
  <2> QED
    BY <1>5, <1>10, <2>3, <2>4 DEF more, S
<1>11. CASE e.rtn # rtn
  BY <1>3, <1>5, <1>8, <1>9, <1>11 DEF more, S
<1> QED
  BY <1>10, <1>11

(***************************************************************************)
(* Where the routine changes, what was in DynamicRtn is in a section.      *)
(***************************************************************************)
Closed(next, rtn) == fini.rtn = rtn /\ next # rtn

LEMMA SectionClosed ==
  ASSUME FiniTypes, NEW next, NEW rtn \in Routines, NEW i \in Indices
  PROVE  LET e == [rtn |-> fini.rtn, stats |-> Dumped(fini.sum)] IN
         IF Closed(next, rtn)
           THEN /\ PrintedSum(WithSection(next), rtn, i)
                     = PrintedSum(insmix.sections, rtn, i) + e.stats[i]
                /\ Cardinality(Printed(WithSection(next), rtn))
                     = Cardinality(Printed(insmix.sections, rtn)) + 1
           ELSE /\ PrintedSum(WithSection(next), rtn, i)
                     = PrintedSum(insmix.sections, rtn, i)
                /\ Printed(WithSection(next), rtn) = Printed(insmix.sections, rtn)
<1> DEFINE e == [rtn |-> fini.rtn, stats |-> Dumped(fini.sum)]
<1>1. insmix.sections \in Seq(Section) /\ e \in Section /\ fini.rtn \in Nat
  BY FiniTyped, SectionPrinted
<1>2. e.rtn = fini.rtn
  OBVIOUS
<1>3. rtn # 0 /\ rtn \in Nat
  <2>1. rtn \in Range(RtnOf) /\ rtn # 0
    BY DEF Routines
  <2> QED
    BY <2>1, CodeAssumption DEF Range
<1>4. WithSection(next) = IF fini.rtn # next /\ fini.rtn > 0
                            THEN Append(insmix.sections, e) ELSE insmix.sections
  BY DEF WithSection
<1> SUFFICES
      IF Closed(next, rtn)
        THEN /\ PrintedSum(WithSection(next), rtn, i)
                  = PrintedSum(insmix.sections, rtn, i) + e.stats[i]
             /\ Cardinality(Printed(WithSection(next), rtn))
                  = Cardinality(Printed(insmix.sections, rtn)) + 1
        ELSE /\ PrintedSum(WithSection(next), rtn, i)
                  = PrintedSum(insmix.sections, rtn, i)
             /\ Printed(WithSection(next), rtn) = Printed(insmix.sections, rtn)
  OBVIOUS
<1> HIDE DEF e
<1>5. CASE Closed(next, rtn)
  <2>1. WithSection(next) = Append(insmix.sections, e) /\ e.rtn = rtn
    BY <1>2, <1>3, <1>4, <1>5 DEF Closed
  <2>2. ASSUME e.rtn = rtn
        PROVE  /\ PrintedSum(Append(insmix.sections, e), rtn, i)
                    = PrintedSum(insmix.sections, rtn, i) + e.stats[i]
               /\ Cardinality(Printed(Append(insmix.sections, e), rtn))
                    = Cardinality(Printed(insmix.sections, rtn)) + 1
    BY <1>1, <2>2, SectionAppended
  <2> QED
    BY <1>5, <2>1, <2>2, Zenon
<1>6. CASE ~ Closed(next, rtn)
  <2>1. \/ WithSection(next) = insmix.sections
        \/ WithSection(next) = Append(insmix.sections, e) /\ e.rtn # rtn
    BY <1>2, <1>4, <1>6 DEF Closed
  <2>2. ASSUME e.rtn # rtn
        PROVE  /\ PrintedSum(Append(insmix.sections, e), rtn, i)
                    = PrintedSum(insmix.sections, rtn, i)
               /\ Printed(Append(insmix.sections, e), rtn)
                    = Printed(insmix.sections, rtn)
    BY <1>1, <2>2, SectionAppended
  <2> QED
    BY <1>6, <2>1, <2>2, Zenon
<1> QED
  BY <1>5, <1>6

LEMMA RoutineClosed ==
  ASSUME FiniTypes, NEW next, NEW rtn \in Routines, NEW i \in Kinds
  PROVE  /\ PrintedSum(WithSection(next), rtn, i)
              = PrintedSum(insmix.sections, rtn, i)
                  + IF Closed(next, rtn) THEN fini.sum[i] ELSE 0
         /\ PrintedSum(insmix.sections, rtn, i) \in Nat
         /\ fini.sum[i] \in Nat
<1>1. i \in Indices
  BY DEF Kinds, Indices
<1>2. PrintedSum(insmix.sections, rtn, i) \in Nat
  BY <1>1, FiniTyped, PrintedSums
<1>3. fini.sum[i] \in Nat /\ Dumped(fini.sum)[i] = fini.sum[i]
  BY <1>1, FiniTyped, DumpedStats DEF Stats
<1> QED
  BY <1>1, <1>2, <1>3, SectionClosed

LEMMA RoutineCounted ==
  ASSUME FiniTypes, NEW next, NEW rtn \in Routines
  PROVE  /\ Cardinality(Printed(WithSection(next), rtn))
              = Cardinality(Printed(insmix.sections, rtn)) + OneIf(Closed(next, rtn))
         /\ Cardinality(Printed(insmix.sections, rtn)) \in Nat
<1>1. Total \in Indices
  BY DEF Indices
<1>2. Cardinality(Printed(insmix.sections, rtn)) \in Nat
  BY <1>1, FiniTyped, PrintedSums
<1>3. IF Closed(next, rtn)
        THEN Cardinality(Printed(WithSection(next), rtn))
               = Cardinality(Printed(insmix.sections, rtn)) + 1
        ELSE Printed(WithSection(next), rtn) = Printed(insmix.sections, rtn)
  BY <1>1, SectionClosed
<1> QED
  BY <1>2, <1>3 DEF OneIf

(***************************************************************************)
(* What the places of the sorted list add.                                 *)
(***************************************************************************)
LEMMA PlacesAdd ==
  ASSUME Inv, Terminated, NEW i
  PROVE  /\ Len(block) \in Nat /\ IsFiniteSet(1..Len(block))
         /\ Numbers(Adds(i), 1..Len(block))
         /\ \A k \in 1..Len(block) :
              /\ statsList[k] \in DOMAIN block
              /\ Adds(i)[k] = counter[statsList[k]] * Occurs(block[statsList[k]], i)
              /\ Adds(i)[k] \in Nat
<1>1. CountersOK /\ Len(block) \in Nat /\ DOMAIN block = 1..Len(block)
  BY DEF Inv, CountersOK
<1>2. \A k \in 1..Len(block) : statsList[k] \in DOMAIN block
  BY <1>1 DEF Terminated, Listing
<1>3. \A b \in DOMAIN block : counter[b] * Occurs(block[b], i) \in Nat
  BY <1>1, AddedStats, ZeroStats
<1>4. \A k \in 1..Len(block) :
        Adds(i)[k] = counter[statsList[k]] * Occurs(block[statsList[k]], i)
  BY DEF Adds
<1>5. \A k \in 1..Len(block) : Adds(i)[k] \in Nat
  BY <1>2, <1>3, <1>4
<1>6. IsFiniteSet(1..Len(block))
  BY <1>1, FS_Interval
<1> QED
  BY <1>1, <1>2, <1>4, <1>5, <1>6 DEF Numbers

(***************************************************************************)
(* One iteration of the loop.  If a routine has an address of its own, its *)
(* blocks follow each other in the list.                                   *)
(***************************************************************************)
LEMMA BlocksTogether ==
  ASSUME Inv, Terminated, NEW p \in 1..Len(block), p > 1,
         NEW rtn \in Routines, Alone(rtn),
         RtnOf[block[statsList[p]]] = rtn, RtnOf[block[statsList[p - 1]]] # rtn
  PROVE  Places(rtn, p - 1) = {}
<1> DEFINE At(k) == AddressOf(statsList[k])
<1>1. Len(block) \in Nat /\ p - 1 \in 1..Len(block) /\ block \in Seq(Code)
      /\ DOMAIN block = 1..Len(block)
  BY DEF Inv, CountersOK
<1> SUFFICES ASSUME NEW k \in 1..(p - 1), RtnOf[block[statsList[k]]] = rtn
             PROVE  FALSE
  BY DEF Places
<1>2. k \in 1..Len(block) /\ (k < p - 1 \/ k = p - 1) /\ p - 1 < p
  BY <1>1
<1>3. ASSUME NEW j \in 1..Len(block) PROVE At(j) \in Nat /\ statsList[j] \in DOMAIN block
  <2>1. statsList[j] \in 1..Len(block)
    BY DEF Terminated, Listing
  <2>2. block[statsList[j]] \in Code
    BY <1>1, <2>1
  <2> QED
    BY <1>1, <2>1, <2>2, CodeAssumption DEF AddressOf
<1>4. At(k) = Address[rtn] /\ At(p) = Address[rtn]
  BY DEF AddressOf
<1>5. At(p - 1) <= At(p)
  BY <1>1, <1>2 DEF Terminated
<1>6. k < p - 1 => At(k) <= At(p - 1)
  BY <1>1, <1>2 DEF Terminated
<1>7. At(k) \in Nat /\ At(p - 1) \in Nat /\ At(p) \in Nat
  BY <1>1, <1>2, <1>3
<1>8. At(p - 1) = Address[rtn]
  <2> HIDE DEF At
  <2>1. CASE k < p - 1
    BY <1>4, <1>5, <1>6, <1>7, <2>1
  <2>2. CASE k = p - 1
    BY <1>4, <2>2
  <2> QED
    BY <1>2, <2>1, <2>2
<1>9. statsList[p - 1] \in DOMAIN block
  BY <1>1, <1>3
<1> QED
  BY <1>8, <1>9 DEF Alone

(***************************************************************************)
(* The list, the counters and the blocks are as they were.                 *)
(***************************************************************************)
LEMMA SameSums ==
  ASSUME UNCHANGED <<block, counter, statsList>>
  PROVE  /\ \A i : Adds(i)' = Adds(i)
         /\ \A rtn, n : Places(rtn, n)' = Places(rtn, n)
         /\ \A rtn : Alone(rtn)' = Alone(rtn)
         /\ Terminated' <=> Terminated
<1>1. block' = block /\ counter' = counter /\ statsList' = statsList
  OBVIOUS
<1>2. \A i : Adds(i)' = Adds(i)
  BY <1>1 DEF Adds, Occurs
<1>3. \A rtn, n : Places(rtn, n)' = Places(rtn, n)
  BY <1>1 DEF Places
<1>4. \A rtn : Alone(rtn)' = Alone(rtn)
  BY <1>1 DEF Alone, AddressOf
<1>5. Terminated' <=> Terminated
  BY <1>1 DEF Terminated, Listing, AddressOf, Null
<1> QED
  BY <1>2, <1>3, <1>4, <1>5

LEMMA OnePlaceMore ==
  ASSUME Inv, Terminated, NEW p \in 1..Len(block), NEW rtn, NEW i
  PROVE  /\ SumOn(Adds(i), 1..p) = SumOn(Adds(i), 1..(p - 1)) + Adds(i)[p]
         /\ SumOn(Adds(i), 1..(p - 1)) \in Nat
         /\ Adds(i)[p] \in Nat
         /\ Places(rtn, p) = IF RtnOf[block[statsList[p]]] = rtn
                               THEN Places(rtn, p - 1) \cup {p}
                               ELSE Places(rtn, p - 1)
         /\ p \notin Places(rtn, p - 1)
         /\ SumOn(Adds(i), Places(rtn, p - 1)) \in Nat
         /\ SumOn(Adds(i), Places(rtn, p))
              = SumOn(Adds(i), Places(rtn, p - 1))
                  + IF RtnOf[block[statsList[p]]] = rtn THEN Adds(i)[p] ELSE 0
<1> DEFINE S == 1..(p - 1)
<1>1. Len(block) \in Nat /\ Numbers(Adds(i), 1..Len(block)) /\ Adds(i)[p] \in Nat
  BY PlacesAdd
<1>2. p - 1 \in Nat /\ S \cup {p} = 1..p /\ p \notin S /\ S \in SUBSET (1..Len(block))
  BY <1>1
<1>3. IsFiniteSet(S)
  BY <1>2, FS_Interval
<1>4. Places(rtn, p) = IF RtnOf[block[statsList[p]]] = rtn
                         THEN Places(rtn, p - 1) \cup {p} ELSE Places(rtn, p - 1)
  <2> HIDE DEF S
  <2>1. Places(rtn, p) = {k \in S \cup {p} : RtnOf[block[statsList[k]]] = rtn}
    BY <1>2 DEF Places
  <2> QED
    BY <2>1 DEF Places, S
<1>5. Places(rtn, p - 1) \in SUBSET S
  BY DEF Places
<1> HIDE DEF S
<1>6. IsFiniteSet(Places(rtn, p - 1)) /\ p \notin Places(rtn, p - 1)
      /\ Numbers(Adds(i), S) /\ Numbers(Adds(i), Places(rtn, p - 1))
  BY <1>1, <1>2, <1>3, <1>5, FS_Subset DEF Numbers
<1>7. /\ SumOn(Adds(i), S \cup {p}) = Adds(i)[p] + SumOn(Adds(i), S)
      /\ SumOn(Adds(i), S) \in Nat
  BY <1>1, <1>2, <1>3, <1>6, SumAdd
<1>8. /\ SumOn(Adds(i), Places(rtn, p - 1) \cup {p})
           = Adds(i)[p] + SumOn(Adds(i), Places(rtn, p - 1))
      /\ SumOn(Adds(i), Places(rtn, p - 1)) \in Nat
  BY <1>1, <1>6, SumAdd
<1>9. /\ SumOn(Adds(i), S \cup {p}) = SumOn(Adds(i), S) + Adds(i)[p]
      /\ SumOn(Adds(i), Places(rtn, p - 1) \cup {p})
           = SumOn(Adds(i), Places(rtn, p - 1)) + Adds(i)[p]
  BY <1>1, <1>7, <1>8
<1>10. SumOn(Adds(i), Places(rtn, p))
         = SumOn(Adds(i), Places(rtn, p - 1))
             + IF RtnOf[block[statsList[p]]] = rtn THEN Adds(i)[p] ELSE 0
  BY <1>4, <1>8, <1>9
<1> QED
  BY <1>1, <1>2, <1>4, <1>6, <1>7, <1>8, <1>9, <1>10 DEF S

LEMMA AddBlockTypes ==
  ASSUME Inv, FiniTypes, AddBlock
  PROVE  /\ FiniTypes'
         /\ fini.place \in 1..Len(statsList) /\ statsList[fini.place] \in DOMAIN block
         /\ dynamic'[Total] = dynamic[Total]
         /\ \A i \in Kinds :
              dynamic'[i] = dynamic[i] + counter[statsList[fini.place]]
                                           * Occurs(block[statsList[fini.place]], i)
<1> DEFINE b == statsList[fini.place]
           rtn == RtnOf[block[b]]
<1>1. /\ fini.place \in DOMAIN statsList /\ b # Null
      /\ insmix' = [insmix EXCEPT !.sections = WithSection(rtn)]
      /\ fini' = [fini EXCEPT !.place = fini.place + 1, !.rtn = rtn,
                              !.sum = Added(DynamicRtn(b), b)]
      /\ dynamic' = Added(dynamic, b)
      /\ block' = block /\ statsList' = statsList /\ process' = process
  BY DEF AddBlock, instrumented
<1>2. fini.place \in 1..Len(statsList) /\ b \in DOMAIN block
  BY <1>1, FiniTyped
<1> HIDE DEF b
<1>3. CountersOK /\ block[b] \in Code
  BY <1>2 DEF Inv, CountersOK
<1>4. rtn \in Nat
  BY <1>3, CodeAssumption
<1>5. fini.sum \in Stats /\ dynamic \in Stats
  BY FiniTyped DEF FiniTypes
<1>6. DynamicRtn(b) \in Stats
  BY <1>5, ZeroStats DEF DynamicRtn
<1>7. Added(DynamicRtn(b), b) \in Stats
  BY <1>2, <1>3, <1>6, AddedStats
<1>8. /\ dynamic' \in Stats /\ dynamic'[Total] = dynamic[Total]
      /\ \A i \in Indices : dynamic'[i] = dynamic[i] + counter[b] * Occurs(block[b], i)
  BY <1>1, <1>2, <1>3, <1>5, AddedStats
<1>9. WithSection(rtn) \in Seq(Section)
  BY SectionPrinted
<1> HIDE DEF rtn
<1>10. fini' \in [by : Threads \cup {Pin}, place : Nat, rtn : Nat, sum : Stats]
  <2>1. fini.place + 1 \in Nat
    BY FiniTyped
  <2>2. fini \in [by : Threads \cup {Pin}, place : Nat, rtn : Nat, sum : Stats]
    BY DEF FiniTypes
  <2> QED
    BY <1>1, <1>4, <1>7, <2>1, <2>2
<1>11. insmix' \in [whole : BOOLEAN, sections : Seq(Section), dynamic : Stats]
  BY <1>1, <1>9 DEF FiniTypes
<1>12. FiniTypes'
  BY <1>1, <1>8, <1>10, <1>11 DEF FiniTypes, Stats, Section, Indices, Null
<1>13. \A i \in Kinds : dynamic'[i] = dynamic[i] + counter[b] * Occurs(block[b], i)
  BY <1>8 DEF Kinds, Indices
<1> QED
  BY <1>2, <1>8, <1>12, <1>13 DEF b

(***************************************************************************)
(* The sums of the loop, one place further.                                *)
(***************************************************************************)
LEMMA AddBlockSections ==
  ASSUME Inv, FiniTypes, AddBlock, Terminated, fini.place \in 1..Len(block),
         fini.rtn = IF fini.place = 1 THEN 0
                    ELSE RtnOf[block[statsList[fini.place - 1]]],
         NEW rtn \in Routines, SectionsSoFar(fini.place - 1, rtn)
  PROVE  SectionsSoFar(fini.place - 1, rtn)'
<1> DEFINE p == fini.place
           b == statsList[p]
           next == RtnOf[block[b]]
<1>1. /\ insmix' = [insmix EXCEPT !.sections = WithSection(next)]
      /\ fini' = [fini EXCEPT !.place = p + 1, !.rtn = next,
                              !.sum = Added(DynamicRtn(b), b)]
      /\ UNCHANGED <<block, counter, statsList>>
  BY DEF AddBlock, instrumented
<1>2. insmix'.sections = WithSection(next) /\ fini'.rtn = next
      /\ fini'.sum = Added(DynamicRtn(b), b)
  BY <1>1 DEF FiniTypes
<1>3. /\ \A i : Adds(i)' = Adds(i)
      /\ \A r, n : Places(r, n)' = Places(r, n)
      /\ \A r : Alone(r)' = Alone(r)
  BY <1>1, SameSums
<1>4. p \in 1..Len(block) /\ b \in DOMAIN block
  BY AddBlockTypes
<1>5. rtn # 0
  BY DEF Routines
<1>6. fini'.place = p + 1
  BY <1>1 DEF FiniTypes
<1>7. ASSUME NEW i \in Kinds
      PROVE  PrintedSum(insmix'.sections, rtn, i)
               + (IF fini'.rtn = rtn THEN fini'.sum[i] ELSE 0)
               = SumOn(Adds(i), Places(rtn, p))
  <2>1. /\ PrintedSum(WithSection(next), rtn, i)
             = PrintedSum(insmix.sections, rtn, i)
                 + IF Closed(next, rtn) THEN fini.sum[i] ELSE 0
        /\ PrintedSum(insmix.sections, rtn, i) \in Nat
        /\ fini.sum[i] \in Nat
    BY RoutineClosed
  <2>2. /\ SumOn(Adds(i), Places(rtn, p - 1)) \in Nat /\ Adds(i)[p] \in Nat
        /\ SumOn(Adds(i), Places(rtn, p))
             = SumOn(Adds(i), Places(rtn, p - 1)) + IF next = rtn THEN Adds(i)[p] ELSE 0
    <3> HIDE DEF p
    <3> QED
      BY <1>4, OnePlaceMore
  <2>3. PrintedSum(insmix.sections, rtn, i) + (IF fini.rtn = rtn THEN fini.sum[i] ELSE 0)
          = SumOn(Adds(i), Places(rtn, p - 1))
    BY DEF SectionsSoFar
  <2>4. Adds(i)[p] = counter[b] * Occurs(block[b], i)
    BY <1>4, PlacesAdd
  <2>5. fini'.sum[i] = (IF next = fini.rtn THEN fini.sum[i] ELSE 0) + Adds(i)[p]
    <3>1. i \in Indices /\ CountersOK /\ DynamicRtn(b) \in Stats
      BY ZeroStats, FiniTyped DEF Kinds, Indices, Inv, DynamicRtn
    <3>2. fini'.sum[i] = DynamicRtn(b)[i] + counter[b] * Occurs(block[b], i)
      BY <1>2, <1>4, <3>1, AddedStats
    <3>3. DynamicRtn(b)[i] = IF next = fini.rtn THEN fini.sum[i] ELSE 0
      BY <3>1, ZeroStats DEF DynamicRtn
    <3> QED
      BY <2>4, <3>2, <3>3
  <2> HIDE DEF p, b, next
  <2>6. CASE next = rtn
    <3>1. ~ Closed(next, rtn) /\ (next = fini.rtn <=> fini.rtn = rtn)
      BY <2>6 DEF Closed
    <3>2. PrintedSum(insmix'.sections, rtn, i) = PrintedSum(insmix.sections, rtn, i)
      BY <1>2, <2>1, <3>1
    <3>3. SumOn(Adds(i), Places(rtn, p))
            = SumOn(Adds(i), Places(rtn, p - 1)) + Adds(i)[p]
      BY <2>2, <2>6
    <3>4. fini'.rtn = next
      BY <1>2
    <3>5. fini'.sum[i] = (IF fini.rtn = rtn THEN fini.sum[i] ELSE 0) + Adds(i)[p]
      BY <2>5, <3>1
    <3> QED
      BY <2>1, <2>2, <2>3, <2>6, <3>2, <3>3, <3>4, <3>5
  <2>7. CASE next # rtn
    <3>1. Closed(next, rtn) <=> fini.rtn = rtn
      BY <2>7 DEF Closed
    <3> QED
      BY <1>2, <2>1, <2>2, <2>3, <2>7, <3>1
  <2> QED
    BY <2>6, <2>7
<1>8. ASSUME Alone(rtn)
      PROVE  Cardinality(Printed(insmix'.sections, rtn)) + OneIf(fini'.rtn = rtn)
               = OneIf(Places(rtn, p) # {})
  <2>1. Cardinality(Printed(WithSection(next), rtn))
          = Cardinality(Printed(insmix.sections, rtn)) + OneIf(Closed(next, rtn))
        /\ Cardinality(Printed(insmix.sections, rtn)) \in Nat
    BY RoutineCounted
  <2>2. Places(rtn, p) = IF next = rtn THEN Places(rtn, p - 1) \cup {p}
                                       ELSE Places(rtn, p - 1)
    BY <1>4, OnePlaceMore
  <2>3. Cardinality(Printed(insmix.sections, rtn)) + OneIf(fini.rtn = rtn)
          = OneIf(Places(rtn, p - 1) # {})
    BY <1>8 DEF SectionsSoFar
  <2>4. next = rtn /\ fini.rtn # rtn => Places(rtn, p - 1) = {}
    <3> SUFFICES ASSUME next = rtn, fini.rtn # rtn PROVE Places(rtn, p - 1) = {}
      OBVIOUS
    <3>1. CASE p = 1
      <4>1. 1..(p - 1) = {}
        BY <3>1
      <4> QED
        BY <4>1 DEF Places
    <3>2. CASE p # 1
      <4>1. p > 1
        BY <3>2, <1>4
      <4>2. RtnOf[block[statsList[p - 1]]] # rtn
        BY <3>2
      <4> QED
        BY <1>4, <1>8, <4>1, <4>2, BlocksTogether
    <3> QED
      BY <3>1, <3>2
  <2> HIDE DEF p, b, next
  <2>5. CASE next = rtn /\ fini.rtn = rtn
    <3>1. Places(rtn, p - 1) # {}
      BY <2>1, <2>3, <2>5 DEF OneIf
    <3> QED
      BY <1>2, <2>1, <2>2, <2>3, <2>5, <3>1 DEF OneIf, Closed
  <2>6. CASE next = rtn /\ fini.rtn # rtn
    BY <1>2, <2>1, <2>2, <2>3, <2>4, <2>6 DEF OneIf, Closed
  <2>7. CASE next # rtn
    BY <1>2, <2>1, <2>2, <2>3, <2>7 DEF OneIf, Closed
  <2> QED
    BY <2>5, <2>6, <2>7
<1>9. fini'.place - 1 = p
  BY <1>4, <1>6
<1> QED
  BY <1>3, <1>7, <1>8, <1>9 DEF SectionsSoFar, OneIf

LEMMA AddBlockExiting ==
  ASSUME Inv, FiniInv, AddBlock, process = "exiting"
  PROVE  Exiting'
<1> DEFINE p == fini.place
           b == statsList[p]
<1>1. /\ FiniTypes /\ FiniRuns /\ fini.by = Pin /\ Terminated
      /\ \/ fini.place \in 1..(Len(block) + 1) /\ Midway
         \/ fini.place = Len(statsList) + 1 /\ Complete
  BY DEF FiniInv, Exiting
<1>2. /\ fini.place \in 1..Len(statsList) /\ b \in DOMAIN block
      /\ dynamic'[Total] = dynamic[Total]
      /\ \A i \in Kinds : dynamic'[i] = dynamic[i] + counter[b] * Occurs(block[b], i)
      /\ FiniTypes'
  BY <1>1, AddBlockTypes
<1>3. /\ fini' = [fini EXCEPT !.place = p + 1, !.rtn = RtnOf[block[b]],
                              !.sum = Added(DynamicRtn(b), b)]
      /\ UNCHANGED <<block, counter, statsList, process>>
  BY DEF AddBlock, instrumented
<1>4. fini'.place = p + 1 /\ fini'.rtn = RtnOf[block[b]] /\ fini'.by = Pin
  BY <1>1, <1>3 DEF FiniTypes
<1>5. Len(block) \in Nat /\ Len(statsList) \in Nat /\ DOMAIN block = 1..Len(block)
  BY <1>1, FiniTyped DEF Inv, CountersOK
<1>6. Midway /\ fini.place \in 1..(Len(block) + 1)
  BY <1>1, <1>2, <1>5
<1>7. p # Len(block) + 1
  <2>1. statsList[Len(block) + 1] = Null /\ Null \notin DOMAIN block
    BY <1>1, <1>5 DEF Terminated, Null
  <2> QED
    BY <1>2, <2>1
<1>8. p \in 1..Len(block) /\ p + 1 \in 1..(Len(block) + 1) /\ (p + 1) - 1 = p /\ p + 1 # 1
  BY <1>5, <1>6, <1>7
<1>9. /\ \A i : Adds(i)' = Adds(i)
      /\ Terminated'
  BY <1>1, <1>3, SameSums
<1>10. ASSUME NEW i \in Kinds PROVE dynamic'[i] = SumOn(Adds(i), 1..p)
  <2>1. dynamic[i] = SumOn(Adds(i), 1..(p - 1))
    BY <1>6 DEF Midway
  <2>2. SumOn(Adds(i), 1..p) = SumOn(Adds(i), 1..(p - 1)) + Adds(i)[p]
    <3> HIDE DEF p
    <3> QED
      BY <1>1, <1>8, OnePlaceMore, Zenon
  <2>3. Adds(i)[p] = counter[b] * Occurs(block[b], i)
    BY <1>1, <1>8, PlacesAdd
  <2> QED
    BY <1>2, <2>1, <2>2, <2>3
<1>11. ASSUME NEW rtn \in Routines PROVE SectionsSoFar(fini.place - 1, rtn)'
  <2>1. SectionsSoFar(fini.place - 1, rtn)
    BY <1>6 DEF Midway
  <2>2. fini.rtn = IF fini.place = 1 THEN 0
                   ELSE RtnOf[block[statsList[fini.place - 1]]]
    BY <1>6 DEF Midway
  <2> QED
    BY <1>1, <1>8, <2>1, <2>2, AddBlockSections
<1>12. dynamic'[Total] = 0
  BY <1>2, <1>6 DEF Midway
<1>13. Midway'
  <2>1. fini'.rtn = RtnOf[block'[statsList'[fini'.place - 1]]]
    BY <1>3, <1>4, <1>8
  <2>2. \A i \in Kinds : dynamic'[i] = SumOn(Adds(i)', 1..(fini'.place - 1))
    BY <1>4, <1>8, <1>9, <1>10
  <2>3. fini'.place # 1
    BY <1>4, <1>8
  <2>4. Kinds' = Kinds /\ Routines' = Routines
    BY DEF Kinds, Routines, Range
  <2> QED
    BY <1>11, <1>12, <2>1, <2>2, <2>3, <2>4 DEF Midway
<1>14. FiniRuns'
  BY <1>4, <1>8 DEF FiniRuns, NoFini
<1> QED
  BY <1>3, <1>4, <1>8, <1>9, <1>13, <1>14 DEF Exiting

(***************************************************************************)
(* The last routine is printed and the total is added up.                  *)
(***************************************************************************)
LEMMA AddTotalsTypes ==
  ASSUME FiniTypes, AddTotals
  PROVE  /\ FiniTypes'
         /\ fini.place \in 1..Len(statsList) /\ statsList[fini.place] = Null
         /\ fini'.place = Len(statsList) + 1 /\ fini'.rtn = fini.rtn
         /\ fini'.by = fini.by
         /\ insmix' = [whole |-> TRUE, sections |-> WithSection(-1),
                       dynamic |-> Dumped(dynamic)]
         /\ FiniRuns'
         /\ dynamic' = Dumped(dynamic)
         /\ UNCHANGED <<block, counter, statsList, process>>
<1>1. /\ fini.place \in DOMAIN statsList /\ statsList[fini.place] = Null
      /\ insmix' = [whole |-> TRUE, sections |-> WithSection(-1), dynamic |-> dynamic']
      /\ fini' = [fini EXCEPT !.place = Len(statsList) + 1]
      /\ dynamic' = Dumped(dynamic)
      /\ UNCHANGED <<block, counter, statsList, process>>
  BY DEF AddTotals, instrumented
<1>2. fini.place \in 1..Len(statsList) /\ Len(statsList) \in Nat
  BY <1>1, FiniTyped
<1>3. dynamic' \in Stats
  BY <1>1, DumpedStats DEF FiniTypes
<1>4. WithSection(-1) \in Seq(Section)
  BY SectionPrinted
<1>5. fini \in [by : Threads \cup {Pin}, place : Nat, rtn : Nat, sum : Stats]
  BY DEF FiniTypes
<1>6. Len(statsList) + 1 \in Nat /\ Len(statsList) + 1 # 0
  BY <1>2
<1>7. /\ fini' \in [by : Threads \cup {Pin}, place : Nat, rtn : Nat, sum : Stats]
      /\ fini'.place = Len(statsList) + 1 /\ fini'.rtn = fini.rtn /\ fini'.by = fini.by
  BY <1>1, <1>5, <1>6
<1>8. insmix' \in [whole : BOOLEAN, sections : Seq(Section), dynamic : Stats]
  BY <1>1, <1>3, <1>4
<1>9. FiniTypes'
  BY <1>1, <1>3, <1>7, <1>8 DEF FiniTypes, Stats, Section, Indices, Null
<1>10. FiniRuns'
  BY <1>6, <1>7 DEF FiniRuns, NoFini
<1> QED
  BY <1>1, <1>2, <1>7, <1>9, <1>10

LEMMA AddTotalsExiting ==
  ASSUME Inv, FiniInv, AddTotals, process = "exiting"
  PROVE  Exiting'
<1> DEFINE n == Len(block)
<1>1. /\ FiniTypes /\ FiniRuns /\ fini.by = Pin /\ Terminated
      /\ \/ fini.place \in 1..(Len(block) + 1) /\ Midway
         \/ fini.place = Len(statsList) + 1 /\ Complete
  BY DEF FiniInv, Exiting
<1>2. /\ fini.place \in 1..Len(statsList) /\ statsList[fini.place] = Null
      /\ fini'.place = Len(statsList) + 1 /\ fini'.by = fini.by
      /\ insmix' = [whole |-> TRUE, sections |-> WithSection(-1),
                    dynamic |-> Dumped(dynamic)]
      /\ FiniRuns'
      /\ UNCHANGED <<block, counter, statsList, process>>
  BY <1>1, AddTotalsTypes
<1>3. Len(block) \in Nat /\ Len(statsList) \in Nat
  BY <1>1, FiniTyped DEF Inv, CountersOK
<1>4. Midway /\ fini.place \in 1..(n + 1)
  BY <1>1, <1>2, <1>3
<1>5. fini.place = n + 1 /\ fini.place - 1 = n
  <2>1. \A k \in 1..n : statsList[k] # Null
    BY <1>1, <1>3 DEF Terminated, Listing, Null
  <2> QED
    BY <1>2, <1>3, <1>4, <2>1
<1>6. /\ \A i : Adds(i)' = Adds(i)
      /\ \A r, m : Places(r, m)' = Places(r, m)
      /\ \A r : Alone(r)' = Alone(r)
      /\ Terminated'
  BY <1>1, <1>2, SameSums
<1>7. dynamic \in Stats
  BY <1>1 DEF FiniTypes
<1>8. insmix'.whole /\ insmix'.sections = WithSection(-1) /\ insmix'.dynamic = Dumped(dynamic)
  BY <1>2
<1>9. \A i \in Kinds : insmix'.dynamic[i] = SumOn(Adds(i), 1..n)
  <2> SUFFICES ASSUME NEW i \in Kinds PROVE insmix'.dynamic[i] = SumOn(Adds(i), 1..n)
    OBVIOUS
  <2>1. dynamic[i] = SumOn(Adds(i), 1..n)
    BY <1>4, <1>5 DEF Midway
  <2>2. Dumped(dynamic)[i] = dynamic[i]
    BY <1>7, DumpedStats
  <2> QED
    BY <1>8, <2>1, <2>2
<1>10. insmix'.dynamic[Total] = SumOn(insmix'.dynamic, Opcodes)
  <2>1. dynamic[Total] = 0
    BY <1>4 DEF Midway
  <2>2. /\ Dumped(dynamic)[Total] = dynamic[Total] + SumOn(dynamic, Opcodes)
        /\ SumOn(Dumped(dynamic), Opcodes) = SumOn(dynamic, Opcodes)
        /\ SumOn(dynamic, Opcodes) \in Nat
    BY <1>7, DumpedStats
  <2> QED
    BY <1>8, <2>1, <2>2
<1>11. ASSUME NEW rtn \in Routines PROVE AllSections(rtn)'
  <2>1. SectionsSoFar(n, rtn)
    BY <1>4, <1>5 DEF Midway
  <2>2. rtn \in Nat
    BY CodeAssumption DEF Routines, Range
  <2>3. Closed(-1, rtn) <=> fini.rtn = rtn
    BY <2>2 DEF Closed
  <2>4. ASSUME NEW i \in Kinds
        PROVE  PrintedSum(insmix'.sections, rtn, i) = SumOn(Adds(i), Places(rtn, n))
    <3>1. PrintedSum(WithSection(-1), rtn, i)
            = PrintedSum(insmix.sections, rtn, i)
                + IF Closed(-1, rtn) THEN fini.sum[i] ELSE 0
      BY <1>1, RoutineClosed
    <3>2. PrintedSum(insmix.sections, rtn, i)
            + (IF fini.rtn = rtn THEN fini.sum[i] ELSE 0) = SumOn(Adds(i), Places(rtn, n))
      BY <2>1 DEF SectionsSoFar
    <3> QED
      BY <1>8, <2>3, <3>1, <3>2
  <2>5. ASSUME Alone(rtn)
        PROVE  Cardinality(Printed(insmix'.sections, rtn)) = OneIf(Places(rtn, n) # {})
    <3>1. Cardinality(Printed(WithSection(-1), rtn))
            = Cardinality(Printed(insmix.sections, rtn)) + OneIf(Closed(-1, rtn))
      BY <1>1, RoutineCounted
    <3>2. Cardinality(Printed(insmix.sections, rtn)) + OneIf(fini.rtn = rtn)
            = OneIf(Places(rtn, n) # {})
      BY <2>1, <2>5 DEF SectionsSoFar
    <3> QED
      BY <1>8, <2>3, <3>1, <3>2 DEF OneIf
  <2>6. Len(block') = n
    BY <1>2
  <2> QED
    BY <1>6, <2>4, <2>5, <2>6 DEF AllSections, OneIf, Kinds
<1>12. Complete'
  <2>1. Len(block') = n
    BY <1>2
  <2> QED
    BY <1>6, <1>8, <1>9, <1>10, <1>11, <2>1 DEF Complete, Kinds, Routines, Range
<1>13. fini'.place = Len(statsList') + 1
  BY <1>2
<1> QED
  BY <1>1, <1>2, <1>6, <1>12, <1>13 DEF Exiting

(***************************************************************************)
(* The blocks in front of the terminator are all blocks.                   *)
(***************************************************************************)
LEMMA AllBlocksListed ==
  ASSUME Inv, FiniTypes, Terminated
  PROVE  Listed = 1..Len(block)
<1> DEFINE n == Len(block)
           At == {k \in 1..Len(statsList) : statsList[k] = Null}
<1>1. n \in Nat /\ Len(statsList) \in Nat /\ Len(statsList) > n
      /\ statsList[n + 1] = Null
  BY FiniTyped DEF Terminated, Inv, CountersOK
<1>2. \A k \in 1..n : statsList[k] # Null
  BY <1>1 DEF Terminated, Listing, Null
<1>3. n + 1 \in At /\ At \in SUBSET Nat
  BY <1>1
<1>4. \A k \in At : n + 1 <= k
  BY <1>1, <1>2
<1> HIDE DEF n, At
<1>5. Min(At) = n + 1
  <2>1. \A x \in At : (\A y \in At : x <= y) <=> x = n + 1
    <3> SUFFICES ASSUME NEW x \in At, \A y \in At : x <= y PROVE x = n + 1
      BY <1>4
    <3>1. x <= n + 1 /\ n + 1 <= x
      BY <1>3, <1>4
    <3> QED
      BY <1>1, <1>3, <3>1
  <2> QED
    BY <1>3, <2>1 DEF Min
<1>6. SelectInSeq(statsList, LAMBDA b : b = Null) = n + 1
  <2>1. At # {}
    BY <1>3
  <2> QED
    BY <1>5, <2>1 DEF SelectInSeq, At
<1>7. (n + 1) - 1 = n
  BY <1>1
<1> QED
  BY <1>6, <1>7 DEF Listed, n

(***************************************************************************)
(* A sum over the places of some blocks is the sum over the blocks.        *)
(***************************************************************************)
LEMMA PlacesAreBlocks ==
  ASSUME Inv, Terminated, NEW B \in SUBSET DOMAIN block, NEW i
  PROVE  SumOn(Adds(i), {k \in 1..Len(block) : statsList[k] \in B}) = SumOver(B, i)
<1> DEFINE K == {k \in 1..Len(block) : statsList[k] \in B}
           g == [b \in B |-> counter[b] * Occurs(block[b], i)]
           p == [k \in K |-> statsList[k]]
           h == [k \in K |-> g[p[k]]]
<1>1. Len(block) \in Nat /\ DOMAIN block = 1..Len(block) /\ CountersOK
  BY DEF Inv, CountersOK
<1>2. IsFiniteSet(1..Len(block))
  BY <1>1, FS_Interval
<1>3. K \in SUBSET (1..Len(block))
  OBVIOUS
<1>4. IsFiniteSet(B) /\ IsFiniteSet(K)
  BY <1>1, <1>2, <1>3, FS_Subset
<1>5. Numbers(g, B)
  <2>1. \A b \in B : counter[b] * Occurs(block[b], i) \in Nat
    BY <1>1, AddedStats, ZeroStats
  <2> QED
    BY <2>1 DEF Numbers
<1>6. p \in [K -> B]
  OBVIOUS
<1>7. \A j, k \in K : p[j] = p[k] => j = k
  BY DEF Terminated, Listing
<1>8. \A b \in B : \E k \in K : p[k] = b
  <2> SUFFICES ASSUME NEW b \in B PROVE \E k \in K : p[k] = b
    OBVIOUS
  <2>1. b \in 1..Len(block)
    BY <1>1
  <2>2. PICK k \in 1..Len(block) : statsList[k] = b
    BY <2>1 DEF Terminated, Listing
  <2>3. k \in K
    BY <2>2
  <2> QED
    BY <2>2, <2>3
<1>9. \A k \in K : Adds(i)[k] = h[k]
  BY DEF Adds
<1>10. SumOver(B, i) = SumOn(g, B)
  BY DEF SumOver, SumFunction, SumOn
<1> HIDE DEF K, g, p
<1>11. SumOn(h, K) = SumOn(g, B)
  BY <1>4, <1>5, <1>6, <1>7, <1>8, SumMoved
<1> HIDE DEF h
<1>12. SumOn(Adds(i), K) = SumOn(h, K)
  BY <1>4, <1>9, SumSame
<1> QED
  BY <1>10, <1>11, <1>12 DEF K

(***************************************************************************)
(* The opcodes of all blocks are the instructions executed.                *)
(***************************************************************************)
LEMMA OpcodesOfAll ==
  ASSUME Inv, Terminated, NEW stats \in Stats,
         \A i \in Opcodes : stats[i] = SumOn(Adds(i), 1..Len(block))
  PROVE  SumOn(stats, Opcodes)
           = SumOn([k \in 1..Len(block) |->
                      counter[statsList[k]] * Len(Ins[block[statsList[k]]])],
                   1..Len(block))
<1> DEFINE K == 1..Len(block)
           m == [i \in Opcodes |-> Adds(i)]
           row == [i \in Opcodes |-> SumOn(m[i], K)]
           column == [k \in K |-> SumOn([i \in Opcodes |-> m[i][k]], Opcodes)]
           f == [k \in K |-> counter[statsList[k]] * Len(Ins[block[statsList[k]]])]
<1>1. IsFiniteSet(K) /\ IsFiniteSet(Opcodes)
  BY PlacesAdd, OpcodesAssumption
<1>2. \A i \in Opcodes : Adds(i) \in [K -> Nat]
  <2> SUFFICES ASSUME NEW i \in Opcodes PROVE Adds(i) \in [K -> Nat]
    OBVIOUS
  <2>1. \A k \in K : Adds(i)[k] \in Nat
    BY PlacesAdd
  <2> HIDE DEF K
  <2>2. Adds(i) = [k \in K |-> Adds(i)[k]]
    BY DEF Adds, K
  <2> QED
    BY <2>1, <2>2
<1>3. m \in [Opcodes -> [K -> Nat]]
  BY <1>2
<1>4. SumOn(row, Opcodes) = SumOn(column, K)
  <2> HIDE DEF K, m
  <2> QED
    BY <1>1, <1>3, SumExchange
<1>5. \A i \in Opcodes : stats[i] = row[i]
  OBVIOUS
<1>6. ASSUME NEW k \in K PROVE column[k] = f[k]
  <2> DEFINE b == statsList[k]
             o == [i \in Opcodes |-> Occurs(block[b], i)]
             t == [i \in Opcodes |-> counter[b] * o[i]]
             c == [i \in Opcodes |-> m[i][k]]
  <2>1. b \in DOMAIN block /\ \A i \in Opcodes : Adds(i)[k] = counter[b] * Occurs(block[b], i)
    BY PlacesAdd
  <2> HIDE DEF b
  <2>2. block[b] \in Code /\ counter[b] \in Nat
    BY <2>1, OneBlock DEF Inv, CountersOK
  <2>3. Numbers(o, Opcodes) /\ SumOn(o, Opcodes) = Len(Ins[block[b]])
    BY <2>2, OccursInBlock DEF Numbers
  <2>4. \A i \in Opcodes : c[i] = t[i]
    BY <2>1
  <2> HIDE DEF o
  <2>5. SumOn(t, Opcodes) = counter[b] * SumOn(o, Opcodes)
    BY <1>1, <2>2, <2>3, SumTimes
  <2> HIDE DEF t, c
  <2>6. SumOn(c, Opcodes) = SumOn(t, Opcodes)
    BY <1>1, <2>4, SumSame
  <2>7. column[k] = SumOn(c, Opcodes)
    BY DEF c
  <2>8. f[k] = counter[b] * Len(Ins[block[b]])
    BY DEF b
  <2> QED
    BY <2>3, <2>5, <2>6, <2>7, <2>8, Zenon
<1> HIDE DEF row, column, f
<1>7. SumOn(stats, Opcodes) = SumOn(row, Opcodes)
  BY <1>1, <1>5, SumSame
<1> HIDE DEF K
<1>8. SumOn(column, K) = SumOn(f, K)
  BY <1>1, <1>6, SumSame
<1>9. SumOn(stats, Opcodes) = SumOn(f, K)
  BY <1>4, <1>7, <1>8
<1> QED
  BY <1>9 DEF f, K

LEMMA ListBlocksStep ==
  ASSUME FiniTypes, ListBlocks
  PROVE  /\ FiniTypes' /\ ~ FiniRuns'
         /\ bblcnt' = [i \in Listed |-> [block |-> statsList[i],
                                         count |-> counter[statsList[i]]]]
         /\ process' = IF fini.by = Pin THEN "ended" ELSE process
         /\ UNCHANGED <<block, counter, statsList, dynamic, insmix>>
         /\ FiniRuns /\ fini.place = Len(statsList) + 1
         /\ process \in {"running", "exiting"}
<1>1. /\ fini' = NoFini
      /\ UNCHANGED <<block, counter, statsList, dynamic, insmix>>
      /\ process' = IF fini.by = Pin THEN "ended" ELSE process
      /\ process \in {"running", "exiting"}
  BY DEF ListBlocks, instrumented, Alive
<1>2. NoFini \in [by : Threads \cup {Pin}, place : Nat, rtn : Nat, sum : Stats]
  BY ZeroStats DEF NoFini
<1>3. FiniTypes'
  BY <1>1, <1>2 DEF FiniTypes, Stats, Section, Indices, Null
<1>4. ~ FiniRuns'
  BY <1>1 DEF FiniRuns, NoFini, Zero, Indices
<1> QED
  BY <1>1, <1>3, <1>4 DEF ListBlocks

LEMMA ListBlocksProfile ==
  ASSUME Inv, FiniInv, ListBlocks, process = "exiting"
  PROVE  LastProfileAgrees'
<1> DEFINE n == Len(block)
           f == [k \in 1..n |->
                   counter[statsList[k]] * Len(Ins[block[statsList[k]]])]
           g == [i \in DOMAIN bblcnt' |->
                   bblcnt'[i].count * Len(Ins[block[bblcnt'[i].block]])]
<1>1. /\ FiniTypes /\ Terminated
      /\ \/ fini.place \in 1..(Len(block) + 1) /\ Midway
         \/ fini.place = Len(statsList) + 1 /\ Complete
  BY DEF FiniInv, Exiting
<1>2. /\ bblcnt' = [i \in Listed |-> [block |-> statsList[i],
                                      count |-> counter[statsList[i]]]]
      /\ UNCHANGED <<block, counter, statsList, insmix>>
      /\ fini.place = Len(statsList) + 1
  BY <1>1, ListBlocksStep
<1>3. n \in Nat /\ DOMAIN block = 1..n /\ Len(statsList) \in Nat /\ Len(statsList) > n
  BY <1>1, FiniTyped DEF Inv, CountersOK, Terminated
<1>4. Complete
  BY <1>1, <1>2, <1>3
<1>5. Listed = 1..n
  BY <1>1, AllBlocksListed
<1>6. DOMAIN bblcnt' = 1..n
  BY <1>2, <1>5
<1>7. \A i \in 1..n : bblcnt'[i].block = statsList[i]
                      /\ bblcnt'[i].count = counter[statsList[i]]
  BY <1>2, <1>5
<1>8. Len(bblcnt') = n
  BY <1>2, <1>3, <1>5
<1>9. insmix'.whole
  BY <1>2, <1>4 DEF Complete
<1>10. ASSUME NEW i \in Opcodes \cup Special
       PROVE  insmix'.dynamic[i] = SumOver(DOMAIN block, i)'
  <2>1. insmix'.dynamic[i] = SumOn(Adds(i), 1..n)
    BY <1>2, <1>4 DEF Complete, Kinds
  <2>2. 1..n = {k \in 1..n : statsList[k] \in DOMAIN block}
    BY <1>1, <1>3 DEF Terminated, Listing
  <2>3. SumOn(Adds(i), {k \in 1..n : statsList[k] \in DOMAIN block})
          = SumOver(DOMAIN block, i)
    BY <1>1, PlacesAreBlocks
  <2>4. SumOver(DOMAIN block, i)' = SumOver(DOMAIN block, i)
    BY <1>2 DEF SumOver, Occurs
  <2> QED
    BY <2>1, <2>2, <2>3, <2>4
<1>11. insmix'.dynamic[Total] = SumFunction(g)
  <2>1. insmix.dynamic[Total] = SumOn(insmix.dynamic, Opcodes)
    BY <1>4 DEF Complete
  <2>2. insmix.dynamic \in Stats
    BY <1>1, FiniTyped
  <2>3. \A i \in Opcodes : insmix.dynamic[i] = SumOn(Adds(i), 1..Len(block))
    BY <1>4 DEF Complete, Kinds
  <2>4. SumOn(insmix.dynamic, Opcodes) = SumOn(f, 1..n)
    BY <1>1, <2>2, <2>3, OpcodesOfAll
  <2>5. \A i \in 1..n : f[i] = g[i]
    BY <1>6, <1>7
  <2>6. SumFunction(g) = SumOn(g, 1..n)
    BY <1>6 DEF SumFunction, SumOn
  <2> HIDE DEF f, g
  <2>7. IsFiniteSet(1..n)
    BY <1>3, FS_Interval
  <2>8. SumOn(f, 1..n) = SumOn(g, 1..n)
    BY <2>5, <2>7, SumSame
  <2> QED
    BY <1>2, <2>1, <2>4, <2>6, <2>8
<1>12. \A b \in DOMAIN block : \E i \in DOMAIN bblcnt' : bblcnt'[i].block = b
  <2> SUFFICES ASSUME NEW b \in DOMAIN block
               PROVE  \E i \in DOMAIN bblcnt' : bblcnt'[i].block = b
    OBVIOUS
  <2>1. PICK k \in 1..n : statsList[k] = b
    BY <1>1, <1>3 DEF Terminated, Listing
  <2> QED
    BY <1>6, <1>7, <2>1
<1>13. block' = block
  BY <1>2
<1> QED
  BY <1>8, <1>9, <1>10, <1>11, <1>12, <1>13 DEF LastProfileAgrees

LEMMA ListBlocksSections ==
  ASSUME Inv, FiniInv, ListBlocks, process = "exiting"
  PROVE  SectionsAddUp'
<1> DEFINE n == Len(block)
<1>1. /\ FiniTypes /\ Terminated
      /\ \/ fini.place \in 1..(Len(block) + 1) /\ Midway
         \/ fini.place = Len(statsList) + 1 /\ Complete
  BY DEF FiniInv, Exiting
<1>2. /\ UNCHANGED <<block, counter, statsList, insmix>>
      /\ fini.place = Len(statsList) + 1
  BY <1>1, ListBlocksStep
<1>3. n \in Nat /\ DOMAIN block = 1..n /\ Len(statsList) \in Nat /\ Len(statsList) > n
  BY <1>1, FiniTyped DEF Inv, CountersOK, Terminated
<1>4. Complete
  BY <1>1, <1>2, <1>3
<1>5. ASSUME NEW rtn \in Range(RtnOf) \ {0}, NEW i \in Opcodes \cup Special
      PROVE  SumFunction([k \in SectionsOf(rtn) |-> insmix.sections[k].stats[i]])
               = SumOver(BlocksOf(rtn), i)
  <2> DEFINE f == [k \in DOMAIN insmix.sections |-> insmix.sections[k].stats[i]]
             g == [k \in SectionsOf(rtn) |-> insmix.sections[k].stats[i]]
  <2>1. PrintedSum(insmix.sections, rtn, i) = SumOn(Adds(i), Places(rtn, n))
    BY <1>4 DEF Complete, AllSections, Routines, Kinds
  <2>2. SectionsOf(rtn) = Printed(insmix.sections, rtn)
    BY DEF SectionsOf, Printed
  <2>3. IsFiniteSet(SectionsOf(rtn))
    BY <1>1, <2>2, FiniTyped, PrintedSums DEF Indices
  <2>4. PrintedSum(insmix.sections, rtn, i) = SumOn(f, SectionsOf(rtn))
    BY <2>2 DEF PrintedSum
  <2>5. SumFunction(g) = SumOn(g, SectionsOf(rtn))
    BY DEF SumFunction, SumOn
  <2>6. \A k \in SectionsOf(rtn) : f[k] = g[k]
    BY DEF SectionsOf
  <2> HIDE DEF f, g
  <2>7. SumOn(f, SectionsOf(rtn)) = SumOn(g, SectionsOf(rtn))
    BY <2>3, <2>6, SumSame
  <2>8. Places(rtn, n) = {k \in 1..n : statsList[k] \in BlocksOf(rtn)}
    BY <1>1, <1>3 DEF Places, BlocksOf, Terminated, Listing
  <2>9. BlocksOf(rtn) \in SUBSET DOMAIN block
    BY DEF BlocksOf
  <2>10. SumOn(Adds(i), {k \in 1..n : statsList[k] \in BlocksOf(rtn)})
           = SumOver(BlocksOf(rtn), i)
    BY <1>1, <2>9, PlacesAreBlocks
  <2>11. SumFunction(g) = SumOver(BlocksOf(rtn), i)
    BY <2>1, <2>4, <2>5, <2>7, <2>8, <2>10
  <2> QED
    BY <2>11 DEF g
<1>6. ASSUME NEW rtn \in Range(RtnOf) \ {0},
             \A b \in DOMAIN block : AddressOf(b) = Address[rtn] => RtnOf[block[b]] = rtn
      PROVE  Cardinality(SectionsOf(rtn)) = (IF BlocksOf(rtn) = {} THEN 0 ELSE 1)
  <2>1. Alone(rtn)
    BY <1>6 DEF Alone
  <2>2. Cardinality(Printed(insmix.sections, rtn)) = OneIf(Places(rtn, n) # {})
    BY <1>4, <2>1 DEF Complete, AllSections, Routines
  <2>3. SectionsOf(rtn) = Printed(insmix.sections, rtn)
    BY DEF SectionsOf, Printed
  <2>4. Places(rtn, n) = {} <=> BlocksOf(rtn) = {}
    <3>1. ASSUME NEW k \in Places(rtn, n) PROVE statsList[k] \in BlocksOf(rtn)
      BY <1>1, <1>3 DEF Places, BlocksOf, Terminated, Listing
    <3>2. ASSUME NEW b \in BlocksOf(rtn) PROVE \E k \in 1..n : k \in Places(rtn, n)
      <4>1. b \in 1..n /\ RtnOf[block[b]] = rtn
        BY <1>3 DEF BlocksOf
      <4>2. PICK k \in 1..n : statsList[k] = b
        BY <1>1, <4>1 DEF Terminated, Listing
      <4> QED
        BY <4>1, <4>2 DEF Places
    <3> QED
      BY <3>1, <3>2
  <2> QED
    BY <2>2, <2>3, <2>4 DEF OneIf
<1>7. block' = block /\ counter' = counter /\ insmix' = insmix
  BY <1>2
<1>8. /\ \A rtn : SectionsOf(rtn)' = SectionsOf(rtn) /\ BlocksOf(rtn)' = BlocksOf(rtn)
      /\ \A b : AddressOf(b)' = AddressOf(b)
      /\ \A rtn, i : SumOver(BlocksOf(rtn), i)' = SumOver(BlocksOf(rtn), i)
  BY <1>7 DEF SectionsOf, BlocksOf, AddressOf, SumOver, Occurs
<1>9. ASSUME NEW rtn \in Range(RtnOf) \ {0}
      PROVE  /\ \A i \in Opcodes \cup Special :
                  SumFunction([k \in SectionsOf(rtn)' |-> insmix'.sections[k].stats[i]])
                    = SumOver(BlocksOf(rtn), i)'
             /\ (\A b \in DOMAIN block' :
                   AddressOf(b)' = Address[rtn] => RtnOf[block'[b]] = rtn) =>
                  Cardinality(SectionsOf(rtn)') = (IF BlocksOf(rtn)' = {} THEN 0 ELSE 1)
  <2>1. \A i \in Opcodes \cup Special :
           SumFunction([k \in SectionsOf(rtn)' |-> insmix'.sections[k].stats[i]])
             = SumOver(BlocksOf(rtn), i)'
    BY <1>5, <1>7, <1>8
  <2>2. ASSUME \A b \in DOMAIN block' :
                 AddressOf(b)' = Address[rtn] => RtnOf[block'[b]] = rtn
        PROVE  Cardinality(SectionsOf(rtn)') = (IF BlocksOf(rtn)' = {} THEN 0 ELSE 1)
    BY <1>6, <1>7, <1>8, <2>2
  <2> QED
    BY <2>1, <2>2
<1> QED
  BY <1>9 DEF SectionsAddUp, Range

(***************************************************************************)
(* In the middle of the run the terminator is in the list, and there are   *)
(* sums only if there are blocks.                                          *)
(***************************************************************************)
LEMMA AddBlockFini ==
  ASSUME Inv, FiniInv, AddBlock
  PROVE  FiniInv'
<1>1. FiniTypes /\ Ready
  BY DEF FiniInv
<1>2. /\ FiniTypes' /\ fini.place \in 1..Len(statsList)
      /\ statsList[fini.place] \in DOMAIN block
  BY <1>1, AddBlockTypes
<1>3. /\ process' = process /\ process \in {"running", "exiting"}
      /\ block' = block /\ statsList' = statsList
      /\ fini' = [fini EXCEPT !.place = fini.place + 1,
                              !.rtn = RtnOf[block[statsList[fini.place]]],
                              !.sum = Added(DynamicRtn(statsList[fini.place]),
                                            statsList[fini.place])]
  BY DEF AddBlock, Alive, instrumented
<1>4. ASSUME process = "running" PROVE Ready'
  <2>1. FiniRuns
    <3>1. fini.place # 0
      BY <1>1, <1>2, FiniTyped
    <3> QED
      BY <3>1 DEF FiniRuns, NoFini
  <2>2. Null \in Range(statsList) /\ fini.by # Pin /\ Len(statsList) > Len(block)
    BY <1>1, <1>4, <2>1 DEF Ready
  <2>3. fini'.by = fini.by
    BY <1>3 DEF FiniTypes
  <2>4. block # <<>>
    BY <1>2
  <2> QED
    BY <1>3, <2>2, <2>3, <2>4 DEF Ready, Range, Null
<1>5. Ready'
  BY <1>3, <1>4 DEF Ready
<1>6. Exiting'
  <2>1. CASE process = "exiting"
    BY <2>1, AddBlockExiting
  <2>2. CASE process # "exiting"
    BY <1>3, <2>2 DEF Exiting
  <2> QED
    BY <2>1, <2>2
<1> QED
  BY <1>2, <1>3, <1>5, <1>6, NotEnded DEF FiniInv

LEMMA AddTotalsFini ==
  ASSUME Inv, FiniInv, AddTotals
  PROVE  FiniInv'
<1>1. FiniTypes /\ Ready
  BY DEF FiniInv
<1>2. /\ FiniTypes' /\ fini.place \in 1..Len(statsList)
      /\ fini'.by = fini.by /\ dynamic' = Dumped(dynamic)
      /\ UNCHANGED <<block, counter, statsList, process>>
  BY <1>1, AddTotalsTypes
<1>3. process \in {"running", "exiting"}
  BY DEF AddTotals, Alive
<1>4. ASSUME process = "running" PROVE Ready'
  <2>1. FiniRuns
    <3>1. fini.place # 0
      BY <1>1, <1>2, FiniTyped
    <3> QED
      BY <3>1 DEF FiniRuns, NoFini
  <2>2. Null \in Range(statsList) /\ fini.by # Pin /\ Len(statsList) > Len(block)
    BY <1>1, <1>4, <2>1 DEF Ready
  <2>3. block = <<>> => dynamic' = Zero
    BY <1>1, <1>2, <1>4, ZeroStats DEF Ready
  <2>4. Zero' = Zero
    BY DEF Zero, Indices
  <2> QED
    BY <1>2, <2>2, <2>3, <2>4 DEF Ready, Range, Null
<1>5. Ready'
  BY <1>2, <1>4 DEF Ready
<1>6. Exiting'
  <2>1. CASE process = "exiting"
    BY <2>1, AddTotalsExiting
  <2>2. CASE process # "exiting"
    BY <1>2, <2>2 DEF Exiting
  <2> QED
    BY <2>1, <2>2
<1> QED
  BY <1>2, <1>3, <1>5, <1>6, NotEnded DEF FiniInv

LEMMA ListBlocksFini ==
  ASSUME Inv, FiniInv, ListBlocks
  PROVE  FiniInv'
<1>1. FiniTypes /\ Ready /\ Exiting
  BY DEF FiniInv
<1>2. /\ FiniTypes' /\ ~ FiniRuns'
      /\ process' = IF fini.by = Pin THEN "ended" ELSE process
      /\ UNCHANGED <<block, counter, statsList, dynamic, insmix>>
      /\ FiniRuns /\ process \in {"running", "exiting"}
  BY <1>1, ListBlocksStep
<1>3. CASE process = "running"
  <2>1. process' = "running" /\ Null \in Range(statsList) /\ Len(statsList) > Len(block)
    BY <1>1, <1>2, <1>3 DEF Ready
  <2>2. Zero' = Zero
    BY DEF Zero, Indices
  <2>3. Ready'
    BY <1>1, <1>2, <1>3, <2>1, <2>2 DEF Ready, Range, Null
  <2> QED
    BY <1>2, <2>1, <2>3, NotEnded DEF FiniInv, Exiting
<1>4. CASE process = "exiting"
  <2>1. process' = "ended"
    BY <1>1, <1>2, <1>4 DEF Exiting
  <2>2. LastProfileAgrees' /\ SectionsAddUp'
    BY <1>4, ListBlocksProfile, ListBlocksSections
  <2> QED
    BY <1>2, <2>1, <2>2 DEF FiniInv, Ready, Exiting
<1> QED
  BY <1>2, <1>3, <1>4

(***************************************************************************)
(* Nothing happens.                                                        *)
(***************************************************************************)
LEMMA StutterFini ==
  ASSUME FiniInv, UNCHANGED vars
  PROVE  FiniInv'
<1>1. /\ block' = block /\ counter' = counter /\ statsList' = statsList
      /\ fini' = fini /\ process' = process /\ dynamic' = dynamic
      /\ insmix' = insmix /\ bblcnt' = bblcnt
  BY DEF vars, instrumented, files
<1>2. FiniTypes /\ Ready /\ Exiting /\ LastProfileAgrees /\ SectionsAddUp
  BY DEF FiniInv
<1>3. FiniTypes'
  BY <1>1, <1>2 DEF FiniTypes, Stats, Section, Indices, Null
<1>4. Ready'
  BY <1>1, <1>2 DEF Ready, Unlisted, Listing, FiniRuns, NoFini, Zero, Indices, Null, Range
<1>5. LastProfileAgrees'
  <2>1. \A i : SumOver(DOMAIN block, i)' = SumOver(DOMAIN block, i)
    BY <1>1 DEF SumOver, Occurs
  <2>2. SumFunction([i \in DOMAIN bblcnt' |->
                       bblcnt'[i].count * Len(Ins[block'[bblcnt'[i].block]])])
          = SumFunction([i \in DOMAIN bblcnt |->
                           bblcnt[i].count * Len(Ins[block[bblcnt[i].block]])])
    BY <1>1
  <2> QED
    BY <1>1, <1>2, <2>1, <2>2 DEF LastProfileAgrees
<1>6. SectionsAddUp'
  <2>1. /\ \A rtn : SectionsOf(rtn)' = SectionsOf(rtn) /\ BlocksOf(rtn)' = BlocksOf(rtn)
        /\ \A rtn, i : SumOver(BlocksOf(rtn), i)' = SumOver(BlocksOf(rtn), i)
        /\ \A b : AddressOf(b)' = AddressOf(b)
    BY <1>1 DEF SectionsOf, BlocksOf, SumOver, AddressOf, Occurs
  <2>2. \A rtn, i : SumFunction([k \in SectionsOf(rtn)' |-> insmix'.sections[k].stats[i]])
                      = SumFunction([k \in SectionsOf(rtn) |-> insmix.sections[k].stats[i]])
    BY <1>1, <2>1
  <2> QED
    BY <1>1, <1>2, <2>1, <2>2 DEF SectionsAddUp, Range
<1>7. Exiting'
  <2> SUFFICES ASSUME process = "exiting" PROVE Exiting'
    BY <1>1 DEF Exiting
  <2>1. /\ Terminated' /\ \A i : Adds(i)' = Adds(i)
        /\ \A rtn, n : Places(rtn, n)' = Places(rtn, n)
        /\ \A rtn : Alone(rtn)' = Alone(rtn)
    BY <1>1, <1>2, SameSums DEF Exiting
  <2>2. FiniRuns' /\ fini'.by = Pin
    BY <1>1, <1>2 DEF Exiting, FiniRuns, NoFini, Zero, Indices
  <2>3. ASSUME NEW rtn, AllSections(rtn) PROVE AllSections(rtn)'
    BY <1>1, <2>1, <2>3 DEF AllSections, Kinds
  <2>4. CASE fini.place \in 1..(Len(block) + 1) /\ Midway
    <3>1. \A rtn \in Routines : SectionsSoFar(fini.place - 1, rtn)
      BY <2>4 DEF Midway
    <3>2. \A rtn \in Routines : SectionsSoFar(fini.place - 1, rtn)'
      BY <1>1, <2>1, <3>1 DEF SectionsSoFar, Kinds
    <3>3. Midway'
      BY <1>1, <2>1, <2>4, <3>2 DEF Midway, Kinds, Routines, Range
    <3> QED
      BY <1>1, <2>1, <2>2, <2>4, <3>3 DEF Exiting
  <2>5. CASE fini.place = Len(statsList) + 1 /\ Complete
    <3>1. Complete'
      BY <1>1, <2>1, <2>3, <2>5 DEF Complete, Kinds, Routines, Range
    <3> QED
      BY <1>1, <2>1, <2>2, <2>5, <3>1 DEF Exiting
  <2> QED
    BY <1>2, <2>4, <2>5 DEF Exiting
<1> QED
  BY <1>3, <1>4, <1>5, <1>6, <1>7 DEF FiniInv

LEMMA NextFini ==
  ASSUME Inv, FiniInv, [Next]_vars
  PROVE  FiniInv'
<1>1. CASE \E c \in Code : Trace(c)
  BY <1>1, TraceFini
<1>2. CASE Handler
  BY <1>2, RunningFini DEF Handler, instrumented, files
<1>3. CASE \E t \in Threads : \E b \in DOMAIN block : Read(t, b)
  <2>1. process = "running" /\ UNCHANGED <<block, statsList, fini, process, dynamic, insmix>>
    BY <1>3 DEF Read, Runs, instrumented, files
  <2> QED
    BY <2>1, RunningFini
<1>4. CASE \E t \in Threads : Write(t)
  <2>1. process = "running" /\ UNCHANGED <<block, statsList, fini, process, dynamic, insmix>>
    BY <1>4 DEF Write, files
  <2> QED
    BY <2>1, RunningFini
<1>5. CASE \E t \in Threads : Syscall(t)
  BY <1>5, SyscallFini
<1>6. CASE Exit
  BY <1>6, ExitFini
<1>7. CASE AddBlock
  BY <1>7, AddBlockFini
<1>8. CASE AddTotals
  BY <1>8, AddTotalsFini
<1>9. CASE ListBlocks
  BY <1>9, ListBlocksFini
<1>10. CASE UNCHANGED vars
  BY <1>10, StutterFini
<1> QED
  BY <1>1, <1>2, <1>3, <1>4, <1>5, <1>6, <1>7, <1>8, <1>9, <1>10 DEF Next

(***************************************************************************)
(* What is summed in the middle of a run is bounded by what was executed.  *)
(* Larger numbers over a larger set have a larger sum.                     *)
(***************************************************************************)
LEMMA TimesGrows ==
  ASSUME NEW a \in Nat, NEW b \in Nat, NEW c \in Nat, a <= b
  PROVE  a * c <= b * c /\ a * c \in Nat /\ b * c \in Nat
<1>1. b - a \in Nat /\ b = a + (b - a)
  OBVIOUS
<1>2. /\ c * (a + (b - a)) = c * a + c * (b - a)
      /\ c * a \in Nat /\ c * (b - a) \in Nat /\ c * b \in Nat
  BY <1>1, Distributes
<1>3. c * a <= c * b
  BY <1>1, <1>2
<1>4. c * a = a * c /\ c * b = b * c
  OBVIOUS
<1> QED
  BY <1>2, <1>3, <1>4

LEMMA SumGrows ==
  ASSUME NEW S, NEW T, IsFiniteSet(T), S \subseteq T, NEW f, NEW g, Numbers(f, S),
         Numbers(g, T), \A x \in S : f[x] <= g[x]
  PROVE  SumOn(f, S) <= SumOn(g, T)
<1> DEFINE d == [x \in S |-> g[x] - f[x]]
           h == [x \in S |-> f[x] + d[x]]
           R == T \ S
<1>1. IsFiniteSet(S) /\ IsFiniteSet(R) /\ S \cup R = T /\ S \cap R = {}
  BY FS_Subset
<1>2. Numbers(g, S) /\ Numbers(g, R)
  BY DEF Numbers
<1>3. Numbers(d, S) /\ \A x \in S : h[x] = g[x]
  BY <1>2 DEF Numbers
<1>4. SumOn(h, S) = SumOn(f, S) + SumOn(d, S)
  BY <1>1, <1>3, SumPlus
<1> HIDE DEF d, h, R
<1>5. SumOn(h, S) = SumOn(g, S)
  BY <1>1, <1>3, SumSame
<1>6. SumOn(g, T) = SumOn(g, S) + SumOn(g, R)
  BY <1>1, <1>2, SumUnion
<1>7. SumOn(f, S) \in Nat /\ SumOn(d, S) \in Nat /\ SumOn(g, R) \in Nat
  BY <1>1, <1>2, <1>3, SumIsNumber
<1> QED
  BY <1>4, <1>5, <1>6, <1>7

(***************************************************************************)
(* The blocks a Fini has passed, and how far its sums may have got.        *)
(***************************************************************************)
Passed(place) == {statsList[k] : k \in 1..(place - 1)}

LowSoFar ==
  /\ fini.place \in 1..(Len(block) + 1)
  /\ dynamic[Total] = 0
  /\ \A i \in Kinds : dynamic[i] <= SumOn(ExecutedAs(i), Passed(fini.place))

LowInv ==
  /\ Alive /\ FiniRuns =>
       Terminated /\ (LowSoFar \/ fini.place = Len(statsList) + 1)
  /\ ProfileIsLow

LEMMA WeightedNumbers ==
  ASSUME NEW codes \in Seq(Code), NEW times \in Seq(Nat), Len(times) = Len(codes)
  PROVE  /\ IsFiniteSet(DOMAIN codes)
         /\ \A b \in DOMAIN codes :
              /\ times[b] \in Nat /\ codes[b] \in Code /\ Len(Ins[codes[b]]) \in Nat
              /\ \A i : Occurs(codes[b], i) \in Nat
         /\ \A i : Numbers([b \in DOMAIN codes |-> times[b] * Occurs(codes[b], i)],
                         DOMAIN codes)
         /\ Numbers([b \in DOMAIN codes |-> times[b] * Len(Ins[codes[b]])], DOMAIN codes)
<1>1. DOMAIN codes = 1..Len(codes) /\ Len(codes) \in Nat /\ DOMAIN times = DOMAIN codes
  OBVIOUS
<1>2. IsFiniteSet(DOMAIN codes)
  BY <1>1, FS_Interval
<1>3. ASSUME NEW b \in DOMAIN codes
      PROVE  /\ times[b] \in Nat /\ codes[b] \in Code /\ Len(Ins[codes[b]]) \in Nat
             /\ \A i : Occurs(codes[b], i) \in Nat
  <2>1. times[b] \in Nat /\ codes[b] \in Code
    BY <1>1
  <2>2. Ins[codes[b]] \in Seq(Instruction)
    BY <2>1, CodeAssumption
  <2>3. Len(Ins[codes[b]]) \in Nat
    BY <2>2
  <2> QED
    BY <2>1, <2>3, OccursInBlock
<1>4. ASSUME NEW b \in DOMAIN codes
      PROVE  /\ times[b] * Len(Ins[codes[b]]) \in Nat
             /\ \A i : times[b] * Occurs(codes[b], i) \in Nat
  <2>1. times[b] * Len(Ins[codes[b]]) \in Nat
    BY <1>3, Distributes
  <2>2. ASSUME NEW i PROVE times[b] * Occurs(codes[b], i) \in Nat
    BY <1>3, Distributes
  <2> QED
    BY <2>1, <2>2
<1> QED
  BY <1>2, <1>3, <1>4 DEF Numbers

LEMMA ExecutedNumbers ==
  ASSUME CountersOK
  PROVE  /\ IsFiniteSet(DOMAIN block)
         /\ \A i : Numbers(ExecutedAs(i), DOMAIN block)
         /\ Numbers(ExecutedIns, DOMAIN block)
         /\ \A b \in DOMAIN block :
              /\ executed[b] \in Nat /\ block[b] \in Code /\ Len(Ins[block[b]]) \in Nat
              /\ \A i : Occurs(block[b], i) \in Nat
BY WeightedNumbers DEF CountersOK, ExecutedAs, ExecutedIns

(***************************************************************************)
(* More executions, or more blocks, leave more room.                       *)
(***************************************************************************)
LEMMA RoomGrows ==
  ASSUME CountersOK, CountersOK',
         \A b \in DOMAIN block : /\ b \in DOMAIN block' /\ block'[b] = block[b]
                                 /\ executed[b] <= executed'[b]
  PROVE  /\ \A i : \A P \in SUBSET DOMAIN block :
              SumOn(ExecutedAs(i), P) <= SumOn(ExecutedAs(i)', P)
         /\ \A i : SumFunction(ExecutedAs(i)) <= SumFunction(ExecutedAs(i)')
         /\ SumFunction(ExecutedIns) <= SumFunction(ExecutedIns')
<1>1. /\ IsFiniteSet(DOMAIN block) /\ IsFiniteSet(DOMAIN block')
      /\ DOMAIN block \subseteq DOMAIN block'
      /\ \A i : Numbers(ExecutedAs(i), DOMAIN block)
      /\ \A i : Numbers(ExecutedAs(i)', DOMAIN block')
      /\ Numbers(ExecutedIns, DOMAIN block) /\ Numbers(ExecutedIns', DOMAIN block')
      /\ \A b \in DOMAIN block' : executed'[b] \in Nat
  <2>1. /\ IsFiniteSet(DOMAIN block') /\ \A i : Numbers(ExecutedAs(i)', DOMAIN block')
        /\ Numbers(ExecutedIns', DOMAIN block')
        /\ \A b \in DOMAIN block' : executed'[b] \in Nat
    BY WeightedNumbers DEF CountersOK, ExecutedAs, ExecutedIns, Occurs
  <2> QED
    BY <2>1, ExecutedNumbers
<1>2. ASSUME NEW i, NEW b \in DOMAIN block PROVE ExecutedAs(i)[b] <= ExecutedAs(i)'[b]
  <2>1. /\ executed[b] \in Nat /\ executed'[b] \in Nat /\ Occurs(block[b], i) \in Nat
        /\ b \in DOMAIN block' /\ block'[b] = block[b]
    BY <1>1, ExecutedNumbers
  <2>2. executed[b] * Occurs(block[b], i) <= executed'[b] * Occurs(block[b], i)
    BY <2>1, TimesGrows
  <2> QED
    BY <2>1, <2>2 DEF ExecutedAs, Occurs
<1>3. ASSUME NEW b \in DOMAIN block PROVE ExecutedIns[b] <= ExecutedIns'[b]
  <2>1. /\ executed[b] \in Nat /\ executed'[b] \in Nat /\ Len(Ins[block[b]]) \in Nat
        /\ b \in DOMAIN block' /\ block'[b] = block[b]
    BY <1>1, ExecutedNumbers
  <2>2. executed[b] * Len(Ins[block[b]]) <= executed'[b] * Len(Ins[block[b]])
    BY <2>1, TimesGrows
  <2> QED
    BY <2>1, <2>2 DEF ExecutedIns
<1>4. ASSUME NEW i, NEW P \in SUBSET DOMAIN block
      PROVE  SumOn(ExecutedAs(i), P) <= SumOn(ExecutedAs(i)', P)
  <2>1. IsFiniteSet(P) /\ Numbers(ExecutedAs(i), P) /\ Numbers(ExecutedAs(i)', P)
    BY <1>1, FS_Subset DEF Numbers
  <2>2. \A b \in P : ExecutedAs(i)[b] <= ExecutedAs(i)'[b]
    BY <1>2
  <2> QED
    BY <2>1, <2>2, SumGrows
<1>5. ASSUME NEW i PROVE SumFunction(ExecutedAs(i)) <= SumFunction(ExecutedAs(i)')
  <2>1. SumOn(ExecutedAs(i), DOMAIN block) <= SumOn(ExecutedAs(i)', DOMAIN block')
    BY <1>1, <1>2, SumGrows
  <2>2. DOMAIN ExecutedAs(i) = DOMAIN block /\ DOMAIN ExecutedAs(i)' = DOMAIN block'
    BY DEF ExecutedAs
  <2> QED
    BY <2>1, <2>2 DEF SumFunction, SumOn
<1>6. SumFunction(ExecutedIns) <= SumFunction(ExecutedIns')
  <2>1. SumOn(ExecutedIns, DOMAIN block) <= SumOn(ExecutedIns', DOMAIN block')
    BY <1>1, <1>3, SumGrows
  <2>2. DOMAIN ExecutedIns = DOMAIN block /\ DOMAIN ExecutedIns' = DOMAIN block'
    BY DEF ExecutedIns
  <2> QED
    BY <2>1, <2>2 DEF SumFunction, SumOn
<1> QED
  BY <1>4, <1>5, <1>6

(***************************************************************************)
(* The room is a number, before and after a step, and a profile that was   *)
(* low stays so when the room grows.                                       *)
(***************************************************************************)
LEMMA RoomNumbers ==
  ASSUME CountersOK, CountersOK'
  PROVE  /\ \A i : \A P \in SUBSET DOMAIN block : SumOn(ExecutedAs(i), P) \in Nat
         /\ \A i : \A P \in SUBSET DOMAIN block' : SumOn(ExecutedAs(i)', P) \in Nat
         /\ \A i : SumFunction(ExecutedAs(i)) \in Nat /\ SumFunction(ExecutedAs(i)') \in Nat
         /\ SumFunction(ExecutedIns) \in Nat /\ SumFunction(ExecutedIns') \in Nat
<1>1. /\ IsFiniteSet(DOMAIN block) /\ \A i : Numbers(ExecutedAs(i), DOMAIN block)
      /\ Numbers(ExecutedIns, DOMAIN block)
  BY ExecutedNumbers
<1>2. /\ IsFiniteSet(DOMAIN block') /\ \A i : Numbers(ExecutedAs(i)', DOMAIN block')
      /\ Numbers(ExecutedIns', DOMAIN block')
  BY WeightedNumbers DEF CountersOK, ExecutedAs, ExecutedIns, Occurs
<1>3. /\ \A i : \A P \in SUBSET DOMAIN block : SumOn(ExecutedAs(i), P) \in Nat
      /\ \A i : \A P \in SUBSET DOMAIN block' : SumOn(ExecutedAs(i)', P) \in Nat
  BY <1>1, <1>2, SumIsNumber
<1>4. SumOn(ExecutedIns, DOMAIN block) \in Nat /\ SumOn(ExecutedIns', DOMAIN block') \in Nat
  BY <1>1, <1>2, SumIsNumber
<1>5. /\ \A i : DOMAIN ExecutedAs(i) = DOMAIN block /\ DOMAIN ExecutedAs(i)' = DOMAIN block'
      /\ DOMAIN ExecutedIns = DOMAIN block /\ DOMAIN ExecutedIns' = DOMAIN block'
  BY DEF ExecutedAs, ExecutedIns
<1>6. \A i : SumFunction(ExecutedAs(i)) \in Nat /\ SumFunction(ExecutedAs(i)') \in Nat
  BY <1>3, <1>5 DEF SumFunction, SumOn
<1>7. SumFunction(ExecutedIns) \in Nat /\ SumFunction(ExecutedIns') \in Nat
  BY <1>4, <1>5 DEF SumFunction, SumOn
<1> QED
  BY <1>3, <1>6, <1>7

LEMMA LowRoom ==
  ASSUME CountersOK, CountersOK', FiniTypes, ProfileIsLow, insmix' = insmix,
         process # "broken",
         \A i : SumFunction(ExecutedAs(i)) <= SumFunction(ExecutedAs(i)'),
         SumFunction(ExecutedIns) <= SumFunction(ExecutedIns')
  PROVE  ProfileIsLow'
<1> SUFFICES ASSUME insmix.whole PROVE ProfileIsLow'
  BY DEF ProfileIsLow
<1>1. insmix.dynamic \in Stats
  BY FiniTyped
<1>2. ASSUME NEW i \in Opcodes \cup Special
      PROVE  insmix.dynamic[i] <= SumFunction(ExecutedAs(i)')
  <2>1. insmix.dynamic[i] <= SumFunction(ExecutedAs(i))
    BY DEF ProfileIsLow
  <2>2. insmix.dynamic[i] \in Nat
    BY <1>1 DEF Stats, Indices
  <2> QED
    BY <2>1, <2>2, RoomNumbers
<1>3. insmix.dynamic[Total] <= SumFunction(ExecutedIns')
  <2>1. insmix.dynamic[Total] <= SumFunction(ExecutedIns)
    BY DEF ProfileIsLow
  <2>2. insmix.dynamic[Total] \in Nat
    BY <1>1 DEF Stats, Indices
  <2> QED
    BY <2>1, <2>2, RoomNumbers
<1> QED
  BY <1>2, <1>3 DEF ProfileIsLow

(***************************************************************************)
(* A block is passed once.                                                 *)
(***************************************************************************)
LEMMA PassedBlocks ==
  ASSUME Terminated, NEW p \in 1..(Len(block) + 1), Len(block) \in Nat,
         DOMAIN block = 1..Len(block)
  PROVE  /\ Passed(p) \in SUBSET DOMAIN block
         /\ p <= Len(block) => /\ statsList[p] \notin Passed(p)
                               /\ Passed(p + 1) = Passed(p) \cup {statsList[p]}
<1>1. \A k \in 1..(p - 1) : k \in 1..Len(block) /\ k # p
  OBVIOUS
<1>2. Passed(p) \in SUBSET DOMAIN block
  BY <1>1 DEF Passed, Terminated, Listing
<1>3. ASSUME p <= Len(block) PROVE statsList[p] \notin Passed(p)
  <2>1. p \in 1..Len(block)
    BY <1>3
  <2>2. Listing(statsList, Len(block))
    BY DEF Terminated
  <2>3. \A j, k \in 1..Len(block) : statsList[j] = statsList[k] => j = k
    BY <2>2 DEF Listing
  <2>4. \A k \in 1..(p - 1) : statsList[k] # statsList[p]
    BY <1>1, <2>1, <2>3
  <2> QED
    BY <2>4 DEF Passed
<1>4. Passed(p + 1) = Passed(p) \cup {statsList[p]}
  <2>1. 1..((p + 1) - 1) = (1..(p - 1)) \cup {p}
    OBVIOUS
  <2> QED
    BY <2>1 DEF Passed
<1> QED
  BY <1>2, <1>3, <1>4

(***************************************************************************)
(* A step of the run that Fini does not see, or a step that leaves the     *)
(* profile as it is.                                                       *)
(***************************************************************************)
LEMMA LowKept ==
  ASSUME LowInv, UNCHANGED <<block, statsList, executed, dynamic, insmix, fini, process>>
  PROVE  LowInv'
<1>1. \A i : ExecutedAs(i)' = ExecutedAs(i)
  BY DEF ExecutedAs, Occurs
<1>2. ExecutedIns' = ExecutedIns
  BY DEF ExecutedIns
<1>3. Passed(fini.place)' = Passed(fini.place)
  BY DEF Passed
<1>4. ProfileIsLow'
  BY <1>1, <1>2 DEF LowInv, ProfileIsLow
<1>5. LowSoFar => LowSoFar'
  BY <1>1, <1>3 DEF LowSoFar, Kinds
<1>6. Terminated => Terminated'
  BY DEF Terminated, Listing, AddressOf, Null
<1>7. FiniRuns' => FiniRuns
  BY DEF FiniRuns, NoFini, Zero, Indices
<1>8. Alive' => Alive
  BY DEF Alive
<1> QED
  BY <1>4, <1>5, <1>6, <1>7, <1>8 DEF LowInv

LEMMA SameProfile ==
  ASSUME ProfileIsLow, process # "broken", UNCHANGED <<block, executed, insmix>>
  PROVE  ProfileIsLow'
<1>1. \A i : ExecutedAs(i)' = ExecutedAs(i)
  BY DEF ExecutedAs, Occurs
<1>2. ExecutedIns' = ExecutedIns
  BY DEF ExecutedIns
<1> QED
  BY <1>1, <1>2 DEF ProfileIsLow

LEMMA InitLow ==
  ASSUME Init
  PROVE  LowInv
BY DEF Init, LowInv, ProfileIsLow, FiniRuns

LEMMA TraceLow ==
  ASSUME Inv, Inv', FiniTypes, LowInv, NEW c \in Code, Trace(c)
  PROVE  LowInv'
<1>1. /\ block' = Append(block, c) /\ executed' = Append(executed, 0)
      /\ insmix' = insmix /\ fini' = fini /\ process = "running"
      /\ FiniRuns => process' = "broken"
  BY DEF Trace, Breaks, files
<1>2. block \in Seq(Code) /\ executed \in Seq(Nat) /\ Len(executed) = Len(block)
  BY DEF Inv, CountersOK
<1>3. /\ DOMAIN block' = 1..(Len(block) + 1) /\ DOMAIN block = 1..Len(block)
      /\ Len(block) \in Nat
      /\ \A b \in DOMAIN block : block'[b] = block[b]
  BY <1>1, <1>2, AppendedTo
<1>4. /\ DOMAIN executed = 1..Len(executed)
      /\ \A b \in DOMAIN executed : executed'[b] = executed[b] /\ executed[b] \in Nat
  BY <1>1, <1>2, AppendedTo
<1>5. \A b \in DOMAIN block : /\ b \in DOMAIN block' /\ block'[b] = block[b]
                              /\ executed[b] <= executed'[b]
  BY <1>2, <1>3, <1>4
<1>6. /\ \A i : SumFunction(ExecutedAs(i)) <= SumFunction(ExecutedAs(i)')
      /\ SumFunction(ExecutedIns) <= SumFunction(ExecutedIns')
  BY <1>5, RoomGrows DEF Inv
<1>7. ProfileIsLow'
  BY <1>1, <1>6, LowRoom DEF LowInv, Inv
<1>8. ~ (Alive /\ FiniRuns)'
  BY <1>1 DEF Alive, FiniRuns, NoFini, Zero, Indices
<1> QED
  BY <1>7, <1>8 DEF LowInv

LEMMA ReadLow ==
  ASSUME Inv, Inv', FiniTypes, LowInv, NEW t \in Threads, NEW b \in DOMAIN block,
         Read(t, b)
  PROVE  LowInv'
<1>1. /\ executed' = [executed EXCEPT ![b] = executed[b] + enabled]
      /\ UNCHANGED <<block, statsList, dynamic, insmix, fini, process>>
      /\ process = "running"
  BY DEF Read, Runs, instrumented, files
<1>2. /\ executed \in Seq(Nat) /\ DOMAIN executed = DOMAIN block /\ enabled \in Nat
      /\ DOMAIN block = 1..Len(block)
  BY DEF Inv, CountersOK
<1>3. \A d \in DOMAIN block : /\ d \in DOMAIN block' /\ block'[d] = block[d]
                              /\ executed[d] <= executed'[d]
  <2> SUFFICES ASSUME NEW d \in DOMAIN block PROVE executed[d] <= executed'[d]
    BY <1>1
  <2>1. executed[d] \in Nat
    BY <1>2
  <2>2. CASE d = b
    BY <1>1, <1>2, <2>1, <2>2
  <2>3. CASE d # b
    BY <1>1, <1>2, <2>1, <2>3
  <2> QED
    BY <2>2, <2>3
<1>4. /\ \A i : \A P \in SUBSET DOMAIN block :
            SumOn(ExecutedAs(i), P) <= SumOn(ExecutedAs(i)', P)
      /\ \A i : SumFunction(ExecutedAs(i)) <= SumFunction(ExecutedAs(i)')
      /\ SumFunction(ExecutedIns) <= SumFunction(ExecutedIns')
  BY <1>3, RoomGrows DEF Inv
<1>5. ProfileIsLow'
  BY <1>1, <1>4, LowRoom DEF LowInv, Inv
<1>6. ASSUME Alive, FiniRuns
      PROVE  (Terminated /\ (LowSoFar \/ fini.place = Len(statsList) + 1))'
  <2>1. Terminated /\ (LowSoFar \/ fini.place = Len(statsList) + 1)
    BY <1>6 DEF LowInv
  <2>2. Terminated'
    BY <1>1, <2>1 DEF Terminated, Listing, AddressOf, Null
  <2>3. ASSUME LowSoFar PROVE LowSoFar'
    <3>1. Passed(fini.place)' = Passed(fini.place)
      BY <1>1 DEF Passed
    <3>2. Passed(fini.place) \in SUBSET DOMAIN block
      <4>1. DOMAIN block = 1..Len(block) /\ Len(block) \in Nat
        BY DEF Inv, CountersOK
      <4> QED
        BY <2>1, <2>3, <4>1, PassedBlocks DEF LowSoFar
    <3>3. \A i \in Kinds : dynamic[i] <= SumOn(ExecutedAs(i)', Passed(fini.place))
      <4> SUFFICES ASSUME NEW i \in Kinds
                   PROVE  dynamic[i] <= SumOn(ExecutedAs(i)', Passed(fini.place))
        OBVIOUS
      <4>1. /\ dynamic[i] <= SumOn(ExecutedAs(i), Passed(fini.place))
            /\ SumOn(ExecutedAs(i), Passed(fini.place))
                 <= SumOn(ExecutedAs(i)', Passed(fini.place))
        BY <1>4, <2>3, <3>2 DEF LowSoFar
      <4>2. dynamic[i] \in Nat
        BY DEF FiniTypes, Stats, Kinds, Indices
      <4>3. /\ SumOn(ExecutedAs(i), Passed(fini.place)) \in Nat
            /\ SumOn(ExecutedAs(i)', Passed(fini.place)) \in Nat
        BY <1>1, <3>2, RoomNumbers DEF Inv
      <4> QED
        BY <4>1, <4>2, <4>3
    <3> QED
      BY <1>1, <2>3, <3>1, <3>3 DEF LowSoFar, Kinds
  <2> QED
    BY <1>1, <2>1, <2>2, <2>3
<1>7. Alive' => Alive
  BY <1>1 DEF Alive
<1>8. FiniRuns' => FiniRuns
  BY <1>1 DEF FiniRuns, NoFini, Zero, Indices
<1> QED
  BY <1>5, <1>6, <1>7, <1>8 DEF LowInv

(***************************************************************************)
(* A Fini starts, or finds one at work and breaks the process.             *)
(***************************************************************************)
LEMMA StartLow ==
  ASSUME Inv, FiniInv, LowInv, NEW by \in Threads \cup {Pin}, process = "running",
         IF FiniRuns \/ FollowsNull
           THEN Breaks /\ UNCHANGED <<statsList, fini, insmix>>
           ELSE StartFini(by) /\ process' \in {"running", "exiting"},
         UNCHANGED <<block, dynamic, executed>>
  PROVE  LowInv'
<1>1. CASE FiniRuns \/ FollowsNull
  <2>1. process' = "broken"
    BY <1>1 DEF Breaks
  <2> QED
    BY <2>1 DEF LowInv, ProfileIsLow, Alive
<1>2. CASE ~ (FiniRuns \/ FollowsNull)
  <2>1. StartFini(by) /\ process' \in {"running", "exiting"}
    BY <1>2
  <2>2. Terminated' /\ dynamic' = Zero
    BY <1>2, <2>1, StartTerminated
  <2>3. fini'.place = 1
    BY <2>1 DEF StartFini
  <2>4. Passed(fini.place)' = {}
    BY <2>3 DEF Passed
  <2>5. \A i \in Kinds : dynamic'[i] <= SumOn(ExecutedAs(i)', {})
    <3>1. \A i \in Kinds : dynamic'[i] = 0
      BY <2>2, ZeroStats DEF Kinds, Indices
    <3>2. \A i : SumOn(ExecutedAs(i)', {}) = 0
      BY SumEmpty
    <3> QED
      BY <3>1, <3>2
  <2>6. dynamic'[Total] = 0
    BY <2>2, ZeroStats DEF Indices
  <2>7. fini'.place \in 1..(Len(block') + 1)
    <3>1. Len(block) \in Nat /\ block' = block
      BY DEF Inv, CountersOK
    <3> QED
      BY <2>3, <3>1
  <2>8. LowSoFar'
    BY <2>4, <2>5, <2>6, <2>7 DEF LowSoFar, Kinds
  <2>9. ProfileIsLow'
    BY <2>1 DEF StartFini, ProfileIsLow
  <2> QED
    BY <2>2, <2>8, <2>9 DEF LowInv
<1> QED
  BY <1>1, <1>2

(***************************************************************************)
(* The loop adds a counter, which is not above the executions.             *)
(***************************************************************************)
LEMMA AddBlockLow ==
  ASSUME Inv, FiniTypes, LowInv, AddBlock
  PROVE  LowInv'
<1> DEFINE p == fini.place
           b == statsList[p]
<1>1. /\ UNCHANGED <<block, statsList, executed, process>>
      /\ fini'.place = p + 1
      /\ insmix'.whole = insmix.whole /\ insmix'.dynamic = insmix.dynamic
      /\ Alive
  <2>1. /\ UNCHANGED <<block, statsList, executed, process>> /\ Alive
        /\ fini' = [fini EXCEPT !.place = p + 1, !.rtn = RtnOf[block[b]],
                                !.sum = Added(DynamicRtn(b), b)]
        /\ insmix' = [insmix EXCEPT !.sections = WithSection(RtnOf[block[b]])]
    BY DEF AddBlock, instrumented, history
  <2> QED
    BY <2>1 DEF FiniTypes
<1>2. /\ p \in 1..Len(statsList) /\ b \in DOMAIN block
      /\ dynamic'[Total] = dynamic[Total]
      /\ \A i \in Kinds : dynamic'[i] = dynamic[i] + counter[b] * Occurs(block[b], i)
  BY AddBlockTypes
<1>3. /\ CountersOK /\ Len(block) \in Nat /\ DOMAIN block = 1..Len(block)
      /\ Len(statsList) \in Nat
  BY FiniTyped DEF Inv, CountersOK
<1>4. FiniRuns
  BY <1>2 DEF FiniRuns, NoFini
<1>5. Terminated /\ LowSoFar /\ p \in 1..Len(block)
  <2>1. Terminated /\ LowSoFar
    BY <1>1, <1>2, <1>3, <1>4 DEF LowInv
  <2>2. b # Null
    BY <1>2, <1>3 DEF Null
  <2>3. p # Len(block) + 1
    BY <2>1, <2>2 DEF Terminated
  <2> QED
    BY <1>3, <2>1, <2>3 DEF LowSoFar
<1>6. /\ Passed(p) \in SUBSET DOMAIN block /\ b \notin Passed(p)
      /\ Passed(p + 1) = Passed(p) \cup {b}
  <2>1. Terminated
    BY <1>5
  <2>2. \A q \in 1..(Len(block) + 1) :
          /\ Passed(q) \in SUBSET DOMAIN block
          /\ q <= Len(block) => /\ statsList[q] \notin Passed(q)
                                /\ Passed(q + 1) = Passed(q) \cup {statsList[q]}
    BY <1>3, <2>1, PassedBlocks
  <2>3. p \in 1..(Len(block) + 1) /\ p <= Len(block)
    BY <1>3, <1>5
  <2> QED
    BY <2>2, <2>3
<1> HIDE DEF b
<1>7. ASSUME NEW i \in Kinds
      PROVE  dynamic'[i] <= SumOn(ExecutedAs(i), Passed(p + 1))
  <2>1. /\ executed[b] \in Nat /\ counter[b] \in Nat /\ counter[b] <= executed[b]
        /\ Occurs(block[b], i) \in Nat
    BY <1>2, <1>3, ExecutedNumbers, OneBlock DEF Inv, NeverOvercounts
  <2>2. /\ counter[b] * Occurs(block[b], i) <= executed[b] * Occurs(block[b], i)
        /\ counter[b] * Occurs(block[b], i) \in Nat
        /\ executed[b] * Occurs(block[b], i) \in Nat
    BY <2>1, TimesGrows
  <2>3. IsFiniteSet(Passed(p)) /\ Numbers(ExecutedAs(i), Passed(p))
    BY <1>3, <1>6, ExecutedNumbers, FS_Subset DEF Numbers
  <2>4. ExecutedAs(i)[b] = executed[b] * Occurs(block[b], i)
    BY <1>2 DEF ExecutedAs
  <2>5. ExecutedAs(i)[b] \in Nat
    BY <2>2, <2>4
  <2>6. /\ SumOn(ExecutedAs(i), Passed(p) \cup {b})
             = ExecutedAs(i)[b] + SumOn(ExecutedAs(i), Passed(p))
        /\ SumOn(ExecutedAs(i), Passed(p)) \in Nat
    BY <1>6, <2>3, <2>5, SumAdd
  <2>7. dynamic[i] <= SumOn(ExecutedAs(i), Passed(p)) /\ dynamic[i] \in Nat
    <3>1. dynamic[i] \in Nat
      BY DEF FiniTypes, Stats, Kinds, Indices
    <3> QED
      BY <1>5, <3>1 DEF LowSoFar
  <2>8. dynamic'[i] = dynamic[i] + counter[b] * Occurs(block[b], i)
    BY <1>2
  <2> DEFINE added == counter[b] * Occurs(block[b], i)
  <2>9. added \in Nat /\ added <= ExecutedAs(i)[b] /\ dynamic'[i] = dynamic[i] + added
    BY <2>2, <2>4, <2>8
  <2> HIDE DEF added
  <2> QED
    BY <1>6, <2>5, <2>6, <2>7, <2>9
<1>8. \A i : ExecutedAs(i)' = ExecutedAs(i)
  BY <1>1 DEF ExecutedAs, Occurs
<1>9. LowSoFar'
  <2>1. Passed(fini.place)' = Passed(p + 1)
    BY <1>1 DEF Passed
  <2>2. fini'.place \in 1..(Len(block') + 1)
    BY <1>1, <1>3, <1>5
  <2> HIDE DEF p
  <2> QED
    BY <1>2, <1>5, <1>7, <1>8, <2>1, <2>2 DEF LowSoFar, Kinds
<1>10. Terminated'
  BY <1>1, <1>5 DEF Terminated, Listing, AddressOf, Null
<1>11. ProfileIsLow'
  <2>1. ExecutedIns' = ExecutedIns
    BY <1>1 DEF ExecutedIns
  <2> QED
    BY <1>1, <1>8, <2>1 DEF LowInv, ProfileIsLow
<1> QED
  BY <1>9, <1>10, <1>11 DEF LowInv

(***************************************************************************)
(* The total of the opcodes is no more than the instructions executed.     *)
(***************************************************************************)
LEMMA TotalLow ==
  ASSUME CountersOK, NEW stats \in Stats,
         \A i \in Opcodes : stats[i] <= SumOn(ExecutedAs(i), DOMAIN block)
  PROVE  SumOn(stats, Opcodes) <= SumOn(ExecutedIns, DOMAIN block)
<1> DEFINE B == DOMAIN block
           m == [i \in Opcodes |-> ExecutedAs(i)]
           row == [i \in Opcodes |-> SumOn(m[i], B)]
           column == [b \in B |-> SumOn([i \in Opcodes |-> m[i][b]], Opcodes)]
<1>1. IsFiniteSet(B) /\ IsFiniteSet(Opcodes)
  BY ExecutedNumbers, OpcodesAssumption
<1>2. \A i \in Opcodes : ExecutedAs(i) \in [B -> Nat]
  <2> SUFFICES ASSUME NEW i \in Opcodes PROVE ExecutedAs(i) \in [B -> Nat]
    OBVIOUS
  <2>1. \A b \in B : ExecutedAs(i)[b] \in Nat
    BY ExecutedNumbers DEF Numbers
  <2>2. ExecutedAs(i) = [b \in B |-> ExecutedAs(i)[b]]
    BY DEF ExecutedAs
  <2> HIDE DEF B
  <2> QED
    BY <2>1, <2>2
<1>3. m \in [Opcodes -> [B -> Nat]]
  BY <1>2
<1>4. SumOn(row, Opcodes) = SumOn(column, B)
  <2> HIDE DEF B, m
  <2> QED
    BY <1>1, <1>3, SumExchange
<1>5. ASSUME NEW b \in B PROVE column[b] = ExecutedIns[b]
  <2> DEFINE o == [i \in Opcodes |-> Occurs(block[b], i)]
             t == [i \in Opcodes |-> executed[b] * o[i]]
             c == [i \in Opcodes |-> m[i][b]]
  <2>1. executed[b] \in Nat /\ block[b] \in Code
    BY ExecutedNumbers
  <2>2. Numbers(o, Opcodes) /\ SumOn(o, Opcodes) = Len(Ins[block[b]])
    BY <2>1, OccursInBlock DEF Numbers
  <2>3. \A i \in Opcodes : c[i] = t[i]
    BY DEF ExecutedAs
  <2> HIDE DEF o
  <2>4. SumOn(t, Opcodes) = executed[b] * SumOn(o, Opcodes)
    BY <1>1, <2>1, <2>2, SumTimes
  <2> HIDE DEF t, c
  <2>5. SumOn(c, Opcodes) = SumOn(t, Opcodes)
    BY <1>1, <2>3, SumSame
  <2>6. column[b] = SumOn(c, Opcodes)
    BY DEF c
  <2>7. ExecutedIns[b] = executed[b] * Len(Ins[block[b]])
    BY DEF ExecutedIns
  <2> QED
    BY <2>2, <2>4, <2>5, <2>6, <2>7, Zenon
<1>6. Numbers(stats, Opcodes) /\ Numbers(row, Opcodes)
      /\ \A i \in Opcodes : stats[i] <= row[i]
  <2>1. \A i \in Opcodes : row[i] = SumOn(ExecutedAs(i), B)
    OBVIOUS
  <2>2. \A i \in Opcodes : SumOn(ExecutedAs(i), B) \in Nat
    BY <1>1, ExecutedNumbers, SumIsNumber
  <2>3. \A i \in Opcodes : stats[i] \in Nat
    BY DEF Stats, Indices
  <2> HIDE DEF row, m
  <2> QED
    BY <2>1, <2>2, <2>3 DEF Numbers
<1> HIDE DEF row, column
<1>7. SumOn(stats, Opcodes) <= SumOn(row, Opcodes)
  BY <1>1, <1>6, SumGrows
<1> HIDE DEF B
<1>8. SumOn(column, B) = SumOn(ExecutedIns, B)
  BY <1>1, <1>5, SumSame
<1> QED
  BY <1>4, <1>7, <1>8 DEF B

LEMMA AddTotalsLow ==
  ASSUME Inv, FiniTypes, LowInv, AddTotals
  PROVE  LowInv'
<1> DEFINE n == Len(block)
<1>1. /\ fini.place \in 1..Len(statsList) /\ statsList[fini.place] = Null
      /\ fini'.place = Len(statsList) + 1
      /\ insmix'.dynamic = Dumped(dynamic)
      /\ UNCHANGED <<block, statsList, executed, process>>
      /\ Alive
  BY AddTotalsTypes DEF AddTotals, history
<1>2. CountersOK /\ n \in Nat /\ DOMAIN block = 1..n /\ Len(statsList) \in Nat
  BY FiniTyped DEF Inv, CountersOK
<1>3. FiniRuns
  BY <1>1 DEF FiniRuns, NoFini
<1>4. Terminated /\ LowSoFar
  BY <1>1, <1>2, <1>3 DEF LowInv
<1>5. fini.place = n + 1
  <2>1. \A k \in 1..n : statsList[k] # Null
    BY <1>2, <1>4 DEF Terminated, Listing, Null
  <2> QED
    BY <1>1, <1>2, <1>4, <2>1 DEF LowSoFar
<1>6. /\ IsFiniteSet(DOMAIN block)
      /\ \A i : Numbers(ExecutedAs(i), DOMAIN block)
      /\ Passed(fini.place) \in SUBSET DOMAIN block
  BY <1>2, <1>4, <1>5, ExecutedNumbers, PassedBlocks DEF LowSoFar
<1>7. dynamic \in Stats
  BY DEF FiniTypes
<1>8. ASSUME NEW i \in Kinds
      PROVE  dynamic[i] <= SumOn(ExecutedAs(i), DOMAIN block)
  <2> DEFINE S == Passed(fini.place)
  <2>1. dynamic[i] <= SumOn(ExecutedAs(i), S) /\ dynamic[i] \in Nat
    BY <1>4, <1>7 DEF LowSoFar, Stats, Kinds, Indices
  <2>2. S \subseteq DOMAIN block /\ Numbers(ExecutedAs(i), S)
        /\ \A b \in S : ExecutedAs(i)[b] <= ExecutedAs(i)[b]
    BY <1>6 DEF Numbers
  <2>3. SumOn(ExecutedAs(i), S) \in Nat /\ SumOn(ExecutedAs(i), DOMAIN block) \in Nat
    BY <1>6, SumIsNumber
  <2> HIDE DEF S
  <2>4. SumOn(ExecutedAs(i), S) <= SumOn(ExecutedAs(i), DOMAIN block)
    BY <1>6, <2>2, SumGrows
  <2> QED
    BY <2>1, <2>3, <2>4
<1>9. /\ \A i \in Kinds : Dumped(dynamic)[i] = dynamic[i]
      /\ Dumped(dynamic)[Total] = dynamic[Total] + SumOn(dynamic, Opcodes)
      /\ SumOn(dynamic, Opcodes) \in Nat
  BY <1>7, DumpedStats
<1>10. SumOn(dynamic, Opcodes) <= SumOn(ExecutedIns, DOMAIN block)
  <2>1. \A i \in Opcodes : dynamic[i] <= SumOn(ExecutedAs(i), DOMAIN block)
    BY <1>8 DEF Kinds
  <2> QED
    BY <1>2, <1>7, <2>1, TotalLow
<1>11. Dumped(dynamic)[Total] <= SumOn(ExecutedIns, DOMAIN block)
  BY <1>4, <1>9, <1>10 DEF LowSoFar
<1>12. /\ \A i : ExecutedAs(i)' = ExecutedAs(i) /\ DOMAIN ExecutedAs(i) = DOMAIN block
       /\ ExecutedIns' = ExecutedIns /\ DOMAIN ExecutedIns = DOMAIN block
  BY <1>1 DEF ExecutedAs, ExecutedIns, Occurs
<1>13. ProfileIsLow'
  BY <1>1, <1>8, <1>9, <1>11, <1>12 DEF ProfileIsLow, SumFunction, SumOn, Kinds
<1>14. Terminated'
  BY <1>1, <1>4 DEF Terminated, Listing, AddressOf, Null
<1> QED
  BY <1>1, <1>13, <1>14 DEF LowInv

LEMMA ListBlocksLow ==
  ASSUME FiniTypes, LowInv, ListBlocks
  PROVE  LowInv'
<1>1. /\ ~ FiniRuns' /\ process \in {"running", "exiting"}
      /\ UNCHANGED <<block, executed, insmix>>
  BY ListBlocksStep DEF ListBlocks, history
<1>2. ProfileIsLow'
  BY <1>1, SameProfile DEF LowInv
<1> QED
  BY <1>1, <1>2 DEF LowInv

LEMMA NextLow ==
  ASSUME Inv, Inv', FiniInv, LowInv, [Next]_vars
  PROVE  LowInv'
<1>1. FiniTypes
  BY DEF FiniInv
<1>2. CASE \E c \in Code : Trace(c)
  BY <1>1, <1>2, TraceLow
<1>3. CASE Handler
  BY <1>3, LowKept DEF Handler, instrumented, files, history
<1>4. CASE \E t \in Threads : \E b \in DOMAIN block : Read(t, b)
  BY <1>1, <1>4, ReadLow
<1>5. CASE \E t \in Threads : Write(t)
  BY <1>5, LowKept DEF Write, files, history
<1>6. CASE \E t \in Threads : Syscall(t)
  <2>1. PICK t \in Threads : Syscall(t)
    BY <1>6
  <2>2. /\ process = "running" /\ UNCHANGED <<block, dynamic, executed>>
        /\ IF FiniRuns \/ FollowsNull
             THEN Breaks /\ UNCHANGED <<statsList, fini, insmix>>
             ELSE StartFini(t) /\ process' \in {"running", "exiting"}
    BY <2>1 DEF Syscall, Runs, history
  <2> QED
    BY <2>2, StartLow
<1>7. CASE Exit
  <2>1. /\ process = "running" /\ UNCHANGED <<block, dynamic, executed>>
        /\ IF FiniRuns \/ FollowsNull
             THEN Breaks /\ UNCHANGED <<statsList, fini, insmix>>
             ELSE StartFini(Pin) /\ process' \in {"running", "exiting"}
    BY <1>7 DEF Exit, history
  <2> QED
    BY <2>1, StartLow
<1>8. CASE AddBlock
  BY <1>1, <1>8, AddBlockLow
<1>9. CASE AddTotals
  BY <1>1, <1>9, AddTotalsLow
<1>10. CASE ListBlocks
  BY <1>1, <1>10, ListBlocksLow
<1>11. CASE UNCHANGED vars
  BY <1>11, LowKept DEF vars, instrumented, files, history
<1> QED
  BY <1>2, <1>3, <1>4, <1>5, <1>6, <1>7, <1>8, <1>9, <1>10, <1>11 DEF Next

(***************************************************************************)
(* What every Fini leaves to the next one holds in every reachable state,  *)
(* together with what the last one has summed (insmix.cpp:438-556).        *)
(***************************************************************************)
THEOREM FiniInvariance == Spec => []FiniInv
<1>1. Init => FiniInv
  BY InitFini
<1>2. Inv /\ FiniInv /\ [Next]_vars => FiniInv'
  BY NextFini
<1> QED
  BY <1>1, <1>2, Invariance, PTL DEF Spec

(***************************************************************************)
(* All state is well typed: the list holds blocks that exist and null      *)
(* pointers, and the sums of Fini are numbers (insmix.cpp:227-313,         *)
(* 470-556).                                                               *)
(***************************************************************************)
THEOREM TypeCorrect == Spec => []TypeOK
<1>1. Inv /\ FiniInv => TypeOK
  <2> SUFFICES ASSUME Inv, FiniInv PROVE TypeOK
    OBVIOUS
  <2>1. FiniTypes /\ CountersOK
    BY DEF FiniInv, Inv
  <2>2. Range(statsList) \subseteq (DOMAIN block) \cup {Null}
    BY <2>1, FiniTyped DEF Range
  <2>3. fini.by \in Threads \cup {Pin}
    BY <2>1, FiniTyped
  <2> QED
    BY <2>1, <2>2, <2>3 DEF TypeOK, FiniTypes, Stats
<1> QED
  BY <1>1, Invariance, FiniInvariance, PTL

(***************************************************************************)
(* No profile shows more under an index or in total than was executed, the *)
(* first that a system call 24 makes Fini write in the middle of the run   *)
(* included (a second one breaks the process where there are blocks), and  *)
(* the one of a program that ends is the sum of its counters as bblcnt.out *)
(* lists them, in whichever order std::sort left the blocks of equal       *)
(* addresses (insmix.cpp:311-314, 438-444, 518-556).                       *)
(***************************************************************************)
THEOREM ProfileAgrees == Spec => []ProfileIsSum
<1>1. Init => LowInv
  BY InitLow
<1>2. Inv /\ Inv' /\ FiniInv /\ LowInv /\ [Next]_vars => LowInv'
  BY NextLow
<1>3. FiniInv /\ LowInv => ProfileIsSum
  BY DEF FiniInv, LowInv, ProfileIsSum
<1> QED
  BY <1>1, <1>2, <1>3, Invariance, FiniInvariance, PTL DEF Spec

(***************************************************************************)
(* The sections of a routine add up to its share of the profile, and a     *)
(* routine whose address is its own has one section (insmix.cpp:276-279,   *)
(* 487-516).                                                               *)
(***************************************************************************)
THEOREM SectionsComplete == Spec => []SectionsAddUp
<1>1. FiniInv => SectionsAddUp
  BY DEF FiniInv
<1> QED
  BY <1>1, FiniInvariance, PTL
=============================================================================
