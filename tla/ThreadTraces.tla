---------------------------- MODULE ThreadTraces ----------------------------
(***************************************************************************)
(* What the reader of the traces of bbtrace may believe.  Every thread     *)
(* keeps a list of the blocks it executed and counts them; recording a     *)
(* block is one step, which adds to the list and to the count together and *)
(* touches no other thread; and a thread that ends reports its counts, all *)
(* at once.  There are no ids, no lines, no streams, no client lock and no *)
(* images here: BbTrace implements this, see ImplementsThreadTraces there. *)
(*                                                                         *)
(* A thread is known by its number, which is used again when it has ended. *)
(* The list starts anew with every thread, the counts go on.               *)
(***************************************************************************)
EXTENDS Integers, Sequences

CONSTANTS Thread, Block

VARIABLES
  live,          \* the threads there are
  trace,         \* thread -> the blocks it executed, in order
  executions,    \* thread -> block -> how often, under this number
  total,         \* thread -> block -> what was added up so far
  report         \* thread -> what the last thread of this number reported

traceVars == <<live, trace, executions, total, report>>

Zero == [b \in Block |-> 0]

NoReport == [summary |-> Zero, total |-> Zero]

TracesInit ==
  /\ live = {}
  /\ trace = [t \in Thread |-> <<>>]
  /\ executions = [t \in Thread |-> Zero]
  /\ total = [t \in Thread |-> Zero]
  /\ report = [t \in Thread |-> NoReport]

Start(t) ==
  /\ t \notin live
  /\ live' = live \cup {t}
  /\ trace' = [trace EXCEPT ![t] = <<>>]
  /\ report' = [report EXCEPT ![t] = NoReport]
  /\ UNCHANGED <<executions, total>>

Record(t, b) ==
  /\ t \in live
  /\ trace' = [trace EXCEPT ![t] = Append(@, b)]
  /\ executions' = [executions EXCEPT ![t][b] = @ + 1]
  /\ UNCHANGED <<live, total, report>>

End(t) ==
  LET sum == [b \in Block |-> total[t][b] + executions[t][b]]
  IN  /\ t \in live
      /\ live' = live \ {t}
      /\ total' = [total EXCEPT ![t] = sum]
      /\ report' = [report EXCEPT ![t] = [summary |-> executions[t],
                                          total |-> sum]]
      /\ UNCHANGED <<trace, executions>>

TracesNext ==
  \E t \in Thread :
    \/ Start(t)
    \/ \E b \in Block : Record(t, b)
    \/ End(t)

TracesSpec == TracesInit /\ [][TracesNext]_traceVars
=============================================================================
