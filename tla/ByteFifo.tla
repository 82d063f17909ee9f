------------------------------ MODULE ByteFifo ------------------------------
(***************************************************************************)
(* What the UART's ring buffer promises: a bounded queue between a handler *)
(* that can never wait and a thread that takes bytes in bursts.            *)
(***************************************************************************)
EXTENDS Naturals, Sequences

CONSTANTS Items, Capacity

VARIABLE queue

Init == queue = <<>>

\* An item that finds the queue full is dropped, which leaves no trace here.
Put ==
  /\ Len(queue) < Capacity
  /\ \E item \in Items : queue' = Append(queue, item)

Take ==
  \E n \in 1..Len(queue) : queue' = SubSeq(queue, n + 1, Len(queue))

Next == Put \/ Take

Spec == Init /\ [][Next]_queue
=============================================================================
