---------------------------- MODULE BoundedFifo ----------------------------
(* What thread::MpscQueue promises its users: a first-in first-out queue of *)
(* at most Capacity items.  A push reserves the next place in one step and  *)
(* delivers its item into it in a later one; the consumer takes the oldest  *)
(* item once it is delivered; a push is refused only when every place is    *)
(* reserved.  MpscQueue implements this (MpscQueue!Fifo).                   *)
EXTENDS Naturals, Sequences

CONSTANTS
  Capacity,   \* places
  Items,      \* what is queued
  None        \* no item

VARIABLES
  queue,      \* the places reserved, oldest first: [item, ready]
  out,        \* the item taken last
  dropped     \* pushes refused

vars == <<queue, out, dropped>>

Init == queue = << >> /\ out = None /\ dropped = 0

Reserve ==
  /\ Len(queue) < Capacity
  /\ Len(queue') = Len(queue) + 1 /\ SubSeq(queue', 1, Len(queue)) = queue
  /\ queue'[Len(queue')] \in [item : Items, ready : {FALSE}]
  /\ UNCHANGED <<out, dropped>>

Deliver(i) ==
  /\ ~queue[i].ready
  /\ queue' = [queue EXCEPT ![i].ready = TRUE]
  /\ UNCHANGED <<out, dropped>>

Take ==
  /\ queue # << >> /\ Head(queue).ready
  /\ out' = Head(queue).item /\ queue' = Tail(queue)
  /\ UNCHANGED dropped

Refuse ==
  /\ Len(queue) = Capacity
  /\ dropped' = dropped + 1
  /\ UNCHANGED <<queue, out>>

Next ==
  \/ Reserve \/ Take \/ Refuse
  \/ \E i \in DOMAIN queue : Deliver(i)

Spec == Init /\ [][Next]_vars
============================================================================
