----------------------------- MODULE MpscQueue -----------------------------
(* thread::MpscQueue (core/thread/MpscQueue.h), the bounded queue the       *)
(* receive threads hand audio frames over with: any number of producers and *)
(* one consumer, no lock.  One step per atomic access; the fill of a cell   *)
(* and the copy out of it are steps too, for they are plain memory.         *)
(* Positions are 64 bits wide and do not wrap in a process's lifetime.      *)
(* As on x86-64, stores take effect in program order and locked accesses    *)
(* wait for them; a release store may take effect after its thread's next   *)
(* loads, and the steps that store are that moment.  In push the next load  *)
(* is the caller's (SpeakerPlayout!LookAhead); in pop it is of another      *)
(* cell, and the caller locks before it.  The weak compare-exchange fails   *)
(* only when the position moved.                                            *)
EXTENDS Integers, Sequences

CONSTANTS
  Producers,    \* the threads that push
  Capacity,     \* kCapacity
  Items,        \* what is queued
  None          \* no item

ASSUME CapacityAssumption == Capacity \in Nat /\ Capacity >= 2

VARIABLES
  enqueuePos,   \* enqueuePos_
  dequeuePos,   \* dequeuePos_
  cells,        \* cells_: [sequence, item]
  dropped,      \* dropped_
  push,         \* per producer: where it is in push(), its position and item
  pop,          \* where the consumer is in pop(), and its copy
  out           \* history: the item of the last pop that freed its cell

queueVars == <<enqueuePos, dequeuePos, cells, dropped, push, pop, out>>

Cell(pos) == pos % Capacity
Sequence(pos) == cells[Cell(pos)].sequence
NotPushing == [pc |-> "idle", pos |-> 0, item |-> None]

QueueInit ==
  /\ enqueuePos = 0 /\ dequeuePos = 0 /\ dropped = 0
  /\ cells = [i \in 0 .. (Capacity - 1) |-> [sequence |-> i, item |-> None]]
  /\ push = [p \in Producers |-> NotPushing]
  /\ pop = [pc |-> "idle", item |-> None] /\ out = None

----------------------------------------------------------------------------
(* push.                                                                    *)
PushGoto(p, pc) == push' = [push EXCEPT ![p].pc = pc]

PushBegin(p, x) ==
  /\ push[p].pc = "idle"
  /\ push' = [push EXCEPT ![p] = [pc |-> "look", pos |-> enqueuePos, item |-> x]]
  /\ UNCHANGED <<enqueuePos, dequeuePos, cells, dropped, pop, out>>

(* The sequence of the cell says whether it is free for this position, has  *)
(* not been freed since the last lap, or was claimed already.               *)
PushLook(p) ==
  LET lag == Sequence(push[p].pos) - push[p].pos
  IN /\ push[p].pc = "look"
     /\ \/ lag = 0 /\ PushGoto(p, "claim") /\ UNCHANGED dropped
        \/ lag < 0 /\ dropped' = dropped + 1 /\ PushGoto(p, "idle")
        \/ lag > 0 /\ PushGoto(p, "reload") /\ UNCHANGED dropped
     /\ UNCHANGED <<enqueuePos, dequeuePos, cells, pop, out>>

PushReload(p) ==
  /\ push[p].pc = "reload"
  /\ push' = [push EXCEPT ![p].pc = "look", ![p].pos = enqueuePos]
  /\ UNCHANGED <<enqueuePos, dequeuePos, cells, dropped, pop, out>>

(* The compare-exchange: on failure the position is what it found.          *)
PushClaim(p) ==
  /\ push[p].pc = "claim"
  /\ \/ /\ enqueuePos = push[p].pos
        /\ enqueuePos' = enqueuePos + 1 /\ PushGoto(p, "fill")
     \/ /\ enqueuePos # push[p].pos
        /\ push' = [push EXCEPT ![p].pc = "look", ![p].pos = enqueuePos]
        /\ UNCHANGED enqueuePos
  /\ UNCHANGED <<dequeuePos, cells, dropped, pop, out>>

PushFill(p) ==
  /\ push[p].pc = "fill"
  /\ cells' = [cells EXCEPT ![Cell(push[p].pos)].item = push[p].item]
  /\ PushGoto(p, "publish")
  /\ UNCHANGED <<enqueuePos, dequeuePos, dropped, pop, out>>

PushPublish(p) ==
  /\ push[p].pc = "publish"
  /\ cells' = [cells EXCEPT ![Cell(push[p].pos)].sequence = push[p].pos + 1]
  /\ PushGoto(p, "pushed")
  /\ UNCHANGED <<enqueuePos, dequeuePos, dropped, pop, out>>

PushStep(p) ==
  PushLook(p) \/ PushReload(p) \/ PushClaim(p) \/ PushFill(p) \/ PushPublish(p)

----------------------------------------------------------------------------
(* pop and empty.                                                           *)
Empty == Sequence(dequeuePos) # dequeuePos + 1

PopLook ==
  /\ pop.pc = "idle"
  /\ pop' = [pop EXCEPT !.pc = IF Empty THEN "empty" ELSE "copy"]
  /\ UNCHANGED <<enqueuePos, dequeuePos, cells, dropped, push, out>>

PopCopy ==
  /\ pop.pc = "copy"
  /\ pop' = [pc |-> "free", item |-> cells[Cell(dequeuePos)].item]
  /\ UNCHANGED <<enqueuePos, dequeuePos, cells, dropped, push, out>>

NextInLine == dequeuePos + 1         \* mutant: the cell is not given its next lap
NextLap == dequeuePos + Capacity

PopFree ==
  /\ pop.pc = "free"
  /\ cells' = [cells EXCEPT ![Cell(dequeuePos)].sequence = NextLap]
  /\ pop' = [pop EXCEPT !.pc = "advance"] /\ out' = pop.item
  /\ UNCHANGED <<enqueuePos, dequeuePos, dropped, push>>

PopAdvance ==
  /\ pop.pc = "advance"
  /\ dequeuePos' = dequeuePos + 1
  /\ pop' = [pop EXCEPT !.pc = "popped"]
  /\ UNCHANGED <<enqueuePos, cells, dropped, push, out>>

PopStep == PopLook \/ PopCopy \/ PopFree \/ PopAdvance

----------------------------------------------------------------------------
(* The queue by itself, under any callers: a push that delivered returns,   *)
(* perhaps after WorkerWake::notify's exchange, and so does a pop.          *)
PushReturn(p) ==
  /\ push[p].pc \in {"pushed", "exchange"}
  /\ \E r \in {NotPushing, [push[p] EXCEPT !.pc = "exchange"]} : push' = [push EXCEPT ![p] = r]
  /\ UNCHANGED <<enqueuePos, dequeuePos, cells, dropped, pop, out>>

PopReturn ==
  /\ pop.pc \in {"empty", "popped"}
  /\ pop' = [pop EXCEPT !.pc = "idle"]
  /\ UNCHANGED <<enqueuePos, dequeuePos, cells, dropped, push, out>>

QueueNext ==
  \/ \E p \in Producers : (\E x \in Items : PushBegin(p, x)) \/ PushStep(p) \/ PushReturn(p)
  \/ PopStep \/ PopReturn

QueueSpec == QueueInit /\ [][QueueNext]_queueVars

----------------------------------------------------------------------------
(* What the queue holds, as BoundedFifo sees it: the positions claimed and  *)
(* not yet freed.  A claimed cell's item is its producer's until published. *)
Oldest == IF pop.pc = "advance" THEN dequeuePos + 1 ELSE dequeuePos

Ready(pos) == Sequence(pos) = pos + 1

Claimant(pos) ==
  CHOOSE p \in Producers : push[p].pc \in {"fill", "publish"} /\ push[p].pos = pos

Held(pos) ==
  [item |-> IF Ready(pos) THEN cells[Cell(pos)].item ELSE push[Claimant(pos)].item,
   ready |-> Ready(pos)]

Contents == [i \in 1 .. (enqueuePos - Oldest) |-> Held(Oldest + i - 1)]

Fifo == INSTANCE BoundedFifo WITH queue <- Contents

(* The queue implements the bounded FIFO whatever the producers and the     *)
(* consumer interleave: items leave in the order their places were claimed, *)
(* whole and once each, and a push is refused only when the queue is full   *)
(* (MpscQueue.h push and pop).                                              *)
IsFifo == Fifo!Spec

============================================================================
