-------------------------- MODULE MpscQueueProofs --------------------------
(***************************************************************************)
(* Proof that MpscQueue implements BoundedFifo for any capacity of at      *)
(* least two cells, any set of producers and any callers (QueueSpec).      *)
(***************************************************************************)
EXTENDS MpscQueue, SequenceTheorems, TLAPS

Claims(p, pos) == push[p].pc \in {"fill", "publish"} /\ push[p].pos = pos

Payloads == Items \cup {None}
PushAt == {"idle", "look", "reload", "claim", "fill", "publish", "pushed", "exchange"}
PopAt == {"idle", "empty", "copy", "free", "advance", "popped"}

PushStates == [pc : PushAt, pos : Nat, item : Payloads]
CellStates == [sequence : Nat, item : Payloads]

QueueTypeOK ==
  /\ enqueuePos \in Nat /\ dequeuePos \in Nat /\ dropped \in Nat
  /\ cells \in [0 .. (Capacity - 1) -> CellStates]
  /\ push \in [Producers -> PushStates]
  /\ pop \in [pc : PopAt, item : Payloads]

(* The positions from Oldest to enqueuePos are claimed and unfreed, at most *)
(* a lap of them; the rest of the lap is free for its position, and a cell  *)
(* whose position was freed has moved on.                                   *)
LapInv ==
  /\ Oldest <= enqueuePos /\ enqueuePos <= Oldest + Capacity
  /\ \A pos \in Nat :
       /\ pos < Oldest => Sequence(pos) > pos
       /\ Oldest <= pos /\ pos < enqueuePos =>
            Ready(pos) \/ \E p \in Producers : Claims(p, pos)
       /\ enqueuePos <= pos /\ pos < Oldest + Capacity => Sequence(pos) = pos

(* A producer between its claim and its publish has a position of its own,  *)
(* unpublished, and once filled the cell holds its item.                    *)
ClaimInv ==
  \A p \in Producers :
    /\ push[p].pc \in {"look", "reload", "claim", "fill", "publish"} => push[p].item \in Items
    /\ push[p].pc \in {"look", "claim"} => push[p].pos <= enqueuePos
    /\ push[p].pc = "claim" /\ push[p].pos = enqueuePos => enqueuePos < Oldest + Capacity
    /\ push[p].pc \in {"fill", "publish"} =>
         /\ Oldest <= push[p].pos /\ push[p].pos < enqueuePos
         /\ Sequence(push[p].pos) = push[p].pos
         /\ \A q \in Producers : Claims(q, push[p].pos) => q = p
    /\ push[p].pc = "publish" => cells[Cell(push[p].pos)].item = push[p].item

(* A pop past its look owns the oldest position, which is published.        *)
PopInv ==
  /\ pop.pc \in {"copy", "free"} => Ready(dequeuePos) /\ dequeuePos < enqueuePos
  /\ pop.pc = "free" => pop.item = cells[Cell(dequeuePos)].item

QueueInv == QueueTypeOK /\ LapInv /\ ClaimInv /\ PopInv

----------------------------------------------------------------------------
(* The cells of a lap: pos % Capacity picks each once.                      *)
LEMMA DivMod ==
  \A a \in Nat : /\ a \div Capacity \in Int /\ a % Capacity \in 0 .. (Capacity - 1)
                 /\ a = Capacity * (a \div Capacity) + (a % Capacity)
  BY CapacityAssumption

(* A multiple of Capacity that is not 0 is at least a lap away from it.     *)
LEMMA Scale ==
  \A k \in Int : /\ Capacity * k \in Int
                 /\ k >= 1 => Capacity * k >= Capacity
                 /\ k <= 0 => Capacity * k <= 0
                 /\ k <= -1 => Capacity * k <= -Capacity
  BY CapacityAssumption

(* A position has one remainder.                                            *)
LEMMA RemainderIsUnique ==
  ASSUME NEW q \in Int, NEW r \in 0 .. (Capacity - 1),
         NEW s \in Int, NEW t \in 0 .. (Capacity - 1),
         Capacity * q + r = Capacity * s + t
  PROVE  r = t
<1>1. Capacity * (q - s) = t - r
  BY CapacityAssumption
<1>2. q - s \in Int /\ q - s <= 0 /\ q - s >= 0
  BY <1>1, Scale, CapacityAssumption
<1> QED
  BY <1>1, <1>2, CapacityAssumption

(* Cell (pos & kMask): within the array, the same a lap later, and another  *)
(* for two positions less than a lap apart.                                 *)
LEMMA CellFacts ==
  /\ \A a \in Nat : Cell(a) \in 0 .. (Capacity - 1) /\ Cell(a + Capacity) = Cell(a)
  /\ \A a, b \in Nat : a < b /\ b < a + Capacity => Cell(a) # Cell(b)
<1>1. ASSUME NEW a \in Nat PROVE (a + Capacity) % Capacity = a % Capacity
  <2>1. a + Capacity = Capacity * ((a \div Capacity) + 1) + (a % Capacity)
    BY DivMod, CapacityAssumption
  <2>2. a + Capacity = Capacity * ((a + Capacity) \div Capacity) + ((a + Capacity) % Capacity)
    BY DivMod, CapacityAssumption
  <2>3. /\ (a \div Capacity) + 1 \in Int /\ a % Capacity \in 0 .. (Capacity - 1)
        /\ (a + Capacity) \div Capacity \in Int
        /\ (a + Capacity) % Capacity \in 0 .. (Capacity - 1)
    BY DivMod, CapacityAssumption
  <2> QED
    BY <2>1, <2>2, <2>3, RemainderIsUnique, Zenon
<1>2. ASSUME NEW a \in Nat, NEW b \in Nat, a < b, b < a + Capacity, a % Capacity = b % Capacity
      PROVE  FALSE
  <2>1. Capacity * ((b \div Capacity) - (a \div Capacity)) = b - a
    BY <1>2, DivMod, CapacityAssumption
  <2> QED
    BY <1>2, <2>1, DivMod, Scale, CapacityAssumption, SMTT(20)
<1> QED
  BY <1>1, <1>2, DivMod DEF Cell

(* Two positions of one lap have two cells.                                 *)
LEMMA LapCells ==
  ASSUME NEW o \in Nat, NEW a \in Nat, NEW b \in Nat, a # b,
         o <= a, a < o + Capacity, o <= b, b < o + Capacity
  PROVE  Cell(a) # Cell(b)
  BY CellFacts, CapacityAssumption

(* The oldest position is one.                                              *)
LEMMA OldestType == QueueTypeOK => Oldest \in Nat
  BY DEF QueueTypeOK, Oldest

----------------------------------------------------------------------------
(* QueueInv is inductive.                                                   *)
LEMMA QueueInitInv == QueueInit => QueueInv
<1> SUFFICES ASSUME QueueInit PROVE QueueInv
  OBVIOUS
<1>1. QueueTypeOK
  BY CapacityAssumption DEF QueueInit, QueueTypeOK, PushStates, CellStates, Payloads, PushAt,
                            PopAt, NotPushing
<1>2. Oldest = 0
  BY DEF QueueInit, Oldest
<1>3. \A pos \in 0 .. (Capacity - 1) : Cell(pos) = pos
  <2> TAKE pos \in 0 .. (Capacity - 1)
  <2>1. pos = Capacity * 0 + pos /\ pos \in Nat
    BY CapacityAssumption
  <2> QED
    BY <2>1, DivMod, RemainderIsUnique, CapacityAssumption DEF Cell
<1>4. LapInv
  BY <1>2, <1>3, CapacityAssumption DEF QueueInit, LapInv, Sequence
<1>5. ClaimInv /\ PopInv
  BY DEF QueueInit, ClaimInv, PopInv, NotPushing
<1> QED
  BY <1>1, <1>4, <1>5 DEF QueueInv

(* What an update of one record leaves of its type.                         *)
LEMMA PushUpdate ==
  ASSUME NEW f \in [Producers -> PushStates], NEW p \in Producers, NEW pc \in PushAt
  PROVE  /\ [f EXCEPT ![p].pc = pc] \in [Producers -> PushStates]
         /\ \A n \in Nat :
              [f EXCEPT ![p].pc = pc, ![p].pos = n] \in [Producers -> PushStates]
  BY Zenon DEF PushStates

(* The same for a cell.                                                     *)
LEMMA CellUpdate ==
  ASSUME NEW S, NEW f \in [S -> CellStates], NEW i \in S
  PROVE  /\ \A n \in Nat : [f EXCEPT ![i].sequence = n] \in [S -> CellStates]
         /\ \A x \in Payloads : [f EXCEPT ![i].item = x] \in [S -> CellStates]
  BY DEF CellStates

(* The same for pop.                                                        *)
LEMMA PopUpdate ==
  ASSUME NEW r \in [pc : PopAt, item : Payloads], NEW pc \in PopAt
  PROVE  [r EXCEPT !.pc = pc] \in [pc : PopAt, item : Payloads]
  OBVIOUS

(* Every variable keeps its type.                                           *)
LEMMA QueueTypeStep == QueueTypeOK /\ [QueueNext]_queueVars => QueueTypeOK'
<1> SUFFICES ASSUME QueueTypeOK, [QueueNext]_queueVars PROVE QueueTypeOK'
  OBVIOUS
<1>a. Items \subseteq Payloads /\ None \in Payloads
  BY DEF Payloads
<1>b. {"idle", "look", "reload", "claim", "fill", "publish", "pushed", "exchange"} \subseteq PushAt
      /\ {"idle", "empty", "copy", "free", "advance", "popped"} \subseteq PopAt
  BY DEF PushAt, PopAt
<1> USE <1>a, <1>b, CapacityAssumption DEF QueueTypeOK
<1>1. ASSUME NEW p \in Producers, NEW x \in Items, PushBegin(p, x) PROVE QueueTypeOK'
  <2>1. [pc |-> "look", pos |-> enqueuePos, item |-> x] \in PushStates
    BY DEF PushStates
  <2> QED
    BY <1>1, <2>1 DEF PushBegin
<1>2. ASSUME NEW p \in Producers, PushLook(p) PROVE QueueTypeOK'
  BY <1>2, PushUpdate, SMTT(20) DEF PushLook, PushGoto
<1>3. ASSUME NEW p \in Producers, PushReload(p) PROVE QueueTypeOK'
  BY <1>3, PushUpdate, Zenon DEF PushReload
<1>4. ASSUME NEW p \in Producers, PushClaim(p) PROVE QueueTypeOK'
  <2>1. push' \in [Producers -> PushStates]
    BY <1>4, PushUpdate, SMTT(20) DEF PushClaim, PushGoto
  <2>2. enqueuePos' \in Nat
    BY <1>4 DEF PushClaim
  <2> QED
    BY <1>4, <2>1, <2>2 DEF PushClaim
<1>c. \A p \in Producers : push[p].pos \in Nat /\ push[p].item \in Payloads
                           /\ Cell(push[p].pos) \in 0 .. (Capacity - 1)
  BY CellFacts, Zenon DEF PushStates
<1>5. ASSUME NEW p \in Producers, PushFill(p) PROVE QueueTypeOK'
  <2>1. push' \in [Producers -> PushStates]
    BY <1>5, PushUpdate, Zenon DEF PushFill, PushGoto
  <2>2. cells' \in [0 .. (Capacity - 1) -> CellStates]
    BY <1>5, <1>c, CellUpdate, Zenon DEF PushFill
  <2> QED
    BY <1>5, <2>1, <2>2 DEF PushFill
<1>6. ASSUME NEW p \in Producers, PushPublish(p) PROVE QueueTypeOK'
  <2>1. push' \in [Producers -> PushStates]
    BY <1>6, PushUpdate, Zenon DEF PushPublish, PushGoto
  <2>2. push[p].pos + 1 \in Nat
    BY <1>c
  <2>3. \A n \in Nat : [cells EXCEPT ![Cell(push[p].pos)].sequence = n]
                         \in [0 .. (Capacity - 1) -> CellStates]
    BY <1>c, CellUpdate, ZenonT(30)
  <2>4. cells' \in [0 .. (Capacity - 1) -> CellStates]
    BY <1>6, <2>2, <2>3 DEF PushPublish
  <2> QED
    BY <1>6, <2>1, <2>4 DEF PushPublish
<1>7. ASSUME NEW p \in Producers, PushReturn(p) PROVE QueueTypeOK'
  <2>1. NotPushing \in PushStates /\ [push[p] EXCEPT !.pc = "exchange"] \in PushStates
    BY DEF PushStates, NotPushing
  <2> QED
    BY <1>7, <2>1 DEF PushReturn
<1>8. CASE PopLook
  BY <1>8, PopUpdate DEF PopLook
<1>9. CASE PopCopy
  <2>1. cells[Cell(dequeuePos)].item \in Payloads
    BY CellFacts, Zenon DEF CellStates
  <2> QED
    BY <1>9, <2>1 DEF PopCopy
<1>10. CASE PopFree
  <2>1. Cell(dequeuePos) \in 0 .. (Capacity - 1)
    BY CellFacts, Zenon
  <2>2. NextLap \in Nat
    BY DEF NextLap
  <2>3. cells' \in [0 .. (Capacity - 1) -> CellStates]
    BY <1>10, <2>1, <2>2, CellUpdate, ZenonT(30) DEF PopFree
  <2>4. pop' \in [pc : PopAt, item : Payloads]
    BY <1>10, PopUpdate DEF PopFree
  <2> QED
    BY <1>10, <2>3, <2>4 DEF PopFree
<1>11. CASE PopAdvance
  BY <1>11, PopUpdate DEF PopAdvance
<1>12. CASE PopReturn
  BY <1>12, PopUpdate DEF PopReturn
<1>13. CASE UNCHANGED queueVars
  BY <1>13 DEF queueVars
<1> QED
  BY <1>1, <1>2, <1>3, <1>4, <1>5, <1>6, <1>7, <1>8, <1>9, <1>10, <1>11, <1>12, <1>13
  DEF QueueNext, PushStep, PopStep

(* A step of p that neither claims nor publishes: the queue is as it was.   *)
LEMMA QuietPush ==
  ASSUME NEW p \in Producers, QueueInv, QueueTypeOK',
         \/ \E x \in Items : PushBegin(p, x)
         \/ PushLook(p) \/ PushReload(p) \/ PushReturn(p)
         \/ PushClaim(p) /\ enqueuePos # push[p].pos
  PROVE  /\ QueueInv'
         /\ UNCHANGED <<enqueuePos, dequeuePos, cells, pop, out>>
         /\ \A q \in Producers : \A pos \in Nat : Claims(q, pos)' <=> Claims(q, pos)
         /\ \A q \in Producers : push[q].pc \in {"fill", "publish"} => push'[q] = push[q]
<1> DEFINE Quiet ==
      /\ UNCHANGED <<enqueuePos, dequeuePos, cells, pop, out>>
      /\ \A q \in Producers : q # p => push'[q] = push[q]
      /\ push[p].pc \notin {"fill", "publish"} /\ push'[p].pc \notin {"fill", "publish"}
      /\ push'[p].pc \in {"look", "reload", "claim"} => push'[p].item \in Items
      /\ push'[p].pc \in {"look", "claim"} => push'[p].pos <= enqueuePos
      /\ push'[p].pc = "claim" => Sequence(push'[p].pos) = push'[p].pos
<1>a. /\ push \in [Producers -> PushStates] /\ enqueuePos \in Nat /\ push[p].pos \in Nat
      /\ Sequence(push[p].pos) \in Nat /\ Oldest \in Nat
  BY CellFacts, OldestType, Zenon DEF QueueInv, QueueTypeOK, PushStates, CellStates, Sequence
<1>b. /\ push[p].pc \in {"look", "reload", "claim"} => push[p].item \in Items
      /\ push[p].pc \in {"look", "claim"} => push[p].pos <= enqueuePos
  BY DEF QueueInv, ClaimInv
<1>1. Quiet
  <2>1. CASE \E x \in Items : PushBegin(p, x)
    BY <2>1, <1>a DEF PushBegin
  <2>2. CASE PushLook(p)
    <3>1. \/ Sequence(push[p].pos) = push[p].pos /\ push' = [push EXCEPT ![p].pc = "claim"]
          \/ push' = [push EXCEPT ![p].pc = "idle"]
          \/ push' = [push EXCEPT ![p].pc = "reload"]
      BY <2>2, <1>a DEF PushLook, PushGoto
    <3>2. push[p].pc = "look" /\ UNCHANGED <<enqueuePos, dequeuePos, cells, pop, out>>
      BY <2>2 DEF PushLook
    <3> QED
      BY <3>1, <3>2, <1>a, <1>b DEF PushStates
  <2>3. CASE PushReload(p)
    BY <2>3, <1>a, <1>b DEF PushReload, PushStates
  <2>4. CASE PushReturn(p)
    BY <2>4, <1>a DEF PushReturn, NotPushing, PushStates
  <2>5. CASE PushClaim(p) /\ enqueuePos # push[p].pos
    BY <2>5, <1>a, <1>b DEF PushClaim, PushStates
  <2> QED
    BY <2>1, <2>2, <2>3, <2>4, <2>5
<1>2. \A q \in Producers : \A pos \in Nat : Claims(q, pos)' <=> Claims(q, pos)
  BY <1>1 DEF Claims
<1>3. UNCHANGED Oldest
  BY <1>1 DEF Oldest
<1>4. LapInv' /\ PopInv'
  <2>1. \A pos \in Nat : (Sequence(pos)' = Sequence(pos)) /\ (Ready(pos)' <=> Ready(pos))
    BY <1>1 DEF Sequence, Ready
  <2>2. LapInv'
    BY <1>1, <1>2, <1>3, <2>1 DEF QueueInv, LapInv
  <2>3. PopInv'
    BY <1>1, <2>1 DEF QueueInv, QueueTypeOK, PopInv
  <2> QED
    BY <2>2, <2>3
<1>5. push'[p].pc = "claim" /\ push'[p].pos = enqueuePos => enqueuePos < Oldest + Capacity
  <2> SUFFICES ASSUME push'[p].pc = "claim", push'[p].pos = enqueuePos,
                      enqueuePos = Oldest + Capacity
               PROVE  FALSE
    BY <1>a, CapacityAssumption DEF QueueInv, LapInv
  <2>1. Sequence(Oldest) = enqueuePos
    BY <1>1, <1>a, CellFacts DEF Sequence
  <2>2. Ready(Oldest) \/ Sequence(Oldest) = Oldest
    <3>1. Ready(Oldest) \/ \E q \in Producers : Claims(q, Oldest)
      BY <1>a, CapacityAssumption DEF QueueInv, LapInv
    <3> QED
      BY <3>1 DEF QueueInv, ClaimInv, Claims
  <2> QED
    BY <1>a, <2>1, <2>2, CapacityAssumption DEF Ready
<1>6. ClaimInv'
  <2> SUFFICES ASSUME NEW q \in Producers PROVE
        /\ push'[q].pc \in {"look", "reload", "claim", "fill", "publish"} => push'[q].item \in Items
        /\ push'[q].pc \in {"look", "claim"} => push'[q].pos <= enqueuePos
        /\ push'[q].pc = "claim" /\ push'[q].pos = enqueuePos => enqueuePos < Oldest + Capacity
        /\ push'[q].pc \in {"fill", "publish"} =>
             /\ Oldest <= push'[q].pos /\ push'[q].pos < enqueuePos
             /\ Sequence(push'[q].pos) = push'[q].pos
             /\ \A r \in Producers : Claims(r, push[q].pos)' => r = q
        /\ push'[q].pc = "publish" => cells[Cell(push'[q].pos)].item = push'[q].item
    BY <1>1, <1>3 DEF ClaimInv, Sequence, Claims
  <2>1. CASE q = p
    BY <2>1, <1>1, <1>5
  <2>2. CASE q # p
    <3>1. \A r \in Producers : Claims(r, push[q].pos)' => Claims(r, push[q].pos)
      BY <2>2, <1>1 DEF Claims
    <3> QED
      BY <2>2, <3>1, <1>1 DEF QueueInv, ClaimInv
  <2> QED
    BY <2>1, <2>2
<1> QED
  BY <1>1, <1>2, <1>4, <1>6 DEF QueueInv

(* What the other lemmas use of the types.                                  *)
LEMMA QueueTypes ==
  QueueInv =>
    /\ enqueuePos \in Nat /\ dequeuePos \in Nat /\ Oldest \in Nat
    /\ push \in [Producers -> PushStates] /\ \A p \in Producers : push[p].pos \in Nat
    /\ cells \in [0 .. (Capacity - 1) -> CellStates]
    /\ \A pos \in Nat : Sequence(pos) \in Nat
    /\ pop = [pc |-> pop.pc, item |-> pop.item]
  BY CellFacts, OldestType, Zenon DEF QueueInv, QueueTypeOK, PushStates, CellStates, Sequence

(* The compare-exchange that succeeds adds the position it claimed.         *)
LEMMA ClaimStep ==
  ASSUME NEW p \in Producers, QueueInv, PushClaim(p), enqueuePos = push[p].pos
  PROVE  /\ (LapInv /\ ClaimInv /\ PopInv)'
         /\ enqueuePos' = enqueuePos + 1 /\ UNCHANGED <<Oldest, cells, dropped, out>>
         /\ enqueuePos < Oldest + Capacity
         /\ push[p].item \in Items
         /\ \A q \in Producers : push'[q].item = push[q].item
         /\ \A q \in Producers : \A pos \in Nat :
              Claims(q, pos)' <=> Claims(q, pos) \/ (q = p /\ pos = enqueuePos)
         /\ Sequence(enqueuePos) = enqueuePos
<1>1. /\ push[p].pc = "claim" /\ enqueuePos' = enqueuePos + 1
      /\ push' = [push EXCEPT ![p].pc = "fill"]
      /\ UNCHANGED <<dequeuePos, cells, dropped, pop, out>>
  BY DEF PushClaim, PushGoto
<1>2. UNCHANGED Oldest
  BY <1>1 DEF Oldest
<1>3. /\ \A q \in Producers : q # p => push'[q] = push[q]
      /\ push'[p].pc = "fill" /\ push'[p].pos = enqueuePos /\ push'[p].item = push[p].item
  BY <1>1, QueueTypes DEF PushStates
<1>4. enqueuePos < Oldest + Capacity /\ push[p].item \in Items
  BY <1>1 DEF QueueInv, ClaimInv
<1>5. Sequence(enqueuePos) = enqueuePos
  BY <1>4, QueueTypes DEF QueueInv, LapInv
<1>6. \A q \in Producers : \A pos \in Nat :
        Claims(q, pos)' <=> Claims(q, pos) \/ (q = p /\ pos = enqueuePos)
  BY <1>1, <1>3 DEF Claims
<1>7. \A pos \in Nat : (Sequence(pos)' = Sequence(pos)) /\ (Ready(pos)' <=> Ready(pos))
  BY <1>1 DEF Sequence, Ready
<1>8. LapInv'
  <2>1. Oldest <= enqueuePos + 1 /\ enqueuePos + 1 <= Oldest + Capacity
    BY <1>4, QueueTypes, CapacityAssumption DEF QueueInv, LapInv
  <2> SUFFICES ASSUME NEW pos \in Nat PROVE
        /\ pos < Oldest => Sequence(pos) > pos
        /\ Oldest <= pos /\ pos < enqueuePos + 1 =>
             Ready(pos) \/ \E q \in Producers : Claims(q, pos)'
        /\ enqueuePos + 1 <= pos /\ pos < Oldest + Capacity => Sequence(pos) = pos
    BY <1>1, <1>2, <1>7, <2>1 DEF LapInv
  <2>2. CASE pos = enqueuePos
    BY <2>2, <1>6, QueueTypes DEF QueueInv, LapInv
  <2>3. CASE pos # enqueuePos
    BY <2>3, <1>6, QueueTypes DEF QueueInv, LapInv
  <2> QED
    BY <2>2, <2>3
<1>9. ClaimInv'
  <2> SUFFICES ASSUME NEW q \in Producers PROVE
        /\ push'[q].pc \in {"look", "reload", "claim", "fill", "publish"} => push'[q].item \in Items
        /\ push'[q].pc \in {"look", "claim"} => push'[q].pos <= enqueuePos + 1
        /\ push'[q].pc = "claim" => push'[q].pos # enqueuePos + 1
        /\ push'[q].pc \in {"fill", "publish"} =>
             /\ Oldest <= push'[q].pos /\ push'[q].pos < enqueuePos + 1
             /\ Sequence(push'[q].pos) = push'[q].pos
             /\ \A r \in Producers : Claims(r, push[q].pos)' => r = q
        /\ push'[q].pc = "publish" => cells[Cell(push'[q].pos)].item = push'[q].item
    BY <1>1, <1>2 DEF ClaimInv, Sequence, Claims
  <2>1. CASE q = p
    <3>1. \A r \in Producers : ~Claims(r, enqueuePos)
      BY QueueTypes DEF QueueInv, ClaimInv, Claims
    <3>2. \A r \in Producers : Claims(r, push[q].pos)' => r = q
      BY <2>1, <3>1, <1>1, <1>3 DEF Claims
    <3> QED
      BY <2>1, <3>2, <1>3, <1>4, <1>5, QueueTypes DEF QueueInv, LapInv
  <2>2. CASE q # p
    <3>1. push'[q] = push[q] /\ push[q].pos \in Nat
      BY <2>2, <1>3, QueueTypes
    <3>2. push[q].pc \in {"fill", "publish"} =>
            \A r \in Producers : Claims(r, push[q].pos)' => r = q
      BY <3>1, <1>3, QueueTypes DEF QueueInv, ClaimInv, Claims
    <3> QED
      BY <3>1, <3>2, QueueTypes DEF QueueInv, ClaimInv
  <2> QED
    BY <2>1, <2>2
<1>10. PopInv'
  <2>1. dequeuePos < enqueuePos => dequeuePos < enqueuePos + 1
    BY QueueTypes
  <2> QED
    BY <1>1, <2>1 DEF QueueInv, PopInv, Ready, Sequence
<1> QED
  BY <1>1, <1>2, <1>3, <1>4, <1>5, <1>6, <1>8, <1>9, <1>10

(* Filling a claimed cell touches no cell that anyone else reads.           *)
LEMMA FillStep ==
  ASSUME NEW p \in Producers, QueueInv, PushFill(p)
  PROVE  /\ (LapInv /\ ClaimInv /\ PopInv)'
         /\ UNCHANGED <<enqueuePos, Oldest, dropped, out>>
         /\ \A q \in Producers : push'[q].item = push[q].item
         /\ \A q \in Producers : \A pos \in Nat : Claims(q, pos)' <=> Claims(q, pos)
         /\ \A pos \in Nat : Sequence(pos)' = Sequence(pos)
         /\ \A pos \in Nat : Oldest <= pos /\ pos < enqueuePos /\ Ready(pos) =>
              cells'[Cell(pos)].item = cells[Cell(pos)].item
<1>1. /\ push[p].pc = "fill" /\ push' = [push EXCEPT ![p].pc = "publish"]
      /\ cells' = [cells EXCEPT ![Cell(push[p].pos)].item = push[p].item]
      /\ UNCHANGED <<enqueuePos, dequeuePos, dropped, pop, out>>
  BY DEF PushFill, PushGoto
<1>2. UNCHANGED Oldest
  BY <1>1 DEF Oldest
<1>3. /\ \A q \in Producers : q # p => push'[q] = push[q]
      /\ push'[p].pc = "publish" /\ push'[p].pos = push[p].pos /\ push'[p].item = push[p].item
  BY <1>1, QueueTypes DEF PushStates
<1>4. \A q \in Producers : \A pos \in Nat : Claims(q, pos)' <=> Claims(q, pos)
  BY <1>1, <1>3 DEF Claims
<1>5. /\ \A pos \in Nat : Sequence(pos)' = Sequence(pos)
      /\ \A pos \in Nat : Cell(pos) # Cell(push[p].pos) => cells'[Cell(pos)] = cells[Cell(pos)]
      /\ cells'[Cell(push[p].pos)].item = push[p].item
  BY <1>1, QueueTypes, CellFacts DEF Sequence, CellStates
<1>6. \A pos \in Nat : Oldest <= pos /\ pos < enqueuePos /\ pos # push[p].pos =>
        cells'[Cell(pos)] = cells[Cell(pos)]
  <2> SUFFICES ASSUME NEW pos \in Nat, Oldest <= pos, pos < enqueuePos, pos # push[p].pos
               PROVE  cells'[Cell(pos)] = cells[Cell(pos)]
    OBVIOUS
  <2>1. /\ Oldest <= push[p].pos /\ push[p].pos < Oldest + Capacity
        /\ pos < Oldest + Capacity
    BY <1>1, QueueTypes, CapacityAssumption DEF QueueInv, LapInv, ClaimInv
  <2> QED
    BY <2>1, <1>5, LapCells, QueueTypes, SMTT(20)
<1>7. \A pos \in Nat : Oldest <= pos /\ pos < enqueuePos /\ Ready(pos) =>
        cells'[Cell(pos)].item = cells[Cell(pos)].item
  <2>1. ~Ready(push[p].pos)
    BY <1>1, QueueTypes DEF QueueInv, ClaimInv, Ready
  <2> QED
    BY <2>1, <1>6
<1>8. LapInv'
  <2>1. \A pos \in Nat : Ready(pos)' <=> Ready(pos)
    BY <1>5 DEF Ready
  <2> QED
    BY <1>1, <1>2, <1>4, <1>5, <2>1 DEF QueueInv, LapInv
<1>9. ClaimInv'
  <2> SUFFICES ASSUME NEW q \in Producers PROVE
        /\ push'[q].pc \in {"look", "reload", "claim", "fill", "publish"} => push'[q].item \in Items
        /\ push'[q].pc \in {"look", "claim"} => push'[q].pos <= enqueuePos
        /\ push'[q].pc = "claim" /\ push'[q].pos = enqueuePos => enqueuePos < Oldest + Capacity
        /\ push'[q].pc \in {"fill", "publish"} =>
             /\ Oldest <= push'[q].pos /\ push'[q].pos < enqueuePos
             /\ Sequence(push[q].pos)' = push'[q].pos
             /\ \A r \in Producers : Claims(r, push[q].pos)' => r = q
        /\ push'[q].pc = "publish" => cells'[Cell(push'[q].pos)].item = push'[q].item
    BY <1>1, <1>2 DEF ClaimInv, Sequence, Claims
  <2>1. /\ push'[q].pos = push[q].pos /\ push[q].pos \in Nat
        /\ \A r \in Producers : Claims(r, push[q].pos)' => Claims(r, push[q].pos)
        /\ Sequence(push[q].pos)' = Sequence(push[q].pos)
    BY <1>1, <1>3, <1>5, QueueTypes DEF Claims, Sequence
  <2>2. CASE q = p
    BY <2>1, <2>2, <1>1, <1>3, <1>5 DEF QueueInv, ClaimInv
  <2>3. CASE q # p
    <3>1. push'[q] = push[q]
      BY <2>3, <1>3
    <3>2. push[q].pc \in {"fill", "publish"} => push[q].pos # push[p].pos
      BY <2>3, <1>1 DEF QueueInv, ClaimInv, Claims
    <3>3. push[q].pc = "publish" => cells'[Cell(push[q].pos)].item = push[q].item
      BY <3>2, <2>1, <1>6 DEF QueueInv, ClaimInv
    <3> QED
      BY <3>1, <3>3, <2>1 DEF QueueInv, ClaimInv
  <2> QED
    BY <2>2, <2>3
<1>10. PopInv'
  <2>1. Ready(dequeuePos)' <=> Ready(dequeuePos)
    BY <1>1, <1>5, QueueTypes DEF Ready, Sequence
  <2>2. pop.pc \in {"copy", "free"} => cells'[Cell(dequeuePos)].item = cells[Cell(dequeuePos)].item
    BY <1>7, QueueTypes DEF QueueInv, PopInv, Oldest
  <2> QED
    BY <1>1, <2>1, <2>2 DEF QueueInv, PopInv
<1> QED
  BY <1>1, <1>2, <1>3, <1>4, <1>5, <1>7, <1>8, <1>9, <1>10

(* Publishing makes the claimed position ready and ends the claim.          *)
LEMMA PublishStep ==
  ASSUME NEW p \in Producers, QueueInv, PushPublish(p)
  PROVE  /\ (LapInv /\ ClaimInv /\ PopInv)'
         /\ UNCHANGED <<enqueuePos, Oldest, dropped, out>>
         /\ Claims(p, push[p].pos) /\ cells[Cell(push[p].pos)].item = push[p].item
         /\ \A q \in Producers : push'[q].item = push[q].item
         /\ \A q \in Producers : \A pos \in Nat : Claims(q, pos)' <=> Claims(q, pos) /\ q # p
         /\ \A pos \in Nat : cells'[Cell(pos)].item = cells[Cell(pos)].item
         /\ \A pos \in Nat : pos = push[p].pos => Ready(pos)'
         /\ \A pos \in Nat : Oldest <= pos /\ pos < enqueuePos /\ pos # push[p].pos =>
              (Ready(pos)' <=> Ready(pos))
<1>1. /\ push[p].pc = "publish" /\ push' = [push EXCEPT ![p].pc = "pushed"]
      /\ cells' = [cells EXCEPT ![Cell(push[p].pos)].sequence = push[p].pos + 1]
      /\ UNCHANGED <<enqueuePos, dequeuePos, dropped, pop, out>>
  BY DEF PushPublish, PushGoto
<1>2. UNCHANGED Oldest
  BY <1>1 DEF Oldest
<1>3. /\ \A q \in Producers : q # p => push'[q] = push[q]
      /\ push'[p].pc = "pushed" /\ push'[p].item = push[p].item
  BY <1>1, QueueTypes DEF PushStates
<1>4. \A q \in Producers : \A pos \in Nat : Claims(q, pos)' <=> Claims(q, pos) /\ q # p
  BY <1>1, <1>3 DEF Claims
<1>5. /\ \A pos \in Nat : cells'[Cell(pos)].item = cells[Cell(pos)].item
      /\ \A pos \in Nat : Cell(pos) # Cell(push[p].pos) => Sequence(pos)' = Sequence(pos)
      /\ \A pos \in Nat : Cell(pos) = Cell(push[p].pos) => Sequence(pos)' = push[p].pos + 1
  BY <1>1, QueueTypes, CellFacts DEF Sequence, CellStates
<1>6. /\ push[p].pos \in Nat /\ Oldest <= push[p].pos /\ push[p].pos < enqueuePos
      /\ Sequence(push[p].pos) = push[p].pos /\ enqueuePos <= Oldest + Capacity
      /\ \A q \in Producers : Claims(q, push[p].pos) => q = p
  BY <1>1, QueueTypes DEF QueueInv, LapInv, ClaimInv
<1>7. \A pos \in Nat : Oldest <= pos /\ pos < Oldest + Capacity /\ pos # push[p].pos =>
        Sequence(pos)' = Sequence(pos)
  <2> SUFFICES ASSUME NEW pos \in Nat, Oldest <= pos, pos < Oldest + Capacity, pos # push[p].pos
               PROVE  Sequence(pos)' = Sequence(pos)
    OBVIOUS
  <2>1. push[p].pos < Oldest + Capacity
    BY <1>6, QueueTypes, CapacityAssumption
  <2> QED
    BY <2>1, <1>5, <1>6, LapCells, QueueTypes
<1>8. \A pos \in Nat : pos = push[p].pos => Ready(pos)'
  BY <1>5 DEF Ready
<1>9. \A pos \in Nat : Oldest <= pos /\ pos < enqueuePos /\ pos # push[p].pos =>
        (Ready(pos)' <=> Ready(pos))
  <2>1. \A pos \in Nat : pos < enqueuePos => pos < Oldest + Capacity
    BY <1>6, QueueTypes, CapacityAssumption
  <2> QED
    BY <2>1, <1>7 DEF Ready
<1>10. LapInv'
  <2> SUFFICES ASSUME NEW pos \in Nat PROVE
        /\ pos < Oldest => Sequence(pos)' > pos
        /\ Oldest <= pos /\ pos < enqueuePos =>
             Ready(pos)' \/ \E q \in Producers : Claims(q, pos)'
        /\ enqueuePos <= pos /\ pos < Oldest + Capacity => Sequence(pos)' = pos
    BY <1>1, <1>2 DEF QueueInv, LapInv
  <2>1. ASSUME pos < Oldest PROVE Sequence(pos)' > pos
    <3>1. Sequence(pos) > pos /\ push[p].pos + 1 > pos
      BY <2>1, <1>6, QueueTypes DEF QueueInv, LapInv
    <3> QED
      BY <3>1, <1>5
  <2>2. ASSUME Oldest <= pos, pos < enqueuePos
        PROVE  Ready(pos)' \/ \E q \in Producers : Claims(q, pos)'
    <3>1. CASE pos = push[p].pos
      BY <3>1, <1>8
    <3>2. CASE pos # push[p].pos
      BY <2>2, <3>2, <1>4, <1>9 DEF QueueInv, LapInv, Claims
    <3> QED
      BY <3>1, <3>2
  <2>3. ASSUME enqueuePos <= pos, pos < Oldest + Capacity PROVE Sequence(pos)' = pos
    <3>1. Oldest <= pos /\ pos # push[p].pos
      BY <2>3, <1>6, QueueTypes, SMTT(20)
    <3> QED
      BY <2>3, <3>1, <1>7 DEF QueueInv, LapInv
  <2> QED
    BY <2>1, <2>2, <2>3
<1>11. ClaimInv'
  <2> SUFFICES ASSUME NEW q \in Producers PROVE
        /\ push'[q].pc \in {"look", "reload", "claim", "fill", "publish"} => push'[q].item \in Items
        /\ push'[q].pc \in {"look", "claim"} => push'[q].pos <= enqueuePos
        /\ push'[q].pc = "claim" /\ push'[q].pos = enqueuePos => enqueuePos < Oldest + Capacity
        /\ push'[q].pc \in {"fill", "publish"} =>
             /\ Oldest <= push'[q].pos /\ push'[q].pos < enqueuePos
             /\ Sequence(push[q].pos)' = push'[q].pos
             /\ \A r \in Producers : Claims(r, push[q].pos)' => r = q
        /\ push'[q].pc = "publish" => cells'[Cell(push'[q].pos)].item = push'[q].item
    BY <1>1, <1>2 DEF ClaimInv, Sequence, Claims
  <2>1. CASE q = p
    BY <2>1, <1>3
  <2>2. CASE q # p
    <3>1. push'[q] = push[q] /\ push[q].pos \in Nat
      BY <2>2, <1>3, QueueTypes
    <3>2. ASSUME push[q].pc \in {"fill", "publish"}
          PROVE  /\ Sequence(push[q].pos)' = push[q].pos
                 /\ \A r \in Producers : Claims(r, push[q].pos)' => r = q
      <4>1. push[q].pos # push[p].pos
        BY <3>2, <2>2, <1>6 DEF Claims
      <4>2. /\ Oldest <= push[q].pos /\ push[q].pos < Oldest + Capacity
            /\ Sequence(push[q].pos) = push[q].pos
        BY <3>1, <3>2, <1>6, QueueTypes, CapacityAssumption DEF QueueInv, ClaimInv
      <4>3. \A r \in Producers : Claims(r, push[q].pos)' => Claims(r, push[q].pos)
        BY <3>1, <1>3 DEF Claims
      <4>4. Sequence(push[q].pos)' = Sequence(push[q].pos)
        BY <4>1, <4>2, <3>1, <1>7 DEF Sequence
      <4> QED
        BY <3>2, <4>2, <4>3, <4>4 DEF QueueInv, ClaimInv
    <3> QED
      BY <3>1, <3>2, <1>5 DEF QueueInv, ClaimInv
  <2> QED
    BY <2>1, <2>2
<1>12. PopInv'
  <2>1. ASSUME pop.pc \in {"copy", "free"} PROVE Ready(dequeuePos)'
    <3>1. dequeuePos = Oldest /\ Ready(dequeuePos) /\ dequeuePos < enqueuePos
      BY <2>1 DEF QueueInv, PopInv, Oldest
    <3>2. dequeuePos # push[p].pos
      BY <3>1, <1>6 DEF Ready
    <3> QED
      BY <3>1, <3>2, <1>1, <1>7, <1>6, QueueTypes, CapacityAssumption DEF Ready, Sequence
  <2> QED
    BY <1>1, <1>5, <2>1, QueueTypes DEF QueueInv, PopInv
<1> QED
  BY <1>1, <1>2, <1>3, <1>4, <1>5, <1>8, <1>9, <1>10, <1>11, <1>12 DEF QueueInv, ClaimInv, Claims

(* The steps of pop that free nothing leave the queue as it was.            *)
LEMMA QuietPop ==
  ASSUME QueueInv, PopLook \/ PopCopy \/ PopAdvance \/ PopReturn
  PROVE  /\ (LapInv /\ ClaimInv /\ PopInv)'
         /\ UNCHANGED <<enqueuePos, Oldest, cells, push, dropped, out>>
<1>1. UNCHANGED <<enqueuePos, cells, push, dropped, out>>
  BY DEF PopLook, PopCopy, PopAdvance, PopReturn
<1>2. UNCHANGED Oldest
  BY QueueTypes DEF PopLook, PopCopy, PopAdvance, PopReturn, Oldest
<1>3. LapInv'
  <2>1. \A pos \in Nat : (Sequence(pos)' = Sequence(pos)) /\ (Ready(pos)' <=> Ready(pos))
    BY <1>1 DEF Sequence, Ready
  <2>2. \A q \in Producers : \A pos \in Nat : Claims(q, pos)' <=> Claims(q, pos)
    BY <1>1 DEF Claims
  <2> QED
    BY <1>1, <1>2, <2>1, <2>2 DEF QueueInv, LapInv
<1>4. ClaimInv'
  BY <1>1, <1>2 DEF QueueInv, ClaimInv, Claims, Sequence
<1>5. PopInv'
  <2>1. CASE PopLook
    <3>1. ASSUME ~Empty PROVE Ready(dequeuePos) /\ dequeuePos < enqueuePos
      <4>1. dequeuePos = Oldest /\ Sequence(dequeuePos) = dequeuePos + 1
        BY <2>1, <3>1 DEF PopLook, Empty, Oldest
      <4> QED
        BY <4>1, QueueTypes, CapacityAssumption DEF QueueInv, LapInv, Ready
    <3>2. pop'.pc = (IF Empty THEN "empty" ELSE "copy") /\ UNCHANGED dequeuePos
      BY <2>1, QueueTypes DEF PopLook
    <3> QED
      BY <3>1, <3>2, <1>1 DEF PopInv, Ready, Sequence
  <2>2. CASE PopCopy
    BY <2>2 DEF PopCopy, QueueInv, PopInv, Ready, Sequence
  <2>3. CASE PopAdvance \/ PopReturn
    BY <2>3, QueueTypes DEF PopAdvance, PopReturn, PopInv
  <2> QED
    BY <2>1, <2>2, <2>3
<1> QED
  BY <1>1, <1>2, <1>3, <1>4, <1>5

(* Freeing a cell gives it to the position a lap ahead.                     *)
LEMMA FreeStep ==
  ASSUME QueueInv, PopFree
  PROVE  /\ (LapInv /\ ClaimInv /\ PopInv)'
         /\ UNCHANGED <<enqueuePos, push, dropped>>
         /\ Oldest = dequeuePos /\ Oldest < enqueuePos /\ Ready(Oldest) /\ Oldest' = Oldest + 1
         /\ out' = cells[Cell(Oldest)].item
         /\ \A pos \in Nat : Oldest < pos /\ pos < enqueuePos =>
              cells'[Cell(pos)] = cells[Cell(pos)]
<1>1. /\ pop.pc = "free" /\ pop'.pc = "advance" /\ out' = pop.item
      /\ cells' = [cells EXCEPT ![Cell(dequeuePos)].sequence = dequeuePos + Capacity]
      /\ UNCHANGED <<enqueuePos, dequeuePos, push, dropped>>
  BY QueueTypes DEF PopFree, NextLap
<1>2. /\ Oldest = dequeuePos /\ Oldest' = Oldest + 1 /\ Oldest < enqueuePos /\ Ready(Oldest)
      /\ out' = cells[Cell(Oldest)].item
  BY <1>1 DEF Oldest, QueueInv, PopInv
<1>3. /\ \A pos \in Nat : Cell(pos) # Cell(Oldest) => cells'[Cell(pos)] = cells[Cell(pos)]
      /\ \A pos \in Nat : cells'[Cell(pos)].item = cells[Cell(pos)].item
      /\ \A pos \in Nat : Cell(pos) = Cell(Oldest) => Sequence(pos)' = Oldest + Capacity
  BY <1>1, <1>2, QueueTypes, CellFacts DEF Sequence, CellStates
<1>4. \A pos \in Nat : Oldest < pos /\ pos < Oldest + Capacity =>
        (cells'[Cell(pos)] = cells[Cell(pos)]) /\ (Sequence(pos)' = Sequence(pos))
  BY <1>3, CellFacts, QueueTypes DEF Sequence
<1>5. /\ Oldest <= enqueuePos /\ enqueuePos <= Oldest + Capacity
      /\ Oldest + 1 <= enqueuePos /\ enqueuePos <= Oldest + 1 + Capacity
      /\ \A pos \in Nat : pos < enqueuePos => pos < Oldest + Capacity
  BY <1>2, QueueTypes, CapacityAssumption DEF QueueInv, LapInv
<1>6. LapInv'
  <2> SUFFICES ASSUME NEW pos \in Nat PROVE
        /\ pos < Oldest + 1 => Sequence(pos)' > pos
        /\ Oldest + 1 <= pos /\ pos < enqueuePos =>
             Ready(pos)' \/ \E q \in Producers : Claims(q, pos)
        /\ enqueuePos <= pos /\ pos < Oldest + 1 + Capacity => Sequence(pos)' = pos
    BY <1>1, <1>2, <1>5 DEF LapInv, Claims
  <2>1. ASSUME pos < Oldest + 1 PROVE Sequence(pos)' > pos
    <3>1. CASE Cell(pos) = Cell(Oldest)
      BY <2>1, <3>1, <1>3, QueueTypes, CapacityAssumption
    <3>2. CASE Cell(pos) # Cell(Oldest)
      <4>1. pos < Oldest
        BY <2>1, <3>2, QueueTypes
      <4> QED
        BY <4>1, <3>2, <1>3 DEF QueueInv, LapInv, Sequence
    <3> QED
      BY <3>1, <3>2
  <2>2. ASSUME Oldest + 1 <= pos, pos < enqueuePos
        PROVE  Ready(pos)' \/ \E q \in Producers : Claims(q, pos)
    <3>1. Oldest < pos /\ Oldest <= pos /\ pos < Oldest + Capacity
      BY <2>2, <1>5, QueueTypes
    <3>2. Ready(pos)' <=> Ready(pos)
      BY <3>1, <1>4 DEF Ready
    <3> QED
      BY <2>2, <3>1, <3>2 DEF QueueInv, LapInv
  <2>3. ASSUME enqueuePos <= pos, pos < Oldest + 1 + Capacity PROVE Sequence(pos)' = pos
    <3>1. CASE pos = Oldest + Capacity
      BY <3>1, <1>3, CellFacts, QueueTypes
    <3>2. CASE pos # Oldest + Capacity
      <4>1. Oldest < pos /\ pos < Oldest + Capacity
        BY <2>3, <3>2, <1>2, QueueTypes, CapacityAssumption, SMTT(20)
      <4> QED
        BY <2>3, <4>1, <1>4 DEF QueueInv, LapInv
    <3> QED
      BY <3>1, <3>2
  <2> QED
    BY <2>1, <2>2, <2>3
<1>7. ClaimInv'
  <2> SUFFICES ASSUME NEW q \in Producers PROVE
        /\ push[q].pc \in {"look", "reload", "claim", "fill", "publish"} => push[q].item \in Items
        /\ push[q].pc \in {"look", "claim"} => push[q].pos <= enqueuePos
        /\ push[q].pc = "claim" /\ push[q].pos = enqueuePos => enqueuePos < Oldest + 1 + Capacity
        /\ push[q].pc \in {"fill", "publish"} =>
             /\ Oldest + 1 <= push[q].pos /\ push[q].pos < enqueuePos
             /\ Sequence(push[q].pos)' = push[q].pos
             /\ \A r \in Producers : Claims(r, push[q].pos) => r = q
        /\ push[q].pc = "publish" => cells'[Cell(push[q].pos)].item = push[q].item
    BY <1>1, <1>2 DEF ClaimInv, Sequence, Claims
  <2>1. push[q].pos \in Nat
    BY QueueTypes
  <2>2. ASSUME push[q].pc \in {"fill", "publish"}
        PROVE  Oldest + 1 <= push[q].pos /\ Sequence(push[q].pos)' = push[q].pos
    <3>1. /\ Oldest <= push[q].pos /\ push[q].pos < enqueuePos
          /\ Sequence(push[q].pos) = push[q].pos
      BY <2>2 DEF QueueInv, ClaimInv
    <3>2. Oldest < push[q].pos /\ Oldest + 1 <= push[q].pos
      BY <3>1, <2>1, <1>2, QueueTypes DEF Ready
    <3>3. Sequence(push[q].pos)' = Sequence(push[q].pos)
      BY <3>1, <3>2, <2>1, <1>1, <1>4, <1>5 DEF Sequence
    <3> QED
      BY <3>1, <3>2, <3>3
  <2>3. enqueuePos < Oldest + Capacity => enqueuePos < Oldest + 1 + Capacity
    BY QueueTypes, CapacityAssumption
  <2> QED
    BY <2>1, <2>2, <2>3, <1>3 DEF QueueInv, ClaimInv
<1>8. PopInv'
  BY <1>1 DEF PopInv
<1> QED
  BY <1>1, <1>2, <1>4, <1>5, <1>6, <1>7, <1>8

(* Each step preserves QueueInv.                                            *)
LEMMA QueueStepInv == QueueInv /\ [QueueNext]_queueVars => QueueInv'
<1> SUFFICES ASSUME QueueInv, [QueueNext]_queueVars PROVE QueueInv'
  OBVIOUS
<1>1. QueueTypeOK'
  BY QueueTypeStep DEF QueueInv
<1>2. ASSUME NEW p \in Producers,
             (\E x \in Items : PushBegin(p, x)) \/ PushStep(p) \/ PushReturn(p)
      PROVE  QueueInv'
  BY <1>1, <1>2, QuietPush, ClaimStep, FillStep, PublishStep DEF PushStep, QueueInv
<1>3. CASE PopStep \/ PopReturn
  BY <1>1, <1>3, QuietPop, FreeStep DEF PopStep, QueueInv
<1>4. CASE UNCHANGED queueVars
  BY <1>4, SMTT(20) DEF queueVars, QueueInv, QueueTypeOK, LapInv, ClaimInv, PopInv, Oldest,
                        Sequence, Ready, Claims
<1> QED
  BY <1>2, <1>3, <1>4 DEF QueueNext

----------------------------------------------------------------------------
(* What BoundedFifo sees in a place: the cell's item once it is ready, the  *)
(* item of its one claimant until then.                                     *)
Places == [item : Payloads, ready : BOOLEAN]

HeldInv ==
  \A pos \in Nat : Oldest <= pos /\ pos < enqueuePos =>
    /\ Held(pos) \in Places
    /\ Ready(pos) => Held(pos) = [item |-> cells[Cell(pos)].item, ready |-> TRUE]
    /\ \A p \in Producers : Claims(p, pos) => Held(pos) = [item |-> push[p].item, ready |-> FALSE]

(* Held names the right item for every place between Oldest and enqueuePos. *)
LEMMA HeldFacts == QueueInv => HeldInv
<1> SUFFICES ASSUME QueueInv, NEW pos \in Nat, Oldest <= pos, pos < enqueuePos
             PROVE  /\ Held(pos) \in Places
                    /\ Ready(pos) => Held(pos) = [item |-> cells[Cell(pos)].item, ready |-> TRUE]
                    /\ \A p \in Producers :
                         Claims(p, pos) => Held(pos) = [item |-> push[p].item, ready |-> FALSE]
  BY DEF HeldInv
<1>1. ASSUME Ready(pos)
      PROVE  Held(pos) = [item |-> cells[Cell(pos)].item, ready |-> TRUE]
  BY <1>1 DEF Held
<1>2. ASSUME NEW p \in Producers, Claims(p, pos)
      PROVE  Held(pos) = [item |-> push[p].item, ready |-> FALSE]
  <2>1. ~Ready(pos) /\ \A q \in Producers : Claims(q, pos) => q = p
    BY <1>2, QueueTypes DEF QueueInv, ClaimInv, Claims, Ready
  <2>2. Claimant(pos) = p
    BY <1>2, <2>1 DEF Claimant, Claims
  <2>3. Ready(pos) = FALSE
    BY <2>1 DEF Ready
  <2> QED
    BY <2>2, <2>3, Zenon DEF Held
<1>3. /\ cells[Cell(pos)].item \in Payloads
      /\ \A p \in Producers : push[p].item \in Payloads
  BY CellFacts, QueueTypes DEF CellStates, PushStates
<1>4. Held(pos) \in Places
  <2>1. Ready(pos) \/ \E p \in Producers : Claims(p, pos)
    BY DEF QueueInv, LapInv
  <2>2. \E x \in Payloads : \E b \in BOOLEAN : Held(pos) = [item |-> x, ready |-> b]
    BY <2>1, <1>1, <1>2, <1>3, Zenon
  <2> QED
    BY <2>2 DEF Places
<1> QED
  BY <1>1, <1>2, <1>4

(* A function on 1 .. n is a sequence of length n.                          *)
LEMMA FunctionIsSeq ==
  ASSUME NEW S, NEW n \in Nat, NEW f \in [1 .. n -> S]
  PROVE  f \in Seq(S) /\ Len(f) = n /\ DOMAIN f = 1 .. n
  OBVIOUS

(* Contents is a sequence of enqueuePos - Oldest places.                    *)
ContentsFacts ==
  /\ enqueuePos - Oldest \in Nat
  /\ Contents \in Seq(Places) /\ Len(Contents) = enqueuePos - Oldest
  /\ DOMAIN Contents = 1 .. (enqueuePos - Oldest)
  /\ \A i \in 1 .. (enqueuePos - Oldest) :
       /\ Contents[i] = Held(Oldest + i - 1)
       /\ Oldest + i - 1 \in Nat /\ Oldest <= Oldest + i - 1 /\ Oldest + i - 1 < enqueuePos

(* QueueInv makes Contents such a sequence.                                 *)
LEMMA ContentsAreFacts == QueueInv => ContentsFacts
<1> SUFFICES ASSUME QueueInv PROVE ContentsFacts
  OBVIOUS
<1>1. enqueuePos - Oldest \in Nat
  BY QueueTypes DEF QueueInv, LapInv
<1>2. \A i \in 1 .. (enqueuePos - Oldest) :
        Oldest + i - 1 \in Nat /\ Oldest <= Oldest + i - 1 /\ Oldest + i - 1 < enqueuePos
  BY QueueTypes
<1>3. \A i \in 1 .. (enqueuePos - Oldest) : Held(Oldest + i - 1) \in Places
  BY <1>2, HeldFacts DEF HeldInv
<1>4. Contents \in [1 .. (enqueuePos - Oldest) -> Places]
  BY <1>3 DEF Contents
<1>5. \A i \in 1 .. (enqueuePos - Oldest) : Contents[i] = Held(Oldest + i - 1)
  BY DEF Contents
<1> QED
  BY <1>1, <1>2, <1>4, <1>5, FunctionIsSeq DEF ContentsFacts

(* Both facts hold after the step too.                                      *)
LEMMA FactsPrimed == QueueInv' => HeldInv' /\ ContentsFacts'
  BY HeldFacts, ContentsAreFacts, PTL

(* A step that moves neither end, and changes no place's item or readiness, *)
(* is a stutter of the FIFO.                                                *)
LEMMA SameContents ==
  ASSUME QueueInv, QueueInv', UNCHANGED <<enqueuePos, Oldest>>,
         \A q \in Producers : \A pos \in Nat : Claims(q, pos)' <=> Claims(q, pos),
         \A q \in Producers : push[q].pc \in {"fill", "publish"} => push'[q].item = push[q].item,
         \A pos \in Nat : Ready(pos)' <=> Ready(pos),
         \A pos \in Nat : Oldest <= pos /\ pos < enqueuePos /\ Ready(pos) =>
           cells'[Cell(pos)].item = cells[Cell(pos)].item
  PROVE  UNCHANGED Contents
<1>1. \A pos \in Nat : Oldest <= pos /\ pos < enqueuePos => Held(pos)' = Held(pos)
  <2> SUFFICES ASSUME NEW pos \in Nat, Oldest <= pos, pos < enqueuePos
               PROVE  Held(pos)' = Held(pos)
    OBVIOUS
  <2>1. CASE Ready(pos)
    <3>1. HeldInv /\ HeldInv'
      BY HeldFacts, FactsPrimed
    <3>2. Held(pos) = [item |-> cells[Cell(pos)].item, ready |-> TRUE]
      BY <2>1, <3>1 DEF HeldInv
    <3>3. Held(pos)' = [item |-> cells'[Cell(pos)].item, ready |-> TRUE]
      BY <2>1, <3>1 DEF HeldInv
    <3> QED
      BY <2>1, <3>2, <3>3, Zenon
  <2>2. CASE \E p \in Producers : Claims(p, pos)
    <3>1. PICK p \in Producers : Claims(p, pos)
      BY <2>2
    <3>2. Claims(p, pos)' /\ push'[p].item = push[p].item
      BY <3>1 DEF Claims
    <3>3. HeldInv /\ HeldInv'
      BY HeldFacts, FactsPrimed
    <3>4. Held(pos) = [item |-> push[p].item, ready |-> FALSE]
      BY <3>1, <3>3 DEF HeldInv
    <3>5. Held(pos)' = [item |-> push'[p].item, ready |-> FALSE]
      BY <3>2, <3>3 DEF HeldInv
    <3> QED
      BY <3>2, <3>4, <3>5
  <2> QED
    BY <2>1, <2>2 DEF QueueInv, LapInv
<1>2. \A i \in 1 .. (enqueuePos - Oldest) : Held(Oldest + i - 1)' = Held(Oldest + i - 1)
  <2> TAKE i \in 1 .. (enqueuePos - Oldest)
  <2>1. Oldest + i - 1 \in Nat /\ Oldest <= Oldest + i - 1 /\ Oldest + i - 1 < enqueuePos
    BY ContentsAreFacts DEF ContentsFacts
  <2> QED
    BY <2>1, <1>1
<1> QED
  BY <1>2 DEF Contents

(* The compare-exchange that succeeds is Reserve.                           *)
LEMMA ClaimReserves ==
  ASSUME NEW p \in Producers, QueueInv, QueueInv', PushClaim(p), enqueuePos = push[p].pos
  PROVE  Fifo!Reserve
<1>1. ContentsFacts /\ ContentsFacts' /\ HeldInv /\ HeldInv'
  BY HeldFacts, ContentsAreFacts, FactsPrimed
<1>2. PICK e \in Nat, o \in Nat : e = enqueuePos /\ o = Oldest
  BY QueueTypes
<1>3. /\ e - o \in Nat /\ e - o < Capacity /\ enqueuePos' - Oldest' = (e - o) + 1
      /\ enqueuePos' = e + 1 /\ Oldest' = o
  BY <1>1, <1>2, ClaimStep, CapacityAssumption, SMTT(20) DEF ContentsFacts
<1>4. ASSUME NEW pos \in Nat, o <= pos, pos < e PROVE Held(pos)' = Held(pos)
  <2>1. pos < e + 1
    BY <1>4
  <2>2. CASE Ready(pos)
    <3>1. Ready(pos)' /\ cells' = cells
      BY <2>2, ClaimStep DEF Ready, Sequence
    <3>2. Held(pos) = [item |-> cells[Cell(pos)].item, ready |-> TRUE]
      BY <2>2, <1>1, <1>2, <1>4 DEF HeldInv
    <3>3. Held(pos)' = [item |-> cells'[Cell(pos)].item, ready |-> TRUE]
      BY <2>1, <3>1, <1>1, <1>3, <1>4 DEF HeldInv
    <3> QED
      BY <3>1, <3>2, <3>3
  <2>3. CASE \E q \in Producers : Claims(q, pos)
    <3>1. PICK q \in Producers : Claims(q, pos)
      BY <2>3
    <3>2. Claims(q, pos)' /\ push'[q].item = push[q].item
      BY <3>1, ClaimStep
    <3>3. Held(pos) = [item |-> push[q].item, ready |-> FALSE]
      BY <3>1, <1>1, <1>2, <1>4 DEF HeldInv
    <3>4. Held(pos)' = [item |-> push'[q].item, ready |-> FALSE]
      BY <2>1, <3>2, <1>1, <1>3, <1>4 DEF HeldInv
    <3> QED
      BY <3>2, <3>3, <3>4
  <2> QED
    BY <1>2, <1>4, <2>2, <2>3 DEF QueueInv, LapInv
<1>5. \A i \in 1 .. (e - o) : Contents'[i] = Contents[i]
  <2> TAKE i \in 1 .. (e - o)
  <2>1. /\ o + i - 1 \in Nat /\ o <= o + i - 1 /\ o + i - 1 < e
        /\ i \in 1 .. ((e - o) + 1)
    BY <1>3
  <2>2. Contents'[i] = Held(o + i - 1)'
    BY <2>1, <1>1, <1>3 DEF ContentsFacts
  <2>3. Contents[i] = Held(o + i - 1)
    BY <1>1, <1>2 DEF ContentsFacts
  <2> QED
    BY <2>1, <2>2, <2>3, <1>4
<1>6. Contents'[(e - o) + 1] = [item |-> push[p].item, ready |-> FALSE] /\ push[p].item \in Items
  <2>1. (e - o) + 1 \in 1 .. ((e - o) + 1) /\ o + ((e - o) + 1) - 1 = e /\ o <= e /\ e < e + 1
    BY <1>3
  <2>2. Contents'[(e - o) + 1] = Held(o + ((e - o) + 1) - 1)'
    BY <2>1, <1>1, <1>3 DEF ContentsFacts
  <2>3. Claims(p, e)' /\ push'[p].item = push[p].item /\ push[p].item \in Items
    BY <1>2, ClaimStep
  <2>4. Held(e)' = [item |-> push'[p].item, ready |-> FALSE]
    BY <2>1, <2>3, <1>1, <1>3 DEF HeldInv
  <2> QED
    BY <2>1, <2>2, <2>3, <2>4, Zenon
<1>7. /\ Len(Contents) = e - o /\ Len(Contents') = (e - o) + 1
      /\ Contents \in Seq(Places) /\ Contents' \in Seq(Places)
  BY <1>1, <1>2, <1>3 DEF ContentsFacts
<1>8. SubSeq(Contents', 1, Len(Contents)) = Contents
  BY <1>3, <1>5, <1>7
<1>9. UNCHANGED <<out, dropped>>
  BY ClaimStep
<1>10. Contents'[Len(Contents')] \in [item : Items, ready : {FALSE}]
  <2>1. [item |-> push[p].item, ready |-> FALSE] \in [item : Items, ready : {FALSE}]
    BY <1>6
  <2> QED
    BY <2>1, <1>6, <1>7, Zenon
<1> QED
  BY <1>3, <1>7, <1>8, <1>9, <1>10, Zenon DEF Fifo!Reserve

(* Setting ready keeps the item.                                            *)
LEMMA SetReady ==
  ASSUME NEW r, NEW x, NEW b, NEW c, r = [item |-> x, ready |-> b]
  PROVE  [r EXCEPT !.ready = c] = [item |-> x, ready |-> c]
  OBVIOUS

(* Publishing is Deliver of the claimed place.                              *)
LEMMA PublishDelivers ==
  ASSUME NEW p \in Producers, QueueInv, QueueInv', PushPublish(p)
  PROVE  \E i \in DOMAIN Contents : Fifo!Deliver(i)
<1>1. ContentsFacts /\ ContentsFacts' /\ HeldInv /\ HeldInv'
  BY HeldFacts, ContentsAreFacts, FactsPrimed
<1>2. PICK e \in Nat, o \in Nat, at \in Nat : e = enqueuePos /\ o = Oldest /\ at = push[p].pos
  BY QueueTypes, SMTT(20)
<1>3. /\ enqueuePos' = e /\ Oldest' = o /\ Claims(p, at)
      /\ o <= at /\ at < e /\ Ready(at)'
  BY <1>2, PublishStep DEF QueueInv, ClaimInv, Claims
<1> DEFINE i == (at - o) + 1
<1>4. i \in 1 .. (e - o) /\ o + i - 1 = at /\ \A j \in 1 .. (e - o) : j # i => o + j - 1 # at
  BY <1>3, SMTT(20)
<1> HIDE DEF i
<1>5. Held(at) = [item |-> push[p].item, ready |-> FALSE]
  BY <1>1, <1>2, <1>3, Zenon DEF HeldInv
<1>6. Held(at)' = [item |-> push[p].item, ready |-> TRUE]
  <2>1. cells'[Cell(at)].item = push[p].item
    BY <1>2, PublishStep, Zenon
  <2>2. Held(at)' = [item |-> cells'[Cell(at)].item, ready |-> TRUE]
    BY <1>1, <1>3, Zenon DEF HeldInv
  <2> QED
    BY <2>1, <2>2
<1>7. ASSUME NEW pos \in Nat, o <= pos, pos < e, pos # at PROVE Held(pos)' = Held(pos)
  <2>1. CASE Ready(pos)
    <3>1. Ready(pos)' /\ cells'[Cell(pos)].item = cells[Cell(pos)].item
      BY <2>1, <1>2, <1>7, PublishStep
    <3>2. Held(pos) = [item |-> cells[Cell(pos)].item, ready |-> TRUE]
      BY <2>1, <1>1, <1>2, <1>7 DEF HeldInv
    <3>3. Held(pos)' = [item |-> cells'[Cell(pos)].item, ready |-> TRUE]
      BY <3>1, <1>1, <1>3, <1>7 DEF HeldInv
    <3> QED
      BY <3>1, <3>2, <3>3
  <2>2. CASE \E q \in Producers : Claims(q, pos)
    <3>1. PICK q \in Producers : Claims(q, pos)
      BY <2>2
    <3>2. q # p
      BY <3>1, <1>2, <1>7 DEF Claims
    <3>3. Claims(q, pos)' /\ push'[q].item = push[q].item
      BY <3>1, <3>2, PublishStep
    <3>4. Held(pos) = [item |-> push[q].item, ready |-> FALSE]
      BY <3>1, <1>1, <1>2, <1>7 DEF HeldInv
    <3>5. Held(pos)' = [item |-> push'[q].item, ready |-> FALSE]
      BY <3>3, <1>1, <1>3, <1>7 DEF HeldInv
    <3> QED
      BY <3>3, <3>4, <3>5
  <2> QED
    BY <1>2, <1>7, <2>1, <2>2 DEF QueueInv, LapInv
<1>8. /\ Contents \in Seq(Places) /\ Len(Contents) = e - o /\ DOMAIN Contents = 1 .. (e - o)
      /\ Contents' \in Seq(Places) /\ Len(Contents') = e - o
      /\ \A j \in 1 .. (e - o) : /\ Contents[j] = Held(o + j - 1)
                                 /\ Contents'[j] = Held(o + j - 1)'
                                 /\ o + j - 1 \in Nat /\ o <= o + j - 1 /\ o + j - 1 < e
  BY <1>1, <1>2, <1>3 DEF ContentsFacts
<1>9. Contents[i] = [item |-> push[p].item, ready |-> FALSE]
  BY <1>4, <1>5, <1>8, SMTT(20)
<1>10. Contents'[i] = [item |-> push[p].item, ready |-> TRUE]
  BY <1>4, <1>6, <1>8, Zenon
<1>11. \A j \in 1 .. (e - o) : j # i => Contents'[j] = Contents[j]
  BY <1>4, <1>7, <1>8
<1>12. Contents' = [Contents EXCEPT ![i].ready = TRUE]
  <2>1. Contents' = [Contents EXCEPT ![i] = [item |-> push[p].item, ready |-> TRUE]]
    BY <1>4, <1>8, <1>10, <1>11, SMTT(20)
  <2>2. [Contents[i] EXCEPT !.ready = TRUE] = [item |-> push[p].item, ready |-> TRUE]
    <3>1. \A b, c : Contents[i] = [item |-> push[p].item, ready |-> b] =>
            [Contents[i] EXCEPT !.ready = c] = [item |-> push[p].item, ready |-> c]
      BY SetReady
    <3> QED
      BY <3>1, <1>9, Zenon
  <2> QED
    BY <2>1, <2>2, Zenon
<1>13. UNCHANGED <<out, dropped>>
  BY PublishStep
<1>14. Fifo!Deliver(i)
  BY <1>9, <1>12, <1>13 DEF Fifo!Deliver
<1> QED
  BY <1>4, <1>8, <1>14, Zenon

(* Freeing the oldest cell is Take.                                         *)
LEMMA FreeTakes ==
  ASSUME QueueInv, QueueInv', PopFree
  PROVE  Fifo!Take
<1>1. ContentsFacts /\ ContentsFacts' /\ HeldInv /\ HeldInv'
  BY HeldFacts, ContentsAreFacts, FactsPrimed
<1>2. PICK e \in Nat, o \in Nat : e = enqueuePos /\ o = Oldest
  BY QueueTypes
<1>3. /\ enqueuePos' = e /\ Oldest' = o + 1 /\ o < e /\ Ready(o)
      /\ out' = cells[Cell(o)].item /\ push' = push /\ dropped' = dropped
  BY <1>2, FreeStep
<1>4. ASSUME NEW pos \in Nat, o < pos, pos < e PROVE Held(pos)' = Held(pos)
  <2>1. o <= pos /\ o + 1 <= pos /\ cells'[Cell(pos)] = cells[Cell(pos)]
    BY <1>2, <1>4, FreeStep
  <2>2. CASE Ready(pos)
    <3>1. Ready(pos)'
      BY <2>1, <2>2 DEF Ready, Sequence
    <3>2. Held(pos) = [item |-> cells[Cell(pos)].item, ready |-> TRUE]
      BY <2>1, <2>2, <1>1, <1>2, <1>4 DEF HeldInv
    <3>3. Held(pos)' = [item |-> cells'[Cell(pos)].item, ready |-> TRUE]
      BY <2>1, <3>1, <1>1, <1>3, <1>4 DEF HeldInv
    <3> QED
      BY <2>1, <3>2, <3>3
  <2>3. CASE \E q \in Producers : Claims(q, pos)
    <3>1. PICK q \in Producers : Claims(q, pos)
      BY <2>3
    <3>2. Claims(q, pos)'
      BY <3>1, <1>3 DEF Claims
    <3>3. Held(pos) = [item |-> push[q].item, ready |-> FALSE]
      BY <2>1, <3>1, <1>1, <1>2, <1>4 DEF HeldInv
    <3>4. Held(pos)' = [item |-> push'[q].item, ready |-> FALSE]
      BY <2>1, <3>2, <1>1, <1>3, <1>4 DEF HeldInv
    <3> QED
      BY <3>3, <3>4, <1>3
  <2> QED
    BY <1>2, <1>4, <2>1, <2>2, <2>3 DEF QueueInv, LapInv
<1>5. /\ Contents \in Seq(Places) /\ Len(Contents) = e - o
      /\ \A j \in 1 .. (e - o) : Contents[j] = Held(o + j - 1)
  BY <1>1, <1>2 DEF ContentsFacts
<1>6. /\ Contents' \in Seq(Places) /\ Len(Contents') = e - (o + 1)
      /\ \A j \in 1 .. (e - (o + 1)) : Contents'[j] = Held((o + 1) + j - 1)'
  BY <1>1, <1>3 DEF ContentsFacts
<1>7. Contents # << >>
  BY <1>3, <1>5
<1>8. Head(Contents) = [item |-> cells[Cell(o)].item, ready |-> TRUE]
  <2>1. Head(Contents) = Contents[1]
    BY <1>5, <1>7
  <2>2. 1 \in 1 .. (e - o) /\ o + 1 - 1 = o
    BY <1>3
  <2>3. Contents[1] = Held(o)
    BY <2>2, <1>5
  <2>4. Held(o) = [item |-> cells[Cell(o)].item, ready |-> TRUE]
    BY <1>1, <1>2, <1>3 DEF HeldInv
  <2> QED
    BY <2>1, <2>3, <2>4
<1>9. Contents' = Tail(Contents)
  <2>1. /\ Tail(Contents) \in Seq(Places) /\ Len(Tail(Contents)) = e - o - 1
        /\ \A j \in 1 .. (e - o - 1) : Tail(Contents)[j] = Contents[j + 1]
    BY <1>5, <1>7, HeadTailProperties
  <2>2. e - (o + 1) = e - o - 1
    OBVIOUS
  <2>3. \A j \in 1 .. (e - o - 1) : Contents'[j] = Tail(Contents)[j]
    <3> TAKE j \in 1 .. (e - o - 1)
    <3>1. /\ j + 1 \in 1 .. (e - o) /\ o + (j + 1) - 1 = o + j /\ (o + 1) + j - 1 = o + j
          /\ o + j \in Nat /\ o < o + j /\ o + j < e
      OBVIOUS
    <3>2. Contents'[j] = Held(o + j)'
      BY <3>1, <2>2, <1>6
    <3>3. Contents[j + 1] = Held(o + j)
      BY <3>1, <1>5
    <3> QED
      BY <3>1, <3>2, <3>3, <2>1, <1>4
  <2> QED
    BY <2>1, <2>2, <2>3, <1>6, SeqEqual
<1> QED
  BY <1>3, <1>7, <1>8, <1>9 DEF Fifo!Take

(* A look that finds its cell unfreed since the last lap is Refuse.         *)
LEMMA LookRefuses ==
  ASSUME NEW p \in Producers, QueueInv, QueueInv', PushLook(p), UNCHANGED Contents
  PROVE  Fifo!Refuse \/ UNCHANGED Fifo!vars
<1>1. CASE Sequence(push[p].pos) - push[p].pos < 0
  <2>1. push[p].pos \in Nat /\ push[p].pos <= enqueuePos /\ Sequence(push[p].pos) < push[p].pos
    BY <1>1, QueueTypes DEF PushLook, QueueInv, ClaimInv
  <2>2. ~(push[p].pos < Oldest)
    BY <2>1, QueueTypes DEF QueueInv, LapInv
  <2>3. ~(Oldest <= push[p].pos /\ push[p].pos < enqueuePos)
    <3> SUFFICES ASSUME Oldest <= push[p].pos, push[p].pos < enqueuePos PROVE FALSE
      OBVIOUS
    <3>1. Ready(push[p].pos) \/ \E q \in Producers : Claims(q, push[p].pos)
      BY <2>1 DEF QueueInv, LapInv
    <3>2. ~Ready(push[p].pos)
      BY <2>1, QueueTypes DEF Ready
    <3> QED
      BY <3>1, <3>2, <2>1, QueueTypes DEF QueueInv, ClaimInv, Claims
  <2>4. push[p].pos = enqueuePos
    BY <2>1, <2>2, <2>3, QueueTypes
  <2>5. enqueuePos - Oldest = Capacity
    BY <2>1, <2>4, QueueTypes, CapacityAssumption DEF QueueInv, LapInv
  <2>6. Len(Contents) = Capacity
    BY <2>5, ContentsAreFacts DEF ContentsFacts
  <2>7. dropped' = dropped + 1 /\ UNCHANGED out
    BY <1>1, <2>1, QueueTypes DEF PushLook
  <2> QED
    BY <2>6, <2>7 DEF Fifo!Refuse
<1>2. CASE ~(Sequence(push[p].pos) - push[p].pos < 0)
  BY <1>2 DEF PushLook, Fifo!vars
<1> QED
  BY <1>1, <1>2

(* Each step of the queue is a step of the FIFO or leaves it alone.         *)
LEMMA StepRefines ==
  QueueInv /\ QueueInv' /\ [QueueNext]_queueVars => [Fifo!Next]_(Fifo!vars)
<1> SUFFICES ASSUME QueueInv, QueueInv', [QueueNext]_queueVars
             PROVE  Fifo!Next \/ UNCHANGED Fifo!vars
  OBVIOUS
<1>1. ASSUME NEW p \in Producers,
             \/ \E x \in Items : PushBegin(p, x)
             \/ PushLook(p) \/ PushReload(p) \/ PushReturn(p)
             \/ PushClaim(p) /\ enqueuePos # push[p].pos
      PROVE  Fifo!Next \/ UNCHANGED Fifo!vars
  <2>1. /\ UNCHANGED <<enqueuePos, dequeuePos, cells, pop, out>>
        /\ \A q \in Producers : \A pos \in Nat : Claims(q, pos)' <=> Claims(q, pos)
        /\ \A q \in Producers : push[q].pc \in {"fill", "publish"} => push'[q] = push[q]
    BY <1>1, QuietPush DEF QueueInv
  <2>2. /\ UNCHANGED Oldest /\ \A pos \in Nat : Ready(pos)' <=> Ready(pos)
    BY <2>1, SMTT(20) DEF Oldest, Ready, Sequence
  <2>3. UNCHANGED Contents
    BY <2>1, <2>2, SameContents
  <2>4. CASE PushLook(p)
    BY <2>3, <2>4, LookRefuses DEF Fifo!Next
  <2>5. CASE ~PushLook(p)
    BY <1>1, <2>3, <2>5 DEF PushBegin, PushReload, PushReturn, PushClaim, Fifo!vars
  <2> QED
    BY <2>4, <2>5, SMTT(20)
<1>2. ASSUME NEW p \in Producers, PushClaim(p), enqueuePos = push[p].pos PROVE Fifo!Next
  BY <1>2, ClaimReserves, SMTT(20) DEF Fifo!Next
<1>3. ASSUME NEW p \in Producers, PushFill(p) PROVE UNCHANGED Fifo!vars
  <2>1. \A pos \in Nat : Ready(pos)' <=> Ready(pos)
    BY <1>3, FillStep DEF Ready
  <2>2. UNCHANGED Contents
    BY <1>3, <2>1, FillStep, SameContents
  <2> QED
    BY <1>3, <2>2, FillStep DEF Fifo!vars
<1>4. ASSUME NEW p \in Producers, PushPublish(p) PROVE Fifo!Next
  BY <1>4, PublishDelivers DEF Fifo!Next
<1>5. CASE PopFree
  BY <1>5, FreeTakes DEF Fifo!Next
<1>6. CASE PopLook \/ PopCopy \/ PopAdvance \/ PopReturn \/ UNCHANGED queueVars
  <2>1. UNCHANGED <<enqueuePos, Oldest, cells, push, dropped, out>>
    BY <1>6, QuietPop DEF queueVars, Oldest
  <2>2. UNCHANGED Contents
    BY <2>1, SameContents DEF Claims, Ready, Sequence
  <2> QED
    BY <2>1, <2>2 DEF Fifo!vars
<1> QED
  BY <1>1, <1>2, <1>3, <1>4, <1>5, <1>6 DEF QueueNext, PushStep, PopStep

(* thread::MpscQueue implements the bounded FIFO (IsFifo): whatever its     *)
(* callers do, for any capacity of two cells or more and any set of         *)
(* producers, items leave in the order their places were claimed, whole and *)
(* once each, and a push is refused only when the queue is full.            *)
THEOREM QueueImplementsFifo == QueueSpec => IsFifo
<1>1. QueueInit => Fifo!Init
  <2> SUFFICES ASSUME QueueInit PROVE Fifo!Init
    OBVIOUS
  <2>1. enqueuePos = 0 /\ Oldest = 0
    BY DEF QueueInit, Oldest
  <2>2. Contents \in Seq(Places) /\ Len(Contents) = 0
    <3>1. ContentsFacts
      BY QueueInitInv, ContentsAreFacts
    <3> QED
      BY <2>1, <3>1 DEF ContentsFacts
  <2>3. Contents = << >>
    BY <2>2, EmptySeq
  <2> QED
    BY <2>3 DEF QueueInit, Fifo!Init
<1> QED
  BY <1>1, QueueInitInv, QueueStepInv, StepRefines, PTL DEF QueueSpec, IsFifo, Fifo!Spec
============================================================================
