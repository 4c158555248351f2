------------------------ MODULE ConnectionHubProofs ------------------------
(***************************************************************************)
(* The binding table and the connections' slots, for any finite set of     *)
(* pads and any set of satellites.  The invariant is the conjunction of    *)
(* the type invariant and the three safety properties, which is inductive. *)
(***************************************************************************)
EXTENDS ConnectionHub, FiniteSetTheorems, WellFoundedInduction, TLAPS

Conns == [slots : [SlotIds -> Indices \cup {-1}], bound : SlotIds \cup {None}]

(* What the invariant says of one connection.                              *)
Good(k) ==
  /\ k \in Conns
  /\ k.bound # None => k.slots[k.bound] # -1
  /\ \A s, t \in SlotIds : k.slots[s] # -1 /\ k.slots[s] = k.slots[t] => s = t

(* lowestFreeIndex's loop ends: of n + 1 indices, n slots leave one free,   *)
(* and it returns the lowest.                                               *)
LEMMA FreeIndex ==
  ASSUME NEW k \in Conns
  PROVE  /\ LowestFreeIndex(k) \in Indices
         /\ LowestFreeIndex(k) \notin Taken(k)
<1> DEFINE n == Cardinality(SlotIds)
<1> DEFINE Free == Indices \ Taken(k)
<1>1. IsFiniteSet(SlotIds) /\ n \in Nat
  BY SlotAssumption, FS_CardinalityType DEF SlotAssumption
<1>2. k.slots \in Surjection(SlotIds, Taken(k))
  BY DEF Surjection, Taken, Conns
<1>3. IsFiniteSet(Taken(k)) /\ Cardinality(Taken(k)) <= n
  BY <1>1, <1>2, FS_Surjection
<1>4. Cardinality(Indices) = n + 1
  BY <1>1, FS_Interval DEF Indices
<1>5. Free # {}
  <2>1. SUFFICES ASSUME Indices \subseteq Taken(k) PROVE FALSE
    OBVIOUS
  <2>2. Cardinality(Indices) <= Cardinality(Taken(k)) /\ Cardinality(Taken(k)) \in Nat
    BY <1>3, <2>1, FS_Subset, FS_CardinalityType
  <2>3. QED
    BY <1>1, <1>3, <1>4, <2>2
<1>6. Free \subseteq Nat
  BY <1>1 DEF Indices
<1>7. PICK i \in Free : \A j \in Free : ~ (<<j, i>> \in OpToRel(<, Nat))
  BY <1>5, <1>6, NatLessThanWellFounded, WFMin, Zenon
<1>8. \A j \in 0 .. (i - 1) : j \in Taken(k)
  <2>1. TAKE j \in 0 .. (i - 1)
  <2>2. j \in Nat /\ i \in Nat /\ j < i /\ j \in Indices
    BY <1>1, <1>6, <2>1 DEF Indices
  <2>3. <<j, i>> \in OpToRel(<, Nat)
    BY <2>2 DEF OpToRel
  <2>4. QED
    BY <1>7, <2>2, <2>3, Zenon
<1>9. QED
  BY <1>7, <1>8, Zenon DEF LowestFreeIndex

(* detachSlot keeps a connection good.                                      *)
LEMMA DetachGood ==
  ASSUME NEW k, Good(k)
  PROVE  Good(Detach(k))
  BY NoneAssumption, Zenon DEF Good, Detach, Conns, NoneAssumption

(* So does attachSlot, which gives a new slot an index of its own.          *)
LEMMA AttachGood ==
  ASSUME NEW k, Good(k), NEW s \in SlotIds
  PROVE  Good(Attach(k, s))
<1> DEFINE i == LowestFreeIndex(k)
<1>1. CASE k.slots[s] # -1
  BY <1>1 DEF Attach
<1>2. CASE k.slots[s] = -1
  <2>1. i \in Indices /\ i \notin Taken(k)
    BY FreeIndex DEF Good
  <2>2. i \in Nat
    BY <2>1, SlotAssumption, FS_CardinalityType DEF Indices, SlotAssumption
  <2>3. \A t \in SlotIds : k.slots[t] # i
    BY <2>1 DEF Taken
  <2>4. Attach(k, s) = [k EXCEPT !.slots[s] = i, !.bound = s]
    BY <1>2 DEF Attach
  <2> DEFINE m == [k EXCEPT !.slots[s] = i, !.bound = s]
  <2>5. m \in Conns /\ m.bound = s /\ m.slots = [k.slots EXCEPT ![s] = i]
    BY <2>1, Zenon DEF Good, Conns
  <2>6. \A t, u \in SlotIds : m.slots[t] # -1 /\ m.slots[t] = m.slots[u] => t = u
    <3>1. k.slots \in [SlotIds -> Indices \cup {-1}]
      BY DEF Good, Conns
    <3>2. QED
      BY <2>3, <2>5, <3>1 DEF Good
  <2>7. m.slots[s] # -1
    BY <2>2, <2>5 DEF Good, Conns
  <2>8. QED
    BY <2>4, <2>5, <2>6, <2>7 DEF Good
<1>3. QED
  BY <1>1, <1>2

(* A connection just made is good.                                          *)
LEMMA FreshGood == Good(Fresh)
  BY DEF Good, Fresh, Conns

IInv ==
  /\ bindings \in [SlotIds -> ConnIds \cup {None}]
  /\ pool \subseteq ConnIds
  /\ OnePadPerConnection
  /\ DOMAIN conns = ConnIds /\ conns = [c \in ConnIds |-> conns[c]]
  /\ \A c \in ConnIds : Good(conns[c])

(* bind's new table, from any table b with one pad per connection: the      *)
(* evicted slot was the only other one on c.                                *)
LEMMA BoundTable ==
  ASSUME NEW b \in [SlotIds -> ConnIds \cup {None}],
         \A s, t \in SlotIds : b[s] # None /\ b[s] = b[t] => s = t,
         NEW s \in SlotIds, NEW c \in ConnIds, NEW K, Bound(b, K, s, c)
  PROVE  bindings' \in [SlotIds -> ConnIds \cup {None}] /\ OnePadPerConnection'
<1> DEFINE p == PriorSlot(b, s, c)
<1>1. \A t \in SlotIds \ {s} : b[t] = c => t = p
  BY NoneAssumption DEF PriorSlot, NoneAssumption
<1>2. QED
  BY <1>1, NoneAssumption DEF Bound, OnePadPerConnection, NoneAssumption

(* bind's new connections, from any good ones K.                            *)
LEMMA BoundConns ==
  ASSUME NEW b, NEW K, DOMAIN K = ConnIds, K = [d \in ConnIds |-> K[d]],
         \A d \in ConnIds : Good(K[d]),
         NEW s \in SlotIds, NEW c \in ConnIds, Bound(b, K, s, c)
  PROVE  /\ DOMAIN conns' = ConnIds /\ conns' = [d \in ConnIds |-> conns'[d]]
         /\ \A d \in ConnIds : Good(conns'[d])
<1> DEFINE k == Attach(IF PriorSlot(b, s, c) = None THEN K[c] ELSE Detach(K[c]), s)
<1>1. Good(k)
  BY AttachGood, DetachGood
<1>2. conns' = IF c \notin pool THEN K ELSE [K EXCEPT ![c] = k]
  BY DEF Bound
<1>3. QED
  BY <1>1, <1>2

(* unbind's connections stay good.                                          *)
LEMMA UnboundConns ==
  ASSUME IInv, NEW s \in SlotIds
  PROVE  /\ DOMAIN Unbound(s) = ConnIds /\ Unbound(s) = [d \in ConnIds |-> Unbound(s)[d]]
         /\ \A d \in ConnIds : Good(Unbound(s)[d])
<1>1. CASE bindings[s] \in pool
  <2>1. Unbound(s) = [conns EXCEPT ![bindings[s]] = Detach(conns[bindings[s]])]
    BY <1>1 DEF Unbound
  <2>2. Good(Detach(conns[bindings[s]]))
    BY <1>1, DetachGood DEF IInv
  <2>3. QED
    BY <2>1, <2>2 DEF IInv
<1>2. CASE bindings[s] \notin pool
  BY <1>2 DEF IInv, Unbound
<1>3. QED
  BY <1>1, <1>2

(* The empty table satisfies the invariant.                                 *)
LEMMA InitInv == Init => IInv
  BY FreshGood DEF Init, IInv, OnePadPerConnection

(* Every operation on bindings and connections keeps it.                    *)
LEMMA StepInv == IInv /\ [Next]_vars => IInv'
<1> SUFFICES ASSUME IInv, [Next]_vars PROVE IInv'
  OBVIOUS
<1>1. ASSUME NEW s \in SlotIds, NEW c \in ConnIds, Bind(s, c) PROVE IInv'
  <2>1. Bound(bindings, conns, s, c) /\ pool' = pool
    BY <1>1 DEF Bind
  <2>2. bindings' \in [SlotIds -> ConnIds \cup {None}] /\ OnePadPerConnection'
    BY <2>1, BoundTable DEF IInv, OnePadPerConnection
  <2>3. /\ DOMAIN conns' = ConnIds /\ conns' = [d \in ConnIds |-> conns'[d]]
        /\ \A d \in ConnIds : Good(conns'[d])
    BY <2>1, BoundConns DEF IInv
  <2>4. QED
    BY <2>1, <2>2, <2>3 DEF IInv
<1>2. ASSUME NEW s \in SlotIds, Unbind(s) PROVE IInv'
  <2>1. /\ DOMAIN conns' = ConnIds /\ conns' = [d \in ConnIds |-> conns'[d]]
        /\ \A d \in ConnIds : Good(conns'[d])
    BY <1>2, UnboundConns DEF Unbind
  <2>2. QED
    BY <1>2, <2>1 DEF Unbind, IInv, OnePadPerConnection
<1>3. ASSUME NEW s \in SlotIds, NEW t \in SlotIds, Migrate(s, t) PROVE IInv'
  <2> DEFINE b == [bindings EXCEPT ![s] = None]
  <2>1. Bound(b, Unbound(s), t, bindings[s]) /\ pool' = pool /\ bindings[s] \in ConnIds
    BY <1>3 DEF Migrate, IInv
  <2>2. b \in [SlotIds -> ConnIds \cup {None}]
    BY DEF IInv
  <2>3. \A u, v \in SlotIds : b[u] # None /\ b[u] = b[v] => u = v
    BY DEF IInv, OnePadPerConnection
  <2>4. bindings' \in [SlotIds -> ConnIds \cup {None}] /\ OnePadPerConnection'
    BY <2>1, <2>2, <2>3, BoundTable, Zenon
  <2>5. /\ DOMAIN conns' = ConnIds /\ conns' = [d \in ConnIds |-> conns'[d]]
        /\ \A d \in ConnIds : Good(conns'[d])
    BY <2>1, UnboundConns, BoundConns
  <2>6. QED
    BY <2>1, <2>4, <2>5 DEF IInv
<1>4. ASSUME NEW c \in ConnIds, Create(c) PROVE IInv'
  BY <1>4, FreshGood DEF Create, IInv, OnePadPerConnection
<1>5. ASSUME NEW c \in ConnIds, ForgetConnection(c) PROVE IInv'
  BY <1>5, FreshGood DEF ForgetConnection, IInv, OnePadPerConnection
<1>6. CASE UNCHANGED vars
  BY <1>6 DEF vars, IInv, OnePadPerConnection
<1>7. QED
  BY <1>1, <1>2, <1>3, <1>4, <1>5, <1>6 DEF Next

(* The invariant holds throughout.                                          *)
THEOREM Invariance == Spec => []IInv
  BY InitInv, StepInv, PTL DEF Spec

(* Every variable keeps its type: lowestFreeIndex in particular never goes  *)
(* past the number of slots.                                                *)
THEOREM TypeCorrect == Spec => []TypeOK
<1>1. IInv => TypeOK
  BY DEF IInv, TypeOK, Good, Conns
<1>2. QED
  BY Invariance, <1>1, PTL

(* bind's eviction leaves no satellite with two pads in the table.          *)
THEOREM OnePad == Spec => []OnePadPerConnection
<1>1. IInv => OnePadPerConnection
  BY DEF IInv
<1>2. QED
  BY Invariance, <1>1, PTL

(* sendTarget always finds the slot a connection is bound to.               *)
THEOREM BoundSafety == Spec => []BoundIsAttached
<1>1. IInv => BoundIsAttached
  BY DEF IInv, BoundIsAttached, Good
<1>2. QED
  BY Invariance, <1>1, PTL

(* No two slots of a connection share a controller index.                   *)
THEOREM IndexSafety == Spec => []IndicesDistinct
<1>1. IInv => IndicesDistinct
  BY DEF IInv, IndicesDistinct, Good
<1>2. QED
  BY Invariance, <1>1, PTL

============================================================================
