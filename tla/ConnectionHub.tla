--------------------------- MODULE ConnectionHub ---------------------------
(***************************************************************************)
(* Which pad drives which satellite: the binding table of                  *)
(* src/src/Network/ConnectionHub.cpp and the slots each WifiConnection     *)
(* holds (attachSlot, detachSlot, lowestFreeIndex in WifiConnection.cpp).  *)
(* The table and the connections are two records of one fact; this module  *)
(* is about their agreement.  All of it runs on the GUI thread.            *)
(***************************************************************************)
EXTENDS Integers, FiniteSets

CONSTANTS SlotIds, ConnIds, None

ASSUME NoneAssumption == None \notin SlotIds /\ None \notin ConnIds
ASSUME SlotAssumption == IsFiniteSet(SlotIds)

VARIABLES
  bindings,  \* bindings_: slot -> connection, or None
  pool,      \* the connections that exist
  conns      \* each connection's slots_ and boundSlotId_

vars == <<bindings, pool, conns>>

(* slots: slot -> controllerIndex, or -1.                                   *)
Indices == 0 .. Cardinality(SlotIds)
Fresh == [slots |-> [s \in SlotIds |-> -1], bound |-> None]

Init ==
  /\ bindings = [s \in SlotIds |-> None]
  /\ pool = {}
  /\ conns = [c \in ConnIds |-> Fresh]

----------------------------------------------------------------------------
Taken(k) == {k.slots[s] : s \in SlotIds}
AlwaysFirst(k) == 0     \* mutant: every slot is the connection's first
LowestFreeIndex(k) ==
  CHOOSE i \in Indices : i \notin Taken(k) /\ \A j \in 0 .. (i - 1) : j \in Taken(k)

(* detachSlot(): only the slot the connection is bound to.                  *)
Detach(k) ==
  IF k.bound = None THEN k ELSE [k EXCEPT !.slots[k.bound] = -1, !.bound = None]

(* attachSlot: a slot already there keeps its index, and boundSlotId_ stays *)
(* as it was.                                                               *)
Attach(k, s) ==
  IF k.slots[s] # -1 THEN k
  ELSE [k EXCEPT !.slots[s] = LowestFreeIndex(k), !.bound = s]

(* bind: the slot the table already gives c is evicted; nothing is done     *)
(* about a connection s was on before.                                      *)
KeepsPrior(b, s, c) == None     \* mutant: the connection's slot is not evicted
PriorSlot(b, s, c) ==
  IF \E t \in SlotIds \ {s} : b[t] = c THEN CHOOSE t \in SlotIds \ {s} : b[t] = c ELSE None

Bound(b, K, s, c) ==
  LET prior == PriorSlot(b, s, c) IN
  /\ bindings' = [t \in SlotIds |-> IF t = s THEN c ELSE IF t = prior THEN None ELSE b[t]]
  /\ conns' = IF c \notin pool THEN K
              ELSE [K EXCEPT ![c] = Attach(IF prior = None THEN @ ELSE Detach(@), s)]

Bind(s, c) == Bound(bindings, conns, s, c) /\ UNCHANGED pool

Unbound(s) ==
  IF bindings[s] \in pool THEN [conns EXCEPT ![bindings[s]] = Detach(@)] ELSE conns

Unbind(s) ==
  /\ bindings[s] # None
  /\ bindings' = [bindings EXCEPT ![s] = None]
  /\ conns' = Unbound(s)
  /\ UNCHANGED pool

(* The Migrate of AppModel's binding-presence sweep: the pad came back      *)
(* under another id.                                                        *)
Migrate(s, t) ==
  /\ bindings[s] # None /\ s # t
  /\ Bound([bindings EXCEPT ![s] = None], Unbound(s), t, bindings[s])
  /\ UNCHANGED pool

(* ensureConnection.                                                        *)
Create(c) ==
  /\ c \notin pool
  /\ pool' = pool \cup {c}
  /\ conns' = [conns EXCEPT ![c] = Fresh]
  /\ UNCHANGED bindings

(* ConnectionCoordinator::forgetConnection: unbind, then forget, whether    *)
(* there is a connection or only a remembered row.                          *)
ForgetConnection(c) ==
  /\ bindings' = [s \in SlotIds |-> IF bindings[s] = c THEN None ELSE bindings[s]]
  /\ pool' = pool \ {c}
  /\ conns' = [conns EXCEPT ![c] = Fresh]

Next ==
  \/ \E s \in SlotIds : Unbind(s) \/ (\E c \in ConnIds : Bind(s, c))
                                  \/ (\E t \in SlotIds : Migrate(s, t))
  \/ \E c \in ConnIds : Create(c) \/ ForgetConnection(c)

Spec == Init /\ [][Next]_vars

----------------------------------------------------------------------------
(* Every variable keeps its type.                                           *)
TypeOK ==
  /\ bindings \in [SlotIds -> ConnIds \cup {None}]
  /\ pool \subseteq ConnIds
  /\ conns \in [ConnIds -> [slots : [SlotIds -> Indices \cup {-1}],
                            bound : SlotIds \cup {None}]]

(* bind evicts the slot a connection already had: no satellite is driven by *)
(* two pads of the table, whatever the order of binds and migrations.       *)
OnePadPerConnection ==
  \A s, t \in SlotIds : bindings[s] # None /\ bindings[s] = bindings[t] => s = t

(* sendTarget looks boundSlotId_ up in slots_: it always finds it, so the   *)
(* index it streams to is one attachSlot gave out.                          *)
BoundIsAttached ==
  \A c \in ConnIds : conns[c].bound # None => conns[c].slots[conns[c].bound] # -1

(* Two slots of one connection never share a controller index, in any order *)
(* of attaches and detaches: the satellite keeps one pad per index.         *)
IndicesDistinct ==
  \A c \in ConnIds, s, t \in SlotIds :
    conns[c].slots[s] # -1 /\ conns[c].slots[s] = conns[c].slots[t] => s = t

----------------------------------------------------------------------------
(* What comments of the code say that some behaviour contradicts.          *)

(* "a slot has one destination": a pad is attached to one connection.       *)
OneDestination ==
  \A s \in SlotIds, c, d \in ConnIds :
    conns[c].slots[s] # -1 /\ conns[d].slots[s] # -1 => c = d

(* "owns the slot to connection binding table": a pad the table binds to an *)
(* existing connection is the one that connection streams.                  *)
BoundSlotDrives ==
  \A s \in SlotIds : bindings[s] \in pool /\ conns[bindings[s]].slots[s] # -1 =>
    conns[bindings[s]].bound = s

============================================================================
