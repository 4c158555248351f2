-------------------------- MODULE SlotRouterProofs --------------------------
(***************************************************************************)
(* The grace epoch keeps its promise for any number of devices, sessions,  *)
(* mic senders and tables.  Holds is the heart of it: a thread that uses a *)
(* table uses the published one, or the one being replaced while republish *)
(* has yet to pass the thread's participant; when republish waits on that  *)
(* very participant, the epoch is still the one it saw.  Keeping it needs  *)
(* Parity (a bracket is open exactly while the epoch is odd), which in     *)
(* turn needs each participant to have one thread: Ranges, Apart and       *)
(* OneClient.  Books relates the tables alive to the ones published.       *)
(***************************************************************************)
EXTENDS SlotRouter, FiniteSetTheorems, NaturalsInduction, TLAPS

(* A thread in a bracket exists and has a participant.                      *)
Brackets ==
  \A t \in Threads : reader[t].pc # "out" => t \in running /\ Participant(t) \in Slots

(* Which participants the three kinds of thread are given.                  *)
Ranges ==
  /\ \A s \in Sessions : part[s] # -1 => part[s] >= DeviceCount /\ part[s] < FirstMic
  /\ \A m \in Mics : part[m] # -1 => part[m] >= FirstMic
  /\ \A m \in Mics : part[m] # -1 <=> <<"mic", m>> \in running

(* No participant is given twice.                                           *)
Apart ==
  /\ \A s \in Sessions : part[s] # -1 => part[s] < DeviceCount + Cardinality(Known)
  /\ \A s, r \in Sessions : part[s] # -1 /\ part[s] = part[r] => s = r
  /\ \A m, n \in Mics : part[m] # -1 /\ part[m] = part[n] => m = n

OneClient ==
  ~shared => \A s \in Sessions : \A i, j \in 1 .. MaxClients :
    <<"receive", s, i>> \in running /\ <<"receive", s, j>> \in running => i = j

Open(t) == reader[t].pc # "out"

Parity ==
  ~shared =>
    /\ \A t \in running : Participant(t) \in Slots => (Open(t) <=> epoch[Participant(t)] % 2 = 1)
    /\ \A p \in Slots : (\A t \in running : Participant(t) # p) => epoch[p] % 2 = 0
    /\ \A t \in Threads : reader[t].pc = "exiting" => reader[t].mark % 2 = 1

Books ==
  /\ alive = {table, gui.old} \ {0}
  /\ gui.old # 0 => gui.old # table
  /\ gui.pc = "idle" => gui.old = 0
  /\ micTable = IF gui.pc = "mics" THEN gui.old ELSE table
  /\ gui.pc # "look" /\ gui.pc # "wait" => gui.at = 0
  /\ gui.pc = "wait" => gui.at < LastSlot

(* Republish has yet to see thread t leave the bracket it is in.            *)
Ahead(t) ==
  /\ gui.pc # "idle" /\ gui.at <= Participant(t)
  /\ gui.pc = "wait" /\ gui.at = Participant(t) => epoch[gui.at] = gui.seen

Holds ==
  ~shared => \A t \in Threads :
    reader[t].pc = "using" => reader[t].held \in {0, table} \/ (reader[t].held = gui.old /\ Ahead(t))

IInv == TypeOK /\ Brackets /\ Ranges /\ Apart /\ OneClient /\ Parity /\ Books /\ Holds

(* What the names of threads tell apart.                                    *)
LEMMA Names ==
  /\ \A t \in Threads :
       \/ t[1] = "device" /\ t[2] \in 0 .. DeviceCount - 1 /\ t = <<"device", t[2]>>
       \/ t[1] = "receive" /\ t[2] \in Sessions /\ t[3] \in 1 .. MaxClients
          /\ t = <<"receive", t[2], t[3]>>
       \/ t[1] = "mic" /\ t[2] \in Mics /\ t = <<"mic", t[2]>>
  /\ \A m \in Mics : <<"mic", m>> \in Threads
  /\ \A s \in Sessions, n \in 1 .. MaxClients : <<"receive", s, n>> \in Threads
  BY DEF Threads, DeviceThreads, ReceiveThreads, MicThreads

(* Threads that share a participant are the same thread, as long as no two  *)
(* clients of a session overlap.                                            *)
Owned ==
  \A t, u \in running : Participant(t) \in Slots /\ Participant(t) = Participant(u) => t = u

LEMMA OneThread == TypeOK /\ Ranges /\ Apart /\ OneClient => shared \/ Owned
<1> SUFFICES ASSUME TypeOK, Ranges, Apart, OneClient, ~shared,
                    NEW t \in running, NEW u \in running,
                    Participant(t) \in Slots, Participant(t) = Participant(u)
             PROVE  t = u
  BY DEF Owned
<1> USE SlotRouterAssumption DEF SlotRouterAssumption
<1>1. ASSUME NEW x \in running
      PROVE  \/ x[1] = "device" /\ x = <<"device", x[2]>> /\ Participant(x) \in 0 .. DeviceCount - 1
             \/ x[1] = "receive" /\ x[2] \in Sessions /\ x[3] \in 1 .. MaxClients
                /\ x = <<"receive", x[2], x[3]>> /\ Participant(x) = part[x[2]]
             \/ x[1] = "mic" /\ x[2] \in Mics /\ x = <<"mic", x[2]>> /\ Participant(x) = part[x[2]]
  <2>1. x \in Threads
    BY DEF TypeOK
  <2>2. CASE x[1] = "device"
    BY <2>1, <2>2, Names DEF Participant
  <2>3. CASE x[1] # "device"
    BY <2>1, <2>3, Names DEF Participant
  <2>4. QED
    BY <2>2, <2>3
<1>2. -1 \notin Slots /\ FirstMic \in Nat
  BY DEF Slots, FirstMic
<1>3. \A s \in Sessions : part[s] \in Slots => part[s] >= DeviceCount /\ part[s] < FirstMic
  BY <1>2 DEF Ranges
<1>4. \A m \in Mics : part[m] \in Slots => part[m] >= FirstMic
  BY <1>2 DEF Ranges
<1>5. FirstMic >= DeviceCount /\ \A p \in Slots : p \in Nat
  BY DEF FirstMic, Slots
<1>6. t[1] = u[1]
  <2> DEFINE p == Participant(t)
  <2>1. \A x \in running : x[1] = "device" /\ Participant(x) = p => p < DeviceCount
    BY <1>1
  <2>2. \A x \in running : x[1] = "receive" /\ Participant(x) = p => p >= DeviceCount /\ p < FirstMic
    BY <1>1, <1>3
  <2>3. \A x \in running : x[1] = "mic" /\ Participant(x) = p => p >= FirstMic
    BY <1>1, <1>4
  <2>4. p \in Nat /\ Participant(u) = p
    BY <1>5
  <2>5. t[1] \in {"device", "receive", "mic"} /\ u[1] \in {"device", "receive", "mic"}
    BY <1>1
  <2> HIDE DEF p
  <2>6. QED
    BY <1>2, <1>5, <2>1, <2>2, <2>3, <2>4, <2>5 DEF p
<1>7. CASE t[1] = "device"
  BY <1>1, <1>6, <1>7, Zenon DEF Participant
<1>8. CASE t[1] = "receive"
  <2>1. t[2] \in Sessions /\ u[2] \in Sessions /\ part[t[2]] = part[u[2]] /\ part[t[2]] # -1
    BY <1>1, <1>2, <1>6, <1>8, Zenon
  <2>2. t[2] = u[2]
    BY <2>1 DEF Apart
  <2>3. /\ t[3] \in 1 .. MaxClients /\ <<"receive", t[2], t[3]>> \in running
        /\ u[3] \in 1 .. MaxClients /\ <<"receive", u[2], u[3]>> \in running
    BY <1>1, <1>6, <1>8, Zenon
  <2>4. t[3] = u[3]
    BY <2>1, <2>2, <2>3, Zenon DEF OneClient
  <2>5. QED
    BY <1>1, <1>6, <1>8, <2>2, <2>4, Zenon
<1>9. CASE t[1] = "mic"
  <2>1. t[2] \in Mics /\ u[2] \in Mics /\ part[t[2]] = part[u[2]] /\ part[t[2]] # -1
    BY <1>1, <1>2, <1>6, <1>9, Zenon
  <2>2. t[2] = u[2]
    BY <2>1 DEF Apart
  <2>3. QED
    BY <1>1, <1>6, <1>9, <2>2, Zenon
<1>10. QED
  BY <1>1, <1>7, <1>8, <1>9

(* The bound of session participants counts the known sessions.             *)
LEMMA KnownFinite == IsFiniteSet(Known) /\ Cardinality(Known) \in Nat
  BY SlotRouterAssumption, FS_Subset, FS_CardinalityType DEF SlotRouterAssumption, Known

(* Where the participants of sessions and of mic senders lie.              *)
LEMMA SlotRanges ==
  /\ \A c \in Nat : c < SessionParticipants => DeviceCount + c \in Slots
  /\ \A k \in 0 .. MicSenders - 1 : FirstMic + k \in Slots
  BY SlotRouterAssumption DEF SlotRouterAssumption, Slots, FirstMic

(* A number that is not odd is even.                                        *)
LEMMA NotOdd == ASSUME NEW n \in Nat, n % 2 # 1 PROVE n % 2 = 0
  OBVIOUS

(* A bump turns the parity and never meets the value republish waits on.    *)
LEMMA BumpFacts ==
  ASSUME TypeOK, NEW p, NEW e \in Nat
  PROVE  /\ Bump(p, e) \in Nat
         /\ Bump(p, e) % 2 = (e + 1) % 2
         /\ gui.pc = "wait" /\ gui.at = p => Bump(p, e) # gui.seen
<1>1. (e + 1) % 2 \in {0, 1}
  OBVIOUS
<1>2. QED
  BY <1>1 DEF Bump

(* The lowest member of a set of naturals is one of its members.            *)
LEMMA LowestIsMember ==
  ASSUME NEW K \in SUBSET Nat, K # {}
  PROVE LowestOf(K) \in K
<1>1. \E k \in K : \A j \in K : k <= j
  <2>1. PICK k \in K : \A j \in K : <<j, k>> \notin OpToRel(<, Nat)
    BY NatLessThanWellFounded, WFMin, Zenon
  <2>2. ASSUME NEW j \in K PROVE k <= j
    <3>1. ~(j < k)
      BY <2>1, Zenon DEF OpToRel
    <3>2. QED
      BY <3>1
  <2>3. QED
    BY <2>2
<1>2. QED
  BY <1>1, Zenon DEF LowestOf

(* Each step keeps the types.  Only Bump, the choice of a table and of a    *)
(* participant have anything to them.                                       *)
LEMMA StepType == ASSUME IInv, [Next]_vars PROVE TypeOK'
<1> USE SlotRouterAssumption DEF SlotRouterAssumption, IInv, TypeOK
<1>1. ASSUME NEW t \in Threads, Bracket(t) PROVE TypeOK'
  <2>1. reader[t].pc # "out" => Participant(t) \in Slots
    BY DEF Brackets
  <2>2. \A p \in Slots : Bump(p, epoch[p]) \in Nat /\ Bump(p, reader[t].mark) \in Nat
    BY BumpFacts
  <2>3. reader' \in [Threads -> [pc : {"out", "entered", "using", "exiting"},
                                 held : Tables \cup {0}, mark : Nat]]
    <3> DEFINE Readers == [pc : {"out", "entered", "using", "exiting"},
                           held : Tables \cup {0}, mark : Nat]
    <3> SUFFICES reader' \in [Threads -> Readers]
      OBVIOUS
    <3>1. ASSUME NEW r \in Readers, reader' = [reader EXCEPT ![t] = r]
          PROVE  reader' \in [Threads -> Readers]
      BY <3>1
    <3>2. /\ Idle \in Readers /\ [Idle EXCEPT !.pc = "entered"] \in Readers
          /\ \A k \in Tables \cup {0} : [Idle EXCEPT !.pc = "using", !.held = k] \in Readers
          /\ \A e \in Nat : [Idle EXCEPT !.pc = "exiting", !.mark = e] \in Readers
      BY Zenon DEF Idle
    <3>3. reader[t].pc = "using" => epoch[Participant(t)] \in Nat
      BY <2>1
    <3> HIDE DEF Readers
    <3>4. CASE Enter(t)
      BY <3>1, <3>2, <3>4, Zenon DEF Enter
    <3>5. CASE Load(t)
      BY <3>1, <3>2, <3>5, Zenon DEF Load
    <3>6. CASE ExitLoad(t)
      BY <3>1, <3>2, <3>3, <3>6, Zenon DEF ExitLoad
    <3>7. CASE ExitStore(t)
      BY <3>1, <3>2, <3>7, Zenon DEF ExitStore
    <3>8. QED
      BY <1>1, <3>4, <3>5, <3>6, <3>7 DEF Bracket
  <2>4. epoch' \in [Slots -> Nat]
    BY <1>1, <2>1, <2>2 DEF Bracket, Enter, Load, ExitLoad, ExitStore
  <2>5. UNCHANGED <<table, micTable, alive, running, part, clients, current, gui, shared>>
    BY <1>1 DEF Bracket, Enter, Load, ExitLoad, ExitStore
  <2>6. QED
    BY <2>3, <2>4, <2>5
<1>2. CASE StoreTable
  <2>1. Fresh # {} => LowestOf(Fresh) \in Tables
    <3>1. Fresh \subseteq Tables /\ Fresh \in SUBSET Nat
      BY DEF Fresh, Tables
    <3>2. QED
      BY <3>1, LowestIsMember, Zenon
  <2>2. table' \in Tables \cup {0} /\ alive' \subseteq Tables
    BY <1>2, <2>1 DEF StoreTable
  <2>3. gui' \in [pc : {"idle", "mics", "look", "wait"}, at : 0 .. FirstMic + MicSenders,
                  seen : Nat, old : Tables \cup {0}]
    <3>1. gui' = [pc |-> "mics", at |-> 0, seen |-> 0, old |-> table]
      BY <1>2, Zenon DEF StoreTable, AtRest
    <3>2. QED
      BY <3>1 DEF FirstMic
  <2>4. QED
    BY <1>2, <2>2, <2>3 DEF StoreTable
<1>3. CASE StoreMicTable \/ Look \/ Wait \/ Free
  <2>1. gui' \in [pc : {"idle", "mics", "look", "wait"}, at : 0 .. FirstMic + MicSenders,
                  seen : Nat, old : Tables \cup {0}]
    <3>1. gui.pc = "wait" => gui.at < LastSlot
      BY DEF Books
    <3>2. gui.at < LastSlot => epoch[gui.at] \in Nat
      BY DEF LastSlot, FirstMic, Slots
    <3>3. QED
      <4>1. CASE StoreMicTable
        BY <4>1 DEF StoreMicTable
      <4>2. CASE Look
        <5>1. gui.at + 1 \in 0 .. FirstMic + MicSenders /\ epoch[gui.at] \in Nat
          BY <3>2, <4>2 DEF Look, LastSlot, FirstMic
        <5>2. \/ gui' = [gui EXCEPT !.at = gui.at + 1]
              \/ gui' = [gui EXCEPT !.pc = "wait", !.seen = epoch[gui.at]]
          BY <4>2 DEF Look
        <5>3. QED
          BY <5>1, <5>2, Zenon
      <4>3. CASE Wait
        <5>1. gui.at + 1 \in 0 .. FirstMic + MicSenders
          BY <3>1, <4>3 DEF Wait, LastSlot, FirstMic
        <5>2. gui' = [gui EXCEPT !.pc = "look", !.at = gui.at + 1, !.seen = 0]
          BY <4>3 DEF Wait
        <5>3. QED
          BY <5>1, <5>2, Zenon
      <4>4. CASE Free
        BY <4>4 DEF Free, AtRest, FirstMic
      <4>5. QED
        BY <1>3, <4>1, <4>2, <4>3, <4>4
  <2>2. QED
    BY <1>3, <2>1 DEF StoreMicTable, Look, Wait, Free
<1>4. ASSUME NEW s \in Sessions, InstallFeedbackHandlers(s) PROVE TypeOK'
  <2>1. DeviceCount + Cardinality(Known) \in Slots
    <3>1. Cardinality(Known) \in Nat /\ Cardinality(Known) < SessionParticipants
      BY <1>4, KnownFinite DEF InstallFeedbackHandlers
    <3>2. QED
      BY ONLY <3>1, SlotRanges
  <2>2. part' \in [Sessions \cup Mics -> Slots \cup {-1}]
    BY <1>4, <2>1 DEF InstallFeedbackHandlers
  <2>3. QED
    BY <1>4, <2>2 DEF InstallFeedbackHandlers
<1>5. ASSUME NEW s \in Sessions, MarkConnected(s) PROVE TypeOK'
  <2>1. /\ clients' \in [Sessions -> 0 .. MaxClients] /\ current' \in [Sessions -> 0 .. MaxClients]
        /\ clients[s] + 1 \in 1 .. MaxClients
    BY <1>5 DEF MarkConnected
  <2>2. running' \subseteq Threads
    BY <1>5, <2>1, Names DEF MarkConnected
  <2>3. shared' \in BOOLEAN
    BY <1>5 DEF MarkConnected
  <2>4. QED
    BY <1>5, <2>1, <2>2, <2>3 DEF MarkConnected
<1>6. ASSUME NEW s \in Sessions, TeardownClient(s) PROVE TypeOK'
  BY <1>6 DEF TeardownClient
<1>7. ASSUME NEW t \in Threads, StopReceiveLoop(t) PROVE TypeOK'
  BY <1>7 DEF StopReceiveLoop
<1>8. ASSUME NEW m \in Mics, MicSenderForSlot(m) PROVE TypeOK'
  <2>1. LowestOf(FreeMics) \in 0 .. MicSenders - 1
    <3>1. FreeMics \subseteq 0 .. MicSenders - 1 /\ FreeMics \in SUBSET Nat
      BY DEF FreeMics
    <3>2. QED
      BY <1>8, <3>1, LowestIsMember, Zenon DEF MicSenderForSlot, TakesLowest
  <2>2. part' \in [Sessions \cup Mics -> Slots \cup {-1}]
    <3>1. FirstMic + LowestOf(FreeMics) \in Slots
      BY ONLY <2>1, SlotRanges
    <3>2. part' = [part EXCEPT ![m] = FirstMic + LowestOf(FreeMics)]
      BY <1>8 DEF MicSenderForSlot, TakesLowest
    <3>3. QED
      BY <3>1, <3>2
  <2>3. running' \subseteq Threads
    BY <1>8, Names DEF MicSenderForSlot
  <2>4. QED
    BY <1>8, <2>2, <2>3 DEF MicSenderForSlot
<1>9. ASSUME NEW m \in Mics, MicLeaseEnds(m) PROVE TypeOK'
  <2>1. part' \in [Sessions \cup Mics -> Slots \cup {-1}]
    BY <1>9 DEF MicLeaseEnds
  <2>2. QED
    BY <1>9, <2>1 DEF MicLeaseEnds
<1>10. CASE UNCHANGED vars
  BY <1>10 DEF vars
<1>11. QED
  BY <1>1, <1>2, <1>3, <1>4, <1>5, <1>6, <1>7, <1>8, <1>9, <1>10 DEF Next, Republish

(* Republish keeps track of the tables; nobody else touches them.           *)
LEMMA StepBooks == ASSUME IInv, [Next]_vars PROVE Books'
<1> USE SlotRouterAssumption DEF SlotRouterAssumption, IInv, TypeOK
<1>1. CASE StoreTable
  <2>1. Fresh # {} => LowestOf(Fresh) \in Nat \ {0} /\ LowestOf(Fresh) \notin alive
    <3>1. Fresh \in SUBSET Nat /\ \A k \in Fresh : k \in Nat \ {0} /\ k \notin alive
      BY DEF Fresh, Tables
    <3>2. QED
      BY <3>1, LowestIsMember, Zenon
  <2>2. alive = {table} \ {0} /\ micTable = table
    BY <1>1 DEF StoreTable, Books
  <2>3. gui' = [pc |-> "mics", at |-> 0, seen |-> 0, old |-> table] /\ micTable' = micTable
    BY <1>1, Zenon DEF StoreTable, AtRest
  <2>4. \/ table' = 0 /\ alive' = alive
        \/ Fresh # {} /\ table' = LowestOf(Fresh) /\ alive' = alive \cup {LowestOf(Fresh)}
    BY <1>1 DEF StoreTable
  <2>5. QED
    BY <2>1, <2>2, <2>3, <2>4, Zenon DEF Books
<1>2. CASE StoreMicTable
  BY <1>2 DEF StoreMicTable, Books
<1>3. CASE Look
  BY <1>3 DEF Look, Books
<1>4. CASE Wait
  BY <1>4 DEF Wait, Books
<1>5. CASE Free
  BY <1>5 DEF Free, AtRest, Books
<1>6. CASE UNCHANGED <<table, micTable, alive, gui>>
  BY <1>6 DEF Books
<1>7. QED
  BY <1>1, <1>2, <1>3, <1>4, <1>5, <1>6, Zenon
     DEF Next, Republish, Bracket, Enter, Load, ExitLoad, ExitStore, StopReceiveLoop,
         InstallFeedbackHandlers, MarkConnected, TeardownClient, MicSenderForSlot, MicLeaseEnds, vars

(* A thread's participant outlives its bracket.                             *)
LEMMA StepBrackets == ASSUME IInv, [Next]_vars PROVE Brackets'
<1> USE SlotRouterAssumption DEF SlotRouterAssumption, IInv, TypeOK
<1> SUFFICES ASSUME NEW t \in Threads, reader'[t].pc # "out"
             PROVE  t \in running' /\ Participant(t)' \in Slots
  BY DEF Brackets
<1>1. ASSUME NEW u \in Threads, Bracket(u) PROVE t \in running' /\ Participant(t)' \in Slots
  <2>1. UNCHANGED <<running, part>>
    BY <1>1 DEF Bracket, Enter, Load, ExitLoad, ExitStore
  <2>2. reader[t].pc = "out" => t \in running /\ Participant(t) \in Slots
    BY <1>1 DEF Bracket, Enter, Load, ExitLoad, ExitStore
  <2>3. QED
    BY <2>1, <2>2 DEF Brackets, Participant
<1>2. CASE UNCHANGED reader
  <2>1. t \in running /\ Participant(t) \in Slots
    BY <1>2 DEF Brackets
  <2>2. ASSUME NEW s \in Sessions, InstallFeedbackHandlers(s)
        PROVE  t \in running' /\ Participant(t)' \in Slots
    <3>1. t[1] # "device" => t[2] # s
      BY <2>1, <2>2 DEF InstallFeedbackHandlers, Participant, Slots, FirstMic
    <3>2. Participant(t)' = Participant(t)
      BY <2>2, <3>1 DEF InstallFeedbackHandlers, Participant
    <3>3. QED
      BY <2>1, <2>2, <3>2 DEF InstallFeedbackHandlers
  <2>3. ASSUME NEW m \in Mics, MicSenderForSlot(m) \/ MicLeaseEnds(m)
        PROVE  t \in running' /\ Participant(t)' \in Slots
    <3>1. t # <<"mic", m>>
      BY <1>2, <2>1, <2>3 DEF MicSenderForSlot, MicLeaseEnds
    <3>2. t[1] # "device" => t[2] # m
      BY <3>1, Names
    <3>3. Participant(t)' = Participant(t)
      <4>1. \A x \in Sessions \cup Mics : x # m => part'[x] = part[x]
        BY <2>3 DEF MicSenderForSlot, TakesLowest, MicLeaseEnds
      <4>2. t[1] # "device" => t[2] \in Sessions \cup Mics
        BY Names
      <4>3. QED
        BY <3>2, <4>1, <4>2 DEF Participant
    <3>4. QED
      BY <2>1, <2>3, <3>1, <3>3 DEF MicSenderForSlot, MicLeaseEnds
  <2>4. ASSUME NEW u \in Threads, StopReceiveLoop(u) PROVE t \in running' /\ Participant(t)' \in Slots
    BY <1>2, <2>1, <2>4 DEF StopReceiveLoop, Participant
  <2>5. ASSUME NEW s \in Sessions, MarkConnected(s) PROVE t \in running' /\ Participant(t)' \in Slots
    BY <2>1, <2>5 DEF MarkConnected, Participant
  <2>6. CASE UNCHANGED <<running, part>>
    BY <2>1, <2>6 DEF Participant
  <2>7. QED
    BY <2>2, <2>3, <2>4, <2>5, <2>6, <1>1
       DEF Next, Republish, StoreTable, StoreMicTable, Look, Wait, Free, TeardownClient, vars
<1>3. QED
  BY <1>1, <1>2, Zenon
     DEF Next, Republish, StoreTable, StoreMicTable, Look, Wait, Free, StopReceiveLoop,
         InstallFeedbackHandlers, MarkConnected, TeardownClient, MicSenderForSlot, MicLeaseEnds, vars

(* Participants are given out within their ranges, and never twice.         *)
LEMMA StepParticipants == ASSUME IInv, [Next]_vars PROVE Ranges' /\ Apart'
<1> USE SlotRouterAssumption DEF SlotRouterAssumption, IInv, TypeOK
<1>1. ASSUME NEW s \in Sessions, InstallFeedbackHandlers(s) PROVE Ranges' /\ Apart'
  <2> DEFINE n == Cardinality(Known)
  <2>1. n \in Nat /\ n < SessionParticipants /\ part[s] = -1
    BY <1>1, KnownFinite DEF InstallFeedbackHandlers
  <2>2. /\ part'[s] = DeviceCount + n
        /\ \A x \in Sessions \cup Mics : x # s => part'[x] = part[x]
    BY <1>1 DEF InstallFeedbackHandlers
  <2>3. \A m \in Mics : part'[m] = part[m]
    BY <2>2
  <2>4. running' = running
    BY <1>1 DEF InstallFeedbackHandlers
  <2>5. Cardinality(Known') = n + 1
    <3>1. Known' = Known \cup {s} /\ s \notin Known
      BY <2>1, <2>2 DEF Known
    <3>2. QED
      BY <3>1, KnownFinite, FS_AddElement, Zenon
  <2> HIDE DEF n
  <2>6. \A r \in Sessions : part[r] # -1 => part[r] < DeviceCount + n
    BY DEF Apart, n
  <2>7. \A r \in Sessions \cup Mics : part[r] \in Int
    BY DEF Slots, FirstMic
  <2>8. Ranges'
    BY <2>1, <2>2, <2>3, <2>4 DEF Ranges, FirstMic
  <2>9. \A r \in Sessions : part'[r] # -1 => part'[r] < DeviceCount + (n + 1)
    BY <2>1, <2>2, <2>6, <2>7
  <2>10. \A r, q \in Sessions : part'[r] # -1 /\ part'[r] = part'[q] => r = q
    <3>1. \A r \in Sessions : r # s => part'[r] # DeviceCount + n
      BY <2>1, <2>2, <2>6, <2>7
    <3>2. QED
      BY <2>2, <3>1 DEF Apart
  <2>11. \A m, k \in Mics : part'[m] # -1 /\ part'[m] = part'[k] => m = k
    BY <2>3 DEF Apart
  <2>12. QED
    BY <2>5, <2>8, <2>9, <2>10, <2>11 DEF Apart
<1>2. ASSUME NEW m \in Mics, MicSenderForSlot(m) \/ MicLeaseEnds(m) PROVE Ranges' /\ Apart'
  <2>1. \A x \in Sessions \cup Mics : x # m => part'[x] = part[x]
    BY <1>2 DEF MicSenderForSlot, TakesLowest, MicLeaseEnds
  <2>2. \A s \in Sessions : part'[s] = part[s]
    BY <2>1
  <2>3. Known' = Known
    BY <2>2 DEF Known
  <2>4. CASE MicSenderForSlot(m)
    <3>1. PICK k \in 0 .. MicSenders - 1 :
            part'[m] = FirstMic + k /\ \A n \in Mics : part[n] # FirstMic + k
      <4>1. FreeMics \in SUBSET Nat /\ FreeMics # {}
        BY <2>4 DEF FreeMics, MicSenderForSlot, TakesLowest
      <4>2. LowestOf(FreeMics) \in FreeMics
        BY <4>1, LowestIsMember
      <4>3. part'[m] = FirstMic + LowestOf(FreeMics)
        BY <2>4 DEF MicSenderForSlot, TakesLowest
      <4>4. QED
        BY <4>2, <4>3, Zenon DEF FreeMics
    <3>2. \A n \in Mics : <<"mic", n>> \in running' <=> <<"mic", n>> \in running \/ n = m
      BY <2>4 DEF MicSenderForSlot
    <3>3. Ranges'
      BY <2>1, <2>2, <3>1, <3>2 DEF Ranges, FirstMic
    <3>4. \A n, l \in Mics : part'[n] # -1 /\ part'[n] = part'[l] => n = l
      BY <2>1, <3>1 DEF Apart
    <3>5. QED
      BY <2>2, <2>3, <3>3, <3>4 DEF Apart
  <2>5. CASE MicLeaseEnds(m)
    <3>1. part'[m] = -1
      BY <2>5 DEF MicLeaseEnds
    <3>2. \A n \in Mics : <<"mic", n>> \in running' <=> <<"mic", n>> \in running /\ n # m
      BY <2>5 DEF MicLeaseEnds
    <3>3. Ranges'
      BY <2>1, <2>2, <3>1, <3>2 DEF Ranges
    <3>4. \A n, l \in Mics : part'[n] # -1 /\ part'[n] = part'[l] => n = l
      BY <2>1, <3>1 DEF Apart
    <3>5. QED
      BY <2>2, <2>3, <3>3, <3>4 DEF Apart
  <2>6. QED
    BY <1>2, <2>4, <2>5
<1>3. ASSUME UNCHANGED part, \A m \in Mics : <<"mic", m>> \in running' <=> <<"mic", m>> \in running
      PROVE  Ranges' /\ Apart'
  <2>1. Known' = Known
    BY <1>3 DEF Known
  <2>2. QED
    BY <1>3, <2>1 DEF Ranges, Apart
<1>4. ASSUME NEW t \in Threads, StopReceiveLoop(t) PROVE Ranges' /\ Apart'
  <2>1. \A m \in Mics : t # <<"mic", m>>
    BY <1>4 DEF StopReceiveLoop, ReceiveThreads
  <2>2. QED
    BY <1>3, <1>4, <2>1 DEF StopReceiveLoop
<1>5. ASSUME NEW s \in Sessions, MarkConnected(s) PROVE Ranges' /\ Apart'
  <2>1. \A m \in Mics : <<"receive", s, clients[s] + 1>> # <<"mic", m>>
    OBVIOUS
  <2>2. QED
    BY <1>3, <1>5, <2>1 DEF MarkConnected
<1>6. CASE UNCHANGED <<part, running>>
  BY <1>3, <1>6
<1>7. QED
  BY <1>1, <1>2, <1>4, <1>5, <1>6, Zenon
     DEF Next, Republish, StoreTable, StoreMicTable, Look, Wait, Free, Bracket, Enter, Load,
         ExitLoad, ExitStore, TeardownClient, vars

(* Until clients overlap, a session has one receive thread.                 *)
LEMMA StepOneClient == ASSUME IInv, [Next]_vars PROVE OneClient'
<1> USE SlotRouterAssumption DEF SlotRouterAssumption, IInv, TypeOK
<1>1. ASSUME NEW s \in Sessions, MarkConnected(s) PROVE OneClient'
  <2> SUFFICES ASSUME ~shared', NEW r \in Sessions, NEW i \in 1 .. MaxClients, NEW j \in 1 .. MaxClients,
                      <<"receive", r, i>> \in running', <<"receive", r, j>> \in running'
               PROVE  i = j
    BY DEF OneClient
  <2>1. ~shared /\ \A t \in running : ~(t[1] = "receive" /\ t[2] = s)
    BY <1>1, Zenon DEF MarkConnected, OtherClients
  <2>2. \A n \in 1 .. MaxClients : <<"receive", s, n>> \notin running
    BY <2>1
  <2>3. running' = running \cup {<<"receive", s, clients[s] + 1>>}
    BY <1>1 DEF MarkConnected
  <2>4. CASE r = s
    BY <2>2, <2>3, <2>4
  <2>5. CASE r # s
    BY <2>1, <2>3, <2>5 DEF OneClient
  <2>6. QED
    BY <2>4, <2>5
<1>2. ASSUME UNCHANGED shared,
             \A s \in Sessions, n \in 1 .. MaxClients :
               <<"receive", s, n>> \in running' => <<"receive", s, n>> \in running
      PROVE  OneClient'
  BY <1>2 DEF OneClient
<1>3. ASSUME NEW m \in Mics, MicSenderForSlot(m) PROVE OneClient'
  <2>1. \A s \in Sessions, n \in 1 .. MaxClients : <<"receive", s, n>> # <<"mic", m>>
    OBVIOUS
  <2>2. QED
    BY <1>2, <1>3, <2>1 DEF MicSenderForSlot
<1>4. CASE UNCHANGED shared /\ running' \subseteq running
  BY <1>2, <1>4, Zenon
<1>5. QED
  BY <1>1, <1>3, <1>4, Zenon
     DEF Next, Republish, StoreTable, StoreMicTable, Look, Wait, Free, Bracket, Enter, Load,
         ExitLoad, ExitStore, StopReceiveLoop, InstallFeedbackHandlers, TeardownClient,
         MicLeaseEnds, vars

(* What a step of the threads' lives does to brackets: a thread in one      *)
(* keeps its participant, a thread that ends or moves is in none.           *)
Lives ==
  \/ \E t \in Threads : StopReceiveLoop(t)
  \/ \E s \in Sessions : InstallFeedbackHandlers(s) \/ MarkConnected(s) \/ TeardownClient(s)
  \/ \E m \in Mics : MicSenderForSlot(m) \/ MicLeaseEnds(m)

LEMMA LivesFacts ==
  ASSUME IInv, Lives
  PROVE  /\ UNCHANGED <<epoch, reader, table, micTable, alive, gui>> /\ (shared => shared')
         /\ \A t \in Threads : reader[t].pc # "out" => Participant(t)' = Participant(t)
         /\ \A t \in running : Participant(t) \in Slots =>
              \/ t \in running' /\ Participant(t)' = Participant(t)
              \/ t \notin running' /\ reader[t].pc = "out"
<1> USE SlotRouterAssumption DEF SlotRouterAssumption, IInv, TypeOK
<1> DEFINE Keeps(t) == Participant(t)' = Participant(t)
<1>1. UNCHANGED <<epoch, reader, table, micTable, alive, gui>> /\ (shared => shared')
  BY Zenon DEF Lives, StopReceiveLoop, InstallFeedbackHandlers, MarkConnected, TeardownClient,
         MicSenderForSlot, MicLeaseEnds
<1>2. \A t \in Threads : reader[t].pc # "out" => t \in running /\ Participant(t) \in Slots
  BY DEF Brackets
<1>3. CASE UNCHANGED part
  <2>1. \A t : Keeps(t)
    BY <1>3 DEF Participant
  <2>2. \A t \in running : t \in running' \/ reader[t].pc = "out"
    BY <1>3, Zenon DEF Lives, StopReceiveLoop, InstallFeedbackHandlers, MarkConnected, TeardownClient,
                MicSenderForSlot, MicLeaseEnds
  <2>3. QED
    BY <1>1, <2>1, <2>2
<1>4. ASSUME NEW s \in Sessions, InstallFeedbackHandlers(s)
      PROVE  running' = running /\ \A t \in running : Participant(t) \in Slots => Keeps(t)
  <2>1. \A x \in Sessions \cup Mics : x # s => part'[x] = part[x]
    BY <1>4 DEF InstallFeedbackHandlers
  <2>2. running' = running /\ part[s] \notin Slots
    BY <1>4 DEF InstallFeedbackHandlers, Slots, FirstMic
  <2>3. ASSUME NEW t \in running, Participant(t) \in Slots PROVE Keeps(t)
    <3>1. t[1] # "device" => t[2] \in Sessions \cup Mics /\ t[2] # s
      BY <2>2, <2>3, Names DEF Participant
    <3>2. QED
      BY <2>1, <3>1 DEF Participant
  <2>4. QED
    BY <2>2, <2>3
<1>5. ASSUME NEW m \in Mics, MicSenderForSlot(m) \/ MicLeaseEnds(m)
      PROVE  \A t \in running : \/ t \in running' /\ Keeps(t)
                                \/ t \notin running' /\ reader[t].pc = "out"
  <2>1. \A x \in Sessions \cup Mics : x # m => part'[x] = part[x]
    BY <1>5 DEF MicSenderForSlot, TakesLowest, MicLeaseEnds
  <2>2. ASSUME NEW t \in running, t # <<"mic", m>> PROVE t \in running' /\ Keeps(t)
    <3>1. t[1] # "device" => t[2] \in Sessions \cup Mics /\ t[2] # m
      BY <2>2, Names
    <3>2. Keeps(t)
      BY <2>1, <3>1 DEF Participant
    <3>3. QED
      BY <1>5, <2>2, <3>2 DEF MicSenderForSlot, MicLeaseEnds
  <2>3. <<"mic", m>> \in running => <<"mic", m>> \notin running' /\ reader[<<"mic", m>>].pc = "out"
    BY <1>5 DEF MicSenderForSlot, MicLeaseEnds
  <2>4. QED
    BY <2>2, <2>3
<1>6. CASE \E s \in Sessions : InstallFeedbackHandlers(s)
  BY <1>1, <1>2, <1>4, <1>6
<1>7. CASE \E m \in Mics : MicSenderForSlot(m)
  <2>1. \A t \in running : t \in running'
    BY <1>7 DEF MicSenderForSlot
  <2>2. QED
    BY <1>1, <1>2, <1>5, <1>7, <2>1
<1>8. CASE \E m \in Mics : MicLeaseEnds(m)
  <2>1. PICK m \in Mics : MicLeaseEnds(m)
    BY <1>8
  <2>2. \A t \in running : reader[t].pc # "out" => Keeps(t)
    BY <1>5, <2>1
  <2>3. QED
    BY <1>1, <1>2, <1>5, <2>1, <2>2
<1>9. QED
  BY <1>3, <1>6, <1>7, <1>8 DEF Lives, StopReceiveLoop, MarkConnected, TeardownClient

(* Entering and leaving turn the parity of a participant nobody else has.   *)
LEMMA StepParity == ASSUME IInv, [Next]_vars PROVE Parity'
<1> USE SlotRouterAssumption DEF SlotRouterAssumption, IInv, TypeOK
<1>1. ASSUME NEW t \in Threads, Bracket(t), ~shared PROVE Parity'
  <2> DEFINE p == Participant(t)
  <2>1. t \in running /\ p \in Slots
    BY <1>1 DEF Bracket, Enter, Load, ExitLoad, ExitStore, Brackets
  <2>2. \A u \in running : u # t /\ Participant(u) \in Slots => Participant(u) # p
    BY <1>1, <2>1, OneThread DEF Owned
  <2>3. /\ \A u \in Threads : u # t => reader'[u] = reader[u]
        /\ running' = running /\ \A u \in Threads : Participant(u)' = Participant(u)
    BY <1>1 DEF Bracket, Enter, Load, ExitLoad, ExitStore, Participant
  <2>4. \A q \in Slots : q # p => epoch'[q] = epoch[q]
    BY <1>1 DEF Bracket, Enter, Load, ExitLoad, ExitStore
  <2>5. epoch[p] \in Nat /\ reader[t].mark \in Nat
    BY <2>1
  <2>6. Open(t) <=> epoch[p] % 2 = 1
    BY <1>1, <2>1, Zenon DEF Parity
  <2>7. (Open(t)' <=> epoch'[p] % 2 = 1) /\ (reader'[t].pc = "exiting" => reader'[t].mark % 2 = 1)
    <3>1. CASE Enter(t)
      <4>1. epoch'[p] = Bump(p, epoch[p]) /\ reader'[t].pc = "entered"
        BY <2>1, <3>1 DEF Enter, Idle
      <4>2. epoch[p] % 2 # 1
        BY <2>6, <3>1 DEF Enter, Open
      <4>3. Bump(p, epoch[p]) % 2 = 1
        BY <2>5, <4>2, BumpFacts
      <4>4. QED
        BY <4>1, <4>3 DEF Open
    <3>2. CASE Load(t)
      BY <2>6, <3>2 DEF Load, Idle, Open
    <3>3. CASE ExitLoad(t)
      <4>1. reader'[t].pc = "exiting" /\ reader'[t].mark = epoch[p] /\ epoch' = epoch
        BY <3>3 DEF ExitLoad, Idle
      <4>2. epoch[p] % 2 = 1
        BY <2>6, <3>3 DEF ExitLoad, Open
      <4>3. QED
        BY <4>1, <4>2 DEF Open
    <3>4. CASE ExitStore(t)
      <4>1. epoch'[p] = Bump(p, reader[t].mark) /\ reader'[t].pc = "out"
        BY <2>1, <3>4 DEF ExitStore, Idle
      <4>2. reader[t].mark % 2 = 1
        BY <1>1, <3>4 DEF ExitStore, Parity
      <4>3. Bump(p, reader[t].mark) % 2 # 1
        BY <2>5, <4>2, BumpFacts
      <4>4. QED
        BY <4>1, <4>3 DEF Open
    <3>5. QED
      BY <1>1, <3>1, <3>2, <3>3, <3>4 DEF Bracket
  <2> HIDE DEF p
  <2>8. ASSUME NEW u \in running', Participant(u)' \in Slots
        PROVE  Open(u)' <=> epoch'[Participant(u)'] % 2 = 1
    <3>1. CASE u = t
      BY <2>3, <2>7, <3>1, Zenon DEF p
    <3>2. CASE u # t
      <4>1. u \in running /\ u \in Threads /\ Participant(u)' = Participant(u)
        BY <2>3
      <4>2. epoch'[Participant(u)] = epoch[Participant(u)] /\ reader'[u] = reader[u]
        BY <2>2, <2>3, <2>4, <2>8, <3>2, <4>1
      <4>3. QED
        BY <1>1, <2>8, <4>1, <4>2 DEF Parity, Open
    <3>3. QED
      BY <3>1, <3>2, Zenon
  <2>9. ASSUME NEW q \in Slots, \A u \in running' : Participant(u)' # q PROVE epoch'[q] % 2 = 0
    <3>1. q # p /\ \A u \in running : Participant(u) # q
      BY <2>1, <2>3, <2>9, Zenon DEF p
    <3>2. QED
      BY <1>1, <2>4, <3>1 DEF Parity
  <2>10. \A u \in Threads : reader'[u].pc = "exiting" => reader'[u].mark % 2 = 1
    BY <1>1, <2>3, <2>7 DEF Parity
  <2>11. QED
    BY <2>8, <2>9, <2>10 DEF Parity
<1>2. ASSUME Lives, ~shared' PROVE Parity'
  <2>1. Owned'
    <3>1. TypeOK' /\ Ranges' /\ Apart' /\ OneClient'
      BY StepType, StepParticipants, StepOneClient
    <3>2. (TypeOK /\ Ranges /\ Apart /\ OneClient => shared \/ Owned)'
      BY OneThread, PTL
    <3>3. QED
      BY <1>2, <3>1, <3>2, Zenon
  <2>2. ~shared /\ epoch' = epoch /\ reader' = reader
    BY <1>2, LivesFacts
  <2>3. \A u \in running : Participant(u) \in Slots =>
          \/ u \in running' /\ Participant(u)' = Participant(u)
          \/ u \notin running' /\ reader[u].pc = "out"
    BY <1>2, LivesFacts
  <2>4. \A u \in running : Participant(u) \in Slots => (Open(u) <=> epoch[Participant(u)] % 2 = 1)
    BY <2>2 DEF Parity
  <2>5. \A q \in Slots : epoch[q] \in Nat
    OBVIOUS
  <2>6. ASSUME NEW t \in running', Participant(t)' \in Slots
        PROVE  Open(t)' <=> epoch'[Participant(t)'] % 2 = 1
    <3>1. CASE t \in running /\ Participant(t)' = Participant(t)
      BY <2>2, <2>4, <2>6, <3>1 DEF Open
    <3>2. CASE ~(t \in running /\ Participant(t)' = Participant(t))
      <4>1. t \in Threads
        BY StepType
      <4>2. reader[t].pc = "out"
        BY <1>2, <3>2, <4>1, LivesFacts DEF Brackets
      <4>3. ASSUME NEW u \in running, Participant(u) = Participant(t)' PROVE reader[u].pc = "out"
        BY <2>1, <2>3, <2>6, <3>2, <4>3 DEF Owned
      <4>4. epoch[Participant(t)'] % 2 # 1
        <5>1. CASE \E u \in running : Participant(u) = Participant(t)'
          BY <2>4, <2>6, <4>3, <5>1 DEF Open
        <5>2. CASE \A u \in running : Participant(u) # Participant(t)'
          BY <2>2, <2>6, <5>2 DEF Parity
        <5>3. QED
          BY <5>1, <5>2
      <4>5. QED
        BY <2>2, <4>2, <4>4 DEF Open
    <3>3. QED
      BY <3>1, <3>2
  <2>7. ASSUME NEW q \in Slots, \A u \in running' : Participant(u)' # q PROVE epoch'[q] % 2 = 0
    <3>1. CASE \E u \in running : Participant(u) = q
      <4>1. PICK u \in running : Participant(u) = q
        BY <3>1
      <4>2. reader[u].pc = "out"
        BY <2>3, <2>7, <4>1
      <4>3. epoch[q] % 2 # 1
        BY <2>4, <4>1, <4>2 DEF Open
      <4>4. epoch[q] % 2 = 0
        BY <2>5, <4>3, NotOdd
      <4>5. QED
        BY <2>2, <4>4
    <3>2. CASE \A u \in running : Participant(u) # q
      BY <2>2, <3>2, Zenon DEF Parity
    <3>3. QED
      BY <3>1, <3>2
  <2>8. QED
    BY <2>2, <2>6, <2>7 DEF Parity
<1>3. CASE UNCHANGED <<epoch, reader, running, part, shared>>
  BY <1>3 DEF Parity, Open, Participant
<1>4. CASE shared'
  BY <1>4, Zenon DEF Parity
<1>5. QED
  <2>1. ASSUME NEW t \in Threads, Bracket(t) PROVE Parity'
    BY <1>1, <1>4, <2>1, Zenon DEF Bracket, Enter, Load, ExitLoad, ExitStore
  <2>2. QED
    BY <1>2, <1>3, <1>4, <2>1
       DEF Next, Lives, Republish, StoreTable, StoreMicTable, Look, Wait, Free, vars

(* Republish passes a participant only when its thread cannot hold the      *)
(* table being replaced.                                                    *)
LEMMA StepHolds == ASSUME IInv, [Next]_vars PROVE Holds'
<1> USE SlotRouterAssumption DEF SlotRouterAssumption, IInv, TypeOK
<1> SUFFICES ASSUME ~shared', NEW t \in Threads, reader'[t].pc = "using"
             PROVE  reader'[t].held \in {0, table'} \/ (reader'[t].held = gui'.old /\ Ahead(t)')
  BY Zenon DEF Holds
<1> DEFINE Goal == reader'[t].held \in {0, table'} \/ (reader'[t].held = gui'.old /\ Ahead(t)')
<1>1. ASSUME NEW u \in Threads, Bracket(u) PROVE Goal
  <2>1. UNCHANGED <<table, gui, part, running, shared>>
    BY <1>1 DEF Bracket, Enter, Load, ExitLoad, ExitStore
  <2>2. CASE u # t
    <3>1. reader'[t] = reader[t]
      BY <1>1, <2>2 DEF Bracket, Enter, Load, ExitLoad, ExitStore
    <3>2. t \in running /\ u \in running /\ Participant(t) \in Slots /\ Participant(u) \in Slots
      BY <1>1, <3>1, Zenon DEF Bracket, Enter, Load, ExitLoad, ExitStore, Brackets
    <3>3. Participant(t) # Participant(u)
      BY <2>1, <2>2, <3>2, OneThread DEF Owned
    <3>4. epoch'[Participant(t)] = epoch[Participant(t)]
      BY <1>1, <3>2, <3>3, Zenon DEF Bracket, Enter, Load, ExitLoad, ExitStore
    <3>5. Ahead(t) => Ahead(t)'
      BY <2>1, <3>4 DEF Ahead, Participant
    <3>6. QED
      BY <2>1, <3>1, <3>5 DEF Holds
  <2>3. CASE u = t
    <3>1. Load(t)
      <4>1. ~Enter(t)
        BY DEF Enter, Idle
      <4>2. ~ExitLoad(t)
        <5>1. ExitLoad(t) => reader'[t] = [Idle EXCEPT !.pc = "exiting", !.mark = epoch[Participant(t)]]
          BY DEF ExitLoad
        <5>2. QED
          BY <5>1, Zenon DEF Idle
      <4>3. ~ExitStore(t)
        BY DEF ExitStore, Idle
      <4>4. QED
        BY <1>1, <2>3, <4>1, <4>2, <4>3 DEF Bracket
    <3>2. reader'[t].held \in {table, micTable} /\ epoch' = epoch
      BY <3>1 DEF Load, Idle
    <3>3. Participant(t) \in Slots
      BY <3>1 DEF Load, Brackets
    <3>4. gui.pc = "mics" => Ahead(t)'
      <4>1. Participant(t)' = Participant(t)
        BY <2>1, Zenon DEF Participant
      <4>2. gui.pc = "mics" => gui.at = 0
        BY DEF Books
      <4>3. 0 <= Participant(t)
        BY <3>3 DEF Slots
      <4>. QED
        BY <2>1, <4>1, <4>2, <4>3 DEF Ahead
    <3>5. QED
      BY <2>1, <3>2, <3>4, Zenon DEF Books
  <2>4. QED
    BY <2>2, <2>3
<1>2. CASE Republish
  <2>1. UNCHANGED <<reader, epoch, part, running, shared>>
    BY <1>2, Zenon DEF Republish, StoreTable, StoreMicTable, Look, Wait, Free
  <2>2. Participant(t)' = Participant(t) /\ Participant(t) \in Slots /\ t \in running
    BY <2>1 DEF Brackets, Participant
  <2>3. Participant(t) \in 0 .. LastSlot - 1
    BY <2>2 DEF Slots, LastSlot, FirstMic
  <2>4. reader[t].held \in {0, table} \/ (reader[t].held = gui.old /\ Ahead(t))
    BY <2>1 DEF Holds
  <2>5. epoch[Participant(t)] % 2 = 1
    BY <2>1, <2>2, Zenon DEF Parity, Open
  <2>6. LastSlot \in Nat
    BY DEF LastSlot, FirstMic
  <2>7. CASE StoreTable
    <3>1. gui' = [pc |-> "mics", at |-> 0, seen |-> 0, old |-> table] /\ gui.pc = "idle"
      BY <2>7, Zenon DEF StoreTable, AtRest
    <3>2. reader[t].held \in {0, table}
      BY <2>4, <3>1, Zenon DEF Ahead
    <3>3. Ahead(t)'
      BY <2>2, <2>3, <3>1 DEF Ahead
    <3>4. QED
      BY <2>1, <3>1, <3>2, <3>3
  <2>8. CASE StoreMicTable
    BY <2>1, <2>2, <2>4, <2>8 DEF StoreMicTable, Ahead
  <2>9. CASE Look
    <3>1. gui.at = Participant(t) => epoch[gui.at] % 2 # 0
      BY <2>5
    <3>2. \/ epoch[gui.at] % 2 = 0 /\ gui' = [gui EXCEPT !.at = gui.at + 1]
          \/ gui' = [gui EXCEPT !.pc = "wait", !.seen = epoch[gui.at]]
      BY <2>9 DEF Look
    <3>3. gui.pc = "look" /\ table' = table
      BY <2>9 DEF Look
    <3>4. Ahead(t) => Ahead(t)'
      <4>1. CASE epoch[gui.at] % 2 = 0 /\ gui' = [gui EXCEPT !.at = gui.at + 1]
        <5>1. gui'.pc = "look" /\ gui'.at = gui.at + 1
          BY <3>3, <4>1
        <5>2. QED
          BY <2>2, <2>3, <2>6, <3>1, <4>1, <5>1 DEF Ahead
      <4>2. CASE gui' = [gui EXCEPT !.pc = "wait", !.seen = epoch[gui.at]]
        <5>1. gui'.pc = "wait" /\ gui'.at = gui.at /\ gui'.seen = epoch[gui.at]
          BY <4>2
        <5>2. QED
          BY <2>1, <2>2, <5>1 DEF Ahead
      <4>3. QED
        BY <3>2, <4>1, <4>2
    <3>5. QED
      BY <2>1, <2>4, <3>2, <3>3, <3>4, Zenon
  <2>10. CASE Wait
    <3>1. gui' = [gui EXCEPT !.pc = "look", !.at = gui.at + 1, !.seen = 0] /\ table' = table
      BY <2>10 DEF Wait
    <3>2. gui.pc = "wait" /\ epoch[gui.at] # gui.seen
      BY <2>10 DEF Wait, Moved
    <3>3. Ahead(t) => Ahead(t)'
      BY <2>2, <2>3, <2>6, <3>1, <3>2 DEF Ahead
    <3>4. QED
      BY <2>1, <2>4, <3>1, <3>3
  <2>11. CASE Free
    <3>1. ~Ahead(t) /\ table' = table
      BY <2>3, <2>6, <2>11 DEF Free, Ahead
    <3>2. QED
      BY <2>1, <2>4, <3>1
  <2>12. QED
    BY <1>2, <2>7, <2>8, <2>9, <2>10, <2>11 DEF Republish
<1>3. CASE Lives
  <2>1. UNCHANGED <<epoch, reader, table, gui>> /\ ~shared
    BY <1>3, LivesFacts
  <2>2. Participant(t)' = Participant(t)
    BY <1>3, <2>1, LivesFacts, Zenon
  <2>3. QED
    BY <2>1, <2>2 DEF Holds, Ahead
<1>4. CASE UNCHANGED vars
  BY <1>4 DEF vars, Holds, Ahead, Participant
<1>5. QED
  BY <1>1, <1>2, <1>3, <1>4, Zenon DEF Next, Lives

(* At the start nothing is published, no bracket is open and only the       *)
(* device threads have participants.                                        *)
LEMMA InitInv == Init => IInv
<1> SUFFICES ASSUME Init PROVE IInv
  OBVIOUS
<1> USE SlotRouterAssumption DEF SlotRouterAssumption, Init
<1>1. TypeOK
  <2>1. shared \in BOOLEAN
    BY Zenon
  <2>2. part \in [Sessions \cup Mics -> Slots \cup {-1}] /\ epoch \in [Slots -> Nat]
    OBVIOUS
  <2>3. reader \in [Threads -> [pc : {"out", "entered", "using", "exiting"},
                                held : Tables \cup {0}, mark : Nat]]
    BY DEF Idle
  <2>4. gui \in [pc : {"idle", "mics", "look", "wait"}, at : 0 .. FirstMic + MicSenders,
                 seen : Nat, old : Tables \cup {0}]
    BY DEF AtRest, FirstMic
  <2>5. QED
    BY <2>1, <2>2, <2>3, <2>4 DEF TypeOK, Threads
<1>2. Brackets /\ Holds
  BY Zenon DEF Brackets, Holds, Idle
<1>3. Ranges
  BY DEF Ranges, DeviceThreads
<1>4. Apart
  BY DEF Apart
<1>5. OneClient
  BY DEF OneClient, DeviceThreads
<1>6. Parity
  <2>1. \A p \in Slots : epoch[p] % 2 = 0 /\ epoch[p] % 2 # 1
    OBVIOUS
  <2>2. \A t \in Threads : reader[t].pc = "out"
    BY DEF Idle
  <2>3. DeviceThreads \subseteq Threads
    BY DEF Threads
  <2>4. QED
    BY <2>1, <2>2, <2>3 DEF Parity, Open
<1>7. Books
  BY DEF Books, AtRest
<1>8. QED
  BY <1>1, <1>2, <1>3, <1>4, <1>5, <1>6, <1>7 DEF IInv

(* Every step of every thread keeps the invariant.                          *)
THEOREM Invariance == Spec => []IInv
<1>1. IInv /\ [Next]_vars => IInv'
  BY StepType, StepBooks, StepBrackets, StepParticipants, StepOneClient, StepParity, StepHolds DEF IInv
<1>2. QED
  BY <1>1, InitInv, PTL DEF Spec

(* Every variable keeps its type, for any number of devices, sessions, mic  *)
(* senders, clients and tables: no thread is given a participant past the   *)
(* last, and republish stops at it.                                         *)
THEOREM TypeCorrect == Spec => []TypeOK
  BY Invariance, PTL DEF IInv

(* GraceEpoch keeps its promise on its own condition, for any number of     *)
(* threads and tables: unless two receive threads of a session have         *)
(* overlapped, no thread uses a table that republish has freed.             *)
THEOREM GraceSafety == Spec => []KeptWhileUnshared
<1>1. IInv => KeptWhileUnshared
  <2> SUFFICES ASSUME IInv, ~shared, NEW t \in Threads, reader[t].pc = "using", reader[t].held # 0
               PROVE  reader[t].held \in alive
    BY DEF KeptWhileUnshared, TableInUseIsKept
  <2>1. reader[t].held \in {table, gui.old}
    BY DEF IInv, Holds
  <2>2. QED
    BY <2>1 DEF IInv, Books
<1>2. QED
  BY <1>1, Invariance, PTL

============================================================================
