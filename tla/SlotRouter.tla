----------------------------- MODULE SlotRouter -----------------------------
(* SlotRouter (src/SlotRouter.cpp) over GraceEpoch (core/thread).  The GUI  *)
(* thread publishes an immutable route table; input, receive and capture    *)
(* threads read it without a lock, each inside a bracket on a participant;  *)
(* the GUI frees the table it replaced once every bracket that may hold it  *)
(* has closed.                                                              *)
(*                                                                          *)
(* Participants are numbered as in the code: one per device, then one per   *)
(* connection id in the order the ids are first seen, and, in an epoch of   *)
(* their own that is waited for last, one per mic sender alive.  A thread   *)
(* is the publisher of a device, the receive thread of a session's client,  *)
(* or the capture thread of a mic sender.  Accesses are sequentially        *)
(* consistent: the four of Dekker's pattern are seq_cst in the code, and    *)
(* exit's release store pairs with the acquire load that waits for it.      *)
(*                                                                          *)
(* A session that ends hands its client to the reaper, which stops the      *)
(* client's receive thread later (ClientReaper, closeSocket); the next      *)
(* client of the same connection may already run by then, with handlers on  *)
(* the same participant.  shared records that this happened.                *)
EXTENDS Integers, FiniteSets

CONSTANTS
  DeviceCount,           \* kDeviceParticipants
  SessionParticipants,   \* kSessionParticipants
  MicSenders,            \* kMicSenders
  Sessions,              \* connection ids
  MaxClients,            \* bound: clients of one connection id
  Mics,                  \* mic senders ever made
  TableCount             \* bound: route tables in use at a time

ASSUME SlotRouterAssumption ==
  /\ DeviceCount \in Nat /\ SessionParticipants \in Nat /\ MicSenders \in Nat
  /\ MaxClients \in Nat /\ TableCount \in Nat
  /\ IsFiniteSet(Sessions) /\ Sessions \cap Mics = {}

Tables == 1 .. TableCount       \* 0 is no table
FirstMic == DeviceCount + SessionParticipants
Slots == 0 .. FirstMic + MicSenders - 1
DeviceThreads == {<<"device", d>> : d \in 0 .. DeviceCount - 1}
ReceiveThreads == {<<"receive", s, n>> : s \in Sessions, n \in 1 .. MaxClients}
MicThreads == {<<"mic", m>> : m \in Mics}
Threads == DeviceThreads \cup ReceiveThreads \cup MicThreads

VARIABLES
  epoch,      \* per participant; see Bump
  table,      \* table_, what the device and receive threads load
  micTable,   \* mics_->table
  alive,      \* the tables not yet freed
  reader,     \* per thread: where in its bracket, the table it loaded
  running,    \* the threads that exist
  part,       \* per session and mic sender: its participant, or -1
  clients,    \* per session: clients made so far
  current,    \* per session: its client's number, 0 when it has none
  gui,        \* republish: the participant it waits on, the epoch it saw
  shared      \* two receive threads of one session ran at the same time

vars == <<epoch, table, micTable, alive, reader, running, part, clients, current, gui, shared>>

Idle == [pc |-> "out", held |-> 0, mark |-> 0]
AtRest == [pc |-> "idle", at |-> 0, seen |-> 0, old |-> 0]

Participant(t) == IF t[1] = "device" THEN t[2] ELSE part[t[2]]

Init ==
  /\ epoch = [p \in Slots |-> 0]
  /\ table = 0 /\ micTable = 0 /\ alive = {}
  /\ reader = [t \in Threads |-> Idle]
  /\ running = DeviceThreads
  /\ part = [x \in Sessions \cup Mics |-> -1]
  /\ clients = [s \in Sessions |-> 0] /\ current = [s \in Sessions |-> 0]
  /\ gui = AtRest /\ shared = FALSE

----------------------------------------------------------------------------
(* The epoch is 64 bits wide and never wraps.  All anyone asks of it is     *)
(* whether it is odd and whether it moved since the GUI read it, so the     *)
(* model keeps the parity, and apart from the value the GUI waits on.       *)
Bump(p, e) ==
  LET parity == (e + 1) % 2
  IN IF gui.pc = "wait" /\ gui.at = p /\ gui.seen = parity THEN parity + 2 ELSE parity

(* GraceGuard: enter, the load, the use, and exit, a load and a store.      *)
Enter(t) ==
  /\ t \in running /\ Participant(t) \in Slots /\ reader[t].pc = "out"
  /\ epoch' = [epoch EXCEPT ![Participant(t)] = Bump(Participant(t), @)]
  /\ reader' = [reader EXCEPT ![t] = [Idle EXCEPT !.pc = "entered"]]
  /\ UNCHANGED <<table, micTable, alive, running, part, clients, current, gui, shared>>

Load(t) ==
  /\ reader[t].pc = "entered"
  /\ reader' = [reader EXCEPT ![t] = [Idle EXCEPT !.pc = "using",
                  !.held = IF t[1] = "mic" THEN micTable ELSE table]]
  /\ UNCHANGED <<epoch, table, micTable, alive, running, part, clients, current, gui, shared>>

ExitLoad(t) ==
  /\ reader[t].pc = "using"
  /\ reader' = [reader EXCEPT ![t] = [Idle EXCEPT !.pc = "exiting",
                                                  !.mark = epoch[Participant(t)]]]
  /\ UNCHANGED <<epoch, table, micTable, alive, running, part, clients, current, gui, shared>>

ExitStore(t) ==
  /\ reader[t].pc = "exiting"
  /\ epoch' = [epoch EXCEPT ![Participant(t)] = Bump(Participant(t), reader[t].mark)]
  /\ reader' = [reader EXCEPT ![t] = Idle]
  /\ UNCHANGED <<table, micTable, alive, running, part, clients, current, gui, shared>>

----------------------------------------------------------------------------
(* republish: build, store both tables, wait for every participant of both  *)
(* epochs in turn, free.  The destructor publishes none.                    *)
Fresh == Tables \ (alive \cup {reader[t].held : t \in Threads})
LowestOf(K) == CHOOSE k \in K : \A j \in K : k <= j

StoreTable ==
  /\ gui.pc = "idle"
  /\ \/ table' = 0 /\ UNCHANGED alive
     \/ /\ Fresh # {}
        /\ table' = LowestOf(Fresh) /\ alive' = alive \cup {LowestOf(Fresh)}
  /\ gui' = [AtRest EXCEPT !.pc = "mics", !.old = table]
  /\ UNCHANGED <<epoch, micTable, reader, running, part, clients, current, shared>>

StoreMicTable ==
  /\ gui.pc = "mics"
  /\ micTable' = table
  /\ gui' = [gui EXCEPT !.pc = "look"]
  /\ UNCHANGED <<epoch, table, alive, reader, running, part, clients, current, shared>>

ForgetsMics == FirstMic                 \* mutant: mics_->grace is not waited for
LastSlot == FirstMic + MicSenders

(* waitQuiescent: an even epoch is passed over, an odd one waited on.       *)
Look ==
  /\ gui.pc = "look" /\ gui.at < LastSlot
  /\ gui' = IF epoch[gui.at] % 2 = 0
            THEN [gui EXCEPT !.at = @ + 1]
            ELSE [gui EXCEPT !.pc = "wait", !.seen = epoch[gui.at]]
  /\ UNCHANGED <<epoch, table, micTable, alive, reader, running, part, clients, current, shared>>

TurnedEven == epoch[gui.at] % 2 = 0     \* mutant: waits for the bracket to be open no more
Moved == epoch[gui.at] # gui.seen

Wait ==
  /\ gui.pc = "wait" /\ Moved
  /\ gui' = [gui EXCEPT !.pc = "look", !.at = @ + 1, !.seen = 0]
  /\ UNCHANGED <<epoch, table, micTable, alive, reader, running, part, clients, current, shared>>

Free ==
  /\ gui.pc = "look" /\ gui.at = LastSlot
  /\ alive' = alive \ {gui.old}
  /\ gui' = AtRest
  /\ UNCHANGED <<epoch, table, micTable, reader, running, part, clients, current, shared>>

Republish == StoreTable \/ StoreMicTable \/ Look \/ Wait \/ Free

----------------------------------------------------------------------------
(* Also on the GUI thread, so never during a republish.                     *)
(* installFeedbackHandlers: a known id keeps its participant, a new one     *)
(* gets the next, and one past the last gets no handlers at all.            *)
Known == {s \in Sessions : part[s] # -1}

InstallFeedbackHandlers(s) ==
  /\ gui.pc = "idle" /\ part[s] = -1 /\ Cardinality(Known) < SessionParticipants
  /\ part' = [part EXCEPT ![s] = DeviceCount + Cardinality(Known)]
  /\ UNCHANGED <<epoch, table, micTable, alive, reader, running, clients, current, gui, shared>>

(* markConnected starts the client's receive thread; teardownClient hands   *)
(* the client to the reaper; the reaper's closeSocket joins the thread.     *)
OtherClients(s) == {t \in running : t[1] = "receive" /\ t[2] = s}

MarkConnected(s) ==
  /\ gui.pc = "idle" /\ current[s] = 0 /\ clients[s] < MaxClients
  /\ clients' = [clients EXCEPT ![s] = @ + 1]
  /\ current' = [current EXCEPT ![s] = clients[s] + 1]
  /\ running' = running \cup {<<"receive", s, clients[s] + 1>>}
  /\ shared' = (shared \/ OtherClients(s) # {})
  /\ UNCHANGED <<epoch, table, micTable, alive, reader, part, gui>>

TeardownClient(s) ==
  /\ gui.pc = "idle" /\ current[s] # 0
  /\ current' = [current EXCEPT ![s] = 0]
  /\ UNCHANGED <<epoch, table, micTable, alive, reader, running, part, clients, gui, shared>>

StopReceiveLoop(t) ==
  /\ t \in running \cap ReceiveThreads /\ current[t[2]] # t[3] /\ reader[t].pc = "out"
  /\ running' = running \ {t}
  /\ UNCHANGED <<epoch, table, micTable, alive, reader, part, clients, current, gui, shared>>

----------------------------------------------------------------------------
(* micSenderForSlot takes the lowest free participant, MicLease's           *)
(* destructor gives it back once no copy of the sender is left to call.     *)
FreeMics == {k \in 0 .. MicSenders - 1 : \A m \in Mics : part[m] # FirstMic + k}
TakesLowest(m) ==
  /\ FreeMics # {}
  /\ part' = [part EXCEPT ![m] = FirstMic + LowestOf(FreeMics)]

MicSenderForSlot(m) ==
  /\ gui.pc = "idle" /\ <<"mic", m>> \notin running
  /\ TakesLowest(m)
  /\ running' = running \cup {<<"mic", m>>}
  /\ UNCHANGED <<epoch, table, micTable, alive, reader, clients, current, gui, shared>>

MicLeaseEnds(m) ==
  /\ <<"mic", m>> \in running /\ reader[<<"mic", m>>].pc = "out"
  /\ running' = running \ {<<"mic", m>>}
  /\ part' = [part EXCEPT ![m] = -1]
  /\ UNCHANGED <<epoch, table, micTable, alive, reader, clients, current, gui, shared>>

----------------------------------------------------------------------------
Bracket(t) == Enter(t) \/ Load(t) \/ ExitLoad(t) \/ ExitStore(t)

Next ==
  \/ Republish
  \/ \E t \in Threads : Bracket(t) \/ StopReceiveLoop(t)
  \/ \E s \in Sessions : InstallFeedbackHandlers(s) \/ MarkConnected(s) \/ TeardownClient(s)
  \/ \E m \in Mics : MicSenderForSlot(m) \/ MicLeaseEnds(m)

Spec == Init /\ [][Next]_vars

(* The GUI thread keeps running once it republishes, and a thread inside a  *)
(* bracket leaves it; nothing says a thread ever enters one.                *)
Fairness ==
  /\ WF_vars(StoreMicTable \/ Look \/ Wait \/ Free)
  /\ \A t \in Threads : WF_vars(Load(t) \/ ExitLoad(t) \/ ExitStore(t))

FairSpec == Spec /\ Fairness

----------------------------------------------------------------------------
(* Every variable keeps its type.                                           *)
TypeOK ==
  /\ epoch \in [Slots -> Nat]
  /\ table \in Tables \cup {0} /\ micTable \in Tables \cup {0} /\ alive \subseteq Tables
  /\ reader \in [Threads -> [pc : {"out", "entered", "using", "exiting"},
                             held : Tables \cup {0}, mark : Nat]]
  /\ running \subseteq Threads
  /\ part \in [Sessions \cup Mics -> Slots \cup {-1}]
  /\ clients \in [Sessions -> 0 .. MaxClients] /\ current \in [Sessions -> 0 .. MaxClients]
  /\ gui \in [pc : {"idle", "mics", "look", "wait"}, at : 0 .. FirstMic + MicSenders,
              seen : Nat, old : Tables \cup {0}]
  /\ shared \in BOOLEAN

(* No thread uses a table that republish has freed.                         *)
TableInUseIsKept ==
  \A t \in Threads : reader[t].pc = "using" /\ reader[t].held # 0 => reader[t].held \in alive

(* GraceEpoch's promise on its own condition, "each participant has exactly *)
(* one thread writing it at a time": as long as no two receive threads of a *)
(* session have overlapped, no thread uses a freed table.                   *)
KeptWhileUnshared == shared \/ TableInUseIsKept

(* waitQuiescent waits for the epoch to change rather than to turn even: a  *)
(* republish returns however often the hot threads enter new brackets.      *)
RepublishReturns == (gui.pc # "idle") ~> (gui.pc = "idle" \/ shared)

============================================================================
