-------------------------- MODULE SatelliteClient --------------------------
(***************************************************************************)
(* The encrypted UDP link of one session (src/src/Network/                 *)
(* SatelliteClient.cpp): several threads seal and send datagrams, the      *)
(* receive thread opens the satellite's, while the GUI thread may re-key   *)
(* the session (setConnectionParams) and the reaper may close the socket.  *)
(*                                                                         *)
(* Abstractions.  A session key and its token are one value, named by the  *)
(* seqlock generation of the write that stored it: every session PUT mints *)
(* a fresh pair.  Payloads are left out.  The seqlock copy of the material *)
(* is one step (a successful read belongs to one write: module             *)
(* OutputWorker takes the same seqlock apart word by word); it may fail,   *)
(* and a failed read ends the send or the receive.                         *)
(* Steps of different threads interleave at every shared atomic.           *)
(***************************************************************************)
EXTENDS Integers, FiniteSets

CONSTANTS
  Senders,      \* the threads that send: input, USB, heartbeat, mic
  Packets,      \* what the satellite puts on the wire: [key, ctr] records
  MaxGen,       \* bound on materialSeq_'s generation (2 per re-key)
  CounterMax    \* kCounterWireMax: the largest counter the wire carries

ASSUME SenderAssumption == "close" \notin Senders /\ "none" \notin Senders
ASSUME CounterAssumption == CounterMax \in Nat \ {0}
ASSUME MaxGenAssumption == MaxGen \in Nat /\ MaxGen >= 2
ASSUME PacketAssumption == Packets \subseteq [key : Nat, ctr : Nat \ {0}]

VARIABLES
  gen,        \* materialSeq_: odd while a re-key writes
  material,   \* material_: the write whose key and token are stored
  counter,    \* sendCounter_
  mark,       \* recvMark_: [gen, last]
  gate,       \* sendGate_: its holder, or "none"
  sock,       \* sock_ >= 0
  fdOpen,     \* the descriptor is still this client's (not yet ::close'd)
  pc,         \* where each sender is inside sendEncrypted
  copied,     \* the generation each sender copied its key under
  key,        \* the key each sender copied
  ctr,        \* the counter each sender drew
  hasSock,    \* each sender's own load of sock_ was >= 0
  rekeyPc,    \* where setConnectionParams is
  closePc,    \* where closeSocket is
  recvPc,     \* where decryptIncoming is
  rx,         \* the receive thread's locals: [pkt, gen, key, mark]
  sealed,     \* history: every [key, ctr] a datagram was sealed under
  accepted    \* history: every packet of the satellite handed to dispatch

sendVars == <<pc, copied, key, ctr, hasSock>>
recvVars == <<recvPc, rx, accepted>>
vars == <<gen, material, counter, mark, gate, sock, fdOpen, pc, copied, key,
          ctr, hasSock, rekeyPc, closePc, recvPc, rx, sealed, accepted>>

SendPcs  == {"idle", "copy", "gate", "draw", "load", "check", "send", "release"}
RekeyPcs == {"idle", "material", "counter", "mark", "end"}
ClosePcs == {"open", "gate", "swap", "release", "close", "closed"}
RecvPcs  == {"idle", "copy", "mark", "cas", "dispatch"}

Before(p, q) == p.key < q.key \/ (p.key = q.key /\ p.ctr < q.ctr)

----------------------------------------------------------------------------
(* The client as startSession hands it to markConnected: the socket is     *)
(* open and the first setConnectionParams has run, so its material is      *)
(* generation 2.                                                           *)
Init ==
  /\ gen = 2 /\ material = 2 /\ counter = 1
  /\ mark = [gen |-> 2, last |-> 0]
  /\ gate = "none" /\ sock = TRUE /\ fdOpen = TRUE
  /\ pc = [t \in Senders |-> "idle"]
  /\ copied = [t \in Senders |-> 0] /\ key = [t \in Senders |-> 0]
  /\ ctr = [t \in Senders |-> 0] /\ hasSock = [t \in Senders |-> FALSE]
  /\ rekeyPc = "idle" /\ closePc = "open" /\ recvPc = "idle"
  /\ rx = [pkt |-> [key |-> 0, ctr |-> 1], gen |-> 0, key |-> 0,
           mark |-> [gen |-> 0, last |-> 0]]
  /\ sealed = {} /\ accepted = {}

Goto(t, label) == pc' = [pc EXCEPT ![t] = label]

(* sendEncrypted: the early return on a closed socket, then the generation *)
(* readMaterial loads before it reads.                                     *)
SendBegin(t) ==
  /\ pc[t] = "idle" /\ sock
  /\ copied' = [copied EXCEPT ![t] = gen]
  /\ Goto(t, "copy")
  /\ UNCHANGED <<gen, material, counter, mark, gate, sock, fdOpen, key, ctr,
                 hasSock, rekeyPc, closePc, recvVars, sealed>>

(* The seqlock read: false while a write is open (or torn by one), and the *)
(* send is dropped.                                                        *)
CopyMaterial(t) ==
  /\ pc[t] = "copy"
  /\ \/ gen % 2 = 0 /\ key' = [key EXCEPT ![t] = material] /\ Goto(t, "gate")
     \/ Goto(t, "idle") /\ UNCHANGED key
  /\ UNCHANGED <<gen, material, counter, mark, gate, sock, fdOpen, copied, ctr,
                 hasSock, rekeyPc, closePc, recvVars, sealed>>

HoldSendGate(t) ==
  /\ pc[t] = "gate" /\ gate = "none"
  /\ gate' = t
  /\ Goto(t, "draw")
  /\ UNCHANGED <<gen, material, counter, mark, sock, fdOpen, copied, key, ctr,
                 hasSock, rekeyPc, closePc, recvVars, sealed>>

(* sendCounter_ is 64 bits wide and does not wrap in a session's lifetime;  *)
(* past CounterMax every value behaves alike, so the model stops there.    *)
NextCounter == IF counter > CounterMax THEN counter ELSE counter + 1

DrawCounter(t) ==
  /\ pc[t] = "draw"
  /\ ctr' = [ctr EXCEPT ![t] = counter]
  /\ counter' = NextCounter
  /\ Goto(t, "load")
  /\ UNCHANGED <<gen, material, mark, gate, sock, fdOpen, copied, key, hasSock,
                 rekeyPc, closePc, recvVars, sealed>>

LoadSocket(t) ==
  /\ pc[t] = "load"
  /\ hasSock' = [hasSock EXCEPT ![t] = sock]
  /\ Goto(t, "check")
  /\ UNCHANGED <<gen, material, counter, mark, gate, sock, fdOpen, copied, key,
                 ctr, rekeyPc, closePc, recvVars, sealed>>

(* wireSendCounter has a value, the socket was open, and no re-key opened  *)
(* its write since the key was copied.                                     *)
MaySealUnchecked(t) == ctr[t] <= CounterMax /\ hasSock[t]  \* mutant: no compare
MaySeal(t) == ctr[t] <= CounterMax /\ hasSock[t] /\ gen = copied[t]

CheckGeneration(t) ==
  /\ pc[t] = "check"
  /\ Goto(t, IF MaySeal(t) THEN "send" ELSE "release")
  /\ UNCHANGED <<gen, material, counter, mark, gate, sock, fdOpen, copied, key,
                 ctr, hasSock, rekeyPc, closePc, recvVars, sealed>>

(* encryptPacket and sendto.  A datagram the send buffer refuses is sealed *)
(* all the same.                                                           *)
SealAndSend(t) ==
  /\ pc[t] = "send"
  /\ sealed' = sealed \cup {[key |-> key[t], ctr |-> ctr[t]]}
  /\ Goto(t, "release")
  /\ UNCHANGED <<gen, material, counter, mark, gate, sock, fdOpen, copied, key,
                 ctr, hasSock, rekeyPc, closePc, recvVars>>

ReleaseSendGate(t) ==
  /\ pc[t] = "release"
  /\ gate' = "none"
  /\ Goto(t, "idle")
  /\ UNCHANGED <<gen, material, counter, mark, sock, fdOpen, copied, key, ctr,
                 hasSock, rekeyPc, closePc, recvVars, sealed>>

Send(t) ==
  \/ SendBegin(t) \/ CopyMaterial(t) \/ HoldSendGate(t) \/ DrawCounter(t)
  \/ LoadSocket(t) \/ CheckGeneration(t) \/ SealAndSend(t) \/ ReleaseSendGate(t)

----------------------------------------------------------------------------
(* setConnectionParams, one step per store, in the order of the code.      *)
RekeyBeginWrite ==
  /\ rekeyPc = "idle" /\ gen + 2 <= MaxGen
  /\ gen' = gen + 1
  /\ rekeyPc' = "material"
  /\ UNCHANGED <<material, counter, mark, gate, sock, fdOpen, sendVars, closePc,
                 recvVars, sealed>>

RekeyStoreMaterial ==
  /\ rekeyPc = "material"
  /\ material' = gen + 1
  /\ rekeyPc' = "counter"
  /\ UNCHANGED <<gen, counter, mark, gate, sock, fdOpen, sendVars, closePc,
                 recvVars, sealed>>


RekeyResetCounter ==
  /\ rekeyPc = "counter"
  /\ counter' = 1
  /\ rekeyPc' = "mark"
  /\ UNCHANGED <<gen, material, mark, gate, sock, fdOpen, sendVars, closePc,
                 recvVars, sealed>>

RekeyResetMark ==
  /\ rekeyPc = "mark"
  /\ mark' = [gen |-> gen + 1, last |-> 0]
  /\ rekeyPc' = "end"
  /\ UNCHANGED <<gen, material, counter, gate, sock, fdOpen, sendVars, closePc,
                 recvVars, sealed>>

RekeyEndWrite ==
  /\ rekeyPc = "end"
  /\ gen' = gen + 1
  /\ rekeyPc' = "idle"
  /\ UNCHANGED <<material, counter, mark, gate, sock, fdOpen, sendVars, closePc,
                 recvVars, sealed>>

Rekey ==
  \/ RekeyBeginWrite \/ RekeyStoreMaterial \/ RekeyResetCounter
  \/ RekeyResetMark \/ RekeyEndWrite

----------------------------------------------------------------------------
(* closeSocket: the receive thread is joined first, then the descriptor is *)
(* swapped out inside the send gate and closed outside it.                 *)
CloseBegin ==
  /\ closePc = "open" /\ recvPc = "idle"
  /\ closePc' = "gate"
  /\ UNCHANGED <<gen, material, counter, mark, gate, sock, fdOpen, sendVars,
                 rekeyPc, recvVars, sealed>>

CloseSkipsGate ==  \* mutant: the descriptor is swapped outside the gate
  /\ closePc = "gate"
  /\ closePc' = "swap"
  /\ UNCHANGED <<gen, material, counter, mark, gate, sock, fdOpen, sendVars,
                 rekeyPc, recvVars, sealed>>

CloseHoldGate ==
  /\ closePc = "gate" /\ gate = "none"
  /\ gate' = "close"
  /\ closePc' = "swap"
  /\ UNCHANGED <<gen, material, counter, mark, sock, fdOpen, sendVars, rekeyPc,
                 recvVars, sealed>>

CloseSwapDescriptor ==
  /\ closePc = "swap"
  /\ sock' = FALSE
  /\ closePc' = "release"
  /\ UNCHANGED <<gen, material, counter, mark, gate, fdOpen, sendVars, rekeyPc,
                 recvVars, sealed>>

CloseReleaseGate ==
  /\ closePc = "release"
  /\ gate' = "none"
  /\ closePc' = "close"
  /\ UNCHANGED <<gen, material, counter, mark, sock, fdOpen, sendVars, rekeyPc,
                 recvVars, sealed>>

CloseDescriptor ==
  /\ closePc = "close"
  /\ fdOpen' = FALSE
  /\ closePc' = "closed"
  /\ UNCHANGED <<gen, material, counter, mark, gate, sock, sendVars, rekeyPc,
                 recvVars, sealed>>

CloseSocket ==
  \/ CloseBegin \/ CloseHoldGate \/ CloseSwapDescriptor \/ CloseReleaseGate
  \/ CloseDescriptor

----------------------------------------------------------------------------
(* decryptIncoming.  The network repeats and reorders the satellite's      *)
(* packets at will: any of them may arrive again at any time.              *)
Receive(p) ==
  /\ recvPc = "idle" /\ closePc = "open"
  /\ rx' = [rx EXCEPT !.pkt = p, !.gen = gen]
  /\ recvPc' = "copy"
  /\ UNCHANGED <<gen, material, counter, mark, gate, sock, fdOpen, sendVars,
                 rekeyPc, closePc, sealed, accepted>>

(* The seqlock copy, then the token compared with the packet's.            *)
ReceiveCopy ==
  /\ recvPc = "copy"
  /\ \/ /\ gen % 2 = 0 /\ rx.pkt.key = material
        /\ rx' = [rx EXCEPT !.key = material]
        /\ recvPc' = "mark"
     \/ recvPc' = "idle" /\ UNCHANGED rx
  /\ UNCHANGED <<gen, material, counter, mark, gate, sock, fdOpen, sendVars,
                 rekeyPc, closePc, sealed, accepted>>

(* A mark of another generation, or a counter at or below the last one     *)
(* (0 lets the first packet in), drops the packet; decryption needs the    *)
(* key the packet was sealed under, which ReceiveCopy established.         *)
FreshOrEqual(p, m, g) == m.gen = g /\ p.ctr >= m.last  \* mutant: off by one

Fresh(p, m, g) == m.gen = g /\ (m.last = 0 \/ p.ctr > m.last)

ReceiveMark ==
  /\ recvPc = "mark"
  /\ rx' = [rx EXCEPT !.mark = mark]
  /\ recvPc' = IF Fresh(rx.pkt, mark, rx.gen) THEN "cas" ELSE "idle"
  /\ UNCHANGED <<gen, material, counter, mark, gate, sock, fdOpen, sendVars,
                 rekeyPc, closePc, sealed, accepted>>

(* The compare-exchange of recvMark_: lost to a re-key, it drops the packet. *)
ReceiveCas ==
  /\ recvPc = "cas"
  /\ \/ /\ mark = rx.mark
        /\ mark' = [gen |-> rx.gen, last |-> rx.pkt.ctr]
        /\ recvPc' = "dispatch"
     \/ mark # rx.mark /\ recvPc' = "idle" /\ UNCHANGED mark
  /\ UNCHANGED <<gen, material, counter, gate, sock, fdOpen, sendVars, rekeyPc,
                 closePc, rx, sealed, accepted>>

Dispatch ==
  /\ recvPc = "dispatch"
  /\ accepted' = accepted \cup {rx.pkt}
  /\ recvPc' = "idle"
  /\ UNCHANGED <<gen, material, counter, mark, gate, sock, fdOpen, sendVars,
                 rekeyPc, closePc, rx, sealed>>

ReceiveStep == ReceiveCopy \/ ReceiveMark \/ ReceiveCas \/ Dispatch

Next ==
  \/ \E t \in Senders : Send(t)
  \/ \E p \in Packets : Receive(p)
  \/ Rekey \/ CloseSocket \/ ReceiveStep

Spec == Init /\ [][Next]_vars

----------------------------------------------------------------------------
TypeOK ==
  /\ gen \in Nat /\ material \in Nat /\ counter \in Nat
  /\ mark \in [gen : Nat, last : Nat]
  /\ gate \in Senders \cup {"none", "close"}
  /\ sock \in BOOLEAN /\ fdOpen \in BOOLEAN
  /\ pc \in [Senders -> SendPcs]
  /\ copied \in [Senders -> Nat] /\ key \in [Senders -> Nat]
  /\ ctr \in [Senders -> Nat] /\ hasSock \in [Senders -> BOOLEAN]
  /\ rekeyPc \in RekeyPcs /\ closePc \in ClosePcs /\ recvPc \in RecvPcs
  /\ rx \in [pkt : [key : Nat, ctr : Nat \ {0}], gen : Nat, key : Nat,
             mark : [gen : Nat, last : Nat]]
  /\ sealed \subseteq [key : Nat, ctr : Nat]
  /\ accepted \subseteq [key : Nat, ctr : Nat \ {0}]

(* Every datagram is sealed under a (key, counter) strictly after all those *)
(* sealed before it: no nonce is ever used twice under one key, however a   *)
(* re-key interleaves with the senders, and the datagrams of a session leave *)
(* in counter order, "which the satellite's replay guard requires"          *)
(* (SatelliteClient.h, sendGate_).                                          *)
WireOrder ==
  \A t \in Senders : pc[t] = "send" =>
    \A p \in sealed : Before(p, [key |-> key[t], ctr |-> ctr[t]])

(* sendto never runs on a descriptor that closeSocket has closed, and which *)
(* the kernel may have handed out again.                                    *)
SendsOnOwnDescriptor == \A t \in Senders : pc[t] = "send" => fdOpen

(* The receive thread hands each packet of the satellite to dispatch at     *)
(* most once and in counter order, across re-keys, though the network       *)
(* repeats and reorders them (decryptIncoming's recvMark_).                 *)
NoReplay ==
  recvPc = "dispatch" => \A p \in accepted : Before(p, rx.pkt)

============================================================================
