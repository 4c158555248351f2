----------------------- MODULE SatelliteClientProofs -----------------------
(***************************************************************************)
(* Proofs about SatelliteClient for any number of sender threads, re-keys  *)
(* and packets: its type invariant, WireOrder (no nonce twice, datagrams   *)
(* in counter order), SendsOnOwnDescriptor and NoReplay.                   *)
(***************************************************************************)
EXTENDS SatelliteClient, TLAPS

InGate == {"draw", "load", "check", "send", "release"}
HasKey == {"gate"} \cup InGate

(* The key whose sequence sendCounter_ counts: a re-key moves it from the  *)
(* old key to the new one when it resets the counter.                      *)
CounterKey ==
  IF rekeyPc \in {"mark", "end"} THEN gen + 1
  ELSE IF rekeyPc = "idle" THEN gen ELSE gen - 1

(* The key recvMark_ belongs to.                                           *)
MarkKey ==
  IF rekeyPc = "end" THEN gen + 1 ELSE IF rekeyPc = "idle" THEN gen ELSE gen - 1

(* The send gate has one holder.                                           *)
GateInv ==
  /\ \A t \in Senders : pc[t] \in InGate <=> gate = t
  /\ closePc \in {"swap", "release"} <=> gate = "close"

(* The generation is even, and the material its own, outside a re-key.     *)
RekeyInv ==
  /\ gen >= 2
  /\ rekeyPc = "idle" => gen % 2 = 0 /\ material = gen
  /\ rekeyPc # "idle" => gen % 2 = 1
  /\ rekeyPc \in {"counter", "mark", "end"} => material = gen + 1
  /\ mark.gen = MarkKey

(* A sender's key is the one of a completed write no older than the        *)
(* generation it copied before.                                            *)
CopyInv ==
  \A t \in Senders :
    /\ copied[t] <= gen
    /\ pc[t] \in HasKey => copied[t] <= key[t] /\ key[t] <= gen /\ key[t] % 2 = 0

(* What has been sealed lies before the next counter of CounterKey, and    *)
(* before whatever the holder of the gate is about to seal.                *)
CounterInv ==
  /\ counter >= 1
  /\ \A p \in sealed :
       p.key < CounterKey \/ (p.key = CounterKey /\ p.ctr < counter)
  /\ \A t \in Senders :
       /\ pc[t] \in {"load", "check"} /\ copied[t] = gen =>
            /\ ctr[t] < counter \/ ctr[t] > CounterMax
            /\ \A p \in sealed : Before(p, [key |-> gen, ctr |-> ctr[t]])
       /\ pc[t] = "send" =>
            /\ key[t] < CounterKey \/ (key[t] = CounterKey /\ ctr[t] < counter)
            /\ \A p \in sealed : Before(p, [key |-> key[t], ctr |-> ctr[t]])

(* A sender that loaded an open socket inside the gate keeps closeSocket   *)
(* out of it.                                                              *)
SocketInv ==
  /\ sock <=> closePc \in {"open", "gate", "swap"}
  /\ fdOpen <=> closePc # "closed"
  /\ \A t \in Senders :
       /\ pc[t] \in {"check", "send"} /\ hasSock[t] => closePc \in {"open", "gate"}
       /\ pc[t] = "send" => hasSock[t]

(* recvMark_ lies at or after every packet accepted, and its packet after   *)
(* every accepted one once the compare-exchange has succeeded.             *)
ReceiveInv ==
  /\ \A p \in accepted : p.key < mark.gen \/ (p.key = mark.gen /\ p.ctr <= mark.last)
  /\ recvPc # "idle" => rx.gen <= gen
  /\ recvPc = "mark" => rx.gen <= rx.pkt.key /\ rx.pkt.key <= mark.gen
  /\ recvPc = "cas" =>
       /\ rx.mark.gen = rx.gen /\ rx.pkt.key = rx.gen
       /\ rx.mark.last = 0 \/ rx.mark.last < rx.pkt.ctr
  /\ recvPc = "dispatch" =>
       /\ rx.pkt.key < mark.gen \/ (rx.pkt.key = mark.gen /\ rx.pkt.ctr <= mark.last)
       /\ \A p \in accepted : Before(p, rx.pkt)

IInv ==
  TypeOK /\ GateInv /\ RekeyInv /\ CopyInv /\ CounterInv /\ SocketInv /\ ReceiveInv

----------------------------------------------------------------------------
(* Every step of the link preserves the inductive invariant: one step per  *)
(* action, one leaf per conjunct the action can disturb.                   *)
LEMMA StepInv == IInv /\ [Next]_vars => IInv'
<1> SUFFICES ASSUME IInv, [Next]_vars PROVE IInv'
  OBVIOUS
<1> USE SenderAssumption, CounterAssumption DEF IInv
<1>1. ASSUME NEW t \in Senders, SendBegin(t) PROVE IInv'
  <2>1. TypeOK'
    BY <1>1 DEF SendBegin, TypeOK, SendPcs, RekeyPcs, ClosePcs, RecvPcs,
       Goto, recvVars
  <2>2. GateInv'
    BY <1>1 DEF SendBegin, TypeOK, GateInv, InGate, Goto, recvVars
  <2>3. CopyInv'
    BY <1>1 DEF SendBegin, TypeOK, RekeyInv, CopyInv, HasKey, InGate, Goto,
       recvVars
  <2>4. CounterInv'
    BY <1>1 DEF SendBegin, TypeOK, GateInv, RekeyInv, CopyInv, CounterInv,
       CounterKey, HasKey, InGate, Before, Goto, recvVars
  <2>5. SocketInv'
    BY <1>1 DEF SendBegin, TypeOK, GateInv, SocketInv, InGate, ClosePcs,
       Goto, recvVars
  <2>6. RekeyInv' /\ ReceiveInv'
    BY <1>1 DEF SendBegin, RekeyInv, MarkKey, ReceiveInv, Before, Goto,
       recvVars
  <2> QED BY <2>1, <2>2, <2>3, <2>4, <2>5, <2>6
<1>2. ASSUME NEW t \in Senders, CopyMaterial(t) PROVE IInv'
  <2>1. TypeOK'
    BY <1>2 DEF CopyMaterial, TypeOK, SendPcs, RekeyPcs, ClosePcs, RecvPcs,
       Goto, recvVars
  <2>2. GateInv'
    BY <1>2 DEF CopyMaterial, TypeOK, GateInv, InGate, Goto, recvVars
  <2>3. CopyInv'
    BY <1>2 DEF CopyMaterial, TypeOK, RekeyInv, CopyInv, HasKey, InGate,
       Goto, recvVars
  <2>4. CounterInv'
    BY <1>2 DEF CopyMaterial, TypeOK, GateInv, RekeyInv, CopyInv,
       CounterInv, CounterKey, HasKey, InGate, Before, Goto, recvVars
  <2>5. SocketInv'
    BY <1>2 DEF CopyMaterial, TypeOK, GateInv, SocketInv, InGate, ClosePcs,
       Goto, recvVars
  <2>6. RekeyInv' /\ ReceiveInv'
    BY <1>2 DEF CopyMaterial, RekeyInv, MarkKey, ReceiveInv, Before, Goto,
       recvVars
  <2> QED BY <2>1, <2>2, <2>3, <2>4, <2>5, <2>6
<1>3. ASSUME NEW t \in Senders, HoldSendGate(t) PROVE IInv'
  <2>1. TypeOK'
    BY <1>3 DEF HoldSendGate, TypeOK, SendPcs, RekeyPcs, ClosePcs, RecvPcs,
       Goto, recvVars
  <2>2. GateInv'
    BY <1>3 DEF HoldSendGate, TypeOK, GateInv, InGate, Goto, recvVars
  <2>3. CopyInv'
    BY <1>3 DEF HoldSendGate, TypeOK, RekeyInv, CopyInv, HasKey, InGate,
       Goto, recvVars
  <2>4. CounterInv'
    BY <1>3 DEF HoldSendGate, TypeOK, GateInv, RekeyInv, CopyInv,
       CounterInv, CounterKey, HasKey, InGate, Before, Goto, recvVars
  <2>5. SocketInv'
    BY <1>3 DEF HoldSendGate, TypeOK, GateInv, SocketInv, InGate, ClosePcs,
       Goto, recvVars
  <2>6. RekeyInv' /\ ReceiveInv'
    BY <1>3 DEF HoldSendGate, RekeyInv, MarkKey, ReceiveInv, Before, Goto,
       recvVars
  <2> QED BY <2>1, <2>2, <2>3, <2>4, <2>5, <2>6
<1>4. ASSUME NEW t \in Senders, DrawCounter(t) PROVE IInv'
  <2>1. TypeOK'
    BY <1>4 DEF DrawCounter, TypeOK, SendPcs, RekeyPcs, ClosePcs, RecvPcs,
       Goto, recvVars, NextCounter
  <2>2. GateInv'
    BY <1>4 DEF DrawCounter, TypeOK, GateInv, InGate, Goto, recvVars
  <2>3. CopyInv'
    BY <1>4 DEF DrawCounter, TypeOK, RekeyInv, CopyInv, HasKey, InGate,
       Goto, recvVars
  <2>4. CounterInv'
    BY <1>4 DEF DrawCounter, TypeOK, GateInv, RekeyInv, CopyInv, CounterInv,
       CounterKey, HasKey, InGate, Before, Goto, recvVars, NextCounter
  <2>5. SocketInv'
    BY <1>4 DEF DrawCounter, TypeOK, GateInv, SocketInv, InGate, ClosePcs,
       Goto, recvVars
  <2>6. RekeyInv' /\ ReceiveInv'
    BY <1>4 DEF DrawCounter, RekeyInv, MarkKey, ReceiveInv, Before, Goto,
       recvVars
  <2> QED BY <2>1, <2>2, <2>3, <2>4, <2>5, <2>6
<1>5. ASSUME NEW t \in Senders, LoadSocket(t) PROVE IInv'
  <2>1. TypeOK'
    BY <1>5 DEF LoadSocket, TypeOK, SendPcs, RekeyPcs, ClosePcs, RecvPcs,
       Goto, recvVars
  <2>2. GateInv'
    BY <1>5 DEF LoadSocket, TypeOK, GateInv, InGate, Goto, recvVars
  <2>3. CopyInv'
    BY <1>5 DEF LoadSocket, TypeOK, RekeyInv, CopyInv, HasKey, InGate, Goto,
       recvVars
  <2>4. CounterInv'
    BY <1>5 DEF LoadSocket, TypeOK, GateInv, RekeyInv, CopyInv, CounterInv,
       CounterKey, HasKey, InGate, Before, Goto, recvVars
  <2>5. SocketInv'
    BY <1>5 DEF LoadSocket, TypeOK, GateInv, SocketInv, InGate, ClosePcs,
       Goto, recvVars
  <2>6. RekeyInv' /\ ReceiveInv'
    BY <1>5 DEF LoadSocket, RekeyInv, MarkKey, ReceiveInv, Before, Goto,
       recvVars
  <2> QED BY <2>1, <2>2, <2>3, <2>4, <2>5, <2>6
<1>6. ASSUME NEW t \in Senders, CheckGeneration(t) PROVE IInv'
  <2>1. TypeOK'
    BY <1>6 DEF CheckGeneration, TypeOK, SendPcs, RekeyPcs, ClosePcs,
       RecvPcs, Goto, recvVars
  <2>2. GateInv'
    BY <1>6 DEF CheckGeneration, TypeOK, GateInv, InGate, Goto, recvVars
  <2>3. CopyInv'
    BY <1>6 DEF CheckGeneration, TypeOK, RekeyInv, CopyInv, HasKey, InGate,
       Goto, recvVars
  <2>4. CounterInv'
    BY <1>6 DEF CheckGeneration, TypeOK, GateInv, RekeyInv, CopyInv,
       CounterInv, CounterKey, HasKey, InGate, Before, Goto, recvVars,
       MaySeal
  <2>5. SocketInv'
    BY <1>6 DEF CheckGeneration, TypeOK, GateInv, SocketInv, InGate,
       ClosePcs, Goto, recvVars, MaySeal
  <2>6. RekeyInv' /\ ReceiveInv'
    BY <1>6 DEF CheckGeneration, RekeyInv, MarkKey, ReceiveInv, Before,
       Goto, recvVars
  <2> QED BY <2>1, <2>2, <2>3, <2>4, <2>5, <2>6
<1>7. ASSUME NEW t \in Senders, SealAndSend(t) PROVE IInv'
  <2>1. TypeOK'
    BY <1>7 DEF SealAndSend, TypeOK, SendPcs, RekeyPcs, ClosePcs, RecvPcs,
       Goto, recvVars
  <2>2. GateInv'
    BY <1>7 DEF SealAndSend, TypeOK, GateInv, InGate, Goto, recvVars
  <2>3. CopyInv'
    BY <1>7 DEF SealAndSend, TypeOK, RekeyInv, CopyInv, HasKey, InGate,
       Goto, recvVars
  <2>4. CounterInv'
    BY <1>7 DEF SealAndSend, TypeOK, GateInv, RekeyInv, CopyInv, CounterInv,
       CounterKey, HasKey, InGate, Before, Goto, recvVars
  <2>5. SocketInv'
    BY <1>7 DEF SealAndSend, TypeOK, GateInv, SocketInv, InGate, ClosePcs,
       Goto, recvVars
  <2>6. RekeyInv' /\ ReceiveInv'
    BY <1>7 DEF SealAndSend, RekeyInv, MarkKey, ReceiveInv, Before, Goto,
       recvVars
  <2> QED BY <2>1, <2>2, <2>3, <2>4, <2>5, <2>6
<1>8. ASSUME NEW t \in Senders, ReleaseSendGate(t) PROVE IInv'
  <2>1. TypeOK'
    BY <1>8 DEF ReleaseSendGate, TypeOK, SendPcs, RekeyPcs, ClosePcs,
       RecvPcs, Goto, sendVars, recvVars
  <2>2. GateInv'
    BY <1>8 DEF ReleaseSendGate, TypeOK, GateInv, InGate, Goto, sendVars,
       recvVars
  <2>3. CopyInv'
    BY <1>8 DEF ReleaseSendGate, TypeOK, RekeyInv, CopyInv, HasKey, InGate,
       Goto, sendVars, recvVars
  <2>4. CounterInv'
    BY <1>8 DEF ReleaseSendGate, TypeOK, GateInv, RekeyInv, CopyInv,
       CounterInv, CounterKey, HasKey, InGate, Before, Goto, sendVars,
       recvVars
  <2>5. SocketInv'
    BY <1>8 DEF ReleaseSendGate, TypeOK, GateInv, SocketInv, InGate,
       ClosePcs, Goto, sendVars, recvVars
  <2>6. RekeyInv' /\ ReceiveInv'
    BY <1>8 DEF ReleaseSendGate, RekeyInv, MarkKey, ReceiveInv, Before,
       Goto, sendVars, recvVars
  <2> QED BY <2>1, <2>2, <2>3, <2>4, <2>5, <2>6
<1>9. ASSUME RekeyBeginWrite PROVE IInv'
  <2>1. TypeOK'
    BY <1>9 DEF RekeyBeginWrite, TypeOK, SendPcs, RekeyPcs, ClosePcs,
       RecvPcs, sendVars, recvVars
  <2>2. RekeyInv'
    BY <1>9 DEF RekeyBeginWrite, TypeOK, RekeyInv, MarkKey, ReceiveInv,
       sendVars, recvVars
  <2>3. CopyInv'
    BY <1>9 DEF RekeyBeginWrite, TypeOK, RekeyInv, CopyInv, HasKey, InGate,
       sendVars, recvVars
  <2>4. CounterInv'
    BY <1>9 DEF RekeyBeginWrite, TypeOK, GateInv, RekeyInv, CopyInv,
       CounterInv, CounterKey, HasKey, InGate, Before, sendVars, recvVars
  <2>5. ReceiveInv'
    BY <1>9 DEF RekeyBeginWrite, TypeOK, RekeyInv, ReceiveInv, MarkKey,
       Before, sendVars, recvVars
  <2>6. GateInv' /\ SocketInv'
    BY <1>9 DEF RekeyBeginWrite, GateInv, InGate, SocketInv, sendVars,
       recvVars
  <2> QED BY <2>1, <2>2, <2>3, <2>4, <2>5, <2>6
<1>10. ASSUME RekeyStoreMaterial PROVE IInv'
  <2>1. TypeOK'
    BY <1>10 DEF RekeyStoreMaterial, TypeOK, SendPcs, RekeyPcs, ClosePcs,
       RecvPcs, sendVars, recvVars
  <2>2. RekeyInv'
    BY <1>10 DEF RekeyStoreMaterial, TypeOK, RekeyInv, MarkKey, ReceiveInv,
       sendVars, recvVars
  <2>3. CounterInv'
    BY <1>10, Zenon DEF RekeyStoreMaterial, TypeOK, GateInv, RekeyInv, CopyInv,
       CounterInv, CounterKey, HasKey, InGate, Before, sendVars, recvVars
  <2>4. GateInv' /\ CopyInv' /\ SocketInv' /\ ReceiveInv'
    BY <1>10 DEF RekeyStoreMaterial, GateInv, InGate, CopyInv, HasKey,
       SocketInv, ReceiveInv, Before, sendVars, recvVars
  <2> QED BY <2>1, <2>2, <2>3, <2>4
<1>11. ASSUME RekeyResetCounter PROVE IInv'
  <2>1. TypeOK'
    BY <1>11 DEF RekeyResetCounter, TypeOK, SendPcs, RekeyPcs, ClosePcs,
       RecvPcs, sendVars, recvVars
  <2>2. RekeyInv'
    BY <1>11 DEF RekeyResetCounter, TypeOK, RekeyInv, MarkKey, ReceiveInv,
       sendVars, recvVars
  <2>3. CounterInv'
    BY <1>11 DEF RekeyResetCounter, TypeOK, GateInv, RekeyInv, CopyInv,
       CounterInv, CounterKey, HasKey, InGate, Before, sendVars, recvVars
  <2>4. GateInv' /\ CopyInv' /\ SocketInv' /\ ReceiveInv'
    BY <1>11 DEF RekeyResetCounter, GateInv, InGate, CopyInv, HasKey,
       SocketInv, ReceiveInv, Before, sendVars, recvVars
  <2> QED BY <2>1, <2>2, <2>3, <2>4
<1>12. ASSUME RekeyResetMark PROVE IInv'
  <2>1. TypeOK'
    BY <1>12 DEF RekeyResetMark, TypeOK, SendPcs, RekeyPcs, ClosePcs,
       RecvPcs, sendVars, recvVars
  <2>2. RekeyInv'
    BY <1>12 DEF RekeyResetMark, TypeOK, RekeyInv, MarkKey, ReceiveInv,
       sendVars, recvVars
  <2>3. CounterInv'
    BY <1>12 DEF RekeyResetMark, TypeOK, GateInv, RekeyInv, CopyInv,
       CounterInv, CounterKey, HasKey, InGate, Before, sendVars, recvVars
  <2>4. ReceiveInv'
    BY <1>12 DEF RekeyResetMark, TypeOK, RekeyInv, ReceiveInv, MarkKey,
       Before, sendVars, recvVars
  <2>5. GateInv' /\ CopyInv' /\ SocketInv'
    BY <1>12 DEF RekeyResetMark, GateInv, InGate, CopyInv, HasKey,
       SocketInv, sendVars, recvVars
  <2> QED BY <2>1, <2>2, <2>3, <2>4, <2>5
<1>13. ASSUME RekeyEndWrite PROVE IInv'
  <2>1. TypeOK'
    BY <1>13 DEF RekeyEndWrite, TypeOK, SendPcs, RekeyPcs, ClosePcs,
       RecvPcs, sendVars, recvVars
  <2>2. RekeyInv'
    BY <1>13 DEF RekeyEndWrite, TypeOK, RekeyInv, MarkKey, ReceiveInv,
       sendVars, recvVars
  <2>3. CopyInv'
    BY <1>13 DEF RekeyEndWrite, TypeOK, RekeyInv, CopyInv, HasKey, InGate,
       sendVars, recvVars
  <2>4. CounterInv'
    BY <1>13 DEF RekeyEndWrite, TypeOK, GateInv, RekeyInv, CopyInv,
       CounterInv, CounterKey, HasKey, InGate, Before, sendVars, recvVars
  <2>5. ReceiveInv'
    BY <1>13 DEF RekeyEndWrite, TypeOK, RekeyInv, ReceiveInv, MarkKey,
       Before, sendVars, recvVars
  <2>6. GateInv' /\ SocketInv'
    BY <1>13 DEF RekeyEndWrite, GateInv, InGate, SocketInv, sendVars,
       recvVars
  <2> QED BY <2>1, <2>2, <2>3, <2>4, <2>5, <2>6
<1>14. ASSUME CloseBegin PROVE IInv'
  <2>1. TypeOK'
    BY <1>14 DEF CloseBegin, TypeOK, SendPcs, RekeyPcs, ClosePcs, RecvPcs,
       sendVars, recvVars
  <2>2. GateInv'
    BY <1>14 DEF CloseBegin, TypeOK, GateInv, InGate, sendVars, recvVars
  <2>3. SocketInv'
    BY <1>14, Zenon DEF CloseBegin, TypeOK, GateInv, SocketInv, InGate, ClosePcs,
       sendVars, recvVars
  <2>4. RekeyInv' /\ CopyInv' /\ CounterInv' /\ ReceiveInv'
    BY <1>14 DEF CloseBegin, RekeyInv, MarkKey, CopyInv, HasKey, InGate,
       CounterInv, CounterKey, Before, ReceiveInv, sendVars, recvVars
  <2> QED BY <2>1, <2>2, <2>3, <2>4
<1>15. ASSUME CloseHoldGate PROVE IInv'
  <2>1. TypeOK'
    BY <1>15 DEF CloseHoldGate, TypeOK, SendPcs, RekeyPcs, ClosePcs,
       RecvPcs, sendVars, recvVars
  <2>2. GateInv'
    BY <1>15 DEF CloseHoldGate, TypeOK, GateInv, InGate, sendVars, recvVars
  <2>3. SocketInv'
    BY <1>15 DEF CloseHoldGate, TypeOK, GateInv, SocketInv, InGate,
       ClosePcs, sendVars, recvVars
  <2>4. RekeyInv' /\ CopyInv' /\ CounterInv' /\ ReceiveInv'
    BY <1>15 DEF CloseHoldGate, RekeyInv, MarkKey, CopyInv, HasKey, InGate,
       CounterInv, CounterKey, Before, ReceiveInv, sendVars, recvVars
  <2> QED BY <2>1, <2>2, <2>3, <2>4
<1>16. ASSUME CloseSwapDescriptor PROVE IInv'
  <2>1. TypeOK'
    BY <1>16, Zenon DEF CloseSwapDescriptor, TypeOK, SendPcs, RekeyPcs, ClosePcs,
       RecvPcs, sendVars, recvVars
  <2>2. GateInv'
    BY <1>16 DEF CloseSwapDescriptor, TypeOK, GateInv, InGate, sendVars,
       recvVars
  <2>3. SocketInv'
    BY <1>16 DEF CloseSwapDescriptor, TypeOK, GateInv, SocketInv, InGate,
       ClosePcs, sendVars, recvVars
  <2>4. RekeyInv' /\ CopyInv' /\ CounterInv' /\ ReceiveInv'
    BY <1>16 DEF CloseSwapDescriptor, RekeyInv, MarkKey, CopyInv, HasKey,
       InGate, CounterInv, CounterKey, Before, ReceiveInv, sendVars,
       recvVars
  <2> QED BY <2>1, <2>2, <2>3, <2>4
<1>17. ASSUME CloseReleaseGate PROVE IInv'
  <2>1. TypeOK'
    BY <1>17 DEF CloseReleaseGate, TypeOK, SendPcs, RekeyPcs, ClosePcs,
       RecvPcs, sendVars, recvVars
  <2>2. GateInv'
    BY <1>17 DEF CloseReleaseGate, TypeOK, GateInv, InGate, sendVars,
       recvVars
  <2>3. SocketInv'
    BY <1>17, Zenon DEF CloseReleaseGate, TypeOK, GateInv, SocketInv, InGate,
       ClosePcs, sendVars, recvVars
  <2>4. RekeyInv' /\ CopyInv' /\ CounterInv' /\ ReceiveInv'
    BY <1>17 DEF CloseReleaseGate, RekeyInv, MarkKey, CopyInv, HasKey,
       InGate, CounterInv, CounterKey, Before, ReceiveInv, sendVars,
       recvVars
  <2> QED BY <2>1, <2>2, <2>3, <2>4
<1>18. ASSUME CloseDescriptor PROVE IInv'
  <2>1. TypeOK'
    BY <1>18, Zenon DEF CloseDescriptor, TypeOK, SendPcs, RekeyPcs, ClosePcs,
       RecvPcs, sendVars, recvVars
  <2>2. GateInv'
    BY <1>18 DEF CloseDescriptor, TypeOK, GateInv, InGate, sendVars,
       recvVars
  <2>3. SocketInv'
    BY <1>18, Zenon DEF CloseDescriptor, TypeOK, GateInv, SocketInv, InGate,
       ClosePcs, sendVars, recvVars
  <2>4. RekeyInv' /\ CopyInv' /\ CounterInv' /\ ReceiveInv'
    BY <1>18 DEF CloseDescriptor, RekeyInv, MarkKey, CopyInv, HasKey,
       InGate, CounterInv, CounterKey, Before, ReceiveInv, sendVars,
       recvVars
  <2> QED BY <2>1, <2>2, <2>3, <2>4
<1>19. ASSUME NEW p \in Packets, Receive(p) PROVE IInv'
  <2>1. TypeOK'
    BY <1>19, PacketAssumption, Zenon DEF Receive, TypeOK, SendPcs, RekeyPcs,
       ClosePcs, RecvPcs, sendVars
  <2>2. ReceiveInv'
    BY <1>19, PacketAssumption DEF Receive, TypeOK, RekeyInv, ReceiveInv,
       MarkKey, Before, sendVars
  <2>3. GateInv' /\ RekeyInv' /\ CopyInv' /\ CounterInv' /\ SocketInv'
    BY <1>19 DEF Receive, GateInv, InGate, RekeyInv, MarkKey, CopyInv,
       HasKey, CounterInv, CounterKey, Before, SocketInv, sendVars
  <2> QED BY <2>1, <2>2, <2>3
<1>20. ASSUME ReceiveCopy PROVE IInv'
  <2>1. TypeOK'
    BY <1>20 DEF ReceiveCopy, TypeOK, SendPcs, RekeyPcs, ClosePcs, RecvPcs,
       sendVars
  <2>2. ReceiveInv'
    BY <1>20 DEF ReceiveCopy, TypeOK, RekeyInv, ReceiveInv, MarkKey, Before,
       sendVars
  <2>3. GateInv' /\ RekeyInv' /\ CopyInv' /\ CounterInv' /\ SocketInv'
    BY <1>20 DEF ReceiveCopy, GateInv, InGate, RekeyInv, MarkKey, CopyInv,
       HasKey, CounterInv, CounterKey, Before, SocketInv, sendVars
  <2> QED BY <2>1, <2>2, <2>3
<1>21. ASSUME ReceiveMark PROVE IInv'
  <2>1. TypeOK'
    BY <1>21 DEF ReceiveMark, TypeOK, SendPcs, RekeyPcs, ClosePcs, RecvPcs,
       sendVars
  <2>2. ReceiveInv'
    BY <1>21 DEF ReceiveMark, TypeOK, RekeyInv, ReceiveInv, MarkKey, Before,
       sendVars, Fresh
  <2>3. GateInv' /\ RekeyInv' /\ CopyInv' /\ CounterInv' /\ SocketInv'
    BY <1>21 DEF ReceiveMark, GateInv, InGate, RekeyInv, MarkKey, CopyInv,
       HasKey, CounterInv, CounterKey, Before, SocketInv, sendVars
  <2> QED BY <2>1, <2>2, <2>3
<1>22. ASSUME ReceiveCas PROVE IInv'
  <2>1. TypeOK'
    BY <1>22 DEF ReceiveCas, TypeOK, SendPcs, RekeyPcs, ClosePcs, RecvPcs,
       sendVars
  <2>2. RekeyInv'
    BY <1>22 DEF ReceiveCas, TypeOK, RekeyInv, MarkKey, ReceiveInv, sendVars
  <2>3. ReceiveInv'
    BY <1>22 DEF ReceiveCas, TypeOK, RekeyInv, ReceiveInv, MarkKey, Before,
       sendVars
  <2>4. GateInv' /\ CopyInv' /\ CounterInv' /\ SocketInv'
    BY <1>22 DEF ReceiveCas, GateInv, InGate, CopyInv, HasKey, CounterInv,
       CounterKey, Before, SocketInv, sendVars
  <2> QED BY <2>1, <2>2, <2>3, <2>4
<1>23. ASSUME Dispatch PROVE IInv'
  <2>1. TypeOK'
    BY <1>23 DEF Dispatch, TypeOK, SendPcs, RekeyPcs, ClosePcs, RecvPcs,
       sendVars
  <2>2. ReceiveInv'
    BY <1>23, Zenon DEF Dispatch, TypeOK, RekeyInv, ReceiveInv, MarkKey, Before,
       sendVars
  <2>3. GateInv' /\ RekeyInv' /\ CopyInv' /\ CounterInv' /\ SocketInv'
    BY <1>23, Zenon DEF Dispatch, GateInv, InGate, RekeyInv, MarkKey, CopyInv,
       HasKey, CounterInv, CounterKey, Before, SocketInv, sendVars
  <2> QED BY <2>1, <2>2, <2>3
<1>24. CASE UNCHANGED vars
  BY <1>24 DEF vars, TypeOK, GateInv, RekeyInv, CopyInv, CounterInv,
     SocketInv, ReceiveInv, InGate, HasKey, CounterKey, MarkKey, Before
<1> QED
  BY <1>1, <1>2, <1>3, <1>4, <1>5, <1>6, <1>7, <1>8, <1>9, <1>10, <1>11,
     <1>12, <1>13, <1>14, <1>15, <1>16, <1>17, <1>18, <1>19, <1>20, <1>21,
     <1>22, <1>23, <1>24 DEF Next, Send, Rekey, CloseSocket, ReceiveStep

LEMMA InitInv == Init => IInv
  BY CounterAssumption, SenderAssumption
  DEF Init, IInv, TypeOK, GateInv, RekeyInv, CopyInv, CounterInv, SocketInv,
      ReceiveInv, InGate, HasKey, CounterKey, MarkKey, SendPcs, RekeyPcs,
      ClosePcs, RecvPcs

(* The inductive invariant holds in every reachable state of the link.     *)
THEOREM Invariance == Spec => []IInv
  BY InitInv, StepInv, PTL DEF Spec

(* The link's state keeps its types: seqlock generation, counters, marks   *)
(* and the program counters of its threads.                                *)
THEOREM TypeCorrect == Spec => []TypeOK
<1>1. IInv => TypeOK
  BY Zenon DEF IInv
<1> QED BY <1>1, Invariance, PTL

(* sendEncrypted never seals two datagrams under one key and counter, and  *)
(* sends them in counter order, for any number of threads and re-keys.     *)
THEOREM NonceSafety == Spec => []WireOrder
<1>1. IInv => WireOrder
  BY Zenon DEF IInv, CounterInv, WireOrder
<1> QED BY <1>1, Invariance, PTL

(* No thread sends on a descriptor closeSocket has closed.                 *)
THEOREM DescriptorSafety == Spec => []SendsOnOwnDescriptor
<1>1. IInv => SendsOnOwnDescriptor
  BY DEF IInv, SocketInv, SendsOnOwnDescriptor
<1> QED BY <1>1, Invariance, PTL

(* decryptIncoming lets each packet through at most once, in counter       *)
(* order, whatever the network repeats and wherever a re-key falls.        *)
THEOREM ReplaySafety == Spec => []NoReplay
<1>1. IInv => NoReplay
  BY DEF IInv, ReceiveInv, NoReplay
<1> QED BY <1>1, Invariance, PTL

============================================================================
