------------------------------ MODULE SlotSync ------------------------------
(***************************************************************************)
(* How a connection's controller slots reach the satellite and stay there: *)
(* attachSlot, detachSlot, applyResults and matchesAppliedView of          *)
(* src/src/Network/WifiConnection.cpp; syncSlot, deleteSlot, reconcile,    *)
(* convergeLateSlots, rekey and the slot half of the session PUT's reply   *)
(* in WifiConnectionManager.cpp; and core/reducer/Reconcile.h.             *)
(*                                                                         *)
(* One connection; its life (module WifiConnectionManager) is reduced to   *)
(* connecting, dying and faltering.  A descriptor keeps its type, its      *)
(* touchpad mode and, as one value, the capability bits.  An index carries *)
(* one slot here: ConnectionHub shows how slots share a connection.        *)
(***************************************************************************)
EXTENDS Integers, FiniteSets, SequencesExt

CONSTANTS
  Idx,       \* controller indices
  Descs,     \* descriptors a pad may declare, [type, mode, caps]
  None,      \* no slot, no pad
  AckEpochs, \* how many epochs an ack tells apart: 2^16
  Budgets    \* bounds on each kind of outside event, a set of [Events -> Nat]

Events ==
  {"slot", "falter", "death", "rekey", "lost", "refused", "dropped", "foreign", "overtake"}

ASSUME IdxAssumption == IsFiniteSet(Idx) /\ None \notin Descs
ASSUME DescAssumption == \A d \in Descs : {"type", "mode", "caps"} = DOMAIN d
ASSUME AckAssumption == AckEpochs \in Nat \ {0}
ASSUME BudgetAssumption == Budgets \subseteq [Events -> Nat]

VARIABLES
  link,      \* "Idle", "Linking", "Live", "Faltering"
  slots,     \* slots_: what each index should be, or None
  reg,       \* the indices whose slot is `registered`
  epoch,     \* lastAppliedEpoch_, -1 for none
  granted,   \* mouseControlGranted_
  looking,   \* reconcileInFlight_ holds this connection
  seen,      \* serverEpoch_ and serverBitmap_ of the client, -1 for no ack
  net,       \* the requests in flight, in the order sent
  srv,       \* the satellite: pads per index, epoch, mouse grant, session up
  ack,       \* an enriched ack under way, or None
  keyed,     \* the client's session key is the satellite's
  silent,    \* history: the indices whose last change no request carries
  left       \* what remains of the budget chosen

vars == <<link, slots, reg, epoch, granted, looking, seen, net, srv, ack, keyed, silent, left>>

Pads == [Idx -> Descs \cup {None}]
NoPads == [i \in Idx |-> None]
NotSeen == [epoch |-> -1, bitmap |-> {}]
Active(p) == {i \in Idx : p[i] # None}
Current == [epoch |-> srv.epoch % AckEpochs, bitmap |-> Active(srv.pads)]
WantsMouse(p) == \E i \in Active(p) : p[i].mode = "mouse"

Init ==
  /\ link = "Idle" /\ slots = NoPads /\ reg = {}
  /\ epoch = -1 /\ granted = FALSE /\ looking = FALSE
  /\ seen = NotSeen /\ net = << >> /\ ack = None
  /\ keyed = FALSE /\ silent = {}
  /\ srv = [pads |-> NoPads, epoch |-> 0, grant |-> FALSE, up |-> FALSE]
  /\ left \in Budgets

Spend(e) == left[e] > 0 /\ left' = [left EXCEPT ![e] = @ - 1]

(* Whether requests, and replies, may overtake each other: a budget for it  *)
(* is never spent.                                                          *)
Reorder == left["overtake"] > 0

----------------------------------------------------------------------------
(* Requests: what each carries, and its reply once served.                 *)
Session == [kind |-> "session", pads |-> slots, reply |-> "out"]
Rekey == [kind |-> "rekey", pads |-> slots, reply |-> "out"]
View == [kind |-> "get", reply |-> "out"]
Controller(i, d) == [kind |-> "ctl", idx |-> i, desc |-> d, reply |-> "out"]
Removal(i) == [kind |-> "del", idx |-> i, reply |-> "out"]

InOrder(S, Msg(_)) == LET is == SetToSortSeq(S, <) IN [k \in DOMAIN is |-> Msg(is[k])]

(* teardownClient: nothing stays registered, and a re-key under way is of a *)
(* client that is gone.                                                     *)
Teardown ==
  /\ reg' = {} /\ epoch' = -1 /\ granted' = FALSE /\ seen' = NotSeen /\ ack' = None

Orphan(n) ==
  [k \in DOMAIN n |-> IF n[k].kind = "rekey" THEN [n[k] EXCEPT !.kind = "orphan"] ELSE n[k]]

----------------------------------------------------------------------------
(* attachSlot of a new or a changed slot.  Only a Live connection announces *)
(* it (slotChanged, then syncSlot): a Faltering one stays silent about it.  *)
AnnouncesSlot == link = "Live"

AttachSlot(i, d) ==
  /\ Spend("slot") /\ slots[i] # d
  /\ slots' = [slots EXCEPT ![i] = d]
  /\ net' = IF AnnouncesSlot THEN Append(net, Controller(i, d)) ELSE net
  /\ silent' = IF link = "Faltering" THEN silent \cup {i} ELSE silent \ {i}
  /\ UNCHANGED <<link, reg, epoch, granted, looking, seen, srv, ack, keyed>>

(* detachSlot: the removal is announced only for a registered slot.         *)
DetachSlot(i) ==
  /\ Spend("slot") /\ slots[i] # None
  /\ slots' = [slots EXCEPT ![i] = None]
  /\ reg' = reg \ {i} /\ silent' = silent \ {i}
  /\ net' = IF link = "Live" /\ i \in reg THEN Append(net, Removal(i)) ELSE net
  /\ UNCHANGED <<link, epoch, granted, looking, seen, srv, ack, keyed>>

(* connectTo with a key (the sweep dials a faltering connection too): the   *)
(* desired state rides the session PUT.                                     *)
Connect ==
  /\ link \in {"Idle", "Faltering"}
  /\ link' = "Linking" /\ Teardown
  /\ net' = Append(Orphan(net), Session)
  /\ UNCHANGED <<slots, looking, srv, keyed, silent, left>>

----------------------------------------------------------------------------
(* Replies.  Only its own reply ends a Linking, so a session PUT's reply    *)
(* always finds the connection Linking.                                     *)
Without(k) == RemoveAt(net, k)

(* lateSlotConverge: by index and type alone.                               *)
NothingLate(sent) == [removes |-> {}, resyncs |-> {}]   \* mutant: not converged
LateConverge(sent) ==
  [removes |-> Active(sent) \ Active(slots),
   resyncs |-> {i \in Active(slots) : sent[i] = None \/ sent[i].type # slots[i].type}]

(* So a late change of mode or capabilities alone is carried by nothing.    *)
LateAndSilent(sent) ==
  {i \in Active(sent) \cap Active(slots) : sent[i] # slots[i] /\ sent[i].type = slots[i].type}

(* applyResults: by index, for the slots attached when the reply arrives.   *)
ApplyResults(is, live) == (reg \ is) \cup (live \cap Active(slots))

StaysLinking == "Linking"     \* mutant: a refusal does not end the attempt
AfterRefusal == "Idle"

(* onSessionReply, onSessionRefused, startSession, convergeLateSlots.       *)
SessionReply(k) ==
  LET r == net[k]
      late == LateConverge(r.pads) IN
  /\ r.kind = "session" /\ link = "Linking"
  /\ \/ /\ r.reply = "ok"
        /\ link' = "Live" /\ silent' = LateAndSilent(r.pads)
        /\ epoch' = r.epoch /\ granted' = r.grant
        /\ seen' = NotSeen /\ ack' = None
        /\ reg' = ApplyResults(Active(r.pads), r.live)
        /\ net' = Without(k) \o InOrder(late.removes, Removal)
                     \o InOrder(late.resyncs, LAMBDA i : Controller(i, slots[i]))
     \/ /\ r.reply = "down"
        /\ link' = AfterRefusal /\ net' = Without(k)
        /\ UNCHANGED <<epoch, granted, reg, seen, ack, silent>>
  /\ UNCHANGED <<slots, looking, srv, keyed, left>>

(* rekey, from the alive tick: the desired state rides this PUT too.        *)
SendRekey ==
  /\ link = "Live" /\ Spend("rekey")
  /\ net' = Append(net, Rekey)
  /\ UNCHANGED <<link, slots, reg, epoch, granted, looking, seen, srv, ack, keyed, silent>>

(* onRekeyReply, adoptRekey: the epoch alone is adopted, and the new key    *)
(* starts with no ack seen; results and late changes are not looked at.     *)
RekeyReply(k) ==
  LET r == net[k] IN
  /\ r.kind \in {"rekey", "orphan"} /\ r.reply # "out"
  /\ IF r.kind = "rekey" /\ link = "Live" /\ r.reply = "ok"
     THEN epoch' = r.epoch /\ seen' = NotSeen /\ ack' = None /\ keyed' = TRUE
     ELSE UNCHANGED <<epoch, seen, ack, keyed>>
  /\ net' = Without(k)
  /\ UNCHANGED <<link, slots, reg, granted, looking, srv, silent, left>>

(* reconcileNeeded, and reconcile's other guards.                           *)
ReconcileNeeded(e, bitmap) ==
  seen.epoch >= 0 /\ (seen.epoch # e \/ seen.bitmap # bitmap)
SingleFlight == ~looking

(* syncSlot's reply: the epoch and the result are adopted in any state.  A  *)
(* grant that differs from what the slots want calls reconcile, which finds *)
(* its own conditions on the state just adopted.                            *)
ControllerReply(k) ==
  LET r == net[k] IN
  /\ r.kind = "ctl" /\ r.reply # "out"
  /\ \/ /\ r.reply = "ok"
        /\ epoch' = r.epoch
        /\ reg' = ApplyResults({r.idx}, r.live)
        /\ IF /\ WantsMouse(slots) # granted /\ link = "Live" /\ SingleFlight
              /\ ReconcileNeeded(r.epoch, reg')
           THEN looking' = TRUE /\ net' = Append(Without(k), View)
           ELSE UNCHANGED looking /\ net' = Without(k)
     \/ /\ r.reply \in {"gone", "down"}
        /\ net' = Without(k) /\ UNCHANGED <<epoch, reg, looking>>
  /\ UNCHANGED <<link, slots, granted, seen, srv, ack, keyed, silent, left>>

(* deleteSlot's reply.  One that never came is an empty response: it holds  *)
(* no error, so its epoch, 0, is adopted.                                   *)
RemovalReply(k) ==
  LET r == net[k] IN
  /\ r.kind = "del"
  /\ \/ r.reply = "ok" /\ epoch' = r.epoch
     \/ r.reply = "down" /\ epoch' = 0
     \/ r.reply = "gone" /\ UNCHANGED epoch
  /\ net' = Without(k)
  /\ UNCHANGED <<link, slots, reg, granted, looking, seen, srv, ack, keyed, silent, left>>

(* matchesAppliedView: type, mode and the mouse grant; not the capabilities. *)
Matches(r) ==
  /\ Active(r.pads) = Active(slots)
  /\ \A i \in Active(slots) : r.pads[i].type = slots[i].type /\ r.pads[i].mode = slots[i].mode
  /\ r.grant = WantsMouse(slots)

LookEnded == FALSE

(* reconcile's reply.                                                       *)
ViewReply(k) ==
  LET r == net[k] IN
  /\ r.kind = "get" /\ r.reply # "out"
  /\ looking' = LookEnded
  /\ \/ /\ link = "Live" /\ r.reply = "ok" /\ Matches(r)
        /\ epoch' = r.epoch /\ net' = Without(k)
        /\ UNCHANGED <<link, reg, granted, seen, ack>>
     \/ /\ link = "Live" /\ r.reply = "ok" /\ ~Matches(r)
        /\ link' = "Linking" /\ Teardown
        /\ net' = Append(Orphan(Without(k)), Session)
     \/ /\ link # "Live" \/ r.reply # "ok"
        /\ net' = Without(k)
        /\ UNCHANGED <<link, reg, epoch, granted, seen, ack>>
  /\ UNCHANGED <<slots, srv, keyed, silent, left>>

----------------------------------------------------------------------------
(* The alive tick: the reconcile nudge.                                    *)
TickReconcile ==
  /\ link = "Live" /\ ReconcileNeeded(epoch, reg) /\ SingleFlight
  /\ looking' = TRUE
  /\ net' = Append(net, View)
  /\ UNCHANGED <<link, slots, reg, epoch, granted, seen, srv, ack, keyed, silent, left>>

(* applySteadyState.                                                        *)
Falter ==
  /\ link = "Live" /\ Spend("falter")
  /\ link' = "Faltering"
  /\ UNCHANGED <<slots, reg, epoch, granted, looking, seen, net, srv, ack, keyed, silent>>

Recover ==
  /\ link = "Faltering" /\ keyed
  /\ link' = "Live"
  /\ UNCHANGED <<slots, reg, epoch, granted, looking, seen, net, srv, ack, keyed, silent, left>>

(* A death: disconnect, and the satellite drops the session too.  A client  *)
(* that missed its new key hears no ack, so it dies without being told to.  *)
Deaf == ~keyed /\ \A k \in DOMAIN net : net[k].kind # "rekey"

Die ==
  /\ link \in {"Live", "Faltering"}
  /\ Spend("death") \/ (Deaf /\ UNCHANGED left)
  /\ link' = "Idle" /\ Teardown
  /\ srv' = [srv EXCEPT !.up = FALSE, !.pads = NoPads]
  /\ net' = Orphan(net)
  /\ UNCHANGED <<slots, looking, keyed, silent>>

(* onHeartbeatAck: what an ack says was true when it was sent.  Its epoch   *)
(* is 16 bits wide (parseHeartbeatAck), the one in a reply is an int.       *)
HeartbeatAck ==
  /\ ack # None
  /\ seen' = ack /\ ack' = None
  /\ UNCHANGED <<link, slots, reg, epoch, granted, looking, net, srv, keyed, silent, left>>

----------------------------------------------------------------------------
(* The satellite (external).  A change of the applied state bumps its epoch. *)
(* An ack under a key the client does not hold does not open.               *)
SendAck ==
  /\ srv.up /\ ack = None /\ link \in {"Live", "Faltering"} /\ keyed
  /\ ack' = Current /\ ack' # seen
  /\ UNCHANGED <<link, slots, reg, epoch, granted, looking, seen, net, srv, keyed, silent, left>>

(* A request is served in its turn; the host's driver may fail to plug a    *)
(* pad in, or fail to replug a live one, whose old pad then stays.  live:   *)
(* the indices the reply reports as live.  Every session PUT rotates the    *)
(* key, and the client has it once it takes the reply.                      *)
Turn(k) == Reorder \/ \A j \in 1 .. (k - 1) : net[j].reply # "out"
Sessions == {"session", "rekey", "orphan"}
Wanted(r) == IF r.kind \in Sessions THEN r.pads ELSE [srv.pads EXCEPT ![r.idx] = r.desc]

ServeApply(k) ==
  LET r == net[k] IN
  /\ r.kind \in Sessions \cup {"ctl"} /\ (srv.up \/ r.kind \in Sessions)
  /\ \E pads \in {Wanted(r)} \cup (IF left["refused"] = 0 THEN {} ELSE
         {[Wanted(r) EXCEPT ![i] = srv.pads[i]] : i \in Active(Wanted(r))}) :
       /\ IF pads = Wanted(r) THEN UNCHANGED left ELSE Spend("refused")
       /\ srv' = [pads |-> pads, epoch |-> srv.epoch + 1, up |-> TRUE,
                  grant |-> IF r.kind \in Sessions THEN WantsMouse(r.pads) ELSE srv.grant]
       /\ keyed' = IF r.kind = "ctl" THEN keyed ELSE r.kind = "session"
       /\ net' = [net EXCEPT ![k] = [r EXCEPT !.reply = "ok"] @@
                    [epoch |-> srv.epoch + 1, grant |-> srv'.grant,
                     live |-> Active(pads) \cap
                              (IF r.kind \in Sessions THEN Active(r.pads) ELSE {r.idx})]]

ServeRemoval(k) ==
  LET r == net[k] IN
  /\ r.kind = "del" /\ srv.up
  /\ srv' = [srv EXCEPT !.pads[r.idx] = None, !.epoch = @ + 1]
  /\ net' = [net EXCEPT ![k] = [r EXCEPT !.reply = "ok"] @@ [epoch |-> srv.epoch + 1]]
  /\ UNCHANGED <<keyed, left>>

ServeView(k) ==
  LET r == net[k] IN
  /\ r.kind = "get" /\ srv.up
  /\ net' = [net EXCEPT ![k] = [r EXCEPT !.reply = "ok"] @@
               [epoch |-> srv.epoch, pads |-> srv.pads, grant |-> srv.grant]]
  /\ UNCHANGED <<srv, keyed, left>>

NoSession(k) ==
  /\ net[k].kind \notin Sessions /\ ~srv.up
  /\ net' = [net EXCEPT ![k].reply = "gone"]
  /\ UNCHANGED <<srv, keyed, left>>

Serve(k) ==
  /\ net[k].reply = "out" /\ Turn(k)
  /\ ServeApply(k) \/ ServeRemoval(k) \/ ServeView(k) \/ NoSession(k)
  /\ UNCHANGED <<link, slots, reg, epoch, granted, looking, seen, ack, silent>>

(* The satellite loses a pad, or resets what one is, by itself.             *)
ForeignChange(i) ==
  /\ srv.up /\ srv.pads[i] # None
  /\ \E d \in (Descs \cup {None}) \ {srv.pads[i]} :
       /\ Spend(IF d = None THEN "dropped" ELSE "foreign")
       /\ srv' = [srv EXCEPT !.pads[i] = d, !.epoch = @ + 1]
  /\ UNCHANGED <<link, slots, reg, epoch, granted, looking, seen, net, ack, keyed, silent>>

(* A request, or the reply to it, is lost.                                  *)
Lose(k) ==
  /\ Spend("lost") /\ net[k].reply \in {"out", "ok"}
  /\ net' = [net EXCEPT ![k].reply = "down"]
  /\ UNCHANGED <<link, slots, reg, epoch, granted, looking, seen, srv, ack, keyed, silent>>

----------------------------------------------------------------------------
Reply(k) ==
  /\ Reorder \/ k = 1
  /\ SessionReply(k) \/ RekeyReply(k) \/ ControllerReply(k) \/ RemovalReply(k) \/ ViewReply(k)

Next ==
  \/ \E i \in Idx : DetachSlot(i) \/ ForeignChange(i) \/ \E d \in Descs : AttachSlot(i, d)
  \/ Connect \/ SendRekey \/ TickReconcile \/ Falter \/ Recover \/ Die \/ HeartbeatAck \/ SendAck
  \/ \E k \in DOMAIN net : Serve(k) \/ Reply(k) \/ Lose(k)

Spec == Init /\ [][Next]_vars

(* The sweep redials, the tick and the acks are periodic, requests are      *)
(* served and answered, and a faltering link whose acks return recovers.    *)
Fairness ==
  /\ WF_vars(Connect) /\ WF_vars(TickReconcile) /\ WF_vars(Recover)
  /\ WF_vars(Deaf /\ Die) /\ WF_vars(SendAck) /\ WF_vars(HeartbeatAck)
  /\ WF_vars(\E k \in DOMAIN net : Serve(k)) /\ WF_vars(\E k \in DOMAIN net : Reply(k))

FairSpec == Spec /\ Fairness

----------------------------------------------------------------------------
(* Every variable keeps its type.                                           *)
TypeOK ==
  /\ link \in {"Idle", "Linking", "Live", "Faltering"}
  /\ slots \in Pads /\ reg \subseteq Active(slots)
  /\ epoch \in -1 .. srv.epoch /\ granted \in BOOLEAN /\ looking \in BOOLEAN
  /\ \A k \in DOMAIN net : net[k].kind \in Sessions \cup {"get", "ctl", "del"}
  /\ srv \in [pads : Pads, epoch : Nat, grant : BOOLEAN, up : BOOLEAN]
  /\ keyed \in BOOLEAN /\ silent \subseteq Idx /\ left \in [Events -> Nat]

(* Nothing is under way and the self-heal loop sees nothing to heal.        *)
Quiet ==
  /\ link = "Live" /\ net = << >> /\ srv.up /\ seen = Current
  /\ ~ReconcileNeeded(epoch, reg)

SyncedAt(i) == srv.pads[i] = slots[i] /\ (i \in reg <=> slots[i] # None)
InSync == \A i \in Idx \ silent : SyncedAt(i)

Orderly == ~Reorder

(* Reconcile.h: drift is noticed and the desired state re-PUT.  So where    *)
(* requests keep their order and none is lost or refused, a connection at   *)
(* rest has each pad as it wants it, with its streams open; save the slots  *)
(* whose last change the code sends to nobody (AttachSlot of a faltering    *)
(* connection, LateAndSilent), until a session PUT carries them.  With the  *)
(* types.                                                                   *)
QuietIsInSync == TypeOK /\ (Orderly /\ Quiet => InSync)

(* matchesAppliedView: the mouse grant is applied state too, so at rest it  *)
(* is what the slots want.                                                  *)
QuietGrantMatches == Quiet => srv.grant = WantsMouse(slots)

(* attachSlot: a slot attached or changed while live is converged by a      *)
(* controller PUT, and otherwise rides the next session PUT.  So at rest no *)
(* attached slot is left unregistered.                                      *)
AttachIsConverged == Quiet => Active(slots) \subseteq reg

(* convergeLateSlots: a slot the user changed during a session PUT's round  *)
(* trip is removed or re-sent on its own route.                             *)
LateChangesAreResent ==
  [][\A k \in DOMAIN net : net[k].kind = "session" /\ net[k].reply = "ok" /\ link' = "Live"
       => \A i \in Idx : net[k].pads[i] # slots[i]
            => \E m \in DOMAIN net' : net'[m].kind \in {"ctl", "del"} /\ net'[m].idx = i]_vars

(* SessionViewControllerDto: reconcile compares the capabilities it was     *)
(* told, so the view it settles for is the desired state, whole.            *)
MatchIsWhole ==
  [][\A k \in DOMAIN net : net[k].kind = "get" /\ net[k].reply = "ok"
                             /\ link = "Live" /\ link' = "Live" /\ looking # looking'
       => net[k].pads = slots]_vars

(* onSlotRegistrationFailed: a slot the satellite could not plug in does    *)
(* not stay bound.                                                          *)
RejectedIsUnbound == Quiet => \A i \in Active(slots) : srv.pads[i] # None

(* Once changes and faults stop, the self-heal loop stops too: the          *)
(* connection stays Live and is not re-PUT for ever; and where requests     *)
(* kept their order and none was lost or refused it ends in sync, save the  *)
(* slots whose last change was sent to nobody.                              *)
Converges == <>[](link = "Live" /\ (Orderly => InSync))

============================================================================
