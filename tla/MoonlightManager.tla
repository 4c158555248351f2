-------------------------- MODULE MoonlightManager --------------------------
(***************************************************************************)
(* MoonlightManager (src/src/source/moonlight/MoonlightManager.cpp) with   *)
(* its sessions, its probes, its app lists and the pairing flow, and the   *)
(* calls AppModel makes on it (bindMoonlightSlot and the three beside it). *)
(* All of it runs on the Qt loop; the control stream's service thread only *)
(* posts to it.                                                            *)
(*                                                                         *)
(* A request is handled by the host and answered to the app in two steps,  *)
(* and requests overtake each other: every call dials its own socket.  A   *)
(* reply is taken only when nothing the service threads posted is waiting: *)
(* a thread is joined before its session can ask again, so what it posted  *)
(* is on the loop before any later reply, and nothing else tells the       *)
(* orders apart.                                                           *)
(*                                                                         *)
(* Left out: the refusal a pairing leaves on its sheet, the app's exit,    *)
(* and the saved bindings that AppModel re-binds on a start.               *)
(***************************************************************************)
EXTENDS MoonlightSession, BagsExt

CONSTANTS
  Hosts,
  Scenes    \* what the user, the hosts and the network may do: the bound

VARIABLES
  left,       \* [Hosts -> [event -> how often it may still happen]]
  orderly,    \* nothing in this scene is lost, dropped, forgotten or distrusted
  store,      \* hostRepo_: "none", "stub" (remembered, no certificate), "paired"
  discovered, \* discovered_
  epoch,      \* epochs_
  probes,     \* probes_, None where there is no record
  appCache,   \* appCache_, likewise
  pairing,    \* pairingFlow_
  bindings,   \* bindings_, with the type typeStore_ holds for the binding
  routes,     \* the router's Moonlight routes
  sessions,   \* sessions_
  dying,      \* hosts whose forgotten session awaits its deferred delete
  net,        \* the bag of requests in flight, and of replies not yet taken
  host        \* the hosts (external)

vars == <<left, orderly, store, discovered, epoch, probes, appCache, pairing, bindings, routes,
          sessions, dying, net, host>>
records == <<store, discovered, epoch, probes, appCache, pairing>>
table == <<bindings, routes>>

NewProbe == [inFlight |-> FALSE, answered |-> FALSE, paired |-> FALSE, replaced |-> FALSE,
             rejected |-> FALSE]
NewCache == [inFlight |-> FALSE, read |-> FALSE, failed |-> FALSE, lacksPick |-> FALSE]
NoPairing == [active |-> FALSE, host |-> None, attempt |-> 0, phase |-> 1]

Init ==
  /\ left \in Scenes
  /\ orderly = \A h \in Hosts : \A e \in {"forget", "drop", "lost", "revokes"} : left[h][e] = 0
  /\ store = [h \in Hosts |-> IF left[h]["paired"] > 0 THEN "paired" ELSE "none"]
  /\ discovered = {h \in Hosts : left[h]["paired"] = 0}
  /\ epoch = [h \in Hosts |-> 0]
  /\ probes = [h \in Hosts |-> None]
  /\ appCache = [h \in Hosts |-> None]
  /\ pairing = NoPairing
  /\ bindings = [s \in Slots |-> None]
  /\ routes = [s \in Slots |-> None]
  /\ sessions = [h \in Hosts |-> None]
  /\ dying = {}
  /\ net = EmptyBag
  /\ host = [h \in Hosts |-> [trusts |-> left[h]["paired"] > 0, app |-> "none", pads |-> NoPads]]

Spend(h, e) == left[h][e] > 0 /\ left' = [left EXCEPT ![h][e] = @ - 1]
Knows(h) == store[h] # "none" \/ h \in discovered
Bound(h) == {s \in Slots : bindings[s] # None /\ bindings[s].host = h}

----------------------------------------------------------------------------
Request(h, kind, n) == [host |-> h, kind |-> kind, epoch |-> epoch[h], n |-> n, re |-> "out"]
World(h) ==
  [se |-> IF sessions[h] = None THEN NewSession ELSE sessions[h], out |-> <<>>,
   host |-> host[h].pads, failed |-> "none", handBack |-> FALSE, works |-> TRUE, then |-> "none"]

(* What the sessions of the hosts in W became, sent, and reported; base is  *)
(* the bag of requests the step starts from.                                *)
Sent(W, base) ==
  net' = base (+) SetToBag(UNION {{Request(h, k, 0) : k \in ToSet(W[h].out)} : h \in DOMAIN W})
Kept(W) ==
  /\ sessions' = [h \in Hosts |-> IF h \in DOMAIN W THEN W[h].se ELSE sessions[h]]
  /\ host' = [h \in Hosts |-> IF h \in DOMAIN W THEN [host[h] EXCEPT !.pads = W[h].host]
                              ELSE host[h]]
NoSession == [h \in {} |-> None]

(* wireSession's handler of failed().                                       *)
Rejected(p, why) ==
  IF why \in {"TrustLost", "NotPaired"}
  THEN [(IF p = None THEN NewProbe ELSE p) EXCEPT !.rejected = TRUE] ELSE p

(* A step of h's own session: w is its world after it.                      *)
Step(h, w, base) ==
  /\ Sent(h :> w, base) /\ Kept(h :> w)
  /\ probes' = [probes EXCEPT ![h] = Rejected(@, w.failed)]
  /\ UNCHANGED <<orderly, store, discovered, epoch, appCache, pairing, dying>>

----------------------------------------------------------------------------
pickRemoved(h) == appCache[h] # None /\ appCache[h].read /\ appCache[h].lacksPick

ensureSessionRunning(h, w) ==
  IF sessionNeedsStart(w.se.machine) /\ ~pickRemoved(h) THEN start(w) ELSE w

(* bindController from ensureSession on.                                    *)
Ride(h, w, s, t) ==
  LET on == IF w.se.pads[s] # None THEN reannounceController(w, s, t) ELSE attachController(w, s, t)
  IN IF on.se.pads[s] = None THEN on ELSE ensureSessionRunning(h, on)

(* unbindController, for a host that has a session.                         *)
Leave(h, w, s) ==
  LET off == detachController(w, s) IN IF Riding(off.se) = {} THEN stop(off, TRUE) ELSE off

Route(h, w, s) == IF w.se.pads[s] = None THEN None
                  ELSE [host |-> h, epoch |-> epoch[h], number |-> w.se.pads[s].number]

(* The ceiling is the host's: the bindings count, riding or not.            *)
Full(s, h) == s \notin Bound(h) /\ Cardinality(Bound(h) \ {s}) >= MaxPads

(* bindMoonlightSlot: a slot on another host leaves that one first; a full  *)
(* host, and a host not paired, gets no session.                            *)
Bind(s, h, t) ==
  LET prior == IF bindings[s] = None \/ bindings[s].host = h THEN None ELSE bindings[s].host
      moved == IF prior = None \/ sessions[prior] = None THEN NoSession
               ELSE prior :> Leave(prior, World(prior), s)
      rides == store[h] = "paired" /\ ~Full(s, h)
      w == Ride(h, World(h), s, t)
      W == IF rides THEN moved @@ (h :> w) ELSE moved
      numbered == rides /\ w.se.pads[s] # None
  IN /\ Spend(h, "bind") /\ Knows(h)
     /\ bindings' = [bindings EXCEPT ![s] = IF Full(s, h) \/ (rides /\ ~numbered) THEN None
                                            ELSE [host |-> h, type |-> t]]
     /\ routes' = [routes EXCEPT ![s] = IF numbered THEN Route(h, w, s) ELSE None]
     /\ store' = [store EXCEPT ![h] = IF @ = "none" /\ ~Full(s, h) THEN "stub" ELSE @]
     /\ Sent(W, net) /\ Kept(W)
     /\ UNCHANGED <<orderly, discovered, epoch, probes, appCache, pairing, dying>>

(* unbindMoonlightSlot.                                                     *)
Unbind(s) ==
  /\ bindings[s] # None
  /\ LET h == bindings[s].host
         W == IF sessions[h] = None THEN NoSession ELSE h :> Leave(h, World(h), s)
     IN Spend(h, "unbind") /\ Sent(W, net) /\ Kept(W)
  /\ bindings' = [bindings EXCEPT ![s] = None]
  /\ routes' = [routes EXCEPT ![s] = None]
  /\ UNCHANGED <<records, orderly, dying>>

(* forgetMoonlightHost: every slot is unbound, the last one stopping the    *)
(* session, and then forget() drops the records and deletes it.             *)
NextEpoch(h) == [epoch EXCEPT ![h] = @ + 1]
Forget(h) ==
  LET LeaveOne(w, s) == Leave(h, w, s)
      away == FoldLeft(LeaveOne, World(h), SetToSeq(Bound(h)))
      w == stop(away, TRUE)
      W == IF sessions[h] = None THEN NoSession ELSE h :> w
  IN /\ Spend(h, "forget") /\ Knows(h)
     /\ Sent(W, net)
     /\ sessions' = [sessions EXCEPT ![h] = None]
     /\ host' = [host EXCEPT ![h].pads = NoPads]
     /\ dying' = IF sessions[h] = None THEN dying ELSE dying \cup {h}
     /\ bindings' = [s \in Slots |-> IF s \in Bound(h) THEN None ELSE bindings[s]]
     /\ routes' = [s \in Slots |-> IF s \in Bound(h) THEN None ELSE routes[s]]
     /\ epoch' = NextEpoch(h)
     /\ pairing' = IF pairing.active /\ pairing.host = h
                   THEN [NoPairing EXCEPT !.attempt = pairing.attempt + 1] ELSE pairing
     /\ store' = [store EXCEPT ![h] = "none"]
     /\ discovered' = discovered \ {h}
     /\ probes' = [probes EXCEPT ![h] = None]
     /\ appCache' = [appCache EXCEPT ![h] = None]
     /\ UNCHANGED orderly
DeferredDelete(h) ==
  /\ h \in dying /\ dying' = dying \ {h}
  /\ UNCHANGED <<records, table, left, orderly, sessions, net, host>>

----------------------------------------------------------------------------
(* probe: one at a time, with the certificate on file when it is asked (n). *)
Asks(h) == ~(probes[h] # None /\ probes[h].inFlight)
Probed(h) ==
  [probes EXCEPT ![h] = [(IF @ = None THEN NewProbe ELSE @) EXCEPT !.inFlight = TRUE]]
ProbeRequest(h, stored) ==
  IF Asks(h) THEN SetToBag({Request(h, "probe", IF stored = "paired" THEN 1 ELSE 0)}) ELSE EmptyBag

Probe(h) ==
  /\ Spend(h, "probe") /\ Knows(h)
  /\ probes' = Probed(h) /\ net' = net (+) ProbeRequest(h, store[h])
  /\ UNCHANGED <<orderly, store, discovered, epoch, appCache, pairing, table, sessions, dying, host>>

(* The stored certificate survives the stub that is merged over it.         *)
AddManualHost(h) ==
  /\ Spend(h, "add")
  /\ discovered' = discovered \cup {h}
  /\ store' = [store EXCEPT ![h] = IF @ = "none" THEN "stub" ELSE @]
  /\ probes' = Probed(h) /\ net' = net (+) ProbeRequest(h, store'[h])
  /\ UNCHANGED <<orderly, epoch, appCache, pairing, table, sessions, dying, host>>

(* onDiscovered: a sweep only adds.                                         *)
Discovered(h) ==
  /\ Spend(h, "found")
  /\ discovered' = discovered \cup {h}
  /\ UNCHANGED <<orderly, store, epoch, probes, appCache, pairing, table, sessions, dying, net, host>>

(* refreshApps, of a host on the page, which lists those it knows.          *)
RefreshApps(h) ==
  LET cache == IF appCache[h] = None THEN NewCache ELSE appCache[h] IN
  /\ Spend(h, "apps") /\ Knows(h)
  /\ \/ /\ store[h] # "paired"
        /\ appCache' = [appCache EXCEPT ![h] = [cache EXCEPT !.inFlight = FALSE, !.read = FALSE,
                                                            !.failed = TRUE]]
        /\ UNCHANGED net
     \/ /\ store[h] = "paired" /\ ~cache.inFlight
        /\ appCache' = [appCache EXCEPT ![h] = [cache EXCEPT !.inFlight = TRUE, !.failed = FALSE]]
        /\ net' = net (+) SetToBag({Request(h, "applist", 0)})
     \/ store[h] = "paired" /\ cache.inFlight /\ UNCHANGED <<appCache, net>>
  /\ UNCHANGED <<orderly, store, discovered, epoch, probes, pairing, table, sessions, dying, host>>

(* setLastApp, from the list the host gave.                                 *)
SetLastApp(h) ==
  /\ pickRemoved(h) /\ store[h] # "none"
  /\ appCache' = [appCache EXCEPT ![h].lacksPick = FALSE]
  /\ UNCHANGED <<left, orderly, store, discovered, epoch, probes, pairing, table, sessions, dying,
                 net, host>>

(* quitHostApp: our own attempt is stopped, a host at rest is asked.        *)
QuitHostApp(h) ==
  /\ Spend(h, "quit") /\ store[h] = "paired"
  /\ IF sessions[h] # None /\ ~sessionNeedsStart(sessions[h].machine)
     THEN LET w == stop(World(h), TRUE) IN
          /\ Sent(h :> w, net (+) ProbeRequest(h, store[h])) /\ Kept(h :> w)
          /\ probes' = Probed(h)
     ELSE /\ net' = net (+) SetToBag({Request(h, "quit", 0)})
          /\ UNCHANGED <<probes, sessions, host>>
  /\ UNCHANGED <<orderly, store, discovered, epoch, appCache, pairing, table, dying>>

----------------------------------------------------------------------------
(* pair, cancelPairing: every attempt has a number, and its replies carry   *)
(* it.                                                                      *)
PairRequest(h, attempt) == SetToBag({Request(h, "pair", attempt)})
Pair(h) ==
  /\ Spend(h, "pair") /\ Knows(h)
  /\ pairing' = [active |-> TRUE, host |-> h, attempt |-> pairing.attempt + 1, phase |-> 1]
  /\ net' = net (+) PairRequest(h, pairing.attempt + 1)
  /\ UNCHANGED <<orderly, store, discovered, epoch, probes, appCache, table, sessions, dying, host>>

CancelPairing ==
  /\ pairing.active /\ Spend(pairing.host, "cancelPair")
  /\ pairing' = [NoPairing EXCEPT !.attempt = pairing.attempt + 1]
  /\ UNCHANGED <<orderly, store, discovered, epoch, probes, appCache, table, sessions, dying, net,
                 host>>

(* finished(true): the record becomes a paired one, its verdict is written, *)
(* and AppModel binds the slots that waited, in the order of their ids: any *)
(* order, the slots being interchangeable.                                  *)
Verified(h) ==
  [probes EXCEPT ![h] = [NewProbe EXCEPT !.answered = TRUE, !.paired = TRUE]]
PairingDone(h, base) ==
  \E order \in SetToSeqs(Bound(h)) :
    LET RideOne(w, s) == Ride(h, w, s, bindings[s].type)
        w == FoldLeft(RideOne, World(h), order)
        W == IF order = <<>> THEN NoSession ELSE h :> w
    IN /\ store' = [store EXCEPT ![h] = "paired"]
       /\ probes' = Verified(h)
       /\ pairing' = [pairing EXCEPT !.active = FALSE, !.host = None, !.phase = 1]
       /\ routes' = [s \in Slots |-> IF s \in Bound(h) THEN Route(h, w, s) ELSE routes[s]]
       /\ Sent(W, base) /\ Kept(W)
       /\ UNCHANGED <<left, orderly, discovered, epoch, appCache, bindings, dying>>

(* One phase's reply: dropped, failed, followed by the next, or the end.    *)
PairPhases == 5
IsCurrent(q) == pairing.active /\ pairing.attempt = q.n
TakePairReply(q, base) ==
  \/ /\ ~IsCurrent(q) /\ net' = base
     /\ UNCHANGED <<records, table, left, orderly, sessions, dying, host>>
  \/ /\ IsCurrent(q) /\ q.re # "ok" /\ net' = base
     /\ pairing' = [pairing EXCEPT !.active = FALSE, !.host = None, !.phase = 1]
     /\ UNCHANGED <<left, orderly, store, discovered, epoch, probes, appCache, table, sessions, dying,
                    host>>
  \/ /\ IsCurrent(q) /\ q.re = "ok" /\ pairing.phase < PairPhases
     /\ pairing' = [pairing EXCEPT !.phase = @ + 1]
     /\ net' = base (+) PairRequest(q.host, q.n)
     /\ UNCHANGED <<left, orderly, store, discovered, epoch, probes, appCache, table, sessions, dying,
                    host>>
  \/ IsCurrent(q) /\ q.re = "ok" /\ pairing.phase = PairPhases /\ PairingDone(q.host, base)

----------------------------------------------------------------------------
(* onPlainServerInfo and onTlsServerInfo: a reply from before a forget is   *)
(* dropped; the TLS question is only for a remembered host still itself.    *)
TakesAny(q) == TRUE     \* mutant: the epoch is not compared
Takes(q) == epoch[q.host] = q.epoch
TakeProbeReply(q, base) ==
  LET h == q.host
      old == IF probes[h] = None THEN NewProbe ELSE probes[h]
      ended == [old EXCEPT !.inFlight = FALSE]
  IN /\ \/ ~Takes(q) /\ net' = base /\ UNCHANGED probes
        \/ /\ Takes(q) /\ q.re = "down" /\ net' = base
           /\ probes' = [probes EXCEPT ![h] = [ended EXCEPT !.answered = FALSE]]
        \/ /\ Takes(q) /\ q.re # "down" /\ (q.n = 0 \/ q.re = "replaced") /\ net' = base
           /\ probes' = [probes EXCEPT ![h] = [ended EXCEPT !.answered = TRUE, !.paired = FALSE,
                                                           !.replaced = q.re = "replaced"]]
        \/ /\ Takes(q) /\ q.re = "ok" /\ q.n = 1
           /\ net' = base (+) SetToBag({Request(h, "probeTls", 1)})
           /\ probes' = [probes EXCEPT ![h] = [old EXCEPT !.replaced = FALSE]]
     /\ UNCHANGED <<left, orderly, store, discovered, epoch, appCache, pairing, table, sessions, dying,
                    host>>
TakeProbeTlsReply(q, base) ==
  LET old == IF probes[q.host] = None THEN NewProbe ELSE probes[q.host]
      paired == q.re \in {"paired", "game"}
  IN /\ net' = base
     /\ probes' = IF ~Takes(q) THEN probes
                  ELSE [probes EXCEPT ![q.host] = [old EXCEPT !.inFlight = FALSE, !.answered = TRUE,
                                                             !.paired = paired, !.rejected = ~paired]]
     /\ UNCHANGED <<left, orderly, store, discovered, epoch, appCache, pairing, table, sessions, dying,
                    host>>

(* onAppListReply: a list that can be read is proof of trust, a 401 of the  *)
(* contrary.                                                                *)
TakeAppsReply(q, base) ==
  LET h == q.host
      cache == [(IF appCache[h] = None THEN NewCache ELSE appCache[h]) EXCEPT !.inFlight = FALSE]
      probe == IF probes[h] = None THEN NewProbe ELSE probes[h]
  IN /\ net' = base
     /\ \/ ~Takes(q) /\ UNCHANGED <<appCache, probes>>
        \/ /\ Takes(q) /\ q.re \in {"down", "denied"}
           /\ appCache' = [appCache EXCEPT ![h] = [cache EXCEPT !.failed = TRUE]]
           /\ probes' = IF q.re = "denied" THEN [probes EXCEPT ![h] = [probe EXCEPT !.rejected = TRUE]]
                        ELSE probes
        \/ /\ Takes(q) /\ q.re \in {"listed", "unlisted"}
           /\ appCache' = [appCache EXCEPT ![h] = [cache EXCEPT !.read = TRUE, !.failed = FALSE,
                                                               !.lacksPick = q.re = "unlisted"]]
           /\ probes' = [probes EXCEPT ![h] = [probe EXCEPT !.answered = TRUE, !.paired = TRUE,
                                                           !.rejected = FALSE]]
     /\ UNCHANGED <<left, orderly, store, discovered, epoch, pairing, table, sessions, dying, host>>

(* quitHostApp's /cancel: the reply asks for another probe.                 *)
TakeQuitReply(q, base) ==
  /\ IF Knows(q.host)
     THEN probes' = Probed(q.host) /\ net' = base (+) ProbeRequest(q.host, store[q.host])
     ELSE net' = base /\ UNCHANGED probes
  /\ UNCHANGED <<left, orderly, store, discovered, epoch, appCache, pairing, table, sessions, dying,
                 host>>

(* A session's own replies, guarded by a pointer to it: a forgotten session *)
(* is at rest, and takes replies until its deferred delete.                 *)
Handler(w, q) ==
  CASE q.kind = "info" -> onServerInfoReply(w, q.re)
    [] q.kind = "trust" -> onTrustReply(w, q.re)
    [] q.kind \in {"launch", "resume"} -> onLaunchReply(w, q.re)
    [] q.kind = "cancel" -> w
TakeSessionReply(q, base) ==
  LET h == q.host
      live == sessions[h] # None /\ q.epoch = epoch[h]
      last == h \in dying /\ q.epoch = epoch[h] - 1
      out == Handler([World(h) EXCEPT !.se = NewSession], q).out
  IN \/ /\ live /\ UNCHANGED <<left, table>> /\ Step(h, Handler(World(h), q), base)
     \/ /\ live /\ q.kind # "info" /\ Spend(h, "fails") /\ UNCHANGED table
        /\ Step(h, Handler([World(h) EXCEPT !.works = FALSE], q), base)
     \/ /\ ~live
        /\ net' = IF last THEN base (+) SetToBag({[q EXCEPT !.kind = k, !.re = "out"] : k \in ToSet(out)})
                  ELSE base
        /\ UNCHANGED <<records, table, left, orderly, sessions, dying, host>>

(* A reply is taken.                                                        *)
Reply(q) ==
  /\ q \in DOMAIN net /\ q.re # "out"
  /\ \A h \in Hosts : sessions[h] # None => sessions[h].posted = <<>>
  /\ LET base == net (-) SetToBag({q}) IN
     CASE q.kind = "pair" -> TakePairReply(q, base)
       [] q.kind = "probe" -> TakeProbeReply(q, base)
       [] q.kind = "probeTls" -> TakeProbeTlsReply(q, base)
       [] q.kind = "applist" -> TakeAppsReply(q, base)
       [] q.kind = "quit" -> TakeQuitReply(q, base)
       [] q.kind \in {"info", "trust", "launch", "resume", "cancel"} -> TakeSessionReply(q, base)

----------------------------------------------------------------------------
(* MoonlightRtspClient: the queued connected() of open(), and the end of a  *)
(* request, which a timeout bounds.                                         *)
RtspReady(h) ==
  /\ sessions[h] # None /\ sessions[h].rtsp = "ready"
  /\ Step(h, dispatch([World(h) EXCEPT !.se.rtsp = "open"], Event("RtspReady")), net)
  /\ UNCHANGED <<left, table>>
RtspReply(h) ==
  /\ sessions[h] # None /\ sessions[h].rtsp = "pending"
  /\ \/ UNCHANGED left /\ Step(h, onRtspReply(World(h), TRUE), net)
     \/ Spend(h, "fails") /\ Step(h, onRtspReply(World(h), FALSE), net)
     \/ /\ Spend(h, "fails") /\ sessions[h].machine.step = Len(RtspSteps)
        /\ Step(h, onRtspReply([World(h) EXCEPT !.works = FALSE], TRUE), net)
  /\ UNCHANGED table

(* The control stream's service thread (serviceOnce, serviceLoop): the flag *)
(* changes at once, what it means is posted.  The host has no pads yet.     *)
Service(h, control, event) ==
  /\ sessions' = [sessions EXCEPT ![h].control = control, ![h].posted = Append(@, event)]
  /\ UNCHANGED <<records, table, orderly, dying, net>>
ControlUp(h) ==
  /\ sessions[h] # None /\ sessions[h].control = "connecting"
  /\ Service(h, "connected", "ControlConnected") /\ UNCHANGED <<left, host>>
ControlDown(h) ==
  /\ sessions[h] # None
  /\ \/ sessions[h].control = "connecting" /\ Spend(h, "fails")
     \/ sessions[h].control = "connected" /\ Spend(h, "drop")
  /\ Service(h, "ended", "ControlLost") /\ host' = [host EXCEPT ![h].pads = NoPads]
HostTerminates(h) ==
  /\ sessions[h] # None /\ sessions[h].control = "connected" /\ host[h].app = "none"
  /\ \A i \in 1 .. Len(sessions[h].posted) : sessions[h].posted[i] # "HostTerminated"
  /\ Service(h, "connected", "HostTerminated") /\ UNCHANGED <<left, host>>
Posted(h) ==
  /\ sessions[h] # None /\ sessions[h].posted # <<>>
  /\ Step(h, dispatch([World(h) EXCEPT !.se.posted = Tail(@)], Event(Head(sessions[h].posted))), net)
  /\ UNCHANGED <<left, table>>

----------------------------------------------------------------------------
(* The hosts and the network (external).  "ours" is an app a /launch or a   *)
(* /resume of this app's made the host run.                                 *)
Outcome(re, app, trusts) == [re |-> re, app |-> app, trusts |-> trusts]
Outcomes(q) ==
  LET app == host[q.host].app
      trusts == host[q.host].trusts
      Says(re) == {Outcome(re, app, trusts)}
  IN CASE q.kind \in {"info", "probe"} -> Says("ok")
       [] q.kind = "pair" -> {Outcome("ok", app, trusts \/ pairing.phase >= 4)}
       [] q.kind = "applist" -> IF trusts THEN Says("listed") \cup Says("unlisted") ELSE Says("denied")
       [] q.kind \in {"trust", "probeTls"} ->
            Says(IF ~trusts THEN "refused" ELSE IF app = "none" THEN "paired" ELSE "game")
       [] q.kind = "launch" ->
            IF ~trusts THEN Says("refused")
            ELSE IF app = "none" THEN {Outcome("ok", "ours", trusts)}
            ELSE Says("busy") \cup Says("busyResume")
       [] q.kind = "resume" ->
            IF ~trusts \/ app = "none" THEN Says("refused") ELSE {Outcome("ok", "ours", trusts)}
       [] q.kind \in {"cancel", "quit"} -> {Outcome("done", IF trusts THEN "none" ELSE app, trusts)}

Handled(q, o) ==
  /\ net' = (net (-) SetToBag({q})) (+) SetToBag({[q EXCEPT !.re = o.re]})
  /\ host' = [host EXCEPT ![q.host].app = o.app, ![q.host].trusts = o.trusts]
  /\ UNCHANGED <<records, table, orderly, sessions, dying>>
HostHandles(q) ==
  /\ q \in DOMAIN net /\ q.re = "out"
  /\ \E o \in Outcomes(q) : Handled(q, o)
  /\ UNCHANGED left
(* Lost on the way there, or on the way back.                               *)
Lost(q) ==
  /\ q \in DOMAIN net /\ q.re = "out" /\ Spend(q.host, "lost")
  /\ \E o \in Outcomes(q) \cup {Outcome("down", host[q.host].app, host[q.host].trusts)} :
       Handled(q, [o EXCEPT !.re = "down"])
(* The operator says no, or another machine has the address.                *)
Refuses(q) ==
  /\ q \in DOMAIN net /\ q.re = "out" /\ q.kind \in {"pair", "info", "probe"}
  /\ Spend(q.host, "refuses")
  /\ Handled(q, Outcome(IF q.kind = "pair" THEN "declined" ELSE "replaced",
                        host[q.host].app, host[q.host].trusts))

HostChanges(h, app, trusts) ==
  /\ host' = [host EXCEPT ![h].app = app, ![h].trusts = trusts]
  /\ UNCHANGED <<records, table, orderly, sessions, dying, net>>
OtherApp(h) == host[h].app = "none" /\ Spend(h, "other") /\ HostChanges(h, "other", host[h].trusts)
AppEnds(h) == host[h].app # "none" /\ Spend(h, "ends") /\ HostChanges(h, "none", host[h].trusts)
Revokes(h) == host[h].trusts /\ Spend(h, "revokes") /\ HostChanges(h, host[h].app, FALSE)

----------------------------------------------------------------------------
User ==
  \/ \E s \in Slots, h \in Hosts, t \in Types : Bind(s, h, t)
  \/ \E s \in Slots : Unbind(s)
  \/ \E h \in Hosts : \/ Forget(h) \/ Probe(h) \/ AddManualHost(h) \/ RefreshApps(h)
                       \/ SetLastApp(h) \/ QuitHostApp(h) \/ Pair(h)
  \/ CancelPairing
Loop ==
  \/ \E q \in DOMAIN net : Reply(q)
  \/ \E h \in Hosts : \/ RtspReady(h) \/ RtspReply(h) \/ Posted(h) \/ DeferredDelete(h)
                       \/ Discovered(h)
Outside ==
  \/ \E q \in DOMAIN net : HostHandles(q) \/ Lost(q) \/ Refuses(q)
  \/ \E h \in Hosts : \/ ControlUp(h) \/ ControlDown(h) \/ HostTerminates(h)
                       \/ OtherApp(h) \/ AppEnds(h) \/ Revokes(h)
Next == User \/ Loop \/ Outside
Spec == Init /\ [][Next]_vars

----------------------------------------------------------------------------
Kinds == {"info", "trust", "launch", "resume", "cancel", "probe", "probeTls", "applist", "quit",
          "pair"}
Requests == [host : Hosts, kind : Kinds, epoch : Nat, n : Nat,
             re : {"out", "ok", "down", "replaced", "paired", "game", "refused", "busy", "busyResume",
                   "listed", "unlisted", "denied", "declined", "done"}]
Probes == [inFlight : BOOLEAN, answered : BOOLEAN, paired : BOOLEAN, replaced : BOOLEAN,
           rejected : BOOLEAN]
Caches == [inFlight : BOOLEAN, read : BOOLEAN, failed : BOOLEAN, lacksPick : BOOLEAN]

(* Every variable has its type: the sessions that of the machine and the    *)
(* pads, whose numbers stay below kMaxPads.                                 *)
TypeOK ==
  /\ store \in [Hosts -> {"none", "stub", "paired"}] /\ discovered \subseteq Hosts
  /\ epoch \in [Hosts -> Nat] /\ dying \subseteq Hosts
  /\ probes \in [Hosts -> Probes \cup {None}] /\ appCache \in [Hosts -> Caches \cup {None}]
  /\ pairing \in [active : BOOLEAN, host : Hosts \cup {None}, attempt : Nat, phase : 1 .. PairPhases]
  /\ bindings \in [Slots -> [host : Hosts, type : Types] \cup {None}]
  /\ routes \in [Slots -> [host : Hosts, epoch : Nat, number : Numbers] \cup {None}]
  /\ \A h \in Hosts : sessions[h] = None \/ IsSession(sessions[h])
  /\ IsABag(net) /\ BagToSet(net) \subseteq Requests
  /\ host \in [Hosts -> [trusts : BOOLEAN, app : {"none", "ours", "other"},
                         pads : [Numbers -> Types \cup {None}]]]

Asked(h) == {q.kind : q \in {r \in DOMAIN net : r.host = h /\ r.epoch = epoch[h]}}

(* An attempt never hangs: between its start and Streaming or Failed there  *)
(* is always an answer on its way, whatever replies, control events and     *)
(* effects of earlier attempts the phase has been shown in between          *)
(* (MoonlightSessionMachine.h:354).                                         *)
LinkingIsAnswered ==
  \A h \in Hosts : sessions[h] # None => Answered(sessions[h], Asked(h))

(* While the stream is up the host has exactly the pads the session counts, *)
(* each of the type its binding asked for last: pads that came before the   *)
(* link, with it, and after it, re-declared ones and ones that left         *)
(* (attachController, reannounceController, detachController).              *)
HostMirrorsPads ==
  \A h \in Hosts : sessions[h] # None =>
    LET se == sessions[h] IN
    se.machine.phase = "Streaming" /\ se.control = "connected" =>
      \A n \in Numbers :
        host[h].pads[n] = (IF n \in activeMask(se)
                           THEN (CHOOSE d \in Declarations \ {None} :
                                   d.number = n /\ \E s \in Slots : se.pads[s] = d).type
                           ELSE None)

(* A binding to a paired host rides: every slot bound to it, and no other,  *)
(* has a pad in its session, with a number of its own, and the router sends *)
(* that slot to that pad of that session; so the "no number" branch of      *)
(* bindController is never taken, and no route outlives its session.  With  *)
(* the types.                                                               *)
BindingsRide ==
  /\ TypeOK
  /\ \A h \in Hosts :
       /\ store[h] = "paired" /\ Bound(h) # {} => sessions[h] # None
       /\ sessions[h] # None => /\ Riding(sessions[h]) = Bound(h)
                                /\ Cardinality(activeMask(sessions[h])) = Cardinality(Bound(h))
  /\ \A s \in Slots :
       routes[s] = IF bindings[s] = None \/ sessions[bindings[s].host] = None THEN None
                   ELSE Route(bindings[s].host, World(bindings[s].host), s)

(* A host forgotten is forgotten: only a host the app knows has a verdict   *)
(* or an app list, and a "checking" mark on either has its request out, so  *)
(* that no row checks for ever (the epochs of forget()).                    *)
RecordsAreBacked ==
  \A h \in Hosts :
    /\ probes[h] # None \/ appCache[h] # None => Knows(h)
    /\ probes[h] # None /\ probes[h].inFlight => Asked(h) \cap {"probe", "probeTls"} # {}
    /\ appCache[h] # None /\ appCache[h].inFlight => "applist" \in Asked(h)

(* Nothing is left running for nobody: once no pad rides and no request of  *)
(* the session is out, the host does not run an app this app made it run.   *)
(* Where no reply was lost, no live link dropped, and no host was forgotten *)
(* or stopped trusting this client, so that it refuses /cancel: those       *)
(* strand one (MoonlightSession.h:81).                                      *)
NothingStranded ==
  \A h \in Hosts :
    /\ orderly /\ (sessions[h] = None \/ Riding(sessions[h]) = {})
    /\ Asked(h) \cap {"info", "trust", "launch", "resume", "cancel"} = {}
    => host[h].app # "ours"
=============================================================================
