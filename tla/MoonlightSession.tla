-------------------------- MODULE MoonlightSession --------------------------
(***************************************************************************)
(* One MoonlightSession (src/src/source/moonlight/MoonlightSession.cpp):   *)
(* it runs the machine's effects, counts the pads that ride it (PadSlots,  *)
(* core/moonlight/MoonlightPadSlots.h) and owns an RTSP client and a       *)
(* control stream.  Operators on a world w: the session, the requests it   *)
(* sends, the host's pads and the failure it reports.  Who calls them, and *)
(* when the answers come, is in MoonlightManager.                          *)
(*                                                                         *)
(* Left out: motion, touch, battery and rumble, the RTP pings, and what    *)
(* the RTSP replies carry.                                                 *)
(***************************************************************************)
EXTENDS MoonlightSessionMachine, FiniteSets, SequencesExt

CONSTANTS
  Slots,    \* the app's pads
  Types,    \* what a binding can ask the host to build
  MaxPads,  \* kMaxPads
  None

ASSUME MaxPadsAssumption == MaxPads \in Nat \ {0}

Numbers == 0 .. MaxPads - 1
NoPads == [n \in Numbers |-> None]

(* rtsp: "ready" has the queued connected() notice out, "pending" a request.*)
(* control: the service thread's state, connected_ being "connected".       *)
(* posted: what the service thread has queued on the Qt loop.               *)
NewSession ==
  [machine |-> Fresh, launched |-> FALSE, wentLive |-> FALSE, pads |-> [s \in Slots |-> None],
   rtsp |-> "closed", control |-> "off", posted |-> <<>>]
Declarations == [number : Numbers, type : Types] \cup {None}
ControlEvents == {"ControlConnected", "ControlLost", "HostTerminated"}
IsSession(se) ==
  /\ se.machine \in MachineStates /\ se.launched \in BOOLEAN /\ se.wentLive \in BOOLEAN
  /\ se.pads \in [Slots -> Declarations]
  /\ se.rtsp \in {"closed", "ready", "open", "pending"}
  /\ se.control \in {"off", "connecting", "connected", "ended"}
  /\ se.posted \in Seq(ControlEvents)

Riding(se) == {s \in Slots : se.pads[s] # None}
activeMask(se) == {se.pads[s].number : s \in Riding(se)}

----------------------------------------------------------------------------
(* The host's side of the control stream (external): a second arrival for a *)
(* number it holds is skipped, a state with the bit gone unplugs.           *)
Arrival(w, pad) ==
  IF w.se.control = "connected" /\ w.host[pad.number] = None
  THEN [w EXCEPT !.host[pad.number] = pad.type] ELSE w
Multi(w, number, mask) ==
  IF w.se.control = "connected" /\ number \notin mask THEN [w EXCEPT !.host[number] = None] ELSE w

announcePad(w, s) == Multi(Arrival(w, w.se.pads[s]), w.se.pads[s].number, activeMask(w.se))
replugPad(w, pad) ==
  Multi(Arrival(Multi(w, pad.number, activeMask(w.se) \ {pad.number}), pad),
        pad.number, activeMask(w.se))

assignCounts(se) ==     \* mutant: the next number is how many pads ride
  IF Cardinality(Riding(se)) < MaxPads THEN Cardinality(Riding(se)) ELSE None
assign(se) ==
  IF Numbers \subseteq activeMask(se) THEN None
  ELSE CHOOSE n \in Numbers \ activeMask(se) : \A k \in Numbers \ activeMask(se) : n <= k

attachController(w, s, t) ==
  LET n == assign(w.se)
  IN IF n = None THEN w
     ELSE announcePad([w EXCEPT !.se.pads[s] = [number |-> n, type |-> t]], s)

detachController(w, s) ==
  IF w.se.pads[s] = None THEN w
  ELSE LET left == [w EXCEPT !.se.pads[s] = None]
       IN Multi(left, w.se.pads[s].number, activeMask(left.se))

(* A pad of the type the host already built is left alone.                  *)
reannounceSilently(w, s, t) == [w EXCEPT !.se.pads[s].type = t]     \* mutant: no replug
reannounceController(w, s, t) ==
  IF w.se.pads[s].type = t THEN w
  ELSE LET told == [w EXCEPT !.se.pads[s].type = t] IN replugPad(told, told.se.pads[s])

----------------------------------------------------------------------------
Send(w, kind) == [w EXCEPT !.out = Append(@, kind)]
ControlOff(w) == [w EXCEPT !.se.control = "off", !.host = NoPads]

(* teardown: rtsp_->close() fails a request still pending, which dispatches *)
(* RtspFailed from inside; the machine is at rest by then.                  *)
teardown(w) ==
  LET owed == shouldHandBackApp(w.se.launched, w.se.wentLive, w.handBack)
      told == IF owed THEN Send(w, "cancel") ELSE w
      m == w.se.machine
  IN [ControlOff(told) EXCEPT
        !.se.launched = FALSE, !.se.wentLive = FALSE, !.se.rtsp = "closed",
        !.se.machine = IF w.se.rtsp = "pending" THEN reduce(m, Event("RtspFailed")).next ELSE m]

startStreaming(w) ==
  LET live == [w EXCEPT !.se.wentLive = TRUE]
      Say(acc, s) == announcePad(acc, s)
  IN FoldLeft(Say, live, SetToSeq(Riding(w.se)))

(* sendLaunch and connectControl can fail on the spot (no entropy, no port, *)
(* no socket), and then dispatch a second event: "then".                    *)
sendLaunch(w) ==
  IF w.works THEN Send(w, IF w.se.machine.resuming THEN "resume" ELSE "launch")
  ELSE [w EXCEPT !.then = "LaunchFailed"]
connectControl(w) ==
  IF w.works THEN [w EXCEPT !.se.control = "connecting"] ELSE [w EXCEPT !.then = "ControlLost"]

runEffect(w, effect) ==
  CASE effect = "FetchServerInfo" -> Send(w, "info")
    [] effect = "SendLaunch" -> sendLaunch(w)
    [] effect = "OpenRtsp" -> [w EXCEPT !.se.rtsp = "ready"]
    [] effect = "SendRtsp" -> [w EXCEPT !.se.rtsp = "pending"]
    [] effect = "ConnectControl" -> connectControl(w)
    [] effect = "StartStreaming" -> startStreaming(w)
    [] effect = "SendTermination" -> ControlOff(w)
    [] effect = "Teardown" -> teardown(w)
    [] effect = "NotifyFailure" -> [w EXCEPT !.failed = w.se.machine.failure]

run(w, e) ==
  LET r == reduce(w.se.machine, e)
  IN FoldLeft(runEffect, [w EXCEPT !.se.machine = r.next], r.effects)
dispatch(w, e) ==
  LET once == run(w, e)
  IN IF once.then = "none" THEN once ELSE run([once EXCEPT !.then = "none"], Event(once.then))

start(w) ==
  dispatch([w EXCEPT !.se.launched = FALSE, !.se.wentLive = FALSE], Event("StartRequested"))
stop(w, handBack) ==
  [dispatch([w EXCEPT !.handBack = handBack], Event("StopRequested")) EXCEPT !.handBack = FALSE]

----------------------------------------------------------------------------
(* The HTTP replies; a re of "down" is status 0.                            *)
onServerInfoReply(w, re) ==
  CASE re = "down" -> dispatch(w, Event("ServerInfoFailed"))
    [] re = "replaced" -> dispatch(w, ServerInfo(FALSE, TRUE, TRUE, FALSE))
    [] re = "ok" -> Send(w, "trust")

onTrustReply(w, re) ==
  dispatch(w, ServerInfo(re \in {"paired", "game"}, TRUE, FALSE, re = "game"))

onLaunchAcceptedAlways(w) ==     \* mutant: the phase is not looked at
  dispatch([w EXCEPT !.se.launched = TRUE], Event("LaunchOk"))
onLaunchAccepted(w) ==
  IF w.se.machine.phase # "Launching" THEN Send(w, "cancel")
  ELSE dispatch([w EXCEPT !.se.launched = TRUE], Event("LaunchOk"))

onLaunchReply(w, re) ==
  CASE re = "ok" -> onLaunchAccepted(w)
    [] re \in {"busy", "busyResume"} -> dispatch(w, Busy(re = "busyResume"))
    [] re \in {"refused", "down"} -> dispatch(w, Event("LaunchFailed"))

onRtspReply(w, ok) ==
  dispatch([w EXCEPT !.se.rtsp = "open"], Event(IF ok THEN "RtspStepOk" ELSE "RtspFailed"))

(* What an attempt waits for: no phase between Idle and Streaming is        *)
(* without an answer on its way, the session's requests being the set reqs. *)
Answered(se, reqs) ==
  LET phase == se.machine.phase IN
  /\ phase = "CheckingInfo" => reqs \cap {"info", "trust"} # {}
  /\ phase = "Launching" => reqs \cap {"launch", "resume"} # {}
  /\ phase = "Rtsp" => se.rtsp \in {"ready", "pending"}
  /\ phase = "ControlConnecting" => se.control = "connecting" \/ se.posted # <<>>
=============================================================================
