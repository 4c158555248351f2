---------------------- MODULE MoonlightSessionMachine ----------------------
(***************************************************************************)
(* The lifecycle of one streaming session with a Moonlight host, as the    *)
(* pure reducer of src/src/core/moonlight/MoonlightSessionMachine.h: a     *)
(* state and an event give the next state and the effects to run.  There   *)
(* is no attempt number in it: an event of an earlier attempt is told from *)
(* one of this attempt by the phase alone.                                 *)
(***************************************************************************)
EXTENDS Integers, Sequences

Phases == {"Idle", "CheckingInfo", "Launching", "Rtsp", "ControlConnecting", "Streaming", "Failed"}
RtspSteps == <<"Options", "Describe", "SetupAudio", "SetupVideo", "SetupControl", "Announce", "Play">>
Failures == {"none", "HostReplaced", "TrustLost", "NotPaired", "Unreachable", "AppAlreadyRunning",
             "ResumeFailed", "LaunchRejected", "RtspRejected", "ControlLost", "Dropped", "HostEnded"}

Fresh == [phase |-> "Idle", step |-> 1, resuming |-> FALSE, failure |-> "none"]
MachineStates ==
  [phase : Phases, step : 1 .. Len(RtspSteps), resuming : BOOLEAN, failure : Failures]

(* The plain events are their names; these two carry an answer.             *)
Event(name) == [is |-> name]
ServerInfo(paired, remembered, replaced, game) ==
  [is |-> "ServerInfoOk", paired |-> paired, remembered |-> remembered,
   identityChanged |-> replaced, currentGame |-> game]
Busy(resumable) == [is |-> "LaunchBusy", resumable |-> resumable]

sessionNeedsStart(m) == m.phase \in {"Idle", "Failed"}

shouldHandBackApp(launched, wentLive, last) == launched /\ (~wentLive \/ last)

Reduction(m, effects) == [next |-> m, effects |-> effects]
Ignored(m) == Reduction(m, <<>>)

fail(m, why) ==
  Reduction([m EXCEPT !.phase = "Failed", !.failure = why], <<"Teardown", "NotifyFailure">>)

onStop(m) ==
  Reduction(Fresh, (IF m.phase \in {"Streaming", "ControlConnecting"} THEN <<"SendTermination">>
                    ELSE <<>>)
                   \o (IF m.phase = "Idle" THEN <<>> ELSE <<"Teardown">>))

fromIdle(m, e) ==
  IF e.is = "StartRequested"
  THEN Reduction([Fresh EXCEPT !.phase = "CheckingInfo"], <<"FetchServerInfo">>)
  ELSE Ignored(m)

fromCheckingInfo(m, e) ==
  CASE e.is = "ServerInfoOk" /\ e.identityChanged -> fail(m, "HostReplaced")
    [] e.is = "ServerInfoOk" /\ ~e.identityChanged /\ ~e.paired ->
         fail(m, IF e.remembered THEN "TrustLost" ELSE "NotPaired")
    [] e.is = "ServerInfoOk" /\ ~e.identityChanged /\ e.paired ->
         Reduction([m EXCEPT !.phase = "Launching", !.resuming = e.currentGame], <<"SendLaunch">>)
    [] e.is = "ServerInfoFailed" -> fail(m, "Unreachable")
    [] OTHER -> Ignored(m)

(* One resume, and only when the host offers it.                            *)
fromLaunchingQuietly(m, e) ==     \* mutant: the resume is not sent
  CASE e.is = "LaunchOk" -> Reduction([m EXCEPT !.phase = "Rtsp", !.step = 1], <<"OpenRtsp">>)
    [] e.is = "LaunchBusy" /\ e.resumable -> Reduction([m EXCEPT !.resuming = TRUE], <<>>)
    [] OTHER -> Ignored(m)
fromLaunching(m, e) ==
  CASE e.is = "LaunchOk" -> Reduction([m EXCEPT !.phase = "Rtsp", !.step = 1], <<"OpenRtsp">>)
    [] e.is = "LaunchBusy" /\ e.resumable /\ ~m.resuming ->
         Reduction([m EXCEPT !.resuming = TRUE], <<"SendLaunch">>)
    [] e.is = "LaunchBusy" /\ (~e.resumable \/ m.resuming) -> fail(m, "AppAlreadyRunning")
    [] e.is = "LaunchFailed" -> fail(m, IF m.resuming THEN "ResumeFailed" ELSE "LaunchRejected")
    [] OTHER -> Ignored(m)

fromRtsp(m, e) ==
  CASE e.is = "RtspReady" /\ m.step = 1 -> Reduction(m, <<"SendRtsp">>)
    [] e.is = "RtspStepOk" /\ m.step < Len(RtspSteps) ->
         Reduction([m EXCEPT !.step = m.step + 1], <<"SendRtsp">>)
    [] e.is = "RtspStepOk" /\ m.step = Len(RtspSteps) ->
         Reduction([m EXCEPT !.phase = "ControlConnecting"], <<"ConnectControl">>)
    [] e.is = "RtspFailed" -> fail(m, "RtspRejected")
    [] OTHER -> Ignored(m)

fromControlConnecting(m, e) ==
  CASE e.is = "ControlConnected" ->
         Reduction([m EXCEPT !.phase = "Streaming"], <<"StartStreaming">>)
    [] e.is = "ControlLost" -> fail(m, "ControlLost")
    [] e.is = "HostTerminated" -> fail(m, "HostEnded")
    [] OTHER -> Ignored(m)

fromStreaming(m, e) ==
  CASE e.is = "ControlLost" -> fail(m, "Dropped")
    [] e.is = "HostTerminated" -> fail(m, "HostEnded")
    [] OTHER -> Ignored(m)

reduce(m, e) ==
  CASE e.is = "StopRequested" -> onStop(m)
    [] e.is # "StopRequested" /\ sessionNeedsStart(m) -> fromIdle(m, e)
    [] e.is # "StopRequested" /\ m.phase = "CheckingInfo" -> fromCheckingInfo(m, e)
    [] e.is # "StopRequested" /\ m.phase = "Launching" -> fromLaunching(m, e)
    [] e.is # "StopRequested" /\ m.phase = "Rtsp" -> fromRtsp(m, e)
    [] e.is # "StopRequested" /\ m.phase = "ControlConnecting" -> fromControlConnecting(m, e)
    [] e.is # "StopRequested" /\ m.phase = "Streaming" -> fromStreaming(m, e)
=============================================================================
