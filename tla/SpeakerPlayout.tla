--------------------------- MODULE SpeakerPlayout ---------------------------
(* SpeakerPlayoutEngine (source/audio): the receive threads of the          *)
(* connections hand audio frames to the playout thread through an           *)
(* MpscQueue and a WorkerWake; the playout thread runs each frame through   *)
(* its voice's AudioJitter window and queues what comes out on the device;  *)
(* the main thread opens and closes voices and finally stops the engine.    *)
(*                                                                          *)
(* A connection has one voice here, so its receive thread names it too.     *)
(* decodeAndQueue, reconcile and closeOnDevicesAbsent run under mtx_ and    *)
(* are one step each.  The decoded samples are left out: a window the       *)
(* decoder made counts one frame on the device.                             *)
EXTENDS MpscQueue, AudioJitter

CONSTANTS
  LateRunRestart,    \* kPlayoutLateRunRestart
  StartThreshold,    \* kPlayoutStartThresholdFrames
  QueueCeiling,      \* kPlayoutQueueCeilingFrames
  Scenes             \* bounds: a behaviour draws on one of them

ASSUME PlayoutAssumption ==
  /\ LateRunRestart \in Nat \ {0} /\ StartThreshold \in Nat \ {0}
  /\ QueueCeiling \in Nat /\ QueueCeiling > StartThreshold

(* Items bounds the streams: how many there are and how long they run.      *)
ASSUME FrameAssumption ==
  /\ Items \subseteq [by : Producers, stream : Nat, n : Nat, seq : 0 .. (SeqSpan - 1)]
  /\ None \notin Items

VARIABLES
  sleeping,    \* wake_.sleeping_
  tokens,      \* wake_.wake_, the semaphore
  stopping,    \* stopping_
  stopper,     \* where the destructor is
  looked,      \* per receive thread: what a look ahead of its publish found
  passed,      \* history: positions whose look was ahead and found no sleeper
  worker,      \* where workerLoop is
  voice,       \* voices_: per connection, or None
  source,      \* the satellite's stream per connection: [stream, base, sent]
  heard,       \* history: the last frame a voice's decoder was given
  left         \* what remains of the scene

lookVars == <<looked, passed>>
wakeVars == <<sleeping, tokens, stopping, stopper, lookVars>>
vars == <<queueVars, wakeVars, worker, voice, source, heard, left>>

NewVoice == [window |-> FreshWindow, lateRun |-> 0, started |-> FALSE, queued |-> 0]
NothingHeard == [stream |-> -1, n |-> -1, ordered |-> TRUE]

Init ==
  /\ QueueInit
  /\ sleeping = FALSE /\ tokens = 0 /\ stopping = FALSE /\ stopper = "idle"
  /\ looked = [p \in Producers |-> "not"] /\ passed = {}
  /\ worker = "announce"
  /\ voice = [p \in Producers |-> NewVoice]
  /\ heard = [p \in Producers |-> NothingHeard]
  /\ left \in Scenes
  /\ source = [p \in Producers |-> [stream |-> 0, base |-> left.first, sent |-> -1]]

----------------------------------------------------------------------------
(* The satellite and the network (external): the stream's next frame, one   *)
(* past a loss, one delayed or repeated, or the first of a stream that      *)
(* restarted under the voice.                                               *)
Frame(p, s, n) == [by |-> p, stream |-> s.stream, n |-> n, seq |-> (s.base + n) % SeqSpan]

Arrivals(p) ==
  LET s == source[p]
      Sent(n) == [s EXCEPT !.sent = n]
  IN {[frame |-> Frame(p, s, s.sent + 1), source |-> Sent(s.sent + 1), costs |-> "none"]}
     \cup {[frame |-> Frame(p, s, n), source |-> Sent(n), costs |-> "lost"] :
             n \in (s.sent + 2) .. (s.sent + 1 + MaxConceal + JitterWindow)}
     \cup {[frame |-> Frame(p, s, n), source |-> s, costs |-> "stale"] :
             n \in {m \in {s.sent - 1, s.sent} : m >= 0}}
     \cup {[frame |-> Frame(p, t, 0), source |-> t, costs |-> "restart"] :
             t \in {[stream |-> s.stream + 1, base |-> 0, sent |-> 0]}}

Spent(e) == IF e = "none" THEN left ELSE [left EXCEPT ![e] = @ - 1]

(* deliver: the push begins, and notify follows it.  In a spaced scene a    *)
(* frame arrives once the playout thread sleeps again: 20 ms apart.         *)
Deliver(p) ==
  /\ ~stopping /\ left.frames[p] > 0
  /\ left.spaced => worker = "acquire" /\ tokens = 0
  /\ \E a \in Arrivals(p) :
       /\ a.frame \in Items
       /\ a.costs # "none" => left[a.costs] > 0
       /\ PushBegin(p, a.frame)
       /\ source' = [source EXCEPT ![p] = a.source]
       /\ left' = [Spent(a.costs) EXCEPT !.frames[p] = @ - 1]
  /\ UNCHANGED <<wakeVars, worker, voice, heard>>

DeliverStep(p) == PushStep(p) /\ UNCHANGED <<wakeVars, worker, voice, source, heard, left>>

(* The publish is a release store and notify's first access a load: on      *)
(* x86-64 the load may be done while the store waits in the thread's        *)
(* buffer.  PushPublish is the store reaching memory.  What follows it, the *)
(* locked exchange here and the locked compare-exchange of recvMark_ before *)
(* the thread's next frame, waits for it.                                   *)
LookAhead(p) ==
  /\ push[p].pc = "publish" /\ looked[p] = "not"
  /\ looked' = [looked EXCEPT ![p] = IF sleeping THEN "asleep" ELSE "awake"]
  /\ passed' = IF sleeping THEN passed
               ELSE {q \in passed : q >= dequeuePos} \cup {push[p].pos}
  /\ UNCHANGED <<queueVars, sleeping, tokens, stopping, stopper, worker, voice, source, heard,
                 left>>

(* notify: the look, unless it was ahead, and what it leads to.             *)
Found(p) == IF looked[p] = "not" THEN sleeping ELSE looked[p] = "asleep"

NotifyLoad(p) ==
  /\ push[p].pc = "pushed"
  /\ push' = [push EXCEPT ![p] = IF Found(p) THEN [@ EXCEPT !.pc = "exchange"] ELSE NotPushing]
  /\ looked' = [looked EXCEPT ![p] = "not"]
  /\ UNCHANGED <<enqueuePos, dequeuePos, cells, dropped, pop, out, sleeping, tokens, stopping,
                 stopper, passed, worker, voice, source, heard, left>>

Released == IF sleeping THEN tokens + 1 ELSE tokens

NotifyExchange(p) ==
  /\ push[p].pc = "exchange"
  /\ tokens' = Released /\ sleeping' = FALSE
  /\ push' = [push EXCEPT ![p] = NotPushing]
  /\ UNCHANGED <<enqueuePos, dequeuePos, cells, dropped, pop, out, stopping, stopper,
                 lookVars, worker, voice, source, heard, left>>

----------------------------------------------------------------------------
(* The destructor, up to the join.  AppModel has closed the sessions, and   *)
(* with them the receive threads, by then.                                  *)
Stop ==
  /\ stopper = "idle" /\ \A p \in Producers : push[p].pc = "idle"
  /\ stopping' = TRUE /\ stopper' = "notify"
  /\ UNCHANGED <<queueVars, sleeping, tokens, lookVars, worker, voice, source, heard, left>>

StopNotifyLoad ==
  /\ stopper = "notify"
  /\ stopper' = IF sleeping THEN "exchange" ELSE "join"
  /\ UNCHANGED <<queueVars, sleeping, tokens, stopping, lookVars, worker, voice, source, heard,
                 left>>

StopNotifyExchange ==
  /\ stopper = "exchange"
  /\ tokens' = Released /\ sleeping' = FALSE /\ stopper' = "join"
  /\ UNCHANGED <<queueVars, stopping, lookVars, worker, voice, source, heard, left>>

----------------------------------------------------------------------------
(* WorkerWake::sleepUnless on the playout thread.                           *)
WorkerAt(pc, next) ==
  /\ worker = pc /\ worker' = next
  /\ UNCHANGED <<queueVars, stopping, stopper, lookVars, voice, source, heard, left>>

Announce == WorkerAt("announce", "lookStop") /\ sleeping' = TRUE /\ UNCHANGED tokens
LookStop ==
  /\ WorkerAt("lookStop", IF stopping THEN "awake" ELSE "lookEmpty")
  /\ UNCHANGED <<sleeping, tokens>>
AfterLookAsleep == "acquire"         \* mutant: sleeps without looking again
AfterLook == IF Empty THEN "acquire" ELSE "awake"
LookEmpty == WorkerAt("lookEmpty", AfterLook) /\ UNCHANGED <<sleeping, tokens>>
Acquire ==
  WorkerAt("acquire", "awake") /\ tokens > 0 /\ tokens' = tokens - 1 /\ UNCHANGED sleeping
Awake == WorkerAt("awake", "pop") /\ sleeping' = FALSE /\ UNCHANGED tokens

(* The pop loop of workerLoop, and its way out.                             *)
WorkerPops ==
  /\ worker = "pop" /\ PopStep
  /\ UNCHANGED <<wakeVars, worker, voice, source, heard, left>>

QueueDrained ==
  /\ worker = "pop" /\ pop.pc = "empty"
  /\ pop' = [pop EXCEPT !.pc = "idle"] /\ worker' = "check"
  /\ UNCHANGED <<enqueuePos, dequeuePos, cells, dropped, push, out, wakeVars, voice, source,
                 heard, left>>

CheckStop ==
  WorkerAt("check", IF stopping THEN "checkEmpty" ELSE "announce") /\ UNCHANGED <<sleeping, tokens>>
AfterStopAlways == "done"            \* mutant: stops with frames still queued
AfterStop == IF Empty THEN "done" ELSE "announce"
CheckEmpty == WorkerAt("checkEmpty", AfterStop) /\ UNCHANGED <<sleeping, tokens>>

----------------------------------------------------------------------------
(* decodeAndQueue.  What the voice's window makes of the frame; a run of    *)
(* late ones resets it and offers the frame again.                          *)
LateRun(v, r) ==
  IF r.accept = "ok" THEN 0 ELSE IF r.accept = "late" THEN v.lateRun + 1 ELSE v.lateRun

RestartNeeded(run) == run >= LateRunRestart

Offered(v, f) ==
  LET r == Push(v.window, f)
      run == LateRun(v, r)
  IN IF r.accept = "late" /\ RestartNeeded(run)
     THEN [result |-> Push(FreshWindow, f), lateRun |-> 0]
     ELSE [result |-> r, lateRun |-> run]

(* One decoded window on the device: dropped at the ceiling, cushioned with *)
(* silence when the queue ran dry, started at the threshold.                *)
QueueFull(v) == v.queued >= QueueCeiling
Refill(v) == IF v.started /\ v.queued = 0 THEN StartThreshold ELSE 0
QueuePlayback(v) ==
  LET q == v.queued + Refill(v) + 1
  IN IF QueueFull(v) THEN v
     ELSE [v EXCEPT !.queued = q, !.started = @ \/ q >= StartThreshold]

Hear(h, e) ==
  LET f == CHOOSE g \in e.of : TRUE
  IN IF e.kind = "gap" THEN [h EXCEPT !.n = @ + 1]
     ELSE [stream |-> f.stream, n |-> f.n,
           ordered |-> h.ordered /\ (f.stream = h.stream => f.n > h.n)]

(* The events in turn; failed: those whose decode gave nothing.             *)
Queued(v, events, failed) ==
  Iterate(Len(events), v, LAMBDA u, i : IF i \in failed THEN u ELSE QueuePlayback(u))

Heard(h, events) == Iterate(Len(events), h, LAMBDA g, i : Hear(g, events[i]))

DecodeAndQueue(f) ==
  LET p == f.by
      offer == Offered(voice[p], f)
      events == offer.result.events
  IN IF voice[p] = None THEN UNCHANGED <<voice, heard, left>>
     ELSE \E failed \in {{}} \cup {{i} : i \in {j \in DOMAIN events : left.bad > 0}} :
            /\ left' = [left EXCEPT !.bad = @ - Cardinality(failed)]
            /\ heard' = [heard EXCEPT ![p] = Heard(@, events)]
            /\ voice' = [voice EXCEPT ![p] =
                 Queued([@ EXCEPT !.window = offer.result.window, !.lateRun = offer.lateRun],
                        events, failed)]

Decode ==
  /\ worker = "pop" /\ pop.pc = "popped"
  /\ DecodeAndQueue(pop.item)
  /\ pop' = [pop EXCEPT !.pc = "idle"]
  /\ UNCHANGED <<enqueuePos, dequeuePos, cells, dropped, push, out, wakeVars, worker, source>>

Worker ==
  \/ Announce \/ LookStop \/ LookEmpty \/ Acquire \/ Awake
  \/ WorkerPops \/ QueueDrained \/ CheckStop \/ CheckEmpty \/ Decode

----------------------------------------------------------------------------
(* reconcile and closeOnDevicesAbsent close a voice that is not wanted or   *)
(* whose device is gone; reconcile opens one afresh.                        *)
CloseVoice(p) ==
  /\ voice[p] # None /\ left.close > 0
  /\ voice' = [voice EXCEPT ![p] = None]
  /\ left' = [left EXCEPT !.close = @ - 1]
  /\ UNCHANGED <<queueVars, wakeVars, worker, source, heard>>

OpenVoice(p) ==
  /\ voice[p] = None
  /\ voice' = [voice EXCEPT ![p] = NewVoice]
  /\ heard' = [heard EXCEPT ![p] = NothingHeard]
  /\ UNCHANGED <<queueVars, wakeVars, worker, source, left>>

(* The device (external) plays a queued window once resumed.                *)
DevicePlays(p) ==
  /\ voice[p] # None /\ voice[p].started /\ voice[p].queued > 0
  /\ voice' = [voice EXCEPT ![p].queued = @ - 1]
  /\ UNCHANGED <<queueVars, wakeVars, worker, source, heard, left>>

Next ==
  \/ \E p \in Producers :
       \/ Deliver(p) \/ DeliverStep(p) \/ LookAhead(p) \/ NotifyLoad(p) \/ NotifyExchange(p)
       \/ CloseVoice(p) \/ OpenVoice(p) \/ DevicePlays(p)
  \/ Stop \/ StopNotifyLoad \/ StopNotifyExchange \/ Worker

Spec == Init /\ [][Next]_vars

(* Threads that can run do run: the scheduler is fair to each, and a store  *)
(* buffer drains.  No look need be ahead.                                   *)
FairSpec ==
  /\ Spec
  /\ WF_vars(Worker) /\ WF_vars(StopNotifyLoad \/ StopNotifyExchange)
  /\ \A p \in Producers : WF_vars(DeliverStep(p) \/ NotifyLoad(p) \/ NotifyExchange(p))

----------------------------------------------------------------------------
(* Every variable keeps its type, and a semaphore token is only ever left   *)
(* by a notify that found the worker announced asleep.                      *)
TypeOK ==
  /\ enqueuePos \in Nat /\ dequeuePos \in 0 .. enqueuePos /\ dropped \in Nat /\ tokens \in Nat
  /\ \A p \in Producers :
       push[p].pc \in {"idle", "look", "reload", "claim", "fill", "publish", "pushed", "exchange"}
  /\ looked \in [Producers -> {"not", "awake", "asleep"}] /\ passed \subseteq Nat
  /\ pop.pc \in {"idle", "empty", "copy", "free", "advance", "popped"}
  /\ worker \in {"announce", "lookStop", "lookEmpty", "acquire", "awake", "pop", "check",
                 "checkEmpty", "done"}
  /\ \A p \in Producers : voice[p] # None => voice[p].lateRun \in 0 .. (LateRunRestart - 1)

(* A voice's decoder is given the frames of a stream in stream order, each  *)
(* at most once, whether decoded or concealed, though they arrive late,     *)
(* repeated or not at all (AudioJitterWindow, and decodeAndQueue's rule     *)
(* that a run of late frames is a restart).                                 *)
PlaysInOrder == \A p \in Producers : heard[p].ordered

(* AudioJitter.h on its slots_: between pushes fewer packets are held than  *)
(* there are slots, all just ahead of the frame awaited, so push never      *)
(* turns a good packet away for want of a slot (its "Unreachable" branch).  *)
(* With the types, and a run of late frames that never reaches its limit.   *)
NoFrameIsEaten ==
  /\ TypeOK
  /\ \A p \in Producers : voice[p] # None =>
       /\ WindowHolds(voice[p].window)
       /\ Cardinality(voice[p].window.held) < JitterWindow

(* Asleep on a frame nobody will wake it for: the look of the push that     *)
(* published it was ahead of the publish and found the thread awake.        *)
SleptOver == worker = "acquire" /\ tokens = 0 /\ ~Empty /\ dequeuePos \in passed

(* WorkerWake.h: "a producer publishes its work before it looks, so one of  *)
(* the two always sees the other".  So the thread never sleeps on a frame   *)
(* with no notify on its way.                                               *)
OneSeesTheOther == ~SleptOver

(* A frame handed over is handled, even one published behind a slower push: *)
(* the playout thread sleeps on a published frame only if SleptOver, and    *)
(* then until the next frame that gets a place, whose push does wake it     *)
(* (notify and sleepUnless of WorkerWake.h, push of MpscQueue.h).           *)
HandedOverIsHandled ==
  /\ (enqueuePos > dequeuePos) ~> (enqueuePos = dequeuePos \/ SleptOver)
  /\ (worker = "acquire" /\ \E p \in Producers : push[p].pc = "fill") ~> (worker # "acquire")

(* workerLoop: it finishes what it was handed before it stops, and it does  *)
(* stop, whatever the worker was doing when the destructor's notify ran.    *)
StopDrains == stopping ~> (worker = "done" /\ enqueuePos = dequeuePos)

============================================================================
