# Dish for Linux: a TLA+ model

Dish turns the gamepads of a Linux machine into wireless controllers of another
one. The other side is a *Satellite* server (REST over HTTPS for control, an
encrypted UDP link for input and feedback) or a Moonlight host. This directory
models the parts of Dish whose correctness rests on interleavings: requests
whose replies come late, threads that share memory without a lock, and state
kept twice, here and at the satellite. `PROJECT.json` maps every definition to
the lines it translates.

## 1. The system

### Parts, state and operations

| Part (under `src/src/`) | State it owns | Operations | Module |
|---|---|---|---|
| `Network/SatelliteClient` | session key generation, send counter, receive mark, socket, two threads | send, re-key, receive, close | `SatelliteClient` |
| `Network/WifiConnectionManager`, `WifiConnection` | connections, intents, holds, retries, pairing keys | connect, pair, disconnect, forget, alive tick, sweep, scan, REST replies, sleep and resume | `WifiConnectionManager` |
| the slot half of both, `core/reducer/Reconcile.h` | wanted slots, registered slots, applied epoch | attach, detach, session PUT, re-key PUT, controller PUT, self-heal GET | `SlotSync` |
| `Network/ConnectionHub` | slot-to-connection table | bind, unbind, migrate, forget | `ConnectionHub` |
| reverse pairing (in the manager), `core/reducer/ReversePairing.h` | attempt, phase, poll timer | request, poll, cancel | `ReversePairing` |
| `SlotRouter`, `core/thread/GraceEpoch.h`, `Network/ClientReaper` | published route table, participants, mic leases | republish, enter/exit, register, retire a client | `SlotRouter` |
| `source/usb/OutputWorker`, `core/input/OutputMailbox.h`, `core/thread/{Seqlock,WorkerWake}.h` | newest feedback per kind, pending set, wake semaphore | post, take, write, stop | `OutputWorker` |
| `source/audio/SpeakerPlayoutEngine`, `core/audio/AudioJitter.h`, `core/thread/MpscQueue.h` | frame queue, voices with a jitter window each, device queue | deliver, pop, decode, open and close a voice, stop | `MpscQueue` (implements `BoundedFifo`), `AudioJitter`, `SpeakerPlayout` |
| `source/moonlight` (manager, session, pairing flow, RTSP client, control stream), `core/moonlight/{MoonlightSessionMachine,MoonlightPadSlots}.h` | hosts, probes, app lists, bindings, one session per host with its machine and pads | bind, unbind, probe, list, quit, pair, forget; launch, RTSP steps, control events, teardown | `MoonlightSessionMachine`, `MoonlightSession`, `MoonlightManager` |
| `source/usb/{UsbGamepadManager,HidrawGateway}`, `core/reducer/{UsbPathMachine,UsbTwinDedup,UsbClaimHealth,BindingPresence}`, and `AppModel`'s answers to them | path of each model, claims, output workers, hidden SDL rows, bindings | scan, pick, SDL list change, settle, bind, timeout, read | `UsbPathMachine`, `UsbGamepadManager` |
| the other `core/reducer` machines, input pump, microphone capture | one value each; dirty set; capture ring | one transition function each; pump; capture | planned |
| REST client, discovery, catalogue, stores, update check, sleep inhibitor, composers, UI | see `components` in `PROJECT.json` | | not modelled, or by their use only |

The GUI thread runs every handler of the manager, the hub and the model to
completion. Beside it run one publisher thread per local input device, and per
session a heartbeat and a receive thread; a playout thread, one capture thread
per microphone, one output thread per claimed pad, the reaper that closes
retired clients, and the Moonlight control thread.

### How the parts interact

* A bind in the hub attaches a slot to a connection. The manager sends it as a
  controller PUT, or inside the next session PUT, and the reply's epoch
  becomes the applied one; the heartbeat's enriched ack carries the satellite's
  epoch and bitmap, and a difference starts the self-heal GET.
* A granted session gives the connection a client with its own threads. Their
  handlers read the route table the hub's changes republish. When the session
  ends the client goes to the reaper, which stops those threads *later*.
* A grant of a reverse pairing is a pairing key; the manager opens the session
  with it.
* A session's receive thread hands speaker frames to the playout thread.
* A bind of a pad to a Moonlight host starts that host's session and gives the
  pad a number in it; the router's table then sends the pad's input there.
* A claim of a USB pad replaces the pad's SDL slot by one of its own: the model
  hides the SDL twin and moves the binding, and undoes both on release.

The modules meet at these lines: `WifiConnectionManager` keeps of a slot change
only the request it causes and of reverse pairing only request and grant;
`SlotSync` keeps of a connection's life connecting, faltering and dying;
`SlotRouter` keeps of a client its receive thread's start and end;
`SpeakerPlayout` keeps of the link the frames that arrive;
`UsbGamepadManager` keeps of the hub the table itself, and of SDL the list of
devices; `MoonlightManager` keeps of the router its Moonlight routes.

### What makes it hard

Replies in any order after the user has changed their mind; retries that
outlive what armed them; state at the satellite that changes by itself;
lock-free readers of a table that is replaced; a re-key under threads that are
sending; a session that comes back before its predecessor's threads are gone;
sleeping workers. `hazards` in `PROJECT.json` lists each one at its line, with
the properties that would catch it.

## 2. The modules

**`SatelliteClient`** - a step per shared atomic access. `gen`, `material`,
`counter`, `mark` are `materialSeq_`, `material_`, `sendCounter_` and
`recvMark_`; `gate` is `sendGate_`. A sender copies the key under the seqlock,
takes the gate, draws a counter, re-checks the generation and sends. A re-key
writes generation, material, counter and mark in the code's order. A datagram
is its (key, counter): two with the same pair would share a nonce.

**`WifiConnectionManager`** - one action per handler; `conn` is each
`WifiConnection`'s state and client, `book` the manager's record (key, hold,
armed retry, pairing and reconcile flags), `net` the requests in flight,
`srv` the satellite. A request is served and answered in separate steps, in any
order, or lost. A closure that captured a `QPointer` has `mine`, which turns
false when the object is forgotten: the re-made connection is another object.

**`SlotSync`** - one connection. `slots`/`reg`/`epoch` are the wanted slots,
those registered and `lastAppliedEpoch_`; `seen` is what the last ack said;
`srv` is the satellite's copy. A descriptor is a type, a touchpad mode and the
capability bits as one value, since the code compares the three differently. A
re-key is a session PUT whose reply gives the client its new key and epoch and
nothing else; `keyed` says whether the client's key is the satellite's, and
without it no ack opens and the session dies. An ack carries its epoch in 16
bits, a reply as an `int`; `AckEpochs` stands for 2^16, so the wrap is
explored. `silent` is a history variable: the slots whose last change no
request carries, because it was made while Faltering, or because it was of mode
or capabilities alone during a session PUT. `Reorder` says whether requests
overtake; it is chosen with the rest of the budget in the initial state, and
`Orderly` states are those of budgets without overtaking, losses and refusals.

**`ConnectionHub`** - `bindings` is the table, `conns` each connection's
`slots_` and `boundSlotId_`. `LowestFreeIndex` is the loop that picks a
controller index.

**`ReversePairing`** - attempts against one satellite, their POSTs and polls,
the timer, the deadline in poll intervals.

**`SlotRouter`** - `epoch` per participant; odd inside a bracket. `republish`
is its stores and, participant by participant, its wait. `shared` is a history
variable: two receive threads of one session have overlapped.

**`OutputWorker`** - a step per atomic another thread can tell apart: the
producers' flag, the seqlock's words one by one, the pending bits, the sleeping
flag, the semaphore. A word holds, per kind, the number of the post it was last
written by, so kinds share words as the fields of `OutputState` do. The
generation is 32 bits wide in the code and would wrap after 2^31 posts; here it
does not.

**`BoundedFifo`, `MpscQueue`** - the abstract queue (places reserved, delivered,
taken, refused) and the lock-free one, a step per atomic access and per access
to a cell's plain memory. `IsFifo` is the refinement: the positions claimed and
not yet freed, a claimed cell's item being its producer's until published.
`QueueSpec` is the queue by itself under any callers; `SpeakerPlayout` drives
the same actions.

**`AudioJitter`** - the reorder window as functions from a window to the next:
`Delta` is the `int16_t` cast, `DrainTurn` one turn of `drain`'s loop.

**`SpeakerPlayout`** - `deliver` on the receive threads, `WorkerWake`'s sleep
and wake, the worker's loop, `decodeAndQueue`, voices that close and open, and
the destructor up to the join. `Items` bounds the frames that can arrive, and
with them the streams. A decoded window is one frame on the device;
`heard` records what the decoder of a voice was given. `LookAhead` is notify's
load done while the publish still waits in the thread's store buffer (see
below); `looked` keeps what it found, and the history variable `passed` the
positions whose look passed their publish and found nobody asleep.

**`MoonlightSessionMachine`** - `reduce` of the header, phase by phase, with its
effects as a sequence. **`MoonlightSession`** runs them on a *world*: the
session, the requests it sends, the host's pads. Events that an effect
dispatches from inside (a launch that cannot be sent, the RTSP client's close)
are part of the same step. **`MoonlightManager`** has one action per user
operation, per kind of reply, per event of the RTSP client, the control thread
and the loop. A request is handled by the host and its reply taken in separate
steps, in any order; `epoch` and the pairing attempt's number are what the code
captures to tell an old reply.

**`UsbPathMachine`** - `reduce`, phase by phase. **`UsbGamepadManager`** - an
action runs its handler to the end: the events it applies, the effects of each,
a claim's outcome applied inside the event that asked for it, and the rebuild
that `controllersChanged` causes, with the dedup and the bindings. Such an
operator yields the *set* of worlds it may lead to, since a claim may succeed
or fail. Reader threads and SDL's list change by themselves.

Memory order, in the threaded modules, is that of x86-64, the build that ships
(`docs/PACKAGING.md` defers aarch64): stores take effect in program order, a
locked access or a seq_cst store waits for those before it, and a plain or
release store may take effect after its thread's next loads.

* `SlotRouter`: the entry to a bracket, the table and republish's first look are
  seq_cst; the exit is a release store, which can only make a wait longer.
* `SatelliteClient`: gate, counter, mark and descriptor change by locked
  accesses; the key's words are copied under a seqlock, which needs stores and
  loads in order, not a store before a load.
* `OutputWorker`: a post sets its pending bit by a locked access before it looks
  for a sleeper, and the stop flag is exchanged.
* `MpscQueue` and `SpeakerPlayout`: a push publishes its cell by a release store
  (`MpscQueue.h:44`), and the next access of `deliver` is notify's load of
  `sleeping_`, which may therefore come first. `LookAhead` is that order. The
  locked exchange of notify, or the compare-exchange on `recvMark_` before the
  thread's next frame, ends it. The consumer's release stores are followed by a
  look at another cell, by the mutex of `decodeAndQueue` or by the seq_cst
  announcement of its sleep, so nothing it reads can pass them with effect.

Weaker orderings are not modelled.

## 3. What TLC checks

| Run | Module | Shows |
|---|---|---|
| `link` | `SatelliteClient` | `WireOrder`: no nonce twice, counter order on the wire; `SendsOnOwnDescriptor`; `NoReplay`: nothing is dispatched twice or backwards, across re-keys |
| `wifi_user` | `WifiConnectionManager` | no connection hangs in Linking (`LinkingIsAnswered`), `ForgottenStaysGone`, `PairingFlagIsBacked`, `HeldStaysDown` |
| `wifi_recovery` | `WifiConnectionManager` | under closes, re-keys, drift and sleep: client iff steady (`SteadyIffClient`), `ReconcileFlagIsBacked`; `Reconnects` (liveness) |
| `slots` | `SlotSync` | `QuietIsInSync`: at rest, where no request was lost, refused or overtaken, every slot is at the satellite as wanted, except those in `silent` (section 5); `Converges` (liveness): the self-heal loop stops, and where no request was hit it stops in sync, with the same exception |
| `hub_bindings` | `ConnectionHub` | `OnePadPerConnection`, `IndicesDistinct` |
| `reverse_pairing` | `ReversePairing` | `TimerOnlyWhileAwaiting`, `PollFlagIsBacked`, `AttemptEnds` (liveness) |
| `router_grace` | `SlotRouter` | `KeptWhileUnshared`, `RepublishReturns` (liveness) |
| `output_worker` | `OutputWorker` | `PadGetsWholeValues`, `NeverBackwards`, `NewestReachesPad`, `StopReturns` (liveness) |
| `speaker_playout` | `SpeakerPlayout` | `IsFifo`: the queue implements `BoundedFifo`; `PlaysInOrder`, `NoFrameIsEaten`; `HandedOverIsHandled` (liveness): a published frame is handled, or slept on because its look passed its publish, and then a frame that gets a place wakes the thread; `StopDrains` (liveness) |
| `moonlight` | `MoonlightManager` | `LinkingIsAnswered`: no attempt hangs; `HostMirrorsPads`; `BindingsRide`: bindings, pad numbers and routes agree; `RecordsAreBacked`: nothing brings a forgotten host's records back; `NothingStranded`: no app left running for nobody |
| `usb_paths` | `UsbGamepadManager` | `NoClaimLeaks`; `StreamsOnce`; `BindingFollows` and `HiccupSpares` (action properties); `PresenceSettles`, `GoneIsForgotten`, `ComesToRest` (liveness) |
| `router_shared` | `SlotRouter` | a violation, see 5 |

The type invariants of `SatelliteClient`, `ConnectionHub`, `ReversePairing` and
`SlotRouter` are proved (section 4) and checked by no run; in the others
`TypeOK` is a conjunct of `SteadyIffClient`, `PadGetsWholeValues` (both proved
too), `QuietIsInSync`, `NoFrameIsEaten`, `BindingsRide` and `NoClaimLeaks`.

### Bounds

* `link`: two senders are enough for two threads to meet at the gate;
  `MaxGen = 6` is two re-keys, so a thread can hold a key two writes old;
  `CounterMax = 2` lets the counter run out. The send and the receive side
  share only the key words, which both only read, so the constraint `OneSide`
  explores behaviours in which senders or the receive thread run, against
  re-keys and the close; the proofs have no such constraint.
* `wifi_*`: one satellite (handlers touch one record each; the scan and the
  sweep loop over them independently), two keys and two or three tokens so old and new
  differ, two requests of a kind where a re-request can meet its predecessor.
  A *budget* bounds the outside events (user actions, faults, closes, sleeps)
  and leaves everything the program does by itself unbounded.
* `slots`: two indices; four descriptors, which differ in type, in mode or in
  capabilities alone; `AckEpochs = 6`, which the satellite's epoch passes. The
  union of seven budgets, each mixing up to three slot operations with some of
  a death, a pad lost or changed at the satellite, a falter, a re-key, a lost
  and a refused request, and overtaking. The falter and the re-key occur with
  requests in order, so that their effect on `QuietIsInSync` is checked.
* `hub_bindings`: three pads, two connections, all reachable states; symmetric.
* `reverse_pairing`: two attempts, deadline of three polls.
* `router_grace`: one device, one session, one mic participant leased in turn
  to two senders, two tables (the published one and the one being replaced).
  `router_shared`: one session, two clients, three tables.
* `output_worker`: two producers, three posts, two words; the lightbar covers
  both, rumble the first, so that two kinds meet in a word and one kind can be
  torn across two.
* `speaker_playout`: capacity 2 and two producers with two frames and one, so
  that positions lap the cells and pushes are refused; sequence numbers modulo 16
  with streams that start at 14, so that they wrap within the window; a window
  of 2 and conceal runs of 2, as in the code; restarts after 3 late frames (10 in
  the code), a ceiling of 4 device frames (8), a queue of 2 (8). In the
  scenes about one stream a frame arrives once the worker is asleep again, as
  frames come 20 ms apart; the scene with two producers has no such limit.
* `moonlight`: three pads (symmetric) of two types, two per host, and two hosts.
  Each *scene* fixes how often each user operation, fault and event of the host
  may happen; eleven scenes mix them so that each pair that can race does.
* `usb_paths`: five pads of three models: a fast-lane one with a wired twin and
  one on Bluetooth, one that SDL never lists, one whose reports do not decode;
  nine scenes as above. Claim ids are only compared, so a fresh one is the
  least that nothing refers to.

### Fairness

* Requests are answered or time out: `HttpExchange` starts a deadline timer for
  each, so `Progress`, `Serve` and `Reply` are weakly fair.
* Timers that repeat fire: the alive tick, the reconnect sweep and the poll
  timer.
* Sleep ends (`ResumeFromSleep`), as logind signals both edges.
* Threads inside the router's or the mailbox's code are scheduled. Readers need
  not enter brackets and producers need not post; `RepublishReturns` and
  `NewestReachesPad` hold however busy the others are.
* The playout worker, a receive thread inside `deliver` and the destructor are
  scheduled, and their store buffers drain; frames need not arrive.
* The USB scan timer repeats, handlers posted to the Qt loop run, and a reader
  thread or SDL finds out about a device that is gone.
* The user, the operator at the satellite and the faults owe nothing.

Deadlock checking is off where the program can come to rest: the link after
its close, the connection, slot, Moonlight and USB modules once their budget is
spent, an ended pairing, a stopped worker or playout engine. The hub and the
router always have a next step and are checked.

## 4. What is proved

Eight proof modules; each theorem holds for every value of the constants allowed
by the named assumptions.

* **`SatelliteClientProofs`**: `TypeCorrect`, `NonceSafety` (`WireOrder`),
  `DescriptorSafety`, `ReplaySafety`, for any number of senders, re-keys and
  packets. `WireOrder` alone is not inductive: the argument needs which key
  `sendCounter_` counts at each point of a re-key (`CounterKey`), that the
  gate has one holder, that a copied key belongs to a completed write, and
  that everything sealed lies before the next counter.
* **`ConnectionHubProofs`**: `TypeCorrect`, `OnePad`, `BoundSafety`,
  `IndexSafety`, for any finite set of pads and any set of connections. The conjunction
  is inductive; the work is in `FreeIndex`: of n + 1 indices n slots leave one
  free (by cardinality), and the loop returns the lowest.
* **`ReversePairingProofs`**: `TypeCorrect` (no attempt polls past its
  deadline), `TimerSafety`, `PollFlagSafety`, for any deadline and any number
  of attempts.
* **`SlotRouterProofs`**: `TypeCorrect`, `GraceSafety` (`KeptWhileUnshared`),
  for any number of devices, sessions, mic senders, clients and tables. `Holds`
  says a thread that uses a table uses the published one, or the one being
  replaced while republish has yet to pass the thread's participant. It needs
  `Parity` (a bracket is open exactly while the epoch is odd), which needs each
  participant to have one thread (`Ranges`, `Apart`, `OneClient`) and `Books`
  (what is alive is what is published or being replaced).
* **`MpscQueueProofs`**: `QueueImplementsFifo`, `QueueSpec => IsFifo`, for any
  capacity of two cells or more, any producers and any items. `QueueInv` says of every
  position where its cell's sequence stands: past it once freed (`LapInv`),
  one ahead or claimed while held, equal to it in the rest of the lap; a
  claimant's position is its own (`ClaimInv`); a pop past its look stands on a
  published cell (`PopInv`). From it each access is a stutter or one step of
  `BoundedFifo`. Two cells are needed: with one, a published cell looks free
  to the next lap. `CellFacts` is the arithmetic of `pos & kMask` as a remainder.
* **`SpeakerPlayoutProofs`**: `PlayoutImplementsFifo` (`IsFifo` of the engine's
  own queue), `FramesFit` (`NoFrameIsEaten`), `DeviceQueueBounded`
  (`UnderCeiling`) and `NoWakeIsLost` (`SleepIsWoken`), for any capacity,
  window, conceal limit, span of sequence numbers, limits, connections and
  scenes that meet the assumptions, and any frames (`FrameAssumption` types
  them). Every engine step is a step of the queue or leaves it alone, so
  `QueueInv` holds here, and with it that what is popped is a frame
  (`FrameInv`). A window between pushes is `Settled`: its packets have distinct
  numbers and lie less than the window ahead of the frame awaited, hence on
  fewer distances than there are slots. Keeping it needs `drain` to end by
  itself and never at its event limit, with a frame due or proven lost left
  behind. `Paced` is that argument: each packet put out pays for the gaps
  before it and for one resync, so n packets give at most n (MaxConceal + 1)
  events, and n turns more. It is shown by induction over the turns: the
  least counterexample of a set of numbers (`WFMin` of the library) serves
  where an induction theorem with an operator parameter cannot be used
  (`CountUp`, `LoopExists`). `SleepIsWoken` says that the thread asleep without
  a token has announced it, that behind a published frame it sleeps on there is
  a notify on its way or a look that passed that frame's publish, and that a
  stop's notify is on its way. It follows from `WakeInv`: `LookInv` (a look
  ahead is of a push between its fill and its notify, and one that found nobody
  asleep has its position in `passed`) and `HandshakeInv` (announce, look
  again, notify). `UnderCeiling` and `SleepIsWoken` are stated in the proof
  module and checked by no run.
* **`OutputWorkerProofs`**: `SeqlockHolds`, `CopiesAreWhole`
  (`PadGetsWholeValues`), `HandedNeverAges` (`NeverBackwards`), for any number
  of words, any kinds over any of them and any producers. `SeqlockInv` says: one producer
  is inside the flag; the generation is odd exactly while that producer stores;
  the words stored so far are its new value's and the rest are the old one's;
  every word agrees on a kind outside a write; and, if the generation still is
  what the worker read, the words it has copied are the words as they are. So a
  copy that is confirmed is one value. Versions only grow, which with the same
  facts gives the action property.
* **`WifiConnectionManagerProofs`**: `WifiHolds`, `LinkingAnswered`
  (`LinkingIsAnswered`), `ClientOnlyWhenSteady` (`SteadyIffClient`, with the
  types), `ForgottenGone` (`ForgottenStaysGone`), `PairingBacked`
  (`PairingFlagIsBacked`), `ReconcileBacked` (`ReconcileFlagIsBacked`) and the
  action property `HeldStays` (`HeldStaysDown`), for any set of satellites, keys,
  tokens, request numbers and any budgets. None of the invariants is inductive
  by itself. `WifiInv` adds that a connection that does not exist is as new;
  that an approval is awaited only for one that exists; that a satellite
  without a connection whose pairing mark is still up has no key; and that a
  grant in `net` carries a key or a token according to its request. Every handler edits one satellite's
  record, except the sweep and the scan, which edit each as `connectTo` would;
  so `WifiInv` is a conjunction over satellites and each action is shown to
  keep it for the one it touches and to leave the others alone.

Only model-checked: every liveness property (fairness is beyond the prover),
`PlaysInOrder`, and the invariants and action properties of `SlotSync`,
`MoonlightManager` and `UsbGamepadManager`. `PlaysInOrder` does not hold for
every value of the constants: a run of `LateRunRestart` repeated frames is taken
for a restart, and a loss of about the whole sequence span lets a new frame pass
one still held; so it depends on the scenes. In `MoonlightManager` and
`UsbGamepadManager` a handler runs a sequence of effects on a world, which is a
fold over data; `QuietIsInSync` is about the order of a queue of requests.

## 5. Where code and comments disagree

One run shows a behaviour that contradicts a comment.

* `router_shared`: a session that reconnects before the reaper has stopped its
  old client's receive thread has two threads writing one grace participant, so
  a table can be freed under one of them. The same overlap can leave an epoch
  odd after both threads have gone, and the next republish, on the GUI thread,
  then waits without end. (`SlotRouter.cpp:480`)

The modules also keep properties a comment states and TLC refutes on small
instances; no run checks them. They document what the code does not promise:

| Property | Behaviour |
|---|---|
| `HandBackSparesLive` (`WifiConnectionManager`) | a late grant is handed back whenever its connection is not Linking; if a second attempt has made it Live meanwhile, the DELETE names the session in use (`WifiConnectionManager.cpp:792`, against the comment at `WifiConnectionManager.h:180`) |
| `StaleReplyIsDropped` | `syncSlot`'s reply finds its connection by id alone, so a 401 from before a Forget reaches the connection paired since |
| `HeldIsNotDialled` | `onConnectPairReply` opens a session although a Disconnect came during the round trip |
| `DropsOnlyRefusedKeys` | `onTerminalAuthFailure` forgets the stored key, not the one that was refused |
| `LowerOfferIsRetried` | `scheduleRetry` returns at once for a user's connect, so the lowered offer is not sent |
| `AttachIsConverged` (`SlotSync`) | a slot attached or changed while Faltering is announced to nobody, and at rest may differ at the satellite until a session PUT; `QuietIsInSync` excepts it |
| `QuietGrantMatches` | after a mouse toggle `reconcile` may return before any ack shows a difference |
| `LateChangesAreResent` | `lateSlotConverge` compares index and type alone, so a change of mode or capabilities during a session PUT is not sent; `QuietIsInSync` excepts it |
| `MatchIsWhole` | `appliedMatchesDesired` ignores the capabilities |
| `RejectedIsUnbound` | nothing emits `slotRegistrationFailed` |
| `QuietIsInSync`, when requests are lost or overtake | the applied epoch is adopted from a reply, so the drift is invisible |
| `OneSeesTheOther` (`SpeakerPlayout`) | `WorkerWake.h:13` asks a producer to publish before it looks, both sequentially consistent; a push publishes by a release store (`MpscQueue.h:44`), so on x86-64 the look may come first and both sides miss each other. The frame waits for the next one, 20 ms later in a stream; should as many receive threads as the queue has cells be caught at once, pushes are refused, and nothing wakes the thread until the engine stops |
| `OneDestination` (`ConnectionHub`) | `bind` leaves the slot attached to the connection it was on |
| `BoundSlotDrives` | re-attaching a slot the connection still has leaves it without a bound slot |
| `SupersededPollIsDropped` (`ReversePairing`) | a superseded poll is told by its server alone |
| `OnePollAtATime` | a cancel clears the flag while its GET is out |

Further disagreements met while modelling. The models show each behaviour as
the code has it; the properties of section 3 are stated so as not to deny it.

Moonlight:

* A launch reply of a stopped attempt that lands while the next attempt is past
  Launching sends `/cancel`, which ends the app the new attempt is about to use
  (`MoonlightSession.cpp:479` and `MoonlightSessionMachine.h:354` take such a
  reply for one of a session that has stopped).
* When a live link has dropped, `teardown` has already cleared what would make
  the last unbind send `/cancel`: the app stays on at the host. The same holds
  of a host forgotten during a launch, whose reply finds its session deleted.
  (`MoonlightSession.h:81`)
* A host that has revoked the pairing refuses the `/cancel` of the last unbind,
  so its app stays on; `NothingStranded` leaves such scenes out.
* A probe begun before a pairing and answered after it overwrites the verdict
  the pairing wrote (`MoonlightManager.cpp:66`).
* A session keeps the copy of the host's record it was created with; pairing
  again does not refresh it (`MoonlightManager.cpp:557`).

USB pads:

* Nothing in the application calls `fireTimeout`, though
  `UsbGamepadManager.cpp:541` says a timer does. A pad whose SDL device never
  comes back waits in AwaitingFramework until it is unplugged, and RestoreStuck
  and NeedsReplug are reached only by that call, which the model makes.
* NeedsReplug left by FrameworkUp ends no hold.
* A pick made while AwaitingFramework is ignored, and then overwritten by the
  Standard preference that FrameworkUp stores.
* A pad SDL never lists loses its binding when its reader dies, though it is
  still plugged in; `BindingFollows` is about pads that SDL lists.
* With two wired pads of one model the claim opens the first hidraw node that opens and
  the dedup hides the first SDL row. The orders can differ, so one pad streams
  twice and the other not at all; `StreamsOnce` is about a sole wired pad.
* A Bluetooth pad bound to a connection of its own is hidden, and its binding
  dropped, while the claimed wired pad has no SDL row to hide instead.
* `isDirectClaimed` holds in AwaitingFramework while the synthetic slot is
  held, although the claim has been released.

Audio:

* `AudioEnginePolicy.h` and the comment at `SpeakerPlayoutEngine.cpp:143` say
  the oldest frame is dropped when the queue is full; the code drops the new
  one, as `SpeakerPlayoutEngine.h` says.
* The link's replay guard drops a datagram that an earlier one overtook, so the
  jitter window reorders only what the satellite itself sent out of order.

## 6. Not modelled, and the plan

Left out for good: byte layouts (HID reports, packet encoders, parsers), the
cryptography, the sound and USB system calls, the settings file and secret
service, notifications, the user interface and the translations
(`translations/*.ts` are Qt Linguist catalogues, XML text for the screen). They
are data transformations, text or I/O, without control a model would explore.

Left out of the modelled parts: of Moonlight the motion, touch, rumble and
battery messages, the RTP pings, the reason a refused pairing shows, the app's
exit and the saved bindings that are re-bound at start; of playout the closing
of the voices after the worker's join; of the USB pads the wording of a claim's
failure.

Planned, in this order:

1. The reaper's queue and destructor; the heartbeat's missed-ack counter
   against the alive tick; the microphone's capture thread with `SpscRing` and
   `LatestValue`.
2. The remaining machines of `core/reducer` with their drivers: satellite
   session, pairing, apply-binding, update, keep-awake, sleep cycle. The
   satellite session machine is the abstract specification
   `WifiConnectionManager` should implement, by a refinement mapping.
3. The input pump: dirty set, pacing, resend.
4. `Observable` (`architecture/`): unsubscription and nesting during delivery.
5. A composition of `ConnectionHub` with `SlotSync`, so that a bind's effect is
   followed to the satellite.
6. Proofs: `NoClaimLeaks`, `BindingsRide`, `QuietIsInSync`; then the machines.
