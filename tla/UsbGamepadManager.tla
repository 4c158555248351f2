-------------------------- MODULE UsbGamepadManager --------------------------
(***************************************************************************)
(* UsbGamepadManager (src/src/source/usb/UsbGamepadManager.cpp) with the   *)
(* claims of its HidrawGateway, and the parts of AppModel that answer it:  *)
(* the framework presence it feeds the machine, the SDL twins it hides and *)
(* the bindings it moves between a pad's two slots.                        *)
(*                                                                         *)
(* All of that runs on the Qt loop, one handler at a time.  Beside it run  *)
(* the claims' reader threads, which end when their node does, and the SDL *)
(* thread, which publishes its device list and posts devicesChanged.       *)
(*                                                                         *)
(* A pad behind SDL has the slot "sdl:<instance>", here the instance       *)
(* number; a claimed one has its model's key as slot, here the model.      *)
(***************************************************************************)
EXTENDS UsbPathMachine, FiniteSets, SequencesExt

CONSTANTS
  Models,      \* vendor and product
  Pads, Model, \* the pads, and the model of each
  Wireless,    \* the pads on Bluetooth: SDL has them, the gateway has not
  Garbled,     \* the pads whose reports do not decode
  FastLane, FrameworkExpected, StreamsUnprompted,   \* the catalogue's traits of the models
  Conns,
  Scenes       \* how often each thing may happen: the bound

ASSUME TraitsAssumption ==
  /\ Model \in [Pads -> Models]
  /\ Wireless \subseteq Pads /\ Garbled \subseteq Pads
  /\ FastLane \subseteq Models /\ FrameworkExpected \subseteq Models
  /\ StreamsUnprompted \subseteq Models

VARIABLES
  left,     \* [event, pad or connection -> how often it may still come]
  node,     \* the number of each pad's hidraw node, 0 without (external)
  rows,     \* SDL's device list (external)
  attached, \* the last SDL instance number given (external)
  posted,   \* devicesChanged is on the loop
  settle,   \* a settleAwaitingFrameworkControllers is on the loop
  known,    \* lastFrameworkVpKeys_
  ctl,      \* controllers_, None for a model not tracked
  missed,   \* missedScans_
  scans,    \* directScans_
  failed,   \* the models in priorFailures_
  pref,     \* the stored pick of each model, "auto" without
  claims,   \* the gateway's claims
  workers,  \* the claims that have an output worker
  shown,    \* the slots on screen
  hidden,   \* the SDL instances the bridge suppresses
  binds     \* the hub's bindings

usbVars == <<known, ctl, missed, scans, failed, pref, workers, shown, hidden, binds>>
vars == <<left, node, rows, attached, posted, settle, claims, usbVars>>

kDepartedScanThreshold == 2
kSilentScansBeforeUnreadable == 3

Init ==
  /\ left \in Scenes
  /\ node = [p \in Pads |-> 0] /\ rows = {} /\ attached = 0
  /\ posted = FALSE /\ settle = FALSE /\ known = {}
  /\ ctl = [m \in Models |-> None]
  /\ missed = [m \in Models |-> 0] /\ scans = [m \in Models |-> 0]
  /\ failed = {} /\ pref = [m \in Models |-> "auto"]
  /\ claims = {} /\ workers = {}
  /\ shown = {} /\ hidden = {} /\ binds = <<>>

Spend(e) == left[e] > 0 /\ left' = [left EXCEPT ![e] = @ - 1]
Plugged(m) == {p \in Pads : Model[p] = m /\ node[p] > 0}
RowsOf(m) == {r \in rows : Model[r.pad] = m}

----------------------------------------------------------------------------
(* The state a handler works on, and what it left.                          *)
Worlds == {[ctl |-> ctl, missed |-> missed, scans |-> scans, failed |-> failed, pref |-> pref,
            claims |-> claims, workers |-> workers, settle |-> settle,
            shown |-> shown, hidden |-> hidden, binds |-> binds]}
Become(w) ==
  /\ ctl' = w.ctl /\ missed' = w.missed /\ scans' = w.scans /\ failed' = w.failed
  /\ pref' = w.pref /\ claims' = w.claims /\ workers' = w.workers
  /\ settle' = w.settle /\ shown' = w.shown /\ hidden' = w.hidden /\ binds' = w.binds

Direct(w) == {m \in Models : w.ctl[m] # None /\ w.ctl[m].phase = "Direct"}

(* suppressedRoutedIds: each claimed model hides one SDL twin, a wired one  *)
(* before a Bluetooth one, then the earliest.                               *)
BeforeAnyBus(r, q) == r.iid < q.iid     \* mutant: the bus is not looked at
Before(r, q) ==
  \/ r.pad \notin Wireless /\ q.pad \in Wireless
  \/ (r.pad \in Wireless) = (q.pad \in Wireless) /\ r.iid < q.iid
Twin(m) == {r.iid : r \in {r \in RowsOf(m) : \A q \in RowsOf(m) \ {r} : Before(r, q)}}
suppressedRoutedIds(direct) == UNION {Twin(m) : m \in direct}

(* rebuild's slots: the SDL pads not hidden, the claimed ones, and the      *)
(* tracked ones that SDL never shows.                                       *)
Slots(w, hide) ==
  ({r.iid : r \in rows} \ hide) \union Direct(w)
  \union {m \in Models \ FrameworkExpected : w.ctl[m] # None}

(* resolveBindingPresence: a binding whose slot left the screen follows its *)
(* pad to a slot that has none yet, the SDL ones first, or goes.            *)
ModelOf(s) == IF s \in Models THEN {s} ELSE {Model[r.pad] : r \in {r \in rows : r.iid = s}}
Candidates(w, s, now) == {t \in now \ DOMAIN w.binds : ModelOf(t) = ModelOf(s)}
MovesToRouted(w, s, now) ==     \* mutant: a claimed slot is no candidate
  LET sdl == Candidates(w, s, now) \ Models IN {t \in sdl : \A u \in sdl : t <= u}
MovesTo(w, s, now) ==
  LET sdl == Candidates(w, s, now) \ Models
  IN IF sdl # {} THEN {t \in sdl : \A u \in sdl : t <= u} ELSE Candidates(w, s, now)
applyBindingPresence(w, now) ==
  LET kept == DOMAIN w.binds \intersect now
      moving == {s \in DOMAIN w.binds \ now : MovesTo(w, s, now) # {}}
      target == [s \in moving |-> CHOOSE t \in MovesTo(w, s, now) : TRUE]
  IN IF DOMAIN w.binds \subseteq now THEN w.binds
     ELSE [t \in kept \union {target[s] : s \in moving} |->
             IF t \in kept THEN w.binds[t] ELSE w.binds[CHOOSE s \in moving : target[s] = t]]

(* From here on an operator yields the set of worlds it may lead to, and    *)
(* Through takes such a set through a step for every element of a sequence. *)
Through(ws, Step(_, _), seq) ==
  LET then(vs, x) == UNION {Step(v, x) : v \in vs} IN FoldLeft(then, ws, seq)

rebuild(w) ==
  UNION {{[w EXCEPT !.hidden = hide, !.shown = now, !.binds = applyBindingPresence(w, now)]
            : now \in {Slots(w, hide)}} : hide \in {suppressedRoutedIds(Direct(w))}}

(* controllersChanged: a rebuild now, and a look at the framework later.    *)
onUsbDirectChanged(ws) == {[v EXCEPT !.settle = TRUE] : v \in UNION {rebuild(w) : w \in ws}}

----------------------------------------------------------------------------
releaseClaimAndWorker(w, id) ==
  [w EXCEPT !.workers = @ \ {id}, !.claims = {c \in @ : c.id # id}]

(* The effects that change state, a claim apart; c is the controller after  *)
(* the event, or before it where the event ended the tracking.              *)
execute(w, m, c, fx) ==
  CASE fx.do = "Release" -> IF c.synth = NoId THEN w ELSE releaseClaimAndWorker(w, c.synth)
    [] fx.do = "RemoveSynthetic" -> releaseClaimAndWorker(w, fx.id)
    [] fx.do = "SetPref" -> [w EXCEPT !.pref[m] = fx.path]
    [] fx.do = "MarkFailure" -> [w EXCEPT !.failed = @ \union {m}]
    [] fx.do = "ClearFailure" -> [w EXCEPT !.failed = @ \ {m}]

(* applyEvent for an event that claims nothing.                             *)
Apply(w, m, r, c) ==
  LET then(v, fx) == {execute(v, m, c, fx)} IN Through({[w EXCEPT !.ctl[m] = r.next]}, then, r.effects)
applyPlain(w, m, e) ==
  IF w.ctl[m] = None THEN {w}
  ELSE onUsbDirectChanged(UNION {Apply(w, m, r, IF r.next = None THEN w.ctl[m] ELSE r.next)
                                   : r \in {reduce(w.ctl[m], e, m \in FrameworkExpected)}})

(* claimTracked: the gateway opens the first of the model's nodes that will *)
(* open, or none does.                                                      *)
(* hidraw never steals a device from SDL.  Claim ids count up and are only  *)
(* compared, so the least one that nothing refers to stands for the next.   *)
Referred(w) == {c.id : c \in claims \union w.claims} \union {x.synth : x \in {w.ctl[m] : m \in Models} \ {None}}
FreshId(w) ==
  CHOOSE n \in 1..(Cardinality(Referred(w)) + 1) : n \notin Referred(w) /\ 1..(n - 1) \subseteq Referred(w)
NewClaims(w, m) ==
  {[id |-> FreshId(w), pad |-> p, wired |-> TRUE, alive |-> TRUE, read |-> "nothing"] : p \in Plugged(m)}
Holding(w, c) == [w EXCEPT !.workers = @ \union {c.id}, !.claims = @ \union {c}]
runClaim(w, m) ==
  UNION {UNION {applyPlain(v, m, ClaimSucceeded(c.id)) : v \in {Holding(w, c)}} : c \in NewClaims(w, m)}
  \union applyPlain(w, m, ClaimFailed(FALSE))

(* The claim comes first; the placeholder of the old one goes after it.     *)
runReclaim(w, m, id) ==
  UNION {UNION {applyPlain(v, m, ClaimSucceeded(c.id)) : v \in {releaseClaimAndWorker(Holding(w, c), id)}}
           : c \in NewClaims(w, m)}
  \union UNION {applyPlain(v, m, ClaimFailed(FALSE)) : v \in {releaseClaimAndWorker(w, id)}}

(* applyEvent: a claim is always the last effect, and its outcome is        *)
(* applied inside the event that asked for it.                              *)
Claims(w, m, r) ==
  LET before == Apply(w, m, [r EXCEPT !.effects = Front(@)], r.next)
  IN UNION {IF Last(r.effects).do = "Claim" THEN runClaim(v, m) ELSE runReclaim(v, m, r.next.synth)
              : v \in before}
applyEvent(w, m, e) ==
  IF w.ctl[m] = None THEN {w}
  ELSE UNION {IF \E i \in DOMAIN r.effects : r.effects[i].do \in {"Claim", "Reclaim"}
              THEN onUsbDirectChanged(Claims(w, m, r)) ELSE applyPlain(w, m, e)
                : r \in {reduce(w.ctl[m], e, m \in FrameworkExpected)}}

----------------------------------------------------------------------------
resolvePath(w, m) == resolvePathChoice(w.pref[m], m \in FastLane, m \in w.failed)

ensureTracked(w, m) ==
  IF w.ctl[m] # None THEN {w}
  ELSE UNION {applyEvent(v, m, Choose(resolvePath(w, m)))
                : v \in {[w EXCEPT !.ctl[m] = [phase |-> "Routed", synth |-> NoId, failed |-> FALSE]]}}

ClaimsOf(w, m) == {c \in w.claims : w.ctl[m] # None /\ c.id = w.ctl[m].synth}
claimEndedOrNoisy(w, m) ==     \* mutant: noise counts as an ended claim
  m \in Direct(w) /\ \A c \in ClaimsOf(w, m) : ~c.alive \/ c.read = "noise"
claimEnded(w, m) == m \in Direct(w) /\ \A c \in ClaimsOf(w, m) : ~c.alive

onUsbGone(w, m) ==
  {[v EXCEPT !.missed[m] = 0, !.scans[m] = 0, !.failed = @ \ {m}]
     : v \in applyPlain(w, m, Event("UsbUnplugged"))}

(* judgeClaimHealth: noise is a claim with enough undecoded reads.          *)
Unreadable(w, m) ==
  \A c \in ClaimsOf(w, m) :
    \/ c.read = "noise"
    \/ c.read = "nothing" /\ m \in StreamsUnprompted
       /\ w.scans[m] + 1 >= kSilentScansBeforeUnreadable
judgeClaim(w, m) ==
  IF m \notin Direct(w) THEN {[w EXCEPT !.scans[m] = 0]}
  ELSE LET judged == {[w EXCEPT !.scans[m] = IF @ < kSilentScansBeforeUnreadable THEN @ + 1 ELSE @]}
       IN IF Unreadable(w, m)
          THEN UNION {applyPlain(v, m, Event("ClaimUnreadable")) : v \in judged} ELSE judged

(* One device of reconcile's enumeration.                                   *)
Enumerated(w, p) ==
  LET m == Model[p]
      live == IF claimEnded(w, m) THEN onUsbGone(w, m) ELSE {w}
  IN UNION {judgeClaim(v, m) : v \in UNION {ensureTracked(u, m) : u \in live}}

(* The departed-device sweep, for the models this scan did not see.         *)
DepartedAtOnce(w, seen) ==     \* mutant: the first miss counts
  {m \in Models \ seen : w.ctl[m] # None}
Departed(w, seen) ==
  {m \in Models \ seen : w.ctl[m] # None /\ w.missed[m] + 1 >= kDepartedScanThreshold}
CountedDirect(w, seen) ==      \* mutant: only claimed pads are counted
  [w EXCEPT !.missed = [m \in Models |-> IF m \in Direct(w) \ seen THEN @[m] + 1 ELSE 0]]
Counted(w, seen) ==
  [w EXCEPT !.missed = [m \in Models |-> IF m \in seen \/ w.ctl[m] = None THEN 0 ELSE @[m] + 1]]
Sweep(w, seen) == Through({Counted(w, seen)}, onUsbGone, SetToSeq(Departed(w, seen)))

reconcile(w, pads) ==
  UNION {Sweep(v, {Model[p] : p \in pads})
           : v \in Through({w}, Enumerated, SetToSortSeq(pads, LAMBDA p, q : node[p] < node[q]))}

----------------------------------------------------------------------------
(* syncFrameworkPresence: the edges of SDL's list, and then its level.      *)
Framework == {Model[r.pad] : r \in rows}
Up(w, m) == applyPlain(w, m, Event("FrameworkUp"))
Down(w, m) == applyPlain(w, m, Event("FrameworkDown"))
settleAwaitingFramework(w) ==
  Through({w}, Up, SetToSeq({m \in Models : w.ctl[m] # None
                             /\ shouldSettleAwaitingFramework(w.ctl[m].phase, m \in Framework)}))
syncFrameworkPresence(w) ==
  UNION {settleAwaitingFramework(v) :
           v \in Through(Through({w}, Up, SetToSeq(Framework \ known)), Down,
                         SetToSeq(known \ Framework))}

world == <<node, rows, attached>>

(* pollUsbDirect: the timer's scan.  It may miss a pad that is there.       *)
Wired == {p \in Pads : node[p] > 0}
Scan(pads) ==
  /\ \E v \in Worlds : \E w \in reconcile(v, pads) : Become(w)
  /\ UNCHANGED <<world, posted, known>>
pollUsbDirect == Scan(Wired) /\ UNCHANGED left
Hiccup == \E p \in Wired : Spend("miss") /\ Scan(Wired \ {p})

onBridgeDevicesChanged ==
  /\ posted /\ posted' = FALSE
  /\ \E u \in Worlds : \E v \in syncFrameworkPresence(u) : \E w \in rebuild(v) : Become(w)
  /\ known' = Framework
  /\ UNCHANGED <<left, world>>

settleAwaitingFrameworkControllers ==
  /\ settle
  /\ \E u \in Worlds : \E v \in {[u EXCEPT !.settle = FALSE]} :
       \E w \in settleAwaitingFramework(v) : Become(w)
  /\ UNCHANGED <<left, world, posted, known>>

(* setPathChoice and clearChoice, from a slot on screen.                    *)
Pickable == {m \in Models : \/ m \in shown
                            \/ \E r \in RowsOf(m) : r.iid \in shown /\ r.pad \notin Wireless}
setPathChoice(m, path) ==
  /\ Spend("pick") /\ m \in Pickable
  /\ \E u \in {[u EXCEPT !.pref[m] = path] : u \in Worlds} :
     \E v \in IF Plugged(m) # {} THEN ensureTracked(u, m) ELSE {u} :
     \E w \in applyEvent(v, m, Choose(IF path = "auto" THEN resolvePath(v, m) ELSE path)) : Become(w)
  /\ UNCHANGED <<world, posted, known>>

(* hub_->bind: a connection carries one pad.  The hub's notice rebuilds.    *)
Bind(s, c) ==
  /\ Spend(c) /\ s \in shown
  /\ LET others == {t \in DOMAIN binds : t # s /\ binds[t] # c}
         now == [t \in others \union {s} |-> IF t = s THEN c ELSE binds[t]]
     IN \E v \in {[u EXCEPT !.binds = now] : u \in Worlds} : \E w \in rebuild(v) : Become(w)
  /\ UNCHANGED <<world, posted, known>>

onHubChanged ==
  /\ \E v \in Worlds : \E w \in rebuild(v) : Become(w)
  /\ UNCHANGED <<left, world, posted, known>>

(* fireTimeout.                                                             *)
fireTimeout(m) ==
  /\ Spend("timeout") /\ ctl[m] # None
  /\ \E v \in Worlds : \E w \in applyPlain(v, m, Event("Timeout")) : Become(w)
  /\ UNCHANGED <<world, posted, known>>

----------------------------------------------------------------------------
(* The pads and the threads beside the loop.  An unplugged pad takes its    *)
(* node with it; its reader and SDL find out in their own time.             *)
Gone(S, p) == {IF x.pad = p THEN [x EXCEPT !.wired = FALSE] ELSE x : x \in S}
FreeNode == CHOOSE n \in 1..Cardinality(Pads) :
              /\ \A p \in Pads : node[p] # n
              /\ \A k \in 1..(n - 1) : \E p \in Pads : node[p] = k
Plug(p) ==
  /\ Spend(p) /\ p \notin Wireless /\ node[p] = 0
  /\ node' = [node EXCEPT ![p] = FreeNode]
  /\ UNCHANGED <<rows, attached, posted, settle, claims, usbVars>>
Unplug(p) ==
  /\ Spend("unplug") /\ node[p] > 0
  /\ node' = [node EXCEPT ![p] = 0]
  /\ claims' = Gone(claims, p) /\ rows' = Gone(rows, p)
  /\ UNCHANGED <<attached, posted, settle, usbVars>>

readLoopEnds(c) ==
  /\ c.alive /\ IF c.wired THEN Spend("die") ELSE UNCHANGED left
  /\ claims' = (claims \ {c}) \union {[c EXCEPT !.alive = FALSE]}
  /\ UNCHANGED <<world, posted, settle, usbVars>>
readLoop(c) ==
  /\ c.alive /\ c.wired /\ c.read = "nothing"
  /\ claims' = (claims \ {c})
               \union {[c EXCEPT !.read = IF c.pad \in Garbled THEN "noise" ELSE "report"]}
  /\ UNCHANGED <<left, world, posted, settle, usbVars>>

Attach(p) ==
  /\ Model[p] \in FrameworkExpected /\ \A r \in rows : r.pad # p
  /\ IF p \in Wireless THEN Spend(p) ELSE node[p] > 0 /\ UNCHANGED left
  /\ attached' = attached + 1
  /\ rows' = rows \union {[iid |-> attached + 1, pad |-> p, wired |-> TRUE]}
  /\ posted' = TRUE
  /\ UNCHANGED <<node, settle, claims, usbVars>>
Detach(r) ==
  /\ IF r.wired THEN Spend("jiggle") ELSE UNCHANGED left
  /\ rows' = rows \ {r} /\ posted' = TRUE
  /\ UNCHANGED <<node, attached, settle, claims, usbVars>>

Threads == \/ \E c \in claims : ~c.wired /\ readLoopEnds(c)
           \/ \E r \in rows : ~r.wired /\ Detach(r)
Next ==
  \/ pollUsbDirect \/ Hiccup
  \/ onBridgeDevicesChanged \/ settleAwaitingFrameworkControllers \/ onHubChanged
  \/ \E m \in Models, path \in Paths \union {"auto"} : setPathChoice(m, path)
  \/ \E s \in shown, c \in Conns : Bind(s, c)
  \/ \E m \in Models : fireTimeout(m)
  \/ \E p \in Pads : Plug(p) \/ Unplug(p) \/ Attach(p)
  \/ \E r \in rows : Detach(r)
  \/ \E c \in claims : readLoop(c) \/ readLoopEnds(c)

(* What is posted is run: each handler is alone in taking its flag down, so *)
(* that is weak fairness.  The scan timer repeats: ScanDue is when a scan   *)
(* changes anything.  A thread whose device is gone finds out.              *)
ScanDue == \E w \in Worlds : reconcile(w, Wired) # {w}
Spec ==
  /\ Init /\ [][Next]_vars
  /\ []<>~posted /\ []<>~settle
  /\ []<>~ScanDue \/ []<><<pollUsbDirect>>_vars
  /\ WF_vars(Threads)

----------------------------------------------------------------------------
Rows == [iid : Nat \ {0}, pad : Pads, wired : BOOLEAN]
ClaimRecords == [id : Nat \ {0}, pad : Pads, wired : BOOLEAN, alive : BOOLEAN,
           read : {"nothing", "noise", "report"}]
Controllers == [phase : Phases \ {"Claiming"}, synth : Nat, failed : BOOLEAN]

(* The state's shape.  No handler leaves a claim in flight, and no count    *)
(* reaches the threshold it is compared with.                               *)
TypeOK ==
  /\ node \in [Pads -> Nat] /\ rows \subseteq Rows /\ attached \in Nat
  /\ posted \in BOOLEAN /\ settle \in BOOLEAN /\ known \subseteq Models
  /\ ctl \in [Models -> Controllers \union {None}]
  /\ missed \in [Models -> 0..(kDepartedScanThreshold - 1)]
  /\ scans \in [Models -> 0..kSilentScansBeforeUnreadable]
  /\ failed \subseteq Models /\ pref \in [Models -> Paths \union {"auto"}]
  /\ claims \subseteq ClaimRecords /\ workers \subseteq Nat
  /\ DOMAIN binds \subseteq shown /\ \A s \in DOMAIN binds : binds[s] \in Conns

(* A claim, its output worker and its Direct controller come and go         *)
(* together: no pick, unplug, dead reader, unreadable pad or reclaim leaves *)
(* a node open that no controller would ever release, or a Direct slot with *)
(* nothing behind it (releaseClaimAndWorker, execute, runReclaim).  With    *)
(* the types, and no claim left in flight by a handler.                     *)
NoClaimLeaks ==
  /\ TypeOK
  /\ {c.id : c \in claims} = workers
  /\ workers = {ctl[m].synth : m \in UNION {Direct(w) : w \in Worlds}}

(* "A pad streams over exactly one path" (UsbTwinDedup.h): while no other   *)
(* wired pad of its model is around, a pad being read by a claim is not     *)
(* also bound through an SDL row that the bridge lets through.              *)
Sole(p) == \A q \in Plugged(Model[p]) \union {x.pad : x \in rows \union claims} :
             Model[q] = Model[p] => q \in Wireless \union {p}
StreamsTwice(p) ==
  /\ \E c \in claims : c.pad = p /\ c.alive /\ c.wired
  /\ Model[p] \in DOMAIN binds
  /\ \E r \in rows : r.pad = p /\ r.wired /\ r.iid \in DOMAIN binds \ hidden
StreamsOnce == \A p \in Pads : Sole(p) => ~StreamsTwice(p)

(* The binding of a pad that SDL lists all along survives every change of   *)
(* path: a claim, a release, a dead or unreadable claim, an unplug of the   *)
(* wired side move it to the pad's other slot and never drop it, as long as *)
(* no second pad of the model is bound too (resolveBindingPresence,         *)
(* applyBindingPresence).                                                   *)
BoundTo(m) == {binds[s] : s \in {s \in DOMAIN binds : m \in ModelOf(s)}}
Stays(m) == RowsOf(m) # {} /\ RowsOf(m)' = RowsOf(m)
BindingFollows ==
  [][(\A c \in Conns : left'[c] = left[c]) =>
       \A m \in Models : Stays(m) /\ Cardinality(BoundTo(m)) <= 1 => BoundTo(m)' = BoundTo(m)]_vars

(* One flaky scan never takes a claim away: a claim that reads its pad ends *)
(* by the user's pick, or when the pad was missing from the scan before     *)
(* this one too (kDepartedScanThreshold, judgeClaimHealth).                 *)
HiccupSpares ==
  [][\A c \in claims :
       c.alive /\ c.wired /\ c.read = "report" /\ missed[Model[c.pad]] = 0
       /\ left'["pick"] = left["pick"]
       => \E d \in claims' : d.id = c.id]_vars

(* A pad never waits for good for an SDL device that is there               *)
(* (shouldSettleAwaitingFramework is about the level, not the edge).        *)
Waits(m) == ctl[m] # None /\ ctl[m].phase = "AwaitingFramework" /\ m \in Framework
PresenceSettles == \A m \in Models : []<>~Waits(m)

(* Once a model's pads are unplugged for good, its controller, its claim    *)
(* and its slot go (reconcile's sweep is the only signal of an unplug).     *)
GoneIsForgotten ==
  \A m \in Models : <>[](Plugged(m) = {})
    => <>[](ctl[m] = None /\ m \notin shown /\ \A c \in claims : Model[c.pad] # m)

(* The paths come to rest: once nothing more happens to the pads, no model  *)
(* is claimed and given back over and over, whatever its pad sends.         *)
ComesToRest == <>[][ctl' = ctl]_vars
=============================================================================
