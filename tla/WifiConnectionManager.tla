----------------------- MODULE WifiConnectionManager -----------------------
(***************************************************************************)
(* The life of the satellite connections: src/src/Network/                 *)
(* WifiConnectionManager.cpp and the state machine of WifiConnection.cpp.  *)
(* Every handler runs to completion on the GUI thread, so it is one        *)
(* action; what interleaves is the user, the timers (alive tick, sweep,    *)
(* retries, scan), and the REST requests, which the satellite serves and   *)
(* whose replies arrive in any order.                                      *)
(*                                                                         *)
(* Abstractions.  A satellite is its id; addresses, names and the refusal  *)
(* of non-local addresses are left out.  AutoReconnect and RetryAfterDeath *)
(* are the one intent "silent": the code tells neither from the other.     *)
(* Controller slots are in module SlotSync; here a slot change is only the *)
(* request it causes.  Of the reverse-pairing flow (module ReversePairing) *)
(* this module keeps the request and the grant.  retryAttempts_ only sets  *)
(* a timer's delay and lastFailure_ only a log line: both are left out.    *)
(***************************************************************************)
EXTENDS Integers, FiniteSets

CONSTANTS
  Sats,        \* satellite ids
  Keys,        \* pairing keys a satellite may mint
  Tokens,      \* session tokens a satellite may mint
  Ids,         \* tells apart requests of one kind to one satellite
  MaxTimers,   \* bound on the retries armed for one satellite
  Budgets      \* bounds on the outside events: a behaviour draws on one of them

Events == {"user", "sleep", "fault", "close", "rekey", "slot", "drift"}

ASSUME KeyAssumption == 0 \notin Keys /\ Keys # {}
ASSUME TokenAssumption == 0 \notin Tokens
ASSUME TimerAssumption == MaxTimers \in Nat \ {0}
ASSUME BudgetAssumption == Budgets \subseteq [Events -> Nat]
ASSUME NoneAssumption == "none" \notin Sats

VARIABLES
  conn,      \* connections_ and each WifiConnection's session state
  book,      \* the manager's and the store's record of each satellite
  scanning,  \* scanning_
  reverse,   \* the satellite an approval request awaits, or "none"
  net,       \* the requests in flight
  srv,       \* each satellite: the key it accepts, the token in force
  notice,    \* the SESSION_CLOSE reason each client has received
  asleep,    \* the machine prepares to sleep (SleepPhase::Suspending)
  left,      \* what remains of the budget
  forgotten  \* history: forgotten, and not asked for by the user since

vars == <<conn, book, scanning, reverse, net, srv, notice, asleep, left, forgotten>>

States == {"Idle", "Linking", "Live", "Faltering", "Stale"}
Steady == {"Live", "Faltering"}
PairKinds == {"pairPin", "pairConnect", "pairReverse"}
Kinds == PairKinds \cup {"poll", "put", "rekey", "get", "ctl", "delete", "unpair"}
Answers == {"out", "ok", "badkey", "auth", "unauth", "refused", "lower", "down",
            "unusable", "drift"}

(* here: the object exists.  token: the client's, 0 for no client (and no   *)
(* connectionId: the two are set and cleared together).                     *)
Conns == [here : BOOLEAN, state : States, token : Tokens \cup {0}, rekeyed : BOOLEAN]
NoConn == [here |-> FALSE, state |-> "Idle", token |-> 0, rekeyed |-> FALSE]

(* armed counts the single-shot retries whose generation is still the       *)
(* satellite's retryGeneration_.                                            *)
Books == [key : Keys \cup {0}, remembered : BOOLEAN, pairing : BOOLEAN,
          held : BOOLEAN, reconciling : BOOLEAN,
          armed : 0..MaxTimers]

(* mine: the QPointer the closure holds is still the satellite's           *)
(* connection.  live: what else it holds is current, the client for a       *)
(* re-key, the attempt's PIN for a reverse pairing.                         *)
Requests == [id : Ids, kind : Kinds, sat : Sats, intent : {"user", "silent"},
             key : Keys \cup {0}, mine : BOOLEAN, live : BOOLEAN,
             ans : Answers, val : Keys \cup Tokens \cup {0}]

----------------------------------------------------------------------------
(* WifiConnection's transitions, as functions of its state.                *)
Teardown(c) == [c EXCEPT !.token = 0, !.rekeyed = FALSE]
MarkDisconnected(c) == [Teardown(c) EXCEPT !.state = "Idle"]
MarkStaleIfClient(c) ==      \* mutant: the early return looks at the client alone
  IF c.token = 0 THEN c ELSE [Teardown(c) EXCEPT !.state = "Stale"]
MarkStale(c) == [Teardown(c) EXCEPT !.state = "Stale"]
MarkConnectingKeepsClient(c) ==   \* mutant: a faltering session is not torn down
  IF c.state = "Live" THEN c ELSE [c EXCEPT !.state = "Linking"]
MarkConnecting(c) ==
  IF c.state = "Live" THEN c
  ELSE [(IF c.state = "Faltering" THEN Teardown(c) ELSE c) EXCEPT !.state = "Linking"]
MarkConnected(c, t) ==
  IF c.state # "Linking" THEN c
  ELSE [c EXCEPT !.state = "Live", !.token = t, !.rekeyed = FALSE]
EnsureConnection(c) == [c EXCEPT !.here = TRUE]

----------------------------------------------------------------------------
(* Requests.                                                               *)
FreeIds(s, k) == {i \in Ids : \A r \in net : r.sat = s /\ r.kind = k => r.id # i}
CanSend(s, k) == FreeIds(s, k) # {}

Request(s, k, intent, pairingKey) ==
  [id |-> CHOOSE i \in FreeIds(s, k) : TRUE, kind |-> k, sat |-> s,
   intent |-> intent, key |-> pairingKey, mine |-> TRUE, live |-> TRUE,
   ans |-> "out", val |-> 0]

(* What is in flight after a handler.  A forgotten connection's QPointers   *)
(* are null from then on, and a torn-down session's client is no longer     *)
(* its connection's; no handler undoes either in the same turn.             *)
InFlight(N) ==
  net' = {[r EXCEPT !.mine = @ /\ conn'[r.sat].here,
                    !.live = @ /\ (r.kind # "rekey" \/ conn'[r.sat].token # 0)] :
            r \in N}

(* A new client, or a re-key of the old one, starts with no close reason.   *)
ClearNotices ==
  notice' = [s \in Sats |->
               IF conn'[s].token = conn[s].token THEN notice[s] ELSE "none"]

Spend(e) == left[e] > 0 /\ left' = [left EXCEPT ![e] = @ - 1]

(* releaseSession: best effort, and only with credentials.                  *)
Release(s, k) == IF k = 0 THEN {} ELSE {Request(s, "delete", "silent", k)}

(* scheduleRetry: a no-op for a user's attempt.  Nothing in the code bounds *)
(* the timers; the model stops counting at MaxTimers.                       *)
ScheduleRetry(b, intent) ==
  IF intent = "user" THEN b
  ELSE [b EXCEPT !.armed = IF @ < MaxTimers THEN @ + 1 ELSE @]

(* disconnect's first statement: every retry armed so far is out of date,   *)
(* and will return at once when it is due.                                  *)
NextGeneration(b) ==
  [b EXCEPT !.armed = 0]

----------------------------------------------------------------------------
(* At launch a satellite may be known or not, and may still accept the key. *)
OldKey == CHOOSE k \in Keys : TRUE
Init ==
  /\ conn = [s \in Sats |-> NoConn]
  /\ book \in [Sats -> {[key |-> k, remembered |-> m, pairing |-> FALSE,
                         held |-> FALSE, reconciling |-> FALSE, armed |-> 0] :
                           k \in {0, OldKey}, m \in BOOLEAN}]
  /\ srv \in [Sats -> [key : {0, OldKey}, token : {0}]]
  /\ scanning = FALSE /\ reverse = "none" /\ net = {} /\ asleep = FALSE
  /\ notice = [s \in Sats |-> "none"]
  /\ left \in Budgets
  /\ forgotten = [s \in Sats |-> ~book[s].remembered /\ book[s].key = 0]

----------------------------------------------------------------------------
(* connectTo for every satellite of S, as the sweep calls it.              *)
ReachedThoughHeld(S, intent) == S      \* mutant: the hold is not consulted
Reached(S, intent) == {s \in S : intent = "user" \/ ~book[s].held}
Dialled(S, intent) ==
  {s \in Reached(S, intent) : conn[s].state \notin {"Live", "Linking"}}

FirstKind(s) == IF book[s].key = 0 THEN "pairConnect" ELSE "put"

ConnectTo(S, intent) ==
  LET D == Dialled(S, intent) IN
  /\ \A s \in D : CanSend(s, FirstKind(s))
  /\ conn' = [s \in Sats |->
                IF s \in D THEN MarkConnecting(EnsureConnection(conn[s]))
                ELSE conn[s]]
  /\ InFlight(net \cup {Request(s, FirstKind(s), intent, book[s].key) : s \in D})
  /\ ClearNotices

(* What connectTo writes down: a user's attempt lifts the hold; a connect   *)
(* without a key pairs first.                                               *)
Connecting(b, s, S, intent) ==
  [b EXCEPT !.held = @ /\ ~(intent = "user" /\ s \in S),
            !.pairing = @ \/ (s \in Dialled(S, intent) /\ b.key = 0)]

AutoTargetsIdle ==      \* mutant: the sweep leaves out a parked (Stale) satellite
  {s \in Sats : book[s].remembered /\ conn[s].state = "Idle"}
AutoTargets == {s \in Sats : book[s].remembered /\ conn[s].state # "Live"}

(* autoReconnectAll from the 15 s timer.                                    *)
AutoReconnectAll ==
  /\ Dialled(AutoTargets, "silent") # {}
  /\ ConnectTo(AutoTargets, "silent")
  /\ book' = [s \in Sats |-> Connecting(book[s], s, AutoTargets, "silent")]
  /\ UNCHANGED <<scanning, reverse, srv, asleep, left, forgotten>>

(* The finished handler of startDiscovery's scan.                           *)
ScanFinished ==
  /\ scanning
  /\ scanning' = FALSE
  /\ ConnectTo(AutoTargets, "silent")
  /\ book' = [s \in Sats |-> Connecting(book[s], s, AutoTargets, "silent")]
  /\ UNCHANGED <<reverse, srv, asleep, left, forgotten>>

(* onRetryDue.  A retry whose connection is gone or no longer settled dials *)
(* nobody.                                                                  *)
RetryDue(s) ==
  /\ book[s].armed > 0
  /\ LET dials == conn[s].here /\ conn[s].state \in {"Idle", "Stale"}
         S == IF dials THEN {s} ELSE {}
         b == Connecting(book[s], s, S, "silent")
     IN /\ ConnectTo(S, "silent")
        /\ scanning' = (scanning \/ dials)
        /\ book' = [book EXCEPT ![s] = [b EXCEPT !.armed = @ - 1]]
  /\ UNCHANGED <<reverse, srv, asleep, left, forgotten>>


----------------------------------------------------------------------------
(* The user.                                                               *)
Asked(s) == forgotten' = [forgotten EXCEPT ![s] = FALSE]

StartDiscovery ==
  /\ Spend("user") /\ ~scanning
  /\ scanning' = TRUE
  /\ UNCHANGED <<conn, book, reverse, net, srv, notice, asleep, forgotten>>

UserConnect(s) ==
  /\ Spend("user")
  /\ ConnectTo({s}, "user")
  /\ book' = [book EXCEPT ![s] = Connecting(@, s, {s}, "user")]
  /\ Asked(s)
  /\ UNCHANGED <<scanning, reverse, srv, asleep>>

(* A user's pair request lifts the hold and shows the spinner.              *)
PairAsked(b, posts) == [b EXCEPT !.held = FALSE, !.pairing = @ \/ posts]

PairWithPin(s) ==
  /\ Spend("user") /\ CanSend(s, "pairPin")
  /\ LET c == EnsureConnection(conn[s])
         posts == c.state # "Live"
     IN /\ conn' = [conn EXCEPT ![s] = IF posts THEN MarkConnecting(c) ELSE c]
        /\ book' = [book EXCEPT ![s] = PairAsked(@, posts)]
        /\ InFlight(net \cup (IF posts THEN {Request(s, "pairPin", "user", 0)} ELSE {}))
  /\ ClearNotices /\ Asked(s)
  /\ UNCHANGED <<scanning, reverse, srv, asleep>>

(* requestReversePairing supersedes the attempt on screen and does not      *)
(* touch the connection's session.                                          *)
RequestReversePairing(s) ==
  /\ Spend("user") /\ CanSend(s, "pairReverse")
  /\ reverse' = s
  /\ conn' = [conn EXCEPT ![s] = EnsureConnection(@)]
  /\ book' = [book EXCEPT ![s] = PairAsked(@, TRUE)]
  /\ InFlight({[r EXCEPT !.live = @ /\ r.kind # "pairReverse"] : r \in net}
              \cup {Request(s, "pairReverse", "user", 0)})
  /\ Asked(s)
  /\ UNCHANGED <<scanning, srv, notice, asleep>>

CancelReversePairing ==
  /\ Spend("user") /\ reverse # "none"
  /\ reverse' = "none"
  /\ UNCHANGED <<conn, book, scanning, net, srv, notice, asleep, forgotten>>

(* disconnect: one satellite's connection and record after it, and the      *)
(* DELETE it sends when a session was open.                                 *)
Disconnected(c) == IF c.here THEN MarkDisconnected(c) ELSE c
ReleaseOnDisconnect(s) == IF conn[s].token = 0 THEN {} ELSE Release(s, book[s].key)

DisconnectByUser(s) ==
  /\ Spend("user") /\ CanSend(s, "delete")
  /\ conn' = [conn EXCEPT ![s] = Disconnected(@)]
  /\ book' = [book EXCEPT ![s] = [NextGeneration(@) EXCEPT !.held = TRUE]]
  /\ InFlight(net \cup ReleaseOnDisconnect(s))
  /\ ClearNotices
  /\ UNCHANGED <<scanning, reverse, srv, asleep, forgotten>>

(* An approval request aimed at a forgotten satellite is cancelled.         *)
NeverCancels(s) == reverse   \* mutant: the request outlives the Forget
ReverseAfterForget(s) == IF reverse = s THEN "none" ELSE reverse

(* forget.  pairingInFlight_ keeps its entry: the reply ends it.            *)
Forget(s) ==
  /\ Spend("user") /\ CanSend(s, "delete") /\ CanSend(s, "unpair")
  /\ reverse' = ReverseAfterForget(s)
  /\ conn' = [conn EXCEPT ![s] = NoConn]
  /\ book' = [book EXCEPT ![s] = [NextGeneration(@) EXCEPT
       !.key = 0, !.remembered = FALSE, !.held = FALSE, !.reconciling = FALSE]]
  /\ InFlight(net \cup ReleaseOnDisconnect(s) \cup
       (IF conn[s].here /\ book[s].key # 0
        THEN {Request(s, "unpair", "user", book[s].key)} ELSE {}))
  /\ ClearNotices
  /\ forgotten' = [forgotten EXCEPT ![s] = TRUE]
  /\ UNCHANGED <<scanning, srv, asleep>>

(* prepareForSleep disconnects every connection; resumeFromSleep rescans    *)
(* and reconnects.                                                          *)
PrepareForSleep ==
  /\ ~asleep /\ Spend("sleep")
  /\ \A s \in Sats : CanSend(s, "delete")
  /\ asleep' = TRUE
  /\ conn' = [s \in Sats |-> Disconnected(conn[s])]
  /\ book' = [s \in Sats |-> IF conn[s].here THEN NextGeneration(book[s]) ELSE book[s]]
  /\ InFlight(net \cup UNION {ReleaseOnDisconnect(s) : s \in Sats})
  /\ ClearNotices
  /\ UNCHANGED <<scanning, reverse, srv, forgotten>>

ResumeFromSleep ==
  /\ asleep
  /\ asleep' = FALSE
  /\ scanning' = TRUE
  /\ ConnectTo(AutoTargets, "silent")
  /\ book' = [s \in Sats |-> Connecting(book[s], s, AutoTargets, "silent")]
  /\ UNCHANGED <<reverse, srv, left, forgotten>>

----------------------------------------------------------------------------
(* Replies to a pair request.  endPairingRequest leaves the flag to a newer *)
(* connection; replyTarget then drops a reply whose connection is gone.     *)
Target(r) == conn[r.sat].here /\ r.mine
EndPairingOfTarget(b, r) ==     \* mutant: a reply without a target ends nothing
  [b EXCEPT !.pairing = @ /\ ~Target(r)]
EndPairing(b, r) == [b EXCEPT !.pairing = @ /\ conn[r.sat].here /\ ~r.mine]

PairFailed(c, r) ==
  IF r.intent = "user" \/ r.ans = "refused" THEN MarkDisconnected(c) ELSE MarkStale(c)

PairReply(r) ==
  /\ r.kind \in {"pairPin", "pairConnect"} /\ r.ans # "out"
  /\ LET s == r.sat
         b == EndPairing(book[s], r)
         rest == net \ {r}
     IN \/ /\ ~Target(r)
           /\ book' = [book EXCEPT ![s] = b]
           /\ UNCHANGED conn /\ InFlight(rest)
        \/ /\ Target(r) /\ r.ans = "ok" /\ CanSend(s, "put")
           /\ book' = [book EXCEPT ![s] = [b EXCEPT !.key = r.val]]
           /\ UNCHANGED conn
           /\ InFlight(rest \cup {Request(s, "put", r.intent, r.val)})
        \/ /\ Target(r) /\ r.ans = "badkey"    \* openSession finds no usable key
           /\ book' = [book EXCEPT ![s] = [b EXCEPT !.key = 0]]
           /\ conn' = [conn EXCEPT ![s] = MarkStale(@)] /\ InFlight(rest)
        \/ /\ Target(r) /\ r.ans \in {"auth", "down", "refused"}
           /\ book' = [book EXCEPT ![s] = b]
           /\ conn' = [conn EXCEPT ![s] = PairFailed(@, r)] /\ InFlight(rest)
  /\ ClearNotices
  /\ UNCHANGED <<scanning, reverse, srv, asleep, left, forgotten>>

(* adoptReverseGrant: the connection is found or made by id.                *)
AdoptGrant(s, k, rest, b) ==
  /\ CanSend(s, "put")
  /\ reverse' = "none"
  /\ conn' = [conn EXCEPT ![s] = MarkConnecting(EnsureConnection(@))]
  /\ book' = [book EXCEPT ![s] = [b EXCEPT !.key = k]]
  /\ InFlight(rest \cup {Request(s, "put", "user", k)})
  /\ ClearNotices

(* The same with a key openSession cannot use, so the session ends.         *)
AdoptUnusable(s, rest, b) ==
  /\ reverse' = "none"
  /\ conn' = [conn EXCEPT ![s] = MarkStale(EnsureConnection(@))]
  /\ book' = [book EXCEPT ![s] = [b EXCEPT !.key = 0]]
  /\ InFlight(rest) /\ ClearNotices

(* onReversePairReply: only the attempt on screen acts on it.  A pending    *)
(* answer starts the poll; any other but a grant ends the attempt.          *)
ReversePairReply(r) ==
  /\ r.kind = "pairReverse" /\ r.ans # "out"
  /\ LET b == EndPairing(book[r.sat], r)
         current == reverse = r.sat /\ r.live
     IN \/ /\ current /\ r.ans = "ok"
           /\ AdoptGrant(r.sat, r.val, net \ {r}, b)
        \/ /\ current /\ r.ans = "badkey"
           /\ AdoptUnusable(r.sat, net \ {r}, b)
        \/ /\ ~(current /\ r.ans \in {"ok", "badkey"})
           /\ reverse' = IF current /\ r.ans # "auth" THEN "none" ELSE reverse
           /\ book' = [book EXCEPT ![r.sat] = b]
           /\ UNCHANGED <<conn, notice>> /\ InFlight(net \ {r})
  /\ UNCHANGED <<scanning, srv, asleep, left, forgotten>>

(* onReverseStatusReply, for any attempt awaiting that satellite: an        *)
(* approval is adopted; without one the poll goes on or the attempt ends.   *)
PollReply(r) ==
  /\ r.kind = "poll" /\ r.ans # "out"
  /\ \/ reverse = r.sat /\ r.ans = "ok" /\ AdoptGrant(r.sat, r.val, net \ {r}, book[r.sat])
     \/ reverse = r.sat /\ r.ans = "badkey" /\ AdoptUnusable(r.sat, net \ {r}, book[r.sat])
     \/ /\ reverse # r.sat \/ r.ans \notin {"ok", "badkey"}
        /\ reverse' \in IF reverse = r.sat THEN {reverse, "none"} ELSE {reverse}
        /\ UNCHANGED <<conn, book, notice>> /\ InFlight(net \ {r})
  /\ UNCHANGED <<scanning, srv, asleep, left, forgotten>>

----------------------------------------------------------------------------
(* onSessionReply.                                                         *)
TerminalAuthFailure(s) ==
  /\ conn' = [conn EXCEPT ![s] = MarkStale(@)]
  /\ book' = [book EXCEPT ![s].key = 0]

(* Answers a request whose connection was forgotten.                        *)
PutSuperseded(r) ==
  /\ ~Target(r)
  /\ UNCHANGED <<conn, book>> /\ InFlight(net \ {r})

(* handBackLateGrant: the attempt already ended here.                       *)
PutLate(r) ==
  /\ Target(r) /\ conn[r.sat].state # "Linking"
  /\ CanSend(r.sat, "delete")
  /\ UNCHANGED <<conn, book>>
  /\ InFlight((net \ {r}) \cup
       (IF r.ans \in {"ok", "unusable"} THEN Release(r.sat, book[r.sat].key) ELSE {}))

(* startSession and convergeLateSlots: a slot that changed during the round *)
(* trip is re-sent on its own route.                                        *)
PutGranted(r) ==
  /\ Target(r) /\ conn[r.sat].state = "Linking" /\ r.ans = "ok"
  /\ conn' = [conn EXCEPT ![r.sat] = MarkConnected(@, r.val)]
  /\ book' = [book EXCEPT ![r.sat].remembered = TRUE]
  /\ \/ UNCHANGED left /\ InFlight(net \ {r})
     \/ /\ Spend("slot") /\ CanSend(r.sat, "ctl") /\ book[r.sat].key # 0
        /\ InFlight((net \ {r}) \cup {Request(r.sat, "ctl", "silent", book[r.sat].key)})

(* onGrantUnusable: malformed material or no socket.  No retry.             *)
PutUnusable(r) ==
  /\ Target(r) /\ conn[r.sat].state = "Linking" /\ r.ans = "unusable"
  /\ CanSend(r.sat, "delete")
  /\ conn' = [conn EXCEPT ![r.sat] = MarkDisconnected(@)]
  /\ UNCHANGED book
  /\ InFlight((net \ {r}) \cup Release(r.sat, book[r.sat].key))

(* onSessionRefused and onSessionVersionRefused.                            *)
PutRefused(r) ==
  /\ Target(r) /\ conn[r.sat].state = "Linking"
  /\ \/ r.ans = "unauth" /\ TerminalAuthFailure(r.sat)
     \/ /\ r.ans = "refused"       \* identity changed, no common version
        /\ conn' = [conn EXCEPT ![r.sat] = MarkDisconnected(@)]
        /\ UNCHANGED book
     \/ /\ r.ans \in {"down", "lower"}
        /\ conn' = [conn EXCEPT ![r.sat] =
                      IF r.intent = "user" /\ r.ans = "down"
                      THEN MarkDisconnected(@) ELSE MarkStale(@)]
        /\ book' = [book EXCEPT ![r.sat] = ScheduleRetry(@, r.intent)]
  /\ InFlight(net \ {r})

SessionReply(r) ==
  /\ r.kind = "put" /\ r.ans # "out"
  /\ \/ PutGranted(r)
     \/ /\ PutSuperseded(r) \/ PutLate(r) \/ PutUnusable(r) \/ PutRefused(r)
        /\ UNCHANGED left
  /\ ClearNotices
  /\ UNCHANGED <<scanning, reverse, srv, asleep, forgotten>>

----------------------------------------------------------------------------
ReconciledIfLive(s) ==    \* mutant: cleared only when the reply is acted on
  [book[s] EXCEPT !.reconciling = @ /\ conn[s].state # "Live"]
Reconciled(s) == [book[s] EXCEPT !.reconciling = FALSE]

(* reconcile's GET: looked up by id alone.  A view that matches is adopted; *)
(* one that does not tears the session down and PUTs the desired state.     *)
ReconcileReply(r) ==
  /\ r.kind = "get" /\ r.ans # "out"
  /\ LET s == r.sat
         b == Reconciled(s)
         idle == ~conn[s].here \/ conn[s].state # "Live"
     IN \/ /\ idle \/ r.ans \in {"down", "ok"}
           /\ book' = [book EXCEPT ![s] = b]
           /\ UNCHANGED conn /\ InFlight(net \ {r})
        \/ /\ ~idle
           /\ r.ans = "unauth" \/ (r.ans = "drift" /\ b.key = 0)
           /\ book' = [book EXCEPT ![s] = [b EXCEPT !.key = 0]]
           /\ conn' = [conn EXCEPT ![s] = MarkStale(@)]
           /\ InFlight(net \ {r})
        \/ /\ ~idle /\ r.ans = "drift" /\ b.key # 0 /\ CanSend(s, "put")
           /\ book' = [book EXCEPT ![s] = b]
           /\ conn' = [conn EXCEPT ![s] = MarkConnecting(MarkDisconnected(@))]
           /\ InFlight((net \ {r}) \cup {Request(s, "put", "silent", b.key)})
  /\ ClearNotices
  /\ UNCHANGED <<scanning, reverse, srv, asleep, left, forgotten>>

(* onRekeyReply: a 401 acts before the client is compared.  Adopting the    *)
(* material puts the send counter back, so the next tick clears the flag.   *)
RekeyReply(r) ==
  /\ r.kind = "rekey" /\ r.ans # "out"
  /\ LET s == r.sat IN
     \/ conn[s].here /\ r.ans = "unauth" /\ TerminalAuthFailure(s)
     \/ /\ conn[s].here /\ conn[s].state = "Live" /\ r.live /\ r.ans = "ok"
        /\ conn' = [conn EXCEPT ![s] = [@ EXCEPT !.token = r.val, !.rekeyed = FALSE]]
        /\ UNCHANGED book
     \/ /\ ~conn[s].here \/ (r.ans # "unauth" /\
                             (conn[s].state # "Live" \/ ~r.live \/ r.ans # "ok"))
        /\ UNCHANGED <<conn, book>>
  /\ InFlight(net \ {r}) /\ ClearNotices
  /\ UNCHANGED <<scanning, reverse, srv, asleep, left, forgotten>>

(* reconcile's guard, once drift is seen: Live, single-flight, with a key.  *)
MayReconcile(c, b) == c.state = "Live" /\ ~b.reconciling /\ b.key # 0

(* syncSlot's reply, by id alone, in any state.  A mouse grant that differs *)
(* from what the slots want asks for a reconcile.                           *)
SlotReply(r) ==
  /\ r.kind = "ctl" /\ r.ans # "out"
  /\ LET s == r.sat IN
     \/ /\ conn[s].here /\ r.ans = "unauth"
        /\ TerminalAuthFailure(s) /\ InFlight(net \ {r}) /\ UNCHANGED left
     \/ /\ ~conn[s].here \/ r.ans # "unauth"
        /\ UNCHANGED <<conn, book, left>> /\ InFlight(net \ {r})
     \/ /\ conn[s].here /\ r.ans = "ok" /\ Spend("drift")
        /\ MayReconcile(conn[s], book[s]) /\ CanSend(s, "get")
        /\ UNCHANGED conn
        /\ book' = [book EXCEPT ![s].reconciling = TRUE]
        /\ InFlight((net \ {r}) \cup {Request(s, "get", "silent", book[s].key)})
  /\ ClearNotices
  /\ UNCHANGED <<scanning, reverse, srv, asleep, forgotten>>

(* A slot attached to, or changed on, a live connection: syncSlot.          *)
SlotChanged(s) ==
  /\ conn[s].state = "Live" /\ book[s].key # 0
  /\ Spend("slot") /\ CanSend(s, "ctl")
  /\ net' = net \cup {Request(s, "ctl", "silent", book[s].key)}
  /\ UNCHANGED <<conn, book, scanning, reverse, srv, notice, asleep, forgotten>>

----------------------------------------------------------------------------
(* onAliveTick, once a second while there is a client.                     *)
HasClient(s) == conn[s].token # 0
InForce(s) == conn[s].token = srv[s].token

(* handleServerClose.                                                      *)
TickClosed(s) ==
  /\ HasClient(s) /\ notice[s] # "none"
  /\ \/ notice[s] = "unpaired" /\ TerminalAuthFailure(s)
     \/ /\ notice[s] \in {"replaced", "gone"}
        /\ conn' = [conn EXCEPT ![s] = MarkDisconnected(@)]
        /\ book' = [book EXCEPT ![s] =
                      IF notice[s] = "gone" THEN ScheduleRetry(@, "silent") ELSE @]
  /\ InFlight(net) /\ ClearNotices
  /\ UNCHANGED <<scanning, reverse, srv, asleep, left, forgotten>>

(* Five heartbeats unanswered: startSession's onDead.                       *)
TickDead(s) ==
  /\ HasClient(s) /\ notice[s] = "none" /\ CanSend(s, "delete")
  /\ IF InForce(s) THEN Spend("fault") ELSE UNCHANGED left
  /\ conn' = [conn EXCEPT ![s] = MarkDisconnected(@)]
  /\ book' = [book EXCEPT ![s] = ScheduleRetry(NextGeneration(@), "silent")]
  /\ InFlight(net \cup ReleaseOnDisconnect(s)) /\ ClearNotices
  /\ UNCHANGED <<scanning, reverse, srv, asleep, forgotten>>

(* applySteadyState, the reconcile nudge and maybeRequestRekey.  The flag   *)
(* is raised even when rekey, finding the session faltering, sends nothing. *)
TickAlive(s) ==
  /\ HasClient(s) /\ notice[s] = "none" /\ conn[s].state \in Steady
  /\ \E steady \in Steady, E \in SUBSET {"fault", "drift", "rekey"} :
       LET c == [conn[s] EXCEPT !.state = steady, !.rekeyed = @ \/ "rekey" \in E]
           ks == (IF "drift" \in E THEN {"get"} ELSE {}) \cup
                 (IF "rekey" \in E /\ steady = "Live" /\ book[s].key # 0
                  THEN {"rekey"} ELSE {})
       IN /\ steady # conn[s].state =>
               IF steady = "Live" THEN InForce(s) ELSE InForce(s) = ("fault" \in E)
          /\ "fault" \in E => steady = "Faltering" /\ conn[s].state = "Live"
          /\ "drift" \in E => MayReconcile(c, book[s])
          /\ "rekey" \in E => ~conn[s].rekeyed
          /\ E # {} \/ steady # conn[s].state
          /\ \A e \in E : left[e] > 0
          /\ left' = [e \in Events |-> IF e \in E THEN left[e] - 1 ELSE left[e]]
          /\ \A k \in ks : CanSend(s, k)
          /\ conn' = [conn EXCEPT ![s] = c]
          /\ book' = [book EXCEPT ![s].reconciling = @ \/ "drift" \in E]
          /\ InFlight(net \cup {Request(s, k, "silent", book[s].key) : k \in ks})
  /\ UNCHANGED <<scanning, reverse, srv, notice, asleep, forgotten>>

----------------------------------------------------------------------------
(* The satellite (external): what it does with a request, as far as the    *)
(* manager can tell.  One session a device; a PUT rotates its token.       *)
FreshKeys == Keys \ ({r.val : r \in net} \cup {r.key : r \in net}
                     \cup UNION {{book[s].key, srv[s].key} : s \in Sats})
FreshTokens == Tokens \ ({r.val : r \in net}
                         \cup UNION {{conn[s].token, srv[s].token} : s \in Sats})

Answer(r, a, v) == net' = (net \ {r}) \cup {[r EXCEPT !.ans = a, !.val = v]}

ServePair(r) ==
  /\ r.kind \in PairKinds
  /\ \/ /\ FreshKeys # {}
        /\ LET k == CHOOSE k \in FreshKeys : TRUE
           IN srv' = [srv EXCEPT ![r.sat].key = k] /\ Answer(r, "ok", k)
        /\ UNCHANGED left
     \/ Answer(r, "auth", 0) /\ UNCHANGED <<srv, left>>
     \/ /\ Spend("fault") /\ UNCHANGED srv
        /\ Answer(r, "refused", 0)
     \/ /\ Spend("fault")                       \* a key that does not decode
        /\ srv' = [srv EXCEPT ![r.sat].key = 0] /\ Answer(r, "badkey", 0)

ServePut(r) ==
  /\ r.kind \in {"put", "rekey"}
  /\ \/ r.key # srv[r.sat].key /\ Answer(r, "unauth", 0) /\ UNCHANGED <<srv, left>>
     \/ /\ r.key = srv[r.sat].key /\ FreshTokens # {}
        /\ LET t == CHOOSE t \in FreshTokens : TRUE
           IN /\ srv' = [srv EXCEPT ![r.sat].token = t]
              /\ \/ Answer(r, "ok", t) /\ UNCHANGED left
                 \/ Answer(r, "unusable", 0) /\ Spend("fault")
     \/ Spend("fault") /\ UNCHANGED srv /\ \E a \in {"refused", "lower"} : Answer(r, a, 0)

(* A session that is gone answers 404, which the manager takes as "down".   *)
ServeView(r) ==
  /\ r.kind \in {"get", "ctl"} /\ UNCHANGED srv
  /\ \/ r.key # srv[r.sat].key /\ Answer(r, "unauth", 0) /\ UNCHANGED left
     \/ /\ r.key = srv[r.sat].key
        /\ \/ Answer(r, IF srv[r.sat].token = 0 THEN "down" ELSE "ok", 0) /\ UNCHANGED left
           \/ r.kind = "get" /\ srv[r.sat].token # 0 /\ Spend("drift") /\ Answer(r, "drift", 0)

(* No one reads the reply to either.                                        *)
ServeEnd(r) ==
  /\ r.kind \in {"delete", "unpair"}
  /\ srv' = IF r.key # srv[r.sat].key THEN srv
            ELSE [srv EXCEPT ![r.sat] = [key |-> IF r.kind = "unpair" THEN 0 ELSE @.key,
                                         token |-> 0]]
  /\ net' = net \ {r}
  /\ UNCHANGED left

Serve(r) ==
  /\ r.ans = "out"
  /\ ServePair(r) \/ ServePut(r) \/ ServeView(r) \/ ServeEnd(r)
  /\ UNCHANGED <<conn, book, scanning, reverse, notice, asleep, forgotten>>

(* The operator approves; the poll that asks next carries the key.          *)
OperatorApproves(s) ==
  /\ reverse = s /\ CanSend(s, "poll")
  /\ \A r \in net : r.sat = s => r.kind # "poll" /\ ~(r.kind = "pairReverse" /\ r.live)
  /\ \/ /\ FreshKeys # {} /\ UNCHANGED left
        /\ LET k == CHOOSE k \in FreshKeys : TRUE
           IN /\ srv' = [srv EXCEPT ![s].key = k]
              /\ net' = net \cup {[Request(s, "poll", "user", 0) EXCEPT !.ans = "ok", !.val = k]}
     \/ /\ Spend("fault")                       \* a key that does not decode
        /\ srv' = [srv EXCEPT ![s].key = 0]
        /\ net' = net \cup {[Request(s, "poll", "user", 0) EXCEPT !.ans = "badkey"]}
  /\ UNCHANGED <<conn, book, scanning, reverse, notice, asleep, forgotten>>

(* The satellite ends the session; the datagram that says so may be lost.   *)
CloseSession(s) ==
  /\ Spend("close") /\ srv[s].token # 0
  /\ \E why \in {"unpaired", "replaced", "gone"}, heard \in BOOLEAN :
       /\ srv' = [srv EXCEPT ![s] = [key |-> IF why = "unpaired" THEN 0 ELSE @.key, token |-> 0]]
       /\ notice' = [notice EXCEPT ![s] = IF heard /\ InForce(s) THEN why ELSE @]
  /\ UNCHANGED <<conn, book, scanning, reverse, net, asleep, forgotten>>

(* A request or its reply is lost, or times out.                            *)
Lose(r) ==
  /\ Spend("fault") /\ r.ans # "down"
  /\ IF r.kind \in {"delete", "unpair"} THEN net' = net \ {r} ELSE Answer(r, "down", 0)
  /\ UNCHANGED <<conn, book, scanning, reverse, srv, notice, asleep, forgotten>>

----------------------------------------------------------------------------
Reply(r) ==
  PairReply(r) \/ ReversePairReply(r) \/ PollReply(r) \/ SessionReply(r)
    \/ ReconcileReply(r) \/ RekeyReply(r) \/ SlotReply(r)

Next ==
  \/ AutoReconnectAll \/ StartDiscovery \/ ScanFinished
  \/ PrepareForSleep \/ ResumeFromSleep \/ CancelReversePairing
  \/ \E s \in Sats :
       \/ UserConnect(s) \/ PairWithPin(s) \/ RequestReversePairing(s)
       \/ DisconnectByUser(s) \/ Forget(s)
       \/ RetryDue(s) \/ SlotChanged(s)
       \/ TickClosed(s) \/ TickDead(s) \/ TickAlive(s)
       \/ OperatorApproves(s) \/ CloseSession(s)
  \/ \E r \in net : Reply(r) \/ Serve(r) \/ Lose(r)

Spec == Init /\ [][Next]_vars


----------------------------------------------------------------------------
(* Scheduling.  The sweep and the alive tick are periodic timers, requests  *)
(* are answered or time out, replies reach the event loop, and a machine    *)
(* that prepares to sleep resumes.  No fairness is asked of the user, the   *)
(* faults, the retries or the scan.                                         *)
Progress(s, k, i) ==
  \E r \in net : r.sat = s /\ r.kind = k /\ r.id = i /\ (Reply(r) \/ Serve(r))

Fairness ==
  /\ WF_vars(AutoReconnectAll) /\ WF_vars(ResumeFromSleep)
  /\ \A s \in Sats :
       /\ WF_vars(TickClosed(s)) /\ WF_vars(TickDead(s)) /\ WF_vars(TickAlive(s))
       /\ \A k \in Kinds, i \in Ids : WF_vars(Progress(s, k, i))

FairSpec == Spec /\ Fairness

----------------------------------------------------------------------------
(* Properties.                                                             *)

(* Every variable keeps its type.                                           *)
TypeOK ==
  /\ conn \in [Sats -> Conns]
  /\ book \in [Sats -> Books]
  /\ scanning \in BOOLEAN /\ asleep \in BOOLEAN
  /\ reverse \in Sats \cup {"none"}
  /\ net \subseteq Requests
  /\ srv \in [Sats -> [key : Keys \cup {0}, token : Tokens \cup {0}]]
  /\ notice \in [Sats -> {"none", "unpaired", "replaced", "gone"}]
  /\ left \in [Events -> Nat]
  /\ forgotten \in [Sats -> BOOLEAN]

(* A connection shown as connecting has a request of its own in flight that *)
(* will end it.  Neither the sweep nor a retry dials a Linking connection,  *)
(* so one whose answer was dropped would show "Connecting" until a restart. *)
LinkingIsAnswered ==
  \A s \in Sats : conn[s].state = "Linking" =>
    \E r \in net : r.sat = s /\ r.mine /\ r.kind \in {"pairPin", "pairConnect", "put"}

(* A connection holds a client, and with it a socket and two threads, in    *)
(* the two steady states and in no other: none is left behind by a way out  *)
(* of a session, and none is missing from one.  With the types.             *)
SteadyIffClient ==
  /\ TypeOK
  /\ \A s \in Sats : (conn[s].state \in Steady) <=> (conn[s].token # 0)

(* What the user forgot stays forgotten until the user asks for it: no      *)
(* reply, approval, scan or retry from before brings back the connection,   *)
(* the key or the remembered row.                                           *)
ForgottenStaysGone ==
  \A s \in Sats : forgotten[s] =>
    ~conn[s].here /\ book[s].key = 0 /\ ~book[s].remembered

(* The row's pairing spinner is backed by a pair request in flight, and on  *)
(* an existing connection by one of its own.                                *)
PairingFlagIsBacked ==
  \A s \in Sats : book[s].pairing =>
    \E r \in net : r.sat = s /\ r.kind \in PairKinds /\ (conn[s].here => r.mine)

(* The single-flight flag of the self-heal loop is backed by a GET in       *)
(* flight; a flag left behind would switch the loop off for good.           *)
ReconcileFlagIsBacked ==
  \A s \in Sats : book[s].reconciling => \E r \in net : r.sat = s /\ r.kind = "get"

(* A satellite the user holds down is brought up by no sweep, scan, retry   *)
(* or late reply: only an approval the user had asked for can.              *)
Down == {"Idle", "Stale"}
HeldStaysDown ==
  [][\A s \in Sats :
       /\ book[s].held /\ book'[s].held
       /\ conn[s].state \in Down /\ conn'[s].state \notin Down
       => reverse = s /\ reverse' = "none"]_vars

(* Once the outside events stop, a satellite that is remembered, paired and *)
(* not held is Live again and again, whatever was in flight.                *)
Reconnects ==
  \A s \in Sats : []<>(\/ conn[s].state = "Live" \/ book[s].held
                       \/ ~book[s].remembered \/ book[s].key = 0)


----------------------------------------------------------------------------
(* What comments of the code say that some behaviour contradicts.          *)

Consumed(r) == ~\E q \in net' : q.sat = r.sat /\ q.kind = r.kind /\ q.id = r.id

(* handBackLateGrant's comment: the attempt a late grant answers "already   *)
(* ended here", so handing the grant back leaves a live session alone.      *)
HandBackSparesLive ==
  [][\A s \in Sats : conn[s].state = "Live" /\ conn'[s].state = "Live" =>
       {r \in net' : r.sat = s /\ r.kind = "delete"} \subseteq net]_vars

(* connections_' comment: a reply from before a Forget does not reach the   *)
(* new object filed under the same id.                                      *)
StaleReplyIsDropped ==
  [][\A r \in net : ~r.mine /\ Consumed(r) => conn'[r.sat] = conn[r.sat]]_vars

(* disconnectByUser's comment: no silent reconnect dials a held satellite.  *)
HeldIsNotDialled ==
  [][\A s \in Sats : book[s].held /\ book'[s].held =>
       {r \in net' : r.sat = s /\ r.intent = "silent"
                     /\ r.kind \in {"pairConnect", "put"} /\ r.ans = "out" /\ r.mine}
       \subseteq net]_vars

(* onTerminalAuthFailure's comment: what it drops is the key of a revoked   *)
(* device, or no usable key at all; never one the satellite accepts.        *)
DropsOnlyRefusedKeys ==
  [][\A s \in Sats : book[s].key # 0 /\ book'[s].key = 0 /\ conn'[s].here =>
       book[s].key # srv[s].key]_vars

(* onSessionVersionRefused's comment: a lower common version is re-offered  *)
(* by the retry rather than dead-ending the user.                           *)
LowerOfferIsRetried ==
  [][\A r \in net :
       /\ r.kind = "put" /\ r.ans = "lower" /\ Consumed(r)
       /\ Target(r) /\ conn[r.sat].state = "Linking"
       => book'[r.sat].armed > 0]_vars

============================================================================
