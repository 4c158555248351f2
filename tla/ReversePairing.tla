--------------------------- MODULE ReversePairing ---------------------------
(***************************************************************************)
(* Host-initiated pairing: the app shows a PIN, POSTs it, and polls until  *)
(* the operator approves at the satellite.  requestReversePairing to       *)
(* finishReverse of src/src/Network/WifiConnectionManager.cpp, with        *)
(* core/reducer/ReversePairing.h and classifyApproval of RestOutcome.h.    *)
(*                                                                         *)
(* One satellite, asked again and again.  A drawn PIN is the number of its *)
(* attempt (two draws of one PIN are left out), time is counted in polls.  *)
(* What a grant does to the connection is in WifiConnectionManager.        *)
(***************************************************************************)
EXTENDS Integers, FiniteSets

CONSTANTS
  Attempts,   \* bound on the attempts the user starts
  Deadline    \* kReverseDeadlineMs, in polls

ASSUME AttemptsAssumption == Attempts \in Nat \ {0}
ASSUME DeadlineAssumption == Deadline \in Nat \ {0}

VARIABLES
  phase,      \* reversePhase_
  attempt,    \* reversePin_ of the attempt armed last
  started,    \* attempts made so far
  elapsed,    \* reverseElapsedMs_
  sawPending, \* reverseSawPending_
  polling,    \* reversePollInFlight_
  timer,      \* reverseTimer_ is running
  net,        \* the POSTs and GETs in flight
  row         \* the satellite's row for this device

vars == <<phase, attempt, started, elapsed, sawPending, polling, timer, net, row>>

Ends == {"Approved", "Declined", "TimedOut", "VersionMismatch", "IdentityChanged"}
Answers == {"out", "granted", "pending", "none", "denied", "refused", "version", "identity", "down"}
Requests == [kind : {"post", "poll"}, of : 1 .. Attempts, at : 0 .. Deadline, reply : Answers]

Awaiting == phase = "AwaitingApproval"

Init ==
  /\ phase = "Idle" /\ attempt = 0 /\ started = 0 /\ elapsed = 0
  /\ sawPending = FALSE /\ polling = FALSE /\ timer = FALSE
  /\ net = {} /\ row = "none"

----------------------------------------------------------------------------
(* requestReversePairing: cancels what is on screen, arms a new attempt.    *)
RequestReversePairing ==
  /\ started < Attempts
  /\ started' = started + 1 /\ attempt' = started + 1
  /\ phase' = "AwaitingApproval"
  /\ elapsed' = 0 /\ sawPending' = FALSE /\ polling' = FALSE /\ timer' = FALSE
  /\ net' = net \cup {[kind |-> "post", of |-> started + 1, at |-> 0, reply |-> "out"]}
  /\ UNCHANGED row

(* cancelReversePairing, from the sheet or from forget.                     *)
CancelReversePairing ==
  /\ phase # "Idle"
  /\ phase' = "Idle" /\ attempt' = 0 /\ elapsed' = 0
  /\ timer' = FALSE /\ polling' = FALSE
  /\ UNCHANGED <<started, sawPending, net, row>>

(* finishReverse, and adoptReverseGrant, which leaves the poll flag alone.  *)
Finish(terminal) ==
  /\ phase' = terminal /\ timer' = FALSE
  /\ polling' = IF terminal = "Approved" THEN polling ELSE FALSE

KeepOn == UNCHANGED <<phase, timer, polling>>

RefusalIgnored == KeepOn           \* mutant: a refused POST ends nothing
PairRefused == Finish("TimedOut")

(* onReversePairReply: reverseAttemptIsCurrent, then applyReverseOutcome.   *)
AnyAwaiting(r) == phase # "Idle"   \* mutant: any attempt on screen will do
AttemptIsCurrent(r) == Awaiting /\ attempt = r.of

PairReply(r) ==
  /\ r.kind = "post" /\ r.reply # "out"
  /\ net' = net \ {r}
  /\ \/ ~AttemptIsCurrent(r) /\ KeepOn
     \/ /\ AttemptIsCurrent(r)
        /\ \/ r.reply = "granted" /\ Finish("Approved")
           \/ r.reply = "pending" /\ timer' = TRUE /\ UNCHANGED <<phase, polling>>
           \/ r.reply = "version" /\ Finish("VersionMismatch")
           \/ r.reply = "identity" /\ Finish("IdentityChanged")
           \/ r.reply \in {"down", "refused"} /\ PairRefused
  /\ UNCHANGED <<attempt, started, elapsed, sawPending, row>>

(* pollReverseStatus, on the 1 s timer.                                     *)
PollReverseStatus ==
  /\ timer /\ Awaiting /\ ~polling
  /\ polling' = TRUE
  /\ elapsed' = elapsed + 1
  /\ net' = net \cup {[kind |-> "poll", of |-> attempt, at |-> elapsed + 1, reply |-> "out"]}
  /\ UNCHANGED <<phase, attempt, started, sawPending, timer, row>>

(* classifyApproval and nextReversePairingAction.                           *)
Classify(reply) ==
  CASE reply = "granted" -> "Approved"
    [] reply = "denied" \/ (reply = "none" /\ sawPending) -> "Declined"
    [] OTHER -> "Pending"

NextAction(verdict) ==
  IF verdict # "Pending" THEN verdict ELSE IF elapsed >= Deadline THEN "TimedOut" ELSE "Poll"

(* onReverseStatusReply, whose superseded replies are told by server alone. *)
PollStays == polling               \* mutant: a reply leaves the poll flag set
PollFreed == FALSE

StatusReply(r) ==
  LET action == IF r.reply = "identity" THEN "IdentityChanged"
                ELSE NextAction(Classify(r.reply)) IN
  /\ r.kind = "poll" /\ r.reply # "out"
  /\ net' = net \ {r}
  /\ IF Awaiting /\ action # "Poll"
     THEN phase' = action /\ timer' = FALSE
     ELSE UNCHANGED <<phase, timer>>
  /\ polling' = PollFreed
  /\ sawPending' = (sawPending \/ (Awaiting /\ r.reply = "pending"))
  /\ UNCHANGED <<attempt, started, elapsed, row>>

----------------------------------------------------------------------------
(* The satellite and its operator (external).                               *)
Answer(r, a) == net' = (net \ {r}) \cup {[r EXCEPT !.reply = a]}

Serve(r) ==
  /\ r.reply = "out"
  /\ \/ r.kind = "post" /\ Answer(r, "pending") /\ row' = "pending"
     \/ r.kind = "post" /\ row' = row /\ \E a \in {"granted", "refused", "version"} : Answer(r, a)
     \/ r.kind = "poll" /\ Answer(r, row) /\ row' = row
     \/ \E a \in {"down", "identity"} : Answer(r, a) /\ row' = row
  /\ UNCHANGED <<phase, attempt, started, elapsed, sawPending, polling, timer>>

Operator ==
  /\ row = "pending" /\ row' \in {"granted", "none", "denied"}
  /\ UNCHANGED <<phase, attempt, started, elapsed, sawPending, polling, timer, net>>

----------------------------------------------------------------------------
Next ==
  \/ RequestReversePairing \/ CancelReversePairing \/ PollReverseStatus \/ Operator
  \/ \E r \in net : PairReply(r) \/ StatusReply(r) \/ Serve(r)

Spec == Init /\ [][Next]_vars

(* The timer fires, and every request is answered or times out and its      *)
(* reply is delivered.  The user and the operator owe nothing.              *)
Fairness ==
  /\ WF_vars(PollReverseStatus)
  /\ \A r \in Requests : WF_vars(r \in net /\ Serve(r))
                         /\ WF_vars(r \in net /\ (PairReply(r) \/ StatusReply(r)))

FairSpec == Spec /\ Fairness

----------------------------------------------------------------------------
(* Every variable keeps its type; an attempt never polls past its deadline  *)
(* (nextReversePairingAction: at elapsed == deadlineMs the budget is spent). *)
TypeOK ==
  /\ phase \in Ends \cup {"Idle", "AwaitingApproval"}
  /\ attempt \in 0 .. Attempts /\ started \in 0 .. Attempts
  /\ elapsed \in 0 .. Deadline
  /\ sawPending \in BOOLEAN /\ polling \in BOOLEAN /\ timer \in BOOLEAN
  /\ net \subseteq Requests /\ row \in {"none", "denied", "pending", "granted"}

(* The poll timer runs only for an attempt that still awaits approval: no   *)
(* late reply of a superseded POST starts a poll loop of its own.           *)
TimerOnlyWhileAwaiting == timer => Awaiting

(* The poll flag, while an attempt is on screen, stands for a GET that is   *)
(* out: a flag left set would stall every later poll.                       *)
PollFlagIsBacked == Awaiting /\ polling => \E r \in net : r.kind = "poll"

(* An approval request never hangs: by approval, refusal or deadline it     *)
(* leaves AwaitingApproval, or a new request takes its place.               *)
AttemptEnds == \A n \in 1 .. Attempts : (Awaiting /\ attempt = n) ~> ~(Awaiting /\ attempt = n)

(* onReverseStatusReply: a reply that a cancel or a restart raced is        *)
(* superseded, so it ends or marks no other attempt.                        *)
SupersededPollIsDropped ==
  [][\A r \in net \ net' : r.kind = "poll" /\ r.of # attempt
       => UNCHANGED <<phase, sawPending>>]_vars

(* pollReverseStatus: a slow GET does not stack behind the timer, so two    *)
(* are never out together.                                                  *)
OnePollAtATime == Cardinality({r \in net : r.kind = "poll"}) <= 1

============================================================================
