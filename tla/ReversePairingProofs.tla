------------------------ MODULE ReversePairingProofs ------------------------
(***************************************************************************)
(* The safety of ReversePairing for any number of attempts and any         *)
(* deadline.  The type invariant bounds elapsed by Deadline, which needs   *)
(* DeadlinePolls: an attempt at its deadline has its last poll out, so the *)
(* timer sends no other, and any reply then ends the attempt.              *)
(***************************************************************************)
EXTENDS ReversePairing, TLAPS

DeadlinePolls == Awaiting /\ elapsed = Deadline => polling
AttemptOnScreen == Awaiting => attempt # 0

IInv == TypeOK /\ TimerOnlyWhileAwaiting /\ PollFlagIsBacked /\ DeadlinePolls /\ AttemptOnScreen

(* The initial state, nothing asked, satisfies the invariant.               *)
LEMMA InitInv == Init => IInv
<1> SUFFICES ASSUME Init PROVE IInv
  OBVIOUS
<1> USE AttemptsAssumption, DeadlineAssumption
<1> USE DEF Init, AttemptsAssumption, DeadlineAssumption
<1>1. TypeOK
  <2>1. phase \in Ends \cup {"Idle", "AwaitingApproval"} /\ row \in {"none", "denied", "pending", "granted"}
    OBVIOUS
  <2>2. attempt \in 0 .. Attempts /\ started \in 0 .. Attempts /\ elapsed \in 0 .. Deadline
    OBVIOUS
  <2>3. sawPending \in BOOLEAN /\ polling \in BOOLEAN /\ timer \in BOOLEAN
    BY Zenon
  <2>4. QED
    BY <2>1, <2>2, <2>3 DEF TypeOK
<1>2. QED
  BY <1>1 DEF IInv, TimerOnlyWhileAwaiting, PollFlagIsBacked, DeadlinePolls, AttemptOnScreen,
              Awaiting

(* Each handler of the reverse flow, and each step of the satellite, keeps  *)
(* the invariant.                                                           *)
LEMMA StepInv == IInv /\ [Next]_vars => IInv'
<1> SUFFICES ASSUME IInv, [Next]_vars PROVE IInv'
  OBVIOUS
<1> USE AttemptsAssumption, DeadlineAssumption
<1> USE DEF IInv, TypeOK, TimerOnlyWhileAwaiting, PollFlagIsBacked, DeadlinePolls,
            AttemptOnScreen, Awaiting, AttemptsAssumption, DeadlineAssumption
<1>1. CASE RequestReversePairing
  <2>1. phase' \in Ends \cup {"Idle", "AwaitingApproval"}
    BY <1>1 DEF RequestReversePairing, Ends
  <2>2. attempt' \in 0 .. Attempts /\ started' \in 0 .. Attempts
    BY <1>1 DEF RequestReversePairing
  <2>3. elapsed' \in 0 .. Deadline
    BY <1>1 DEF RequestReversePairing
  <2>4. sawPending' \in BOOLEAN /\ polling' \in BOOLEAN /\ timer' \in BOOLEAN
    BY <1>1, Zenon DEF RequestReversePairing
  <2>5. net' \subseteq Requests
    BY <1>1 DEF RequestReversePairing, Requests, Answers
  <2>6. row' \in {"none", "denied", "pending", "granted"}
    BY <1>1 DEF RequestReversePairing
  <2>7. TimerOnlyWhileAwaiting'
    BY <1>1 DEF RequestReversePairing
  <2>8. PollFlagIsBacked'
    BY <1>1 DEF RequestReversePairing
  <2>9. DeadlinePolls'
    BY <1>1 DEF RequestReversePairing
  <2>10. AttemptOnScreen'
    BY <1>1 DEF RequestReversePairing
  <2>11. QED
    BY <2>1, <2>2, <2>3, <2>4, <2>5, <2>6, <2>7, <2>8, <2>9, <2>10
<1>2. CASE CancelReversePairing
  <2>1. phase' \in Ends \cup {"Idle", "AwaitingApproval"}
    BY <1>2 DEF CancelReversePairing, Ends
  <2>2. attempt' \in 0 .. Attempts /\ started' \in 0 .. Attempts
    BY <1>2 DEF CancelReversePairing
  <2>3. elapsed' \in 0 .. Deadline
    BY <1>2 DEF CancelReversePairing
  <2>4. sawPending' \in BOOLEAN /\ polling' \in BOOLEAN /\ timer' \in BOOLEAN
    BY <1>2, Zenon DEF CancelReversePairing
  <2>5. net' \subseteq Requests
    BY <1>2 DEF CancelReversePairing, Requests, Answers
  <2>6. row' \in {"none", "denied", "pending", "granted"}
    BY <1>2 DEF CancelReversePairing
  <2>7. TimerOnlyWhileAwaiting'
    BY <1>2 DEF CancelReversePairing
  <2>8. PollFlagIsBacked'
    BY <1>2 DEF CancelReversePairing
  <2>9. DeadlinePolls'
    BY <1>2 DEF CancelReversePairing
  <2>10. AttemptOnScreen'
    BY <1>2 DEF CancelReversePairing
  <2>11. QED
    BY <2>1, <2>2, <2>3, <2>4, <2>5, <2>6, <2>7, <2>8, <2>9, <2>10
<1>3. CASE PollReverseStatus
  <2>1. phase' \in Ends \cup {"Idle", "AwaitingApproval"}
    BY <1>3 DEF PollReverseStatus, Ends
  <2>2. attempt' \in 0 .. Attempts /\ started' \in 0 .. Attempts
    BY <1>3 DEF PollReverseStatus
  <2>3. elapsed' \in 0 .. Deadline
    BY <1>3 DEF PollReverseStatus
  <2>4. sawPending' \in BOOLEAN /\ polling' \in BOOLEAN /\ timer' \in BOOLEAN
    BY <1>3 DEF PollReverseStatus
  <2>5. net' \subseteq Requests
    BY <1>3 DEF PollReverseStatus, Requests, Answers
  <2>6. row' \in {"none", "denied", "pending", "granted"}
    BY <1>3 DEF PollReverseStatus
  <2>7. TimerOnlyWhileAwaiting'
    BY <1>3 DEF PollReverseStatus
  <2>8. PollFlagIsBacked'
    <3> DEFINE r == [kind |-> "poll", of |-> attempt, at |-> elapsed + 1, reply |-> "out"]
    <3>1. r \in net' /\ r.kind = "poll"
      BY <1>3 DEF PollReverseStatus
    <3>2. QED
      BY <3>1
  <2>9. DeadlinePolls'
    BY <1>3 DEF PollReverseStatus
  <2>10. AttemptOnScreen'
    BY <1>3 DEF PollReverseStatus
  <2>11. QED
    BY <2>1, <2>2, <2>3, <2>4, <2>5, <2>6, <2>7, <2>8, <2>9, <2>10
<1>4. CASE Operator
  <2>1. phase' \in Ends \cup {"Idle", "AwaitingApproval"}
    BY <1>4 DEF Operator, Ends
  <2>2. attempt' \in 0 .. Attempts /\ started' \in 0 .. Attempts
    BY <1>4 DEF Operator
  <2>3. elapsed' \in 0 .. Deadline
    BY <1>4 DEF Operator
  <2>4. sawPending' \in BOOLEAN /\ polling' \in BOOLEAN /\ timer' \in BOOLEAN
    BY <1>4 DEF Operator
  <2>5. net' \subseteq Requests
    BY <1>4 DEF Operator, Requests, Answers
  <2>6. row' \in {"none", "denied", "pending", "granted"}
    BY <1>4 DEF Operator
  <2>7. TimerOnlyWhileAwaiting'
    BY <1>4 DEF Operator
  <2>8. PollFlagIsBacked'
    BY <1>4 DEF Operator
  <2>9. DeadlinePolls'
    BY <1>4 DEF Operator
  <2>10. AttemptOnScreen'
    BY <1>4 DEF Operator
  <2>11. QED
    BY <2>1, <2>2, <2>3, <2>4, <2>5, <2>6, <2>7, <2>8, <2>9, <2>10
<1>5. ASSUME NEW r \in net, PairReply(r) PROVE IInv'
  <2>1. phase' \in Ends \cup {"Idle", "AwaitingApproval"}
    BY <1>5, Zenon DEF PairReply, KeepOn, Finish, PairRefused, AttemptIsCurrent, Ends
  <2>2. attempt' \in 0 .. Attempts /\ started' \in 0 .. Attempts
    BY <1>5 DEF PairReply, KeepOn, Finish, PairRefused, AttemptIsCurrent
  <2>3. elapsed' \in 0 .. Deadline
    BY <1>5 DEF PairReply, KeepOn, Finish, PairRefused, AttemptIsCurrent
  <2>4. sawPending' \in BOOLEAN /\ polling' \in BOOLEAN /\ timer' \in BOOLEAN
    BY <1>5, Zenon DEF PairReply, KeepOn, Finish, PairRefused, AttemptIsCurrent
  <2>5. net' \subseteq Requests
    BY <1>5 DEF PairReply, KeepOn, Finish, PairRefused, AttemptIsCurrent, Requests, Answers
  <2>6. row' \in {"none", "denied", "pending", "granted"}
    BY <1>5 DEF PairReply, KeepOn, Finish, PairRefused, AttemptIsCurrent
  <2>7. TimerOnlyWhileAwaiting'
    BY <1>5, Zenon DEF PairReply, KeepOn, Finish, PairRefused, AttemptIsCurrent
  <2>8. PollFlagIsBacked'
    BY <1>5, Zenon DEF PairReply, KeepOn, Finish, PairRefused, AttemptIsCurrent
  <2>9. DeadlinePolls'
    BY <1>5 DEF PairReply, KeepOn, Finish, PairRefused, AttemptIsCurrent
  <2>10. AttemptOnScreen'
    BY <1>5 DEF PairReply, KeepOn, Finish, PairRefused, AttemptIsCurrent
  <2>11. QED
    BY <2>1, <2>2, <2>3, <2>4, <2>5, <2>6, <2>7, <2>8, <2>9, <2>10
<1>6. ASSUME NEW r \in net, StatusReply(r) PROVE IInv'
  <2>1. phase' \in Ends \cup {"Idle", "AwaitingApproval"}
    BY <1>6 DEF StatusReply, NextAction, Classify, PollFreed, Ends
  <2>2. attempt' \in 0 .. Attempts /\ started' \in 0 .. Attempts
    BY <1>6 DEF StatusReply, NextAction, Classify, PollFreed
  <2>3. elapsed' \in 0 .. Deadline
    BY <1>6 DEF StatusReply, NextAction, Classify, PollFreed
  <2>4. sawPending' \in BOOLEAN /\ polling' \in BOOLEAN /\ timer' \in BOOLEAN
    BY <1>6, Zenon DEF StatusReply, NextAction, Classify, PollFreed
  <2>5. net' \subseteq Requests
    BY <1>6 DEF StatusReply, NextAction, Classify, PollFreed, Requests, Answers
  <2>6. row' \in {"none", "denied", "pending", "granted"}
    BY <1>6 DEF StatusReply, NextAction, Classify, PollFreed
  <2>7. TimerOnlyWhileAwaiting'
    BY <1>6, Zenon DEF StatusReply, NextAction, Classify, PollFreed
  <2>8. PollFlagIsBacked'
    BY <1>6 DEF StatusReply, NextAction, Classify, PollFreed
  <2>9. DeadlinePolls'
    BY <1>6 DEF StatusReply, NextAction, Classify, PollFreed
  <2>10. AttemptOnScreen'
    BY <1>6 DEF StatusReply, NextAction, Classify, PollFreed
  <2>11. QED
    BY <2>1, <2>2, <2>3, <2>4, <2>5, <2>6, <2>7, <2>8, <2>9, <2>10
<1>7. ASSUME NEW r \in net, Serve(r) PROVE IInv'
  <2>1. phase' \in Ends \cup {"Idle", "AwaitingApproval"}
    BY <1>7 DEF Serve, Answer, Ends
  <2>2. attempt' \in 0 .. Attempts /\ started' \in 0 .. Attempts
    BY <1>7 DEF Serve, Answer
  <2>3. elapsed' \in 0 .. Deadline
    BY <1>7 DEF Serve, Answer
  <2>4. sawPending' \in BOOLEAN /\ polling' \in BOOLEAN /\ timer' \in BOOLEAN
    BY <1>7 DEF Serve, Answer
  <2>5. net' \subseteq Requests
    BY <1>7 DEF Serve, Answer, Requests, Answers
  <2>6. row' \in {"none", "denied", "pending", "granted"}
    BY <1>7 DEF Serve, Answer
  <2>7. TimerOnlyWhileAwaiting'
    BY <1>7 DEF Serve, Answer
  <2>8. PollFlagIsBacked'
    <3>1. PICK a \in Answers : net' = (net \ {r}) \cup {[r EXCEPT !.reply = a]}
      BY <1>7 DEF Serve, Answer, Answers
    <3>2. [r EXCEPT !.reply = a].kind = r.kind
      BY DEF Requests
    <3>3. ASSUME NEW p \in net, p.kind = "poll" PROVE \E q \in net' : q.kind = "poll"
      BY <3>1, <3>2, <3>3, Zenon
    <3>4. QED
      BY <1>7, <3>3 DEF Serve
  <2>9. DeadlinePolls'
    BY <1>7 DEF Serve, Answer
  <2>10. AttemptOnScreen'
    BY <1>7 DEF Serve, Answer
  <2>11. QED
    BY <2>1, <2>2, <2>3, <2>4, <2>5, <2>6, <2>7, <2>8, <2>9, <2>10
<1>8. CASE UNCHANGED vars
  <2>1. phase' \in Ends \cup {"Idle", "AwaitingApproval"}
    BY <1>8 DEF vars, Ends
  <2>2. attempt' \in 0 .. Attempts /\ started' \in 0 .. Attempts
    BY <1>8 DEF vars
  <2>3. elapsed' \in 0 .. Deadline
    BY <1>8 DEF vars
  <2>4. sawPending' \in BOOLEAN /\ polling' \in BOOLEAN /\ timer' \in BOOLEAN
    BY <1>8 DEF vars
  <2>5. net' \subseteq Requests
    BY <1>8 DEF vars, Requests, Answers
  <2>6. row' \in {"none", "denied", "pending", "granted"}
    BY <1>8 DEF vars
  <2>7. TimerOnlyWhileAwaiting'
    BY <1>8 DEF vars
  <2>8. PollFlagIsBacked'
    BY <1>8 DEF vars
  <2>9. DeadlinePolls'
    BY <1>8 DEF vars
  <2>10. AttemptOnScreen'
    BY <1>8 DEF vars
  <2>11. QED
    BY <2>1, <2>2, <2>3, <2>4, <2>5, <2>6, <2>7, <2>8, <2>9, <2>10
<1>9. QED
  BY <1>1, <1>2, <1>3, <1>4, <1>5, <1>6, <1>7, <1>8 DEF Next

(* The invariant holds throughout.                                          *)
THEOREM Invariance == Spec => []IInv
  BY InitInv, StepInv, PTL DEF Spec

(* Every variable keeps its type, and no attempt polls past its deadline,   *)
(* however many attempts overlap and whichever replies come late.           *)
THEOREM TypeCorrect == Spec => []TypeOK
  BY Invariance, PTL DEF IInv

(* No reply of a superseded POST leaves the poll timer running without an   *)
(* attempt awaiting approval.                                               *)
THEOREM TimerSafety == Spec => []TimerOnlyWhileAwaiting
  BY Invariance, PTL DEF IInv

(* The poll flag never stalls an attempt: a GET is out whenever it is set.  *)
THEOREM PollFlagSafety == Spec => []PollFlagIsBacked
  BY Invariance, PTL DEF IInv

============================================================================
