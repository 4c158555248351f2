------------------------ MODULE SpeakerPlayoutProofs ------------------------
(* What the playout engine promises, for any queue capacity, window, span   *)
(* of sequence numbers, connections and scenes: its queue is the bounded    *)
(* FIFO, its jitter windows never run out of slots, its device queues stay  *)
(* under their ceiling, and its sleeping thread is woken by whoever looks   *)
(* at it next.                                                              *)
EXTENDS SpeakerPlayout, MpscQueueProofs, FiniteSetTheorems, WellFoundedInduction, TLAPS

----------------------------------------------------------------------------
(* The engine drives its queue only through push and pop.                   *)

(* A receive thread's step, or the voices', is the queue's or leaves the    *)
(* queue alone.                                                             *)
LEMMA ProducerStepsQueue ==
  ASSUME NEW p \in Producers,
         \/ Deliver(p) \/ DeliverStep(p) \/ LookAhead(p) \/ NotifyLoad(p) \/ NotifyExchange(p)
         \/ CloseVoice(p) \/ OpenVoice(p) \/ DevicePlays(p)
  PROVE  [QueueNext]_queueVars
<1>1. CASE Deliver(p)
  <2>1. PICK a \in Arrivals(p) : a.frame \in Items /\ PushBegin(p, a.frame)
    BY <1>1 DEF Deliver
  <2> QED
    BY <2>1 DEF QueueNext
<1>2. CASE DeliverStep(p)
  BY <1>2 DEF DeliverStep, QueueNext
<1>3. CASE NotifyLoad(p)
  <2>1. \/ push' = [push EXCEPT ![p] = NotPushing]
        \/ push' = [push EXCEPT ![p] = [push[p] EXCEPT !.pc = "exchange"]]
    BY <1>3, Zenon DEF NotifyLoad
  <2>2. PushReturn(p)
    BY <1>3, <2>1 DEF NotifyLoad, PushReturn
  <2> QED
    BY <2>2 DEF QueueNext
<1>4. CASE NotifyExchange(p)
  <2>1. PushReturn(p)
    BY <1>4 DEF NotifyExchange, PushReturn
  <2> QED
    BY <2>1 DEF QueueNext
<1>5. CASE LookAhead(p) \/ CloseVoice(p) \/ OpenVoice(p) \/ DevicePlays(p)
  BY <1>5 DEF LookAhead, CloseVoice, OpenVoice, DevicePlays
<1> QED
  BY <1>1, <1>2, <1>3, <1>4, <1>5

(* The same of the playout thread.                                          *)
LEMMA WorkerStepsQueue == Worker => [QueueNext]_queueVars
<1> SUFFICES ASSUME Worker PROVE [QueueNext]_queueVars
  OBVIOUS
<1>1. CASE WorkerPops
  BY <1>1 DEF WorkerPops, QueueNext
<1>2. CASE QueueDrained
  <2>1. PopReturn
    BY <1>2 DEF QueueDrained, PopReturn
  <2> QED
    BY <2>1 DEF QueueNext
<1>3. CASE Decode
  <2>1. PopReturn
    BY <1>3 DEF Decode, PopReturn
  <2> QED
    BY <2>1 DEF QueueNext
<1>4. CASE \/ Announce \/ LookStop \/ LookEmpty \/ Acquire \/ Awake \/ CheckStop \/ CheckEmpty
  BY <1>4 DEF Announce, LookStop, LookEmpty, Acquire, Awake, CheckStop, CheckEmpty, WorkerAt
<1> QED
  BY <1>1, <1>2, <1>3, <1>4 DEF Worker

(* The same of every step of the engine.                                    *)
LEMMA StepsQueue == [Next]_vars => [QueueNext]_queueVars
<1>1. Next => [QueueNext]_queueVars
  BY ProducerStepsQueue, WorkerStepsQueue DEF Next, Stop, StopNotifyLoad, StopNotifyExchange
<1>2. UNCHANGED vars => UNCHANGED queueVars
  BY DEF vars
<1> QED
  BY <1>1, <1>2

(* The queue inside the running engine implements the bounded FIFO          *)
(* (IsFifo), whatever the receive threads, the playout thread, the voices   *)
(* and the destructor do: deliver and workerLoop use it as its proof wants. *)
THEOREM PlayoutImplementsFifo == Spec => IsFifo
<1>1. Init => QueueInit
  BY DEF Init
<1>2. Spec => QueueSpec
  BY <1>1, StepsQueue, PTL DEF Spec, QueueSpec
<1> QED
  BY <1>2, QueueImplementsFifo

----------------------------------------------------------------------------
(* Loops.  The provers have no induction over data, so a number that counts *)
(* up, and a loop's existence, come from the least counterexample.          *)

(* Counting up from 0 to n reaches every number between.                    *)
LEMMA CountUp ==
  ASSUME NEW n \in Nat, NEW T, 0 \in T, \A k \in 1 .. n : k - 1 \in T => k \in T
  PROVE  \A k \in 0 .. n : k \in T
<1> DEFINE missed == {k \in 0 .. n : k \notin T}
<1>1. ASSUME missed # {} PROVE FALSE
  <2>1. missed \subseteq Nat
    OBVIOUS
  <2>2. PICK k \in missed : \A j \in missed : ~(<<j, k>> \in OpToRel(<, Nat))
    BY <1>1, <2>1, WFMin, NatLessThanWellFounded, Zenon
  <2>3. k \in 0 .. n /\ k \notin T /\ k # 0
    BY <2>2, Zenon
  <2>4. k \in 1 .. n /\ k - 1 \in 0 .. n /\ k - 1 \in Nat /\ k \in Nat /\ k - 1 < k
    BY <2>3
  <2>5. <<k - 1, k>> \in OpToRel(<, Nat)
    BY <2>4 DEF OpToRel
  <2>6. k - 1 \notin missed
    BY <2>2, <2>5, Zenon
  <2>7. k - 1 \in T
    BY <2>4, <2>6
  <2> QED
    BY <2>4, <2>3, <2>7, Zenon
<1> QED
  BY <1>1

(* The turns of a loop on states S, and the states they take it through.    *)
IsTurns(F, S, n) == F \in [S \X (1 .. n) -> S]
IsLoop(f, F, S, n, x) ==
  f \in [0 .. n -> S] /\ f[0] = x /\ \A k \in 1 .. n : f[k] = F[<<f[k - 1], k>>]

(* A loop's turns, each given what the one before it made, exist as a       *)
(* function of the turn.                                                    *)
LEMMA LoopExists ==
  ASSUME NEW S, NEW n \in Nat, NEW x \in S, NEW F, IsTurns(F, S, n)
  PROVE  \E f : IsLoop(f, F, S, n, x)
<1> USE DEF IsTurns
<1> DEFINE Upto(m, f) == f[0] = x /\ \A k \in 1 .. m : f[k] = F[<<f[k - 1], k>>]
           T == {m \in 0 .. n : \E f \in [0 .. n -> S] : Upto(m, f)}
<1>1. 0 \in T
  <2>1. [k \in 0 .. n |-> x] \in [0 .. n -> S] /\ Upto(0, [k \in 0 .. n |-> x])
    OBVIOUS
  <2>2. 0 \in 0 .. n
    OBVIOUS
  <2> HIDE DEF Upto
  <2> QED
    BY <2>1, <2>2, Zenon
<1>2. ASSUME NEW m \in 1 .. n, m - 1 \in T PROVE m \in T
  <2>1. PICK f \in [0 .. n -> S] : Upto(m - 1, f)
    BY <1>2
  <2>2. F[<<f[m - 1], m>>] \in S
    <3>1. f[m - 1] \in S
      BY <2>1
    <3> QED
      BY <3>1
  <2> DEFINE g == [f EXCEPT ![m] = F[<<f[m - 1], m>>]]
  <2>3. g \in [0 .. n -> S] /\ \A k \in 0 .. n : k # m => g[k] = f[k]
    BY <2>2
  <2>4. g[m] = F[<<f[m - 1], m>>]
    OBVIOUS
  <2> HIDE DEF g
  <2>5. ASSUME NEW k \in 1 .. m PROVE g[k] = F[<<g[k - 1], k>>]
    <3>1. g[k - 1] = f[k - 1]
      BY <2>3
    <3>2. CASE k = m
      BY <3>1, <3>2, <2>4
    <3>3. CASE k # m
      <4>1. k \in 1 .. (m - 1) /\ g[k] = f[k]
        BY <3>3, <2>3
      <4> QED
        BY <3>1, <4>1, <2>1
    <3> QED
      BY <3>2, <3>3
  <2>6. Upto(m, g)
    BY <2>1, <2>3, <2>5
  <2> QED
    BY <2>3, <2>6
<1> HIDE DEF T
<1>3. n \in T
  BY <1>1, <1>2, CountUp
<1> QED
  BY <1>3 DEF T, IsLoop

----------------------------------------------------------------------------
(* Sequence numbers.                                                        *)

SeqNums == 0 .. (SeqSpan - 1)

(* How far s lies past a, going up and around.                              *)
Past(a, s) == IF s >= a THEN s - a ELSE s - a + SeqSpan

(* A product of a positive factor is no less than the other factor.         *)
LEMMA Multiples ==
  ASSUME NEW m \in Nat, m > 0, NEW q \in Int
  PROVE  /\ q >= 1 => m * q >= m
         /\ q <= -1 => m * q <= -m
         /\ q <= -2 => m * q <= -m - m
  OBVIOUS

(* A difference of two sequence numbers, reduced modulo the span.           *)
LEMMA PastIsRemainder ==
  ASSUME NEW a \in SeqNums, NEW s \in SeqNums
  PROVE  (s - a) % SeqSpan = Past(a, s)
<1> DEFINE q == (s - a) \div SeqSpan
           r == (s - a) % SeqSpan
<1>1. SeqSpan \in Nat /\ SeqSpan > 0
  BY JitterAssumption
<1>2. /\ q \in Int /\ r \in 0 .. (SeqSpan - 1) /\ s - a = SeqSpan * q + r
      /\ s - a < SeqSpan /\ s - a > -SeqSpan
  BY <1>1 DEF SeqNums
<1> HIDE DEF q, r
<1>3. q \in {0, -1}
  BY <1>1, <1>2, Multiples
<1>4. r = Past(a, s)
  BY <1>1, <1>2, <1>3 DEF Past, SeqNums
<1> QED
  BY <1>4 DEF r

(* The int16_t cast of the difference: ahead of the awaited frame by less   *)
(* than half the span, or behind it.                                        *)
LEMMA DeltaIs ==
  ASSUME NEW w, w.next \in SeqNums, NEW s \in SeqNums
  PROVE  /\ Past(w.next, s) \in SeqNums
         /\ Delta(w, s) = IF 2 * Past(w.next, s) >= SeqSpan
                          THEN Past(w.next, s) - SeqSpan ELSE Past(w.next, s)
         /\ Delta(w, s) \in Int
<1>1. Past(w.next, s) \in SeqNums
  BY JitterAssumption DEF Past, SeqNums
<1>2. Delta(w, s) = IF 2 * Past(w.next, s) >= SeqSpan
                    THEN Past(w.next, s) - SeqSpan ELSE Past(w.next, s)
  BY PastIsRemainder DEF Delta
<1> QED
  BY <1>1, <1>2, JitterAssumption DEF SeqNums

(* The number after a, around the end.                                      *)
LEMMA AfterIs ==
  ASSUME NEW a \in SeqNums
  PROVE  After(a) \in SeqNums /\ After(a) = IF a + 1 = SeqSpan THEN 0 ELSE a + 1
<1> DEFINE q == (a + 1) \div SeqSpan
           r == (a + 1) % SeqSpan
<1>1. SeqSpan \in Nat /\ SeqSpan > 0
  BY JitterAssumption
<1>2. /\ q \in Int /\ r \in 0 .. (SeqSpan - 1) /\ a + 1 = SeqSpan * q + r
      /\ a + 1 <= SeqSpan /\ a + 1 > 0
  BY <1>1 DEF SeqNums
<1> HIDE DEF q, r
<1>3. q \in {0, 1}
  <2>1. q <= 0 \/ q >= 1
    BY <1>2
  <2>2. q >= 2 => SeqSpan * (q - 1) >= SeqSpan /\ SeqSpan * (q - 1) = SeqSpan * q - SeqSpan
    BY <1>1, <1>2, Multiples
  <2> QED
  BY <1>1, <1>2, <2>2, Multiples
<1>4. r = IF a + 1 = SeqSpan THEN 0 ELSE a + 1
  BY <1>1, <1>2, <1>3 DEF SeqNums
<1> QED
  BY <1>1, <1>4 DEF r, After, SeqNums
----------------------------------------------------------------------------
Windows ==
  [primed : BOOLEAN, next : SeqNums, gaps : 0 .. MaxConceal, held : SUBSET Items]

(* A window in the middle of a push: packets of distinct numbers, none      *)
(* behind the frame awaited.                                                *)
Slotted(w) ==
  /\ w \in Windows /\ IsFiniteSet(w.held)
  /\ \A g, h \in w.held : g.seq = h.seq => g = h
  /\ \A h \in w.held : Delta(w, h.seq) >= 0

(* The packets of the queue carry sequence numbers.                         *)
LEMMA ItemSeq == \A h \in Items : h.seq \in SeqNums
  BY FrameAssumption DEF SeqNums

(* A number ahead of a is one step less ahead of its successor.             *)
LEMMA PastAfter ==
  ASSUME NEW a \in SeqNums, NEW s \in SeqNums, s # a
  PROVE  Past(After(a), s) = Past(a, s) - 1
  BY AfterIs, JitterAssumption DEF Past, SeqNums

(* And as much less ahead of one in between as that one is.                 *)
LEMMA PastBetween ==
  ASSUME NEW a \in SeqNums, NEW b \in SeqNums, NEW s \in SeqNums, Past(a, b) <= Past(a, s)
  PROVE  Past(b, s) = Past(a, s) - Past(a, b)
  BY JitterAssumption DEF Past, SeqNums

(* Delta of a packet held is how far ahead it is, and 0 for the frame due.  *)
LEMMA HeldDelta ==
  ASSUME NEW w, Slotted(w), NEW h \in w.held
  PROVE  /\ w.next \in SeqNums /\ h.seq \in SeqNums
         /\ Delta(w, h.seq) \in Nat /\ 2 * Delta(w, h.seq) < SeqSpan
         /\ Delta(w, h.seq) = Past(w.next, h.seq)
         /\ Delta(w, h.seq) = 0 <=> h.seq = w.next
<1>1. w.next \in SeqNums /\ h.seq \in SeqNums /\ Delta(w, h.seq) >= 0
  BY ItemSeq DEF Slotted, Windows
<1>2. /\ Past(w.next, h.seq) \in SeqNums
      /\ Delta(w, h.seq) = IF 2 * Past(w.next, h.seq) >= SeqSpan
                           THEN Past(w.next, h.seq) - SeqSpan ELSE Past(w.next, h.seq)
  BY <1>1, DeltaIs
<1>3. Delta(w, h.seq) = Past(w.next, h.seq) /\ 2 * Past(w.next, h.seq) < SeqSpan
  BY <1>1, <1>2, JitterAssumption DEF SeqNums
<1>4. Past(w.next, h.seq) = 0 <=> h.seq = w.next
  BY <1>1, JitterAssumption DEF Past, SeqNums
<1> QED
  BY <1>1, <1>2, <1>3, <1>4 DEF SeqNums

(* A number less than half the span ahead is ahead.                         *)
LEMMA DeltaAhead ==
  ASSUME NEW w, w.next \in SeqNums, NEW s \in SeqNums, 2 * Past(w.next, s) < SeqSpan
  PROVE  Delta(w, s) = Past(w.next, s) /\ Delta(w, s) >= 0
<1>1. /\ Past(w.next, s) \in SeqNums
      /\ Delta(w, s) = IF 2 * Past(w.next, s) >= SeqSpan
                       THEN Past(w.next, s) - SeqSpan ELSE Past(w.next, s)
  BY DeltaIs
<1> QED
  BY <1>1, JitterAssumption DEF SeqNums

(* The frame due, or given up, is passed: the rest come one closer.         *)
LEMMA Advanced ==
  ASSUME NEW w, Slotted(w), NEW v \in Windows, v.next = After(w.next),
         v.held \subseteq w.held, \A h \in v.held : h.seq # w.next
  PROVE  Slotted(v)
<1>1. IsFiniteSet(v.held) /\ \A g, h \in v.held : g.seq = h.seq => g = h
  BY FS_Subset DEF Slotted
<1>2. ASSUME NEW h \in v.held PROVE Delta(v, h.seq) >= 0
  <2>1. /\ w.next \in SeqNums /\ h.seq \in SeqNums /\ 2 * Past(w.next, h.seq) < SeqSpan
    BY HeldDelta
  <2>2. Past(v.next, h.seq) = Past(w.next, h.seq) - 1
    BY <2>1, PastAfter
  <2>3. Past(w.next, h.seq) \in Int
    BY <2>1, JitterAssumption DEF Past, SeqNums
  <2>4. v.next \in SeqNums
    BY DEF Windows
  <2> QED
    BY <2>1, <2>2, <2>3, <2>4, DeltaAhead, JitterAssumption
<1> QED
  BY <1>1, <1>2 DEF Slotted

(* The window resumes at its oldest packet.                                 *)
LEMMA Resumed ==
  ASSUME NEW w, Slotted(w), NEW o \in w.held,
         \A g \in w.held : Delta(w, o.seq) <= Delta(w, g.seq),
         NEW v \in Windows, v.next = o.seq, v.held = w.held
  PROVE  Slotted(v)
<1>1. ASSUME NEW h \in v.held PROVE Delta(v, h.seq) >= 0
  <2>1. /\ w.next \in SeqNums /\ h.seq \in SeqNums /\ 2 * Past(w.next, h.seq) < SeqSpan
        /\ Delta(w, h.seq) = Past(w.next, h.seq) /\ Past(w.next, h.seq) \in Nat
    BY HeldDelta
  <2>2. /\ o.seq \in SeqNums /\ Delta(w, o.seq) = Past(w.next, o.seq)
        /\ Past(w.next, o.seq) \in Nat
    BY HeldDelta
  <2>3. Past(o.seq, h.seq) = Past(w.next, h.seq) - Past(w.next, o.seq)
    BY <2>1, <2>2, PastBetween
  <2> QED
    BY <2>1, <2>2, <2>3, DeltaAhead, JitterAssumption
<1> QED
  BY <1>1 DEF Slotted

----------------------------------------------------------------------------
(* A set of numbers has a least one.                                        *)
LEMMA LeastOf ==
  ASSUME NEW T, T \subseteq Nat, T # {}
  PROVE  \E x \in T : \A y \in T : x <= y
<1>1. PICK x \in T : \A y \in T : ~(<<y, x>> \in OpToRel(<, Nat))
  BY WFMin, NatLessThanWellFounded, Zenon
<1>2. ASSUME NEW y \in T, y < x PROVE FALSE
  <2>1. <<y, x>> \in OpToRel(<, Nat)
    BY <1>2 DEF OpToRel
  <2> QED
    BY <1>1, <2>1, Zenon
<1>3. \A y \in T : x <= y
  BY <1>2
<1> QED
  BY <1>3

(* OldestHeld is a packet held, and none is closer.                         *)
LEMMA OldestIs ==
  ASSUME NEW w, Slotted(w), w.held # {}
  PROVE  /\ OldestHeld(w) \in w.held
         /\ \A g \in w.held : Delta(w, OldestHeld(w).seq) <= Delta(w, g.seq)
<1> DEFINE T == {Delta(w, h.seq) : h \in w.held}
<1>1. T \subseteq Nat /\ T # {}
  BY HeldDelta
<1>2. PICK x \in T : \A y \in T : x <= y
  BY <1>1, LeastOf, Zenon
<1>3. PICK o \in w.held : x = Delta(w, o.seq)
  BY <1>2
<1>4. \A g \in w.held : Delta(w, o.seq) <= Delta(w, g.seq)
  BY <1>2, <1>3
<1> QED
  BY <1>4, Zenon DEF OldestHeld

(* MaxAhead bounds what is held, and is met by a packet or -1.              *)
LEMMA MaxAheadIs ==
  ASSUME NEW w, Slotted(w)
  PROVE  /\ MaxAhead(w) \in Int
         /\ \A h \in w.held : Delta(w, h.seq) <= MaxAhead(w)
         /\ MaxAhead(w) >= 0 => w.held # {}
<1> DEFINE M == {-1} \cup {Delta(w, h.seq) : h \in w.held}
           T == {SeqSpan - x : x \in M}
<1>1. \A x \in M : x \in Int /\ 2 * x < SeqSpan
  BY HeldDelta, JitterAssumption
<1>2. T \subseteq Nat /\ T # {}
  BY <1>1, JitterAssumption
<1>3. PICK t \in T : \A y \in T : t <= y
  BY <1>2, LeastOf, Zenon
<1>4. PICK m \in M : t = SeqSpan - m
  BY <1>3
<1>5. ASSUME NEW y \in M PROVE m >= y
  <2>1. SeqSpan - y \in T /\ m \in Int /\ y \in Int
    BY <1>1, Zenon
  <2>2. SeqSpan - m <= SeqSpan - y
    BY <1>3, <1>4, <2>1
  <2> QED
    BY <2>1, <2>2, JitterAssumption
<1>6. Max(M) \in M /\ \A y \in M : Max(M) >= y
  BY <1>5, Zenon DEF Max
<1>7. MaxAhead(w) = Max(M)
  BY DEF MaxAhead
<1>8. \A h \in w.held : Delta(w, h.seq) \in M
  OBVIOUS
<1>9. w.held = {} => M = {-1}
  OBVIOUS
<1> HIDE DEF M
<1>10. Max(M) \in Int /\ (w.held = {} => Max(M) = -1)
  BY <1>1, <1>6, <1>9
<1> QED
  BY <1>1, <1>6, <1>7, <1>8, <1>10
----------------------------------------------------------------------------
Happenings == [kind : {"packet", "gap"}, seq : SeqNums, of : SUBSET Items]
DrainStates == [window : Windows, events : Seq(Happenings), done : BOOLEAN]

Window(primed, next, gaps, held) ==
  [primed |-> primed, next |-> next, gaps |-> gaps, held |-> held]
Draining(w, events, done) == [window |-> w, events |-> events, done |-> done]

(* A window, and a drain's state, is made of its fields.                    *)
LEMMA WindowParts ==
  ASSUME NEW w \in Windows
  PROVE  /\ w = Window(w.primed, w.next, w.gaps, w.held)
         /\ w.primed \in BOOLEAN /\ w.next \in SeqNums
         /\ w.gaps \in 0 .. MaxConceal /\ w.held \in SUBSET Items
  BY Zenon DEF Windows, Window

(* A window with other parts.                                              *)
LEMMA WindowEdit ==
  ASSUME NEW w \in Windows, NEW s \in SeqNums, NEW g \in 0 .. MaxConceal, NEW H \in SUBSET Items
  PROVE  /\ [w EXCEPT !.held = H, !.next = s, !.gaps = g] = Window(w.primed, s, g, H)
         /\ [w EXCEPT !.next = s, !.gaps = g] = Window(w.primed, s, g, w.held)
<1>1. ASSUME NEW e, e = [w EXCEPT !.held = H, !.next = s, !.gaps = g]
      PROVE  e = Window(w.primed, s, g, H)
  <2>1. e \in Windows /\ e.primed = w.primed /\ e.next = s /\ e.gaps = g /\ e.held = H
    BY <1>1, Zenon DEF Windows
  <2> QED
    BY <2>1, WindowParts, Zenon
<1>2. ASSUME NEW e, e = [w EXCEPT !.next = s, !.gaps = g]
      PROVE  e = Window(w.primed, s, g, w.held)
  <2>1. e \in Windows /\ e.primed = w.primed /\ e.next = s /\ e.gaps = g /\ e.held = w.held
    BY <1>2, Zenon DEF Windows
  <2> QED
    BY <2>1, WindowParts, Zenon
<1> QED
  BY <1>1, <1>2, Zenon

(* The same of a drain's state.                                            *)
LEMMA DrainParts ==
  ASSUME NEW d \in DrainStates
  PROVE  /\ d = Draining(d.window, d.events, d.done)
         /\ d.window \in Windows /\ d.events \in Seq(Happenings) /\ d.done \in BOOLEAN
  BY Zenon DEF DrainStates, Draining

(* push emits at most a fixed number of events.                            *)
LEMMA CapIs ==
  /\ MaxEventsPerPush \in Nat
  /\ \A es \in Seq(Happenings) :
       Len(es) \in Nat /\ (Len(es) < MaxEventsPerPush => ~(Len(es) >= MaxEventsPerPush))
<1>1. MaxEventsPerPush \in Nat
  BY JitterAssumption DEF MaxEventsPerPush
<1> QED
  BY <1>1

(* What a turn makes of an open drain: the frame due is put out, ...        *)
LEMMA TurnDue ==
  ASSUME NEW w \in Windows, NEW es \in Seq(Happenings), Len(es) < MaxEventsPerPush,
         NEW h, Find(w, w.next) = {h}
  PROVE  DrainTurn(Draining(w, es, FALSE)) =
           Draining(Window(w.primed, After(w.next), 0, w.held \ {h}), Append(es, Packet(h)), FALSE)
<1>1. (CHOOSE g \in {h} : TRUE) = h /\ {h} # {} /\ ~(Len(es) >= MaxEventsPerPush)
  BY CapIs
<1>2. ASSUME NEW v, v = [w EXCEPT !.held = @ \ {h}, !.next = After(@), !.gaps = 0]
      PROVE  v = Window(w.primed, After(w.next), 0, w.held \ {h})
  <2>1. After(w.next) \in SeqNums /\ w.held \ {h} \in SUBSET Items /\ 0 \in 0 .. MaxConceal
    BY WindowParts, AfterIs, JitterAssumption
  <2>2. PICK s \in SeqNums, H \in SUBSET Items, g \in 0 .. MaxConceal :
          s = After(w.next) /\ H = w.held \ {h} /\ g = 0
    BY <2>1, Zenon
  <2>3. v = [w EXCEPT !.held = H, !.next = s, !.gaps = g]
    BY <1>2, <2>2, Zenon
  <2>4. v \in Windows /\ v.primed = w.primed /\ v.next = s /\ v.gaps = g /\ v.held = H
    BY <2>3, Zenon DEF Windows
  <2> QED
    BY <2>2, <2>4, WindowParts, Zenon
<1> QED
  BY <1>1, <1>2, Zenon DEF DrainTurn, Draining

(* ... or the drain waits, nothing being proven lost, ...                   *)
LEMMA TurnWaits ==
  ASSUME NEW w \in Windows, NEW es \in Seq(Happenings),
         Find(w, w.next) = {}, ~ProvenLost(w)
  PROVE  DrainTurn(Draining(w, es, FALSE)) = Draining(w, es, TRUE)
  BY Zenon DEF DrainTurn, Draining

(* ... or it resumes at the oldest packet, ...                              *)
LEMMA TurnResyncs ==
  ASSUME NEW w \in Windows, NEW es \in Seq(Happenings), Len(es) < MaxEventsPerPush,
         Find(w, w.next) = {}, ProvenLost(w), w.gaps >= MaxConceal,
         OldestHeld(w).seq \in SeqNums
  PROVE  DrainTurn(Draining(w, es, FALSE)) =
           Draining(Window(w.primed, OldestHeld(w).seq, 0, w.held), es, FALSE)
<1>1. ~(Len(es) >= MaxEventsPerPush)
  BY CapIs
<1>2. [w EXCEPT !.next = OldestHeld(w).seq, !.gaps = 0]
        = Window(w.primed, OldestHeld(w).seq, 0, w.held)
  <2>1. 0 \in 0 .. MaxConceal
    BY JitterAssumption
  <2> QED
    BY <2>1, WindowEdit, Zenon
<1> QED
  BY <1>1, <1>2, Zenon DEF DrainTurn, Draining

(* ... or a frame is concealed.                                             *)
LEMMA TurnConceals ==
  ASSUME NEW w \in Windows, NEW es \in Seq(Happenings), Len(es) < MaxEventsPerPush,
         Find(w, w.next) = {}, ProvenLost(w), ~(w.gaps >= MaxConceal)
  PROVE  DrainTurn(Draining(w, es, FALSE)) =
           Draining(Window(w.primed, After(w.next), w.gaps + 1, w.held), Append(es, Gap(w)), FALSE)
<1>1. ~(Len(es) >= MaxEventsPerPush)
  BY CapIs
<1>2. [w EXCEPT !.next = After(@), !.gaps = @ + 1]
        = Window(w.primed, After(w.next), w.gaps + 1, w.held)
  <2>1. After(w.next) \in SeqNums /\ w.gaps + 1 \in 0 .. MaxConceal
    BY WindowParts, AfterIs, JitterAssumption
  <2> QED
    BY <2>1, WindowEdit, Zenon
<1> QED
  BY <1>1, <1>2, Zenon DEF DrainTurn, Draining

(* A drain that is done, or has put out all it may, stays as it is.         *)
LEMMA TurnEnds ==
  ASSUME NEW w \in Windows, NEW es \in Seq(Happenings), NEW done \in BOOLEAN,
         done \/ Len(es) >= MaxEventsPerPush
  PROVE  DrainTurn(Draining(w, es, done)) = Draining(w, es, TRUE)
  BY Zenon DEF DrainTurn, Draining

(* The frame due is one packet, or none.                                    *)
LEMMA FindIs ==
  ASSUME NEW w, Slotted(w)
  PROVE  \/ Find(w, w.next) = {}
         \/ \E h \in w.held : h.seq = w.next /\ Find(w, w.next) = {h}
  BY DEF Find, Slotted

----------------------------------------------------------------------------
(* How far a drain of n packets has come after k turns.  Every packet put   *)
(* out pays for the MaxConceal gaps before it and for one resync, so the    *)
(* drain ends by itself before it has put out all it may.                   *)
Due(w) == Find(w, w.next) # {}
Out(n, w) == n - Cardinality(w.held)
Paced(n, k, w, es) ==
  /\ Len(es) <= MaxEventsPerPush
  /\ Len(es) <= Out(n, w) * (MaxConceal + 1) + IF Due(w) THEN MaxConceal ELSE w.gaps
  /\ k <= Len(es) + Out(n, w) + IF Due(w) THEN 1 ELSE 0

DrainInv(n, k, d) ==
  /\ d \in DrainStates /\ Slotted(d.window) /\ d.window.primed
  /\ Cardinality(d.window.held) <= n
  /\ IF d.done THEN WindowHolds(d.window) ELSE Paced(n, k, d.window, d.events)

(* A window record of the right parts is a window.                          *)
LEMMA WindowMade ==
  ASSUME NEW p \in BOOLEAN, NEW s \in SeqNums, NEW g \in 0 .. MaxConceal, NEW H \in SUBSET Items
  PROVE  /\ Window(p, s, g, H) \in Windows
         /\ Window(p, s, g, H).primed = p /\ Window(p, s, g, H).next = s
         /\ Window(p, s, g, H).gaps = g /\ Window(p, s, g, H).held = H
  BY DEF Window, Windows

(* The parts of a drain's state, and the state they make.                   *)
LEMMA DrainMade ==
  ASSUME NEW w \in Windows, NEW es \in Seq(Happenings), NEW done \in BOOLEAN
  PROVE  /\ Draining(w, es, done) \in DrainStates
         /\ Draining(w, es, done).window = w /\ Draining(w, es, done).events = es
         /\ Draining(w, es, done).done = done
  BY Zenon DEF Draining, DrainStates

(* The events are events.                                                   *)
LEMMA EventsMade ==
  /\ \A h \in Items : Packet(h) \in Happenings
  /\ \A w \in Windows : Gap(w) \in Happenings
<1>1. \A h \in Items : Packet(h) \in Happenings
  BY ItemSeq DEF Packet, Happenings
<1>2. ASSUME NEW w \in Windows PROVE Gap(w) \in Happenings
  <2>1. w.next \in SeqNums /\ Find(w, After(w.next)) \in SUBSET Items
    BY DEF Windows, Find
  <2> QED
    BY <2>1 DEF Gap, Happenings
<1> QED
  BY <1>1, <1>2

(* A drain that ended, and one that goes on, in terms of their parts.       *)
LEMMA DrainIs ==
  ASSUME NEW n, NEW k, NEW w \in Windows, NEW es \in Seq(Happenings),
         Slotted(w), w.primed, Cardinality(w.held) <= n
  PROVE  /\ WindowHolds(w) => DrainInv(n, k, Draining(w, es, TRUE))
         /\ Paced(n, k, w, es) => DrainInv(n, k, Draining(w, es, FALSE))
<1>1. ASSUME NEW d, NEW done \in BOOLEAN, d = Draining(w, es, done)
      PROVE  d \in DrainStates /\ d.window = w /\ d.events = es /\ d.done = done
  BY <1>1, DrainMade, ZenonT(30)
<1>2. ASSUME NEW d, d = Draining(w, es, TRUE), WindowHolds(w) PROVE DrainInv(n, k, d)
  <2>1. d \in DrainStates /\ d.window = w /\ d.events = es /\ d.done = TRUE
    BY <1>1, <1>2, Zenon
  <2> QED
    BY <1>2, <2>1, Zenon DEF DrainInv
<1>3. ASSUME NEW d, d = Draining(w, es, FALSE), Paced(n, k, w, es) PROVE DrainInv(n, k, d)
  <2>1. d \in DrainStates /\ d.window = w /\ d.events = es /\ d.done = FALSE
    BY <1>1, <1>3, Zenon
  <2> QED
    BY <1>3, <2>1, Zenon DEF DrainInv
<1> QED
  BY <1>2, <1>3, Zenon

(* A turn keeps the drain on its way (drain of AudioJitter.h).              *)
LEMMA TurnKeeps ==
  ASSUME NEW n \in 0 .. JitterWindow, NEW k \in Nat, NEW d, DrainInv(n, k, d)
  PROVE  DrainInv(n, k + 1, DrainTurn(d))
<1> DEFINE w == d.window
           es == d.events
           c == Cardinality(w.held)
<1>1. /\ d \in DrainStates /\ w \in Windows /\ es \in Seq(Happenings)
      /\ d.done \in BOOLEAN /\ d = Draining(w, es, d.done)
  BY DrainParts DEF DrainInv
<1>2. Slotted(w) /\ w.primed /\ IsFiniteSet(w.held) /\ c \in Nat /\ c <= n
  BY FS_CardinalityType DEF DrainInv, Slotted
<1>3. Len(es) \in Nat /\ MaxEventsPerPush \in Nat
  BY <1>1, CapIs
<1> DEFINE q == (n - c) * (MaxConceal + 1)
<1>4. q \in Int
  BY <1>2, JitterAssumption
<1>5. CASE d.done
  <2>1. DrainTurn(d) = Draining(w, es, TRUE) /\ WindowHolds(w)
    BY <1>1, <1>5, TurnEnds, Zenon DEF DrainInv
  <2> QED
    BY <1>1, <1>2, <2>1, DrainIs, Zenon
<1>6. CASE ~d.done /\ Len(es) >= MaxEventsPerPush
  <2>1. DrainTurn(d) = Draining(w, es, TRUE) /\ Paced(n, k, w, es)
    BY <1>1, <1>6, TurnEnds, Zenon DEF DrainInv
  <2>2. c = 0
    <3>1. Len(es) <= (n - c) * (MaxConceal + 1) + MaxConceal
      BY <1>1, <1>2, <1>3, <2>1, WindowParts, JitterAssumption, SMTT(30) DEF Paced, Out
    <3>2. (JitterWindow - (n - c)) * (MaxConceal + 1) <= MaxConceal
      BY <3>1, <1>2, <1>3, <1>6, JitterAssumption DEF MaxEventsPerPush
    <3>3. JitterWindow - (n - c) <= 0
      <4>1. JitterWindow - (n - c) >= 1 =>
              (MaxConceal + 1) * (JitterWindow - (n - c)) >= MaxConceal + 1
        BY <1>2, Multiples, JitterAssumption
      <4> QED
        BY <3>2, <4>1, <1>2, JitterAssumption
    <3> QED
      BY <1>2, <3>3, JitterAssumption
  <2>3. WindowHolds(w)
    BY <1>2, <2>2, FS_EmptySet DEF WindowHolds
  <2> QED
    BY <1>1, <1>2, <2>1, <2>3, DrainIs, Zenon
<1>7. CASE ~d.done /\ Len(es) < MaxEventsPerPush
  <2>1. d = Draining(w, es, FALSE) /\ Paced(n, k, w, es)
    BY <1>1, <1>7, Zenon DEF DrainInv
  <2>2. CASE \E h \in w.held : h.seq = w.next /\ Find(w, w.next) = {h}
    <3>1. PICK h \in w.held : h.seq = w.next /\ Find(w, w.next) = {h}
      BY <2>2
    <3> DEFINE v == Window(w.primed, After(w.next), 0, w.held \ {h})
               fs == Append(es, Packet(h))
    <3>2. DrainTurn(d) = Draining(v, fs, FALSE)
      BY <1>1, <1>7, <2>1, <3>1, TurnDue, Zenon
    <3>3. /\ v \in Windows /\ v.next = After(w.next) /\ v.gaps = 0
          /\ v.held = w.held \ {h} /\ v.primed = w.primed
      BY <1>1, WindowParts, WindowMade, AfterIs, JitterAssumption, SMTT(30)
    <3>4. fs \in Seq(Happenings) /\ Len(fs) = Len(es) + 1
      BY <1>1, <3>1, WindowParts, EventsMade
    <3> HIDE DEF v, fs
    <3>5. Slotted(v)
      BY <1>2, <3>1, <3>3, Advanced, Zenon DEF Slotted
    <3>6. Cardinality(v.held) = c - 1
      <4>1. Cardinality(w.held \ {h}) = IF h \in w.held THEN c - 1 ELSE c
        BY <1>2, FS_RemoveElement, Zenon
      <4> QED
        BY <3>1, <3>3, <4>1
    <3>7. Paced(n, k + 1, v, fs)
      <4>1. /\ Len(es) <= q + MaxConceal
            /\ k <= Len(es) + (n - c) + 1
        BY <2>1, <3>1 DEF Paced, Out, Due
      <4>2. Out(n, v) = n - c + 1
        BY <1>2, <3>6 DEF Out
      <4>3. Out(n, v) * (MaxConceal + 1) = q + MaxConceal + 1
        BY <1>2, <4>2, JitterAssumption
      <4> HIDE DEF q
      <4>4. Len(fs) <= MaxEventsPerPush
        BY <1>2, <1>3, <1>7, <1>4, <3>3, <3>4, <4>1, JitterAssumption, SMTT(30)
      <4>5. Len(fs) <= (q + MaxConceal + 1) + IF Due(v) THEN MaxConceal ELSE v.gaps
        BY <1>2, <1>3, <1>7, <1>4, <3>3, <3>4, <4>1, JitterAssumption, SMTT(30)
      <4>6. k + 1 <= Len(fs) + (n - c + 1) + IF Due(v) THEN 1 ELSE 0
        BY <1>2, <1>3, <1>7, <1>4, <3>3, <3>4, <4>1, JitterAssumption, SMTT(30)
      <4> QED
        BY <4>2, <4>3, <4>4, <4>5, <4>6, Zenon DEF Paced
    <3>8. v.primed /\ Cardinality(v.held) <= n
      BY <1>2, <3>3, <3>6
    <3>9. DrainInv(n, k + 1, Draining(v, fs, FALSE))
      BY <3>3, <3>4, <3>5, <3>7, <3>8, DrainIs, Zenon
    <3> QED
      BY <3>2, <3>9, Zenon
  <2>3. CASE Find(w, w.next) = {} /\ ~ProvenLost(w)
    <3>1. DrainTurn(d) = Draining(w, es, TRUE)
      BY <1>1, <2>1, <2>3, TurnWaits, Zenon
    <3>2. WindowHolds(w)
      <4>1. ASSUME NEW h \in w.held PROVE Delta(w, h.seq) \in 1 .. (JitterWindow - 1)
        <5>1. h.seq # w.next
          BY <2>3 DEF Find
        <5>2. Delta(w, h.seq) \in Nat /\ Delta(w, h.seq) # 0
          BY <1>2, <5>1, HeldDelta
        <5>3. MaxAhead(w) \in Int /\ Delta(w, h.seq) <= MaxAhead(w)
          BY <1>2, MaxAheadIs
        <5> QED
          BY <2>3, <5>2, <5>3, JitterAssumption DEF ProvenLost
      <4> QED
        BY <4>1 DEF WindowHolds
    <3> QED
      BY <1>1, <1>2, <3>1, <3>2, DrainIs, Zenon
  <2>4. CASE Find(w, w.next) = {} /\ ProvenLost(w) /\ w.gaps >= MaxConceal
    <3> DEFINE o == OldestHeld(w)
               v == Window(w.primed, o.seq, 0, w.held)
    <3>1. w.held # {}
      BY <1>2, <2>4, MaxAheadIs, JitterAssumption, SMTT(30) DEF ProvenLost
    <3>2. o \in w.held /\ \A g \in w.held : Delta(w, o.seq) <= Delta(w, g.seq)
      BY <1>2, <3>1, OldestIs
    <3>3. o.seq \in SeqNums
      BY <1>2, <3>2, HeldDelta
    <3>4. DrainTurn(d) = Draining(v, es, FALSE)
      BY <1>1, <1>7, <2>1, <2>4, <3>3, TurnResyncs, Zenon
    <3> HIDE DEF o
    <3>5. /\ v \in Windows /\ v.next = o.seq /\ v.held = w.held /\ v.primed = w.primed
      BY <1>1, <3>3, WindowParts, WindowMade, JitterAssumption, SMTT(30)
    <3> HIDE DEF v
    <3>6. Slotted(v)
      BY <1>2, <3>2, <3>5, Resumed
    <3>7. Paced(n, k + 1, v, es)
      <4>1. /\ Len(es) <= q + w.gaps /\ w.gaps <= MaxConceal
            /\ w.gaps \in Nat /\ k <= Len(es) + (n - c)
        BY <1>1, <1>2, <1>3, <2>1, <2>4, WindowParts, JitterAssumption, SMTT(30) DEF Paced, Out, Due
      <4>2. Due(v) /\ Out(n, v) = n - c /\ Out(n, v) * (MaxConceal + 1) = q
        BY <3>2, <3>5 DEF Due, Find, Out
      <4> HIDE DEF q
      <4>4. Len(es) <= MaxEventsPerPush
        BY <1>2, <1>3, <1>7, <1>4, <4>1, <4>2, JitterAssumption, SMTT(30)
      <4>5. Len(es) <= q + IF Due(v) THEN MaxConceal ELSE v.gaps
        <5>1. Len(es) <= q + MaxConceal
          BY <1>3, <1>4, <4>1, JitterAssumption, SMTT(30)
        <5> QED
          BY <4>2, <5>1, Zenon
      <4>6. k + 1 <= Len(es) + (n - c) + IF Due(v) THEN 1 ELSE 0
        BY <1>2, <1>3, <1>7, <1>4, <4>1, <4>2, JitterAssumption, SMTT(30)
      <4> QED
        BY <4>2, <4>4, <4>5, <4>6, Zenon DEF Paced
    <3> QED
      BY <1>1, <1>2, <3>4, <3>5, <3>6, <3>7, DrainIs, Zenon
  <2>5. CASE Find(w, w.next) = {} /\ ProvenLost(w) /\ ~(w.gaps >= MaxConceal)
    <3> DEFINE v == Window(w.primed, After(w.next), w.gaps + 1, w.held)
               fs == Append(es, Gap(w))
    <3>1. DrainTurn(d) = Draining(v, fs, FALSE)
      BY <1>1, <1>7, <2>1, <2>5, TurnConceals, Zenon
    <3>2. w.gaps \in Nat /\ w.gaps + 1 \in 0 .. MaxConceal
      BY <1>1, <2>5, WindowParts, JitterAssumption, SMTT(30)
    <3>3. /\ v \in Windows /\ v.next = After(w.next) /\ v.gaps = w.gaps + 1
          /\ v.held = w.held /\ v.primed = w.primed
      BY <1>1, <3>2, WindowParts, WindowMade, AfterIs, SMTT(30)
    <3>4. fs \in Seq(Happenings) /\ Len(fs) = Len(es) + 1
      BY <1>1, EventsMade
    <3> HIDE DEF v, fs
    <3>5. Slotted(v)
      BY <1>2, <2>5, <3>3, Advanced DEF Find
    <3>6. Paced(n, k + 1, v, fs)
      <4>1. /\ Len(es) <= q + w.gaps
            /\ k <= Len(es) + (n - c)
        BY <1>2, <1>3, <2>1, <2>5, SMTT(30) DEF Paced, Out, Due
      <4>2. Out(n, v) = n - c /\ Out(n, v) * (MaxConceal + 1) = q
        BY <3>3 DEF Out
      <4> HIDE DEF q
      <4>4. Len(fs) <= MaxEventsPerPush
        BY <1>2, <1>3, <1>7, <1>4, <3>2, <3>3, <3>4, <4>1, JitterAssumption, SMTT(30)
      <4>5. Len(fs) <= q + IF Due(v) THEN MaxConceal ELSE v.gaps
        <5>1. v.gaps \in Nat /\ v.gaps <= MaxConceal
          BY <3>2, <3>3, JitterAssumption
        <5>2. Len(fs) <= q + v.gaps
          BY <1>3, <1>4, <3>2, <3>3, <3>4, <4>1, SMTT(30)
        <5>3. Len(fs) <= q + MaxConceal
          BY <1>3, <1>4, <3>4, <5>1, <5>2, JitterAssumption, SMTT(30)
        <5> QED
          BY <5>2, <5>3, Zenon
      <4>6. k + 1 <= Len(fs) + (n - c) + IF Due(v) THEN 1 ELSE 0
        <5>1. k + 1 <= Len(fs) + (n - c)
          BY <1>2, <1>3, <3>4, <4>1
        <5>2. k + 1 <= Len(fs) + (n - c) + 1
          BY <1>2, <1>3, <3>4, <5>1
        <5>3. Len(fs) + (n - c) + 0 = Len(fs) + (n - c)
          BY <1>2, <1>3, <3>4
        <5> QED
          BY <5>1, <5>2, <5>3, Zenon
      <4> QED
        BY <4>2, <4>4, <4>5, <4>6, Zenon DEF Paced
    <3> QED
      BY <1>2, <3>1, <3>3, <3>4, <3>5, <3>6, DrainIs, Zenon
  <2> QED
    BY <1>2, <2>2, <2>3, <2>4, <2>5, FindIs, Zenon
<1> QED
  BY <1>1, <1>3, <1>5, <1>6, <1>7

(* The turns of a drain that starts on its way, as drain's loop takes them. *)
LEMMA DrainLoop ==
  ASSUME NEW n \in 0 .. JitterWindow, NEW w, DrainInv(n, 0, Draining(w, << >>, FALSE))
  PROVE  DrainInv(n, 2 * MaxEventsPerPush, Drain(w))
<1> DEFINE N == 2 * MaxEventsPerPush
           x == Draining(w, << >>, FALSE)
           S == {d \in DrainStates : \E k \in Nat : DrainInv(n, k, d)}
           F == [t \in S \X (1 .. N) |-> DrainTurn(t[1])]
           Loop(g) == g = [k \in 0 .. N |-> IF k = 0 THEN x
                             ELSE CHOOSE y \in {DrainTurn(b) : b \in {g[k - 1]}} : TRUE]
           after == CHOOSE g : Loop(g)
<1>1. N \in Nat
  BY CapIs
<1>2. x \in S
  BY Zenon DEF DrainInv
<1>3. ASSUME NEW d \in S PROVE DrainTurn(d) \in S
  <2>1. PICK k \in Nat : DrainInv(n, k, d)
    OBVIOUS
  <2>2. DrainInv(n, k + 1, DrainTurn(d)) /\ k + 1 \in Nat
    BY <2>1, TurnKeeps
  <2>3. DrainTurn(d) \in DrainStates
    BY <2>2, Zenon DEF DrainInv
  <2> QED
    BY <2>2, <2>3
<1>4. F \in [S \X (1 .. N) -> S]
  BY <1>3
<1> HIDE DEF N, S, x
<1>5. PICK f \in [0 .. N -> S] : f[0] = x /\ \A k \in 1 .. N : f[k] = F[<<f[k - 1], k>>]
  <2>1. IsTurns(F, S, N)
    BY <1>4 DEF IsTurns
  <2> HIDE DEF F
  <2>2. \E f : IsLoop(f, F, S, N, x)
    BY <1>1, <1>2, <2>1, LoopExists, Zenon
  <2> QED
    BY <2>2, Zenon DEF IsLoop
<1>6. ASSUME NEW k \in 1 .. N PROVE f[k] = DrainTurn(f[k - 1])
  <2>1. f[k - 1] \in S
    BY <1>1, <1>5
  <2> QED
    BY <1>5, <2>1, Zenon
<1>7. Loop(f)
  <2>1. \A b : (CHOOSE y \in {DrainTurn(c) : c \in {b}} : TRUE) = DrainTurn(b)
    BY Zenon
  <2> QED
    BY <1>1, <1>5, <1>6, <2>1
<1>8. Loop(after)
  <2> HIDE DEF Loop
  <2> QED
    BY <1>7, Zenon
<1> HIDE DEF after
<1>9. after[0] = x /\ \A k \in 1 .. N : after[k] = DrainTurn(after[k - 1])
  <2>1. \A b : (CHOOSE y \in {DrainTurn(c) : c \in {b}} : TRUE) = DrainTurn(b)
    BY Zenon
  <2> QED
    BY <1>1, <1>8, <2>1
<1>10. Drain(w) = after[N]
  BY Zenon DEF Drain, Iterate, after, N, x, Draining
<1>11. DrainInv(n, N, after[N])
  <2> DEFINE T == {k \in Nat : DrainInv(n, k, after[k])}
  <2>1. 0 \in T
    BY <1>9, Zenon DEF x
  <2>2. ASSUME NEW k \in 1 .. N, k - 1 \in T PROVE k \in T
    <3>1. DrainInv(n, (k - 1) + 1, DrainTurn(after[k - 1]))
      BY <2>2, TurnKeeps
    <3> QED
      BY <1>1, <1>9, <3>1
  <2> HIDE DEF T
  <2>3. N \in T
    BY <1>1, <2>1, <2>2, CountUp
  <2> QED
    BY <2>3 DEF T
<1> QED
  BY <1>10, <1>11 DEF N

(* drain leaves the window settled: it ends by itself, so nothing that is   *)
(* due or proven lost stays behind (drain of AudioJitter.h).                *)
LEMMA DrainSettles ==
  ASSUME NEW w, Slotted(w), w.primed, Cardinality(w.held) <= JitterWindow
  PROVE  /\ Slotted(Drain(w).window) /\ Drain(w).window.primed
         /\ WindowHolds(Drain(w).window) /\ Drain(w).events \in Seq(Happenings)
<1> DEFINE n == Cardinality(w.held)
           d == Drain(w)
           c == Cardinality(d.window.held)
<1>1. n \in 0 .. JitterWindow /\ n \in Nat /\ w \in Windows
  BY FS_CardinalityType, JitterAssumption DEF Slotted
<1>2. Paced(n, 0, w, << >>)
  <2>1. Out(n, w) = 0 /\ w.gaps \in Nat /\ Len(<< >>) = 0
    BY <1>1, WindowParts, JitterAssumption DEF Out
  <2>2. Out(n, w) * (MaxConceal + 1) = 0
    BY <2>1, JitterAssumption
  <2>3. Len(<< >>) <= MaxEventsPerPush
    BY <2>1, CapIs
  <2>4. Len(<< >>) <= Out(n, w) * (MaxConceal + 1) + IF Due(w) THEN MaxConceal ELSE w.gaps
    BY <2>1, <2>2, JitterAssumption
  <2>5. 0 <= Len(<< >>) + Out(n, w) + IF Due(w) THEN 1 ELSE 0
    BY <2>1
  <2> QED
    BY <2>3, <2>4, <2>5, Zenon DEF Paced
<1>3. DrainInv(n, 0, Draining(w, << >>, FALSE))
  <2>1. << >> \in Seq(Happenings)
    OBVIOUS
  <2>2. Cardinality(w.held) <= n
    BY <1>1
  <2> QED
    BY <1>1, <1>2, <2>1, <2>2, DrainIs, Zenon
<1>4. DrainInv(n, 2 * MaxEventsPerPush, d)
  BY <1>1, <1>3, DrainLoop, Zenon
<1> HIDE DEF d
<1>5. ASSUME ~d.done PROVE FALSE
  <2>1. /\ Paced(n, 2 * MaxEventsPerPush, d.window, d.events)
        /\ d \in DrainStates /\ Slotted(d.window) /\ c <= n
    BY <1>4, <1>5, Zenon DEF DrainInv
  <2>2. c \in Nat /\ IsFiniteSet(d.window.held)
    BY <2>1, FS_CardinalityType DEF Slotted
  <2>3. Len(d.events) \in Nat /\ MaxEventsPerPush \in Nat
    BY <2>1, DrainParts, CapIs
  <2>4. ASSUME Due(d.window) PROVE c >= 1
    <3>1. d.window.held # {}
      BY <2>4 DEF Due, Find
    <3> QED
      BY <2>2, <3>1, FS_EmptySet
  <2>5. 2 * MaxEventsPerPush <= MaxEventsPerPush + n
    <3>1. /\ Len(d.events) <= MaxEventsPerPush
          /\ 2 * MaxEventsPerPush <= Len(d.events) + (n - c) + IF Due(d.window) THEN 1 ELSE 0
      BY <2>1 DEF Paced, Out
    <3> QED
      BY <1>1, <2>2, <2>3, <2>4, <3>1, SMTT(30)
  <2>6. MaxEventsPerPush >= JitterWindow + 1
    <3>1. MaxEventsPerPush = JitterWindow + JitterWindow * MaxConceal
      BY JitterAssumption DEF MaxEventsPerPush
    <3>2. JitterWindow * MaxConceal >= JitterWindow
      BY Multiples, JitterAssumption
    <3> QED
      BY <3>1, <3>2, JitterAssumption
  <2> QED
    BY <1>1, <2>3, <2>5, <2>6, JitterAssumption
<1>6. d \in DrainStates /\ Slotted(d.window) /\ d.window.primed /\ WindowHolds(d.window)
  BY <1>4, <1>5, Zenon DEF DrainInv
<1> QED
  BY <1>6, DrainParts, Zenon DEF d

(* A window between pushes.                                                 *)
Settled(w) == Slotted(w) /\ WindowHolds(w) /\ (~w.primed => w.held = {})

(* A settled window has a slot to spare: its packets lie at different       *)
(* distances, all less than the window (slots_ of AudioJitter.h).           *)
LEMMA SlotToSpare ==
  ASSUME NEW w, Settled(w)
  PROVE  Cardinality(w.held) \in Nat /\ Cardinality(w.held) < JitterWindow
<1> DEFINE A == 1 .. (JitterWindow - 1)
           f == [h \in w.held |-> Delta(w, h.seq)]
<1>1. IsFiniteSet(w.held) /\ Cardinality(w.held) \in Nat
  BY FS_CardinalityType DEF Settled, Slotted
<1>2. IsFiniteSet(A) /\ Cardinality(A) = JitterWindow - 1
  <2>1. /\ IsFiniteSet(A)
        /\ Cardinality(A) = IF 1 > JitterWindow - 1 THEN 0 ELSE (JitterWindow - 1) - 1 + 1
    BY FS_Interval, JitterAssumption
  <2> QED
    BY <2>1, JitterAssumption
<1>3. f \in [w.held -> A]
  BY DEF Settled, WindowHolds
<1>4. ASSUME NEW g \in w.held, NEW h \in w.held, f[g] = f[h] PROVE g = h
  <2>1. Past(w.next, g.seq) = Past(w.next, h.seq)
    BY <1>4, HeldDelta DEF Settled
  <2>2. w.next \in SeqNums /\ g.seq \in SeqNums /\ h.seq \in SeqNums
    BY HeldDelta DEF Settled
  <2>3. g.seq = h.seq
    BY <2>1, <2>2, JitterAssumption DEF Past, SeqNums
  <2> QED
    BY <2>3 DEF Settled, Slotted
<1> HIDE DEF A, f
<1>5. ~(Cardinality(A) < Cardinality(w.held))
  BY <1>1, <1>2, <1>3, <1>4, FS_PigeonHole
<1> QED
  BY <1>1, <1>2, <1>5, JitterAssumption

(* push primes a fresh window at the packet it is offered.                  *)
LEMMA PrimeSettles ==
  ASSUME NEW w, Settled(w), NEW s \in SeqNums
  PROVE  Settled(Prime(w, s)) /\ Prime(w, s).primed
<1>1. CASE w.primed
  <2>1. Prime(w, s) = w
    BY <1>1, Zenon DEF Prime
  <2> QED
    BY <1>1, <2>1, Zenon
<1>2. CASE ~w.primed
  <2> DEFINE v == Prime(w, s)
  <2>1. w \in Windows /\ w.held = {} /\ 0 \in 0 .. MaxConceal
    BY <1>2, JitterAssumption DEF Settled, Slotted
  <2>2. PICK g \in 0 .. MaxConceal : g = 0
    BY <2>1
  <2>3. v = [w EXCEPT !.primed = TRUE, !.next = s, !.gaps = g]
    BY <1>2, <2>2, Zenon DEF Prime
  <2> HIDE DEF v
  <2>4. v \in Windows /\ v.primed = TRUE /\ v.held = w.held
    BY <2>1, <2>3, Zenon DEF Windows
  <2>5. v.held = {} /\ IsFiniteSet(v.held)
    BY <2>1, <2>4, FS_EmptySet
  <2>6. Settled(v) /\ v.primed
    BY <2>4, <2>5, Zenon DEF Settled, Slotted, WindowHolds
  <2> QED
    BY <2>6 DEF v
<1> QED
  BY <1>1, <1>2

(* A packet that is neither late nor a duplicate takes a slot.              *)
LEMMA Inserted ==
  ASSUME NEW w, Settled(w), w.primed, NEW f \in Items,
         Delta(w, f.seq) >= 0, Find(w, f.seq) = {}
  PROVE  LET v == [w EXCEPT !.held = @ \cup {f}]
         IN Slotted(v) /\ v.primed /\ Cardinality(v.held) <= JitterWindow
<1> DEFINE v == [w EXCEPT !.held = @ \cup {f}]
<1>1. w \in Windows /\ Slotted(w) /\ IsFiniteSet(w.held)
  BY Zenon DEF Settled, Slotted
<1>2. w.held \cup {f} \in SUBSET Items
  BY <1>1, WindowParts
<1>3. PICK H \in SUBSET Items : H = w.held \cup {f}
  BY <1>2, Zenon
<1>4. v = [w EXCEPT !.held = H]
  BY <1>3, Zenon
<1> HIDE DEF v
<1>5. v \in Windows /\ v.held = H /\ v.primed = w.primed /\ v.next = w.next
  BY <1>1, <1>4, Zenon DEF Windows
<1>6. IsFiniteSet(v.held) /\ Cardinality(v.held) <= Cardinality(w.held) + 1
  <2>1. Cardinality(w.held) \in Nat
    BY SlotToSpare
  <2>2. /\ IsFiniteSet(H)
        /\ Cardinality(H) = IF f \in w.held THEN Cardinality(w.held) ELSE Cardinality(w.held) + 1
    BY <1>1, <1>3, FS_AddElement, Zenon
  <2> QED
    BY <1>5, <2>1, <2>2
<1>7. Cardinality(v.held) <= JitterWindow
  <2>1. /\ Cardinality(w.held) \in Nat /\ Cardinality(w.held) < JitterWindow
        /\ Cardinality(v.held) \in Nat
    BY <1>6, SlotToSpare, FS_CardinalityType, SMTT(30)
  <2> QED
    BY <1>6, <2>1, JitterAssumption
<1>8. ASSUME NEW h \in v.held PROVE Delta(v, h.seq) >= 0
  <2>1. Delta(v, h.seq) = Delta(w, h.seq)
    BY <1>5 DEF Delta
  <2>2. h \in w.held \/ h = f
    BY <1>3, <1>5
  <2> QED
    BY <1>1, <2>1, <2>2 DEF Slotted
<1>9. ASSUME NEW g \in v.held, NEW h \in v.held, g.seq = h.seq PROVE g = h
  <2>1. (g \in w.held \/ g = f) /\ (h \in w.held \/ h = f)
    BY <1>3, <1>5
  <2>2. \A e \in w.held : e.seq # f.seq
    BY DEF Find
  <2> QED
    BY <1>1, <1>9, <2>1, <2>2, SMTT(30) DEF Slotted
<1>10. Slotted(v) /\ v.primed
  BY <1>5, <1>6, <1>8, <1>9, SMTT(30) DEF Slotted
<1> QED
  BY <1>7, <1>10 DEF v

(* push keeps the window settled, whatever packet it is offered, and never  *)
(* turns one away for want of a slot (push of AudioJitter.h).               *)
LEMMA PushSettles ==
  ASSUME NEW before, Settled(before), NEW f \in Items
  PROVE  /\ Settled(Push(before, f).window) /\ Push(before, f).events \in Seq(Happenings)
         /\ Push(before, f).accept \in {"late", "ok", "duplicate"}
<1> DEFINE w == Prime(before, f.seq)
           u == [w EXCEPT !.held = @ \cup {f}]
           r == Push(before, f)
<1>1. f.seq \in SeqNums /\ Settled(w) /\ w.primed
  BY ItemSeq, PrimeSettles
<1>2. w \in Windows /\ w.next \in SeqNums /\ Delta(w, f.seq) \in Int
  <2>1. w \in Windows
    BY <1>1, Zenon DEF Settled, Slotted
  <2>2. w.next \in SeqNums
    BY <2>1, WindowParts
  <2> QED
    BY <1>1, <2>1, <2>2, DeltaIs
<1>3. Packet(f) \in Happenings /\ << >> \in Seq(Happenings) /\ <<Packet(f)>> \in Seq(Happenings)
  BY EventsMade
<1> HIDE DEF w
<1>4. CASE Delta(w, f.seq) < 0
  <2>1. r.accept = "late" /\ r.events = << >> /\ r.window = w
    BY <1>4, Zenon DEF Push, w
  <2> QED
    BY <1>1, <1>3, <2>1
<1>5. CASE ~(Delta(w, f.seq) < 0) /\ f.seq = w.next /\ w.held = {}
  <2> DEFINE v == [w EXCEPT !.next = After(@), !.gaps = 0]
  <2>1. r.accept = "ok" /\ r.events = <<Packet(f)>> /\ r.window = v
    BY <1>5, Zenon DEF Push, w
  <2>2. After(w.next) \in SeqNums /\ 0 \in 0 .. MaxConceal
    BY <1>2, AfterIs, JitterAssumption
  <2>3. v = Window(w.primed, After(w.next), 0, w.held)
    BY <1>2, <2>2, WindowEdit, Zenon
  <2> HIDE DEF v
  <2>4. v \in Windows /\ v.primed = w.primed /\ v.held = {}
    <3>1. w.primed \in BOOLEAN /\ w.held \in SUBSET Items
      BY <1>2, WindowParts
    <3> QED
      BY <1>5, <2>2, <2>3, <3>1, WindowMade, SMTT(30)
  <2>5. IsFiniteSet(v.held)
    BY <2>4, FS_EmptySet
  <2>6. Settled(v)
    BY <1>1, <2>4, <2>5, Zenon DEF Settled, Slotted, WindowHolds
  <2> QED
    BY <1>3, <2>1, <2>6, Zenon
<1>6. CASE ~(Delta(w, f.seq) < 0) /\ ~(f.seq = w.next /\ w.held = {}) /\ Find(w, f.seq) # {}
  <2>1. r.accept = "duplicate" /\ r.events = << >> /\ r.window = w
    BY <1>6, Zenon DEF Push, w
  <2> QED
    BY <1>1, <1>3, <2>1, SMTT(30)
<1>7. CASE /\ ~(Delta(w, f.seq) < 0) /\ ~(f.seq = w.next /\ w.held = {}) /\ Find(w, f.seq) = {}
           /\ ~(Cardinality(w.held) >= JitterWindow)
  <2>1. r.accept = "ok" /\ r.events = Drain(u).events /\ r.window = Drain(u).window
    BY <1>7, Zenon DEF Push, w
  <2>2. Delta(w, f.seq) >= 0
    BY <1>2, <1>7
  <2>3. Slotted(u) /\ u.primed /\ Cardinality(u.held) <= JitterWindow
    BY <1>1, <1>7, <2>2, Inserted, Zenon
  <2> HIDE DEF u
  <2>4. /\ Slotted(Drain(u).window) /\ Drain(u).window.primed
        /\ WindowHolds(Drain(u).window) /\ Drain(u).events \in Seq(Happenings)
    BY <2>3, DrainSettles, Zenon
  <2>5. Settled(Drain(u).window)
    BY <2>4, Zenon DEF Settled
  <2> QED
    BY <2>1, <2>4, <2>5, Zenon
<1>8. ~(Cardinality(w.held) >= JitterWindow)
  BY <1>1, SlotToSpare, JitterAssumption
<1> QED
  BY <1>4, <1>5, <1>6, <1>7, <1>8, SMTT(30)

----------------------------------------------------------------------------
(* A voice between frames: its window settled, its run of late frames short *)
(* of the limit, its device queue within the ceiling.                       *)
Voices ==
  [window : Windows, lateRun : 0 .. (LateRunRestart - 1), started : BOOLEAN,
   queued : 0 .. QueueCeiling]
VoiceSound(v) == v \in Voices /\ Settled(v.window)

(* A fresh voice is sound (openOne).                                        *)
LEMMA NewVoiceSound == Settled(FreshWindow) /\ VoiceSound(NewVoice)
<1>1. 0 \in SeqNums /\ 0 \in 0 .. MaxConceal /\ {} \in SUBSET Items
  BY JitterAssumption DEF SeqNums
<1>2. FreshWindow \in Windows /\ FreshWindow.held = {}
  BY <1>1 DEF FreshWindow, Windows
<1>3. Settled(FreshWindow)
  BY <1>2, FS_EmptySet DEF Settled, Slotted, WindowHolds
<1>4. 0 \in 0 .. (LateRunRestart - 1) /\ 0 \in 0 .. QueueCeiling
  BY PlayoutAssumption
<1>5. NewVoice \in Voices /\ NewVoice.window = FreshWindow
  BY <1>2, <1>4, Zenon DEF NewVoice, Voices
<1> QED
  BY <1>3, <1>5 DEF VoiceSound

(* What the voice's window makes of a frame, restarted or not, is settled,  *)
(* and the run of late frames stays short of its limit (decodeAndQueue).    *)
LEMMA OfferedSound ==
  ASSUME NEW v, VoiceSound(v), NEW f \in Items
  PROVE  /\ Settled(Offered(v, f).result.window)
         /\ Offered(v, f).result.events \in Seq(Happenings)
         /\ Offered(v, f).lateRun \in 0 .. (LateRunRestart - 1)
<1> DEFINE r == Push(v.window, f)
           run == LateRun(v, r)
           o == Offered(v, f)
<1>1. /\ Settled(r.window) /\ r.events \in Seq(Happenings)
      /\ r.accept \in {"late", "ok", "duplicate"}
  BY PushSettles DEF VoiceSound
<1>2. v.lateRun \in 0 .. (LateRunRestart - 1)
  BY DEF VoiceSound, Voices
<1> HIDE DEF r
<1>3. CASE r.accept = "late" /\ RestartNeeded(run)
  <2>1. o.result = Push(FreshWindow, f) /\ o.lateRun = 0
    BY <1>3, Zenon DEF Offered, r
  <2>2. Settled(Push(FreshWindow, f).window) /\ Push(FreshWindow, f).events \in Seq(Happenings)
    BY NewVoiceSound, PushSettles
  <2> QED
    BY <2>1, <2>2, PlayoutAssumption
<1>4. CASE ~(r.accept = "late" /\ RestartNeeded(run))
  <2>1. o.result = r /\ o.lateRun = run
    BY <1>4, Zenon DEF Offered, r
  <2>2. run \in 0 .. (LateRunRestart - 1)
    BY <1>1, <1>2, <1>4, PlayoutAssumption DEF LateRun, RestartNeeded
  <2> QED
    BY <1>1, <2>1, <2>2, Zenon
<1> QED
  BY <1>3, <1>4

(* One decoded window on the device leaves the voice's window and run       *)
(* alone, and the device's queue within the ceiling (queuePlayback).        *)
LEMMA PlaybackSound ==
  ASSUME NEW v \in Voices
  PROVE  /\ QueuePlayback(v) \in Voices
         /\ QueuePlayback(v).window = v.window
<1> DEFINE q == v.queued + Refill(v) + 1
           s == v.started \/ q >= StartThreshold
           u == [v EXCEPT !.queued = q, !.started = s]
<1>1. CASE QueueFull(v)
  BY <1>1, Zenon DEF QueuePlayback
<1>2. CASE ~QueueFull(v)
  <2>1. QueuePlayback(v) = u
    BY <1>2, Zenon DEF QueuePlayback
  <2>2. q \in 0 .. QueueCeiling
    <3>1. v.queued \in Nat /\ ~(v.queued >= QueueCeiling)
      BY <1>2 DEF QueueFull, Voices
    <3> QED
      BY <3>1, PlayoutAssumption DEF Refill
  <2>3. s \in BOOLEAN
    OBVIOUS
  <2> HIDE DEF q, s
  <2>4. u \in Voices /\ u.window = v.window
    BY <2>2, <2>3, Zenon DEF Voices
  <2> QED
    BY <2>1, <2>4, Zenon
<1> QED
  BY <1>1, <1>2

(* The events of a frame, queued in turn, leave the voice's window alone.   *)
LEMMA QueuedSound ==
  ASSUME NEW v, VoiceSound(v), NEW es \in Seq(Happenings), NEW failed
  PROVE  VoiceSound(Queued(v, es, failed))
<1> DEFINE n == Len(es)
           S == {u \in Voices : u.window = v.window}
           Turn(u, i) == IF i \in failed THEN u ELSE QueuePlayback(u)
           F == [t \in S \X (1 .. n) |-> Turn(t[1], t[2])]
           Loop(g) == g = [k \in 0 .. n |-> IF k = 0 THEN v
                             ELSE CHOOSE y \in {Turn(b, k) : b \in {g[k - 1]}} : TRUE]
           after == CHOOSE g : Loop(g)
<1>1. n \in Nat /\ v \in S
  BY DEF VoiceSound
<1>2. \A u \in S : QueuePlayback(u) \in S
  BY PlaybackSound
<1> HIDE DEF S
<1>3. ASSUME NEW u \in S, NEW i PROVE Turn(u, i) \in S
  BY <1>2, Zenon
<1>4. IsTurns(F, S, n)
  <2> HIDE DEF Turn
  <2> QED
    BY <1>3 DEF IsTurns
<1> HIDE DEF n
<1>5. \E f : IsLoop(f, F, S, n, v)
  <2> HIDE DEF F
  <2> QED
    BY <1>1, <1>4, LoopExists, Zenon
<1>6. PICK f \in [0 .. n -> S] : f[0] = v /\ \A k \in 1 .. n : f[k] = F[<<f[k - 1], k>>]
  BY <1>5, Zenon DEF IsLoop
<1> HIDE DEF Turn
<1>7. ASSUME NEW k \in 1 .. n PROVE f[k] = Turn(f[k - 1], k)
  <2>1. f[k - 1] \in S
    BY <1>1, <1>6
  <2> QED
    BY <1>6, <2>1, Zenon
<1>8. \A b, k : (CHOOSE y \in {Turn(c, k) : c \in {b}} : TRUE) = Turn(b, k)
  BY Zenon
<1>9. Loop(f)
  BY <1>1, <1>6, <1>7, <1>8
<1>10. Loop(after)
  <2> HIDE DEF Loop
  <2> QED
    BY <1>9, Zenon
<1> HIDE DEF after
<1>11. after[0] = v /\ \A k \in 1 .. n : after[k] = Turn(after[k - 1], k)
  BY <1>1, <1>8, <1>10
<1>12. Queued(v, es, failed) = after[n]
  BY Zenon DEF Queued, Iterate, after, n, Turn
<1>13. after[n] \in S
  <2> DEFINE T == {k \in Nat : after[k] \in S}
  <2>1. 0 \in T
    BY <1>1, <1>11
  <2>2. ASSUME NEW k \in 1 .. n, k - 1 \in T PROVE k \in T
    <3>1. Turn(after[k - 1], k) \in S
      BY <1>3, <2>2
    <3> QED
      BY <1>1, <1>11, <3>1
  <2> HIDE DEF T
  <2>3. n \in T
    BY <1>1, <2>1, <2>2, CountUp, SMTT(30)
  <2> QED
    BY <2>3 DEF T
<1> QED
  BY <1>12, <1>13 DEF VoiceSound, S

(* A frame put through a voice leaves it sound (decodeAndQueue).            *)
LEMMA DecodedSound ==
  ASSUME NEW v, VoiceSound(v), NEW f \in Items, NEW failed
  PROVE  VoiceSound(Queued([v EXCEPT !.window = Offered(v, f).result.window,
                                     !.lateRun = Offered(v, f).lateRun],
                           Offered(v, f).result.events, failed))
<1>1. PICK w \in Windows, n \in 0 .. (LateRunRestart - 1), es \in Seq(Happenings) :
        /\ w = Offered(v, f).result.window /\ n = Offered(v, f).lateRun
        /\ es = Offered(v, f).result.events /\ Settled(w)
  BY OfferedSound DEF Settled, Slotted
<1> DEFINE u == [v EXCEPT !.window = w, !.lateRun = n]
<1>2. w \in Windows /\ v \in Voices
  BY <1>1, Zenon DEF Settled, Slotted, VoiceSound
<1>3. u \in Voices /\ u.window = w
  BY <1>2, Zenon DEF Voices
<1> HIDE DEF u
<1>4. VoiceSound(u)
  BY <1>1, <1>3, Zenon DEF VoiceSound
<1>5. VoiceSound(Queued(u, es, failed))
  BY <1>4, QueuedSound, Zenon
<1> QED
  BY <1>1, <1>5, Zenon DEF u

----------------------------------------------------------------------------
(* A cell whose sequence has left its first lap has been filled, so what    *)
(* pop copies out of it is a frame.                                         *)
FrameInv ==
  /\ \A i \in 0 .. (Capacity - 1) : cells[i].sequence = i \/ cells[i].item \in Items
  /\ pop.pc \in {"free", "advance", "popped"} => pop.item \in Items

(* What is popped is a frame (push and pop of MpscQueue.h).                 *)
LEMMA FrameStep == QueueInv /\ FrameInv /\ [QueueNext]_queueVars => FrameInv'
<1> SUFFICES ASSUME QueueInv, FrameInv, [QueueNext]_queueVars PROVE FrameInv'
  OBVIOUS
<1>1. /\ cells \in [0 .. (Capacity - 1) -> CellStates] /\ push \in [Producers -> PushStates]
      /\ dequeuePos \in Nat /\ pop \in [pc : PopAt, item : Payloads]
      /\ \A p \in Producers : push[p].pos \in Nat
  BY QueueTypes DEF QueueInv, QueueTypeOK
<1>2. \A a \in Nat : Cell(a) \in 0 .. (Capacity - 1)
  BY CellFacts
<1>3. ASSUME Ready(dequeuePos) PROVE cells[Cell(dequeuePos)].item \in Items
  <2>1. Cell(dequeuePos) \in 0 .. (Capacity - 1) /\ Cell(dequeuePos) <= dequeuePos
    <3> DEFINE q == dequeuePos \div Capacity
               r == dequeuePos % Capacity
    <3>1. q \in Int /\ r \in 0 .. (Capacity - 1) /\ dequeuePos = Capacity * q + r
      BY <1>1, DivMod
    <3> HIDE DEF q, r
    <3>2. Capacity * q >= 0
      <4>1. q <= -1 => Capacity * q <= -Capacity
        BY <3>1, Scale
      <4>2. q >= 0 => Capacity * q >= 0
        BY <3>1, CapacityAssumption
      <4> QED
        BY <1>1, <3>1, <4>1, <4>2, CapacityAssumption, SMTT(30)
    <3>3. Capacity * q \in Int
      BY <3>1, Scale
    <3>4. r <= dequeuePos
      BY <3>1, <3>2, <3>3, CapacityAssumption
    <3> QED
      BY <1>1, <1>2, <3>4 DEF Cell, r
  <2>2. cells[Cell(dequeuePos)].sequence = dequeuePos + 1
    BY <1>3 DEF Ready, Sequence
  <2>3. cells[Cell(dequeuePos)].sequence # Cell(dequeuePos)
    BY <1>1, <2>1, <2>2, CapacityAssumption, SMTT(30)
  <2> QED
    BY <2>1, <2>3 DEF FrameInv
<1>4. CASE UNCHANGED <<cells, pop>>
  BY <1>4 DEF FrameInv
<1>5. ASSUME NEW p \in Producers, PushFill(p) PROVE FrameInv'
  <2>1. push[p].item \in Items
    BY <1>5 DEF QueueInv, ClaimInv, PushFill
  <2> DEFINE i == Cell(push[p].pos)
  <2>2. i \in 0 .. (Capacity - 1) /\ cells' = [cells EXCEPT ![i].item = push[p].item] /\ pop' = pop
    BY <1>1, <1>2, <1>5 DEF PushFill
  <2> HIDE DEF i
  <2>3. /\ cells'[i].item = push[p].item
        /\ \A j \in 0 .. (Capacity - 1) : j # i => cells'[j] = cells[j]
    BY <1>1, <2>2 DEF CellStates
  <2> QED
    BY <2>1, <2>2, <2>3 DEF FrameInv
<1>6. ASSUME NEW p \in Producers, PushPublish(p) PROVE FrameInv'
  <2> DEFINE i == Cell(push[p].pos)
  <2>1. push[p].item \in Items /\ cells[i].item = push[p].item
    BY <1>6 DEF QueueInv, ClaimInv, PushPublish
  <2>2. /\ i \in 0 .. (Capacity - 1) /\ pop' = pop
        /\ cells' = [cells EXCEPT ![i].sequence = push[p].pos + 1]
    BY <1>1, <1>2, <1>6 DEF PushPublish
  <2> HIDE DEF i
  <2>3. /\ cells'[i].item = cells[i].item
        /\ \A j \in 0 .. (Capacity - 1) : j # i => cells'[j] = cells[j]
    BY <1>1, <2>2 DEF CellStates
  <2> QED
    BY <2>1, <2>2, <2>3 DEF FrameInv
<1>7. CASE PopFree
  <2> DEFINE i == Cell(dequeuePos)
  <2>1. Ready(dequeuePos) /\ pop.item \in Items
    BY <1>7 DEF PopFree, QueueInv, PopInv, FrameInv
  <2>2. cells[i].item \in Items
    BY <1>3, <2>1
  <2>3. /\ i \in 0 .. (Capacity - 1) /\ cells' = [cells EXCEPT ![i].sequence = NextLap]
        /\ pop' = [pop EXCEPT !.pc = "advance"]
    BY <1>1, <1>2, <1>7 DEF PopFree
  <2> HIDE DEF i
  <2>4. /\ cells'[i].item = cells[i].item
        /\ \A j \in 0 .. (Capacity - 1) : j # i => cells'[j] = cells[j]
    BY <1>1, <2>3 DEF CellStates
  <2>5. pop'.item = pop.item
    BY <1>1, <2>3
  <2> QED
    BY <2>1, <2>2, <2>3, <2>4, <2>5, SMTT(30) DEF FrameInv
<1>8. CASE PopCopy
  <2>1. Ready(dequeuePos)
    BY <1>8 DEF PopCopy, QueueInv, PopInv
  <2>2. pop'.item \in Items /\ cells' = cells
    BY <1>3, <1>8, <2>1 DEF PopCopy
  <2> QED
    BY <2>2 DEF FrameInv
<1>9. CASE PopLook \/ PopAdvance \/ PopReturn
  <2>1. /\ cells' = cells
        /\ \E pc \in PopAt : /\ pop' = [pop EXCEPT !.pc = pc]
                             /\ pc \in {"free", "advance", "popped"} => pop.pc = "advance"
    BY <1>9 DEF PopLook, PopAdvance, PopReturn, PopAt
  <2>2. PICK pc \in PopAt : /\ pop' = [pop EXCEPT !.pc = pc]
                            /\ pc \in {"free", "advance", "popped"} => pop.pc = "advance"
    BY <2>1
  <2>3. pop'.item = pop.item /\ pop'.pc = pc
    BY <1>1, <2>2
  <2> QED
    BY <2>1, <2>2, <2>3 DEF FrameInv
<1> QED
  BY <1>4, <1>5, <1>6, <1>7, <1>8, <1>9, Zenon
     DEF QueueNext, queueVars, PushStep, PushBegin, PushLook, PushReload, PushClaim, PushReturn,
         PopStep

----------------------------------------------------------------------------
(* Every voice is sound.                                                    *)
VoiceInv ==
  /\ voice \in [Producers -> Voices \cup {None}]
  /\ \A p \in Producers : voice[p] # None => VoiceSound(voice[p])

(* One voice replaced by a sound one, or by none.                           *)
LEMMA VoiceReplaced ==
  ASSUME VoiceInv, NEW p \in Producers, NEW v, v = None \/ VoiceSound(v),
         voice' = [voice EXCEPT ![p] = v]
  PROVE  VoiceInv'
<1>1. v \in Voices \cup {None}
  BY Zenon DEF VoiceSound
<1>2. voice' \in [Producers -> Voices \cup {None}]
  BY <1>1, Zenon DEF VoiceInv
<1>3. ASSUME NEW q \in Producers, voice'[q] # None PROVE VoiceSound(voice'[q])
  BY <1>3, Zenon DEF VoiceInv
<1> QED
  BY <1>2, <1>3, Zenon DEF VoiceInv

(* The playout thread's decode and the main thread's opening and closing,   *)
(* and the device, keep every voice sound (decodeAndQueue, reconcile).      *)
LEMMA VoiceStep == VoiceInv /\ FrameInv /\ [Next]_vars => VoiceInv'
<1> SUFFICES ASSUME VoiceInv, FrameInv, [Next]_vars PROVE VoiceInv'
  OBVIOUS
<1>1. CASE UNCHANGED voice
  BY <1>1, Zenon DEF VoiceInv
<1>2. ASSUME NEW p \in Producers, CloseVoice(p) PROVE VoiceInv'
  BY <1>2, VoiceReplaced, Zenon DEF CloseVoice
<1>3. ASSUME NEW p \in Producers, OpenVoice(p) PROVE VoiceInv'
  BY <1>3, VoiceReplaced, NewVoiceSound, Zenon DEF OpenVoice
<1>4. ASSUME NEW p \in Producers, DevicePlays(p) PROVE VoiceInv'
  <2>1. VoiceSound(voice[p]) /\ voice[p].queued > 0
    BY <1>4, Zenon DEF DevicePlays, VoiceInv
  <2>2. PICK q \in 0 .. QueueCeiling : q = voice[p].queued - 1
    <3>1. voice[p].queued \in 0 .. QueueCeiling
      BY <2>1, Zenon DEF VoiceSound, Voices
    <3> QED
      BY <2>1, <3>1, PlayoutAssumption
  <2> DEFINE v == [voice[p] EXCEPT !.queued = q]
  <2>3. voice' = [voice EXCEPT ![p] = v]
    BY <1>4, <2>2, Zenon DEF DevicePlays
  <2>4. v \in Voices /\ v.window = voice[p].window
    BY <2>1, Zenon DEF VoiceSound, Voices
  <2>5. VoiceSound(v)
    BY <2>1, <2>4, Zenon DEF VoiceSound
  <2> HIDE DEF v
  <2> QED
    BY <2>3, <2>5, VoiceReplaced, Zenon
<1>5. CASE Decode
  <2> DEFINE f == pop.item
             p == f.by
             o == Offered(voice[p], f)
  <2>1. f \in Items /\ p \in Producers /\ DecodeAndQueue(f)
    BY <1>5, FrameAssumption DEF Decode, FrameInv
  <2>2. CASE voice[p] = None
    BY <1>1, <2>1, <2>2, Zenon DEF DecodeAndQueue
  <2>3. CASE voice[p] # None
    <3>1. PICK failed :
            voice' = [voice EXCEPT ![p] =
                        Queued([voice[p] EXCEPT !.window = o.result.window, !.lateRun = o.lateRun],
                               o.result.events, failed)]
      BY <2>1, <2>3, Zenon DEF DecodeAndQueue
    <3>2. VoiceSound(voice[p])
      BY <2>1, <2>3, Zenon DEF VoiceInv
    <3>3. VoiceSound(Queued([voice[p] EXCEPT !.window = o.result.window, !.lateRun = o.lateRun],
                            o.result.events, failed))
      BY <2>1, <3>2, DecodedSound, Zenon
    <3> QED
      BY <2>1, <3>1, <3>3, VoiceReplaced, Zenon
  <2> QED
    BY <2>2, <2>3
<1>6. UNCHANGED vars => UNCHANGED voice
  BY DEF vars
<1>7. Worker => Decode \/ UNCHANGED voice
  BY DEF Worker, Announce, LookStop, LookEmpty, Acquire, Awake, CheckStop, CheckEmpty, WorkerAt,
         WorkerPops, QueueDrained
<1>8. ASSUME NEW p \in Producers,
             Deliver(p) \/ DeliverStep(p) \/ LookAhead(p) \/ NotifyLoad(p) \/ NotifyExchange(p)
      PROVE  UNCHANGED voice
  BY <1>8, Zenon DEF Deliver, DeliverStep, LookAhead, NotifyLoad, NotifyExchange
<1>9. Stop \/ StopNotifyLoad \/ StopNotifyExchange => UNCHANGED voice
  BY DEF Stop, StopNotifyLoad, StopNotifyExchange
<1> QED
  BY <1>1, <1>2, <1>3, <1>4, <1>5, <1>6, <1>7, <1>8, <1>9, Zenon DEF Next

----------------------------------------------------------------------------
(* The handshake of WorkerWake.  A playout thread that announced its sleep  *)
(* is announced or has a token; asleep with a frame published, a notify is  *)
(* on its way or the look of that frame's push was ahead of its publish;    *)
(* past its look at stopping_, the destructor's notify is on its way.       *)
NotifyComes(p) ==
  push[p].pc = "exchange" \/ (push[p].pc = "pushed" /\ looked[p] # "awake")
Notifying == \E p \in Producers : NotifyComes(p)

LookInv ==
  /\ looked \in [Producers -> {"not", "awake", "asleep"}] /\ passed \subseteq Nat
  /\ \A p \in Producers : looked[p] # "not" =>
       /\ push[p].pc \in {"publish", "pushed"}
       /\ looked[p] = "awake" /\ push[p].pos >= dequeuePos => push[p].pos \in passed

HandshakeInv ==
  /\ tokens \in Nat
  /\ worker \in {"announce", "lookStop", "lookEmpty", "acquire", "awake", "pop", "check",
                 "checkEmpty", "done"}
  /\ worker \in {"lookStop", "lookEmpty", "acquire"} => sleeping \/ tokens > 0
  /\ worker = "acquire" /\ ~Empty => tokens > 0 \/ Notifying \/ dequeuePos \in passed
  /\ worker \in {"lookEmpty", "acquire"} /\ stopping =>
       tokens > 0 \/ stopper \in {"notify", "exchange"}

WakeInv == LookInv /\ HandshakeInv

(* A push's step makes the queue non-empty only by publishing at its head.  *)
LEMMA PushQuiet ==
  ASSUME QueueInv, NEW p \in Producers,
         (\E x \in Items : PushBegin(p, x)) \/ PushStep(p)
  PROVE  /\ UNCHANGED <<dequeuePos, pop>>
         /\ Empty /\ ~Empty' => push'[p].pc = "pushed" /\ push[p].pos = dequeuePos
         /\ \A q \in Producers :
              push[q].pc \in {"publish", "pushed", "exchange"} =>
                /\ push'[q].pos = push[q].pos
                /\ push'[q].pc = push[q].pc \/ (push[q].pc = "publish" /\ push'[q].pc = "pushed")
<1>1. /\ cells \in [0 .. (Capacity - 1) -> CellStates] /\ push \in [Producers -> PushStates]
      /\ dequeuePos \in Nat /\ \A q \in Producers : push[q].pos \in Nat
  BY QueueTypes DEF QueueInv, QueueTypeOK
<1>2. CASE PushPublish(p)
  <2> DEFINE i == Cell(push[p].pos)
  <2>1. /\ push' = [push EXCEPT ![p].pc = "pushed"] /\ push[p].pc = "publish"
        /\ UNCHANGED <<dequeuePos, pop>>
        /\ cells' = [cells EXCEPT ![i].sequence = push[p].pos + 1]
    BY <1>2 DEF PushPublish, PushGoto
  <2> HIDE DEF i
  <2>2. push'[p].pc = "pushed" /\ push'[p].pos = push[p].pos
    BY <1>1, <2>1 DEF PushStates
  <2>3. Cell(dequeuePos) \in 0 .. (Capacity - 1) /\ Cell(dequeuePos)' = Cell(dequeuePos)
    BY <1>1, <2>1, CellFacts DEF Cell
  <2>4. \/ cells'[Cell(dequeuePos)].sequence = cells[Cell(dequeuePos)].sequence
        \/ cells'[Cell(dequeuePos)].sequence = push[p].pos + 1
    BY <1>1, <2>1, <2>3 DEF CellStates
  <2>5. Empty /\ ~Empty' => push[p].pos + 1 = dequeuePos + 1
    BY <2>1, <2>3, <2>4 DEF Empty, Sequence
  <2>6. \A q \in Producers \ {p} : push'[q] = push[q]
    BY <1>1, <2>1
  <2> QED
    BY <1>1, <2>1, <2>2, <2>5, <2>6
<1>3. CASE PushFill(p)
  <2> DEFINE i == Cell(push[p].pos)
  <2>1. /\ push' = [push EXCEPT ![p].pc = "publish"] /\ push[p].pc = "fill"
        /\ UNCHANGED <<dequeuePos, pop>> /\ cells' = [cells EXCEPT ![i].item = push[p].item]
    BY <1>3 DEF PushFill, PushGoto
  <2> HIDE DEF i
  <2>2. \A j \in 0 .. (Capacity - 1) : cells'[j].sequence = cells[j].sequence
    BY <1>1, <2>1 DEF CellStates
  <2>3. Cell(dequeuePos) \in 0 .. (Capacity - 1) /\ Cell(dequeuePos)' = Cell(dequeuePos)
    BY <1>1, <2>1, CellFacts DEF Cell
  <2>4. Empty' <=> Empty
    BY <2>1, <2>2, <2>3 DEF Empty, Sequence
  <2>5. \A q \in Producers \ {p} : push'[q] = push[q]
    BY <1>1, <2>1
  <2> QED
    BY <1>1, <2>1, <2>4, <2>5
<1>4. CASE (\E x \in Items : PushBegin(p, x)) \/ PushLook(p) \/ PushReload(p) \/ PushClaim(p)
  <2>1. UNCHANGED <<dequeuePos, pop, cells>> /\ push[p].pc \notin {"publish", "pushed", "exchange"}
    BY <1>4 DEF PushBegin, PushLook, PushReload, PushClaim
  <2>2. Empty' <=> Empty
    BY <2>1 DEF Empty, Sequence, Cell
  <2>3. \A q \in Producers \ {p} : push'[q] = push[q]
    BY <1>1, <1>4 DEF PushBegin, PushLook, PushReload, PushClaim, PushGoto
  <2> QED
    BY <2>1, <2>2, <2>3
<1> QED
  BY <1>2, <1>3, <1>4, SMTT(30) DEF PushStep

(* What was found ahead of a publish is kept until notify acts on it.       *)
LEMMA LookStep == QueueInv /\ WakeInv /\ [Next]_vars => LookInv'
<1> SUFFICES ASSUME QueueInv, WakeInv, [Next]_vars PROVE LookInv'
  OBVIOUS
<1>1. /\ push \in [Producers -> PushStates] /\ dequeuePos \in Nat
      /\ \A q \in Producers : push[q].pos \in Nat
  BY QueueTypes DEF QueueInv, QueueTypeOK
<1>2. LookInv
  BY DEF WakeInv
<1>3. ASSUME UNCHANGED <<looked, passed, push, dequeuePos>> PROVE LookInv'
  BY <1>2, <1>3 DEF LookInv
<1>4. ASSUME NEW p \in Producers, Deliver(p) \/ DeliverStep(p) PROVE LookInv'
  <2>1. /\ (\E x \in Items : PushBegin(p, x)) \/ PushStep(p)
        /\ UNCHANGED <<looked, passed>>
    BY <1>4, Zenon DEF Deliver, DeliverStep, wakeVars, lookVars
  <2>2. /\ dequeuePos' = dequeuePos
        /\ \A q \in Producers :
             push[q].pc \in {"publish", "pushed", "exchange"} =>
               /\ push'[q].pos = push[q].pos
               /\ push'[q].pc = push[q].pc \/ (push[q].pc = "publish" /\ push'[q].pc = "pushed")
    BY <2>1, PushQuiet, Zenon
  <2> QED
    BY <1>2, <2>1, <2>2 DEF LookInv
<1>5. ASSUME NEW p \in Producers, LookAhead(p) PROVE LookInv'
  <2>1. /\ push[p].pc = "publish" /\ UNCHANGED <<push, dequeuePos>>
        /\ looked' = [looked EXCEPT ![p] = IF sleeping THEN "asleep" ELSE "awake"]
        /\ passed' = IF sleeping THEN passed
                     ELSE {q \in passed : q >= dequeuePos} \cup {push[p].pos}
    BY <1>5 DEF LookAhead, queueVars
  <2>2. passed' \subseteq Nat
    BY <1>1, <1>2, <2>1 DEF LookInv
  <2>3. looked' \in [Producers -> {"not", "awake", "asleep"}]
    BY <1>2, <2>1 DEF LookInv
  <2>4. \A q \in Nat : q >= dequeuePos /\ q \in passed => q \in passed'
    BY <1>1, <2>1
  <2>5. looked'[p] = "awake" => push[p].pos \in passed'
    BY <1>2, <2>1 DEF LookInv
  <2>6. \A q \in Producers \ {p} : looked'[q] = looked[q]
    BY <1>2, <2>1 DEF LookInv
  <2> QED
    BY <1>1, <1>2, <2>1, <2>2, <2>3, <2>4, <2>5, <2>6 DEF LookInv
<1>6. ASSUME NEW p \in Producers, NotifyLoad(p) PROVE LookInv'
  <2>1. /\ UNCHANGED <<passed, dequeuePos>> /\ looked' = [looked EXCEPT ![p] = "not"]
        /\ \A q \in Producers \ {p} : push'[q] = push[q]
    BY <1>1, <1>6 DEF NotifyLoad
  <2>2. /\ looked' \in [Producers -> {"not", "awake", "asleep"}] /\ looked'[p] = "not"
        /\ \A q \in Producers \ {p} : looked'[q] = looked[q]
    BY <1>2, <2>1 DEF LookInv
  <2> QED
    BY <1>2, <2>1, <2>2 DEF LookInv
<1>7. ASSUME NEW p \in Producers, NotifyExchange(p) PROVE LookInv'
  <2>1. /\ push[p].pc = "exchange" /\ UNCHANGED <<looked, passed, dequeuePos>>
        /\ \A q \in Producers \ {p} : push'[q] = push[q]
    BY <1>1, <1>7 DEF NotifyExchange, lookVars
  <2>2. looked[p] = "not"
    BY <1>2, <2>1 DEF LookInv
  <2> QED
    BY <1>2, <2>1, <2>2 DEF LookInv
<1>8. ASSUME NEW p \in Producers, CloseVoice(p) \/ OpenVoice(p) \/ DevicePlays(p) PROVE LookInv'
  BY <1>3, <1>8 DEF CloseVoice, OpenVoice, DevicePlays, queueVars, wakeVars, lookVars
<1>9. CASE Stop \/ StopNotifyLoad \/ StopNotifyExchange
  BY <1>3, <1>9 DEF Stop, StopNotifyLoad, StopNotifyExchange, queueVars, lookVars
<1>10. CASE Worker
  <2>1. UNCHANGED <<looked, passed, push>> /\ dequeuePos' \in {dequeuePos, dequeuePos + 1}
    <3>1. CASE WorkerPops
      BY <3>1 DEF WorkerPops, PopStep, PopLook, PopCopy, PopFree, PopAdvance, wakeVars, lookVars
    <3>2. CASE QueueDrained \/ Decode
      BY <3>2 DEF QueueDrained, Decode, wakeVars, lookVars
    <3>3. CASE \/ Announce \/ LookStop \/ LookEmpty \/ Acquire \/ Awake \/ CheckStop \/ CheckEmpty
      BY <3>3 DEF Announce, LookStop, LookEmpty, Acquire, Awake, CheckStop, CheckEmpty, WorkerAt,
                  queueVars, lookVars
    <3> QED
      BY <1>10, <3>1, <3>2, <3>3 DEF Worker
  <2>2. \A q \in Producers : push[q].pos >= dequeuePos' => push[q].pos >= dequeuePos
    BY <1>1, <2>1
  <2> QED
    BY <1>2, <2>1, <2>2 DEF LookInv
<1>11. UNCHANGED vars => LookInv'
  BY <1>3 DEF vars, queueVars, wakeVars, lookVars
<1> QED
  BY <1>4, <1>5, <1>6, <1>7, <1>8, <1>9, <1>10, <1>11, Zenon DEF Next

(* The handshake is kept (notify and sleepUnless of WorkerWake.h).          *)
LEMMA HandshakeStep == QueueInv /\ WakeInv /\ [Next]_vars => HandshakeInv'
<1> SUFFICES ASSUME QueueInv, WakeInv, [Next]_vars PROVE HandshakeInv'
  OBVIOUS
<1>1. /\ push \in [Producers -> PushStates] /\ dequeuePos \in Nat
      /\ \A q \in Producers : push[q].pos \in Nat
  BY QueueTypes DEF QueueInv, QueueTypeOK
<1> LookInv /\ HandshakeInv
  BY DEF WakeInv
<1>2. ASSUME UNCHANGED <<wakeVars, worker, dequeuePos, cells, push>> PROVE HandshakeInv'
  BY <1>2 DEF HandshakeInv, wakeVars, lookVars, Empty, Sequence, Cell, Notifying, NotifyComes
<1>3. ASSUME NEW p \in Producers, Deliver(p) \/ DeliverStep(p) PROVE HandshakeInv'
  <2>1. /\ (\E x \in Items : PushBegin(p, x)) \/ PushStep(p)
        /\ UNCHANGED <<wakeVars, worker>>
    BY <1>3, Zenon DEF Deliver, DeliverStep
  <2>2. /\ dequeuePos' = dequeuePos
        /\ Empty /\ ~Empty' => push'[p].pc = "pushed" /\ push[p].pos = dequeuePos
        /\ \A q \in Producers :
             push[q].pc \in {"publish", "pushed", "exchange"} =>
               /\ push'[q].pos = push[q].pos
               /\ push'[q].pc = push[q].pc \/ (push[q].pc = "publish" /\ push'[q].pc = "pushed")
    BY <2>1, PushQuiet, Zenon
  <2>3. UNCHANGED <<sleeping, tokens, stopping, stopper, looked, passed, worker>>
    BY <2>1 DEF wakeVars, lookVars
  <2>4. Notifying => Notifying'
    BY <2>2, <2>3 DEF Notifying, NotifyComes
  <2>5. Empty /\ ~Empty' => Notifying' \/ dequeuePos \in passed
    <3>1. ASSUME Empty, ~Empty', looked[p] = "awake" PROVE dequeuePos \in passed
      BY <1>1, <2>2, <3>1 DEF LookInv
    <3> QED
      BY <2>2, <2>3, <3>1 DEF Notifying, NotifyComes
  <2> QED
    BY <2>2, <2>3, <2>4, <2>5 DEF HandshakeInv
<1>4. ASSUME NEW p \in Producers, LookAhead(p) PROVE HandshakeInv'
  <2>1. /\ push[p].pc = "publish"
        /\ UNCHANGED <<sleeping, tokens, stopping, stopper, worker, dequeuePos, cells, push>>
        /\ \A q \in Producers \ {p} : looked'[q] = looked[q]
        /\ passed' = IF sleeping THEN passed
                     ELSE {q \in passed : q >= dequeuePos} \cup {push[p].pos}
    BY <1>4 DEF LookAhead, queueVars, LookInv
  <2>2. Empty' <=> Empty
    BY <2>1 DEF Empty, Sequence, Cell
  <2>3. Notifying => Notifying'
    BY <2>1 DEF Notifying, NotifyComes
  <2>4. dequeuePos \in passed => dequeuePos \in passed'
    BY <1>1, <2>1
  <2> QED
    BY <2>1, <2>2, <2>3, <2>4 DEF HandshakeInv
<1>5. ASSUME NEW p \in Producers, NotifyLoad(p) PROVE HandshakeInv'
  <2>1. /\ push[p].pc = "pushed" /\ looked' = [looked EXCEPT ![p] = "not"]
        /\ UNCHANGED <<sleeping, tokens, stopping, stopper, passed, worker, dequeuePos, cells>>
        /\ \A q \in Producers \ {p} : push'[q] = push[q]
    BY <1>1, <1>5 DEF NotifyLoad
  <2>2. Empty' <=> Empty
    BY <2>1 DEF Empty, Sequence, Cell
  <2>3. Found(p) => Notifying'
    <3>1. Found(p) => push' = [push EXCEPT ![p] = [push[p] EXCEPT !.pc = "exchange"]]
      BY <1>5, Zenon DEF NotifyLoad
    <3>2. Found(p) => push'[p].pc = "exchange"
      BY <1>1, <3>1 DEF PushStates
    <3> QED
      BY <3>2 DEF Notifying, NotifyComes
  <2>4. ~Found(p) => looked[p] = "awake" \/ ~sleeping
    BY DEF Found, LookInv
  <2>5. Notifying /\ ~NotifyComes(p) => Notifying'
    <3>1. \A q \in Producers \ {p} : looked'[q] = looked[q]
      BY <2>1 DEF LookInv
    <3> QED
      BY <2>1, <3>1 DEF Notifying, NotifyComes
  <2>6. looked[p] = "awake" => ~NotifyComes(p)
    BY <2>1 DEF NotifyComes
  <2> QED
    BY <2>1, <2>2, <2>3, <2>4, <2>5, <2>6, SMTT(30) DEF HandshakeInv
<1>6. ASSUME NEW p \in Producers, NotifyExchange(p) PROVE HandshakeInv'
  <2>1. UNCHANGED <<stopping, stopper, worker>> /\ tokens' = Released
    BY <1>6 DEF NotifyExchange
  <2>2. tokens' \in Nat /\ (tokens > 0 \/ sleeping => tokens' > 0)
    BY <2>1 DEF HandshakeInv, Released
  <2>3. tokens > 0 => tokens' > 0
    BY <2>2
  <2> QED
    BY <2>1, <2>2, <2>3 DEF HandshakeInv
<1>7. ASSUME NEW p \in Producers, CloseVoice(p) \/ OpenVoice(p) \/ DevicePlays(p)
      PROVE  HandshakeInv'
  BY <1>2, <1>7 DEF CloseVoice, OpenVoice, DevicePlays, queueVars
<1>8. CASE Stop \/ StopNotifyLoad
  <2>1. UNCHANGED <<sleeping, tokens, looked, passed, worker, dequeuePos, cells, push>>
    BY <1>8 DEF Stop, StopNotifyLoad, queueVars, lookVars
  <2>2. (Empty' <=> Empty) /\ (Notifying' <=> Notifying)
    BY <2>1 DEF Empty, Sequence, Cell, Notifying, NotifyComes
  <2>3. \/ stopper' \in {"notify", "exchange"}
        \/ ~sleeping /\ stopping' = stopping
    BY <1>8 DEF Stop, StopNotifyLoad
  <2> QED
    BY <2>1, <2>2, <2>3, SMTT(30) DEF HandshakeInv
<1>9. CASE StopNotifyExchange
  <2>1. UNCHANGED <<stopping, worker>> /\ tokens' = Released
    BY <1>9 DEF StopNotifyExchange
  <2>2. tokens' \in Nat /\ (tokens > 0 \/ sleeping => tokens' > 0)
    BY <2>1 DEF HandshakeInv, Released
  <2> QED
    BY <2>1, <2>2 DEF HandshakeInv
<1>10. CASE Worker
  <2>1. CASE WorkerPops \/ Decode
    <3>1. worker = "pop" /\ UNCHANGED <<sleeping, tokens, stopping, stopper, worker>>
      BY <2>1 DEF WorkerPops, Decode, wakeVars
    <3> QED
      BY <3>1 DEF HandshakeInv
  <2>2. CASE QueueDrained \/ Announce \/ Awake \/ CheckStop \/ CheckEmpty
    BY <2>2 DEF QueueDrained, Announce, Awake, CheckStop, CheckEmpty, WorkerAt, AfterStop,
                wakeVars, HandshakeInv
  <2>3. CASE LookStop
    BY <2>3 DEF LookStop, WorkerAt, HandshakeInv
  <2>4. CASE LookEmpty
    <3>1. /\ worker = "lookEmpty" /\ worker' \in {"acquire", "awake"}
          /\ UNCHANGED <<sleeping, tokens, stopping, stopper, dequeuePos, cells>>
          /\ worker' = "acquire" => Empty
      BY <2>4 DEF LookEmpty, WorkerAt, AfterLook, queueVars
    <3>2. Empty' <=> Empty
      BY <3>1 DEF Empty, Sequence, Cell
    <3> QED
      BY <3>1, <3>2 DEF HandshakeInv
  <2>5. CASE Acquire
    BY <2>5 DEF Acquire, WorkerAt, HandshakeInv
  <2> QED
    BY <1>10, <2>1, <2>2, <2>3, <2>4, <2>5, SMTT(30) DEF Worker
<1>11. UNCHANGED vars => HandshakeInv'
  BY <1>2 DEF vars, queueVars
<1> QED
  BY <1>3, <1>4, <1>5, <1>6, <1>7, <1>8, <1>9, <1>10, <1>11, Zenon DEF Next

(* Both together.                                                           *)
LEMMA WakeStep == QueueInv /\ WakeInv /\ [Next]_vars => WakeInv'
  BY LookStep, HandshakeStep, Zenon DEF WakeInv

----------------------------------------------------------------------------
(* The invariant of the engine.                                             *)
PlayoutInv == QueueInv /\ FrameInv /\ VoiceInv /\ WakeInv

(* It holds at the start, when no frame is queued and every voice is fresh. *)
LEMMA PlayoutInit == Init => PlayoutInv
<1> SUFFICES ASSUME Init PROVE PlayoutInv
  OBVIOUS
<1>1. QueueInv
  BY QueueInitInv, SMTT(30) DEF Init
<1>2. FrameInv
  BY DEF Init, QueueInit, FrameInv
<1>3. VoiceInv
  <2>1. NewVoice \in Voices
    BY NewVoiceSound DEF VoiceSound
  <2>2. voice = [p \in Producers |-> NewVoice]
    BY DEF Init
  <2> QED
    BY <2>1, <2>2, NewVoiceSound, Zenon DEF VoiceInv
<1>4. WakeInv
  BY DEF Init, QueueInit, WakeInv, LookInv, HandshakeInv
<1> QED
  BY <1>1, <1>2, <1>3, <1>4, SMTT(30) DEF PlayoutInv

(* And every step of the engine keeps it.                                   *)
LEMMA PlayoutStep == PlayoutInv /\ [Next]_vars => PlayoutInv'
<1> SUFFICES ASSUME PlayoutInv, [Next]_vars PROVE PlayoutInv'
  OBVIOUS
<1>1. [QueueNext]_queueVars
  BY StepsQueue
<1>2. QueueInv' /\ FrameInv'
  BY <1>1, QueueStepInv, FrameStep, Zenon DEF PlayoutInv
<1>3. VoiceInv' /\ WakeInv'
  BY VoiceStep, WakeStep, Zenon DEF PlayoutInv
<1> QED
  BY <1>2, <1>3, Zenon DEF PlayoutInv

(* The engine is always in such a state.                                    *)
LEMMA PlayoutInvariant == Spec => []PlayoutInv
  BY PlayoutInit, PlayoutStep, PTL DEF Spec

(* NoFrameIsEaten, for every size: AudioJitterWindow's slots suffice, its   *)
(* "Unreachable" branch is unreachable, and no run of late frames outlives  *)
(* decodeAndQueue's limit.                                                  *)
THEOREM FramesFit == Spec => []NoFrameIsEaten
<1>1. PlayoutInv => NoFrameIsEaten
  <2> SUFFICES ASSUME PlayoutInv PROVE NoFrameIsEaten
    OBVIOUS
  <2>1. /\ enqueuePos \in Nat /\ dequeuePos \in Nat /\ dropped \in Nat
        /\ push \in [Producers -> PushStates] /\ pop \in [pc : PopAt, item : Payloads]
        /\ Oldest <= enqueuePos
    BY DEF PlayoutInv, QueueInv, QueueTypeOK, LapInv
  <2>2. dequeuePos \in 0 .. enqueuePos
    BY <2>1, SMTT(30) DEF Oldest
  <2>3. ASSUME NEW p \in Producers, voice[p] # None
        PROVE  /\ voice[p].lateRun \in 0 .. (LateRunRestart - 1)
               /\ WindowHolds(voice[p].window)
               /\ Cardinality(voice[p].window.held) < JitterWindow
    <3>1. voice[p] \in Voices /\ Settled(voice[p].window)
      BY <2>3, Zenon DEF PlayoutInv, VoiceInv, VoiceSound
    <3>2. voice[p].lateRun \in 0 .. (LateRunRestart - 1)
      BY <3>1, Zenon DEF Voices
    <3>3. WindowHolds(voice[p].window)
      BY <3>1, Zenon DEF Settled
    <3>4. Cardinality(voice[p].window.held) < JitterWindow
      BY <3>1, SlotToSpare
    <3> QED
      BY <3>2, <3>3, <3>4
  <2>4. (\A p \in Producers : push[p].pc \in PushAt) /\ pop.pc \in PopAt
    BY <2>1 DEF PushStates
  <2>5. TypeOK
    BY <2>1, <2>2, <2>3, <2>4 DEF TypeOK, PushAt, PopAt, PlayoutInv, WakeInv, LookInv,
                                     HandshakeInv
  <2> QED
    BY <2>3, <2>5, Zenon DEF NoFrameIsEaten
<1> QED
  BY <1>1, PlayoutInvariant, PTL

(* The device's queue stays within kPlayoutQueueCeilingFrames, the cushion  *)
(* of silence queuePlayback puts before a restart included.                 *)
UnderCeiling == \A p \in Producers : voice[p] # None => voice[p].queued <= QueueCeiling

(* UnderCeiling is kept whatever the network, the decoder and the device    *)
(* do (queuePlayback).                                                      *)
THEOREM DeviceQueueBounded == Spec => []UnderCeiling
<1>1. PlayoutInv => UnderCeiling
  <2> SUFFICES ASSUME PlayoutInv, NEW p \in Producers, voice[p] # None
               PROVE  voice[p].queued <= QueueCeiling
    BY DEF UnderCeiling
  <2>1. voice[p].queued \in 0 .. QueueCeiling
    BY Zenon DEF PlayoutInv, VoiceInv, VoiceSound, Voices
  <2> QED
    BY <2>1, PlayoutAssumption
<1> QED
  BY <1>1, PlayoutInvariant, PTL

(* The safety half of HandedOverIsHandled and StopDrains.  While the        *)
(* playout thread sleeps without a token it is announced, so whoever looks  *)
(* next wakes it; no stop is slept through; and a published frame is slept  *)
(* on only until its notify, unless the push that published it had looked   *)
(* ahead of its release store and found the thread awake.                   *)
SleepIsWoken ==
  worker = "acquire" /\ tokens = 0 =>
    /\ sleeping
    /\ ~Empty => Notifying \/ dequeuePos \in passed
    /\ stopping => stopper \in {"notify", "exchange"}

(* SleepIsWoken holds for any number of receive threads (notify and         *)
(* sleepUnless of WorkerWake.h: announce, then look again).                 *)
THEOREM NoWakeIsLost == Spec => []SleepIsWoken
<1>1. PlayoutInv => SleepIsWoken
  BY DEF PlayoutInv, WakeInv, HandshakeInv, SleepIsWoken
<1> QED
  BY <1>1, PlayoutInvariant, PTL

============================================================================
