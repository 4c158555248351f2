---------------------------- MODULE AudioJitter ----------------------------
(* dish::audio::AudioJitterWindow (core/audio/AudioJitter.h) as functions   *)
(* from a window to the next one: packets offered in any order come out in  *)
(* stream order, with a gap event for each frame given up.  A packet is a   *)
(* record with a field seq; its bytes are left out, so empty and oversized  *)
(* packets, which deliver() has filtered out, are too.                      *)
EXTENDS Integers, Sequences, FiniteSets, FiniteSetsExt

CONSTANTS
  SeqSpan,        \* 2^16: sequence numbers wrap
  JitterWindow,   \* AUDIO_JITTER_WINDOW_FRAMES
  MaxConceal      \* AUDIO_JITTER_MAX_CONCEAL_FRAMES

ASSUME JitterAssumption ==
  /\ JitterWindow \in Nat \ {0} /\ MaxConceal \in Nat \ {0}
  /\ SeqSpan \in Nat /\ SeqSpan > 2 * (JitterWindow + MaxConceal)

(* x after the turns 1 .. n, each given what the one before it made: a loop. *)
Iterate(n, x, Turn(_, _)) ==
  LET after[k \in 0 .. n] ==
        IF k = 0 THEN x ELSE CHOOSE y \in {Turn(b, k) : b \in {after[k - 1]}} : TRUE
  IN after[n]

MaxEventsPerPush == JitterWindow * (MaxConceal + 1)

(* reset: the state of a fresh window.                                      *)
FreshWindow == [primed |-> FALSE, next |-> 0, gaps |-> 0, held |-> {}]

After(s) == (s + 1) % SeqSpan

(* deltaFromNext: the int16_t cast.                                         *)
DeltaUnsigned(w, s) == (s - w.next) % SeqSpan        \* mutant: no cast
Delta(w, s) ==
  LET d == (s - w.next) % SeqSpan IN IF 2 * d >= SeqSpan THEN d - SeqSpan ELSE d

Find(w, s) == {h \in w.held : h.seq = s}
MaxAhead(w) == Max({-1} \cup {Delta(w, h.seq) : h \in w.held})
OldestHeld(w) == CHOOSE h \in w.held : \A g \in w.held : Delta(w, h.seq) <= Delta(w, g.seq)

Packet(h) == [kind |-> "packet", seq |-> h.seq, of |-> {h}]
Gap(w) == [kind |-> "gap", seq |-> w.next, of |-> Find(w, After(w.next))]

(* One turn of drain's loop: the frame due, or a wait, a resync past a run  *)
(* too long to conceal, or a concealed frame.                               *)
ProvenLostLate(w) == MaxAhead(w) > JitterWindow      \* mutant: off by one
ProvenLost(w) == MaxAhead(w) >= JitterWindow

DrainTurn(d) ==
  LET w == d.window
      due == Find(w, w.next)
  IN IF d.done \/ Len(d.events) >= MaxEventsPerPush THEN [d EXCEPT !.done = TRUE]
     ELSE IF due # {}
       THEN [d EXCEPT !.events = Append(@, Packet(CHOOSE h \in due : TRUE)),
                      !.window = [w EXCEPT !.held = @ \ due, !.next = After(@), !.gaps = 0]]
     ELSE IF ~ProvenLost(w) THEN [d EXCEPT !.done = TRUE]
     ELSE IF w.gaps >= MaxConceal
       THEN [d EXCEPT !.window = [w EXCEPT !.next = OldestHeld(w).seq, !.gaps = 0]]
     ELSE [d EXCEPT !.events = Append(@, Gap(w)),
                    !.window = [w EXCEPT !.next = After(@), !.gaps = @ + 1]]

(* A resync is followed by the packet it resumes at: twice the events do.   *)
Drain(w) ==
  Iterate(2 * MaxEventsPerPush, [window |-> w, events |-> << >>, done |-> FALSE],
          LAMBDA d, k : DrainTurn(d))

Prime(w, s) ==
  IF w.primed THEN w ELSE [w EXCEPT !.primed = TRUE, !.next = s, !.gaps = 0]

(* push: the verdict on the packet, the events, the window.                 *)
Push(before, f) ==
  LET w == Prime(before, f.seq)
      inserted == Drain([w EXCEPT !.held = @ \cup {f}])
      Verdict(v) == [accept |-> v, events |-> << >>, window |-> w]
  IN IF Delta(w, f.seq) < 0 THEN Verdict("late")
     ELSE IF f.seq = w.next /\ w.held = {}
       THEN [accept |-> "ok", events |-> <<Packet(f)>>,
             window |-> [w EXCEPT !.next = After(@), !.gaps = 0]]
     ELSE IF Find(w, f.seq) # {} THEN Verdict("duplicate")
     ELSE IF Cardinality(w.held) >= JitterWindow THEN Verdict("rejected")
     ELSE [accept |-> "ok", events |-> inserted.events, window |-> inserted.window]

(* The slots_ invariant the array is sized by: between pushes every packet  *)
(* held is ahead of the frame awaited, by less than the window.             *)
WindowHolds(w) ==
  \A h \in w.held : Delta(w, h.seq) \in 1 .. (JitterWindow - 1)

============================================================================
