-------------------------- MODULE MCSpeakerPlayout --------------------------
(* An instance of SpeakerPlayout for TLC.                                   *)
EXTENDS SpeakerPlayout, TLC

CONSTANTS c1, c2

Connections == {c1, c2}
Frames == [by : Connections, stream : 0 .. 1, n : 0 .. 20, seq : 0 .. (SeqSpan - 1)]

Scene(first, a, b) ==
  [first |-> first, frames |-> c1 :> a @@ c2 :> b, spaced |-> b = 0,
   lost |-> 0, stale |-> 0, restart |-> 0, bad |-> 0, close |-> 0]

(* Two receive threads push at once, past the queue's capacity; one stream  *)
(* that wraps, with losses, late and repeated frames; one that restarts     *)
(* behind where it was; a voice closed and reopened, a decode that fails.   *)
AllScenes ==
  {Scene(0, 2, 1),
   [Scene(14, 4, 0) EXCEPT !.lost = 1, !.stale = 2],
   [Scene(5, 6, 0) EXCEPT !.restart = 1],
   [Scene(14, 3, 0) EXCEPT !.close = 1, !.bad = 1, !.lost = 1]}
============================================================================
