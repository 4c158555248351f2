--------------------------- MODULE MCOutputWorker ---------------------------
(* Two producers; a kind whose value spans words, one of which holds the   *)
(* other kind too, as the light bar's and rumble's bytes do.               *)
EXTENDS OutputWorker

CONSTANTS p1, p2, rumble, lightbar

WordTable == [k \in {rumble, lightbar} |-> IF k = rumble THEN {1} ELSE {1, 2}]
============================================================================
