-------------------------- MODULE MCConnectionHub --------------------------
(* ConnectionHub for TLC: pads and satellites are interchangeable.          *)
EXTENDS ConnectionHub, TLC
Symmetry == Permutations(SlotIds) \cup Permutations(ConnIds)
============================================================================
