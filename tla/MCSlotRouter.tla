---------------------------- MODULE MCSlotRouter ----------------------------
(* An instance of SlotRouter for TLC.                                      *)
EXTENDS SlotRouter

CONSTANTS s1, s2, m1, m2
============================================================================
