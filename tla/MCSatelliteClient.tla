------------------------- MODULE MCSatelliteClient -------------------------
(* An instance of SatelliteClient for TLC.                                 *)
EXTENDS SatelliteClient, TLC

CONSTANTS s1, s2

TwoSenders == {s1, s2}
SenderSymmetry == Permutations(TwoSenders)

(* The satellite's packets under three successive keys, two counters each. *)
SixPackets == [key : {2, 4, 6}, ctr : 1..2]

(* Senders and receiver meet only in the re-key and the close, so an       *)
(* execution explores one side of the link: until now no sender has begun, *)
(* or no packet has come.                                                  *)
OneSide == (\A t \in Senders : copied[t] = 0) \/ rx.gen = 0
============================================================================
