---------------------- MODULE MCWifiConnectionManager ----------------------
(* Instances of WifiConnectionManager for TLC: each budget lets one family  *)
(* of outside events happen and leaves the others out.                      *)
EXTENDS WifiConnectionManager

None == [e \in Events |-> 0]

(* The user against what is in flight, with one loss.                       *)
UserBudgets == {[None EXCEPT !["user"] = 2, !["fault"] = 1]}

(* A session's own life: its slots, drift, a re-key, a close; and what it   *)
(* comes back from: a suspend, a loss, a close and the user's disconnect.   *)
RecoveryBudgets ==
  {[None EXCEPT !["close"] = 1, !["rekey"] = 1, !["slot"] = 1, !["drift"] = 1],
   [None EXCEPT !["user"] = 1, !["close"] = 1, !["sleep"] = 1, !["fault"] = 1]}

============================================================================
