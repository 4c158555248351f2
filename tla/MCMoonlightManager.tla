------------------------- MODULE MCMoonlightManager -------------------------
(* Three pads, two of which a host takes.  A scene says how often each      *)
(* thing may happen to each host.                                           *)
EXTENDS MoonlightManager

CONSTANTS s1, s2, s3, h1, h2, xbox, ps

PadSymmetry == Permutations({s1, s2, s3})
Events == {"paired", "bind", "unbind", "forget", "probe", "add", "found", "apps", "quit", "pair",
           "cancelPair", "fails", "drop", "lost", "refuses", "other", "ends", "revokes"}
Never == [e \in Events |-> 0]
One(f) == [h \in Hosts |-> IF h = h1 THEN f @@ Never ELSE Never]

(* Pads come and go, and sessions start and stop, while replies are out.    *)
Churn == One([paired |-> 1, bind |-> 4, unbind |-> 3])
(* A step of an attempt fails, or the host has an app of its own.           *)
Setbacks == One([paired |-> 1, bind |-> 2, unbind |-> 2, fails |-> 1, quit |-> 1])
Taken == One([paired |-> 1, bind |-> 2, unbind |-> 1, other |-> 1, ends |-> 1])
(* A live link drops, a reply is lost, trust goes, the address is another's. *)
Drops == One([paired |-> 1, bind |-> 2, unbind |-> 1, drop |-> 1, lost |-> 1, revokes |-> 1])
Distrust == One([paired |-> 1, bind |-> 2, unbind |-> 2, revokes |-> 1])
Replaced == One([paired |-> 1, bind |-> 2, probe |-> 1, apps |-> 1, refuses |-> 1, revokes |-> 1])
(* Bindings wait for a pairing that is refused, cancelled, repeated.        *)
Trust == One([bind |-> 2, unbind |-> 1, pair |-> 2, cancelPair |-> 1, refuses |-> 1])
Checks == One([bind |-> 1, pair |-> 1, probe |-> 2, apps |-> 2])
(* A host is forgotten with anything out, and met again.                    *)
Forgets == One([paired |-> 1, bind |-> 2, forget |-> 1, probe |-> 1, add |-> 1])
Relists == One([paired |-> 1, forget |-> 1, probe |-> 2, apps |-> 1, found |-> 1, quit |-> 1, pair |-> 1])
(* A pad moves between two hosts.                                           *)
Moves == [h \in Hosts |-> IF h = h1 THEN [paired |-> 1, bind |-> 2] @@ Never
                          ELSE [paired |-> 1, bind |-> 1, unbind |-> 1] @@ Never]
AllScenes == {Churn, Setbacks, Taken, Drops, Distrust, Replaced, Trust, Checks, Forgets, Relists, Moves}
=============================================================================
