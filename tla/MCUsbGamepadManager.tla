------------------------ MODULE MCUsbGamepadManager ------------------------
(* A DualSense that the fast lane knows, its twin and one on Bluetooth, a   *)
(* Steam Controller, and a pad whose reports do not decode.  A scene names  *)
(* the pads that may be plugged in, and how often each thing may happen.    *)
EXTENDS UsbGamepadManager

CONSTANTS ds, twin, air, steam, odd, sony, valve, other, c1, c2

ModelOfPad == [p \in {ds, twin, air} |-> sony] @@ (steam :> valve) @@ (odd :> other)
Events == {"pick", "miss", "die", "jiggle", "unplug", "timeout"}
Scene(events, pads) == events @@ pads @@ [e \in Events \union Pads \union Conns |-> 0]

(* The user picks paths while SDL's device comes and goes.                  *)
Picks == Scene([pick |-> 2, jiggle |-> 1], ds :> 1 @@ c1 :> 1)
(* The pad leaves and comes back, and scans miss it.                        *)
Replugs == Scene([unplug |-> 1, miss |-> 1], ds :> 2 @@ c1 :> 1)
Misses == Scene([unplug |-> 1, miss |-> 3], ds :> 1)
(* Its reader dies while the node is there.                                 *)
Deaths == Scene([die |-> 2, pick |-> 1], ds :> 1 @@ c1 :> 1)
(* The same model is there on Bluetooth too.                                *)
Airs == Scene([jiggle |-> 1], ds :> 1 @@ air :> 1 @@ c1 :> 1 @@ c2 :> 1)
(* No SDL device stands behind this one.                                    *)
Steam == Scene([pick |-> 2, unplug |-> 1, die |-> 1], steam :> 1 @@ c1 :> 1)
(* A claim that reads noise.                                                *)
Noise == Scene([pick |-> 2, miss |-> 1], odd :> 1 @@ c1 :> 1)
(* The transition timer fires.                                              *)
Timers == Scene([pick |-> 2, timeout |-> 1, jiggle |-> 1], ds :> 1)
(* Two wired pads of a model.                                               *)
Twins == Scene([unplug |-> 1, die |-> 1], ds :> 1 @@ twin :> 1)
AllScenes == {Picks, Replugs, Misses, Deaths, Airs, Steam, Noise, Timers, Twins}
=============================================================================
