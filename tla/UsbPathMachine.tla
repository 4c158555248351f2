--------------------------- MODULE UsbPathMachine ---------------------------
(***************************************************************************)
(* The reducer of src/src/core/reducer/UsbPathMachine.cpp: which of its    *)
(* two paths a wired controller streams over, SDL ("Standard", the         *)
(* framework) or a raw-HID claim ("Direct").                               *)
(*                                                                         *)
(* A controller keeps its phase, the claim (or the placeholder of a        *)
(* released claim) it stands for, and whether a failure is to be shown.    *)
(* hidraw has no runtime permission, so hasPermission is always set and    *)
(* the arms that ask for it are never taken; desired, userInitiated,       *)
(* frameworkId, connId and type choose notices and labels only, and holds, *)
(* marks and notices have no effect on any path: all are left out.         *)
(***************************************************************************)
EXTENDS Naturals, Sequences

CONSTANT None   \* an untracked controller

Phases == {"Routed", "Claiming", "Direct", "AwaitingFramework", "RestoreStuck", "NeedsReplug"}
Paths == {"Standard", "Direct"}
NoId == 0

Event(kind) == [kind |-> kind]
Choose(path) == [kind |-> "Choose", path |-> path]
ClaimSucceeded(id) == [kind |-> "ClaimSucceeded", id |-> id]
ClaimFailed(stolen) == [kind |-> "ClaimFailed", stolen |-> stolen]

Effect(name) == [do |-> name]
SetPref(path) == [do |-> "SetPref", path |-> path]
RemoveSynthetic(id) == IF id = NoId THEN <<>> ELSE <<[do |-> "RemoveSynthetic", id |-> id]>>

Reduction(next, effects) == [next |-> next, effects |-> effects]
stay(c) == Reduction(c, <<>>)

(* The framework device came back: its stand-in goes, Standard is stored.   *)
bindReturnedFramework(c, extra) ==
  Reduction([c EXCEPT !.phase = "Routed", !.synth = NoId, !.failed = FALSE],
            RemoveSynthetic(c.synth) \o <<SetPref("Standard")>> \o extra)

startClaim(c) ==
  Reduction([c EXCEPT !.phase = "Claiming", !.failed = FALSE],
            <<Effect("ClearFailure"), Effect("Claim")>>)

reduceRouted(c, e) ==
  CASE e.kind = "FrameworkDown" -> stay([c EXCEPT !.phase = "AwaitingFramework"])
    [] e.kind = "Choose" /\ e.path = "Direct" -> startClaim(c)
    [] OTHER -> stay(c)

reduceClaiming(c, e, frameworkExpected) ==
  CASE e.kind = "ClaimSucceeded" ->
         Reduction([phase |-> "Direct", synth |-> e.id, failed |-> FALSE],
                   <<Effect("ClearFailure")>>)
    [] e.kind = "ClaimFailed" /\ e.stolen /\ frameworkExpected ->
         stay([phase |-> "AwaitingFramework", synth |-> NoId, failed |-> TRUE])
    [] e.kind = "ClaimFailed" /\ ~(e.stolen /\ frameworkExpected) ->
         Reduction([phase |-> "Routed", synth |-> NoId, failed |-> TRUE],
                   <<SetPref("Standard"), Effect("MarkFailure")>>)
    [] OTHER -> stay(c)

(* A pad with no framework identity is handed back whole at once; any other *)
(* leaves its stand-in until SDL's device binds.                            *)
HandBackUnreleased(c, failed, frameworkExpected) ==     \* mutant: no Release
  Reduction([c EXCEPT !.phase = "AwaitingFramework", !.failed = failed], <<>>)
HandBack(c, failed, frameworkExpected) ==
  IF frameworkExpected
  THEN Reduction([c EXCEPT !.phase = "AwaitingFramework", !.failed = failed],
                 <<Effect("Release")>>)
  ELSE Reduction([phase |-> "Routed", synth |-> NoId, failed |-> failed],
                 <<Effect("Release")>> \o RemoveSynthetic(c.synth)
                 \o <<SetPref("Standard"), Effect(IF failed THEN "MarkFailure" ELSE "ClearFailure")>>)

reduceDirect(c, e, frameworkExpected) ==
  CASE e.kind = "Choose" /\ e.path = "Standard" -> HandBack(c, FALSE, frameworkExpected)
    [] e.kind = "ClaimUnreadable" -> HandBack(c, TRUE, frameworkExpected)
    [] OTHER -> stay(c)

(* A pick made while the framework is awaited is not looked at.             *)
reduceAwaiting(c, e) ==
  CASE e.kind = "FrameworkUp" ->
         bindReturnedFramework(c, <<Effect(IF c.failed THEN "MarkFailure" ELSE "ClearFailure")>>)
    [] e.kind = "Timeout" /\ c.synth # NoId -> stay([c EXCEPT !.phase = "RestoreStuck"])
    [] e.kind = "Timeout" /\ c.synth = NoId ->
         Reduction([c EXCEPT !.phase = "NeedsReplug", !.failed = TRUE],
                   <<Effect("MarkFailure"), SetPref("Standard")>>)
    [] OTHER -> stay(c)

reduceRestoreStuck(c, e) ==
  CASE e.kind = "Choose" /\ e.path = "Direct" -> Reduction(c, <<Effect("Reclaim")>>)
    [] e.kind = "Choose" /\ e.path = "Standard" -> stay([c EXCEPT !.phase = "AwaitingFramework"])
    [] e.kind = "ClaimSucceeded" ->
         Reduction([phase |-> "Direct", synth |-> e.id, failed |-> FALSE],
                   <<SetPref("Direct"), Effect("ClearFailure")>>)
    [] e.kind = "ClaimFailed" ->
         Reduction([phase |-> "NeedsReplug", synth |-> NoId, failed |-> TRUE],
                   <<Effect("MarkFailure")>>)
    [] e.kind = "FrameworkUp" -> bindReturnedFramework(c, <<Effect("ClearFailure")>>)
    [] OTHER -> stay(c)

reduceNeedsReplug(c, e) ==
  IF e.kind = "FrameworkUp"
  THEN Reduction([c EXCEPT !.phase = "Routed", !.failed = FALSE], <<Effect("ClearFailure")>>)
  ELSE stay(c)

(* An unplug wins from every phase and ends the tracking.                   *)
reduce(c, e, frameworkExpected) ==
  IF e.kind = "UsbUnplugged" THEN Reduction(None, RemoveSynthetic(c.synth))
  ELSE CASE c.phase = "Routed" -> reduceRouted(c, e)
         [] c.phase = "Claiming" -> reduceClaiming(c, e, frameworkExpected)
         [] c.phase = "Direct" -> reduceDirect(c, e, frameworkExpected)
         [] c.phase = "AwaitingFramework" -> reduceAwaiting(c, e)
         [] c.phase = "RestoreStuck" -> reduceRestoreStuck(c, e)
         [] c.phase = "NeedsReplug" -> reduceNeedsReplug(c, e)

shouldNeverSettle(phase, frameworkPresent) == FALSE     \* mutant: only the edge counts
shouldSettleAwaitingFramework(phase, frameworkPresent) ==
  phase = "AwaitingFramework" /\ frameworkPresent

(* A stored pick wins; on Auto a fast-lane model goes Direct until it fails. *)
resolvePathChoice(stored, fastLane, priorFailure) ==
  IF stored # "auto" THEN stored ELSE IF fastLane /\ ~priorFailure THEN "Direct" ELSE "Standard"
=============================================================================
