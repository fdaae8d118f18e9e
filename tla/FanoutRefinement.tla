-------------------------- MODULE FanoutRefinement --------------------------
(***************************************************************************)
(* Fanout keeps the promise of FanoutPromise.                              *)
(***************************************************************************)
EXTENDS Fanout

Stage ==
    CASE status = "none"                         -> "idle"
      [] IsOpen                                  -> "open"
      [] status = "Cancelled" /\ phase = "cancel" -> "closing"
      [] OTHER                                   -> "over"

\* Tower tells itself nothing of a cancel, but its flight is marked all the same.
Told ==
    CASE Stage # "over"      -> "nothing"
      [] status = "Done"     -> "all"
      [] status = "Partial"  -> "some"
      [] OTHER               -> "off"

Promise == INSTANCE FanoutPromise WITH
    Needs   <- DependsOn,
    stage   <- Stage,
    working <- InState("Queued") \cup InState("Running"),
    got     <- InState("Returned"),
    told    <- Told

\* Every step of the fan-out is a step of the promise or invisible to it: parts
\* run with the results they need, results are kept, and the outcome told is
\* the one there is, once everything is over (advance_fanout, cancel_fanout).
KeepsPromise == Promise!PromiseSpec
=============================================================================
