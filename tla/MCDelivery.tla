----------------------------- MODULE MCDelivery -----------------------------
(* One agent of each kind in turn (Init chooses): agents share nothing but   *)
(* the engine's thread and the GUI's connection.                             *)
EXTENDS Delivery
CONSTANT a1
TheAgent == {a1}
=============================================================================
