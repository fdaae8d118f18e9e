------------------------------ MODULE MCHandoff ------------------------------
(* Handoff with three packets for one model, which takes one of them, and a role
   that takes two: a helper that sits idle frees the model but not the role.  Two
   agents of other flights share the model, one of them in the role. *)
EXTENDS Handoff

CONSTANTS p1, p2, p3, m1, o1, o2

MCPackets     == {p1, p2, p3}
MCModels      == {m1}
MCCapacity    == [m \in MCModels |-> 1]
MCOthers      == {o1, o2}
MCLocalOthers == {o1}
MCOtherModel  == [o \in MCOthers |-> m1]
=============================================================================
