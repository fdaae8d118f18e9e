----------------------------- MODULE MCLanding -----------------------------
(* One flight under settings that differ in what they let happen: flights   *)
(* share only the Armed switch and the rate log.                            *)
EXTENDS Landing
CONSTANT f1
TheFlight == {f1}

Set(commands, human, watched, level, message, handsFree, driver) ==
    [commands |-> commands, human |-> human, watched |-> watched, land |-> level,
     message |-> message, handsFree |-> handsFree, driver |-> driver]

OutOfTheBox == Set(TRUE, TRUE, FALSE, "confirm", "confirm", FALSE, "pane")
HandsFree   == Set(TRUE, TRUE, FALSE, "auto", "confirm", TRUE, "pane")
Quiet       == Set(TRUE, TRUE, FALSE, "confirm", "draft", TRUE, "acp")
OnItsOwn    == Set(TRUE, FALSE, FALSE, "confirm", "auto", FALSE, "acp")
NoGates     == Set(FALSE, FALSE, TRUE, "confirm", "off", FALSE, "pane")

Box      == {OutOfTheBox}
Anything == {OutOfTheBox, HandsFree, Quiet, OnItsOwn, NoGates}
=============================================================================
