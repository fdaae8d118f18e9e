---------------------------- MODULE FanoutPromise ----------------------------
(***************************************************************************)
(* What a fan-out promises the one who asked for it, with no waves, queue, *)
(* agents, retries or restarts in sight: a part is worked at only with the *)
(* results it needs at hand, a result that came back is kept, and the      *)
(* asker is told once, after the last part is over: that all results are   *)
(* there only when they are, and otherwise that some are missing or that   *)
(* the fan-out was called off.  Nothing is worked at afterwards.           *)
(*                                                                         *)
(* It does not hold where a human may retry after going on without a       *)
(* failed part: see DepsReturned in Fanout.                                *)
(***************************************************************************)
CONSTANTS Parts, Needs

VARIABLES
    stage,     \* "idle", "open", "closing" (being called off) or "over"
    working,   \* the parts handed to an agent, or in line for one
    got,       \* the parts whose result came back
    told       \* what the asker was told

promiseVars == <<stage, working, got, told>>

PromiseTypeOK ==
    /\ stage \in {"idle", "open", "closing", "over"}
    /\ working \in SUBSET Parts /\ got \in SUBSET Parts
    /\ told \in {"nothing", "all", "some", "off"}

PromiseInit ==
    stage = "idle" /\ working = {} /\ got = {} /\ told = "nothing"

Open ==
    /\ stage = "idle" /\ stage' = "open"
    /\ UNCHANGED <<working, got, told>>

WorkAt(p) ==
    /\ stage = "open" /\ p \notin got
    /\ Needs[p] \subseteq got
    /\ working' = working \cup {p}
    /\ UNCHANGED <<stage, got, told>>

GetResult(p) ==
    /\ stage = "open" /\ p \in working
    /\ working' = working \ {p}
    /\ got' = got \cup {p}
    /\ UNCHANGED <<stage, told>>

LoseResult(p) ==
    /\ stage \in {"open", "closing"} /\ p \in working
    /\ working' = working \ {p}
    /\ UNCHANGED <<stage, got, told>>

Tell ==
    /\ stage = "open" /\ working = {}
    /\ stage' = "over"
    /\ told' = IF got = Parts THEN "all" ELSE "some"
    /\ UNCHANGED <<working, got>>

CallOff ==
    /\ stage = "open" /\ stage' = "closing"
    /\ UNCHANGED <<working, got, told>>

TellOff ==
    /\ stage = "closing" /\ stage' = "over"
    /\ working' = {}
    /\ told' = "off"
    /\ UNCHANGED got

PromiseNext ==
    \/ Open \/ Tell \/ CallOff \/ TellOff
    \/ \E p \in Parts : WorkAt(p) \/ GetResult(p) \/ LoseResult(p)

PromiseSpec == PromiseInit /\ [][PromiseNext]_promiseVars
=============================================================================
