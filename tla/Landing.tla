------------------------------ MODULE Landing ------------------------------
(***************************************************************************)
(* How a flight lands: its agent calls tower_complete, the gate commands   *)
(* run beside the engine, and their result lets the flight land on its own *)
(* (policy: level, Armed, rate limit) or asks the human in the Inbox.  The *)
(* human may answer late, escalate, stop the agent or launch another one   *)
(* at any moment; the agent may complete again while gates still run; the  *)
(* daemon may restart.                                                     *)
(*                                                                         *)
(* Abstracted: what the commands do (a run passes or fails), texts, the    *)
(* bandit and the counters that learn from outcomes, publishing a branch   *)
(* and writing back to a tracker after the landing, questions of agents,   *)
(* swarm flights.  Whether the lead has read what it was told is Delivery. *)
(*                                                                         *)
(* A definition named X_Y is X with a plausible mistake Y in it.  Next     *)
(* uses none of them.                                                      *)
(***************************************************************************)
EXTENDS Naturals, FiniteSets

CONSTANTS
    Flights,
    TopRung,       \* last rung of the role's ladder
    PerRung,       \* [gates] failures_per_rung
    MaxAuto,       \* [policy] max_auto_per_hour
    Settings,      \* settings a flight may be under
    MaxRuns,       \* bound: gate runs of a flight
    MaxTexts,      \* bound: other Tower texts for its lead
    MaxRestarts    \* bound: restarts of the daemon

Levels == {"off", "draft", "confirm", "auto"}

\* Gate commands are configured; [gates] human; the levels for landing and for
\* Tower's texts, the first set by the watch or not; how agents run.
AllSettings == [commands : BOOLEAN, human : BOOLEAN, watched : BOOLEAN, land : Levels,
                message : Levels, handsFree : BOOLEAN, driver : {"pane", "acp"}]

ASSUME LandingAssumption ==
    /\ TopRung \in Nat /\ PerRung \in Nat \ {0} /\ MaxAuto \in Nat
    /\ Settings \subseteq AllSettings
    /\ MaxRuns \in Nat /\ MaxTexts \in Nat /\ MaxRestarts \in Nat

VARIABLES
    conf,       \* the settings the flight is under
    stage,      \* Flight.stage; "deleted" once it is gone
    hasRole,    \* Flight.role_id is known
    outcome,    \* Flight.outcome
    gates,      \* Flight.gates: the commands' entry and the human's
    failures,   \* Flight.failures
    rung,       \* State.rungs of the lead
    live,       \* the lead is live
    busy,       \* it has something to do since it last completed
    land,       \* "Land?" items in the Inbox that name the lead, and earlier ones
    failed,     \* "Gate failed" items, likewise
    shown,      \* a "Send ... to the lead?" item is in the Inbox
    held,       \* State.pending_actions holds a message for the lead
    open,       \* gate runs whose result is not in yet: <<number, has commands>>
    count,      \* number of gate runs started
    armed,      \* Tower is armed
    rates,      \* automatic runs of the last hour, per action
    again,      \* the gates started again before the last run was settled
    excused,    \* the flight was given up or lost: see SomebodyHasIt
    texts,      \* other Tower texts sent
    restarts

flightVars == <<stage, hasRole, outcome, gates, failures>>
leadVars   == <<rung, live, busy>>
inboxVars  == <<land, failed, shown, held>>
runVars    == <<open, count>>
policyVars == <<armed, rates>>
ghosts     == <<again, excused>>
bounds     == <<texts, restarts>>
vars == <<conf, flightVars, leadVars, inboxVars, runVars, policyVars, ghosts, bounds>>

Actions  == {"land", "message"}
Items    == [mine : Nat, old : Nat]
NoItem   == [mine |-> 0, old |-> 0]

TypeOK ==
    /\ conf \in [Flights -> Settings]
    /\ stage \in [Flights -> {"cleared", "inflight", "gates", "needsyou", "landed",
                              "deleted"}]
    /\ hasRole \in [Flights -> BOOLEAN]
    /\ outcome \in [Flights -> {"none", "resolved", "proposed"}]
    /\ gates \in [Flights -> [tests : {"none", "running", "passed", "failed"},
                              you : {"none", "pending", "passed", "failed"}]]
    /\ failures \in [Flights -> Nat]
    /\ rung \in [Flights -> 0..TopRung]
    /\ live \in [Flights -> BOOLEAN] /\ busy \in [Flights -> BOOLEAN]
    /\ land \in [Flights -> Items] /\ failed \in [Flights -> Items]
    /\ shown \in [Flights -> BOOLEAN] /\ held \in [Flights -> BOOLEAN]
    /\ open \in [Flights -> SUBSET (Nat \X BOOLEAN)] /\ count \in [Flights -> Nat]
    /\ armed \in BOOLEAN /\ rates \in [Actions -> 0..MaxAuto]
    /\ again \in [Flights -> BOOLEAN] /\ excused \in [Flights -> BOOLEAN]
    /\ texts \in [Flights -> Nat] /\ restarts \in Nat

\* Settings are read from files; they do not change while the flight is open.
Init ==
    /\ conf \in [Flights -> Settings]
    /\ stage = [f \in Flights |-> "cleared"]
    /\ hasRole = [f \in Flights |-> FALSE]
    /\ outcome = [f \in Flights |-> "none"]
    /\ gates = [f \in Flights |-> [tests |-> "none", you |-> "none"]]
    /\ failures = [f \in Flights |-> 0] /\ rung = [f \in Flights |-> 0]
    /\ live = [f \in Flights |-> FALSE] /\ busy = [f \in Flights |-> FALSE]
    /\ land = [f \in Flights |-> NoItem] /\ failed = [f \in Flights |-> NoItem]
    /\ shown = [f \in Flights |-> FALSE] /\ held = [f \in Flights |-> FALSE]
    /\ open = [f \in Flights |-> {}] /\ count = [f \in Flights |-> 0]
    /\ armed = FALSE /\ rates = [x \in Actions |-> 0]
    /\ again = [f \in Flights |-> FALSE] /\ excused = [f \in Flights |-> FALSE]
    /\ texts = [f \in Flights |-> 0] /\ restarts = 0

Exists(f)      == stage[f] # "deleted"
AnyItem(item)  == item.mine + item.old > 0
SetStage(f, s) == stage' = [stage EXCEPT ![f] = s]

(***************************************************************************)
(* Policy: levels, Armed, the rate limit.                                  *)
(***************************************************************************)
\* A hands-free flight has its messages sent where it would ask.
MessageLevel(f) ==
    IF conf[f].handsFree /\ conf[f].message = "confirm" THEN "auto" ELSE conf[f].message

\* Without "You" among the gates it lands on its own, unless the watch the
\* flight came from says otherwise.
LandLevel(f) ==
    IF gates[f].you = "none" /\ ~conf[f].watched THEN "auto" ELSE conf[f].land

Runs_NoLimit(x, level) == level = "auto" /\ armed

Runs(x, level) == level = "auto" /\ armed /\ rates[x] < MaxAuto

CountRun(x, run) == rates' = [rates EXCEPT ![x] = IF run THEN @ + 1 ELSE @]

SetArmed ==
    /\ armed' = ~armed
    /\ UNCHANGED <<conf, flightVars, leadVars, inboxVars, runVars, rates, ghosts, bounds>>

\* The automatic runs counted so far are more than an hour old.
HourPasses ==
    /\ \E x \in Actions : rates[x] > 0
    /\ rates' = [x \in Actions |-> 0]
    /\ UNCHANGED <<conf, flightVars, leadVars, inboxVars, runVars, armed, ghosts, bounds>>

(***************************************************************************)
(* A text from Tower to the lead: sent, asked about, or not sent.  What is *)
(* asked about is merged into the question that is already waiting.        *)
(***************************************************************************)
AskMessage(f) ==
    /\ held'  = [held EXCEPT ![f] = TRUE]
    /\ shown' = [shown EXCEPT ![f] = @ \/ ~held[f]]

DeliverTower(f) ==
    LET level == MessageLevel(f)
        run   == Runs("message", level)
    IN /\ CountRun("message", run)
       /\ busy' = [busy EXCEPT ![f] = @ \/ (run /\ live[f])]
       /\ IF level \in {"confirm", "auto"} /\ ~run
          THEN AskMessage(f) ELSE UNCHANGED <<held, shown>>

\* A post that names the lead, an issue update, a handoff's result.
Post(f) ==
    /\ live[f] /\ texts[f] < MaxTexts
    /\ texts' = [texts EXCEPT ![f] = @ + 1]
    /\ DeliverTower(f)
    /\ UNCHANGED <<conf, flightVars, rung, live, land, failed, runVars, armed, ghosts,
                   restarts>>

\* The human writes to it, which needs no clearance.
SendMessage(f) ==
    /\ live[f] /\ ~busy[f]
    /\ busy' = [busy EXCEPT ![f] = TRUE]
    /\ UNCHANGED <<conf, flightVars, rung, live, inboxVars, runVars, policyVars, ghosts,
                   bounds>>

AnswerMessage(f, send) ==
    /\ shown[f]
    /\ shown' = [shown EXCEPT ![f] = FALSE] /\ held' = [held EXCEPT ![f] = FALSE]
    /\ busy'  = [busy EXCEPT ![f] = @ \/ (send /\ live[f])]
    /\ excused' = [excused EXCEPT ![f] = @ \/ ~send]
    /\ UNCHANGED <<conf, flightVars, rung, live, land, failed, runVars, policyVars,
                   again, bounds>>

(***************************************************************************)
(* Agents come and go.                                                     *)
(***************************************************************************)
Older(items, f) == items' = [items EXCEPT ![f] = [mine |-> 0, old |-> @.mine + @.old]]

\* A new lead: the Inbox items name the one before, what waited for that one
\* is not for this one.
NewLead(f, r) ==
    /\ SetStage(f, "inflight")
    /\ rung' = [rung EXCEPT ![f] = r]
    /\ live' = [live EXCEPT ![f] = TRUE] /\ busy' = [busy EXCEPT ![f] = TRUE]
    /\ held' = [held EXCEPT ![f] = FALSE] /\ shown' = [shown EXCEPT ![f] = FALSE]
    /\ excused' = [excused EXCEPT ![f] = FALSE]

\* Also on a flight whose gates run, or that landed.
Launch(f) ==
    /\ Exists(f) /\ ~live[f]
    /\ hasRole' = [hasRole EXCEPT ![f] = TRUE]
    /\ NewLead(f, 0)
    /\ Older(land, f) /\ Older(failed, f)
    /\ UNCHANGED <<conf, outcome, gates, failures, runVars, policyVars, again, bounds>>

NotMine(items, f) == items' = [items EXCEPT ![f].mine = 0]

\* mark_offline takes the Inbox items that name the agent along.
MarkOffline(f) ==
    /\ live' = [live EXCEPT ![f] = FALSE] /\ busy' = [busy EXCEPT ![f] = FALSE]
    /\ NotMine(land, f) /\ NotMine(failed, f)
    /\ shown' = [shown EXCEPT ![f] = FALSE]

\* The lead exits, or the human stops it.
Leave(f) ==
    /\ live[f]
    /\ MarkOffline(f)
    /\ SetStage(f, IF stage[f] = "inflight" THEN "cleared" ELSE stage[f])
    /\ excused' = [excused EXCEPT
                     ![f] = @ \/ land[f].mine + failed[f].mine > 0 \/ shown[f]]
    /\ UNCHANGED <<conf, hasRole, outcome, gates, failures, rung, held, runVars,
                   policyVars, again, bounds>>

\* delete_flight.
Delete(f) ==
    /\ Exists(f) /\ ~live[f]
    /\ SetStage(f, "deleted")
    /\ land' = [land EXCEPT ![f] = NoItem] /\ failed' = [failed EXCEPT ![f] = NoItem]
    /\ shown' = [shown EXCEPT ![f] = FALSE]
    /\ UNCHANGED <<conf, hasRole, outcome, gates, failures, leadVars, held, runVars,
                   policyVars, ghosts, bounds>>

\* escalate_now: the lead is stopped, then the next rung starts, if it can.
EscalateNow(f) ==
    /\ hasRole[f] /\ rung[f] < TopRung
    /\ failed' = [failed EXCEPT ![f] = NoItem]
    /\ land' = [land EXCEPT ![f] = [mine |-> 0, old |-> @.old + IF live[f] THEN 0
                                                                 ELSE @.mine]]
    /\ \/ NewLead(f, rung[f] + 1)
       \/ /\ SetStage(f, "cleared")
          /\ live' = [live EXCEPT ![f] = FALSE] /\ busy' = [busy EXCEPT ![f] = FALSE]
          /\ shown' = [shown EXCEPT ![f] = @ /\ ~live[f]]
          /\ UNCHANGED <<rung, held, excused>>
    /\ UNCHANGED <<conf, hasRole, outcome, gates, failures, runVars, policyVars, again,
                   bounds>>

Escalate(f) == Exists(f) /\ EscalateNow(f)

(***************************************************************************)
(* Gates.                                                                  *)
(***************************************************************************)
Tested(o) == o \in {"none", "resolved"}

\* run_gates, for outcome o: a proposal has nothing to test, and only the
\* human decides about it.
RunGates(f, o) ==
    LET tests == Tested(o) /\ conf[f].commands
        human == ~Tested(o) \/ conf[f].human
    IN /\ count' = [count EXCEPT ![f] = @ + 1]
       /\ open'  = [open EXCEPT ![f] = @ \cup {<<count'[f], tests>>}]
       /\ gates' = [gates EXCEPT ![f] = [tests |-> IF tests THEN "running" ELSE "none",
                                         you |-> IF human THEN "pending" ELSE "none"]]
       /\ SetStage(f, "gates")
       /\ again' = [again EXCEPT ![f] = open[f] # {} \/ AnyItem(land[f])]
       /\ excused' = [excused EXCEPT ![f] = FALSE]

\* The gates are chosen before the new outcome is noted.
Complete_OldOutcome(f, o) ==
    /\ live[f] /\ busy[f] /\ Exists(f) /\ count[f] < MaxRuns
    /\ outcome' = [outcome EXCEPT ![f] = o]
    /\ busy'    = [busy EXCEPT ![f] = FALSE]
    /\ RunGates(f, outcome[f])
    /\ UNCHANGED <<conf, hasRole, failures, rung, live, inboxVars, policyVars, bounds>>

\* tower_complete: at any time, also while the gates of the last call run.
Complete(f, o) ==
    /\ live[f] /\ busy[f] /\ Exists(f) /\ count[f] < MaxRuns
    /\ outcome' = [outcome EXCEPT ![f] = o]
    /\ busy'    = [busy EXCEPT ![f] = FALSE]
    /\ RunGates(f, o)
    /\ UNCHANGED <<conf, hasRole, failures, rung, live, inboxVars, policyVars, bounds>>

\* land, with gates g: the flight's Inbox items go, and a lead without a pane
\* is stopped.
LandNow(f, g) ==
    LET stop == live[f] /\ conf[f].driver # "pane" IN
    /\ SetStage(f, "landed")
    /\ gates' = [gates EXCEPT ![f] = [g EXCEPT !.you = IF @ = "none" THEN @
                                                      ELSE "passed"]]
    /\ land' = [land EXCEPT ![f] = NoItem] /\ failed' = [failed EXCEPT ![f] = NoItem]
    /\ shown' = [shown EXCEPT ![f] = FALSE]
    /\ live' = [live EXCEPT ![f] = @ /\ ~stop] /\ busy' = [busy EXCEPT ![f] = @ /\ ~stop]

Add(items, f) == items' = [items EXCEPT ![f].mine = @ + 1]

\* Nobody asks whether the lead is there.
Fixes_Gone(f) == conf[f].handsFree /\ armed /\ failures[f] + 1 < PerRung

\* A hands-free flight's lead is told to fix it; the human is asked once the
\* failures reach failures_per_rung, or when nobody is there to fix it.
Fixes(f) == conf[f].handsFree /\ armed /\ live[f] /\ failures[f] + 1 < PerRung

\* The item is left out for every hands-free flight.
GateFailed_NeverAsks(f) ==
    /\ failures' = [failures EXCEPT ![f] = @ + 1]
    /\ SetStage(f, IF Fixes(f) THEN "inflight" ELSE "needsyou")
    /\ IF conf[f].handsFree THEN UNCHANGED failed ELSE Add(failed, f)
    /\ excused' = [excused EXCEPT
                     ![f] = @ \/ (Fixes(f) /\ MessageLevel(f) \in {"off", "draft"})]
    /\ DeliverTower(f)
    /\ UNCHANGED <<land, live>>

GateFailed(f) ==
    /\ failures' = [failures EXCEPT ![f] = @ + 1]
    /\ SetStage(f, IF Fixes(f) THEN "inflight" ELSE "needsyou")
    /\ IF Fixes(f) THEN UNCHANGED failed ELSE Add(failed, f)
    /\ excused' = [excused EXCEPT
                     ![f] = @ \/ (Fixes(f) /\ MessageLevel(f) \in {"off", "draft"})]
    /\ DeliverTower(f)
    /\ UNCHANGED <<land, live>>

\* An "auto" that may not run now does not ask.
Asks_ConfirmOnly(f) == ~Tested(outcome[f]) \/ LandLevel(f) # "auto"

\* "Land?" is asked for a proposal, and for what may not land on its own now.
Asks(f) == ~Tested(outcome[f]) \/ ~Runs("land", LandLevel(f))

GatePassed(f, g) ==
    LET run == Tested(outcome[f]) /\ Runs("land", LandLevel(f)) IN
    /\ CountRun("land", run)
    /\ \/ run /\ LandNow(f, g)
       \/ /\ ~run
          /\ IF Asks(f) THEN Add(land, f) ELSE UNCHANGED land
          /\ gates' = [gates EXCEPT ![f] = g]
          /\ UNCHANGED <<stage, failed, shown, live, busy>>
    /\ UNCHANGED <<failures, held, excused>>

\* on_gates: the result of run r is used for whatever the flight's outcome and
\* human gate are by now.
OnGates(f, r, ok) ==
    LET g == [tests |-> IF ~r[2] THEN "none" ELSE IF ok THEN "passed" ELSE "failed",
              you   |-> IF gates[f].you = "none" THEN "none" ELSE "pending"]
    IN
    /\ r \in open[f] /\ (ok \/ r[2])
    /\ open' = [open EXCEPT ![f] = @ \ {r}]
    /\ \/ Exists(f) /\ ok /\ GatePassed(f, g)
       \/ Exists(f) /\ ~ok /\ GateFailed(f) /\ gates' = [gates EXCEPT ![f] = g]
       \/ /\ ~Exists(f)
          /\ UNCHANGED <<stage, gates, failures, live, busy, inboxVars, rates, excused>>
    /\ UNCHANGED <<conf, hasRole, outcome, rung, count, armed, again, bounds>>

(***************************************************************************)
(* The human answers an item, of the lead or of an earlier one.            *)
(***************************************************************************)
Take(items, f, of) == items[f][of] > 0 /\ items' = [items EXCEPT ![f][of] = @ - 1]

AnswerLand(f) ==
    /\ AnyItem(land[f]) /\ LandNow(f, gates[f])
    /\ UNCHANGED <<conf, hasRole, outcome, failures, rung, held, runVars, policyVars,
                   ghosts, bounds>>

\* The error of sending it to a lead that is gone is dropped.
SendBack(f, of) ==
    /\ Take(land, f, of)
    /\ SetStage(f, "inflight")
    /\ gates' = [gates EXCEPT ![f].you = IF @ = "none" THEN @ ELSE "failed"]
    /\ busy'  = [busy EXCEPT ![f] = @ \/ live[f]]
    /\ excused' = [excused EXCEPT ![f] = @ \/ ~live[f]]
    /\ UNCHANGED <<conf, hasRole, outcome, failures, rung, live, failed, shown, held,
                   runVars, policyVars, again, bounds>>

RunAgain(f, of) ==
    /\ Take(failed, f, of) /\ count[f] < MaxRuns
    /\ RunGates(f, outcome[f])
    /\ UNCHANGED <<conf, hasRole, outcome, failures, leadVars, land, shown, held,
                   policyVars, bounds>>

\* "Dismiss", or "Escalate" where there is no rung left: the item is gone.
Dismiss(f, of) ==
    /\ Take(failed, f, of)
    /\ excused' = [excused EXCEPT ![f] = TRUE]
    /\ UNCHANGED <<conf, flightVars, leadVars, land, shown, held, runVars, policyVars,
                   again, bounds>>

\* "Escalate" on the item.
EscalateItem(f) == AnyItem(failed[f]) /\ EscalateNow(f)

(***************************************************************************)
(* The daemon restarts: gate runs and ACP agents die with it, Armed and    *)
(* the rate log are forgotten.                                             *)
(***************************************************************************)
Dies(f) == live[f] /\ conf[f].driver = "acp"

Restart ==
    /\ restarts < MaxRestarts /\ restarts' = restarts + 1
    /\ live' = [f \in Flights |-> live[f] /\ ~Dies(f)]
    /\ busy' = [f \in Flights |-> busy[f] /\ ~Dies(f)]
    /\ excused' = [f \in Flights |-> excused[f] \/ Dies(f) \/ open[f] # {}]
    /\ open' = [f \in Flights |-> {}]
    /\ armed' = FALSE /\ rates' = [x \in Actions |-> 0]
    /\ UNCHANGED <<conf, flightVars, rung, inboxVars, count, again, texts>>

Next ==
    \/ SetArmed \/ HourPasses \/ Restart
    \/ \E f \in Flights :
         \/ Launch(f) \/ Leave(f) \/ Delete(f) \/ Escalate(f)
         \/ Post(f) \/ SendMessage(f) \/ \E send \in BOOLEAN : AnswerMessage(f, send)
         \/ \E o \in {"resolved", "proposed"} : Complete(f, o)
         \/ \E r \in open[f], ok \in BOOLEAN : OnGates(f, r, ok)
         \/ AnswerLand(f) \/ EscalateItem(f)
         \/ \E of \in {"mine", "old"} :
              SendBack(f, of) \/ RunAgain(f, of) \/ Dismiss(f, of)

Spec == Init /\ [][Next]_vars

\* A gate command that hangs is killed at its timeout: every run that the
\* daemon does not take along ends, and the engine takes its result.
FairSpec ==
    Spec /\ \A f \in Flights :
               \A n \in 1..MaxRuns, t \in BOOLEAN :
                 WF_vars(\E ok \in BOOLEAN : OnGates(f, <<n, t>>, ok))

(***************************************************************************)
(* Properties.                                                             *)
(***************************************************************************)
\* A flight that is under way is in somebody's hands: its lead has work, its
\* gates run, or the Inbox asks.  It is not only where the human dropped it
\* (Dismiss, Drop, stopping the lead under an open item, which takes the item
\* along), a restart took the run or the lead, it was sent back to a lead that
\* is gone, the failure may not be sent (pane.message = off or draft), or
\* Tower's text went behind a question that is no longer in the Inbox.
SomebodyHasIt ==
    \A f \in Flights : stage[f] \in {"inflight", "gates", "needsyou"} =>
        \/ busy[f] \/ open[f] # {}
        \/ AnyItem(land[f]) \/ AnyItem(failed[f]) \/ shown[f]
        \/ excused[f] \/ (held[f] /\ ~shown[f])

\* What lands as done has passed its gates, the commands included when there
\* are any, unless they were started again before the last run was settled.
LandsPassed ==
    [][\A f \in Flights : stage[f] # "landed" /\ stage'[f] = "landed" =>
          \/ again[f]
          \/ ~Tested(outcome[f])
          \/ gates'[f].tests = IF conf[f].commands THEN "passed" ELSE "none"]_vars

\* A flight is not in flight without an agent: a lead that leaves puts it back
\* on the ground and a failure goes to a lead that is there.  Only a restart
\* that ends its ACP lead and "Send back" to a lead that is gone leave it so.
InFlightHasLead ==
    [][\A f \in Flights : stage'[f] = "inflight" /\ ~live'[f] =>
          \/ stage[f] = "inflight" /\ ~live[f]
          \/ restarts' # restarts
          \/ \E of \in {"mine", "old"} : SendBack(f, of)]_vars

\* Gates that run are answered: the flight lands, the Inbox asks or the lead
\* gets the output.  Not after a restart, which nobody makes up for.
GatesAnswered ==
    \A f \in Flights : stage[f] = "gates" ~>
        \/ stage[f] # "gates" \/ AnyItem(land[f])
        \/ (~live[f] /\ open[f] = {}) \/ restarts > 0

\* "On confirm, these wait in the Inbox as Send / Drop, merged into one item
\* per agent" (README.md): what waits for an agent that is there can be seen.
\* Not so once its flight landed: land takes the item and leaves the text, and
\* every later text for that agent is merged into it.
WaitingMessageIsShown ==
    \A f \in Flights : held[f] /\ live[f] => shown[f]
=============================================================================
