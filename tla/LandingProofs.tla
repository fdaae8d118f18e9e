--------------------------- MODULE LandingProofs ---------------------------
(***************************************************************************)
(* What holds of every flight, for every setting and every bound: Landing's *)
(* state is well formed, a flight under way is in somebody's hands, none is *)
(* in flight without an agent, and none lands past its gates.               *)
(***************************************************************************)
EXTENDS Landing, TLAPS

Stages  == {"cleared", "inflight", "gates", "needsyou", "landed", "deleted"}
Entries == [tests : {"none", "running", "passed", "failed"},
            you : {"none", "pending", "passed", "failed"}]

(***************************************************************************)
(* Type correctness.                                                       *)
(***************************************************************************)
\* Nothing has happened to any flight yet.
LEMMA TypeInit == Init => TypeOK
<1>. SUFFICES ASSUME Init PROVE TypeOK
  OBVIOUS
<1>1. land \in [Flights -> Items] /\ failed \in [Flights -> Items]
  BY DEF Init, NoItem, Items
<1>2. 0 \in 0..TopRung /\ 0 \in 0..MaxAuto
  BY LandingAssumption
<1>3. rung \in [Flights -> 0..TopRung] /\ rates \in [Actions -> 0..MaxAuto]
  BY <1>2 DEF Init
<1>4. gates \in [Flights -> Entries] /\ open \in [Flights -> SUBSET (Nat \X BOOLEAN)]
  BY DEF Init, Entries
<1>. QED  BY <1>1, <1>3, <1>4 DEF Init, TypeOK, Entries

\* An automatic run is counted where there was room for it.
LEMMA TypeCountRun ==
    ASSUME TypeOK, NEW x \in Actions, NEW level, NEW run,
           CountRun(x, run), run => Runs(x, level)
    PROVE  rates' \in [Actions -> 0..MaxAuto]
<1>1. rates \in [Actions -> 0..MaxAuto] /\ MaxAuto \in Nat
  BY LandingAssumption DEF TypeOK
<1>2. run => rates[x] + 1 \in 0..MaxAuto
  BY <1>1 DEF Runs
<1>. QED  BY <1>1, <1>2 DEF CountRun

\* The switch and the rate log, which belong to no flight.
LEMMA TypePolicy ==
    ASSUME TypeOK, SetArmed \/ HourPasses
    PROVE  TypeOK'
<1>1. CASE SetArmed
  BY <1>1 DEF TypeOK, SetArmed, flightVars, leadVars, inboxVars, runVars, ghosts, bounds
<1>2. CASE HourPasses
  <2>1. 0 \in 0..MaxAuto
    BY LandingAssumption
  <2>2. rates' \in [Actions -> 0..MaxAuto]
    BY <1>2, <2>1 DEF HourPasses
  <2>. QED  BY <1>2, <2>2 DEF TypeOK, HourPasses, flightVars, leadVars, inboxVars,
                              runVars, ghosts, bounds
<1>. QED  BY <1>1, <1>2

\* Whatever becomes of one of Tower's texts.
LEMMA TypeDeliver ==
    ASSUME TypeOK, NEW f \in Flights, DeliverTower(f)
    PROVE  /\ rates' \in [Actions -> 0..MaxAuto]
           /\ busy' \in [Flights -> BOOLEAN]
           /\ held' \in [Flights -> BOOLEAN] /\ shown' \in [Flights -> BOOLEAN]
<1>1. busy' \in [Flights -> BOOLEAN]
  BY DEF TypeOK, DeliverTower
<1>2. held' \in [Flights -> BOOLEAN] /\ shown' \in [Flights -> BOOLEAN]
  BY DEF TypeOK, DeliverTower, AskMessage
<1>3. CountRun("message", Runs("message", MessageLevel(f)))
  BY DEF DeliverTower
<1>4. rates' \in [Actions -> 0..MaxAuto]
  BY <1>3, TypeCountRun DEF Actions
<1>. QED  BY <1>1, <1>2, <1>4

\* Texts from Tower and from the human.
LEMMA TypeTexts ==
    ASSUME TypeOK, NEW f \in Flights,
           Post(f) \/ SendMessage(f) \/ \E send \in BOOLEAN : AnswerMessage(f, send)
    PROVE  TypeOK'
<1>1. CASE Post(f)
  <2>1. texts' \in [Flights -> Nat]
    BY <1>1 DEF TypeOK, Post
  <2>. QED  BY <1>1, <2>1, TypeDeliver DEF TypeOK, Post, flightVars, runVars, ghosts
<1>2. CASE SendMessage(f)
  BY <1>2 DEF TypeOK, SendMessage, flightVars, inboxVars, runVars, policyVars, ghosts,
              bounds
<1>3. CASE \E send \in BOOLEAN : AnswerMessage(f, send)
  BY <1>3 DEF TypeOK, AnswerMessage, flightVars, runVars, policyVars, bounds
<1>. QED  BY <1>1, <1>2, <1>3

\* Inbox items keep their type whichever way they are counted.
LEMMA TypeItems ==
    ASSUME NEW items \in [Flights -> Items], NEW f \in Flights
    PROVE  /\ items[f].mine \in Nat /\ items[f].old \in Nat
           /\ \A a, b \in Nat :
                [items EXCEPT ![f] = [mine |-> a, old |-> b]] \in [Flights -> Items]
           /\ \A a \in Nat : [items EXCEPT ![f].mine = a] \in [Flights -> Items]
           /\ \A a \in Nat : [items EXCEPT ![f].old = a] \in [Flights -> Items]
           /\ [items EXCEPT ![f] = NoItem] \in [Flights -> Items]
  BY DEF Items, NoItem

\* A new lead's part of the state.
LEMMA TypeNewLead ==
    ASSUME TypeOK, NEW f \in Flights, NEW r \in 0..TopRung, NewLead(f, r)
    PROVE  /\ stage' \in [Flights -> Stages]
           /\ rung' \in [Flights -> 0..TopRung]
           /\ live' \in [Flights -> BOOLEAN] /\ busy' \in [Flights -> BOOLEAN]
           /\ held' \in [Flights -> BOOLEAN] /\ shown' \in [Flights -> BOOLEAN]
           /\ excused' \in [Flights -> BOOLEAN]
  BY DEF TypeOK, NewLead, SetStage, Stages

\* Agents come and go.
LEMMA TypeAgents ==
    ASSUME TypeOK, NEW f \in Flights, Launch(f) \/ Leave(f) \/ Delete(f)
    PROVE  TypeOK'
<1>0. land \in [Flights -> Items] /\ failed \in [Flights -> Items]
  BY DEF TypeOK
<1>1. CASE Launch(f)
  <2>1. \A items \in [Flights -> Items] :
          [items EXCEPT ![f] = [mine |-> 0, old |-> @.mine + @.old]] \in [Flights -> Items]
    BY DEF Items
  <2>4. land' \in [Flights -> Items] /\ failed' \in [Flights -> Items]
    BY <1>0, <1>1, <2>1 DEF Launch, Older
  <2>2. 0 \in 0..TopRung
    BY LandingAssumption
  <2>3. hasRole' \in [Flights -> BOOLEAN]
    BY <1>1 DEF TypeOK, Launch
  <2>. QED  BY <1>1, <2>2, <2>3, <2>4, TypeNewLead
            DEF TypeOK, Stages, Launch, runVars, policyVars, bounds
<1>2. CASE Leave(f)
  <2>1. land' \in [Flights -> Items] /\ failed' \in [Flights -> Items]
    BY <1>0, <1>2, TypeItems DEF Leave, MarkOffline, NotMine
  <2>2. stage' \in [Flights -> Stages] /\ excused' \in [Flights -> BOOLEAN]
    BY <1>2 DEF TypeOK, Leave, SetStage, Stages
  <2>. QED  BY <1>2, <2>1, <2>2
            DEF TypeOK, Stages, Leave, MarkOffline, runVars, policyVars, bounds
<1>3. CASE Delete(f)
  <2>1. land' \in [Flights -> Items] /\ failed' \in [Flights -> Items]
    BY <1>0, <1>3, TypeItems DEF Delete
  <2>. QED  BY <1>3, <2>1 DEF TypeOK, Delete, SetStage, leadVars, runVars, policyVars,
                              ghosts, bounds
<1>. QED  BY <1>1, <1>2, <1>3

\* The next rung, which may fail to start.
LEMMA TypeEscalate ==
    ASSUME TypeOK, NEW f \in Flights, EscalateNow(f)
    PROVE  TypeOK'
<1>1. rung[f] + 1 \in 0..TopRung
  BY LandingAssumption DEF TypeOK, EscalateNow
<1>2. land[f].mine \in Nat /\ land[f].old \in Nat
  BY TypeItems DEF TypeOK
<1>3. land[f].old + (IF live[f] THEN 0 ELSE land[f].mine) \in Nat
  BY <1>2
<1>4. land' \in [Flights -> Items] /\ failed' \in [Flights -> Items]
  BY <1>3, TypeItems DEF TypeOK, EscalateNow
<1>5. CASE NewLead(f, rung[f] + 1)
  BY <1>1, <1>4, <1>5, TypeNewLead DEF TypeOK, Stages, EscalateNow, runVars, policyVars,
                                       bounds
<1>6. CASE ~NewLead(f, rung[f] + 1)
  BY <1>4, <1>6 DEF TypeOK, EscalateNow, SetStage, runVars, policyVars, bounds
<1>. QED  BY <1>5, <1>6

\* What starting the gates changes.
LEMMA TypeRunGates ==
    ASSUME TypeOK, NEW f \in Flights, NEW o, RunGates(f, o)
    PROVE  /\ count' \in [Flights -> Nat]
           /\ open' \in [Flights -> SUBSET (Nat \X BOOLEAN)]
           /\ gates' \in [Flights -> Entries]
           /\ stage' \in [Flights -> Stages]
           /\ again' \in [Flights -> BOOLEAN] /\ excused' \in [Flights -> BOOLEAN]
<1>1. count' \in [Flights -> Nat] /\ stage' \in [Flights -> Stages]
  BY DEF TypeOK, RunGates, SetStage, Stages
<1>2. again' \in [Flights -> BOOLEAN] /\ excused' \in [Flights -> BOOLEAN]
  BY DEF TypeOK, RunGates
<1>3. gates' \in [Flights -> Entries]
  BY DEF TypeOK, RunGates, Entries
<1>. DEFINE tests == Tested(o) /\ conf[f].commands
<1>4. <<count'[f], tests>> \in Nat \X BOOLEAN
  BY <1>1
<1>5. open' = [open EXCEPT ![f] = @ \cup {<<count'[f], tests>>}]
  BY DEF RunGates
<1>. HIDE DEF tests
<1>6. open' \in [Flights -> SUBSET (Nat \X BOOLEAN)]
  BY <1>4, <1>5 DEF TypeOK
<1>. QED  BY <1>1, <1>2, <1>3, <1>6

\* The call that says the work is done.
LEMMA TypeComplete ==
    ASSUME TypeOK, NEW f \in Flights, NEW o \in {"resolved", "proposed"}, Complete(f, o)
    PROVE  TypeOK'
<1>1. RunGates(f, o)
  BY DEF Complete
<1>2. /\ outcome' \in [Flights -> {"none", "resolved", "proposed"}]
      /\ busy' \in [Flights -> BOOLEAN]
  BY DEF TypeOK, Complete
<1>. QED  BY <1>1, <1>2, TypeRunGates DEF TypeOK, Stages, Entries, Complete, inboxVars,
                                          policyVars, bounds

\* What landing changes.
LEMMA TypeLandNow ==
    ASSUME TypeOK, NEW f \in Flights, NEW g \in Entries, LandNow(f, g)
    PROVE  /\ stage' \in [Flights -> Stages] /\ gates' \in [Flights -> Entries]
           /\ land' \in [Flights -> Items] /\ failed' \in [Flights -> Items]
           /\ shown' \in [Flights -> BOOLEAN]
           /\ live' \in [Flights -> BOOLEAN] /\ busy' \in [Flights -> BOOLEAN]
<1>1. stage' \in [Flights -> Stages] /\ gates' \in [Flights -> Entries]
  BY DEF TypeOK, LandNow, SetStage, Stages, Entries
<1>2. land' \in [Flights -> Items] /\ failed' \in [Flights -> Items]
  BY TypeItems DEF TypeOK, LandNow
<1>3. /\ shown' \in [Flights -> BOOLEAN]
      /\ live' \in [Flights -> BOOLEAN] /\ busy' \in [Flights -> BOOLEAN]
  BY DEF TypeOK, LandNow
<1>. QED  BY <1>1, <1>2, <1>3

\* One more item.
LEMMA TypeAdd ==
    ASSUME NEW items \in [Flights -> Items], NEW f \in Flights
    PROVE  [items EXCEPT ![f].mine = @ + 1] \in [Flights -> Items]
  BY DEF Items

\* One item fewer.
LEMMA TypeTake ==
    ASSUME NEW items \in [Flights -> Items], NEW f \in Flights,
           NEW of \in {"mine", "old"}, items[f][of] > 0
    PROVE  [items EXCEPT ![f][of] = @ - 1] \in [Flights -> Items]
<1>1. items[f][of] - 1 \in Nat
  BY DEF Items
<1>. QED  BY <1>1 DEF Items

\* What a passed run changes.
LEMMA TypeGatePassed ==
    ASSUME TypeOK, NEW f \in Flights, NEW g \in Entries, GatePassed(f, g)
    PROVE  /\ stage' \in [Flights -> Stages] /\ gates' \in [Flights -> Entries]
           /\ land' \in [Flights -> Items] /\ failed' \in [Flights -> Items]
           /\ shown' \in [Flights -> BOOLEAN] /\ held' \in [Flights -> BOOLEAN]
           /\ live' \in [Flights -> BOOLEAN] /\ busy' \in [Flights -> BOOLEAN]
           /\ rates' \in [Actions -> 0..MaxAuto] /\ failures' \in [Flights -> Nat]
           /\ excused' \in [Flights -> BOOLEAN]
<1>. DEFINE run == Tested(outcome[f]) /\ Runs("land", LandLevel(f))
<1>1. rates' \in [Actions -> 0..MaxAuto]
  <2>1. CountRun("land", run)
    BY DEF GatePassed
  <2>2. run => Runs("land", LandLevel(f))
    OBVIOUS
  <2>. HIDE DEF run
  <2>. QED  BY <2>1, <2>2, TypeCountRun DEF Actions
<1>2. /\ failures' \in [Flights -> Nat] /\ held' \in [Flights -> BOOLEAN]
      /\ excused' \in [Flights -> BOOLEAN]
  BY DEF TypeOK, GatePassed
<1>3. CASE LandNow(f, g)
  BY <1>1, <1>2, <1>3, TypeLandNow
<1>4. CASE ~LandNow(f, g)
  <2>1. land' \in [Flights -> Items]
    <3>1. land' = land \/ land' = [land EXCEPT ![f].mine = @ + 1]
      BY <1>4 DEF GatePassed, Add
    <3>2. land \in [Flights -> Items]
      BY DEF TypeOK
    <3>. QED  BY <3>1, <3>2, TypeAdd
  <2>2. gates' \in [Flights -> Entries]
    BY <1>4 DEF TypeOK, Entries, GatePassed
  <2>. QED  BY <1>1, <1>2, <1>4, <2>1, <2>2 DEF TypeOK, Stages, GatePassed
<1>. QED  BY <1>3, <1>4

\* What a failed run changes.
LEMMA TypeGateFailed ==
    ASSUME TypeOK, NEW f \in Flights, GateFailed(f)
    PROVE  /\ stage' \in [Flights -> Stages]
           /\ land' \in [Flights -> Items] /\ failed' \in [Flights -> Items]
           /\ shown' \in [Flights -> BOOLEAN] /\ held' \in [Flights -> BOOLEAN]
           /\ live' \in [Flights -> BOOLEAN] /\ busy' \in [Flights -> BOOLEAN]
           /\ rates' \in [Actions -> 0..MaxAuto] /\ failures' \in [Flights -> Nat]
           /\ excused' \in [Flights -> BOOLEAN]
<1>1. DeliverTower(f)
  BY DEF GateFailed
<1>2. failed' \in [Flights -> Items]
  <2>1. failed' = failed \/ failed' = [failed EXCEPT ![f].mine = @ + 1]
    BY DEF GateFailed, Add
  <2>2. failed \in [Flights -> Items]
    BY DEF TypeOK
  <2>. QED  BY <2>1, <2>2, TypeAdd
<1>3. /\ stage' \in [Flights -> Stages] /\ failures' \in [Flights -> Nat]
      /\ land' \in [Flights -> Items] /\ live' \in [Flights -> BOOLEAN]
  BY DEF TypeOK, GateFailed, SetStage, Stages
<1>4. excused' \in [Flights -> BOOLEAN]
  BY DEF TypeOK, GateFailed
<1>. QED  BY <1>1, <1>2, <1>3, <1>4, TypeDeliver

\* The result of a run.
LEMMA TypeOnGates ==
    ASSUME TypeOK, NEW f \in Flights, NEW r \in open[f], NEW ok \in BOOLEAN,
           OnGates(f, r, ok)
    PROVE  TypeOK'
<1>. DEFINE g == [tests |-> IF ~r[2] THEN "none" ELSE IF ok THEN "passed" ELSE "failed",
                  you   |-> IF gates[f].you = "none" THEN "none" ELSE "pending"]
<1>1. g \in Entries
  BY DEF Entries
<1>2. open' \in [Flights -> SUBSET (Nat \X BOOLEAN)]
  BY DEF TypeOK, OnGates
<1>3. \/ Exists(f) /\ GatePassed(f, g)
      \/ Exists(f) /\ GateFailed(f) /\ gates' = [gates EXCEPT ![f] = g]
      \/ UNCHANGED <<stage, gates, failures, live, busy, inboxVars, rates, excused>>
  BY DEF OnGates
<1>. HIDE DEF g
<1>4. CASE GatePassed(f, g)
  BY <1>1, <1>2, <1>4, TypeGatePassed DEF TypeOK, Stages, Entries, OnGates, bounds
<1>5. CASE GateFailed(f) /\ gates' = [gates EXCEPT ![f] = g]
  <2>1. gates' \in [Flights -> Entries]
    BY <1>1, <1>5 DEF TypeOK, Entries
  <2>. QED  BY <1>2, <1>5, <2>1, TypeGateFailed DEF TypeOK, Stages, Entries, OnGates, bounds
<1>6. CASE UNCHANGED <<stage, gates, failures, live, busy, inboxVars, rates, excused>>
  BY <1>2, <1>6 DEF TypeOK, OnGates, inboxVars, bounds
<1>. QED  BY <1>3, <1>4, <1>5, <1>6

\* The human's answers to an item.
LEMMA TypeAnswers ==
    ASSUME TypeOK, NEW f \in Flights,
           \/ AnswerLand(f)
           \/ \E of \in {"mine", "old"} :
                SendBack(f, of) \/ RunAgain(f, of) \/ Dismiss(f, of)
    PROVE  TypeOK'
<1>1. CASE AnswerLand(f)
  <2>1. LandNow(f, gates[f]) /\ gates[f] \in Entries
    BY <1>1 DEF AnswerLand, TypeOK, Entries
  <2>. QED  BY <1>1, <2>1, TypeLandNow DEF TypeOK, Stages, Entries, AnswerLand, runVars,
                                           policyVars, ghosts, bounds
<1>2. ASSUME NEW of \in {"mine", "old"}, SendBack(f, of)
      PROVE  TypeOK'
  <2>1. land' \in [Flights -> Items]
    BY <1>2, TypeTake DEF TypeOK, Take, SendBack
  <2>2. gates' \in [Flights -> Entries] /\ stage' \in [Flights -> Stages]
    BY <1>2, ZenonT(40) DEF TypeOK, SendBack, SetStage, Stages, Entries
  <2>. QED  BY <1>2, <2>1, <2>2 DEF TypeOK, Stages, Entries, SendBack, runVars,
                                    policyVars, bounds
<1>3. ASSUME NEW of \in {"mine", "old"}, RunAgain(f, of)
      PROVE  TypeOK'
  <2>1. failed' \in [Flights -> Items]
    BY <1>3, TypeTake DEF TypeOK, Take, RunAgain
  <2>2. RunGates(f, outcome[f])
    BY <1>3 DEF RunAgain
  <2>. QED  BY <1>3, <2>1, <2>2, TypeRunGates DEF TypeOK, Stages, Entries, RunAgain,
                                                  leadVars, policyVars, bounds
<1>4. ASSUME NEW of \in {"mine", "old"}, Dismiss(f, of)
      PROVE  TypeOK'
  <2>1. failed' \in [Flights -> Items]
    BY <1>4, TypeTake DEF TypeOK, Take, Dismiss
  <2>. QED  BY <1>4, <2>1 DEF TypeOK, Dismiss, flightVars, leadVars, runVars,
                              policyVars, bounds
<1>. QED  BY <1>1, <1>2, <1>3, <1>4

\* A restart.
LEMMA TypeRestart ==
    ASSUME TypeOK, Restart
    PROVE  TypeOK'
<1>1. 0 \in 0..MaxAuto
  BY LandingAssumption
<1>2. rates' \in [Actions -> 0..MaxAuto] /\ armed' \in BOOLEAN
  BY <1>1 DEF Restart
<1>3. /\ live' \in [Flights -> BOOLEAN] /\ busy' \in [Flights -> BOOLEAN]
      /\ excused' \in [Flights -> BOOLEAN]
      /\ open' \in [Flights -> SUBSET (Nat \X BOOLEAN)]
  BY DEF TypeOK, Restart
<1>4. restarts' \in Nat
  BY DEF TypeOK, Restart
<1>. QED  BY <1>2, <1>3, <1>4 DEF TypeOK, Restart, flightVars, inboxVars

\* One step of the specification.
LEMMA TypeNext ==
    ASSUME TypeOK, [Next]_vars
    PROVE  TypeOK'
<1>1. CASE UNCHANGED vars
  BY <1>1 DEF TypeOK, vars, flightVars, leadVars, inboxVars, runVars, policyVars, ghosts,
              bounds
<1>2. CASE SetArmed \/ HourPasses \/ Restart
  BY <1>2, TypePolicy, TypeRestart
<1>3. ASSUME NEW f \in Flights, Launch(f) \/ Leave(f) \/ Delete(f)
      PROVE  TypeOK'
  BY <1>3, TypeAgents
<1>4. ASSUME NEW f \in Flights, Escalate(f) \/ EscalateItem(f)
      PROVE  TypeOK'
  BY <1>4, TypeEscalate DEF Escalate, EscalateItem
<1>5. ASSUME NEW f \in Flights,
             Post(f) \/ SendMessage(f) \/ \E send \in BOOLEAN : AnswerMessage(f, send)
      PROVE  TypeOK'
  BY <1>5, TypeTexts
<1>6. ASSUME NEW f \in Flights, NEW o \in {"resolved", "proposed"}, Complete(f, o)
      PROVE  TypeOK'
  BY <1>6, TypeComplete
<1>7. ASSUME NEW f \in Flights, NEW r \in open[f], NEW ok \in BOOLEAN, OnGates(f, r, ok)
      PROVE  TypeOK'
  BY <1>7, TypeOnGates
<1>8. ASSUME NEW f \in Flights,
             \/ AnswerLand(f)
             \/ \E of \in {"mine", "old"} :
                  SendBack(f, of) \/ RunAgain(f, of) \/ Dismiss(f, of)
      PROVE  TypeOK'
  BY <1>8, TypeAnswers
<1>. QED  BY <1>1, <1>2, <1>3, <1>4, <1>5, <1>6, <1>7, <1>8 DEF Next

\* The state is well formed, and the rate log never exceeds the limit.
THEOREM TypeTheorem == Spec => []TypeOK
<1>1. Init => TypeOK
  BY TypeInit
<1>2. TypeOK /\ [Next]_vars => TypeOK'
  BY TypeNext
<1>. QED  BY <1>1, <1>2, PTL DEF Spec

(***************************************************************************)
(* A step of one flight leaves the others alone.                           *)
(***************************************************************************)
Step(f) ==
    \/ Launch(f) \/ Leave(f) \/ Delete(f) \/ EscalateNow(f)
    \/ Post(f) \/ SendMessage(f) \/ \E send \in BOOLEAN : AnswerMessage(f, send)
    \/ \E o \in {"resolved", "proposed"} : Complete(f, o)
    \/ \E r \in open[f], ok \in BOOLEAN : OnGates(f, r, ok)
    \/ AnswerLand(f)
    \/ \E of \in {"mine", "old"} : SendBack(f, of) \/ RunAgain(f, of) \/ Dismiss(f, of)

Same(g) ==
    /\ conf' = conf
    /\ stage'[g] = stage[g] /\ outcome'[g] = outcome[g] /\ gates'[g] = gates[g]
    /\ live'[g] = live[g] /\ busy'[g] = busy[g]
    /\ land'[g] = land[g] /\ failed'[g] = failed[g]
    /\ shown'[g] = shown[g] /\ held'[g] = held[g]
    /\ open'[g] = open[g] /\ again'[g] = again[g] /\ excused'[g] = excused[g]

\* What a step of the specification is.
LEMMA NextCases ==
    ASSUME [Next]_vars
    PROVE  \/ SetArmed \/ HourPasses \/ UNCHANGED vars
           \/ Restart
           \/ \E f \in Flights : Step(f)
  BY DEF Next, Step, Escalate, EscalateItem

\* The switch, the rate log and a stutter change no flight.
LEMMA SamePolicy ==
    ASSUME SetArmed \/ HourPasses \/ UNCHANGED vars, NEW g
    PROVE  Same(g)
  BY DEF Same, SetArmed, HourPasses, vars, flightVars, leadVars, inboxVars, runVars, ghosts,
         bounds

\* Tower's text concerns one flight.
LEMMA SameDeliver ==
    ASSUME TypeOK, NEW f \in Flights, NEW g \in Flights \ {f}, DeliverTower(f)
    PROVE  busy'[g] = busy[g] /\ held'[g] = held[g] /\ shown'[g] = shown[g]
  BY DEF TypeOK, DeliverTower, AskMessage

\* So does every step of a flight.
LEMMA SameStep ==
    ASSUME TypeOK, NEW f \in Flights, Step(f), NEW g \in Flights \ {f}
    PROVE  Same(g)
<1>1. CASE Launch(f)
  BY <1>1 DEF TypeOK, Same, Launch, NewLead, SetStage, Older, runVars
<1>2. CASE Leave(f)
  BY <1>2 DEF TypeOK, Same, Leave, MarkOffline, NotMine, SetStage, runVars
<1>3. CASE Delete(f)
  BY <1>3 DEF TypeOK, Same, Delete, SetStage, leadVars, runVars, ghosts
<1>4. CASE EscalateNow(f)
  <2>1. /\ stage'[g] = stage[g] /\ live'[g] = live[g] /\ busy'[g] = busy[g]
        /\ held'[g] = held[g] /\ shown'[g] = shown[g] /\ excused'[g] = excused[g]
    BY <1>4 DEF TypeOK, EscalateNow, NewLead, SetStage
  <2>2. land'[g] = land[g] /\ failed'[g] = failed[g]
    BY <1>4 DEF TypeOK, EscalateNow
  <2>. QED  BY <1>4, <2>1, <2>2 DEF Same, EscalateNow, runVars
<1>5. CASE Post(f)
  BY <1>5, SameDeliver DEF Same, Post, flightVars, runVars, ghosts
<1>6. CASE SendMessage(f)
  BY <1>6 DEF TypeOK, Same, SendMessage, flightVars, inboxVars, runVars, ghosts
<1>7. CASE \E send \in BOOLEAN : AnswerMessage(f, send)
  BY <1>7 DEF TypeOK, Same, AnswerMessage, flightVars, runVars
<1>8. CASE \E o \in {"resolved", "proposed"} : Complete(f, o)
  BY <1>8 DEF TypeOK, Same, Complete, RunGates, SetStage, inboxVars
<1>9. ASSUME NEW r \in open[f], NEW ok \in BOOLEAN, OnGates(f, r, ok)
      PROVE  Same(g)
  <2>. DEFINE e == [tests |-> IF ~r[2] THEN "none" ELSE IF ok THEN "passed" ELSE "failed",
                    you   |-> IF gates[f].you = "none" THEN "none" ELSE "pending"]
  <2>1. \/ GatePassed(f, e)
        \/ GateFailed(f) /\ gates' = [gates EXCEPT ![f] = e]
        \/ UNCHANGED <<stage, gates, failures, live, busy, inboxVars, rates, excused>>
    BY <1>9 DEF OnGates
  <2>2. /\ open'[g] = open[g] /\ conf' = conf
        /\ outcome'[g] = outcome[g] /\ again'[g] = again[g]
    BY <1>9 DEF TypeOK, OnGates
  <2>. HIDE DEF e
  <2>3. CASE GatePassed(f, e)
    <3>1. CASE LandNow(f, e)
      BY <2>2, <2>3, <3>1 DEF TypeOK, Same, GatePassed, LandNow, SetStage
    <3>2. CASE ~LandNow(f, e)
      BY <2>2, <2>3, <3>2 DEF TypeOK, Same, GatePassed, Add
    <3>. QED  BY <3>1, <3>2
  <2>4. CASE GateFailed(f) /\ gates' = [gates EXCEPT ![f] = e]
    <3>1. /\ stage'[g] = stage[g] /\ failed'[g] = failed[g] /\ excused'[g] = excused[g]
          /\ gates'[g] = gates[g]
      BY <2>4 DEF TypeOK, GateFailed, SetStage, Add
    <3>. QED  BY <2>2, <2>4, <3>1, SameDeliver DEF Same, GateFailed
  <2>5. CASE UNCHANGED <<stage, gates, failures, live, busy, inboxVars, rates, excused>>
    BY <2>2, <2>5 DEF Same, inboxVars
  <2>. QED  BY <2>1, <2>3, <2>4, <2>5
<1>10. CASE AnswerLand(f)
  BY <1>10 DEF TypeOK, Same, AnswerLand, LandNow, SetStage, runVars, ghosts
<1>11. ASSUME NEW of \in {"mine", "old"}, SendBack(f, of)
       PROVE  Same(g)
  BY <1>11 DEF TypeOK, Same, SendBack, Take, SetStage, runVars
<1>12. ASSUME NEW of \in {"mine", "old"}, RunAgain(f, of)
       PROVE  Same(g)
  BY <1>12 DEF TypeOK, Same, RunAgain, Take, RunGates, SetStage, leadVars
<1>13. ASSUME NEW of \in {"mine", "old"}, Dismiss(f, of)
       PROVE  Same(g)
  BY <1>13 DEF TypeOK, Same, Dismiss, Take, flightVars, leadVars, runVars
<1>. QED  BY <1>1, <1>2, <1>3, <1>4, <1>5, <1>6, <1>7, <1>8, <1>9, <1>10, <1>11, <1>12,
             <1>13 DEF Step

(***************************************************************************)
(* A flight under way is in somebody's hands.  Inductive once it is said,  *)
(* stage by stage, whose: while the gates run that is their result or the  *)
(* question it raised, after a failure the Inbox, in flight a lead that is *)
(* there and has something to do.                                          *)
(***************************************************************************)
Kept(g) ==
    /\ stage[g] = "gates" => open[g] # {} \/ AnyItem(land[g]) \/ excused[g]
    /\ stage[g] = "needsyou" => AnyItem(failed[g]) \/ excused[g]
    /\ stage[g] = "inflight" => live[g] \/ excused[g]
    /\ stage[g] = "inflight" =>
         \/ busy[g] \/ open[g] # {} \/ AnyItem(land[g]) \/ AnyItem(failed[g])
         \/ shown[g] \/ held[g] \/ excused[g]

KeptInv == TypeOK /\ \A g \in Flights : Kept(g)

\* A text adds to what the lead has to do, to what waits or to what is asked;
\* one that is neither sent nor asked about is under "off" or "draft".
LEMMA DeliverAdds ==
    ASSUME TypeOK, NEW f \in Flights, DeliverTower(f)
    PROVE  /\ busy[f] => busy'[f]
           /\ held[f] => held'[f]
           /\ shown[f] => shown'[f]
           /\ live[f] => busy'[f] \/ held'[f] \/ MessageLevel(f) \in {"off", "draft"}
<1>. DEFINE level == MessageLevel(f)
            run == Runs("message", level)
<1>1. /\ busy' = [busy EXCEPT ![f] = @ \/ (run /\ live[f])]
      /\ IF level \in {"confirm", "auto"} /\ ~run
         THEN AskMessage(f) ELSE UNCHANGED <<held, shown>>
  BY DEF DeliverTower
<1>2. level \in Levels
  BY LandingAssumption DEF TypeOK, AllSettings, MessageLevel, Levels
<1>. HIDE DEF level, run
<1>3. /\ busy'[f] = (busy[f] \/ (run /\ live[f]))
  BY <1>1 DEF TypeOK
<1>4. /\ held[f] => held'[f]
      /\ shown[f] => shown'[f]
  BY <1>1 DEF TypeOK, AskMessage
<1>5. run \/ held'[f] \/ level \in {"off", "draft"}
  BY <1>1, <1>2 DEF TypeOK, AskMessage, Levels
<1>. QED  BY <1>3, <1>4, <1>5 DEF level

\* Counting items.
LEMMA ItemCounts ==
    ASSUME NEW items \in [Flights -> Items], NEW f \in Flights
    PROVE  /\ items[f].mine \in Nat /\ items[f].old \in Nat
           /\ AnyItem([items EXCEPT ![f].mine = @ + 1][f])
           /\ AnyItem([items EXCEPT ![f] = [mine |-> 0, old |-> @.mine + @.old]][f])
                = AnyItem(items[f])
           /\ AnyItem(items[f]) /\ items[f].mine = 0
                => AnyItem([items EXCEPT ![f].mine = 0][f])
           /\ AnyItem([items EXCEPT ![f].mine = 0][f]) => AnyItem(items[f])
  BY DEF Items, AnyItem

\* What starting the gates leaves.
LEMMA RunGatesOpens ==
    ASSUME TypeOK, NEW f \in Flights, NEW o, RunGates(f, o)
    PROVE  stage'[f] = "gates" /\ open'[f] # {}
  BY DEF TypeOK, RunGates, SetStage

\* The flight a step is about.
LEMMA KeptStep ==
    ASSUME TypeOK, NEW f \in Flights, Step(f), Kept(f)
    PROVE  Kept(f)'
<1>1. CASE Launch(f)
  BY <1>1 DEF TypeOK, Kept, Launch, NewLead, SetStage
<1>2. CASE Leave(f)
  <2>1. /\ stage'[f] # "inflight" /\ (stage'[f] # "cleared" => stage'[f] = stage[f])
        /\ open'[f] = open[f]
    BY <1>2 DEF TypeOK, Leave, SetStage, runVars
  <2>2. land[f].mine + failed[f].mine > 0 => excused'[f]
    BY <1>2 DEF TypeOK, Leave
  <2>3. excused[f] => excused'[f]
    BY <1>2 DEF TypeOK, Leave
  <2>4. /\ land' = [land EXCEPT ![f].mine = 0] /\ failed' = [failed EXCEPT ![f].mine = 0]
        /\ land \in [Flights -> Items] /\ failed \in [Flights -> Items]
    BY <1>2 DEF TypeOK, Leave, MarkOffline, NotMine
  <2>5. land[f].mine \in Nat /\ failed[f].mine \in Nat
    BY <2>4, ItemCounts
  <2>6. excused'[f] \/ (land[f].mine = 0 /\ failed[f].mine = 0)
    BY <2>2, <2>5
  <2>7. /\ AnyItem(land[f]) => AnyItem(land'[f]) \/ excused'[f]
        /\ AnyItem(failed[f]) => AnyItem(failed'[f]) \/ excused'[f]
    BY <2>4, <2>6, ItemCounts
  <2>. QED  BY <2>1, <2>3, <2>7 DEF Kept
<1>3. CASE Delete(f)
  BY <1>3 DEF TypeOK, Kept, Delete, SetStage
<1>4. CASE EscalateNow(f)
  BY <1>4 DEF TypeOK, Kept, EscalateNow, NewLead, SetStage
<1>5. CASE Post(f)
  <2>1. DeliverTower(f)
    BY <1>5 DEF Post
  <2>. QED  BY <1>5, <2>1, DeliverAdds DEF Kept, Post, flightVars, runVars, ghosts
<1>6. CASE SendMessage(f)
  BY <1>6 DEF TypeOK, Kept, SendMessage, flightVars, inboxVars, runVars, ghosts
<1>7. ASSUME NEW send \in BOOLEAN, AnswerMessage(f, send)
      PROVE  Kept(f)'
  <2>1. /\ busy'[f] = (busy[f] \/ (send /\ live[f]))
        /\ excused'[f] = (excused[f] \/ ~send)
    BY <1>7 DEF TypeOK, AnswerMessage
  <2>2. UNCHANGED <<stage, open, land, failed, live>>
    BY <1>7 DEF AnswerMessage, flightVars, runVars
  <2>. QED  BY <2>1, <2>2 DEF Kept
<1>8. ASSUME NEW o \in {"resolved", "proposed"}, Complete(f, o)
      PROVE  Kept(f)'
  <2>1. RunGates(f, o)
    BY <1>8 DEF Complete
  <2>. QED  BY <2>1, RunGatesOpens DEF Kept
<1>9. ASSUME NEW r \in open[f], NEW ok \in BOOLEAN, OnGates(f, r, ok)
      PROVE  Kept(f)'
  <2>. DEFINE e == [tests |-> IF ~r[2] THEN "none" ELSE IF ok THEN "passed" ELSE "failed",
                    you   |-> IF gates[f].you = "none" THEN "none" ELSE "pending"]
  <2>1. \/ GatePassed(f, e)
        \/ GateFailed(f)
        \/ ~Exists(f) /\ UNCHANGED <<stage, gates, failures, live, busy, inboxVars,
                                     rates, excused>>
    BY <1>9 DEF OnGates
  <2>. HIDE DEF e
  <2>3. CASE GatePassed(f, e)
    <3>1. CASE LandNow(f, e)
      <4>1. stage'[f] = "landed"
        BY <3>1 DEF TypeOK, LandNow, SetStage
      <4>. QED  BY <4>1 DEF Kept
    <3>2. CASE ~LandNow(f, e)
      <4>1. Add(land, f) /\ UNCHANGED <<stage, failed, shown, live, busy, held, excused>>
        BY <2>3, <3>2 DEF GatePassed, Asks
      <4>2. AnyItem(land'[f])
        BY <4>1, ItemCounts DEF TypeOK, Add
      <4>. QED  BY <4>1, <4>2 DEF Kept
    <3>. QED  BY <3>1, <3>2
  <2>4. CASE GateFailed(f)
    <3>1. stage'[f] = (IF Fixes(f) THEN "inflight" ELSE "needsyou") /\ live'[f] = live[f]
      BY <2>4 DEF TypeOK, GateFailed, SetStage
    <3>2. CASE Fixes(f)
      <4>1. live[f] /\ (MessageLevel(f) \in {"off", "draft"} => excused'[f])
        BY <2>4, <3>2 DEF TypeOK, GateFailed, Fixes
      <4>2. busy'[f] \/ held'[f] \/ MessageLevel(f) \in {"off", "draft"}
        BY <2>4, <4>1, DeliverAdds DEF GateFailed
      <4>. QED  BY <3>1, <3>2, <4>1, <4>2 DEF Kept
    <3>3. CASE ~Fixes(f)
      <4>1. AnyItem(failed'[f])
        BY <2>4, <3>3, ItemCounts DEF TypeOK, GateFailed, Add
      <4>. QED  BY <3>1, <3>3, <4>1 DEF Kept
    <3>. QED  BY <3>2, <3>3
  <2>5. CASE ~Exists(f) /\ stage' = stage
    BY <2>5 DEF Kept, Exists
  <2>. QED  BY <2>1, <2>3, <2>4, <2>5
<1>10. CASE AnswerLand(f)
  <2>1. stage'[f] = "landed"
    BY <1>10 DEF TypeOK, AnswerLand, LandNow, SetStage
  <2>. QED  BY <2>1 DEF Kept
<1>11. ASSUME NEW of \in {"mine", "old"}, SendBack(f, of)
       PROVE  Kept(f)'
  <2>1. stage'[f] = "inflight" /\ live'[f] = live[f]
    BY <1>11 DEF TypeOK, SendBack, SetStage
  <2>2. busy'[f] = (busy[f] \/ live[f]) /\ excused'[f] = (excused[f] \/ ~live[f])
    BY <1>11 DEF TypeOK, SendBack
  <2>. QED  BY <2>1, <2>2 DEF Kept
<1>12. ASSUME NEW of \in {"mine", "old"}, RunAgain(f, of)
       PROVE  Kept(f)'
  <2>1. RunGates(f, outcome[f])
    BY <1>12 DEF RunAgain
  <2>. QED  BY <2>1, RunGatesOpens DEF Kept
<1>13. ASSUME NEW of \in {"mine", "old"}, Dismiss(f, of)
       PROVE  Kept(f)'
  <2>1. excused'[f]
    BY <1>13 DEF TypeOK, Dismiss
  <2>. QED  BY <2>1 DEF Kept
<1>. QED  BY <1>1, <1>2, <1>3, <1>4, <1>5, <1>6, <1>7, <1>8, <1>9, <1>10, <1>11, <1>12,
             <1>13 DEF Step

\* A restart takes the runs and the ACP leads along, which excuses their flights.
LEMMA KeptRestart ==
    ASSUME TypeOK, Restart, NEW g \in Flights, Kept(g)
    PROVE  Kept(g)'
<1>1. /\ excused'[g] = (excused[g] \/ Dies(g) \/ open[g] # {})
      /\ live'[g] = (live[g] /\ ~Dies(g)) /\ busy'[g] = (busy[g] /\ ~Dies(g))
  BY DEF Restart
<1>2. /\ stage'[g] = stage[g] /\ land'[g] = land[g] /\ failed'[g] = failed[g]
      /\ shown'[g] = shown[g] /\ held'[g] = held[g]
  BY DEF Restart, flightVars, inboxVars
<1>. QED  BY <1>1, <1>2 DEF Kept

\* Every step keeps every flight in somebody's hands.
LEMMA KeptNext ==
    ASSUME KeptInv, [Next]_vars
    PROVE  KeptInv'
<1>1. TypeOK'
  BY TypeNext DEF KeptInv
<1>2. ASSUME NEW g \in Flights, Same(g)
      PROVE  Kept(g)'
  BY <1>2 DEF KeptInv, Kept, Same
<1>3. CASE SetArmed \/ HourPasses \/ UNCHANGED vars
  BY <1>1, <1>2, <1>3, SamePolicy DEF KeptInv
<1>4. CASE Restart
  BY <1>1, <1>4, KeptRestart DEF KeptInv
<1>5. ASSUME NEW f \in Flights, Step(f)
      PROVE  KeptInv'
  <2>1. Kept(f)'
    BY <1>5, KeptStep DEF KeptInv
  <2>2. \A g \in Flights \ {f} : Kept(g)'
    BY <1>2, <1>5, SameStep DEF KeptInv
  <2>. QED  BY <1>1, <2>1, <2>2 DEF KeptInv
<1>. QED  BY <1>3, <1>4, <1>5, NextCases

\* No flight under way is forgotten, but where SomebodyHasIt says so: the lead
\* works on it, a gate run is about to answer or the Inbox asks the human.
THEOREM SomebodyHasItTheorem == Spec => []SomebodyHasIt
<1>1. Init => KeptInv
  BY TypeInit DEF Init, KeptInv, Kept
<1>2. KeptInv /\ [Next]_vars => KeptInv'
  BY KeptNext
<1>3. KeptInv => SomebodyHasIt
  BY DEF KeptInv, Kept, SomebodyHasIt
<1>. QED  BY <1>1, <1>2, <1>3, PTL DEF Spec

(***************************************************************************)
(* A flight in flight has a lead.                                          *)
(***************************************************************************)
HasLead(f) ==
    stage'[f] = "inflight" /\ ~live'[f] =>
        \/ stage[f] = "inflight" /\ ~live[f]
        \/ restarts' # restarts
        \/ \E of \in {"mine", "old"} : SendBack(f, of)

\* The flight a step is about.
LEMMA HasLeadStep ==
    ASSUME TypeOK, NEW f \in Flights, Step(f)
    PROVE  HasLead(f)
<1>1. CASE Launch(f)
  BY <1>1 DEF TypeOK, HasLead, Launch, NewLead
<1>2. CASE Leave(f)
  BY <1>2 DEF TypeOK, HasLead, Leave, SetStage
<1>3. CASE Delete(f)
  BY <1>3 DEF TypeOK, HasLead, Delete, SetStage
<1>4. CASE EscalateNow(f)
  BY <1>4 DEF TypeOK, HasLead, EscalateNow, NewLead, SetStage
<1>5. CASE Post(f)
  BY <1>5 DEF HasLead, Post, flightVars
<1>6. CASE SendMessage(f)
  BY <1>6 DEF HasLead, SendMessage, flightVars
<1>7. CASE \E send \in BOOLEAN : AnswerMessage(f, send)
  BY <1>7 DEF HasLead, AnswerMessage, flightVars
<1>8. CASE \E o \in {"resolved", "proposed"} : Complete(f, o)
  BY <1>8, RunGatesOpens DEF HasLead, Complete
<1>9. ASSUME NEW r \in open[f], NEW ok \in BOOLEAN, OnGates(f, r, ok)
      PROVE  HasLead(f)
  <2>. DEFINE e == [tests |-> IF ~r[2] THEN "none" ELSE IF ok THEN "passed" ELSE "failed",
                    you   |-> IF gates[f].you = "none" THEN "none" ELSE "pending"]
  <2>1. \/ GatePassed(f, e)
        \/ GateFailed(f)
        \/ UNCHANGED <<stage, live>>
    BY <1>9 DEF OnGates
  <2>. HIDE DEF e
  <2>2. CASE GatePassed(f, e)
    BY <2>2 DEF TypeOK, HasLead, GatePassed, LandNow, SetStage
  <2>3. CASE GateFailed(f)
    BY <2>3 DEF TypeOK, HasLead, GateFailed, Fixes, SetStage
  <2>4. CASE UNCHANGED <<stage, live>>
    BY <2>4 DEF HasLead
  <2>. QED  BY <2>1, <2>2, <2>3, <2>4
<1>10. CASE AnswerLand(f)
  BY <1>10 DEF TypeOK, HasLead, AnswerLand, LandNow, SetStage
<1>11. ASSUME NEW of \in {"mine", "old"}, SendBack(f, of)
       PROVE  HasLead(f)
  BY <1>11 DEF HasLead
<1>12. ASSUME NEW of \in {"mine", "old"}, RunAgain(f, of)
       PROVE  HasLead(f)
  BY <1>12, RunGatesOpens DEF HasLead, RunAgain
<1>13. ASSUME NEW of \in {"mine", "old"}, Dismiss(f, of)
       PROVE  HasLead(f)
  BY <1>13 DEF HasLead, Dismiss, flightVars, leadVars
<1>. QED  BY <1>1, <1>2, <1>3, <1>4, <1>5, <1>6, <1>7, <1>8, <1>9, <1>10, <1>11, <1>12,
             <1>13 DEF Step

\* Every flight, in every step.
LEMMA HasLeadNext ==
    ASSUME TypeOK, [Next]_vars, NEW g \in Flights
    PROVE  HasLead(g)
<1>1. CASE Same(g)
  BY <1>1 DEF Same, HasLead
<1>2. CASE Restart
  BY <1>2 DEF TypeOK, Restart, HasLead
<1>3. ASSUME NEW f \in Flights, Step(f), g # f
      PROVE  Same(g)
  BY <1>3, SameStep
<1>. QED  BY <1>1, <1>2, <1>3, NextCases, SamePolicy, HasLeadStep

\* No step leaves a flight in flight without an agent, but a restart and "Send
\* back" to a lead that is gone.
THEOREM InFlightHasLeadTheorem == Spec => InFlightHasLead
<1>1. TypeOK /\ [Next]_vars =>
        [\A f \in Flights : stage'[f] = "inflight" /\ ~live'[f] =>
           \/ stage[f] = "inflight" /\ ~live[f]
           \/ restarts' # restarts
           \/ \E of \in {"mine", "old"} : SendBack(f, of)]_vars
  BY HasLeadNext DEF HasLead
<1>. QED  BY <1>1, TypeTheorem, PTL DEF Spec, InFlightHasLead

(***************************************************************************)
(* What lands has passed its gates.  Unless the gates started again before *)
(* their run was settled there is one run at a time, it tests what the     *)
(* flight's outcome asks for, and a question for the human comes after it. *)
(***************************************************************************)
Passed(f) == IF conf[f].commands THEN "passed" ELSE "none"

OneRun(g) ==
    ~again[g] =>
        /\ \A r \in open[g], s \in open[g] : r = s
        /\ \A r \in open[g] : r[2] = (Tested(outcome[g]) /\ conf[g].commands)
        /\ open[g] # {} => ~AnyItem(land[g])
        /\ AnyItem(land[g]) /\ Tested(outcome[g]) => gates[g].tests = Passed(g)

OneRunInv == TypeOK /\ \A g \in Flights : OneRun(g)

\* What the gates know when they start.
LEMMA OneRunStarts ==
    ASSUME TypeOK, NEW f \in Flights, NEW o, RunGates(f, o), outcome'[f] = o,
           conf' = conf, land' = land
    PROVE  OneRun(f)'
<1>. DEFINE tests == Tested(o) /\ conf[f].commands
<1>1. /\ open'[f] = open[f] \cup {<<count'[f], tests>>}
      /\ again'[f] = (open[f] # {} \/ AnyItem(land[f]))
  BY DEF TypeOK, RunGates
<1>2. <<count'[f], tests>>[2] = tests
  OBVIOUS
<1>3. tests = (Tested(outcome'[f]) /\ conf'[f].commands)
  OBVIOUS
<1>4. Tested(outcome[f])' = Tested(outcome'[f]) /\ AnyItem(land[f])' = AnyItem(land[f])
  BY DEF Tested, AnyItem
<1>. HIDE DEF tests
<1>5. CASE again'[f]
  BY <1>5 DEF OneRun
<1>6. CASE ~again'[f]
  <2>1. open'[f] = {<<count'[f], tests>>} /\ ~AnyItem(land[f])
    BY <1>1, <1>6
  <2>. QED  BY <1>2, <1>3, <1>4, <2>1 DEF OneRun
<1>. QED  BY <1>5, <1>6

\* A passed run's result says so.
LEMMA RunPassed ==
    ASSUME TypeOK, NEW f \in Flights, OneRun(f), ~again[f], Tested(outcome[f]),
           NEW r \in open[f]
    PROVE  (IF ~r[2] THEN "none" ELSE "passed") = Passed(f)
  BY DEF OneRun, Passed

\* Where the runs and the outcome stay, fewer questions do no harm.
LEMMA OneRunFewer ==
    ASSUME NEW f \in Flights, OneRun(f), conf' = conf, again'[f] = again[f],
           open'[f] \subseteq open[f], outcome'[f] = outcome[f],
           \/ ~AnyItem(land'[f])
           \/ (AnyItem(land'[f]) => AnyItem(land[f])) /\ gates'[f].tests = gates[f].tests
    PROVE  OneRun(f)'
  BY DEF OneRun, Passed, Tested, AnyItem

\* The flight a step is about.
LEMMA OneRunStep ==
    ASSUME TypeOK, NEW f \in Flights, Step(f), OneRun(f)
    PROVE  OneRun(f)'
<1>. DEFINE frame == /\ conf' = conf /\ again'[f] = again[f] /\ outcome'[f] = outcome[f]
                     /\ open'[f] \subseteq open[f]
            fewer == \/ ~AnyItem(land'[f])
                     \/ /\ AnyItem(land'[f]) => AnyItem(land[f])
                        /\ gates'[f].tests = gates[f].tests
<1>0. land \in [Flights -> Items] /\ land[f].mine \in Nat /\ land[f].old \in Nat
  BY TypeItems DEF TypeOK
<1>1. CASE Launch(f)
  <2>1. frame /\ gates' = gates
    BY <1>1 DEF Launch, runVars
  <2>2. AnyItem(land'[f]) = AnyItem(land[f])
    BY <1>0, <1>1, ItemCounts DEF Launch, Older
  <2>. QED  BY <2>1, <2>2, OneRunFewer
<1>2. CASE Leave(f)
  <2>1. frame /\ gates' = gates
    BY <1>2 DEF Leave, runVars
  <2>2. AnyItem(land'[f]) => AnyItem(land[f])
    BY <1>0, <1>2, ItemCounts DEF Leave, MarkOffline, NotMine
  <2>. QED  BY <2>1, <2>2, OneRunFewer
<1>3. CASE Delete(f)
  <2>1. frame /\ gates' = gates
    BY <1>3 DEF Delete, runVars, ghosts
  <2>2. ~AnyItem(land'[f])
    BY <1>0, <1>3 DEF Delete, NoItem, AnyItem
  <2>. QED  BY <2>1, <2>2, OneRunFewer
<1>4. CASE EscalateNow(f)
  <2>1. frame /\ gates' = gates
    BY <1>4 DEF EscalateNow, runVars
  <2>2. land'[f] = [mine |-> 0, old |-> land[f].old + (IF live[f] THEN 0
                                                         ELSE land[f].mine)]
    BY <1>0, <1>4 DEF EscalateNow
  <2>3. AnyItem(land'[f]) => AnyItem(land[f])
    BY <1>0, <2>2 DEF AnyItem
  <2>. QED  BY <2>1, <2>3, OneRunFewer
<1>5. CASE Post(f)
  <2>1. frame /\ fewer
    BY <1>5 DEF Post, flightVars, runVars, ghosts
  <2>. QED  BY <2>1, OneRunFewer
<1>6. CASE SendMessage(f)
  <2>1. frame /\ fewer
    BY <1>6 DEF SendMessage, flightVars, inboxVars, runVars, ghosts
  <2>. QED  BY <2>1, OneRunFewer
<1>7. CASE \E send \in BOOLEAN : AnswerMessage(f, send)
  <2>1. frame /\ fewer
    BY <1>7 DEF AnswerMessage, flightVars, runVars
  <2>. QED  BY <2>1, OneRunFewer
<1>8. ASSUME NEW o \in {"resolved", "proposed"}, Complete(f, o)
      PROVE  OneRun(f)'
  <2>1. RunGates(f, o) /\ conf' = conf /\ land' = land
    BY <1>8 DEF Complete, inboxVars
  <2>2. outcome'[f] = o
    BY <1>8 DEF TypeOK, Complete
  <2>. QED  BY <2>1, <2>2, OneRunStarts
<1>9. ASSUME NEW r \in open[f], NEW ok \in BOOLEAN, OnGates(f, r, ok)
      PROVE  OneRun(f)'
  <2>. DEFINE e == [tests |-> IF ~r[2] THEN "none" ELSE IF ok THEN "passed" ELSE "failed",
                    you   |-> IF gates[f].you = "none" THEN "none" ELSE "pending"]
  <2>1. \/ ok /\ GatePassed(f, e)
        \/ GateFailed(f)
        \/ UNCHANGED <<land, gates>>
    BY <1>9 DEF OnGates, inboxVars
  <2>2. frame /\ open'[f] = open[f] \ {r}
    BY <1>9 DEF TypeOK, OnGates
  <2>3. e.tests = IF ~r[2] THEN "none" ELSE IF ok THEN "passed" ELSE "failed"
    OBVIOUS
  <2>. HIDE DEF e
  <2>4. CASE again[f]
    BY <2>2, <2>4 DEF OneRun
  <2>5. CASE ~again[f]
    <3>1. open'[f] = {} /\ ~AnyItem(land[f])
      BY <2>2, <2>5 DEF OneRun
    <3>2. CASE ok /\ GatePassed(f, e)
      <4>1. CASE LandNow(f, e)
        <5>1. ~AnyItem(land'[f])
          BY <1>0, <4>1 DEF LandNow, NoItem, AnyItem
        <5>. QED  BY <2>2, <5>1, OneRunFewer
      <4>2. CASE ~LandNow(f, e)
        <5>1. gates'[f] = e
          BY <3>2, <4>2 DEF TypeOK, GatePassed
        <5>2. Tested(outcome[f]) => gates'[f].tests = Passed(f)
          BY <2>3, <2>5, <3>2, <5>1, RunPassed
        <5>. QED  BY <2>2, <3>1, <5>2 DEF OneRun, Passed, Tested
      <4>. QED  BY <4>1, <4>2
    <3>3. CASE GateFailed(f)
      <4>1. ~AnyItem(land'[f])
        BY <3>1, <3>3 DEF GateFailed
      <4>. QED  BY <2>2, <4>1, OneRunFewer
    <3>4. CASE UNCHANGED <<land, gates>>
      BY <2>2, <3>4, OneRunFewer
    <3>. QED  BY <2>1, <3>2, <3>3, <3>4
  <2>. QED  BY <2>4, <2>5
<1>10. CASE AnswerLand(f)
  <2>1. frame
    BY <1>10 DEF AnswerLand, runVars, ghosts
  <2>2. ~AnyItem(land'[f])
    BY <1>0, <1>10 DEF AnswerLand, LandNow, NoItem, AnyItem
  <2>. QED  BY <2>1, <2>2, OneRunFewer
<1>11. ASSUME NEW of \in {"mine", "old"}, SendBack(f, of)
       PROVE  OneRun(f)'
  <2>1. frame
    BY <1>11 DEF SendBack, runVars
  <2>2. gates'[f].tests = gates[f].tests
    BY <1>11 DEF TypeOK, SendBack
  <2>3. AnyItem(land[f])
    BY <1>0, <1>11 DEF SendBack, Take, AnyItem
  <2>. QED  BY <2>1, <2>2, <2>3, OneRunFewer
<1>12. ASSUME NEW of \in {"mine", "old"}, RunAgain(f, of)
       PROVE  OneRun(f)'
  <2>1. RunGates(f, outcome[f]) /\ conf' = conf /\ land' = land /\ outcome' = outcome
    BY <1>12 DEF RunAgain
  <2>. QED  BY <2>1, OneRunStarts
<1>13. ASSUME NEW of \in {"mine", "old"}, Dismiss(f, of)
       PROVE  OneRun(f)'
  <2>1. frame /\ fewer
    BY <1>13 DEF Dismiss, flightVars, runVars
  <2>. QED  BY <2>1, OneRunFewer
<1>. QED  BY <1>1, <1>2, <1>3, <1>4, <1>5, <1>6, <1>7, <1>8, <1>9, <1>10, <1>11, <1>12,
             <1>13 DEF Step

\* Every step leaves every flight with one run at a time.
LEMMA OneRunNext ==
    ASSUME OneRunInv, [Next]_vars
    PROVE  OneRunInv'
<1>1. TypeOK'
  BY TypeNext DEF OneRunInv
<1>2. ASSUME NEW g \in Flights, Same(g)
      PROVE  OneRun(g)'
  BY <1>2 DEF OneRunInv, OneRun, Passed, Tested, AnyItem, Same
<1>3. CASE SetArmed \/ HourPasses \/ UNCHANGED vars
  BY <1>1, <1>2, <1>3, SamePolicy DEF OneRunInv
<1>4. CASE Restart
  <2>1. ASSUME NEW g \in Flights
        PROVE  OneRun(g)'
    <3>1. open'[g] = {} /\ UNCHANGED <<conf, again, outcome, gates, land>>
      BY <1>4 DEF Restart, flightVars, inboxVars
    <3>. QED  BY <3>1, OneRunFewer DEF OneRunInv
  <2>. QED  BY <1>1, <2>1 DEF OneRunInv
<1>5. ASSUME NEW f \in Flights, Step(f)
      PROVE  OneRunInv'
  <2>1. OneRun(f)'
    BY <1>5, OneRunStep DEF OneRunInv
  <2>2. \A g \in Flights \ {f} : OneRun(g)'
    BY <1>2, <1>5, SameStep DEF OneRunInv
  <2>. QED  BY <1>1, <2>1, <2>2 DEF OneRunInv
<1>. QED  BY <1>3, <1>4, <1>5, NextCases

Lands(f) ==
    stage[f] # "landed" /\ stage'[f] = "landed" =>
        \/ again[f]
        \/ ~Tested(outcome[f])
        \/ gates'[f].tests = IF conf[f].commands THEN "passed" ELSE "none"

\* Only two steps land a flight, with the gates it then shows.
LEMMA LandsStep ==
    ASSUME TypeOK, NEW f \in Flights, Step(f), stage[f] # "landed", stage'[f] = "landed"
    PROVE  \/ \E r \in open[f] :
                gates'[f].tests = IF ~r[2] THEN "none" ELSE "passed"
           \/ AnyItem(land[f]) /\ gates'[f].tests = gates[f].tests
<1>1. CASE Launch(f)
  BY <1>1 DEF TypeOK, Launch, NewLead, SetStage
<1>2. CASE Leave(f)
  BY <1>2 DEF TypeOK, Leave, SetStage
<1>3. CASE Delete(f)
  BY <1>3 DEF TypeOK, Delete, SetStage
<1>4. CASE EscalateNow(f)
  BY <1>4 DEF TypeOK, EscalateNow, NewLead, SetStage
<1>5. CASE Post(f)
  BY <1>5 DEF Post, flightVars
<1>6. CASE SendMessage(f)
  BY <1>6 DEF SendMessage, flightVars
<1>7. CASE \E send \in BOOLEAN : AnswerMessage(f, send)
  BY <1>7 DEF AnswerMessage, flightVars
<1>8. CASE \E o \in {"resolved", "proposed"} : Complete(f, o)
  BY <1>8, RunGatesOpens DEF Complete
<1>9. ASSUME NEW r \in open[f], NEW ok \in BOOLEAN, OnGates(f, r, ok)
      PROVE  gates'[f].tests = IF ~r[2] THEN "none" ELSE "passed"
  <2>. DEFINE e == [tests |-> IF ~r[2] THEN "none" ELSE IF ok THEN "passed" ELSE "failed",
                    you   |-> IF gates[f].you = "none" THEN "none" ELSE "pending"]
  <2>1. \/ ok /\ GatePassed(f, e)
        \/ GateFailed(f)
        \/ UNCHANGED stage
    BY <1>9 DEF OnGates
  <2>2. ok => e.tests = IF ~r[2] THEN "none" ELSE "passed"
    OBVIOUS
  <2>. HIDE DEF e
  <2>3. ~GateFailed(f)
    BY DEF TypeOK, GateFailed, SetStage
  <2>4. ok /\ LandNow(f, e)
    BY <2>1, <2>3 DEF GatePassed
  <2>5. gates'[f].tests = e.tests
    BY <2>4 DEF TypeOK, LandNow
  <2>. QED  BY <2>2, <2>4, <2>5
<1>10. CASE AnswerLand(f)
  BY <1>10 DEF TypeOK, AnswerLand, LandNow
<1>11. CASE \E of \in {"mine", "old"} : SendBack(f, of)
  BY <1>11 DEF TypeOK, SendBack, SetStage
<1>12. CASE \E of \in {"mine", "old"} : RunAgain(f, of)
  BY <1>12, RunGatesOpens DEF RunAgain
<1>13. CASE \E of \in {"mine", "old"} : Dismiss(f, of)
  BY <1>13 DEF Dismiss, flightVars
<1>. QED  BY <1>1, <1>2, <1>3, <1>4, <1>5, <1>6, <1>7, <1>8, <1>9, <1>10, <1>11, <1>12,
             <1>13 DEF Step

\* Every flight, in every step.
LEMMA LandsNext ==
    ASSUME OneRunInv, [Next]_vars, NEW g \in Flights
    PROVE  Lands(g)
<1>1. CASE Same(g)
  BY <1>1 DEF Same, Lands
<1>2. CASE Restart
  BY <1>2 DEF Restart, Lands, flightVars
<1>3. ASSUME Step(g), stage[g] # "landed", stage'[g] = "landed", ~again[g],
             Tested(outcome[g])
      PROVE  gates'[g].tests = Passed(g)
  <2>1. CASE \E r \in open[g] : gates'[g].tests = IF ~r[2] THEN "none" ELSE "passed"
    BY <1>3, <2>1, RunPassed DEF OneRunInv
  <2>2. CASE AnyItem(land[g]) /\ gates'[g].tests = gates[g].tests
    BY <1>3, <2>2 DEF OneRunInv, OneRun
  <2>. QED  BY <1>3, <2>1, <2>2, LandsStep DEF OneRunInv
<1>4. CASE Step(g)
  BY <1>3, <1>4 DEF Lands, Passed
<1>5. ASSUME NEW f \in Flights, Step(f), g # f
      PROVE  Same(g)
  BY <1>5, SameStep DEF OneRunInv
<1>. QED  BY <1>1, <1>2, <1>4, <1>5, NextCases, SamePolicy

\* What lands as done has passed its gates, unless they started again before
\* the last run was settled.
THEOREM LandsPassedTheorem == Spec => LandsPassed
<1>1. Init => OneRunInv
  BY TypeInit DEF Init, OneRunInv, OneRun, NoItem, AnyItem
<1>2. OneRunInv /\ [Next]_vars => OneRunInv'
  BY OneRunNext
<1>3. OneRunInv /\ [Next]_vars =>
        [\A f \in Flights : stage[f] # "landed" /\ stage'[f] = "landed" =>
           \/ again[f]
           \/ ~Tested(outcome[f])
           \/ gates'[f].tests = IF conf[f].commands THEN "passed" ELSE "none"]_vars
  BY LandsNext DEF Lands
<1>. QED  BY <1>1, <1>2, <1>3, PTL DEF Spec, LandsPassed
=============================================================================
