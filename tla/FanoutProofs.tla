---------------------------- MODULE FanoutProofs ----------------------------
(***************************************************************************)
(* Proofs about Fanout, for every plan and every limit: the state is well  *)
(* formed, the waves are a barrier, the outcome is reported once, what is  *)
(* over stays over, and, where nobody is asked, a part starts only after   *)
(* the results it depends on.                                              *)
(*                                                                         *)
(* The barrier is not inductive by itself: a handler finds a part through  *)
(* its child, so the proof needs to know which children were made (Made),  *)
(* and an answer of the human moves the wave, so it needs to know that the *)
(* wave was over when the question was asked (PausedOnFailure).  A child   *)
(* that stands for a part not over is then of the current wave             *)
(* (ActivePart), which is what every handler about a child comes down to.  *)
(*                                                                         *)
(* The last two are about steps: every step moves the parts in one of six  *)
(* ways (Shape), and in none of them what is over comes back.              *)
(***************************************************************************)
EXTENDS Fanout, QueueFacts

-----------------------------------------------------------------------------
(* Types: one step per handler. *)

\* A child names its part and the attempt, and no child is NoChild (part_of).
LEMMA ChildType ==
    /\ \A c \in Children : c[1] \in Parts /\ c[2] \in 0..MaxRetries
    /\ NoChild \notin Children
BY DEF Children, Parts, NoChild

\* The loops over collected children take one of them at a time, the first in
\* plan order (resume_fanouts, fanout_tick, cancel_fanout).
LEMMA FirstType ==
    ASSUME NEW S \in SUBSET Children, S # {}
    PROVE  First(S) \in S
<1> DEFINE D == {d[1] : d \in S}
<1>1. D \in SUBSET Nat /\ D # {}
    BY ChildType, PlanAssumption DEF Parts
<1>2. Min(D) \in D
    BY <1>1, MinInSet
<1>3. \E c \in S : c[1] = Min(D)
    BY <1>2
<1>4. QED
    BY <1>3 DEF First

\* fanout_part_state gives a part one of the TaskStates and no other part one.
LEMMA PartStateType ==
    ASSUME TypeOK, NEW c \in Children, NEW s \in TaskState
    PROVE  PartState(c, s) \in [Parts -> TaskState]
BY ChildType DEF TypeOK, PartState

\* The child a part is waiting for exists (FanoutTask.flight).
LEMMA ChildOfType ==
    ASSUME TypeOK, NEW p \in Parts
    PROVE  ChildOf(p) \in Children
BY DEF TypeOK, ChildOf, Children

\* release leaves well-formed packets, agents, queue and part states, whether
\* the agent is launched, held in line or fails to start.
LEMMA ReleaseType ==
    ASSUME TypeOK, NEW c \in Children, Release(c)
    PROVE  /\ state' \in [Parts -> TaskState]
           /\ packet' \in [Children -> {"none", "Draft", "Accepted", "Returned", "gone"}]
           /\ agent' \in [Children -> {"none", "live", "off"}]
           /\ queue' \in Seq(Children)
<1>1. \A s \in TaskState : PartState(c, s) \in [Parts -> TaskState]
    BY PartStateType
<1>2. RemoveFirst(queue, c) \in Seq(Children)
    BY RemoveFirstType DEF TypeOK
<1>3. CASE Held(c)
    BY <1>1, <1>3, AppendProperties DEF Held, TypeOK, TaskState
<1>4. CASE Launched(c)
    BY <1>1, <1>2, <1>4 DEF Launched, TypeOK, TaskState
<1>5. CASE LaunchFails(c)
    BY <1>1, <1>2, <1>5 DEF LaunchFails, TypeOK, TaskState
<1>6. QED
    BY <1>3, <1>4, <1>5 DEF Release

\* stop_agent leaves well-formed agents and part states.
LEMMA StopAgentType ==
    ASSUME TypeOK, NEW c \in Children, StopAgent(c)
    PROVE  /\ state' \in [Parts -> TaskState]
           /\ agent' \in [Children -> {"none", "live", "off"}]
           /\ advancing' \in BOOLEAN
<1>1. PartState(c, "Failed") \in [Parts -> TaskState]
    BY PartStateType DEF TaskState
<1>2. QED
    BY <1>1 DEF StopAgent, ChildDone, TypeOK

\* fanout_child_done leaves well-formed part states.
LEMMA ChildDoneType ==
    ASSUME TypeOK, NEW c \in Children, NEW s \in TaskState, ChildDone(c, s)
    PROVE  state' \in [Parts -> TaskState] /\ advancing' \in BOOLEAN
BY PartStateType DEF ChildDone

\* The turns of advance_fanout keep the types: in particular `wave` never gets
\* more than one past the last wave.
LEMMA AdvanceType ==
    ASSUME TypeOK, Advance
    PROVE  TypeOK'
<1> USE PlanAssumption DEF TypeOK, barrier, flights, human, thread, bounds
<1>1. CASE StartPart
    <2> DEFINE p == Min(WavePending)
    <2>1. p \in Parts
        <3>1. WavePending # {}
            BY <1>1 DEF StartPart
        <3>2. WavePending \subseteq Parts /\ Parts \subseteq Nat
            BY DEF WavePending, CurrentWave, Parts
        <3>3. QED
            BY <3>1, <3>2, MinInSet
    <2>2. ChildOf(p) \in Children
        BY <2>1, ChildOfType
    <2>3. CASE Release(ChildOf(p))
        <3>1. /\ state' \in [Parts -> TaskState]
              /\ packet' \in [Children -> {"none", "Draft", "Accepted", "Returned", "gone"}]
              /\ agent' \in [Children -> {"none", "live", "off"}]
              /\ queue' \in Seq(Children)
            BY <2>2, <2>3, ReleaseType
        <3>2. QED
            BY <1>1, <3>1 DEF StartPart
    <2>4. CASE /\ state' = [state EXCEPT ![p] = "Failed"]
               /\ UNCHANGED flights
        BY <1>1, <2>1, <2>4 DEF StartPart, TaskState
    <2>5. QED
        BY <1>1, <2>3, <2>4 DEF StartPart
<1>2. CASE Wait
    BY <1>2 DEF Wait
<1>3. CASE NextWave
    BY <1>3 DEF NextWave
<1>4. CASE FinishFanout
    <2>1. status' \in FanoutStatus
        BY <1>4 DEF FinishFanout, FanoutStatus
    <2>2. pending' \in SUBSET {"start", "failed"} /\ inbox' \in SUBSET {"start", "failed"}
        BY <1>4 DEF FinishFanout
    <2>3. answers' = answers + 1 /\ advancing' = FALSE
        BY <1>4 DEF FinishFanout
    <2>4. UNCHANGED <<wave, state, retries, flights, owner, others, thread, bounds>>
        BY <1>4 DEF FinishFanout
    <2>5. status' \in FanoutStatus \cup {"none"}
        BY <2>1
    <2>6. answers' \in Nat
        BY <2>3
    <2>7. QED
        BY <2>2, <2>3, <2>4, <2>5, <2>6
<1>5. ASSUME WaveFailedOnly
      PROVE  wave + 1 \in 1..NWaves + 1
    BY <1>5 DEF WaveFailedOnly, WaveFailed, CurrentWave, Waves
<1>6. CASE ContinueAfterFailure
    <2>1. SkipDependents \in [Parts -> TaskState]
        BY DEF SkipDependents, TaskState
    <2>2. QED
        BY <1>5, <1>6, <2>1 DEF ContinueAfterFailure, GoOn
<1>7. CASE StopFanout
    BY <1>7 DEF StopFanout, GiveUpRest, TaskState
<1>8. CASE AskFailure
    BY <1>8 DEF AskFailure, FanoutStatus
<1>9. QED
    BY <1>1, <1>2, <1>3, <1>4, <1>6, <1>7, <1>8 DEF Advance

\* The human's answers keep the types: a retry is counted only below
\* max_retries, and "continue" moves on from a wave that exists
\* (resolve_fanout_failure).
LEMMA AnswerType ==
    ASSUME TypeOK, PausedOnFailure, HumanAnswer
    PROVE  TypeOK'
<1> USE PlanAssumption DEF TypeOK, barrier, flights, human, thread, bounds, Answer
<1>1. CASE ClearPlan
    BY <1>1 DEF ClearPlan, FanoutStatus
<1>2. CASE NotNow
    BY <1>2, ChildOfType DEF NotNow, CancelBegins, FanoutStatus, InState
<1>3. CASE AnswerRetry
    <2>1. retries' \in [Parts -> 0..MaxRetries]
        BY <1>3, LimitsAssumption DEF AnswerRetry, TriedAgain, RetryableParts
    <2>2. QED
        BY <1>3, <2>1 DEF AnswerRetry, FanoutStatus, TaskState
<1>4. CASE AnswerContinue
    <2>1. SkipDependents \in [Parts -> TaskState]
        BY DEF SkipDependents, TaskState
    <2>2. wave + 1 \in 1..NWaves + 1
        BY <1>4 DEF AnswerContinue, PausedOnFailure, WaveFailed, CurrentWave, Waves
    <2>3. QED
        BY <1>4, <2>1, <2>2 DEF AnswerContinue, GoOn, FanoutStatus
<1>5. CASE AnswerStop
    BY <1>5 DEF AnswerStop, GiveUpRest, FanoutStatus, TaskState
<1>6. CASE AnswerPartial
    BY <1>6 DEF AnswerPartial
<1>7. QED
    BY <1>1, <1>2, <1>3, <1>4, <1>5, <1>6 DEF HumanAnswer

\* The messages about the children keep the types (tower_return, agent exit,
\* reminders, delete_flight, ReleaseHandoff).
LEMMA ChildMessageType ==
    ASSUME TypeOK, NEW c \in Children, ChildMessage(c)
    PROVE  TypeOK'
<1> USE DEF TypeOK, barrier, flights, human, thread, bounds
<1>1. CASE Return(c)
    BY <1>1, ChildDoneType DEF Return, TaskState
<1>2. CASE AgentGone(c)
    BY <1>2, StopAgentType DEF AgentGone
<1>3. CASE GiveUpReminding(c)
    BY <1>3, ChildDoneType DEF GiveUpReminding, TaskState
<1>4. CASE DeletePart(c)
    <2>1. queue' \in Seq(Children)
        BY <1>4, RemoveFirstType DEF DeletePart
    <2>2. QED
        BY <1>4, <2>1, ChildDoneType, LimitsAssumption DEF DeletePart, TaskState
<1>5. CASE HandRelease(c)
    BY <1>5, ReleaseType, LimitsAssumption DEF HandRelease
<1>6. QED
    BY <1>1, <1>2, <1>3, <1>4, <1>5 DEF ChildMessage

\* The phases of a tick keep the types (drain_local_queue, resume_fanouts,
\* fanout_tick).
LEMMA TickStepType ==
    ASSUME TypeOK, TickStep
    PROVE  TypeOK'
<1> USE DEF TypeOK, barrier, flights, human, thread, bounds
<1>1. CASE DrainHead
    <2>1. Head(sweep) \in Children /\ Tail(sweep) \in Seq(Children)
        BY <1>1, HeadTailProperties DEF DrainHead
    <2>2. RemoveFirst(queue, Head(sweep)) \in Seq(Children)
        BY RemoveFirstType
    <2>3. QED
        BY <1>1, <2>1, <2>2, ReleaseType DEF DrainHead
<1>2. CASE ResumeFanouts
    BY <1>2, ChildOfType DEF ResumeFanouts, InState
<1>3. CASE LosePart
    BY <1>3, FirstType, ChildDoneType DEF LosePart, TaskState
<1>4. CASE LatePart
    <2>1. First(todo) \in Children
        BY <1>4, FirstType DEF LatePart
    <2>2. RemoveFirst(queue, First(todo)) \in Seq(Children)
        BY RemoveFirstType
    <2>3. QED
        BY <1>4, <2>1, <2>2, ChildDoneType DEF LatePart, TaskState
<1>5. CASE StopDoomed
    BY <1>5, StopAgentType DEF StopDoomed
<1>6. CASE TickEnds
    BY <1>6 DEF TickEnds
<1>7. ASSUME NEW late \in SUBSET ActiveChildren, FanoutTick(late)
      PROVE  TypeOK'
    <2>1. ActiveChildren \subseteq Children
        BY ChildOfType DEF ActiveChildren, InState
    <2>2. QED
        BY <1>7, <2>1 DEF FanoutTick
<1>8. QED
    BY <1>1, <1>2, <1>3, <1>4, <1>5, <1>6, <1>7 DEF TickStep

\* Every handler keeps the types, given that a fan-out pauses only on a wave
\* that exists.
LEMMA TypeStep ==
    ASSUME TypeOK, PausedOnFailure, [Next]_vars
    PROVE  TypeOK'
<1> USE DEF barrier, flights, human, thread, bounds
<1>1. CASE StartFanout
    BY <1>1 DEF StartFanout, TypeOK, FanoutStatus
<1>2. CASE AskPlan
    BY <1>2 DEF AskPlan, TypeOK, FanoutStatus
<1>3. CASE DeleteOwner
    <2>1. CASE IsOpen
        <3>1. todo' \in SUBSET Children
            BY <1>3, <2>1, ChildOfType DEF DeleteOwner, CancelBegins, InState
        <3>2. QED
            BY <1>3, <2>1, <3>1 DEF DeleteOwner, CancelBegins, TypeOK, FanoutStatus
    <2>2. CASE ~IsOpen
        BY <1>3, <2>2 DEF DeleteOwner, TypeOK
    <2>3. QED
        BY <2>1, <2>2
<1>4. CASE CancelPart
    <2>1. First(todo) \in Children
        BY <1>4, FirstType DEF CancelPart, TypeOK
    <2>2. RemoveFirst(queue, First(todo)) \in Seq(Children)
        BY RemoveFirstType DEF TypeOK
    <2>3. QED
        BY <1>4, <2>1, <2>2, StopAgentType DEF CancelPart, TypeOK
<1>5. CASE CancelEnds
    BY <1>5 DEF CancelEnds, TypeOK, TaskState
<1>6. CASE LandOwner
    BY <1>6 DEF LandOwner, TypeOK
<1>7. CASE OthersChange
    <2>1. Cardinality({c \in Children : agent[c] = "live" /\ packet[c] # "Returned"}) \in Nat
        <3>1. IsFiniteSet(Children)
            <4>1. IsFiniteSet(1..NParts) /\ IsFiniteSet(0..MaxRetries)
                BY FS_Interval, PlanAssumption, LimitsAssumption
            <4>2. QED
                BY <4>1, FS_Product DEF Children, Parts
        <3>2. QED
            BY <3>1, FS_Subset, FS_CardinalityType
    <2>2. QED
        BY <1>7, <2>1, LimitsAssumption DEF OthersChange, RoleLoad, TypeOK
<1>8. CASE Tick
    BY <1>8 DEF Tick, TypeOK
<1>9. ASSUME NEW panesStay \in BOOLEAN, Restart(panesStay)
      PROVE  TypeOK'
    <2>1. others' \in 0..RoleCap
        BY <1>9, LimitsAssumption DEF Restart, TypeOK
    <2>2. agent' \in [Children -> {"none", "live", "off"}]
        BY <1>9 DEF Restart, TypeOK
    <2>3. resumed' = FALSE /\ restarts' \in 0..MaxRestarts
        BY <1>9, LimitsAssumption DEF Restart, TypeOK
    <2>4. UNCHANGED <<barrier, packet, queue, human, advancing, phase, sweep, todo,
                      doomed, handReleases, deletes>>
        BY <1>9 DEF Restart
    <2>5. QED
        BY <2>1, <2>2, <2>3, <2>4 DEF TypeOK
<1>10. CASE UNCHANGED vars
    BY <1>10 DEF vars, TypeOK
<1>11. QED
    BY <1>1, <1>2, <1>3, <1>4, <1>5, <1>6, <1>7, <1>8, <1>9, <1>10,
       AdvanceType, AnswerType, ChildMessageType, TickStepType DEF Next

-----------------------------------------------------------------------------
(* The barrier. *)

\* A child that was made, and still stands for a part that is not over, is of
\* the current wave: what fanout_part_state changes is what the barrier waits for.
LEMMA ActivePart ==
    ASSUME TypeOK, Barrier, Made, NEW c \in Children, packet[c] # "none",
           IsPart(c), ~IsDone(state[c[1]])
    PROVE  /\ state[c[1]] \in {"Queued", "Running"}
           /\ WaveOf[c[1]] = wave
<1>1. c[1] \in Parts /\ ChildOf(c[1]) = c
    BY DEF Children, ChildOf, IsPart
<1>2. state[c[1]] \in {"Queued", "Running"}
    BY <1>1 DEF TypeOK, TaskState, Made, IsDone
<1>3. WaveOf[c[1]] \in Int /\ wave \in Int
    BY <1>1, PlanAssumption DEF TypeOK, Waves
<1>4. QED
    BY <1>1, <1>2, <1>3 DEF Barrier, IsDone

\* fanout_part_state and fanout_child_done, for any child that was made, keep the
\* barrier: a stale child is ignored, a current one is of the current wave.
LEMMA PartMoves ==
    ASSUME TypeOK, Barrier, Made, PausedOnFailure,
           NEW c \in Children, packet[c] # "none",
           NEW s \in {"Queued", "Running", "Returned", "Failed"},
           state' = PartState(c, s),
           UNCHANGED <<wave, retries>>, status = "Cancelled" => status' = "Cancelled",
           \A d \in Children : packet[d] # "none" => packet'[d] # "none",
           \A d \in Children : packet'[d] # "none" => packet[d] # "none",
           \A d \in todo' : d \in Children /\ packet[d] # "none"
    PROVE  Barrier' /\ Made' /\ (status = "Paused" => PausedOnFailure')
<1>1. CASE IsPart(c) /\ ~IsDone(state[c[1]])
    <2>1. /\ state[c[1]] \in {"Queued", "Running"} /\ WaveOf[c[1]] = wave
          /\ c[1] \in Parts /\ ChildOf(c[1]) = c
        BY <1>1, ActivePart DEF Children, ChildOf, IsPart
    <2>2. state' = [state EXCEPT ![c[1]] = s]
        BY <1>1 DEF PartState
    <2>3. Barrier'
        <3>1. /\ WaveOf[c[1]] = wave' /\ wave' \in Int
              /\ \A p \in Parts : p # c[1] => state'[p] = state[p]
            BY <2>1, <2>2 DEF TypeOK
        <3>2. ASSUME NEW p \in Parts
              PROVE  /\ WaveOf[p] < wave' => IsDone(state'[p])
                     /\ WaveOf[p] > wave' => state'[p] \in {"Pending", "Skipped"}
            <4>1. CASE p = c[1]
                BY <3>1, <4>1
            <4>2. CASE p # c[1]
                BY <3>1, <4>2 DEF Barrier
            <4>3. QED
                BY <4>1, <4>2
        <3>3. QED
            BY <3>2 DEF Barrier
    <2>4. Made'
        <3>1. \A p \in Parts : ChildOf(p)' = ChildOf(p) /\ ChildOf(p) \in Children
            BY ChildOfType DEF ChildOf
        <3>2. /\ state'[c[1]] = s
              /\ \A p \in Parts : p # c[1] => state'[p] = state[p]
            BY <2>1, <2>2 DEF TypeOK
        <3>3. \A d \in Children : packet'[d] # "none" => d[2] <= retries'[d[1]]
            BY DEF Made
        <3>4. ASSUME NEW p \in Parts
              PROVE  /\ state'[p] = "Pending" => packet'[ChildOf(p)] = "none"
                     /\ state'[p] \in {"Queued", "Running"} => packet'[ChildOf(p)] # "none"
                     /\ state'[p] = "Skipped" /\ status' # "Cancelled"
                           => packet'[ChildOf(p)] = "none"
            <4>1. CASE p = c[1]
                BY <2>1, <3>1, <3>2, <4>1
            <4>2. CASE p # c[1]
                BY <3>1, <3>2, <4>2 DEF Made
            <4>3. QED
                BY <4>1, <4>2
        <3>5. \A d \in todo' : packet'[d] # "none"
            OBVIOUS
        <3>6. QED
            BY <3>1, <3>3, <3>4, <3>5 DEF Made
    <2>5. status # "Paused"
        BY <2>1 DEF PausedOnFailure, WaveActive, CurrentWave
    <2>6. QED
        BY <2>3, <2>4, <2>5
<1>2. CASE ~(IsPart(c) /\ ~IsDone(state[c[1]]))
    <2>1. state' = state
        BY <1>2 DEF PartState
    <2>2. Barrier'
        BY <2>1 DEF Barrier
    <2>3. Made'
        BY <2>1, ChildOfType DEF Made, ChildOf
    <2>4. status = "Paused" => PausedOnFailure'
        BY <2>1 DEF PausedOnFailure, WavePending, WaveActive, WaveFailed, CurrentWave
    <2>5. QED
        BY <2>2, <2>3, <2>4
<1>3. QED
    BY <1>1, <1>2

\* A handler that leaves the parts alone keeps the barrier.
LEMMA PartsStay ==
    ASSUME TypeOK, Barrier, Made, PausedOnFailure,
           UNCHANGED <<state, wave, retries>>, status = "Cancelled" => status' = "Cancelled",
           \A d \in Children : packet[d] # "none" => packet'[d] # "none",
           \A d \in Children : packet'[d] # "none" => packet[d] # "none",
           \A d \in todo' : d \in Children /\ packet[d] # "none"
    PROVE  Barrier' /\ Made' /\ (status = "Paused" => PausedOnFailure')
<1>1. Barrier'
    BY DEF Barrier
<1>2. Made'
    BY ChildOfType DEF Made, ChildOf
<1>3. status = "Paused" => PausedOnFailure'
    BY DEF PausedOnFailure, WavePending, WaveActive, WaveFailed, CurrentWave
<1>4. QED
    BY <1>1, <1>2, <1>3

\* release changes the state of the child's part only, and only its packet.
LEMMA ReleaseMoves ==
    ASSUME TypeOK, NEW c \in Children, Release(c)
    PROVE  /\ \E s \in {"Queued", "Running", "Failed"} : state' = PartState(c, s)
           /\ packet'[c] # "none"
           /\ \A d \in Children : d # c => packet'[d] = packet[d]
BY DEF Release, Held, Launched, LaunchFails, TypeOK

\* stop_agent changes no part but the one whose packet was accepted, which fails.
LEMMA StopAgentMoves ==
    ASSUME NEW c \in Children, StopAgent(c)
    PROVE  \/ state' = state
           \/ packet[c] = "Accepted" /\ state' = PartState(c, "Failed")
BY DEF StopAgent, ChildDone

\* When nothing of the wave is pending or active, all parts so far are over
\* (next_step).
LEMMA WaveIsOver ==
    ASSUME TypeOK, Barrier, WavePending = {}, WaveActive = {},
           NEW p \in Parts, WaveOf[p] <= wave
    PROVE  IsDone(state[p])
<1>1. CASE WaveOf[p] = wave
    <2>1. state[p] \notin {"Pending", "Queued", "Running"}
        BY <1>1 DEF WavePending, WaveActive, CurrentWave
    <2>2. QED
        BY <2>1 DEF TypeOK, TaskState, IsDone
<1>2. CASE WaveOf[p] < wave
    BY <1>2 DEF Barrier
<1>3. QED
    BY <1>1, <1>2, PlanAssumption DEF TypeOK, Waves

\* Moving to the next wave, or past the last one with the rest skipped, keeps
\* the barrier once the wave is over (advance_fanout, stop_fanout).
LEMMA GoesOn ==
    ASSUME TypeOK, Barrier, Made, WavePending = {}, WaveActive = {},
           status # "Cancelled", status' = "Running",
           \A p \in Parts :
               state'[p] = state[p] \/ (state[p] = "Pending" /\ state'[p] = "Skipped"),
           \/ wave' = wave + 1
           \/ wave' = NWaves + 1 /\ \A p \in Parts : state'[p] # "Pending",
           UNCHANGED <<retries, packet, todo>>
    PROVE  Barrier' /\ Made' /\ PausedOnFailure'
<1>1. \A p \in Parts : WaveOf[p] \in Int /\ WaveOf[p] <= NWaves
    BY PlanAssumption DEF Waves
<1>2. wave \in Int /\ NWaves \in Int
    BY PlanAssumption DEF TypeOK
<1>3. \A p \in Parts : IsDone(state[p]) => state'[p] = state[p]
    BY DEF IsDone
<1>4. ASSUME NEW p \in Parts
      PROVE  /\ WaveOf[p] < wave' => IsDone(state'[p])
             /\ WaveOf[p] > wave' => state'[p] \in {"Pending", "Skipped"}
    <2>1. CASE WaveOf[p] <= wave
        <3>1. IsDone(state'[p])
            BY <1>3, <2>1, WaveIsOver
        <3>2. ~(WaveOf[p] > wave')
            BY <1>1, <1>2, <2>1
        <3>3. QED
            BY <3>1, <3>2
    <2>2. CASE WaveOf[p] > wave
        <3>1. state[p] \in {"Pending", "Skipped"}
            BY <2>2 DEF Barrier
        <3>2. CASE wave' = wave + 1
            BY <1>1, <1>2, <2>2, <3>1, <3>2
        <3>3. CASE wave' = NWaves + 1 /\ state'[p] # "Pending"
            BY <1>1, <1>2, <3>1, <3>3 DEF IsDone
        <3>4. QED
            BY <3>2, <3>3
    <2>3. QED
        BY <1>1, <1>2, <2>1, <2>2
<1>5. Barrier'
    BY <1>4 DEF Barrier
<1>6. Made'
    BY DEF Made, ChildOf
<1>7. PausedOnFailure'
    BY DEF PausedOnFailure
<1>8. QED
    BY <1>5, <1>6, <1>7

\* continue_after_failure only skips parts that are pending.
LEMMA GoOnMoves ==
    ASSUME TypeOK, GoOn
    PROVE  /\ \A p \in Parts :
                 state'[p] = state[p] \/ (state[p] = "Pending" /\ state'[p] = "Skipped")
           /\ wave' = wave + 1
<1>1. \A seed, S : DependsUpon(seed, S) \subseteq S
    BY DEF DependsUpon
<1>2. \A p \in Parts :
          \/ SkipDependents[p] = state[p]
          \/ state[p] = "Pending" /\ SkipDependents[p] = "Skipped"
    BY <1>1 DEF SkipDependents, InState
<1>3. QED
    BY <1>2 DEF GoOn

\* stop_fanout skips the pending parts, and no part is pending after it.
LEMMA GiveUpRestMoves ==
    ASSUME TypeOK, GiveUpRest
    PROVE  /\ \A p \in Parts :
                 /\ state'[p] = state[p] \/ (state[p] = "Pending" /\ state'[p] = "Skipped")
                 /\ state'[p] # "Pending"
           /\ wave' = NWaves + 1
<1>1. ASSUME NEW p \in Parts
      PROVE  state'[p] = IF state[p] = "Pending" THEN "Skipped" ELSE state[p]
    BY DEF GiveUpRest
<1>2. QED
    BY <1>1 DEF GiveUpRest

\* Starting the next part of the wave keeps the barrier, whether it runs, waits
\* in line, or could not be started (begin_wave).
LEMMA StartPartKeeps ==
    ASSUME TypeOK, Barrier, Made, StartPart
    PROVE  Barrier' /\ Made' /\ PausedOnFailure'
<1> DEFINE p == Min(WavePending)
<1> USE DEF thread
<1>1. p \in WavePending
    <2>1. WavePending \subseteq Parts /\ Parts \subseteq Nat /\ WavePending # {}
        BY DEF StartPart, WavePending, CurrentWave, Parts
    <2>2. QED
        BY <2>1, MinInSet
<1> HIDE DEF p
<1>2. p \in Parts /\ WaveOf[p] = wave /\ state[p] = "Pending"
    BY <1>1 DEF WavePending, CurrentWave
<1>3. UNCHANGED <<status, wave, retries, thread>> /\ status = "Running"
    BY DEF StartPart, Turn
<1>4. ChildOf(p) \in Children
    BY <1>2, ChildOfType
<1>5. /\ \A q \in Parts : q # p => state'[q] = state[q]
      /\ \A d \in Children : d # ChildOf(p) => packet'[d] = packet[d]
      /\ \/ state'[p] = "Failed"
         \/ state'[p] \in {"Queued", "Running"} /\ packet'[ChildOf(p)] # "none"
    <2>1. CASE Release(ChildOf(p))
        <3>1. IsPart(ChildOf(p)) /\ ChildOf(p)[1] = p /\ ~IsDone(state[p])
            BY <1>2 DEF IsPart, ChildOf, IsDone
        <3>2. \A s : PartState(ChildOf(p), s) = [state EXCEPT ![p] = s]
            BY <3>1 DEF PartState
        <3>3. QED
            BY <1>2, <1>4, <2>1, <3>2, ReleaseMoves DEF TypeOK
    <2>2. CASE state' = [state EXCEPT ![p] = "Failed"] /\ UNCHANGED flights
        BY <1>2, <2>2 DEF flights, TypeOK
    <2>3. QED
        BY <2>1, <2>2 DEF StartPart, p
<1>6. Barrier'
    <2>1. ASSUME NEW q \in Parts
          PROVE  /\ WaveOf[q] < wave' => IsDone(state'[q])
                 /\ WaveOf[q] > wave' => state'[q] \in {"Pending", "Skipped"}
        <3>1. CASE q = p
            BY <1>2, <1>3, <3>1 DEF TypeOK
        <3>2. CASE q # p
            BY <1>3, <1>5, <3>2 DEF Barrier
        <3>3. QED
            BY <3>1, <3>2
    <2>2. QED
        BY <2>1 DEF Barrier
<1>7. Made'
    <2>1. \A q \in Parts : ChildOf(q)' = ChildOf(q) /\ ChildOf(q) \in Children
        BY <1>3, ChildOfType DEF ChildOf
    <2>2. \A q \in Parts : q # p => ChildOf(q) # ChildOf(p)
        BY DEF ChildOf
    <2>3. ChildOf(p)[1] = p /\ ChildOf(p)[2] = retries[p] /\ retries[p] \in Int
        BY <1>2 DEF ChildOf, TypeOK
    <2>4. \A d \in Children : packet'[d] # "none" => d[2] <= retries'[d[1]]
        BY <1>3, <1>5, <2>3 DEF Made
    <2>5. ASSUME NEW q \in Parts
          PROVE  /\ state'[q] = "Pending" => packet'[ChildOf(q)] = "none"
                 /\ state'[q] \in {"Queued", "Running"} => packet'[ChildOf(q)] # "none"
                 /\ state'[q] = "Skipped" /\ status' # "Cancelled"
                       => packet'[ChildOf(q)] = "none"
        <3>1. CASE q = p
            BY <1>5, <3>1
        <3>2. CASE q # p
            BY <1>3, <1>5, <2>1, <2>2, <3>2 DEF Made
        <3>3. QED
            BY <3>1, <3>2
    <2>6. packet[ChildOf(p)] = "none"
        BY <1>2 DEF Made
    <2>7. \A d \in todo' : packet'[d] # "none"
        BY <1>3, <1>5, <2>6 DEF Made, TypeOK
    <2>8. QED
        BY <2>1, <2>4, <2>5, <2>7 DEF Made
<1>8. PausedOnFailure'
    BY <1>3 DEF PausedOnFailure
<1>9. QED
    BY <1>6, <1>7, <1>8

\* Every turn of advance_fanout keeps the barrier.
LEMMA AdvanceKeeps ==
    ASSUME TypeOK, Barrier, Made, PausedOnFailure, Advance
    PROVE  Barrier' /\ Made' /\ PausedOnFailure'
<1> USE DEF barrier, flights, thread
<1> DEFINE made == \A d \in todo : d \in Children /\ packet[d] # "none"
<1>1. made
    BY DEF Made, TypeOK
<1>2. CASE StartPart
    BY <1>2, StartPartKeeps
<1>3. CASE Wait
    <2>1. UNCHANGED <<status, wave, state, retries, packet, todo>> /\ status = "Running"
        BY <1>3 DEF Wait, Turn
    <2>2. QED
        BY <1>1, <2>1, PartsStay DEF PausedOnFailure
<1>4. CASE NextWave
    <2>1. /\ UNCHANGED <<status, state, retries, packet, todo>> /\ wave' = wave + 1
          /\ status = "Running" /\ WavePending = {} /\ WaveActive = {}
        BY <1>4 DEF NextWave, WaveOver, Turn
    <2>2. QED
        BY <2>1, GoesOn
<1>5. CASE FinishFanout
    <2>1. /\ UNCHANGED <<wave, state, retries, packet, todo>>
          /\ status = "Running" /\ status' \in {"Done", "Partial"}
        BY <1>5 DEF FinishFanout, WaveOver, Turn
    <2>2. QED
        BY <1>1, <2>1, PartsStay DEF PausedOnFailure
<1>6. CASE ContinueAfterFailure
    <2>1. /\ UNCHANGED <<status, retries, packet, todo>> /\ GoOn
          /\ status = "Running" /\ WavePending = {} /\ WaveActive = {}
        BY <1>6 DEF ContinueAfterFailure, WaveFailedOnly, Turn
    <2>2. QED
        BY <2>1, GoOnMoves, GoesOn
<1>7. CASE StopFanout
    <2>1. /\ UNCHANGED <<status, retries, packet, todo>> /\ GiveUpRest
          /\ status = "Running" /\ WavePending = {} /\ WaveActive = {}
        BY <1>7 DEF StopFanout, WaveFailedOnly, Turn
    <2>2. QED
        BY <2>1, GiveUpRestMoves, GoesOn
<1>8. CASE AskFailure
    <2>1. /\ UNCHANGED <<wave, state, retries, packet, todo>>
          /\ status = "Running" /\ status' = "Paused"
          /\ WavePending = {} /\ WaveActive = {} /\ WaveFailed # {}
        BY <1>8 DEF AskFailure, WaveFailedOnly, Turn
    <2>2. Barrier' /\ Made'
        BY <1>1, <2>1, PartsStay
    <2>3. PausedOnFailure'
        BY <2>1 DEF PausedOnFailure, WavePending, WaveActive, WaveFailed, CurrentWave
    <2>4. QED
        BY <2>2, <2>3
<1>9. QED
    BY <1>2, <1>3, <1>4, <1>5, <1>6, <1>7, <1>8 DEF Advance

\* A retry revives skipped parts of later waves only: nothing skipped in the
\* wave that failed, or before it, depends on the parts tried again
\* (resolve_fanout_failure).
LEMMA RevivedParts ==
    ASSUME TypeOK, NEW p \in DependsUpon(RetryableParts, InState("Skipped"))
    PROVE  p \in Parts /\ WaveOf[p] > wave /\ state[p] = "Skipped"
<1> DEFINE S == {q \in InState("Skipped") : WaveOf[q] > wave}
<1>1. \A q \in Parts : WaveOf[q] \in Int
    BY PlanAssumption DEF Waves
<1>2. \A d \in RetryableParts : d \in Parts /\ WaveOf[d] = wave
    BY DEF RetryableParts, CurrentWave
<1>3. ASSUME NEW q \in InState("Skipped"), NEW d \in DependsOn[q],
             d \in RetryableParts \cup S
      PROVE  q \in S
    <2>1. q \in Parts /\ d \in Parts /\ WaveOf[d] < WaveOf[q]
        BY PlanAssumption DEF InState
    <2>2. WaveOf[d] >= wave
        BY <1>1, <1>2, <1>3, <2>1, SMTT(30) DEF TypeOK
    <2>3. QED
        BY <1>1, <2>1, <2>2, SMTT(30) DEF TypeOK
<1>4. /\ S \in SUBSET InState("Skipped")
      /\ \A q \in InState("Skipped") :
            DependsOn[q] \cap (RetryableParts \cup S) # {} => q \in S
    BY <1>3
<1>5. p \in S
    <2> HIDE DEF S
    <2>1. QED
        BY <1>4 DEF DependsUpon
<1>6. QED
    BY <1>5 DEF InState

\* A retry keeps the barrier: what runs again is of this wave or a later one,
\* and has no child of its new attempt yet (resolve_fanout_failure).
LEMMA RetryKeeps ==
    ASSUME TypeOK, Barrier, Made, PausedOnFailure, AnswerRetry
    PROVE  Barrier' /\ Made' /\ PausedOnFailure'
<1> DEFINE again == RetryableParts
           back  == DependsUpon(again, InState("Skipped"))
<1> USE DEF thread, flights
<1>1. /\ status = "Paused" /\ status' = "Running"
      /\ state' = [p \in Parts |-> IF p \in again \cup back THEN "Pending" ELSE state[p]]
      /\ retries' = [p \in Parts |-> IF p \in again THEN retries[p] + 1 ELSE retries[p]]
      /\ UNCHANGED <<wave, packet, todo>>
    BY DEF AnswerRetry, TriedAgain
<1>2. \A p \in again : p \in Parts /\ WaveOf[p] = wave /\ state[p] = "Failed"
    BY DEF RetryableParts, CurrentWave
<1>3. \A p \in Parts : WaveOf[p] \in Int /\ retries[p] \in Int
    BY PlanAssumption DEF TypeOK, Waves
<1>4. \A p \in back : p \in Parts /\ WaveOf[p] > wave /\ state[p] = "Skipped"
    BY RevivedParts
<1> HIDE DEF again, back
<1>5. Barrier'
    <2>1. ASSUME NEW p \in Parts
          PROVE  /\ WaveOf[p] < wave' => IsDone(state'[p])
                 /\ WaveOf[p] > wave' => state'[p] \in {"Pending", "Skipped"}
        <3>1. CASE p \in again \cup back
            <4>1. state'[p] = "Pending" /\ ~(WaveOf[p] < wave')
                BY <1>1, <1>2, <1>3, <1>4, <3>1 DEF TypeOK
            <4>2. QED
                BY <4>1
        <3>2. CASE p \notin again \cup back
            BY <1>1, <3>2 DEF Barrier
        <3>3. QED
            BY <3>1, <3>2
    <2>2. QED
        BY <2>1 DEF Barrier
<1>6. Made'
    <2>1. ASSUME NEW d \in Children, packet'[d] # "none"
          PROVE  d[2] <= retries'[d[1]]
        <3>1. d[1] \in Parts /\ d[2] \in Int /\ d[2] <= retries[d[1]]
            BY <1>1, <2>1, ChildType, LimitsAssumption DEF Made
        <3>2. QED
            BY <1>1, <1>3, <3>1
    <2>2. ASSUME NEW p \in Parts
          PROVE  /\ state'[p] = "Pending" => packet'[ChildOf(p)'] = "none"
                 /\ state'[p] \in {"Queued", "Running"} => packet'[ChildOf(p)'] # "none"
                 /\ state'[p] = "Skipped" /\ status' # "Cancelled"
                       => packet'[ChildOf(p)'] = "none"
        <3>1. CASE p \in again
            <4>1. state'[p] = "Pending" /\ retries'[p] = retries[p] + 1
                BY <1>1, <3>1
            <4>2. <<p, retries[p] + 1>> \in Children
                BY <3>1, LimitsAssumption DEF Children, again, RetryableParts, TypeOK
            <4>3. packet[<<p, retries[p] + 1>>] = "none"
                BY <1>3, <4>2 DEF Made
            <4>4. ChildOf(p)' = <<p, retries[p] + 1>>
                BY <4>1 DEF ChildOf
            <4>5. QED
                BY <1>1, <4>1, <4>3, <4>4
        <3>2. CASE p \notin again
            <4>1. ChildOf(p)' = ChildOf(p)
                BY <1>1, <3>2 DEF ChildOf
            <4>2. CASE p \in back
                BY <1>1, <1>4, <4>1, <4>2 DEF Made
            <4>3. CASE p \notin back
                BY <1>1, <3>2, <4>1, <4>3 DEF Made
            <4>4. QED
                BY <4>2, <4>3
        <3>3. QED
            BY <3>1, <3>2
    <2>3. \A d \in todo' : packet'[d] # "none"
        BY <1>1 DEF Made
    <2>4. QED
        BY <2>1, <2>2, <2>3 DEF Made
<1>7. PausedOnFailure'
    BY <1>1 DEF PausedOnFailure
<1>8. QED
    BY <1>5, <1>6, <1>7

\* Beginning to cancel keeps the barrier; what is to be stopped was made
\* (cancel_fanout).
LEMMA CancelKeeps ==
    ASSUME TypeOK, Barrier, Made, PausedOnFailure, CancelBegins
    PROVE  Barrier' /\ Made' /\ PausedOnFailure'
<1>1. /\ UNCHANGED <<wave, state, retries, packet>>
      /\ status' = "Cancelled"
    BY DEF CancelBegins, flights
<1>2. ASSUME NEW d \in todo'
      PROVE  d \in Children /\ packet[d] # "none"
    <2>1. PICK p \in Parts : d = ChildOf(p) /\ state[p] \in {"Queued", "Running"}
        BY <1>2 DEF CancelBegins, InState
    <2>2. QED
        BY <2>1, ChildOfType DEF Made
<1>3. QED
    BY <1>1, <1>2, PartsStay DEF PausedOnFailure

\* Every answer of the human keeps the barrier (resolve_pending_action,
\* resolve_fanout_failure).
LEMMA AnswersKeep ==
    ASSUME TypeOK, Barrier, Made, PausedOnFailure, HumanAnswer
    PROVE  Barrier' /\ Made' /\ PausedOnFailure'
<1> USE DEF barrier, flights, thread
<1>1. \A d \in todo : d \in Children /\ packet[d] # "none"
    BY DEF Made, TypeOK
<1>2. CASE ClearPlan
    <2>1. /\ UNCHANGED <<wave, state, retries, packet, todo>>
          /\ status = "Waiting" /\ status' = "Running"
        BY <1>2 DEF ClearPlan
    <2>2. QED
        BY <1>1, <2>1, PartsStay DEF PausedOnFailure
<1>3. CASE NotNow
    BY <1>3, CancelKeeps DEF NotNow
<1>4. CASE AnswerRetry
    BY <1>4, RetryKeeps
<1>5. CASE AnswerContinue
    <2>1. /\ UNCHANGED <<retries, packet, todo>> /\ GoOn
          /\ status = "Paused" /\ status' = "Running"
        BY <1>5 DEF AnswerContinue
    <2>2. QED
        BY <2>1, GoOnMoves, GoesOn DEF PausedOnFailure
<1>6. CASE AnswerStop
    <2>1. /\ UNCHANGED <<retries, packet, todo>> /\ GiveUpRest
          /\ status = "Paused" /\ status' = "Running"
        BY <1>6 DEF AnswerStop
    <2>2. QED
        BY <2>1, GiveUpRestMoves, GoesOn DEF PausedOnFailure
<1>7. CASE AnswerPartial
    <2>1. UNCHANGED <<status, wave, state, retries, packet, todo>> /\ status = "Partial"
        BY <1>7 DEF AnswerPartial
    <2>2. QED
        BY <1>1, <2>1, PartsStay DEF PausedOnFailure
<1>8. QED
    BY <1>2, <1>3, <1>4, <1>5, <1>6, <1>7 DEF HumanAnswer

\* A handler about one child that was made keeps the barrier when it changes no
\* other packet and its own part only.
LEMMA ChildStepKeeps ==
    ASSUME TypeOK, Barrier, Made, PausedOnFailure,
           NEW c \in Children, packet[c] # "none",
           \/ state' = state
           \/ \E s \in {"Queued", "Running", "Returned", "Failed"} :
                 state' = PartState(c, s),
           packet'[c] # "none",
           \A d \in Children : d # c => packet'[d] = packet[d],
           UNCHANGED <<status, wave, retries>>, todo' \subseteq todo
    PROVE  Barrier' /\ Made' /\ PausedOnFailure'
<1>1. \A d \in todo' : d \in Children /\ packet[d] # "none"
    BY DEF Made, TypeOK
<1>2. \A d \in Children : /\ packet[d] # "none" => packet'[d] # "none"
                          /\ packet'[d] # "none" => packet[d] # "none"
    OBVIOUS
<1>3. CASE state' = state
    BY <1>1, <1>2, <1>3, PartsStay DEF PausedOnFailure
<1>4. ASSUME NEW s \in {"Queued", "Running", "Returned", "Failed"},
             state' = PartState(c, s)
      PROVE  Barrier' /\ Made' /\ PausedOnFailure'
    BY <1>1, <1>2, <1>4, PartMoves DEF PausedOnFailure
<1>5. QED
    BY <1>3, <1>4

\* The messages about the children keep the barrier, whatever order they arrive
\* in and whichever attempt they are about.
LEMMA ChildMessageKeeps ==
    ASSUME TypeOK, Barrier, Made, PausedOnFailure,
           NEW c \in Children, ChildMessage(c)
    PROVE  Barrier' /\ Made' /\ PausedOnFailure'
<1> USE DEF barrier, flights, thread
<1>1. CASE Return(c)
    <2>1. /\ UNCHANGED <<status, wave, retries, todo>>
          /\ packet[c] # "none" /\ packet'[c] # "none"
          /\ \A d \in Children : d # c => packet'[d] = packet[d]
          /\ state' = PartState(c, "Returned")
        BY <1>1 DEF Return, ChildDone, TypeOK
    <2>2. QED
        BY <2>1, ChildStepKeeps
<1>2. CASE AgentGone(c)
    <2>1. UNCHANGED <<status, wave, retries, packet, todo>> /\ StopAgent(c)
        BY <1>2 DEF AgentGone
    <2>2. CASE state' = state
        BY <2>1, <2>2, PartsStay DEF PausedOnFailure, Made, TypeOK
    <2>3. CASE packet[c] = "Accepted" /\ state' = PartState(c, "Failed")
        BY <2>1, <2>3, ChildStepKeeps
    <2>4. QED
        BY <2>1, <2>2, <2>3, StopAgentMoves
<1>3. CASE GiveUpReminding(c)
    <2>1. /\ UNCHANGED <<status, wave, retries, packet, todo>> /\ packet[c] = "Accepted"
          /\ state' = PartState(c, "Failed")
        BY <1>3 DEF GiveUpReminding, ChildDone
    <2>2. QED
        BY <2>1, ChildStepKeeps
<1>4. CASE DeletePart(c)
    <2>1. /\ UNCHANGED <<status, wave, retries, todo>>
          /\ packet[c] # "none" /\ packet'[c] # "none"
          /\ \A d \in Children : d # c => packet'[d] = packet[d]
          /\ state' = PartState(c, "Failed")
        BY <1>4 DEF DeletePart, ChildDone, TypeOK
    <2>2. QED
        BY <2>1, ChildStepKeeps
<1>5. CASE HandRelease(c)
    <2>1. UNCHANGED <<status, wave, retries, todo>> /\ packet[c] = "Draft" /\ Release(c)
        BY <1>5 DEF HandRelease
    <2>2. QED
        BY <2>1, ReleaseMoves, ChildStepKeeps
<1>6. QED
    BY <1>1, <1>2, <1>3, <1>4, <1>5 DEF ChildMessage

\* The phases of a tick keep the barrier (drain_local_queue, resume_fanouts,
\* fanout_tick).
LEMMA TickStepKeeps ==
    ASSUME TypeOK, Barrier, Made, PausedOnFailure, TickStep
    PROVE  Barrier' /\ Made' /\ PausedOnFailure'
<1> USE DEF barrier, flights, thread
<1>1. \A d \in todo : d \in Children /\ packet[d] # "none"
    BY DEF Made, TypeOK
<1>2. \A p \in Parts : ChildOf(p) \in Children
    BY ChildOfType
<1>3. CASE DrainHead
    <2> DEFINE c == Head(sweep)
    <2>1. c \in Children
        BY <1>3, HeadTailProperties DEF DrainHead, TypeOK
    <2>2. UNCHANGED <<status, wave, retries, todo>>
        BY <1>3 DEF DrainHead
    <2>3. CASE packet[c] = "Draft"
        <3>1. Release(c)
            BY <1>3, <2>3 DEF DrainHead
        <3>2. QED
            BY <2>1, <2>2, <2>3, <3>1, ReleaseMoves, ChildStepKeeps
    <2>4. CASE packet[c] # "Draft"
        <3>1. UNCHANGED <<state, packet>>
            BY <1>3, <2>4 DEF DrainHead
        <3>2. QED
            BY <1>1, <2>2, <3>1, PartsStay DEF PausedOnFailure
    <2>5. QED
        BY <2>3, <2>4
<1>4. CASE ResumeFanouts
    <2>1. UNCHANGED <<status, wave, state, retries, packet>>
        BY <1>4 DEF ResumeFanouts
    <2>2. \A d \in todo' : d \in Children /\ packet[d] # "none"
        BY <1>2, <1>4 DEF ResumeFanouts, InState, Made
    <2>3. QED
        BY <2>1, <2>2, PartsStay DEF PausedOnFailure
<1>5. CASE LosePart
    <2> DEFINE c == First(todo)
    <2>1. /\ UNCHANGED <<status, wave, retries, packet>> /\ todo # {}
          /\ todo' \subseteq todo /\ state' = PartState(c, "Failed")
        BY <1>5 DEF LosePart, ChildDone
    <2>2. c \in Children /\ packet[c] # "none"
        BY <1>1, <2>1, FirstType DEF TypeOK
    <2>3. QED
        BY <2>1, <2>2, ChildStepKeeps
<1>6. CASE LatePart
    <2> DEFINE c == First(todo)
    <2>1. /\ UNCHANGED <<status, wave, retries, packet>> /\ todo # {}
          /\ todo' \subseteq todo /\ state' = PartState(c, "Failed")
        BY <1>6 DEF LatePart, ChildDone
    <2>2. c \in Children /\ packet[c] # "none"
        BY <1>1, <2>1, FirstType DEF TypeOK
    <2>3. QED
        BY <2>1, <2>2, ChildStepKeeps
<1>7. CASE StopDoomed
    <2>1. /\ UNCHANGED <<status, wave, retries, packet, todo>> /\ StopAgent(doomed)
          /\ doomed \in Children
        BY <1>7 DEF StopDoomed, TypeOK
    <2>2. CASE state' = state
        BY <1>1, <2>1, <2>2, PartsStay DEF PausedOnFailure
    <2>3. CASE packet[doomed] = "Accepted" /\ state' = PartState(doomed, "Failed")
        BY <2>1, <2>3, ChildStepKeeps
    <2>4. QED
        BY <2>1, <2>2, <2>3, StopAgentMoves
<1>8. CASE TickEnds
    <2>1. UNCHANGED <<status, wave, state, retries, packet, todo>>
        BY <1>8 DEF TickEnds
    <2>2. QED
        BY <1>1, <2>1, PartsStay DEF PausedOnFailure
<1>9. ASSUME NEW late \in SUBSET ActiveChildren, FanoutTick(late)
      PROVE  Barrier' /\ Made' /\ PausedOnFailure'
    <2>1. UNCHANGED <<status, wave, state, retries, packet>> /\ todo' = late
        BY <1>9 DEF FanoutTick
    <2>2. \A d \in ActiveChildren : d \in Children /\ packet[d] # "none"
        BY <1>2 DEF ActiveChildren, InState, Made
    <2>3. QED
        BY <2>1, <2>2, PartsStay DEF PausedOnFailure
<1>10. QED
    BY <1>3, <1>4, <1>5, <1>6, <1>7, <1>8, <1>9 DEF TickStep

\* Every handler keeps the barrier and what it rests on.
LEMMA BarrierStep ==
    ASSUME TypeOK, Barrier, Made, PausedOnFailure, CancelCloses, [Next]_vars
    PROVE  Barrier' /\ Made' /\ PausedOnFailure'
<1> USE DEF barrier, flights, thread
<1>1. \A d \in todo : d \in Children /\ packet[d] # "none"
    BY DEF Made, TypeOK
<1>2. ASSUME UNCHANGED <<wave, state, retries, packet, todo>>,
             status' = status \/ (status = "none" /\ status' # "Paused")
      PROVE  Barrier' /\ Made' /\ PausedOnFailure'
    BY <1>1, <1>2, PartsStay DEF PausedOnFailure
<1>3. CASE StartFanout
    BY <1>2, <1>3 DEF StartFanout
<1>4. CASE AskPlan
    BY <1>2, <1>4 DEF AskPlan
<1>5. CASE DeleteOwner
    <2>1. CASE IsOpen
        BY <1>5, <2>1, CancelKeeps DEF DeleteOwner
    <2>2. CASE ~IsOpen
        BY <1>2, <1>5, <2>2 DEF DeleteOwner
    <2>3. QED
        BY <2>1, <2>2
<1>6. CASE CancelPart
    <2> DEFINE c == First(todo)
    <2>1. /\ UNCHANGED <<status, wave, retries, packet>>
          /\ todo # {} /\ todo' \subseteq todo
          /\ state' = state \/ StopAgent(c)
        BY <1>6 DEF CancelPart
    <2>2. c \in Children /\ packet[c] # "none"
        BY <1>1, <2>1, FirstType DEF TypeOK
    <2>3. state' = state \/ state' = PartState(c, "Failed")
        BY <2>1, <2>2, StopAgentMoves
    <2>4. QED
        BY <2>1, <2>2, <2>3, ChildStepKeeps
<1>7. CASE CancelEnds
    <2>1. /\ UNCHANGED <<status, wave, retries, packet, todo>> /\ status = "Cancelled"
          /\ \A p \in Parts :
                state'[p] = IF IsDone(state[p]) THEN state[p] ELSE "Skipped"
        BY <1>7 DEF CancelEnds, Cancelling, CancelCloses
    <2>2. Barrier'
        BY <2>1 DEF Barrier, IsDone
    <2>3. Made'
        BY <2>1 DEF Made, ChildOf, IsDone
    <2>4. PausedOnFailure'
        BY <2>1 DEF PausedOnFailure
    <2>5. QED
        BY <2>2, <2>3, <2>4
<1>8. CASE LandOwner
    BY <1>2, <1>8 DEF LandOwner
<1>9. CASE OthersChange
    BY <1>2, <1>9 DEF OthersChange
<1>10. CASE Tick
    BY <1>2, <1>10 DEF Tick
<1>11. ASSUME NEW panesStay \in BOOLEAN, Restart(panesStay)
       PROVE  Barrier' /\ Made' /\ PausedOnFailure'
    BY <1>2, <1>11 DEF Restart
<1>12. CASE UNCHANGED vars
    BY <1>2, <1>12 DEF vars
<1>13. QED
    BY <1>3, <1>4, <1>5, <1>6, <1>7, <1>8, <1>9, <1>10, <1>11, <1>12,
       AdvanceKeeps, AnswersKeep, ChildMessageKeeps, TickStepKeeps DEF Next

-----------------------------------------------------------------------------
(* The outcome. *)

\* What the proof about the outcome carries along.
Outcome == CancelCloses /\ AnsweredOnce

\* A handler that neither changes the status nor reports keeps the outcome right.
LEMMA OutcomeStays ==
    ASSUME Outcome, UNCHANGED <<status, answers>>,
           phase' = phase \/ (phase # "cancel" /\ phase' # "cancel")
    PROVE  Outcome'
BY DEF Outcome, CancelCloses, AnsweredOnce

\* Before a fan-out is closed nothing was reported and no cancel is under way.
LEMMA NotAnsweredYet ==
    ASSUME Outcome, status \in {"none", "Waiting", "Running", "Paused"}
    PROVE  answers = 0 /\ phase # "cancel"
BY DEF Outcome, CancelCloses, AnsweredOnce

\* Opening, pausing and resuming report nothing.
LEMMA StaysOpen ==
    ASSUME Outcome, status \in {"none", "Waiting", "Running", "Paused"},
           status' \in {"Waiting", "Running", "Paused"}, UNCHANGED <<answers, phase>>
    PROVE  Outcome'
BY NotAnsweredYet DEF Outcome, CancelCloses, AnsweredOnce

\* Beginning to cancel reports nothing yet (cancel_fanout reports at its end).
LEMMA CancelIsOutcome ==
    ASSUME Outcome, status \in {"Waiting", "Running", "Paused"}, CancelBegins
    PROVE  Outcome'
BY NotAnsweredYet DEF CancelBegins, Outcome, CancelCloses, AnsweredOnce

\* Every handler keeps the outcome right: it is reported by the step that closes
\* the fan-out, and by no other (finish_fanout, cancel_fanout).
LEMMA OutcomeStep ==
    ASSUME TypeOK, Outcome, [Next]_vars
    PROVE  Outcome'
<1> USE DEF barrier, human, thread
<1>1. CASE StartFanout \/ AskPlan
    BY <1>1, StaysOpen DEF StartFanout, AskPlan
<1>2. CASE Advance
    <2>1. CASE StartPart \/ Wait \/ NextWave \/ ContinueAfterFailure \/ StopFanout
        BY <2>1, OutcomeStays
        DEF StartPart, Wait, NextWave, ContinueAfterFailure, StopFanout
    <2>2. CASE AskFailure
        BY <2>2, StaysOpen DEF AskFailure, WaveFailedOnly, Turn
    <2>3. CASE FinishFanout
        <3>1. /\ status = "Running" /\ status' \in {"Done", "Partial"}
              /\ answers' = answers + 1 /\ phase' = phase
            BY <2>3 DEF FinishFanout, WaveOver, Turn
        <3>2. QED
            BY <3>1, NotAnsweredYet DEF Outcome, CancelCloses, AnsweredOnce
    <2>4. QED
        BY <1>2, <2>1, <2>2, <2>3 DEF Advance
<1>3. CASE HumanAnswer
    <2>1. CASE ClearPlan \/ AnswerRetry \/ AnswerContinue \/ AnswerStop
        BY <2>1, StaysOpen DEF ClearPlan, AnswerRetry, AnswerContinue, AnswerStop
    <2>2. CASE NotNow
        BY <2>2, CancelIsOutcome DEF NotNow
    <2>3. CASE AnswerPartial
        BY <2>3, OutcomeStays DEF AnswerPartial
    <2>4. QED
        BY <1>3, <2>1, <2>2, <2>3 DEF HumanAnswer
<1>4. CASE DeleteOwner
    <2>1. CASE IsOpen
        BY <1>4, <2>1, CancelIsOutcome DEF DeleteOwner, IsOpen
    <2>2. CASE ~IsOpen
        BY <1>4, <2>2, OutcomeStays DEF DeleteOwner
    <2>3. QED
        BY <2>1, <2>2
<1>5. CASE CancelPart
    BY <1>5, OutcomeStays DEF CancelPart
<1>6. CASE CancelEnds
    <2>1. /\ status = "Cancelled" /\ status' = status
          /\ phase = "cancel" /\ phase' = "idle"
          /\ answers' = IF Swarm THEN answers ELSE answers + 1
        BY <1>6 DEF CancelEnds, Cancelling, Outcome, CancelCloses
    <2>2. answers = 0
        BY <2>1 DEF Outcome, AnsweredOnce
    <2>3. QED
        BY <2>1, <2>2 DEF Outcome, CancelCloses, AnsweredOnce
<1>7. CASE LandOwner \/ OthersChange
    BY <1>7, OutcomeStays DEF LandOwner, OthersChange
<1>8. ASSUME NEW c \in Children, ChildMessage(c)
      PROVE  Outcome'
    BY <1>8, OutcomeStays
    DEF ChildMessage, Return, AgentGone, GiveUpReminding, DeletePart, HandRelease
<1>9. CASE Tick
    BY <1>9, OutcomeStays DEF Tick, Idle
<1>10. CASE TickStep
    <2>1. CASE DrainHead \/ LosePart \/ LatePart \/ StopDoomed
        BY <2>1, OutcomeStays DEF DrainHead, LosePart, LatePart, StopDoomed
    <2>2. CASE ResumeFanouts \/ TickEnds
        BY <2>2, OutcomeStays DEF ResumeFanouts, TickEnds
    <2>3. ASSUME NEW late \in SUBSET ActiveChildren, FanoutTick(late)
          PROVE  Outcome'
        BY <2>3, OutcomeStays DEF FanoutTick
    <2>4. QED
        BY <1>10, <2>1, <2>2, <2>3 DEF TickStep
<1>11. ASSUME NEW panesStay \in BOOLEAN, Restart(panesStay)
       PROVE  Outcome'
    BY <1>11, OutcomeStays DEF Restart
<1>12. CASE UNCHANGED vars
    BY <1>12, OutcomeStays DEF vars
<1>13. QED
    BY <1>1, <1>2, <1>3, <1>4, <1>5, <1>6, <1>7, <1>8, <1>9, <1>10, <1>11, <1>12 DEF Next

-----------------------------------------------------------------------------
(* The theorems. *)

\* A flight without a fan-out satisfies the invariant (Fanout::new).
LEMMA InitHolds ==
    ASSUME Init
    PROVE  FanoutInv
<1>1. TypeOK
    <2>1. /\ wave \in 1..NWaves + 1
          /\ retries \in [Parts -> 0..MaxRetries]
          /\ others \in 0..RoleCap
          /\ restarts \in 0..MaxRestarts
          /\ handReleases \in 0..MaxHandReleases
          /\ deletes \in 0..MaxDeletes
        BY PlanAssumption, LimitsAssumption DEF Init
    <2>2. queue \in Seq(Children) /\ sweep \in Seq(Children)
        BY EmptySeq DEF Init
    <2>3. QED
        BY <2>1, <2>2 DEF Init, TypeOK, TaskState
<1>2. Barrier
    BY PlanAssumption DEF Init, Barrier, Waves
<1>3. Made
    BY ChildOfType, <1>1 DEF Init, Made
<1>4. PausedOnFailure /\ CancelCloses /\ AnsweredOnce
    BY DEF Init, PausedOnFailure, CancelCloses, AnsweredOnce
<1>5. QED
    BY <1>1, <1>2, <1>3, <1>4 DEF FanoutInv

\* Every handler keeps the invariant.
LEMMA InvStep ==
    ASSUME FanoutInv, [Next]_vars
    PROVE  FanoutInv'
<1>1. TypeOK'
    BY TypeStep DEF FanoutInv
<1>2. Barrier' /\ Made' /\ PausedOnFailure'
    BY BarrierStep DEF FanoutInv
<1>3. CancelCloses' /\ AnsweredOnce'
    BY OutcomeStep DEF FanoutInv, Outcome
<1>4. QED
    BY <1>1, <1>2, <1>3 DEF FanoutInv

\* In every state the engine reaches: types, the barrier, what the barrier rests
\* on, and one outcome.  For every plan, every limit and every on_failure.
THEOREM InvTheorem == Spec => []FanoutInv
<1>1. Init => FanoutInv
    BY InitHolds
<1>2. FanoutInv /\ [Next]_vars => FanoutInv'
    BY InvStep
<1>3. QED
    BY <1>1, <1>2, PTL DEF Spec

\* The state is well formed: a wave number past the end, a retry over
\* max_retries or more agents than the role's limit on other flights never occur.
THEOREM TypeTheorem == Spec => []TypeOK
<1>1. FanoutInv => TypeOK
    BY DEF FanoutInv
<1>2. QED
    BY <1>1, InvTheorem, PTL

\* No part of a later wave has started and every part of an earlier wave is
\* over, through failures, retries, time limits, cancels and restarts
\* (advance_fanout, resolve_fanout_failure).
THEOREM BarrierTheorem == Spec => []Barrier
<1>1. FanoutInv => Barrier
    BY DEF FanoutInv
<1>2. QED
    BY <1>1, InvTheorem, PTL

\* The asker hears the outcome once, after the fan-out is closed and never before
\* (finish_fanout, cancel_fanout).
THEOREM AnsweredOnceTheorem == Spec => []AnsweredOnce
<1>1. FanoutInv => AnsweredOnce
    BY DEF FanoutInv
<1>2. QED
    BY <1>1, InvTheorem, PTL

-----------------------------------------------------------------------------
(* How a step may change the parts. *)

\* The part has a child that works or waits in line.
Active(p) == state[p] \in {"Queued", "Running"}

\* No part changes.
Parked == UNCHANGED <<state, wave>>

\* One active part of the current wave moves.
Moved ==
    /\ wave' = wave
    /\ \E p \in Parts, s \in {"Queued", "Running", "Returned", "Failed"} :
          Active(p) /\ WaveOf[p] = wave /\ state' = [state EXCEPT ![p] = s]

\* One pending part of the current wave is started.
Started ==
    /\ wave' = wave
    /\ \E p \in Parts, s \in {"Queued", "Running", "Failed"} :
          state[p] = "Pending" /\ WaveOf[p] = wave /\ state' = [state EXCEPT ![p] = s]

\* The wave is over without a failure.
AllReturned ==
    /\ state' = state /\ wave' = wave + 1
    /\ WavePending = {} /\ WaveActive = {} /\ WaveFailed = {}

\* The wave is over and what waits on its failures is skipped.
WentOn ==
    /\ GoOn
    /\ WavePending = {} /\ WaveActive = {}

\* Nothing is left to start.
GaveUp ==
    \A p \in Parts :
        /\ state'[p] # "Pending"
        /\ state'[p] = state[p] \/ (~IsDone(state[p]) /\ state'[p] = "Skipped")

Shape == Parked \/ Moved \/ Started \/ AllReturned \/ WentOn \/ GaveUp

\* fanout_part_state, for a child that was made, moves an active part of the
\* current wave or nothing.
LEMMA PartStateShape ==
    ASSUME FanoutInv, NEW c \in Children, packet[c] # "none",
           NEW s \in {"Queued", "Running", "Returned", "Failed"},
           state' = PartState(c, s), wave' = wave
    PROVE  Parked \/ Moved
<1>1. CASE IsPart(c) /\ ~IsDone(state[c[1]])
    <2>1. /\ state[c[1]] \in {"Queued", "Running"} /\ WaveOf[c[1]] = wave
          /\ c[1] \in Parts /\ state' = [state EXCEPT ![c[1]] = s]
        BY <1>1, ActivePart, ChildType DEF FanoutInv, PartState
    <2>2. QED
        BY <2>1 DEF Moved, Active
<1>2. CASE ~(IsPart(c) /\ ~IsDone(state[c[1]]))
    BY <1>2 DEF PartState, Parked
<1>3. QED
    BY <1>1, <1>2

\* stop_agent fails an active part of the current wave or changes no part.
LEMMA StopAgentShape ==
    ASSUME FanoutInv, NEW c \in Children, StopAgent(c), wave' = wave
    PROVE  Parked \/ Moved
BY StopAgentMoves, PartStateShape DEF Parked

\* begin_wave starts a pending part of the current wave.
LEMMA StartPartShape ==
    ASSUME FanoutInv, StartPart
    PROVE  Started
<1> DEFINE p == Min(WavePending)
<1>1. p \in WavePending
    <2>1. WavePending \subseteq Parts /\ Parts \subseteq Nat /\ WavePending # {}
        BY DEF StartPart, WavePending, CurrentWave, Parts
    <2>2. QED
        BY <2>1, MinInSet
<1> HIDE DEF p
<1>2. p \in Parts /\ WaveOf[p] = wave /\ state[p] = "Pending"
    BY <1>1 DEF WavePending, CurrentWave
<1>3. ChildOf(p) \in Children
    BY <1>2, ChildOfType DEF FanoutInv
<1>4. \A s : PartState(ChildOf(p), s) = [state EXCEPT ![p] = s]
    BY <1>2 DEF PartState, IsPart, ChildOf, IsDone
<1>5. \E s \in {"Queued", "Running", "Failed"} : state' = [state EXCEPT ![p] = s]
    <2>1. CASE Release(ChildOf(p))
        BY <1>3, <1>4, <2>1, ReleaseMoves DEF FanoutInv
    <2>2. CASE state' = [state EXCEPT ![p] = "Failed"]
        BY <2>2
    <2>3. QED
        BY <2>1, <2>2 DEF StartPart, p
<1>6. wave' = wave
    BY DEF StartPart
<1>7. QED
    BY <1>2, <1>5, <1>6 DEF Started

\* What a turn of advance_fanout does to the parts.
LEMMA AdvanceShape ==
    ASSUME FanoutInv, Advance
    PROVE  Shape
<1>1. CASE StartPart
    BY <1>1, StartPartShape DEF Shape
<1>2. CASE Wait \/ FinishFanout \/ AskFailure
    BY <1>2 DEF Wait, FinishFanout, AskFailure, barrier, Parked, Shape
<1>3. CASE NextWave
    BY <1>3 DEF NextWave, WaveOver, AllReturned, Shape
<1>4. CASE ContinueAfterFailure
    BY <1>4 DEF ContinueAfterFailure, WaveFailedOnly, WentOn, Shape
<1>5. CASE StopFanout
    <2>1. GiveUpRest
        BY <1>5 DEF StopFanout
    <2>2. QED
        BY <2>1, GiveUpRestMoves DEF FanoutInv, GaveUp, Shape, IsDone
<1>6. QED
    BY <1>1, <1>2, <1>3, <1>4, <1>5 DEF Advance

\* What a message about a child does to the parts: never more than one moves.
LEMMA ChildMessageShape ==
    ASSUME FanoutInv, NEW c \in Children, ChildMessage(c)
    PROVE  Parked \/ Moved
<1>1. CASE Return(c)
    BY <1>1, PartStateShape DEF Return, ChildDone
<1>2. CASE AgentGone(c)
    BY <1>2, StopAgentShape DEF AgentGone
<1>3. CASE GiveUpReminding(c)
    BY <1>3, PartStateShape DEF GiveUpReminding, ChildDone
<1>4. CASE DeletePart(c)
    <2>1. packet[c] # "none" /\ state' = PartState(c, "Failed") /\ wave' = wave
        BY <1>4 DEF DeletePart, ChildDone
    <2>2. QED
        BY <2>1, PartStateShape
<1>5. CASE HandRelease(c)
    <2>1. packet[c] # "none" /\ Release(c) /\ wave' = wave
        BY <1>5 DEF HandRelease
    <2>2. QED
        BY <2>1, ReleaseMoves, PartStateShape DEF FanoutInv
<1>6. QED
    BY <1>1, <1>2, <1>3, <1>4, <1>5 DEF ChildMessage

\* What a phase of a tick does to the parts: never more than one moves.
LEMMA TickStepShape ==
    ASSUME FanoutInv, TickStep
    PROVE  Parked \/ Moved
<1> USE DEF barrier, FanoutInv
<1>1. todo # {} => First(todo) \in Children /\ packet[First(todo)] # "none"
    BY FirstType DEF TypeOK, Made
<1>2. CASE DrainHead
    <2>1. Head(sweep) \in Children /\ wave' = wave
        BY <1>2, HeadTailProperties DEF DrainHead, TypeOK
    <2>2. CASE packet[Head(sweep)] = "Draft"
        <3>1. Release(Head(sweep))
            BY <1>2, <2>2 DEF DrainHead
        <3>2. QED
            BY <2>1, <2>2, <3>1, ReleaseMoves, PartStateShape
    <2>3. CASE packet[Head(sweep)] # "Draft"
        BY <1>2, <2>3 DEF DrainHead, Parked
    <2>4. QED
        BY <2>2, <2>3
<1>3. CASE LosePart
    BY <1>1, <1>3, PartStateShape DEF LosePart, ChildDone
<1>4. CASE LatePart
    BY <1>1, <1>4, PartStateShape DEF LatePart, ChildDone
<1>5. CASE StopDoomed
    <2>1. StopAgent(doomed) /\ doomed \in Children /\ wave' = wave
        BY <1>5 DEF StopDoomed, TypeOK
    <2>2. QED
        BY <2>1, StopAgentShape
<1>6. CASE ResumeFanouts \/ TickEnds
    BY <1>6 DEF ResumeFanouts, TickEnds, Parked
<1>7. ASSUME NEW late \in SUBSET ActiveChildren, FanoutTick(late)
      PROVE  Parked
    BY <1>7 DEF FanoutTick, Parked
<1>8. QED
    BY <1>2, <1>3, <1>4, <1>5, <1>6, <1>7 DEF TickStep

\* Every handler other than a retry changes the parts in one of these ways.
LEMMA StepShape ==
    ASSUME FanoutInv, [Next]_vars
    PROVE  Shape \/ AnswerRetry
<1> USE DEF barrier
<1>1. CASE StartFanout \/ AskPlan \/ LandOwner \/ OthersChange \/ Tick
    BY <1>1 DEF StartFanout, AskPlan, LandOwner, OthersChange, Tick, Parked, Shape
<1>2. CASE HumanAnswer
    <2>1. CASE ClearPlan \/ NotNow \/ AnswerPartial
        BY <2>1 DEF ClearPlan, NotNow, CancelBegins, AnswerPartial, Parked, Shape
    <2>2. CASE AnswerContinue
        BY <2>2 DEF AnswerContinue, FanoutInv, PausedOnFailure, WentOn, Shape
    <2>3. CASE AnswerStop
        <3>1. GiveUpRest
            BY <2>3 DEF AnswerStop
        <3>2. QED
            BY <3>1, GiveUpRestMoves DEF FanoutInv, GaveUp, Shape, IsDone
    <2>4. QED
        BY <1>2, <2>1, <2>2, <2>3 DEF HumanAnswer
<1>3. CASE DeleteOwner
    BY <1>3 DEF DeleteOwner, CancelBegins, Parked, Shape
<1>4. CASE CancelPart
    <2>1. /\ todo # {} /\ wave' = wave
          /\ state' = state \/ StopAgent(First(todo))
        BY <1>4 DEF CancelPart
    <2>2. First(todo) \in Children
        BY <2>1, FirstType DEF FanoutInv, TypeOK
    <2>3. QED
        BY <2>1, <2>2, StopAgentShape DEF Parked, Shape
<1>5. CASE CancelEnds
    <2>1. \A p \in Parts : state'[p] = IF IsDone(state[p]) THEN state[p] ELSE "Skipped"
        BY <1>5 DEF CancelEnds
    <2>2. GaveUp
        BY <2>1 DEF GaveUp, IsDone
    <2>3. QED
        BY <2>2 DEF Shape
<1>6. ASSUME NEW panesStay \in BOOLEAN, Restart(panesStay)
      PROVE  Shape
    BY <1>6 DEF Restart, Parked, Shape
<1>7. CASE UNCHANGED vars
    BY <1>7 DEF vars, Parked, Shape
<1>8. QED
    BY <1>1, <1>2, <1>3, <1>4, <1>5, <1>6, <1>7,
       AdvanceShape, ChildMessageShape, TickStepShape DEF Next, Shape

-----------------------------------------------------------------------------
(* What is over stays over. *)

\* The second half of OverIsFinal, as a relation between two states.
ReopenedOnlyByRetry ==
    \A p \in Parts :
        IsDone(state[p]) /\ state'[p] # state[p] =>
            /\ state[p] # "Returned" /\ state'[p] = "Pending"
            /\ status = "Paused" /\ WaveOf[p] >= wave

\* A retry reopens failed and skipped parts of this wave and later ones, and
\* no result that came back (resolve_fanout_failure).
LEMMA RetryReopens ==
    ASSUME FanoutInv, AnswerRetry
    PROVE  ReopenedOnlyByRetry
<1> DEFINE back == DependsUpon(RetryableParts, InState("Skipped"))
<1>1. /\ status = "Paused"
      /\ state' = [p \in Parts |-> IF p \in RetryableParts \cup back
                                    THEN "Pending" ELSE state[p]]
    BY DEF AnswerRetry
<1>2. \A p \in RetryableParts : state[p] = "Failed" /\ WaveOf[p] = wave
    BY DEF RetryableParts, CurrentWave
<1>3. \A p \in back : state[p] = "Skipped" /\ WaveOf[p] > wave
    BY RevivedParts DEF FanoutInv
<1>4. wave \in Int /\ \A p \in Parts : WaveOf[p] \in Int
    BY PlanAssumption DEF FanoutInv, TypeOK, Waves
<1> HIDE DEF back
<1>5. ASSUME NEW p \in Parts, state'[p] # state[p]
      PROVE  state[p] # "Returned" /\ state'[p] = "Pending" /\ WaveOf[p] >= wave
    <2>1. p \in RetryableParts \cup back /\ state'[p] = "Pending"
        BY <1>1, <1>5
    <2>2. CASE p \in RetryableParts
        BY <1>2, <1>4, <2>1, <2>2
    <2>3. CASE p \in back
        BY <1>3, <1>4, <2>1, <2>3
    <2>4. QED
        BY <2>1, <2>2, <2>3
<1>6. QED
    BY <1>1, <1>5 DEF ReopenedOnlyByRetry

\* Nothing but a retry reopens a part that is over (fanout_child_done and
\* fanout_part_state leave such a part alone).
LEMMA ShapeReopensNothing ==
    ASSUME FanoutInv, Shape
    PROVE  ReopenedOnlyByRetry
<1>1. CASE Parked \/ AllReturned
    BY <1>1 DEF Parked, AllReturned, ReopenedOnlyByRetry
<1>2. CASE Moved \/ Started
    <2>1. PICK p \in Parts, s \in TaskState :
              ~IsDone(state[p]) /\ state' = [state EXCEPT ![p] = s]
        BY <1>2 DEF Moved, Started, Active, IsDone, TaskState
    <2>2. \A q \in Parts : q # p => state'[q] = state[q]
        BY <2>1 DEF FanoutInv, TypeOK
    <2>3. QED
        BY <2>1, <2>2 DEF ReopenedOnlyByRetry
<1>3. CASE WentOn
    BY <1>3, GoOnMoves DEF FanoutInv, WentOn, IsDone, ReopenedOnlyByRetry
<1>4. CASE GaveUp
    BY <1>4 DEF GaveUp, ReopenedOnlyByRetry
<1>5. QED
    BY <1>1, <1>2, <1>3, <1>4 DEF Shape

\* No handler reopens a closed fan-out (is_open, advance_fanout's early return).
LEMMA ClosedStays ==
    ASSUME FanoutInv, [Next]_vars, IsClosed
    PROVE  status' = status
<1> USE DEF barrier, IsClosed
<1>1. CASE StartFanout \/ AskPlan \/ LandOwner \/ OthersChange \/ Tick
    BY <1>1 DEF StartFanout, AskPlan, LandOwner, OthersChange, Tick
<1>2. CASE Advance
    BY <1>2 DEF Advance, StartPart, Wait, NextWave, FinishFanout, ContinueAfterFailure,
                StopFanout, AskFailure, WaveOver, WaveFailedOnly, Turn
<1>3. CASE HumanAnswer
    BY <1>3 DEF HumanAnswer, ClearPlan, NotNow, AnswerRetry, AnswerContinue, AnswerStop,
                AnswerPartial
<1>4. CASE DeleteOwner
    BY <1>4 DEF DeleteOwner, IsOpen
<1>5. CASE CancelPart \/ CancelEnds
    BY <1>5 DEF CancelPart, CancelEnds
<1>6. ASSUME NEW c \in Children, ChildMessage(c)
      PROVE  status' = status
    BY <1>6 DEF ChildMessage, Return, AgentGone, GiveUpReminding, DeletePart, HandRelease
<1>7. CASE TickStep
    BY <1>7 DEF TickStep, DrainHead, ResumeFanouts, LosePart, LatePart, StopDoomed,
                TickEnds, FanoutTick
<1>8. ASSUME NEW panesStay \in BOOLEAN, Restart(panesStay)
      PROVE  status' = status
    BY <1>8 DEF Restart
<1>9. CASE UNCHANGED vars
    BY <1>9 DEF vars
<1>10. QED
    BY <1>1, <1>2, <1>3, <1>4, <1>5, <1>6, <1>7, <1>8, <1>9 DEF Next

\* A closed fan-out stays closed; a part that is over runs again only by the
\* human's retry of a paused fan-out, in this wave or a later one, and a result
\* is never taken back (fanout_child_done, resolve_fanout_failure).
THEOREM OverIsFinalTheorem == Spec => OverIsFinal
<1>1. FanoutInv /\ [Next]_vars =>
          [ /\ IsClosed => status' = status
            /\ \A p \in Parts :
                  IsDone(state[p]) /\ state'[p] # state[p] =>
                      /\ state[p] # "Returned" /\ state'[p] = "Pending"
                      /\ status = "Paused" /\ WaveOf[p] >= wave ]_vars
    <2> SUFFICES ASSUME FanoutInv, [Next]_vars
                 PROVE  (IsClosed => status' = status) /\ ReopenedOnlyByRetry
        BY DEF ReopenedOnlyByRetry
    <2>1. ReopenedOnlyByRetry
        BY StepShape, RetryReopens, ShapeReopensNothing
    <2>2. QED
        BY <2>1, ClosedStays
<1>2. QED
    BY <1>1, InvTheorem, PTL DEF Spec, OverIsFinal

-----------------------------------------------------------------------------
(* Results first, where nobody is asked. *)

\* What is still pending does not wait on a part that was skipped, nor on one of
\* an earlier wave that has no result.
Unblocked ==
    \A p \in Parts : state[p] = "Pending" =>
        \A d \in DependsOn[p] :
            /\ state[d] # "Skipped"
            /\ WaveOf[d] < wave => state[d] = "Returned"

\* The inductive invariant, together with FanoutInv.
NeverAsks == status # "Paused" /\ DepsReturned /\ Unblocked

\* A part depends on parts of earlier waves (build_waves).
LEMMA DependsOnParts ==
    /\ \A p \in Parts : WaveOf[p] \in Int
    /\ \A p \in Parts : \A d \in DependsOn[p] : d \in Parts /\ WaveOf[d] < WaveOf[p]
BY PlanAssumption DEF Waves

\* skip_dependents leaves nothing pending that waits on a failed or skipped part.
LEMMA SkipsAllThatDepend ==
    ASSUME FanoutInv, GoOn, NEW p \in Parts, state'[p] = "Pending", NEW d \in DependsOn[p]
    PROVE  state[d] \notin {"Failed", "Skipped"} /\ state'[d] # "Skipped"
<1> DEFINE seed  == InState("Failed") \cup InState("Skipped")
           newly == DependsUpon(seed, InState("Pending"))
<1>1. \A q \in Parts : state'[q] = IF q \in newly THEN "Skipped" ELSE state[q]
    BY DEF GoOn, SkipDependents
<1>2. state[p] = "Pending" /\ p \notin newly
    BY <1>1
<1>3. \A q \in InState("Pending") : DependsOn[q] \cap (seed \cup newly) # {} => q \in newly
    <2> HIDE DEF seed
    <2>1. ASSUME NEW q \in InState("Pending"), NEW e \in DependsOn[q], e \in seed \cup newly,
                 NEW S \in SUBSET InState("Pending"),
                 \A r \in InState("Pending") : DependsOn[r] \cap (seed \cup S) # {} => r \in S
          PROVE  q \in S
        <3>1. e \in seed \cup S
            BY <2>1 DEF DependsUpon
        <3>2. QED
            BY <2>1, <3>1
    <2>2. QED
        BY <2>1 DEF DependsUpon
<1>4. d \notin seed /\ d \notin newly
    BY <1>2, <1>3 DEF InState
<1>5. d \in Parts
    BY DependsOnParts
<1> HIDE DEF newly
<1>6. QED
    BY <1>1, <1>4, <1>5 DEF InState

\* Going on without what failed, the parts still pending have all their results
\* (continue_after_failure).
LEMMA WentOnKeeps ==
    ASSUME FanoutInv, DepsReturned, WentOn
    PROVE  DepsReturned' /\ Unblocked'
<1>1. /\ \A p \in Parts :
            state'[p] = state[p] \/ (state[p] = "Pending" /\ state'[p] = "Skipped")
      /\ wave' = wave + 1
    BY GoOnMoves DEF WentOn, FanoutInv
<1>2. DepsReturned'
    BY <1>1, DependsOnParts DEF DepsReturned
<1>3. ASSUME NEW p \in Parts, state'[p] = "Pending", NEW d \in DependsOn[p]
      PROVE  state'[d] # "Skipped" /\ (WaveOf[d] < wave' => state'[d] = "Returned")
    <2>1. state[d] \notin {"Failed", "Skipped"} /\ state'[d] # "Skipped" /\ d \in Parts
        BY <1>3, SkipsAllThatDepend, DependsOnParts DEF WentOn
    <2>2. ASSUME WaveOf[d] < wave'
          PROVE  state'[d] = "Returned"
        <3>1. WaveOf[d] <= wave
            BY <1>1, <2>1, <2>2, DependsOnParts DEF FanoutInv, TypeOK
        <3>2. IsDone(state[d])
            BY <2>1, <3>1, WaveIsOver DEF WentOn, FanoutInv
        <3>3. QED
            BY <1>1, <2>1, <3>2 DEF IsDone
    <2>3. QED
        BY <2>1, <2>2
<1>4. QED
    BY <1>2, <1>3 DEF Unblocked

\* Every handler other than a retry starts parts only with the results they need.
LEMMA ShapeKeepsDeps ==
    ASSUME FanoutInv, DepsReturned, Unblocked, Shape
    PROVE  DepsReturned' /\ Unblocked'
<1>1. CASE Parked
    BY <1>1 DEF Parked, DepsReturned, Unblocked
<1>2. CASE Moved
    <2>1. PICK q \in Parts, s \in {"Queued", "Running", "Returned", "Failed"} :
              Active(q) /\ WaveOf[q] = wave /\ state' = [state EXCEPT ![q] = s]
        BY <1>2 DEF Moved
    <2>2. /\ state'[q] = s /\ wave' = wave /\ wave \in Int
          /\ \A p \in Parts : p # q => state'[p] = state[p]
        BY <1>2, <2>1 DEF Moved, FanoutInv, TypeOK
    <2>3. DepsReturned'
        BY <2>1, <2>2, DependsOnParts DEF Active, DepsReturned
    <2>4. Unblocked'
        BY <2>1, <2>2, DependsOnParts DEF Active, Unblocked
    <2>5. QED
        BY <2>3, <2>4
<1>3. CASE Started
    <2>1. PICK q \in Parts, s \in {"Queued", "Running", "Failed"} :
              state[q] = "Pending" /\ WaveOf[q] = wave /\ state' = [state EXCEPT ![q] = s]
        BY <1>3 DEF Started
    <2>2. /\ state'[q] = s /\ wave' = wave /\ wave \in Int
          /\ \A p \in Parts : p # q => state'[p] = state[p]
        BY <1>3, <2>1 DEF Started, FanoutInv, TypeOK
    <2>3. \A d \in DependsOn[q] : state[d] = "Returned"
        BY <2>1, DependsOnParts DEF Unblocked
    <2>4. DepsReturned'
        BY <2>1, <2>2, <2>3, DependsOnParts DEF DepsReturned
    <2>5. Unblocked'
        BY <2>1, <2>2, DependsOnParts DEF Unblocked
    <2>6. QED
        BY <2>4, <2>5
<1>4. CASE AllReturned
    <2>1. ASSUME NEW p \in Parts, state[p] = "Pending", NEW d \in DependsOn[p],
                 WaveOf[d] < wave'
          PROVE  state[d] = "Returned"
        <3>1. d \in Parts /\ WaveOf[d] <= wave /\ state[d] # "Skipped"
            BY <1>4, <2>1, DependsOnParts DEF AllReturned, Unblocked, FanoutInv, TypeOK
        <3>2. IsDone(state[d])
            BY <1>4, <3>1, WaveIsOver DEF AllReturned, FanoutInv
        <3>3. WaveOf[d] = wave => state[d] # "Failed"
            BY <1>4, <3>1 DEF AllReturned, WaveFailed, CurrentWave
        <3>4. WaveOf[d] < wave => state[d] = "Returned"
            BY <2>1 DEF Unblocked
        <3>5. WaveOf[d] = wave \/ WaveOf[d] < wave
            BY <3>1, DependsOnParts DEF FanoutInv, TypeOK
        <3>6. QED
            BY <3>1, <3>2, <3>3, <3>4, <3>5 DEF IsDone
    <2>2. QED
        BY <1>4, <2>1 DEF AllReturned, DepsReturned, Unblocked
<1>5. CASE WentOn
    BY <1>5, WentOnKeeps
<1>6. CASE GaveUp
    <2>1. DepsReturned'
        BY <1>6, DependsOnParts DEF GaveUp, IsDone, DepsReturned
    <2>2. Unblocked'
        BY <1>6 DEF GaveUp, Unblocked
    <2>3. QED
        BY <2>1, <2>2
<1>7. QED
    BY <1>1, <1>2, <1>3, <1>4, <1>5, <1>6 DEF Shape

\* Where on_failure never means "ask", a fan-out never pauses (advance_fanout).
LEMMA NeverPaused ==
    ASSUME "ask" \notin OnFailure, status # "Paused", [Next]_vars, FanoutInv
    PROVE  status' # "Paused"
<1> USE DEF barrier
<1>1. CASE StartFanout \/ AskPlan \/ LandOwner \/ OthersChange \/ Tick
    BY <1>1 DEF StartFanout, AskPlan, LandOwner, OthersChange, Tick
<1>2. CASE Advance
    BY <1>2 DEF Advance, StartPart, Wait, NextWave, FinishFanout, ContinueAfterFailure,
                StopFanout, AskFailure
<1>3. CASE HumanAnswer
    BY <1>3 DEF HumanAnswer, ClearPlan, NotNow, CancelBegins, AnswerRetry, AnswerContinue,
                AnswerStop, AnswerPartial
<1>4. CASE DeleteOwner
    BY <1>4 DEF DeleteOwner, CancelBegins
<1>5. CASE CancelPart \/ CancelEnds
    BY <1>5 DEF CancelPart, CancelEnds
<1>6. ASSUME NEW c \in Children, ChildMessage(c)
      PROVE  status' = status
    BY <1>6 DEF ChildMessage, Return, AgentGone, GiveUpReminding, DeletePart, HandRelease
<1>7. CASE TickStep
    BY <1>7 DEF TickStep, DrainHead, ResumeFanouts, LosePart, LatePart, StopDoomed,
                TickEnds, FanoutTick
<1>8. ASSUME NEW panesStay \in BOOLEAN, Restart(panesStay)
      PROVE  status' = status
    BY <1>8 DEF Restart
<1>9. CASE UNCHANGED vars
    BY <1>9 DEF vars
<1>10. QED
    BY <1>1, <1>2, <1>3, <1>4, <1>5, <1>6, <1>7, <1>8, <1>9 DEF Next

\* Where nobody is asked, every handler keeps results before dependents.
LEMMA NeverAsksStep ==
    ASSUME "ask" \notin OnFailure, FanoutInv, NeverAsks, [Next]_vars
    PROVE  NeverAsks'
<1>1. ~AnswerRetry
    BY DEF AnswerRetry, NeverAsks
<1>2. DepsReturned' /\ Unblocked'
    BY <1>1, StepShape, ShapeKeepsDeps DEF NeverAsks
<1>3. QED
    BY <1>2, NeverPaused DEF NeverAsks

\* Where on_failure never means "ask", a part that started has every result it
\* depends on: "Parts that wait on a failed or skipped part cannot run"
\* (skip_dependents, core/src/fanout.rs:514).  Where it may, a retry breaks this:
\* see the run fanout_revived.
THEOREM DepsReturnedTheorem ==
    ASSUME "ask" \notin OnFailure
    PROVE  Spec => []DepsReturned
<1>1. Init => NeverAsks
    BY PlanAssumption DEF Init, NeverAsks, DepsReturned, Unblocked, Waves
<1>2. FanoutInv /\ NeverAsks /\ [Next]_vars => NeverAsks'
    BY NeverAsksStep
<1>3. NeverAsks => DepsReturned
    BY DEF NeverAsks
<1>4. QED
    BY <1>1, <1>2, <1>3, InvTheorem, PTL DEF Spec
=============================================================================
