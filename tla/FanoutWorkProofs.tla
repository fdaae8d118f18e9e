-------------------------- MODULE FanoutWorkProofs --------------------------
(***************************************************************************)
(* Proofs about who works: a queued part is in line, once, a running part  *)
(* has an agent, slots and role are not overdrawn, a fan-out that waits    *)
(* has its question; and, where no human releases a draft by hand, no two  *)
(* attempts at a part work at once, an agent starts only for a part that   *)
(* has yet to run, and nothing works for a closed fan-out.                 *)
(*                                                                         *)
(* A handler is told of a child.  What it does is therefore stated twice:  *)
(* what it leaves alone for every other child and part (Touches), and what *)
(* the part it is about looks like afterwards.                             *)
(***************************************************************************)
EXTENDS FanoutProofs

-----------------------------------------------------------------------------
(* What a handler about one child leaves alone. *)

\* The handler is about c: every other child keeps its packet, its agent and its
\* places, and only c's part may move.
Touches(c) ==
    /\ UNCHANGED <<retries, phase, resumed>>
    /\ \E s \in TaskState : state' = PartState(c, s)
    /\ \A d \in Children \ {c} :
          /\ packet'[d] = packet[d] /\ agent'[d] = agent[d]
          /\ (d \in Range(queue')) = (d \in Range(queue))
          /\ (d \in todo') = (d \in todo)
          /\ (doomed' = d) = (doomed = d)
    /\ IsInjective(queue')

\* The handlers about a child, and the child's part of the two loops.
ChildStep(c) ==
    \/ ChildMessage(c)
    \/ StartPart /\ c = ChildOf(Min(WavePending))
    \/ CancelPart /\ c = First(todo)
    \/ DrainHead /\ c = Head(sweep)
    \/ (LosePart \/ LatePart) /\ c = First(todo)
    \/ StopDoomed /\ c = doomed

\* release is about the child it releases, and leaves the line without repetition.
LEMMA ReleaseTouches ==
    ASSUME TypeOK, IsInjective(queue), NEW c \in Children, Release(c)
    PROVE  /\ \E s \in TaskState : state' = PartState(c, s)
           /\ \A d \in Children \ {c} :
                 /\ packet'[d] = packet[d] /\ agent'[d] = agent[d]
                 /\ (d \in Range(queue')) = (d \in Range(queue))
           /\ IsInjective(queue')
<1>1. /\ IsInjective(RemoveFirst(queue, c))
      /\ Range(RemoveFirst(queue, c)) = Range(queue) \ {c}
    BY RemoveFirstOnce DEF TypeOK
<1>2. c \notin Range(queue) =>
        /\ IsInjective(Append(queue, c))
        /\ Range(Append(queue, c)) = Range(queue) \cup {c}
    BY AppendOnce DEF TypeOK
<1>3. CASE Held(c)
    <2>1. \/ queue' = queue
          \/ c \notin Range(queue) /\ queue' = Append(queue, c)
        BY <1>3 DEF Held
    <2>2. /\ IsInjective(queue')
          /\ Range(queue') = Range(queue) \/ Range(queue') = Range(queue) \cup {c}
        <3>1. CASE queue' = queue
            BY <3>1
        <3>2. CASE c \notin Range(queue) /\ queue' = Append(queue, c)
            BY <1>2, <3>2
        <3>3. QED
            BY <2>1, <3>1, <3>2
    <2>3. /\ state' = PartState(c, "Queued") /\ "Queued" \in TaskState
          /\ packet' = [packet EXCEPT ![c] = "Draft"] /\ agent' = agent
        BY <1>3 DEF Held, TaskState
    <2>4. QED
        BY <2>2, <2>3 DEF TypeOK
<1>4. CASE Launched(c)
    BY <1>1, <1>4 DEF Launched, TypeOK, TaskState
<1>5. CASE LaunchFails(c)
    BY <1>1, <1>5 DEF LaunchFails, TypeOK, TaskState
<1>6. QED
    BY <1>3, <1>4, <1>5 DEF Release

\* stop_agent and mark_offline are about the agent's child.
LEMMA StopAgentTouches ==
    ASSUME TypeOK, NEW c \in Children, StopAgent(c)
    PROVE  /\ \E s \in TaskState : state' = PartState(c, s)
           /\ \A d \in Children \ {c} : agent'[d] = agent[d]
<1>1. \/ state' = PartState(c, "Failed")
      \/ state' = state
    BY DEF StopAgent, ChildDone
<1>2. state = PartState(c, state[c[1]])
    BY ChildType DEF TypeOK, PartState
<1>3. state[c[1]] \in TaskState /\ "Failed" \in TaskState
    BY ChildType DEF TypeOK, TaskState
<1>4. QED
    BY <1>1, <1>2, <1>3 DEF StopAgent, TypeOK

\* Nothing happens to the part.
LEMMA PartStays ==
    ASSUME TypeOK, NEW c \in Children, state' = state
    PROVE  \E s \in TaskState : state' = PartState(c, s)
<1>1. state = PartState(c, state[c[1]]) /\ state[c[1]] \in TaskState
    BY ChildType DEF TypeOK, PartState
<1>2. QED
    BY <1>1

\* The child that begin_wave makes is one of the plan's.
LEMMA StartsChild ==
    ASSUME TypeOK, StartPart
    PROVE  /\ Min(WavePending) \in Parts /\ ChildOf(Min(WavePending)) \in Children
           /\ IsPart(ChildOf(Min(WavePending)))
           /\ ChildOf(Min(WavePending))[1] = Min(WavePending)
           /\ state[Min(WavePending)] = "Pending"
<1>1. WavePending # {} /\ WavePending \in SUBSET Nat
    BY DEF StartPart, WavePending, CurrentWave, Parts
<1>2. Min(WavePending) \in WavePending
    BY <1>1, MinInSet
<1>3. QED
    BY <1>2, ChildOfType DEF WavePending, CurrentWave, IsPart, ChildOf

\* Every handler about a child leaves the others alone.
LEMMA ChildStepTouches ==
    ASSUME TypeOK, IsInjective(queue), NEW c \in Children, ChildStep(c)
    PROVE  Touches(c)
<1> USE DEF thread, bounds, flights
<1>0. NoChild \notin Children /\ "Failed" \in TaskState /\ "Returned" \in TaskState
    BY ChildType DEF TaskState
<1>1. CASE Return(c)
    BY <1>0, <1>1 DEF Return, Touches, ChildDone, TypeOK
<1>2. CASE AgentGone(c)
    BY <1>2, StopAgentTouches DEF AgentGone, Touches
<1>3. CASE GiveUpReminding(c)
    BY <1>0, <1>3 DEF GiveUpReminding, Touches, ChildDone, Idle
<1>4. CASE DeletePart(c)
    <2>1. IsInjective(queue') /\ Range(queue') = Range(queue) \ {c}
        BY <1>4, RemoveFirstOnce DEF DeletePart, TypeOK
    <2>2. QED
        BY <1>0, <1>4, <2>1 DEF DeletePart, Touches, ChildDone, TypeOK
<1>5. CASE HandRelease(c)
    BY <1>5, ReleaseTouches DEF HandRelease, Touches
<1>6. CASE StartPart /\ c = ChildOf(Min(WavePending))
    <2>1. UNCHANGED <<retries, phase, resumed, todo, doomed>>
        BY <1>6 DEF StartPart
    <2>2. CASE Release(c)
        BY <2>1, <2>2, ReleaseTouches DEF Touches
    <2>3. CASE state' = [state EXCEPT ![Min(WavePending)] = "Failed"] /\ UNCHANGED flights
        <3>1. state' = PartState(c, "Failed")
            BY <1>6, <2>3, StartsChild DEF PartState, IsDone
        <3>2. QED
            BY <1>0, <2>1, <2>3, <3>1 DEF Touches
    <2>4. QED
        BY <1>6, <2>2, <2>3 DEF StartPart
<1>7. CASE CancelPart /\ c = First(todo)
    <2>1. /\ UNCHANGED <<retries, phase, resumed, packet, doomed>>
          /\ todo' = todo \ {c}
        BY <1>7 DEF CancelPart
    <2>2. CASE /\ queue' = RemoveFirst(queue, c)
               /\ UNCHANGED <<state, agent, advancing>>
        <3>1. IsInjective(queue') /\ Range(queue') = Range(queue) \ {c}
            BY <2>2, RemoveFirstOnce DEF TypeOK
        <3>2. QED
            BY <2>1, <2>2, <3>1, PartStays DEF Touches
    <2>3. CASE StopAgent(c) /\ UNCHANGED queue
        BY <2>1, <2>3, StopAgentTouches DEF Touches
    <2>4. QED
        BY <1>7, <2>2, <2>3 DEF CancelPart
<1>8. CASE DrainHead /\ c = Head(sweep)
    <2>1. UNCHANGED <<retries, phase, resumed, todo, doomed>>
        BY <1>8 DEF DrainHead
    <2>2. CASE Release(c)
        BY <2>1, <2>2, ReleaseTouches DEF Touches
    <2>3. CASE queue' = RemoveFirst(queue, c) /\ UNCHANGED <<state, packet, agent>>
        <3>1. IsInjective(queue') /\ Range(queue') = Range(queue) \ {c}
            BY <2>3, RemoveFirstOnce DEF TypeOK
        <3>2. QED
            BY <2>1, <2>3, <3>1, PartStays DEF Touches
    <2>4. QED
        BY <1>8, <2>2, <2>3 DEF DrainHead
<1>9. CASE LosePart /\ c = First(todo)
    BY <1>0, <1>9 DEF LosePart, Touches, ChildDone
<1>10. CASE LatePart /\ c = First(todo)
    <2>1. IsInjective(queue') /\ Range(queue') = Range(queue) \ {c}
        BY <1>10, RemoveFirstOnce DEF LatePart, TypeOK
    <2>2. QED
        BY <1>0, <1>10, <2>1 DEF LatePart, Touches, ChildDone
<1>11. CASE StopDoomed /\ c = doomed
    BY <1>0, <1>11, StopAgentTouches DEF StopDoomed, Touches
<1>12. QED
    BY <1>1, <1>2, <1>3, <1>4, <1>5, <1>6, <1>7, <1>8, <1>9, <1>10, <1>11
    DEF ChildStep, ChildMessage

\* No part, child or agent changes, nor where the thread is.
Still == UNCHANGED <<state, retries, packet, agent, queue, doomed>>
Quiet == Still /\ UNCHANGED <<phase, todo, resumed>>

\* Pending parts are given up.
Skips ==
    /\ UNCHANGED <<retries, packet, agent, queue, doomed, phase, todo, resumed>>
    /\ state' \in [Parts -> TaskState]
    /\ \A p \in Parts : state'[p] # state[p] => state[p] = "Pending" /\ state'[p] = "Skipped"

\* What a step may be, for who works.
LEMMA StepKinds ==
    ASSUME TypeOK, [Next]_vars
    PROVE  \/ Quiet \/ Skips
           \/ Idle /\ CancelBegins /\ IsOpen
           \/ Tick \/ ResumeFanouts \/ TickEnds
           \/ \E late \in SUBSET ActiveChildren : FanoutTick(late)
           \/ AnswerRetry \/ CancelEnds
           \/ \E panesStay \in BOOLEAN : Restart(panesStay)
           \/ \E c \in Children : ChildStep(c)
<1> USE DEF barrier, flights, human, thread, bounds
<1>1. CASE Advance
    <2>1. CASE Wait \/ NextWave \/ FinishFanout \/ AskFailure
        BY <2>1 DEF Wait, NextWave, FinishFanout, AskFailure, Quiet, Still
    <2>2. CASE ContinueAfterFailure \/ StopFanout
        BY <2>2, SMTT(30) DEF ContinueAfterFailure, StopFanout, GoOn, GiveUpRest, SkipDependents,
                    DependsUpon, InState, Skips, TypeOK, TaskState
    <2>3. CASE StartPart
        BY <2>3, StartsChild DEF ChildStep
    <2>4. QED
        BY <1>1, <2>1, <2>2, <2>3 DEF Advance
<1>2. CASE HumanAnswer
    <2>1. CASE ClearPlan \/ AnswerPartial
        BY <2>1 DEF ClearPlan, AnswerPartial, Quiet, Still
    <2>2. CASE AnswerContinue \/ AnswerStop
        BY <2>2, ZenonT(40) DEF AnswerContinue, AnswerStop, GoOn, GiveUpRest, SkipDependents,
                    DependsUpon, InState, Skips, TypeOK, TaskState
    <2>3. CASE NotNow
        BY <2>3 DEF NotNow, Answer, IsOpen
    <2>4. QED
        BY <1>2, <2>1, <2>2, <2>3 DEF HumanAnswer
<1>3. CASE StartFanout \/ AskPlan \/ LandOwner \/ OthersChange \/ UNCHANGED vars
    BY <1>3 DEF StartFanout, AskPlan, LandOwner, OthersChange, vars, Quiet, Still
<1>4. CASE DeleteOwner
    BY <1>4 DEF DeleteOwner, Quiet, Still
<1>5. CASE CancelPart
    BY <1>5, FirstType DEF CancelPart, ChildStep, TypeOK
<1>6. CASE TickStep
    <2>1. CASE DrainHead
        <3>1. Head(sweep) \in Children
            BY <2>1, HeadTailProperties DEF DrainHead, TypeOK
        <3>2. QED
            BY <2>1, <3>1 DEF ChildStep
    <2>2. CASE LosePart \/ LatePart
        <3>1. First(todo) \in Children
            BY <2>2, FirstType DEF LosePart, LatePart, TypeOK
        <3>2. QED
            BY <2>2, <3>1 DEF ChildStep
    <2>3. CASE StopDoomed
        <3>1. doomed \in Children
            BY <2>3 DEF StopDoomed, TypeOK
        <3>2. QED
            BY <2>3, <3>1 DEF ChildStep
    <2>4. QED
        BY <1>6, <2>1, <2>2, <2>3 DEF TickStep
<1>7. ASSUME NEW c \in Children, ChildMessage(c)
      PROVE  ChildStep(c)
    BY <1>7 DEF ChildStep
<1>8. QED
    BY <1>1, <1>2, <1>3, <1>4, <1>5, <1>6, <1>7 DEF Next

-----------------------------------------------------------------------------
(* A fan-out that does not run has nobody at work. *)

\* Before it starts, all parts are pending; once closed, all are over.
Ends ==
    /\ status \in {"none", "Waiting"} => \A p \in Parts : state[p] = "Pending"
    /\ IsClosed /\ phase # "cancel" => \A p \in Parts : IsDone(state[p])

\* A child that was made never moves a part that is pending or over.
LEMMA MadeMoves ==
    ASSUME FanoutInv, NEW c \in Children, packet[c] # "none", NEW s \in TaskState,
           state' = PartState(c, s), NEW p \in Parts
    PROVE  /\ state[p] = "Pending" => state'[p] = "Pending"
           /\ IsDone(state[p]) => state'[p] = state[p]
<1>1. CASE IsPart(c) /\ ~IsDone(state[c[1]])
    <2>1. state[c[1]] \in {"Queued", "Running"}
        BY <1>1, ActivePart DEF FanoutInv
    <2>2. QED
        BY <1>1, <2>1 DEF FanoutInv, TypeOK, PartState, IsDone
<1>2. CASE ~(IsPart(c) /\ ~IsDone(state[c[1]]))
    BY <1>2 DEF PartState
<1>3. QED
    BY <1>1, <1>2

\* What a handler about a child knows of it: the child was made before, unless
\* it starts now.
LEMMA ChildStepMoves ==
    ASSUME FanoutInv, NEW c \in Children, ChildStep(c)
    PROVE  \/ StartPart
           \/ state' = state
           \/ packet[c] # "none" /\ \E s \in TaskState : state' = PartState(c, s)
<1> DEFINE moves == \E s \in TaskState : state' = PartState(c, s)
<1>0. "Failed" \in TaskState /\ "Returned" \in TaskState
    BY DEF TaskState
<1>1. StopAgent(c) => state' = state \/ (packet[c] # "none" /\ moves)
    BY <1>0 DEF StopAgent, ChildDone
<1>2. Release(c) => moves
    BY DEF Release, Held, Launched, LaunchFails, TaskState
<1>3. CASE ChildMessage(c)
    BY <1>0, <1>1, <1>2, <1>3 DEF ChildMessage, Return, AgentGone, GiveUpReminding,
                                  DeletePart, HandRelease, ChildDone
<1>4. CASE CancelPart /\ c = First(todo)
    BY <1>1, <1>4 DEF CancelPart
<1>5. CASE DrainHead /\ c = Head(sweep)
    BY <1>2, <1>5 DEF DrainHead
<1>6. CASE (LosePart \/ LatePart) /\ c = First(todo)
    <2>1. c \in todo
        BY <1>6, FirstType DEF LosePart, LatePart, FanoutInv, TypeOK
    <2>2. packet[c] # "none"
        BY <2>1 DEF FanoutInv, Made
    <2>3. QED
        BY <1>0, <1>6, <2>2 DEF LosePart, LatePart, ChildDone
<1>7. CASE StopDoomed /\ c = doomed
    BY <1>1, <1>7 DEF StopDoomed
<1>8. QED
    BY <1>3, <1>4, <1>5, <1>6, <1>7 DEF ChildStep

\* A handler about a child does not close or open the fan-out.
LEMMA ChildStepStatus ==
    ASSUME NEW c \in Children, ChildStep(c)
    PROVE  UNCHANGED <<status, wave, pending>>
BY DEF ChildStep, ChildMessage, Return, AgentGone, GiveUpReminding, DeletePart, HandRelease,
       StartPart, CancelPart, DrainHead, LosePart, LatePart, StopDoomed, human

\* The wave that finishes a fan-out is its last one, and over.
LEMMA FinishedIsOver ==
    ASSUME FanoutInv, FinishFanout
    PROVE  \A p \in Parts : IsDone(state'[p])
<1>1. ASSUME NEW p \in Parts
      PROVE  IsDone(state[p])
    <2>1. /\ wave >= NWaves /\ wave \in Int /\ WaveOf[p] \in Int /\ WaveOf[p] <= NWaves
          /\ state[p] \in TaskState /\ NWaves \in Int
        BY PlanAssumption DEF FinishFanout, FanoutInv, TypeOK, Waves
    <2>2. CASE WaveOf[p] < wave
        BY <2>2 DEF FanoutInv, Barrier
    <2>3. CASE WaveOf[p] = wave
        <3>1. p \notin WavePending \cup WaveActive \cup WaveFailed
            BY DEF FinishFanout, WaveOver
        <3>2. QED
            BY <2>1, <2>3, <3>1 DEF WavePending, WaveActive, WaveFailed, CurrentWave,
                                    TaskState, IsDone
    <2>4. QED
        BY <2>1, <2>2, <2>3
<1>2. QED
    BY <1>1 DEF FinishFanout

\* Every handler keeps it: a part leaves Pending only in a running fan-out, and a
\* fan-out is closed when its last wave is over or its cancel has gone round.
LEMMA EndsStep ==
    ASSUME FanoutInv, Ends, [Next]_vars
    PROVE  Ends'
<1> USE DEF barrier, flights, human, thread, bounds
<1>1. ASSUME NEW c \in Children, ChildStep(c)
      PROVE  Ends'
    <2>1. status' = status
        BY <1>1, ChildStepStatus
    <2>2. CASE StartPart
        BY <2>1, <2>2 DEF StartPart, Turn, Ends, IsClosed
    <2>3. CASE state' = state \/ (packet[c] # "none" /\ \E s \in TaskState : state' = PartState(c, s))
        <3>1. \A p \in Parts : /\ state[p] = "Pending" => state'[p] = "Pending"
                               /\ IsDone(state[p]) => state'[p] = state[p]
            BY <2>3, MadeMoves
        <3>2. phase' = phase
            BY <1>1 DEF ChildStep, ChildMessage, Return, AgentGone, GiveUpReminding,
                        DeletePart, HandRelease, StartPart, CancelPart, DrainHead,
                        LosePart, LatePart, StopDoomed
        <3>3. \A p \in Parts : /\ state[p] = "Pending" => state'[p] = "Pending"
                               /\ IsDone(state[p]) => IsDone(state'[p])
            BY <3>1
        <3>4. QED
            BY <2>1, <3>2, <3>3 DEF Ends, IsClosed
    <2>4. QED
        BY <1>1, <2>2, <2>3, ChildStepMoves
<1>2. CASE Advance
    <2>1. CASE FinishFanout
        BY <2>1, FinishedIsOver DEF FinishFanout, Ends
    <2>2. CASE Wait \/ NextWave \/ AskFailure \/ ContinueAfterFailure \/ StopFanout
        BY <2>2 DEF Wait, NextWave, AskFailure, ContinueAfterFailure, StopFanout, Turn,
                    WaveOver, WaveFailedOnly, Ends, IsClosed
    <2>3. CASE StartPart
        BY <2>3 DEF StartPart, Turn, Ends, IsClosed
    <2>4. QED
        BY <1>2, <2>1, <2>2, <2>3 DEF Advance
<1>3. CASE HumanAnswer
    <2>1. CASE ClearPlan \/ AnswerRetry \/ AnswerContinue \/ AnswerStop
        BY <2>1 DEF ClearPlan, AnswerRetry, AnswerContinue, AnswerStop, Ends, IsClosed
    <2>2. CASE NotNow
        BY <2>2 DEF NotNow, CancelBegins, Ends, IsClosed
    <2>3. CASE AnswerPartial
        BY <2>3 DEF AnswerPartial, Ends, IsClosed
    <2>4. QED
        BY <1>3, <2>1, <2>2, <2>3 DEF HumanAnswer
<1>4. CASE StartFanout \/ AskPlan \/ LandOwner \/ OthersChange \/ UNCHANGED vars
    BY <1>4 DEF StartFanout, AskPlan, LandOwner, OthersChange, vars, Ends, IsClosed
<1>5. CASE DeleteOwner
    BY <1>5 DEF DeleteOwner, CancelBegins, Ends, IsClosed
<1>6. CASE CancelPart
    BY <1>1, <1>6, FirstType DEF CancelPart, ChildStep, FanoutInv, TypeOK
<1>7. CASE CancelEnds
    <2>1. status = "Cancelled" /\ status' = status
        BY <1>7 DEF CancelEnds, Cancelling, FanoutInv, CancelCloses
    <2>2. \A p \in Parts : IsDone(state'[p])
        BY <1>7 DEF CancelEnds, IsDone
    <2>3. QED
        BY <2>1, <2>2 DEF Ends
<1>8. CASE Tick \/ ResumeFanouts \/ TickEnds \/ \E late \in SUBSET ActiveChildren : FanoutTick(late)
    BY <1>8 DEF Tick, ResumeFanouts, TickEnds, FanoutTick, Ends, IsClosed, Idle
<1>9. ASSUME NEW panesStay \in BOOLEAN, Restart(panesStay)
      PROVE  Ends'
    BY <1>9 DEF Restart, Ends, IsClosed
<1>10. CASE \E c \in Children : ChildStep(c)
    BY <1>1, <1>10
<1>11. CASE TickStep \/ \E c \in Children : ChildMessage(c)
    <2>1. DrainHead \/ LosePart \/ LatePart \/ StopDoomed => \E c \in Children : ChildStep(c)
        <3>1. DrainHead => Head(sweep) \in Children
            BY HeadTailProperties DEF DrainHead, FanoutInv, TypeOK
        <3>2. LosePart \/ LatePart => First(todo) \in Children
            BY FirstType DEF LosePart, LatePart, FanoutInv, TypeOK
        <3>3. StopDoomed => doomed \in Children
            BY DEF StopDoomed, FanoutInv, TypeOK
        <3>4. QED
            BY <3>1, <3>2, <3>3 DEF ChildStep
    <2>2. QED
        BY <1>8, <1>10, <1>11, <2>1 DEF TickStep, ChildStep
<1>12. QED
    BY <1>2, <1>3, <1>4, <1>5, <1>6, <1>7, <1>8, <1>9, <1>11 DEF Next

\* Only a running fan-out, or one in the middle of its cancel, has a part active.
LEMMA NobodyAtWork ==
    ASSUME FanoutInv, Ends, status # "Running", phase # "cancel", NEW p \in Parts
    PROVE  ~Active(p)
<1>1. CASE status = "Paused"
    <2>1. WaveActive = {}
        BY <1>1 DEF FanoutInv, PausedOnFailure
    <2>2. WaveOf[p] \in Int /\ wave \in Int
        BY PlanAssumption DEF FanoutInv, TypeOK, Waves
    <2>3. QED
        BY <2>1, <2>2 DEF FanoutInv, Barrier, WaveActive, CurrentWave, Active, IsDone
<1>2. CASE status # "Paused"
    BY <1>2 DEF Ends, IsClosed, Active, IsDone, FanoutInv, TypeOK, FanoutStatus
<1>3. QED
    BY <1>1, <1>2

-----------------------------------------------------------------------------
(* A queued part is in line and a running part has an agent. *)

\* What the present attempt at a part looks like while the part is active.
PartSound(p) ==
    /\ state[p] = "Running" => packet[ChildOf(p)] = "Accepted"
    /\ state[p] = "Running" /\ resumed =>
          agent[ChildOf(p)] = "live" \/ (phase = "lost" /\ ChildOf(p) \in todo)
    /\ state[p] = "Queued" => packet[ChildOf(p)] = "Draft"
    /\ state[p] = "Queued" /\ phase # "cancel" => ChildOf(p) \in Range(queue)

WorkInv == FanoutInv /\ Ends /\ IsInjective(queue) /\ \A p \in Parts : PartSound(p)

\* A handler about another child leaves the part's attempt as it is.
LEMMA OthersSound ==
    ASSUME TypeOK, NEW c \in Children, Touches(c), NEW p \in Parts, ChildOf(p) # c, PartSound(p)
    PROVE  PartSound(p)'
<1>1. ChildOf(p) \in Children /\ ChildOf(p)' = ChildOf(p)
    BY ChildOfType DEF Touches, ChildOf
<1>2. state'[p] = state[p]
    <2>1. PICK s \in TaskState : state' = PartState(c, s)
        BY DEF Touches
    <2>2. CASE IsPart(c)
        <3>1. c[1] # p
            BY <2>2 DEF IsPart, ChildOf, Children
        <3>2. QED
            BY <2>1, <3>1 DEF PartState, TypeOK
    <2>3. CASE ~IsPart(c)
        BY <2>1, <2>3 DEF PartState
    <2>4. QED
        BY <2>2, <2>3
<1>3. /\ packet'[ChildOf(p)] = packet[ChildOf(p)] /\ agent'[ChildOf(p)] = agent[ChildOf(p)]
      /\ ChildOf(p) \in Range(queue) => ChildOf(p) \in Range(queue')
      /\ ChildOf(p) \in todo => ChildOf(p) \in todo'
      /\ phase' = phase /\ resumed' = resumed
    BY <1>1 DEF Touches
<1>4. QED
    BY <1>1, <1>2, <1>3 DEF PartSound
\* A part that a handler leaves over needs nothing.
LEMMA OverSound ==
    ASSUME NEW c \in Children, IsPart(c), TypeOK,
           \/ ChildDone(c, "Failed") \/ ChildDone(c, "Returned")
           \/ StopAgent(c) /\ agent[c] = "live" /\ packet[c] = "Accepted"
    PROVE  PartSound(c[1])'
<1>1. c[1] \in Parts
    BY ChildType
<1>2. IsDone(state'[c[1]])
    BY <1>1 DEF ChildDone, StopAgent, PartState, IsDone, TypeOK
<1>3. QED
    BY <1>2 DEF PartSound, IsDone

\* release leaves its part in line with a draft, at work with an agent, or failed.
LEMMA ReleaseSound ==
    ASSUME NEW c \in Children, IsPart(c), TypeOK, IsInjective(queue), Release(c),
           UNCHANGED <<retries, phase, resumed, todo>>, ~IsDone(state[c[1]])
    PROVE  PartSound(c[1])'
<1>1. c[1] \in Parts /\ ChildOf(c[1])' = c
    BY ChildType DEF IsPart, ChildOf, Children
<1>2. CASE Held(c)
    <2>1. state'[c[1]] = "Queued" /\ packet'[c] = "Draft"
        BY <1>1, <1>2 DEF Held, PartState, TypeOK
    <2>2. c \in Range(queue')
        <3>1. c \notin Range(queue) => Range(Append(queue, c)) = Range(queue) \cup {c}
            BY AppendOnce DEF TypeOK
        <3>2. QED
            BY <1>2, <3>1 DEF Held
    <2>3. QED
        BY <1>1, <2>1, <2>2 DEF PartSound
<1>3. CASE Launched(c)
    BY <1>1, <1>3 DEF Launched, PartSound, PartState, TypeOK
<1>4. CASE LaunchFails(c)
    BY <1>1, <1>4 DEF LaunchFails, PartSound, PartState, TypeOK
<1>5. QED
    BY <1>2, <1>3, <1>4 DEF Release

\* A part that is over stays over, whatever a handler about its child does.
LEMMA DoneSound ==
    ASSUME NEW c \in Children, IsPart(c), TypeOK, Touches(c), IsDone(state[c[1]])
    PROVE  PartSound(c[1])'
<1>1. state'[c[1]] = state[c[1]]
    BY DEF Touches, PartState
<1>2. QED
    BY <1>1 DEF PartSound, IsDone

\* A handler about a child leaves the part it stands for sound.
LEMMA OwnSound ==
    ASSUME WorkInv, NEW c \in Children, IsPart(c), ChildStep(c)
    PROVE  PartSound(c[1])'
<1> USE DEF thread, bounds, flights
<1>0. /\ c[1] \in Parts /\ ChildOf(c[1]) = c
      /\ TypeOK /\ IsInjective(queue) /\ PartSound(c[1])
    BY ChildType DEF IsPart, ChildOf, Children, WorkInv, FanoutInv
<1>1. Touches(c)
    BY <1>0, ChildStepTouches
<1>2. ChildOf(c[1])' = c /\ UNCHANGED <<retries, phase, resumed>>
    BY <1>0, <1>1 DEF Touches, ChildOf
<1>3. CASE IsDone(state[c[1]])
    BY <1>0, <1>1, <1>3, DoneSound
<1>4. CASE Release(c) /\ ~IsDone(state[c[1]]) /\ UNCHANGED todo
    BY <1>0, <1>2, <1>4, ReleaseSound
<1>5. CASE StopAgent(c) /\ ~IsDone(state[c[1]]) /\ UNCHANGED <<packet, queue>>
           /\ (UNCHANGED todo \/ phase = "cancel")
    <2>1. CASE agent[c] = "live" /\ packet[c] = "Accepted"
        BY <1>0, <1>5, <2>1, OverSound
    <2>2. CASE ~(agent[c] = "live" /\ packet[c] = "Accepted")
        <3>1. state' = state /\ agent'[c] = "off"
            BY <1>0, <1>5, <2>2 DEF StopAgent, TypeOK
        <3>2. QED
            BY <1>0, <1>2, <1>5, <2>2, <3>1 DEF PartSound
    <2>3. QED
        BY <2>1, <2>2
<1>6. CASE ChildDone(c, "Failed") \/ ChildDone(c, "Returned")
    BY <1>0, <1>6, OverSound
<1>7. CASE ~IsDone(state[c[1]]) /\ ChildMessage(c)
    BY <1>4, <1>5, <1>6, <1>7 DEF ChildMessage, Return, AgentGone, GiveUpReminding,
                                  DeletePart, HandRelease
<1>8. CASE ~IsDone(state[c[1]]) /\ StartPart /\ c = ChildOf(Min(WavePending))
    <2>1. c[1] = Min(WavePending)
        BY <1>0, <1>8, StartsChild
    <2>2. CASE state' = [state EXCEPT ![Min(WavePending)] = "Failed"]
        BY <1>0, <2>1, <2>2 DEF PartSound, TypeOK
    <2>3. CASE Release(c)
        BY <1>4, <1>8, <2>3 DEF StartPart
    <2>4. QED
        BY <1>8, <2>2, <2>3 DEF StartPart
<1>9. CASE ~IsDone(state[c[1]]) /\ CancelPart /\ c = First(todo)
    <2>1. phase = "cancel"
        BY <1>9 DEF CancelPart, Cancelling
    <2>2. CASE state[c[1]] = "Queued" /\ UNCHANGED <<state, agent, packet>>
        BY <1>0, <1>2, <2>1, <2>2 DEF PartSound
    <2>3. CASE StopAgent(c) /\ UNCHANGED <<packet, queue>>
        BY <1>5, <1>9, <2>1, <2>3
    <2>4. QED
        BY <1>9, <2>2, <2>3 DEF CancelPart
<1>10. CASE ~IsDone(state[c[1]]) /\ DrainHead /\ c = Head(sweep)
    <2>1. CASE packet[c] = "Draft"
        BY <1>4, <1>10, <2>1 DEF DrainHead
    <2>2. CASE packet[c] # "Draft"
        <3>1. UNCHANGED <<state, packet, agent, todo>>
            BY <1>10, <2>2 DEF DrainHead
        <3>2. QED
            BY <1>0, <1>2, <2>2, <3>1 DEF PartSound
    <2>3. QED
        BY <2>1, <2>2
<1>11. CASE (LosePart \/ LatePart) /\ c = First(todo)
    BY <1>6, <1>11 DEF LosePart, LatePart
<1>12. CASE ~IsDone(state[c[1]]) /\ StopDoomed /\ c = doomed
    BY <1>5, <1>12 DEF StopDoomed
<1>13. QED
    BY <1>3, <1>7, <1>8, <1>9, <1>10, <1>11, <1>12 DEF ChildStep
\* The handlers that are not about one child keep every part's attempt sound.
LEMMA OtherStepSound ==
    ASSUME WorkInv, NEW p \in Parts,
           \/ Quiet \/ Skips
           \/ Idle /\ CancelBegins /\ IsOpen
           \/ Tick \/ ResumeFanouts \/ TickEnds
           \/ \E late \in SUBSET ActiveChildren : FanoutTick(late)
           \/ AnswerRetry \/ CancelEnds
           \/ \E panesStay \in BOOLEAN : Restart(panesStay)
    PROVE  PartSound(p)'
<1> USE DEF barrier, flights, human, bounds
<1>0. PartSound(p) /\ ChildOf(p) \in Children /\ TypeOK
    BY ChildOfType DEF WorkInv, FanoutInv
<1>1. CASE Quiet \/ Skips
    <2>1. state[p] \in {"Queued", "Running"} \/ state'[p] \in {"Queued", "Running"}
              => state'[p] = state[p]
        BY <1>1 DEF Quiet, Still, Skips
    <2>2. UNCHANGED <<retries, packet, agent, queue, phase, todo, resumed>>
        BY <1>1 DEF Quiet, Still, Skips
    <2>3. QED
        BY <1>0, <2>1, <2>2 DEF PartSound, ChildOf
<1>2. CASE (Idle /\ CancelBegins) \/ Tick \/ TickEnds
    BY <1>0, <1>2 DEF Idle, CancelBegins, Tick, TickEnds, PartSound, ChildOf
<1>3. CASE ResumeFanouts
    <2>1. /\ UNCHANGED <<state, retries, packet, agent, queue>>
          /\ phase = "drain" /\ phase' = "lost" /\ resumed'
        BY <1>3 DEF ResumeFanouts
    <2>2. state[p] = "Running" => status = "Running"
        BY <2>1, NobodyAtWork DEF WorkInv, Active, IsDone
    <2>3. state[p] = "Running" => agent[ChildOf(p)] = "live" \/ ChildOf(p) \in todo'
        BY <1>0, <1>3, <2>1, <2>2 DEF ResumeFanouts, PartSound, InState
    <2>4. QED
        BY <1>0, <2>1, <2>3 DEF PartSound, ChildOf
<1>4. ASSUME NEW late \in SUBSET ActiveChildren, FanoutTick(late)
      PROVE  PartSound(p)'
    BY <1>0, <1>4 DEF FanoutTick, PartSound, ChildOf
<1>5. CASE AnswerRetry
    <2>1. UNCHANGED <<packet, agent, queue, phase, todo, resumed>>
        BY <1>5 DEF AnswerRetry, thread
    <2>2. state'[p] \in {"Queued", "Running"} =>
             state'[p] = state[p] /\ p \notin RetryableParts
        BY <1>5 DEF AnswerRetry
    <2>3. p \notin RetryableParts => retries'[p] = retries[p]
        BY <1>5 DEF AnswerRetry, TriedAgain
    <2>4. QED
        BY <1>0, <2>1, <2>2, <2>3 DEF PartSound, ChildOf
<1>6. CASE CancelEnds
    BY <1>6 DEF CancelEnds, PartSound, IsDone
<1>7. ASSUME NEW panesStay \in BOOLEAN, Restart(panesStay)
      PROVE  PartSound(p)'
    BY <1>0, <1>7 DEF Restart, PartSound, ChildOf
<1>8. QED
    BY <1>1, <1>2, <1>3, <1>4, <1>5, <1>6, <1>7

\* No handler puts a child in line twice.
LEMMA LineStep ==
    ASSUME TypeOK, IsInjective(queue), [Next]_vars
    PROVE  IsInjective(queue')
<1> USE DEF flights
<1>1. ASSUME NEW c \in Children, ChildStep(c)
      PROVE  IsInjective(queue')
    BY <1>1, ChildStepTouches DEF Touches
<1>2. QED
    BY <1>1, StepKinds DEF Quiet, Still, Skips, CancelBegins, Tick, ResumeFanouts, TickEnds,
                           FanoutTick, AnswerRetry, CancelEnds, Restart

\* Every handler keeps the parts at work sound.
LEMMA WorkStep ==
    ASSUME WorkInv, [Next]_vars
    PROVE  WorkInv'
<1>1. FanoutInv' /\ Ends' /\ IsInjective(queue')
    BY InvStep, EndsStep, LineStep DEF WorkInv, FanoutInv
<1>2. ASSUME NEW p \in Parts
      PROVE  PartSound(p)'
    <2>1. ASSUME NEW c \in Children, ChildStep(c)
          PROVE  PartSound(p)'
        <3>1. Touches(c)
            BY <2>1, ChildStepTouches DEF WorkInv, FanoutInv
        <3>2. CASE ChildOf(p) = c
            <4>1. IsPart(c) /\ c[1] = p
                BY <3>2 DEF ChildOf, IsPart
            <4>2. QED
                BY <2>1, <4>1, OwnSound
        <3>3. CASE ChildOf(p) # c
            BY <3>1, <3>3, OthersSound DEF WorkInv, FanoutInv
        <3>4. QED
            BY <3>2, <3>3
    <2>2. QED
        BY <2>1, StepKinds, OtherStepSound DEF WorkInv, FanoutInv
<1>3. QED
    BY <1>1, <1>2 DEF WorkInv

\* A flight without a fan-out has nobody at work.
LEMMA WorkInit ==
    ASSUME Init
    PROVE  WorkInv
<1>1. IsInjective(queue)
    BY DEF Init, IsInjective
<1>2. Ends /\ \A p \in Parts : PartSound(p)
    BY DEF Init, Ends, IsClosed, PartSound
<1>3. QED
    BY <1>1, <1>2, InitHolds DEF WorkInv

\* In every state the engine reaches, every part at work is sound.
THEOREM WorkInvTheorem == Spec => []WorkInv
<1>1. Init => WorkInv
    BY WorkInit
<1>2. WorkInv /\ [Next]_vars => WorkInv'
    BY WorkStep
<1>3. QED
    BY <1>1, <1>2, PTL DEF Spec

\* A queued part is in line, once, with a packet that can still be released, for
\* every plan and every limit: no message, time limit, retry, deleted child or
\* restart loses its place or its draft (queue_local, drain_local_queue).
THEOREM QueueSoundTheorem == Spec => []QueueSound
<1>1. WorkInv => QueueSound
    BY DEF WorkInv, QueueSound, PartSound, InState
<1>2. QED
    BY <1>1, WorkInvTheorem, PTL

\* From the first tick after a start on, a running part has a live agent that can
\* still return: what mark_offline did not do for an agent that a restart took
\* offline, resume_fanouts makes good before anything else reads the part.
THEOREM RunningHasAgentTheorem == Spec => []RunningHasAgent
<1>1. WorkInv => RunningHasAgent
    BY DEF WorkInv, RunningHasAgent, PartSound, InState
<1>2. QED
    BY <1>1, WorkInvTheorem, PTL
-----------------------------------------------------------------------------
(* A fan-out that waits has its question. *)

\* The question is recorded.
Asked ==
    /\ status = "Waiting" => "start" \in pending
    /\ status = "Paused" => "failed" \in pending

\* Every handler keeps the question until its answer opens or closes the fan-out.
LEMMA AskedStep ==
    ASSUME FanoutInv, Asked, [Next]_vars
    PROVE  Asked'
<1> USE DEF barrier, human
<1>1. ASSUME UNCHANGED <<status, pending>>
      PROVE  Asked'
    BY <1>1 DEF Asked
<1>2. CASE StartFanout \/ AskPlan
    BY <1>2 DEF StartFanout, AskPlan, Asked
<1>3. CASE Advance
    <2>1. CASE FinishFanout \/ AskFailure
        BY <2>1 DEF FinishFanout, AskFailure, Asked
    <2>2. CASE StartPart \/ Wait \/ NextWave \/ ContinueAfterFailure \/ StopFanout
        BY <1>1, <2>2 DEF StartPart, Wait, NextWave, ContinueAfterFailure, StopFanout
    <2>3. QED
        BY <1>3, <2>1, <2>2 DEF Advance
<1>4. CASE HumanAnswer
    BY <1>4 DEF HumanAnswer, ClearPlan, NotNow, CancelBegins, AnswerRetry, AnswerContinue,
                AnswerStop, AnswerPartial, Asked
<1>5. CASE DeleteOwner
    BY <1>5 DEF DeleteOwner, CancelBegins, Asked
<1>6. CASE CancelPart \/ LandOwner \/ OthersChange \/ Tick \/ UNCHANGED vars
    BY <1>1, <1>6 DEF CancelPart, LandOwner, OthersChange, Tick, vars
<1>7. CASE CancelEnds
    <2>1. status' = "Cancelled"
        BY <1>7 DEF CancelEnds, Cancelling, FanoutInv, CancelCloses
    <2>2. QED
        BY <2>1 DEF Asked
<1>8. ASSUME NEW c \in Children, ChildMessage(c)
      PROVE  Asked'
    BY <1>1, <1>8 DEF ChildMessage, Return, AgentGone, GiveUpReminding, DeletePart, HandRelease
<1>9. CASE TickStep
    BY <1>1, <1>9 DEF TickStep, DrainHead, ResumeFanouts, LosePart, LatePart, StopDoomed,
                      TickEnds, FanoutTick
<1>10. ASSUME NEW panesStay \in BOOLEAN, Restart(panesStay)
       PROVE  Asked'
    BY <1>1, <1>10 DEF Restart
<1>11. QED
    BY <1>2, <1>3, <1>4, <1>5, <1>6, <1>7, <1>8, <1>9, <1>10 DEF Next

\* A fan-out that waits for the human has its question recorded and something the
\* answer can act on: a plan nobody started, or a wave that is over with failed
\* parts and nobody at work (start_fanout, ask_fanout_failure).
THEOREM WaitsForAnAnswerTheorem == Spec => []WaitsForAnAnswer
<1>1. Init => Asked
    BY DEF Init, Asked
<1>2. FanoutInv /\ Asked /\ [Next]_vars => Asked'
    BY AskedStep
<1>3. WorkInv /\ Asked => WaitsForAnAnswer
    <2>1. SUFFICES ASSUME WorkInv, Asked
                   PROVE  WaitsForAnAnswer
        OBVIOUS
    <2>2. ASSUME status = "Waiting"
          PROVE  "start" \in pending /\ InState("Pending") = Parts
        BY <2>1, <2>2 DEF Asked, WorkInv, Ends, InState
    <2>3. ASSUME status = "Paused"
          PROVE  /\ "failed" \in pending
                 /\ WaveFailed # {} /\ InState("Queued") = {} /\ InState("Running") = {}
        <3>1. phase # "cancel" /\ WaveFailed # {}
            BY <2>1, <2>3 DEF WorkInv, FanoutInv, CancelCloses, PausedOnFailure
        <3>2. \A p \in Parts : ~Active(p)
            BY <2>1, <2>3, <3>1, NobodyAtWork DEF WorkInv
        <3>3. QED
            BY <2>1, <2>3, <3>1, <3>2 DEF Asked, Active, InState
    <2>4. QED
        BY <2>2, <2>3 DEF WaitsForAnAnswer
<1>4. WorkInv => FanoutInv
    BY DEF WorkInv
<1>5. QED
    BY <1>1, <1>2, <1>3, <1>4, WorkInvTheorem, PTL DEF Spec
-----------------------------------------------------------------------------
(* Slots and the role are not overdrawn. *)

\* The agents that count against the role (role_load).
AtWork == {c \in Children : agent[c] = "live" /\ packet[c] # "Returned"}

\* The sets that are counted are finite.
LEMMA Countable ==
    /\ IsFiniteSet(Parts) /\ IsFiniteSet(Children)
    /\ \A S \in SUBSET Parts : IsFiniteSet(S) /\ Cardinality(S) \in Nat
    /\ \A S \in SUBSET Children : IsFiniteSet(S) /\ Cardinality(S) \in Nat
<1>1. IsFiniteSet(1..NParts) /\ IsFiniteSet(0..MaxRetries)
    BY FS_Interval, PlanAssumption, LimitsAssumption
<1>2. IsFiniteSet(Parts) /\ IsFiniteSet(Children)
    BY <1>1, FS_Product DEF Children, Parts
<1>3. QED
    BY <1>2, FS_Subset, FS_CardinalityType

\* A count goes up by one at most when one member is added.
LEMMA OneMore ==
    ASSUME NEW S, NEW T, NEW x, IsFiniteSet(S), T \subseteq S \cup {x}
    PROVE  Cardinality(T) <= Cardinality(S) + 1
<1>1. IsFiniteSet(S \cup {x}) /\ Cardinality(S) \in Nat
    BY FS_AddElement, FS_CardinalityType
<1>2. Cardinality(S \cup {x}) \in Nat /\ Cardinality(S \cup {x}) <= Cardinality(S) + 1
    BY <1>1, FS_AddElement
<1>3. IsFiniteSet(T) /\ Cardinality(T) <= Cardinality(S \cup {x})
    BY <1>1, FS_Subset
<1>4. Cardinality(T) \in Nat
    BY <1>3, FS_CardinalityType
<1>5. QED
    BY <1>1, <1>2, <1>3, <1>4

\* The child takes no place of the role, and no part a slot.
TakesNothing(c) ==
    /\ c \in AtWork' => c \in AtWork
    /\ \A p \in Parts : state'[p] = "Running" => state[p] = "Running"

\* Only a launch takes a slot or a place of the role.
LEMMA OnlyLaunchesGrow ==
    ASSUME FanoutInv, NEW c \in Children, ChildStep(c)
    PROVE  Launched(c) \/ TakesNothing(c)
<1> USE DEF thread, bounds, flights
<1>0. TypeOK
    BY DEF FanoutInv
<1>1. ASSUME Release(c), packet[c] # "Returned"
      PROVE  Launched(c) \/ TakesNothing(c)
    BY <1>0, <1>1 DEF Release, Held, LaunchFails, PartState, TypeOK, AtWork, TakesNothing
<1>2. ASSUME ChildDone(c, "Failed") \/ ChildDone(c, "Returned"), agent'[c] = agent[c] \/ agent'[c] = "none",
             packet'[c] = packet[c] \/ packet'[c] = "Returned" \/ agent'[c] = "none"
      PROVE  TakesNothing(c)
    BY <1>0, <1>2 DEF ChildDone, PartState, TypeOK, AtWork, TakesNothing
<1>3. ASSUME StopAgent(c)
      PROVE  TakesNothing(c)
    BY <1>0, <1>3 DEF StopAgent, ChildDone, PartState, TypeOK, AtWork, TakesNothing
<1>4. ASSUME UNCHANGED <<state, packet, agent>>
      PROVE  TakesNothing(c)
    BY <1>4 DEF AtWork, TakesNothing
<1>5. CASE Return(c) \/ GiveUpReminding(c) \/ DeletePart(c)
    BY <1>0, <1>2, <1>5 DEF Return, GiveUpReminding, DeletePart, TypeOK
<1>6. CASE AgentGone(c) \/ (StopDoomed /\ c = doomed)
    BY <1>3, <1>6 DEF AgentGone, StopDoomed
<1>7. CASE HandRelease(c)
    BY <1>1, <1>7 DEF HandRelease
<1>8. CASE StartPart /\ c = ChildOf(Min(WavePending))
    <2>1. packet[c] = "none"
        <3>1. Min(WavePending) \in Parts /\ state[Min(WavePending)] = "Pending"
            BY <1>0, <1>8, StartsChild
        <3>2. QED
            BY <1>8, <3>1 DEF FanoutInv, Made
    <2>2. CASE Release(c)
        BY <1>1, <2>1, <2>2
    <2>3. CASE state' = [state EXCEPT ![Min(WavePending)] = "Failed"] /\ UNCHANGED flights
        BY <1>0, <2>3 DEF TypeOK, AtWork, TakesNothing
    <2>4. QED
        BY <1>8, <2>2, <2>3 DEF StartPart
<1>9. CASE CancelPart /\ c = First(todo)
    BY <1>3, <1>4, <1>9 DEF CancelPart
<1>10. CASE DrainHead /\ c = Head(sweep)
    BY <1>1, <1>4, <1>10 DEF DrainHead
<1>11. CASE (LosePart \/ LatePart) /\ c = First(todo)
    BY <1>2, <1>11 DEF LosePart, LatePart
<1>12. QED
    BY <1>5, <1>6, <1>7, <1>8, <1>9, <1>10, <1>11 DEF ChildStep, ChildMessage

\* A handler about a child does not pass the limits.
LEMMA ChildStepCapacity ==
    ASSUME FanoutInv, IsInjective(queue), Capacity, NEW c \in Children, ChildStep(c)
    PROVE  Capacity'
<1>1. /\ others' = others /\ Touches(c) /\ TypeOK /\ c[1] \in Parts
      /\ others \in Nat /\ RoleCap \in Nat /\ MaxAgents \in Nat
    <2>1. others' = others
        BY DEF ChildStep, ChildMessage, Return, AgentGone, GiveUpReminding, DeletePart,
               HandRelease, StartPart, CancelPart, DrainHead, LosePart, LatePart, StopDoomed
    <2>2. QED
        BY <2>1, ChildStepTouches, ChildType, LimitsAssumption DEF FanoutInv, TypeOK
<1>2. AtWork' \subseteq AtWork \cup {c}
    BY <1>1 DEF Touches, AtWork
<1>3. InState("Running")' \subseteq (InState("Running") \ {c[1]}) \cup {c[1]}
    BY <1>1 DEF Touches, InState, PartState, TypeOK
<1>4. /\ InState("Running") \in SUBSET Parts /\ InState("Running")' \in SUBSET Parts
      /\ AtWork \in SUBSET Children /\ AtWork' \in SUBSET Children
    BY DEF InState, AtWork
<1>5. /\ RoleLoad = others + Cardinality(AtWork)
      /\ RoleLoad' = others' + Cardinality(AtWork')
    BY DEF RoleLoad, AtWork
<1>6. CASE Launched(c)
    <2>1. Cardinality(AtWork') <= Cardinality(AtWork) + 1
        BY <1>2, <1>4, Countable, OneMore
    <2>2. RoleLoad' <= RoleCap
        BY <1>1, <1>4, <1>5, <1>6, <2>1, Countable DEF Launched
    <2>3. CASE IsPart(c)
        <3>1. ~(Cardinality(InState("Running") \ {c[1]}) >= MaxAgents)
            BY <1>6, <2>3 DEF Launched, MustWait
        <3>2. Cardinality(InState("Running")') <= Cardinality(InState("Running") \ {c[1]}) + 1
            <4>1. IsFiniteSet(InState("Running") \ {c[1]})
                BY <1>4, Countable
            <4>2. QED
                BY <1>3, <4>1, OneMore
        <3>3. /\ Cardinality(InState("Running")') \in Nat
              /\ Cardinality(InState("Running") \ {c[1]}) \in Nat
            BY <1>4, Countable
        <3>4. Cardinality(InState("Running")') <= MaxAgents
            BY <1>1, <3>1, <3>2, <3>3
        <3>5. QED
            BY <2>2, <3>4 DEF Capacity
    <2>4. CASE ~IsPart(c)
        <3>1. state' = state
            BY <1>6, <2>4 DEF Launched, PartState
        <3>2. QED
            BY <2>2, <3>1 DEF Capacity, InState
    <2>5. QED
        BY <2>3, <2>4
<1>7. CASE TakesNothing(c)
    <2>1. AtWork' \subseteq AtWork /\ InState("Running")' \subseteq InState("Running")
        BY <1>2, <1>7 DEF InState, TakesNothing
    <2>2. Cardinality(AtWork') <= Cardinality(AtWork)
        BY <1>4, <2>1, Countable, FS_Subset
    <2>3. Cardinality(InState("Running")') <= Cardinality(InState("Running"))
        BY <1>4, <2>1, Countable, FS_Subset
    <2>4. QED
        BY <1>1, <1>4, <1>5, <2>2, <2>3, Countable DEF Capacity
<1>8. QED
    BY <1>6, <1>7, OnlyLaunchesGrow
\* No other handler starts an agent or a part; other flights of the role start an
\* agent only while it has room.
LEMMA OtherStepCapacity ==
    ASSUME TypeOK, Capacity,
           \/ OthersChange
           \/ /\ others' \in 0..others /\ AtWork' \subseteq AtWork
              /\ \A p \in Parts : state'[p] = "Running" => state[p] = "Running"
    PROVE  Capacity'
<1>1. /\ others \in Nat /\ RoleCap \in Nat /\ MaxAgents \in Nat
      /\ InState("Running") \in SUBSET Parts /\ AtWork \in SUBSET Children
    BY LimitsAssumption DEF TypeOK, InState, AtWork
<1>2. /\ RoleLoad = others + Cardinality(AtWork)
      /\ RoleLoad' = others' + Cardinality(AtWork')
    BY DEF RoleLoad, AtWork
<1>3. CASE OthersChange
    <2>1. UNCHANGED <<state, agent, packet>>
        BY <1>3 DEF OthersChange, barrier, flights
    <2>2. AtWork' = AtWork /\ InState("Running")' = InState("Running")
        BY <2>1 DEF AtWork, InState
    <2>3. \/ RoleLoad < RoleCap /\ others' = others + 1
          \/ others' = others - 1
        BY <1>3 DEF OthersChange
    <2>4. Cardinality(AtWork) \in Nat
        BY <1>1, Countable
    <2>5. RoleLoad' <= RoleCap
        BY <1>1, <1>2, <2>2, <2>3, <2>4 DEF Capacity
    <2>6. QED
        BY <2>2, <2>5 DEF Capacity
<1>4. CASE /\ others' \in 0..others /\ AtWork' \subseteq AtWork
           /\ \A p \in Parts : state'[p] = "Running" => state[p] = "Running"
    <2>1. InState("Running")' \subseteq InState("Running")
        BY <1>4 DEF InState
    <2>2. /\ Cardinality(AtWork') <= Cardinality(AtWork)
          /\ Cardinality(InState("Running")') <= Cardinality(InState("Running"))
        BY <1>1, <1>4, <2>1, Countable, FS_Subset
    <2>3. /\ Cardinality(AtWork') \in Nat /\ Cardinality(AtWork) \in Nat
          /\ Cardinality(InState("Running")') \in Nat /\ Cardinality(InState("Running")) \in Nat
        BY <1>1, <1>4, <2>1, Countable
    <2>4. QED
        BY <1>1, <1>2, <1>4, <2>2, <2>3 DEF Capacity
<1>5. QED
    BY <1>3, <1>4

\* Every handler keeps within the limits.
LEMMA CapacityStep ==
    ASSUME FanoutInv, IsInjective(queue), Capacity, [Next]_vars
    PROVE  Capacity'
<1> USE DEF barrier, flights
<1>0. TypeOK /\ \A n \in Nat : n \in 0..n
    BY DEF FanoutInv
<1>1. ASSUME NEW c \in Children, ChildStep(c)
      PROVE  Capacity'
    BY <1>1, ChildStepCapacity
<1>2. ASSUME UNCHANGED <<others, packet, agent>>,
             \A p \in Parts : state'[p] = "Running" => state[p] = "Running"
      PROVE  Capacity'
    <2>1. AtWork' = AtWork /\ others' \in 0..others
        BY <1>0, <1>2 DEF AtWork, TypeOK
    <2>2. QED
        BY <1>0, <1>2, <2>1, OtherStepCapacity
<1>3. CASE Advance
    <2>1. CASE StartPart
        BY <1>0, <1>1, <2>1, StartsChild DEF ChildStep
    <2>2. CASE Wait \/ NextWave \/ FinishFanout \/ AskFailure
        BY <1>2, <2>2 DEF Wait, NextWave, FinishFanout, AskFailure
    <2>3. CASE ContinueAfterFailure \/ StopFanout
        <3>1. \A p \in Parts : state'[p] = "Running" => state[p] = "Running"
            BY <2>3 DEF ContinueAfterFailure, StopFanout, GoOn, GiveUpRest, SkipDependents
        <3>2. QED
            BY <1>2, <2>3, <3>1 DEF ContinueAfterFailure, StopFanout
    <2>4. QED
        BY <1>3, <2>1, <2>2, <2>3 DEF Advance
<1>4. CASE HumanAnswer
    <2>1. \A p \in Parts : state'[p] = "Running" => state[p] = "Running"
        BY <1>4 DEF HumanAnswer, ClearPlan, NotNow, CancelBegins, AnswerRetry,
                    AnswerContinue, AnswerStop, AnswerPartial, GoOn, GiveUpRest, SkipDependents
    <2>2. UNCHANGED <<others, packet, agent>>
        BY <1>4 DEF HumanAnswer, ClearPlan, NotNow, CancelBegins, AnswerRetry,
                    AnswerContinue, AnswerStop, AnswerPartial
    <2>3. QED
        BY <1>2, <2>1, <2>2
<1>5. CASE StartFanout \/ AskPlan \/ DeleteOwner \/ LandOwner \/ Tick \/ UNCHANGED vars
    BY <1>2, <1>5 DEF StartFanout, AskPlan, DeleteOwner, CancelBegins, LandOwner, Tick, vars
<1>6. CASE CancelEnds
    <2>1. \A p \in Parts : state'[p] = "Running" => state[p] = "Running"
        BY <1>6 DEF CancelEnds
    <2>2. QED
        BY <1>2, <1>6, <2>1 DEF CancelEnds
<1>7. CASE OthersChange
    BY <1>0, <1>7, OtherStepCapacity
<1>8. ASSUME NEW panesStay \in BOOLEAN, Restart(panesStay)
      PROVE  Capacity'
    <2>1. AtWork' \subseteq AtWork /\ state' = state
        BY <1>8 DEF Restart, AtWork
    <2>2. others' \in 0..others
        BY <1>0, <1>8 DEF Restart, TypeOK
    <2>3. QED
        BY <1>0, <2>1, <2>2, OtherStepCapacity
<1>9. CASE ResumeFanouts \/ TickEnds \/ \E late \in SUBSET ActiveChildren : FanoutTick(late)
    BY <1>2, <1>9 DEF ResumeFanouts, TickEnds, FanoutTick
<1>10. CASE CancelPart \/ DrainHead \/ LosePart \/ LatePart \/ StopDoomed
           \/ \E c \in Children : ChildMessage(c)
    <2>1. \E c \in Children : ChildStep(c)
        <3>1. /\ CancelPart \/ LosePart \/ LatePart => First(todo) \in Children
              /\ DrainHead => Head(sweep) \in Children
              /\ StopDoomed => doomed \in Children
            BY <1>0, FirstType, HeadTailProperties
            DEF CancelPart, LosePart, LatePart, DrainHead, StopDoomed, TypeOK
        <3>2. QED
            BY <1>10, <3>1 DEF ChildStep
    <2>2. QED
        BY <1>1, <2>1
<1>11. QED
    BY <1>3, <1>4, <1>5, <1>6, <1>7, <1>8, <1>9, <1>10 DEF Next, TickStep

\* Never more parts at once than the fan-out's slots, nor more agents than the
\* role's max_concurrency, for every plan and every limit (fanout_wait, launch).
THEOREM CapacityTheorem == Spec => []Capacity
<1>1. Init => Capacity
    <2>1. SUFFICES ASSUME Init PROVE Capacity
        OBVIOUS
    <2>2. InState("Running") = {} /\ AtWork = {} /\ others \in 0..RoleCap
        BY <2>1 DEF Init, InState, AtWork
    <2>3. Cardinality(InState("Running")) = 0 /\ RoleLoad = others + 0
        BY <2>2, FS_EmptySet DEF RoleLoad, AtWork
    <2>4. QED
        BY <2>2, <2>3, LimitsAssumption DEF Capacity
<1>2. WorkInv /\ Capacity /\ [Next]_vars => Capacity'
    BY CapacityStep DEF WorkInv
<1>3. QED
    BY <1>1, <1>2, WorkInvTheorem, PTL DEF Spec
-----------------------------------------------------------------------------
(* Where no human releases a draft by hand.                                *)

\* What holds of a child that is in line, at work or collected by a loop.
Belongs(d) ==
    /\ d \in Range(queue) =>
          IsPart(d) /\ state[d[1]] = "Queued" /\ (phase = "cancel" => d \in todo)
    /\ agent[d] = "live" => packet[d] \in {"Accepted", "Returned"}
    /\ agent[d] = "live" /\ packet[d] = "Accepted" =>
          (IsPart(d) /\ state[d[1]] = "Running") \/ doomed = d
    /\ doomed = d => IsPart(d)
    /\ phase \in {"lost", "late", "cancel"} /\ d \in todo => IsPart(d)
    /\ phase = "lost" /\ d \in todo => agent[d] # "live" /\ d \notin Range(queue)
    /\ phase = "cancel" /\ IsPart(d) /\ state[d[1]] = "Running" =>
          d \in todo \/ agent[d] # "live"

\* drain_local_queue's copy has nothing that left the line since.
Drained == phase = "drain" => IsInjective(sweep) /\ Range(sweep) \subseteq Range(queue)

WorkersInv == WorkInv /\ Drained /\ \A d \in Children : Belongs(d)

\* A handler about another child changes nothing for this one.
LEMMA OthersBelong ==
    ASSUME TypeOK, NEW c \in Children, Touches(c), NEW d \in Children \ {c}, Belongs(d)
    PROVE  Belongs(d)'
<1>1. /\ UNCHANGED <<retries, phase>> /\ IsPart(d)' = IsPart(d)
      /\ packet'[d] = packet[d] /\ agent'[d] = agent[d]
      /\ (d \in Range(queue')) = (d \in Range(queue))
      /\ (d \in todo') = (d \in todo)
      /\ (doomed' = d) = (doomed = d)
    BY DEF Touches, IsPart
<1>2. IsPart(d) => state'[d[1]] = state[d[1]]
    <2>1. PICK s \in TaskState : state' = PartState(c, s)
        BY DEF Touches
    <2>2. IsPart(d) /\ IsPart(c) => c[1] # d[1]
        BY DEF IsPart, Children
    <2>3. QED
        BY <2>1, <2>2, ChildType DEF PartState, TypeOK
<1>3. QED
    BY <1>1, <1>2 DEF Belongs

\* A child in line has a draft and no agent.
LEMMA InLineHasDraft ==
    ASSUME WorkersInv, NEW c \in Children, c \in Range(queue)
    PROVE  /\ IsPart(c) /\ state[c[1]] = "Queued"
           /\ packet[c] = "Draft" /\ agent[c] # "live"
<1>1. IsPart(c) /\ state[c[1]] = "Queued"
    BY DEF WorkersInv, Belongs
<1>2. c[1] \in Parts /\ ChildOf(c[1]) = c
    BY <1>1, ChildType DEF IsPart, ChildOf, Children
<1>3. packet[c] = "Draft"
    BY <1>1, <1>2 DEF WorkersInv, WorkInv, PartSound
<1>4. QED
    BY <1>1, <1>3 DEF WorkersInv, Belongs

\* release leaves a child that was in line, or is new, where it belongs.
LEMMA ReleaseBelongs ==
    ASSUME TypeOK, IsInjective(queue), NEW c \in Children, IsPart(c), Release(c),
           ~IsDone(state[c[1]]), agent[c] # "live", phase # "cancel",
           phase = "lost" => c \notin todo,
           UNCHANGED <<retries, phase, todo, doomed>>
    PROVE  Belongs(c)'
<1>1. c[1] \in Parts /\ IsPart(c)'
    BY ChildType DEF IsPart
<1>2. CASE Held(c)
    <2>1. state'[c[1]] = "Queued" /\ agent'[c] # "live"
        BY <1>1, <1>2 DEF Held, PartState, TypeOK
    <2>2. QED
        BY <1>1, <2>1 DEF Belongs
<1>3. c \notin Range(RemoveFirst(queue, c))
    BY RemoveFirstOnce DEF TypeOK
<1>4. CASE Launched(c)
    <2>1. /\ c \notin Range(queue') /\ packet'[c] = "Accepted"
          /\ state'[c[1]] = "Running"
        BY <1>1, <1>3, <1>4 DEF Launched, PartState, TypeOK
    <2>2. QED
        BY <1>1, <2>1 DEF Belongs
<1>5. CASE LaunchFails(c)
    <2>1. /\ c \notin Range(queue') /\ agent'[c] # "live"
          /\ state'[c[1]] = "Failed"
        BY <1>1, <1>3, <1>5 DEF LaunchFails, PartState, TypeOK
    <2>2. QED
        BY <1>1, <2>1 DEF Belongs
<1>6. QED
    BY <1>2, <1>4, <1>5 DEF Release
\* A handler about a child leaves it where it belongs.
LEMMA OwnBelongs ==
    ASSUME MaxHandReleases = 0, WorkersInv, NEW c \in Children, ChildStep(c)
    PROVE  Belongs(c)'
<1> USE DEF thread, bounds, flights
<1>0. /\ c[1] \in Parts /\ c # NoChild /\ TypeOK /\ IsInjective(queue) /\ Belongs(c)
      /\ IsPart(c)' = IsPart(c) /\ retries' = retries /\ phase' = phase
    <2>1. TypeOK /\ IsInjective(queue) /\ Belongs(c)
        BY DEF WorkersInv, WorkInv, FanoutInv
    <2>2. UNCHANGED <<retries, phase>>
        BY <2>1, ChildStepTouches DEF Touches
    <2>3. QED
        BY <2>1, <2>2, ChildType DEF IsPart
<1>1. c \in Range(queue) =>
         IsPart(c) /\ state[c[1]] = "Queued" /\ packet[c] = "Draft" /\ agent[c] # "live"
    BY InLineHasDraft
<1>2. Range(RemoveFirst(queue, c)) = Range(queue) \ {c}
    BY <1>0, RemoveFirstOnce DEF TypeOK
<1>3. CASE Return(c)
    <2>1. /\ c \notin Range(queue') /\ phase = "idle" /\ doomed' # c
          /\ packet'[c] = "Returned"
        BY <1>0, <1>1, <1>3 DEF Return, Idle, TypeOK
    <2>2. QED
        BY <1>0, <2>1 DEF Belongs
<1>4. CASE AgentGone(c)
    <2>1. /\ c \notin Range(queue') /\ phase = "idle" /\ doomed' # c
          /\ agent'[c] = "off"
        BY <1>0, <1>1, <1>4 DEF AgentGone, StopAgent, Idle, TypeOK
    <2>2. QED
        BY <1>0, <2>1 DEF Belongs
<1>5. CASE GiveUpReminding(c)
    <2>1. /\ c \notin Range(queue') /\ phase = "idle" /\ doomed' = c /\ IsPart(c)
          /\ packet'[c] = "Accepted"
        BY <1>0, <1>1, <1>5 DEF GiveUpReminding, Idle, Belongs
    <2>2. QED
        BY <1>0, <2>1 DEF Belongs
<1>6. CASE DeletePart(c)
    <2>1. /\ c \notin Range(queue') /\ phase = "idle" /\ doomed' # c
          /\ agent'[c] = "none"
        BY <1>0, <1>2, <1>6 DEF DeletePart, Idle, TypeOK
    <2>2. QED
        BY <1>0, <2>1 DEF Belongs
<1>7. CASE HandRelease(c)
    BY <1>0, <1>7 DEF HandRelease, TypeOK
<1>8. CASE StartPart /\ c = ChildOf(Min(WavePending))
    <2>1. /\ c[1] = Min(WavePending) /\ IsPart(c) /\ state[c[1]] = "Pending"
        BY <1>0, <1>8, StartsChild
    <2>2. packet[c] = "none" /\ c \notin todo
        BY <1>0, <1>8, <2>1 DEF WorkersInv, WorkInv, FanoutInv, Made
    <2>3. phase # "cancel"
        BY <1>8 DEF StartPart, Turn, WorkersInv, WorkInv, FanoutInv, CancelCloses
    <2>4. agent[c] # "live" /\ c \notin Range(queue) /\ ~IsDone(state[c[1]])
        BY <1>0, <2>1, <2>2 DEF Belongs, IsDone
    <2>5. UNCHANGED <<todo, doomed>>
        BY <1>8 DEF StartPart
    <2>6. CASE Release(c)
        BY <1>0, <2>1, <2>2, <2>3, <2>4, <2>5, <2>6, ReleaseBelongs
    <2>7. CASE UNCHANGED flights
        BY <1>0, <2>1, <2>2, <2>3, <2>4, <2>5, <2>7 DEF Belongs
    <2>8. QED
        BY <1>8, <2>6, <2>7 DEF StartPart
<1>9. CASE CancelPart /\ c = First(todo)
    <2>1. c \in todo /\ phase = "cancel" /\ todo' = todo \ {c} /\ doomed' = doomed
        BY <1>0, <1>9, FirstType DEF CancelPart, Cancelling, TypeOK
    <2>2. IsPart(c)
        BY <1>0, <2>1 DEF Belongs
    <2>3. CASE state[c[1]] = "Queued"
        <3>1. packet[c] = "Draft"
            BY <1>0, <2>2, <2>3 DEF WorkersInv, WorkInv, PartSound, IsPart, ChildOf, Children
        <3>2. c \notin Range(queue') /\ UNCHANGED <<state, packet, agent>>
            BY <1>2, <1>9, <2>3 DEF CancelPart
        <3>3. QED
            BY <1>0, <2>1, <2>2, <2>3, <3>1, <3>2 DEF Belongs
    <2>4. CASE state[c[1]] # "Queued"
        <3>1. c \notin Range(queue') /\ agent'[c] = "off"
            BY <1>0, <1>1, <1>9, <2>4 DEF CancelPart, StopAgent, TypeOK
        <3>2. QED
            BY <1>0, <2>1, <2>2, <3>1 DEF Belongs
    <2>5. QED
        BY <2>3, <2>4
<1>10. CASE DrainHead /\ c = Head(sweep)
    <2>1. c \in Range(queue) /\ phase = "drain"
        BY <1>0, <1>10, TailOnce DEF DrainHead, WorkersInv, Drained, TypeOK
    <2>2. Release(c) /\ UNCHANGED <<todo, doomed>>
        BY <1>1, <1>10, <2>1 DEF DrainHead
    <2>3. QED
        BY <1>0, <1>1, <2>1, <2>2, ReleaseBelongs DEF IsDone
<1>11. CASE LosePart /\ c = First(todo)
    <2>1. /\ c \in todo /\ phase = "lost" /\ todo' = todo \ {c}
          /\ UNCHANGED <<packet, agent, queue, doomed>>
        BY <1>0, <1>11, FirstType DEF LosePart, TypeOK
    <2>2. QED
        BY <1>0, <2>1 DEF Belongs
<1>12. CASE LatePart /\ c = First(todo)
    <2>1. /\ c \in todo /\ phase = "late" /\ todo' = todo \ {c} /\ doomed = NoChild
          /\ c \notin Range(queue') /\ UNCHANGED <<packet, agent>>
          /\ doomed' = IF state[c[1]] = "Running" THEN c ELSE NoChild
        BY <1>0, <1>2, <1>12, FirstType DEF LatePart, TypeOK
    <2>2. QED
        BY <1>0, <2>1 DEF Belongs
<1>13. CASE StopDoomed /\ c = doomed
    <2>1. /\ agent'[c] = "off" /\ doomed' # c /\ IsPart(c)
          /\ UNCHANGED <<queue, packet, todo>>
        BY <1>0, <1>13 DEF StopDoomed, StopAgent, TypeOK, Belongs
    <2>2. c \in Range(queue) => state' = state
        BY <1>1, <1>13 DEF StopDoomed, StopAgent
    <2>3. QED
        BY <1>0, <2>1, <2>2 DEF Belongs
<1>14. QED
    BY <1>3, <1>4, <1>5, <1>6, <1>7, <1>8, <1>9, <1>10, <1>11, <1>12, <1>13
    DEF ChildStep, ChildMessage

\* The handlers that are not about one child leave every child where it belongs.
LEMMA OtherStepBelongs ==
    ASSUME WorkersInv, NEW d \in Children,
           \/ Quiet \/ Skips
           \/ Idle /\ CancelBegins /\ IsOpen
           \/ Tick \/ ResumeFanouts \/ TickEnds
           \/ \E late \in SUBSET ActiveChildren : FanoutTick(late)
           \/ AnswerRetry \/ CancelEnds
           \/ \E panesStay \in BOOLEAN : Restart(panesStay)
    PROVE  Belongs(d)'
<1> USE DEF barrier, flights, human, bounds
<1>0. /\ Belongs(d) /\ TypeOK /\ d[1] \in Parts
      /\ IsPart(d) <=> d = ChildOf(d[1])
    BY ChildType DEF WorkersInv, WorkInv, FanoutInv, IsPart, ChildOf, Children
<1>1. CASE Quiet \/ Skips
    <2>1. state[d[1]] \in {"Queued", "Running"} => state'[d[1]] = state[d[1]]
        BY <1>0, <1>1 DEF Quiet, Still, Skips
    <2>2. state'[d[1]] \in {"Queued", "Running"} => state'[d[1]] = state[d[1]]
        BY <1>0, <1>1 DEF Quiet, Still, Skips
    <2>3. UNCHANGED <<retries, packet, agent, queue, doomed, phase, todo>>
        BY <1>1 DEF Quiet, Still, Skips
    <2>4. QED
        BY <1>0, <2>1, <2>2, <2>3 DEF Belongs, IsPart
<1>2. CASE Idle /\ CancelBegins
    <2>1. /\ UNCHANGED <<state, retries, packet, agent, queue, doomed>>
          /\ phase' = "cancel" /\ doomed = NoChild
          /\ todo' = {ChildOf(p) : p \in InState("Queued") \cup InState("Running")}
        BY <1>2 DEF Idle, CancelBegins
    <2>2. d \in todo' => IsPart(d)
        BY <2>1 DEF ChildOf, IsPart
    <2>3. IsPart(d) /\ state[d[1]] \in {"Queued", "Running"} => d \in todo'
        BY <1>0, <2>1 DEF InState
    <2>4. QED
        BY <1>0, <2>1, <2>2, <2>3 DEF Belongs, IsPart
<1>3. CASE Tick \/ TickEnds
    BY <1>0, <1>3 DEF Tick, TickEnds, Belongs, IsPart
<1>4. CASE ResumeFanouts
    <2>1. /\ UNCHANGED <<state, retries, packet, agent, queue, doomed>> /\ phase' = "lost"
        BY <1>4 DEF ResumeFanouts
    <2>2. d \in todo' => IsPart(d) /\ state[d[1]] = "Running" /\ agent[d] # "live"
        <3>1. SUFFICES ASSUME d \in todo'
                       PROVE  IsPart(d) /\ state[d[1]] = "Running" /\ agent[d] # "live"
            OBVIOUS
        <3>2. PICK p \in {q \in InState("Running") : agent[ChildOf(q)] # "live"} : d = ChildOf(p)
            BY <1>4, <3>1 DEF ResumeFanouts
        <3>3. QED
            BY <3>2 DEF InState, ChildOf, IsPart
    <2>3. QED
        BY <1>0, <2>1, <2>2 DEF Belongs, IsPart
<1>5. ASSUME NEW late \in SUBSET ActiveChildren, FanoutTick(late)
      PROVE  Belongs(d)'
    <2>1. /\ UNCHANGED <<state, retries, packet, agent, queue, doomed>>
          /\ phase' = "late" /\ todo' = late
        BY <1>5 DEF FanoutTick
    <2>2. d \in todo' => IsPart(d)
        BY <2>1 DEF ActiveChildren, ChildOf, IsPart
    <2>3. QED
        BY <1>0, <2>1, <2>2 DEF Belongs, IsPart
<1>6. CASE AnswerRetry
    <2>1. /\ UNCHANGED <<packet, agent, queue, phase, todo, doomed>>
          /\ phase = "idle" /\ doomed = NoChild /\ status = "Paused"
        BY <1>6 DEF AnswerRetry, Answer, Idle, thread
    <2>2. state[d[1]] \notin {"Queued", "Running"}
        BY <1>0, <2>1, NobodyAtWork DEF WorkersInv, WorkInv, Active
    <2>3. QED
        BY <1>0, <2>1, <2>2, ChildType DEF Belongs
<1>7. CASE CancelEnds
    <2>1. /\ UNCHANGED <<retries, packet, agent, queue, todo, doomed>>
          /\ phase = "cancel" /\ phase' = "idle" /\ todo = {}
        BY <1>7 DEF CancelEnds, Cancelling
    <2>2. QED
        BY <1>0, <2>1 DEF Belongs, IsPart
<1>8. ASSUME NEW panesStay \in BOOLEAN, Restart(panesStay)
      PROVE  Belongs(d)'
    <2>1. /\ UNCHANGED <<state, retries, packet, queue, doomed, phase, todo>>
          /\ agent'[d] = "live" => agent[d] = "live"
        BY <1>8 DEF Restart
    <2>2. QED
        BY <1>0, <2>1 DEF Belongs, IsPart
<1>9. QED
    BY <1>1, <1>2, <1>3, <1>4, <1>5, <1>6, <1>7, <1>8
\* Only a tick's drain changes its copy of the queue.
LEMMA SweepMoves ==
    ASSUME [Next]_vars
    PROVE  Tick \/ DrainHead \/ UNCHANGED sweep
<1> USE DEF thread
<1>1. CASE Advance
    BY <1>1 DEF Advance, StartPart, Wait, NextWave, FinishFanout, ContinueAfterFailure,
                StopFanout, AskFailure
<1>2. CASE HumanAnswer
    BY <1>2 DEF HumanAnswer, ClearPlan, NotNow, CancelBegins, AnswerRetry, AnswerContinue,
                AnswerStop, AnswerPartial
<1>3. CASE StartFanout \/ AskPlan \/ DeleteOwner \/ CancelPart \/ CancelEnds \/ LandOwner
           \/ OthersChange \/ UNCHANGED vars
    BY <1>3 DEF StartFanout, AskPlan, DeleteOwner, CancelBegins, CancelPart, CancelEnds,
                LandOwner, OthersChange, vars
<1>4. ASSUME NEW c \in Children, ChildMessage(c)
      PROVE  UNCHANGED sweep
    BY <1>4 DEF ChildMessage, Return, AgentGone, GiveUpReminding, DeletePart, HandRelease
<1>5. CASE TickStep
    BY <1>5 DEF TickStep, ResumeFanouts, LosePart, LatePart, StopDoomed, TickEnds, FanoutTick
<1>6. ASSUME NEW panesStay \in BOOLEAN, Restart(panesStay)
      PROVE  UNCHANGED sweep
    BY <1>6 DEF Restart
<1>7. QED
    BY <1>1, <1>2, <1>3, <1>4, <1>5, <1>6 DEF Next

\* During the drain nothing leaves the line but what the drain takes off its copy.
LEMMA DrainedStep ==
    ASSUME MaxHandReleases = 0, WorkersInv, [Next]_vars
    PROVE  Drained'
<1> USE DEF barrier, flights, human, thread
<1>0. TypeOK /\ IsInjective(queue) /\ Drained
    BY DEF WorkersInv, WorkInv, FanoutInv
<1>1. CASE Tick
    BY <1>0, <1>1 DEF Tick, Drained
<1>2. CASE DrainHead
    <2>1. /\ sweep # <<>> /\ sweep' = Tail(sweep) /\ phase = "drain"
          /\ sweep \in Seq(Children) /\ IsInjective(sweep) /\ Range(sweep) \subseteq Range(queue)
        BY <1>0, <1>2 DEF DrainHead, Drained, TypeOK
    <2>2. /\ Head(sweep) \in Children /\ IsInjective(sweep')
          /\ Range(sweep') = Range(sweep) \ {Head(sweep)}
        BY <2>1, TailOnce
    <2>3. Touches(Head(sweep))
        BY <1>0, <1>2, <2>2, ChildStepTouches DEF ChildStep
    <2>4. Range(queue) \subseteq Children
        BY <1>0, ElementOfSeq, LenProperties DEF TypeOK, Range
    <2>5. Range(sweep') \subseteq Range(queue')
        BY <2>1, <2>2, <2>3, <2>4 DEF Touches
    <2>6. QED
        BY <2>2, <2>5 DEF Drained
<1>3. CASE UNCHANGED sweep /\ ~Tick /\ ~DrainHead
    <2>1. SUFFICES ASSUME phase' = "drain"
                   PROVE  phase = "drain" /\ Range(queue) \subseteq Range(queue')
        BY <1>0, <1>3, <2>1 DEF Drained
    <2>2. ASSUME NEW c \in Children, ChildStep(c)
          PROVE  phase = "drain" /\ Range(queue) \subseteq Range(queue')
        <3>1. Touches(c) /\ phase = "drain"
            BY <1>0, <2>1, <2>2, ChildStepTouches DEF Touches
        <3>2. Range(queue) \subseteq Children
            BY <1>0, ElementOfSeq, LenProperties DEF TypeOK, Range
        <3>3. c \in Range(queue) => c \in Range(queue')
            <4>1. StartPart /\ c = ChildOf(Min(WavePending)) => c \notin Range(queue)
                BY <1>0, StartsChild, InLineHasDraft
            <4>2. ~HandRelease(c)
                BY <1>0 DEF HandRelease, TypeOK
            <4>3. StopDoomed => queue' = queue
                BY DEF StopDoomed
            <4>4. ~CancelPart /\ ~LosePart /\ ~LatePart /\ ~ChildMessage(c)
                BY <3>1, <4>2 DEF CancelPart, Cancelling, LosePart, LatePart, ChildMessage,
                    Return, AgentGone, GiveUpReminding, DeletePart, Idle
            <4>5. QED
                BY <1>3, <2>2, <4>1, <4>3, <4>4 DEF ChildStep
        <3>4. QED
            BY <3>1, <3>2, <3>3 DEF Touches
    <2>3. CASE \/ Quiet \/ Skips
               \/ Idle /\ CancelBegins /\ IsOpen
               \/ Tick \/ ResumeFanouts \/ TickEnds
               \/ \E late \in SUBSET ActiveChildren : FanoutTick(late)
               \/ AnswerRetry \/ CancelEnds
               \/ \E panesStay \in BOOLEAN : Restart(panesStay)
        BY <1>3, <2>1, <2>3 DEF Quiet, Still, Skips, CancelBegins, ResumeFanouts, TickEnds,
                                FanoutTick, AnswerRetry, CancelEnds, Restart
    <2>4. QED
        BY <1>0, <2>2, <2>3, StepKinds
<1>4. QED
    BY <1>1, <1>2, <1>3, SweepMoves

\* Every handler keeps everyone where they belong.
LEMMA WorkersStep ==
    ASSUME MaxHandReleases = 0, WorkersInv, [Next]_vars
    PROVE  WorkersInv'
<1>0. TypeOK /\ IsInjective(queue) /\ WorkInv
    BY DEF WorkersInv, WorkInv, FanoutInv
<1>1. WorkInv' /\ Drained'
    BY <1>0, WorkStep, DrainedStep
<1>2. ASSUME NEW d \in Children
      PROVE  Belongs(d)'
    <2>1. ASSUME NEW c \in Children, ChildStep(c)
          PROVE  Belongs(d)'
        <3>1. CASE c = d
            BY <2>1, <3>1, OwnBelongs
        <3>2. CASE c # d
            BY <1>0, <2>1, <3>2, ChildStepTouches, OthersBelong DEF WorkersInv
        <3>3. QED
            BY <3>1, <3>2
    <2>2. QED
        BY <1>0, <2>1, StepKinds, OtherStepBelongs
<1>3. QED
    BY <1>1, <1>2 DEF WorkersInv

\* Where no human releases a draft by hand, whoever is in line or at work is the
\* present attempt of a part that is queued or running.
THEOREM WorkersInvTheorem ==
    ASSUME MaxHandReleases = 0
    PROVE  Spec => []WorkersInv
<1>1. Init => WorkersInv
    <2>1. SUFFICES ASSUME Init PROVE WorkersInv
        OBVIOUS
    <2>2. WorkInv /\ Drained
        BY <2>1, WorkInit DEF Init, Drained
    <2>3. ASSUME NEW d \in Children
          PROVE  Belongs(d)
        <3>1. d # NoChild /\ Range(queue) = {} /\ agent[d] = "none"
            BY <2>1, ChildType DEF Init, Range
        <3>2. QED
            BY <2>1, <3>1 DEF Init, Belongs
    <2>4. QED
        BY <2>2, <2>3 DEF WorkersInv
<1>2. WorkersInv /\ [Next]_vars => WorkersInv'
    BY WorkersStep
<1>3. QED
    BY <1>1, <1>2, PTL DEF Spec

\* Once a fan-out is closed and the handler that closed it is done, every part is
\* over, nothing of it waits in line and no agent still works for it: neither a
\* cancel between two waves nor a late launch leaves anything behind
\* (cancel_fanout, finish_fanout, fanout_tick).
THEOREM ClosedIsOverTheorem ==
    ASSUME MaxHandReleases = 0
    PROVE  Spec => []ClosedIsOver
<1>1. WorkersInv => ClosedIsOver
    <2>1. SUFFICES ASSUME WorkersInv, IsClosed, Idle
                   PROVE  /\ \A p \in Parts : IsDone(state[p])
                          /\ queue = <<>>
                          /\ \A c \in Children : agent[c] = "live" => packet[c] = "Returned"
        BY DEF ClosedIsOver
    <2>2. \A p \in Parts : IsDone(state[p])
        BY <2>1 DEF WorkersInv, WorkInv, Ends, Idle
    <2>3. queue \in Seq(Children)
        BY <2>1 DEF WorkersInv, WorkInv, FanoutInv, TypeOK
    <2>4. queue = <<>>
        <3>1. SUFFICES ASSUME queue # <<>> PROVE FALSE
            OBVIOUS
        <3>2. Head(queue) \in Children /\ Head(queue) \in Range(queue)
            BY <2>1, <2>3, <3>1, TailOnce DEF WorkersInv, WorkInv
        <3>3. state[Head(queue)[1]] = "Queued" /\ Head(queue)[1] \in Parts
            BY <2>1, <3>2, InLineHasDraft, ChildType
        <3>4. QED
            BY <2>2, <3>3 DEF IsDone
    <2>5. ASSUME NEW c \in Children, agent[c] = "live"
          PROVE  packet[c] = "Returned"
        <3>1. c[1] \in Parts /\ doomed # c
            BY <2>1, ChildType DEF Idle
        <3>2. QED
            BY <2>1, <2>2, <2>5, <3>1 DEF WorkersInv, Belongs, IsDone
    <2>6. QED
        BY <2>2, <2>4, <2>5
<1>2. QED
    BY <1>1, WorkersInvTheorem, PTL

\* Two attempts at one part never work at the same time: a retry starts after the
\* failed attempt's agent is gone (resolve_fanout_failure, fanout_tick).
THEOREM OneWorkerPerPartTheorem ==
    ASSUME MaxHandReleases = 0
    PROVE  Spec => []OneWorkerPerPart
<1>1. WorkersInv => OneWorkerPerPart
    <2>1. SUFFICES ASSUME WorkersInv, NEW c \in Children, NEW d \in Children, c[1] = d[1],
                          agent[c] = "live", packet[c] = "Accepted",
                          agent[d] = "live", packet[d] = "Accepted"
                   PROVE  c = d
        BY DEF OneWorkerPerPart
    <2>2. IsPart(c) /\ IsPart(d)
        BY <2>1 DEF WorkersInv, Belongs
    <2>3. QED
        BY <2>1, <2>2 DEF IsPart, Children
<1>2. QED
    BY <1>1, WorkersInvTheorem, PTL

\* An agent starts only for the present attempt of a part that has not run, in a
\* fan-out that is Running: no draft that a cancel, a time limit or a retry left
\* behind starts one later (drain_local_queue, begin_wave).
THEOREM StartsOnlyLivePartsTheorem ==
    ASSUME MaxHandReleases = 0
    PROVE  Spec => StartsOnlyLiveParts
<1> DEFINE starts(c) == agent[c] # "live" /\ agent'[c] = "live"
           live(c) == status = "Running" /\ IsPart(c) /\ state[c[1]] \in {"Pending", "Queued"}
<1>1. ASSUME WorkersInv, [Next]_vars, NEW d \in Children, starts(d)
      PROVE  live(d)
    <2>0. /\ TypeOK /\ IsInjective(queue) /\ d[1] \in Parts /\ WorkInv
        BY <1>1, ChildType DEF WorkersInv, WorkInv, FanoutInv
    <2>1. ASSUME NEW c \in Children, ChildStep(c)
          PROVE  live(d)
        <3>1. c = d
            BY <1>1, <2>0, <2>1, ChildStepTouches DEF Touches
        <3>2. ~StopAgent(c) /\ ~UNCHANGED agent
            BY <1>1, <2>0, <3>1 DEF StopAgent, TypeOK
        <3>3. (StartPart /\ c = ChildOf(Min(WavePending))) \/ (DrainHead /\ c = Head(sweep))
            BY <1>1, <2>0, <2>1, <3>1, <3>2
            DEF ChildStep, ChildMessage, Return, AgentGone, GiveUpReminding, DeletePart,
                HandRelease, CancelPart, LosePart, LatePart, StopDoomed, TypeOK, flights
        <3>4. CASE StartPart /\ c = ChildOf(Min(WavePending))
            BY <2>0, <3>1, <3>4, StartsChild DEF StartPart, Turn
        <3>5. CASE DrainHead /\ c = Head(sweep)
            <4>1. c \in Range(queue) /\ phase = "drain"
                BY <1>1, <2>0, <3>5, TailOnce DEF DrainHead, WorkersInv, Drained, TypeOK
            <4>2. IsPart(c) /\ state[c[1]] = "Queued"
                BY <1>1, <4>1, InLineHasDraft
            <4>3. status = "Running"
                BY <2>0, <3>1, <4>1, <4>2, NobodyAtWork DEF WorkInv, Active
            <4>4. QED
                BY <3>1, <4>2, <4>3
        <3>6. QED
            BY <3>3, <3>4, <3>5
    <2>2. \/ UNCHANGED agent
          \/ \E panesStay \in BOOLEAN : Restart(panesStay)
          \/ \E c \in Children : ChildStep(c)
        BY <1>1, <2>0, StepKinds DEF Quiet, Still, Skips, CancelBegins, Tick, ResumeFanouts,
            TickEnds, FanoutTick, AnswerRetry, CancelEnds, flights
    <2>3. ~UNCHANGED agent /\ ~ \E panesStay \in BOOLEAN : Restart(panesStay)
        BY <1>1 DEF Restart
    <2>4. QED
        BY <2>1, <2>2, <2>3
<1>2. WorkersInv /\ [Next]_vars =>
          [ \A c \in Children :
              agent[c] # "live" /\ agent'[c] = "live" =>
                  /\ status = "Running" /\ IsPart(c)
                  /\ state[c[1]] \in {"Pending", "Queued"} ]_vars
    BY <1>1
<1>3. QED
    BY <1>2, WorkersInvTheorem, PTL DEF Spec, StartsOnlyLiveParts
=============================================================================
