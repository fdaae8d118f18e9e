----------------------- MODULE FanoutRefinementProofs -----------------------
(***************************************************************************)
(* Where on_failure never means "ask", a fan-out keeps the promise of      *)
(* FanoutPromise: every step is a step of the promise or invisible to it.  *)
(*                                                                         *)
(* With a question in between, a retry can bring back a part whose results *)
(* are not there: see DepsReturnedTheorem and the run fanout_revived.      *)
(***************************************************************************)
EXTENDS FanoutRefinement, FanoutWorkProofs

\* What the promise's variables stand for.
Working == InState("Queued") \cup InState("Running")
Got == InState("Returned")

\* A step of the promise, or one that it does not see.
Kept == [Promise!PromiseNext]_(Promise!promiseVars)

\* A step that moves nothing the promise speaks of.
LEMMA Unseen ==
    ASSUME Stage' = Stage, Told' = Told, Working' = Working, Got' = Got
    PROVE  Kept
BY DEF Kept, Promise!promiseVars, Working, Got

\* The stage is read off the status, and of the phases only off a cancel's.
LEMMA SameStage ==
    ASSUME status' = status, phase' = phase \/ (phase # "cancel" /\ phase' # "cancel")
    PROVE  Stage' = Stage /\ Told' = Told
<1>1. Stage' = Stage
    BY DEF Stage, IsOpen
<1>2. QED
    BY <1>1 DEF Told

\* What the stage is, by status.
LEMMA StageIs ==
    /\ status = "none" => Stage = "idle"
    /\ IsOpen => Stage = "open"
    /\ status = "Cancelled" /\ phase = "cancel" => Stage = "closing"
    /\ IsClosed /\ phase # "cancel" => Stage = "over"
    /\ Stage # "over" => Told = "nothing"
<1>1. /\ status = "none" => Stage = "idle"
      /\ IsOpen => Stage = "open"
      /\ status = "Cancelled" /\ phase = "cancel" => Stage = "closing"
      /\ IsClosed /\ phase # "cancel" => Stage = "over"
    BY DEF Stage, IsOpen, IsClosed
<1>2. Stage # "over" => Told = "nothing"
    <2>1. Stage # "over" => status \notin {"Done", "Partial"}
        BY DEF Stage, IsOpen
    <2>2. QED
        BY <2>1 DEF Told
<1>3. QED
    BY <1>1, <1>2

-----------------------------------------------------------------------------
(* One part moves. *)

\* The part is handed to an agent, or put in line for one, with its results there.
LEMMA PartIsTaken ==
    ASSUME TypeOK, NEW p \in Parts, state[p] = "Pending", NEW s \in {"Queued", "Running"},
           state' = [state EXCEPT ![p] = s], Stage = "open", Stage' = Stage, Told' = Told,
           \A d \in DependsOn[p] : d \in Parts /\ state[d] = "Returned"
    PROVE  Kept
<1>1. p \notin Got /\ DependsOn[p] \subseteq Got
    BY DEF Got, InState
<1>2. Working' = Working \cup {p} /\ Got' = Got
    BY DEF Working, Got, InState, TypeOK
<1>3. Promise!WorkAt(p)
    BY <1>1, <1>2 DEF Promise!WorkAt, Working, Got
<1>4. QED
    BY <1>3 DEF Kept, Promise!PromiseNext

\* Its result comes back.
LEMMA PartReturns ==
    ASSUME TypeOK, NEW p \in Parts, Active(p), state' = [state EXCEPT ![p] = "Returned"],
           Stage = "open", Stage' = Stage, Told' = Told
    PROVE  Kept
<1>1. p \in Working
    BY DEF Active, Working, InState
<1>2. Working' = Working \ {p} /\ Got' = Got \cup {p}
    BY DEF Active, Working, Got, InState, TypeOK
<1>3. Promise!GetResult(p)
    BY <1>1, <1>2 DEF Promise!GetResult, Working, Got
<1>4. QED
    BY <1>3 DEF Kept, Promise!PromiseNext

\* Its result is lost.
LEMMA PartFails ==
    ASSUME TypeOK, NEW p \in Parts, Active(p), state' = [state EXCEPT ![p] = "Failed"],
           Stage \in {"open", "closing"}, Stage' = Stage, Told' = Told
    PROVE  Kept
<1>1. p \in Working
    BY DEF Active, Working, InState
<1>2. Working' = Working \ {p} /\ Got' = Got
    BY DEF Active, Working, Got, InState, TypeOK
<1>3. Promise!LoseResult(p)
    BY <1>1, <1>2 DEF Promise!LoseResult, Working, Got
<1>4. QED
    BY <1>3 DEF Kept, Promise!PromiseNext

\* A part that waits in line is released, or one that was to start is held: no
\* difference to the promise.
LEMMA PartStaysAtWork ==
    ASSUME TypeOK, NEW p \in Parts, Active(p), NEW s \in {"Queued", "Running"},
           state' = [state EXCEPT ![p] = s], Stage' = Stage, Told' = Told
    PROVE  Kept
<1>1. Working' = Working /\ Got' = Got
    BY DEF Active, Working, Got, InState, TypeOK
<1>2. QED
    BY <1>1, Unseen

\* A part that cannot start was never worked at.
LEMMA PartNeverStarts ==
    ASSUME TypeOK, NEW p \in Parts, state[p] = "Pending",
           state' = [state EXCEPT ![p] = "Failed"], Stage' = Stage, Told' = Told
    PROVE  Kept
<1>1. Working' = Working /\ Got' = Got
    BY DEF Working, Got, InState, TypeOK
<1>2. QED
    BY <1>1, Unseen

\* What a handler about a child may do to its part.
LEMMA ChildStepResult ==
    ASSUME NEW c \in Children, ChildStep(c)
    PROVE  \/ state' = state
           \/ \E s \in {"Queued", "Running", "Failed"} : state' = PartState(c, s)
           \/ Idle /\ state' = PartState(c, "Returned")
           \/ StartPart /\ state' = [state EXCEPT ![Min(WavePending)] = "Failed"]
<1> DEFINE lost == state' = state \/ state' = PartState(c, "Failed")
           moves == \E s \in {"Queued", "Running", "Failed"} : state' = PartState(c, s)
<1>1. StopAgent(c) => lost
    BY DEF StopAgent, ChildDone
<1>2. Release(c) => moves
    BY DEF Release, Held, Launched, LaunchFails
<1>3. CASE Return(c)
    BY <1>3 DEF Return, ChildDone
<1>4. CASE AgentGone(c) \/ GiveUpReminding(c) \/ DeletePart(c)
    BY <1>1, <1>4 DEF AgentGone, GiveUpReminding, DeletePart, ChildDone
<1>5. CASE HandRelease(c) \/ (DrainHead /\ c = Head(sweep))
    BY <1>2, <1>5 DEF HandRelease, DrainHead
<1>6. CASE StartPart /\ c = ChildOf(Min(WavePending))
    BY <1>2, <1>6 DEF StartPart
<1>7. CASE CancelPart /\ c = First(todo)
    BY <1>1, <1>7 DEF CancelPart
<1>8. CASE (LosePart \/ LatePart) /\ c = First(todo)
    BY <1>8 DEF LosePart, LatePart, ChildDone
<1>9. CASE StopDoomed /\ c = doomed
    BY <1>1, <1>9 DEF StopDoomed
<1>10. QED
    BY <1>3, <1>4, <1>5, <1>6, <1>7, <1>8, <1>9 DEF ChildStep, ChildMessage

\* A handler about a child keeps the promise, if no part starts without its results.
LEMMA ChildStepKeepsPromise ==
    ASSUME WorkInv, DepsReturned', NEW c \in Children, ChildStep(c)
    PROVE  Kept
<1>0. /\ TypeOK /\ FanoutInv /\ Ends /\ c[1] \in Parts
      /\ Stage' = Stage /\ Told' = Told
    <2>1. status' = status
        BY ChildStepStatus
    <2>2. TypeOK /\ IsInjective(queue)
        BY DEF WorkInv, FanoutInv
    <2>3. phase' = phase
        BY <2>2, ChildStepTouches DEF Touches
    <2>4. QED
        BY <2>1, <2>2, <2>3, SameStage, ChildType DEF WorkInv
<1>1. CASE state' = state
    BY <1>0, <1>1, Unseen DEF Working, Got, InState
<1>2. ASSUME StartPart, NEW s \in {"Queued", "Running", "Failed"}, NEW p \in Parts,
             state[p] = "Pending", state' = [state EXCEPT ![p] = s]
      PROVE  Kept
    <2>1. Stage = "open"
        BY <1>2, StageIs DEF StartPart, Turn, IsOpen
    <2>2. CASE s \in {"Queued", "Running"}
        <3>1. ASSUME NEW d \in DependsOn[p]
              PROVE  d \in Parts /\ state[d] = "Returned"
            <4>1. d \in Parts /\ WaveOf[d] < WaveOf[p]
                BY DependsOnParts
            <4>2. d # p
                BY <4>1, PlanAssumption DEF Waves
            <4>3. state'[p] = s
                BY <1>0, <1>2 DEF TypeOK
            <4>4. state'[d] = "Returned"
                BY <2>2, <4>3 DEF DepsReturned
            <4>5. QED
                BY <1>0, <1>2, <4>1, <4>2, <4>4 DEF TypeOK
        <3>2. QED
            BY <1>0, <1>2, <2>1, <2>2, <3>1, PartIsTaken
    <2>3. CASE s = "Failed"
        BY <1>0, <1>2, <2>3, PartNeverStarts
    <2>4. QED
        BY <1>2, <2>2, <2>3
<1>3. ASSUME NEW s \in {"Queued", "Running", "Failed", "Returned"}, state' = PartState(c, s),
             s = "Returned" => Idle, packet[c] # "none"
      PROVE  Kept
    <2>1. CASE ~(IsPart(c) /\ ~IsDone(state[c[1]]))
        BY <1>1, <1>3, <2>1 DEF PartState
    <2>2. CASE IsPart(c) /\ ~IsDone(state[c[1]])
        <3>1. Active(c[1]) /\ state' = [state EXCEPT ![c[1]] = s]
            BY <1>0, <1>3, <2>2, ActivePart DEF FanoutInv, Active, PartState
        <3>2. status = "Running" \/ (status = "Cancelled" /\ phase = "cancel")
            BY <1>0, <3>1, NobodyAtWork DEF FanoutInv, CancelCloses
        <3>3. Stage \in {"open", "closing"} /\ (phase # "cancel" => Stage = "open")
            BY <3>2, StageIs DEF IsOpen
        <3>4. CASE s \in {"Queued", "Running"}
            BY <1>0, <3>1, <3>4, PartStaysAtWork
        <3>5. CASE s = "Failed"
            BY <1>0, <3>1, <3>3, <3>5, PartFails
        <3>6. CASE s = "Returned"
            BY <1>0, <1>3, <3>1, <3>3, <3>6, PartReturns DEF Idle
        <3>7. QED
            BY <1>3, <3>4, <3>5, <3>6
    <2>3. QED
        BY <2>1, <2>2
<1>4. CASE StartPart
    <2>1. state' # state => \E s \in {"Queued", "Running", "Failed"} :
                               state' = [state EXCEPT ![Min(WavePending)] = s]
        <3>1. ~IsDone("Pending")
            BY DEF IsDone
        <3>2. QED
            BY <1>0, <1>4, <3>1, StartsChild DEF StartPart, Release, Held, Launched, LaunchFails,
                                                 PartState
    <2>2. QED
        BY <1>0, <1>1, <1>2, <1>4, <2>1, StartsChild
<1>5. CASE ~StartPart
    <2>1. state' = state \/ packet[c] # "none"
        BY <1>0, <1>5, ChildStepMoves
    <2>2. QED
        BY <1>1, <1>3, <1>5, <2>1, ChildStepResult
<1>6. QED
    BY <1>4, <1>5

-----------------------------------------------------------------------------
(* The other handlers. *)

\* The outcome is told when the last part is over, and is the one there is.
LEMMA FinishKeepsPromise ==
    ASSUME FanoutInv, FinishFanout
    PROVE  Kept
<1>1. state' = state /\ phase' = phase /\ status = "Running" /\ phase # "cancel"
    BY DEF FinishFanout, WaveOver, Turn, FanoutInv, CancelCloses, thread
<1>2. \A p \in Parts : IsDone(state[p])
    BY <1>1, FinishedIsOver
<1>3. Working = {}
    BY <1>2 DEF Working, InState, IsDone
<1>4. Working' = Working /\ Got' = Got
    BY <1>1 DEF Working, Got, InState
<1>5. status' = IF Got = Parts THEN "Done" ELSE "Partial"
    BY DEF FinishFanout, Got
<1>6. Stage = "open" /\ Stage' = "over"
    BY <1>1, <1>5 DEF Stage, IsOpen
<1>7. Told' = IF Got = Parts THEN "all" ELSE "some"
    BY <1>5, <1>6 DEF Told
<1>8. Promise!Tell
    BY <1>3, <1>4, <1>6, <1>7 DEF Promise!Tell, Working, Got
<1>9. QED
    BY <1>8 DEF Kept, Promise!PromiseNext

\* A cancel calls the fan-out off.
LEMMA CancelKeepsPromise ==
    ASSUME IsOpen, CancelBegins
    PROVE  Kept
<1>1. state' = state /\ status' = "Cancelled" /\ phase' = "cancel"
    BY DEF CancelBegins
<1>2. Working' = Working /\ Got' = Got
    BY <1>1 DEF Working, Got, InState
<1>3. Stage = "open" /\ Stage' = "closing"
    BY <1>1 DEF Stage, IsOpen
<1>4. Told = "nothing" /\ Told' = "nothing"
    BY <1>1, <1>3 DEF Told, IsOpen
<1>5. Promise!CallOff
    BY <1>2, <1>3, <1>4 DEF Promise!CallOff, Working, Got
<1>6. QED
    BY <1>5 DEF Kept, Promise!PromiseNext

\* Its end tells so, with nobody at work and every result kept.
LEMMA CancelEndKeepsPromise ==
    ASSUME FanoutInv, CancelEnds
    PROVE  Kept
<1>1. /\ status = "Cancelled" /\ status' = status /\ phase = "cancel" /\ phase' = "idle"
      /\ state' = [p \in Parts |-> IF IsDone(state[p]) THEN state[p] ELSE "Skipped"]
    BY DEF CancelEnds, Cancelling, FanoutInv, CancelCloses
<1>2. Working' = {} /\ Got' = Got
    BY <1>1 DEF Working, Got, InState, IsDone
<1>3. Stage = "closing" /\ Stage' = "over"
    BY <1>1 DEF Stage, IsOpen
<1>4. Told' = "off"
    BY <1>1, <1>3 DEF Told
<1>5. Promise!TellOff
    BY <1>2, <1>3, <1>4 DEF Promise!TellOff, Working, Got
<1>6. QED
    BY <1>5 DEF Kept, Promise!PromiseNext

\* Every handler keeps the promise.
LEMMA PromiseStep ==
    ASSUME WorkInv, status # "Paused", DepsReturned', [Next]_vars
    PROVE  Kept
<1> USE DEF barrier, human, thread
<1>0. TypeOK /\ FanoutInv
    BY DEF WorkInv, FanoutInv
<1>1. ASSUME UNCHANGED <<status, state>>, phase' = phase \/ (phase # "cancel" /\ phase' # "cancel")
      PROVE  Kept
    BY <1>1, SameStage, Unseen DEF Working, Got, InState
<1>2. ASSUME NEW c \in Children, ChildStep(c)
      PROVE  Kept
    BY <1>2, ChildStepKeepsPromise
<1>3. CASE StartFanout \/ AskPlan
    <2>1. status = "none" /\ status' \in {"Running", "Waiting"} /\ UNCHANGED <<state, phase>>
        BY <1>3 DEF StartFanout, AskPlan
    <2>2. Stage = "idle" /\ Stage' = "open"
        BY <2>1 DEF Stage, IsOpen
    <2>3. Told' = Told /\ Working' = Working /\ Got' = Got
        BY <2>1, <2>2 DEF Told, Working, Got, InState
    <2>4. Promise!Open
        BY <2>2, <2>3 DEF Promise!Open, Working, Got
    <2>5. QED
        BY <2>4 DEF Kept, Promise!PromiseNext
<1>4. CASE Advance
    <2>1. CASE StartPart
        BY <1>0, <1>2, <2>1, StartsChild DEF ChildStep
    <2>2. CASE Wait \/ NextWave
        BY <1>1, <2>2 DEF Wait, NextWave
    <2>3. CASE FinishFanout
        BY <1>0, <2>3, FinishKeepsPromise
    <2>4. CASE ContinueAfterFailure \/ StopFanout
        <3>1. UNCHANGED <<status, phase>>
            BY <2>4 DEF ContinueAfterFailure, StopFanout
        <3>2. \A p \in Parts : state'[p] = state[p] \/ (state[p] = "Pending" /\ state'[p] = "Skipped")
            BY <1>0, <2>4, GoOnMoves, GiveUpRestMoves DEF ContinueAfterFailure, StopFanout
        <3>3. Working' = Working /\ Got' = Got
            BY <3>2 DEF Working, Got, InState
        <3>4. QED
            BY <3>1, <3>3, SameStage, Unseen
    <2>5. CASE AskFailure
        <3>1. status = "Running" /\ status' = "Paused" /\ UNCHANGED <<state, phase>>
            BY <2>5 DEF AskFailure, WaveFailedOnly, Turn
        <3>2. Stage = "open" /\ Stage' = "open"
            BY <3>1 DEF Stage, IsOpen
        <3>3. Told' = Told /\ Working' = Working /\ Got' = Got
            BY <3>1, <3>2 DEF Told, Working, Got, InState
        <3>4. QED
            BY <3>2, <3>3, Unseen
    <2>6. QED
        BY <1>4, <2>1, <2>2, <2>3, <2>4, <2>5 DEF Advance
<1>5. CASE HumanAnswer
    <2>1. CASE ClearPlan
        <3>1. status = "Waiting" /\ status' = "Running" /\ UNCHANGED <<state, phase>>
            BY <2>1 DEF ClearPlan
        <3>2. Stage = "open" /\ Stage' = "open"
            BY <3>1 DEF Stage, IsOpen
        <3>3. Told' = Told /\ Working' = Working /\ Got' = Got
            BY <3>1, <3>2 DEF Told, Working, Got, InState
        <3>4. QED
            BY <3>2, <3>3, Unseen
    <2>2. CASE NotNow
        BY <2>2, CancelKeepsPromise DEF NotNow, IsOpen
    <2>3. CASE AnswerPartial
        BY <1>1, <2>3 DEF AnswerPartial
    <2>4. QED
        BY <1>5, <2>1, <2>2, <2>3 DEF HumanAnswer, AnswerRetry, AnswerContinue, AnswerStop
<1>6. CASE DeleteOwner
    BY <1>1, <1>6, CancelKeepsPromise DEF DeleteOwner
<1>7. CASE CancelEnds
    BY <1>0, <1>7, CancelEndKeepsPromise
<1>8. CASE LandOwner \/ OthersChange \/ Tick \/ UNCHANGED vars
    BY <1>1, <1>8 DEF LandOwner, OthersChange, Tick, Idle, vars
<1>9. CASE ResumeFanouts \/ TickEnds \/ \E late \in SUBSET ActiveChildren : FanoutTick(late)
    BY <1>1, <1>9 DEF ResumeFanouts, TickEnds, FanoutTick
<1>10. ASSUME NEW panesStay \in BOOLEAN, Restart(panesStay)
       PROVE  Kept
    BY <1>1, <1>10 DEF Restart
<1>11. CASE CancelPart \/ DrainHead \/ LosePart \/ LatePart \/ StopDoomed
            \/ \E c \in Children : ChildMessage(c)
    <2>1. \E c \in Children : ChildStep(c)
        <3>1. /\ CancelPart \/ LosePart \/ LatePart => First(todo) \in Children
              /\ DrainHead => Head(sweep) \in Children
              /\ StopDoomed => doomed \in Children
            BY <1>0, FirstType, HeadTailProperties
            DEF CancelPart, LosePart, LatePart, DrainHead, StopDoomed, TypeOK
        <3>2. QED
            BY <1>11, <3>1 DEF ChildStep
    <2>2. QED
        BY <1>2, <2>1
<1>12. QED
    BY <1>3, <1>4, <1>5, <1>6, <1>7, <1>8, <1>9, <1>10, <1>11 DEF Next, TickStep

\* Where on_failure never means "ask", the fan-out implements its promise, for
\* every plan and every limit: parts are worked at only with the results they
\* need, results are kept, and what the asker is told, once, after everything is
\* over, is the outcome there is (advance_fanout, finish_fanout, cancel_fanout).
THEOREM KeepsPromiseTheorem ==
    ASSUME "ask" \notin OnFailure
    PROVE  Spec => KeepsPromise
<1>1. Init => Promise!PromiseInit
    <2>1. SUFFICES ASSUME Init PROVE Promise!PromiseInit
        OBVIOUS
    <2>2. Stage = "idle" /\ Told = "nothing"
        BY <2>1, StageIs DEF Init
    <2>3. QED
        BY <2>1, <2>2 DEF Init, Promise!PromiseInit, InState
<1>2. WorkInv /\ NeverAsks /\ NeverAsks' /\ [Next]_vars => [Promise!PromiseNext]_(Promise!promiseVars)
    BY PromiseStep DEF NeverAsks, Kept
<1>3. Init => NeverAsks
    BY PlanAssumption DEF Init, NeverAsks, DepsReturned, Unblocked, Waves
<1>4. FanoutInv /\ NeverAsks /\ [Next]_vars => NeverAsks'
    BY NeverAsksStep
<1>5. QED
    BY <1>1, <1>2, <1>3, <1>4, InvTheorem, WorkInvTheorem, PTL
    DEF Spec, KeepsPromise, Promise!PromiseSpec
=============================================================================
