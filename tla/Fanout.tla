------------------------------- MODULE Fanout -------------------------------
(***************************************************************************)
(* One fan-out of one flight in towerd, the single-threaded engine of      *)
(* tgz-tower: a plan of parts in waves, the barrier between the waves, the *)
(* queue that parts wait in for a free slot, the agents that do them, the  *)
(* questions the human is asked, and the one result the asker gets.        *)
(*                                                                         *)
(* The engine handles one message at a time, so every handler is an action *)
(* guarded by Idle.  Handlers that walk the barrier leave `advancing` set: *)
(* the turns of advance_fanout's loop are then the only enabled actions,   *)
(* until one of them breaks out of the loop.  A tick is a handler of       *)
(* several phases and cancel_fanout a loop over the parts, with `phase`    *)
(* saying where the thread is.                                             *)
(*                                                                         *)
(* Abstracted: all parts use one worker role without a local model ladder; *)
(* part texts, paths and results; the limits do not change; the clock      *)
(* (a tick may find any active part late); the 64-turn bound of the loop,  *)
(* which 8 waves, the most a configuration allows, do not reach.           *)
(*                                                                         *)
(* A definition named X_Y is X with a plausible mistake Y in it.  Next     *)
(* uses none of them: they show that the properties tell the difference.   *)
(***************************************************************************)
EXTENDS Integers, FiniteSets, SequencesExt

CONSTANTS
    NParts,          \* parts of the plan, numbered in plan order
    NWaves,          \* waves of the plan
    WaveOf,          \* the wave each part is in
    DependsOn,       \* FanoutTask.depends_on, after serialize_conflicts
    MaxAgents,       \* Fanout.max_agents
    RoleCap,         \* the worker role's max_concurrency
    MaxRetries,      \* [fanout] max_retries
    OnFailureCfg,    \* [fanout] on_failure: the values it takes, more than one when
                     \* the config file is edited while the fan-out runs
    Swarm,           \* planned by Tower itself (return_to is TOWER_RETURN)
    HandsFree,       \* Fanout.hands_free
    HasTimeout,      \* [fanout] child_timeout_mins is not 0
    MaxRestarts,     \* bound: restarts of the daemon
    MaxHandReleases, \* bound: drafts a human releases by hand
    MaxDeletes       \* bound: child flights a human deletes

Parts == 1..NParts
Waves == 1..NWaves

(***************************************************************************)
(* A child flight and its handoff packet, named by the part it was made    *)
(* for and that part's retry count at the time: begin_wave makes one per   *)
(* attempt.                                                                *)
(***************************************************************************)
Children == Parts \X (0..MaxRetries)
NoChild == <<0, 0>>

ASSUME PlanAssumption ==
    /\ NParts \in Nat /\ NWaves \in Nat \ {0}
    /\ WaveOf \in [Parts -> Waves]
    /\ \A w \in Waves : \E p \in Parts : WaveOf[p] = w
    /\ DependsOn \in [Parts -> SUBSET Parts]
    /\ \A p \in Parts : \A d \in DependsOn[p] : WaveOf[d] < WaveOf[p]

ASSUME LimitsAssumption ==
    /\ MaxAgents \in Nat \ {0} /\ RoleCap \in Nat /\ MaxRetries \in Nat
    /\ OnFailureCfg \in (SUBSET {"auto", "ask", "continue", "stop"}) \ {{}}
    /\ Swarm \in BOOLEAN /\ HandsFree \in BOOLEAN /\ HasTimeout \in BOOLEAN
    /\ MaxRestarts \in Nat /\ MaxHandReleases \in Nat /\ MaxDeletes \in Nat

VARIABLES
    status,        \* Fanout.status; "none" before the plan is accepted
    wave,          \* Fanout.wave, from 1; NWaves + 1 is past the last wave
    state,         \* FanoutTask.state of each part
    retries,       \* FanoutTask.retries of each part
    packet,        \* HandoffState of each child's packet; "none": not made yet,
                   \* "gone": its flight was deleted
    agent,         \* the agent on each child: "none", "live" or "off"
    queue,         \* State.local_queue, the entries that are children
    pending,       \* pending_actions: "start" (the plan), "failed" (a question)
    inbox,         \* which of those questions the human can see and answer
    owner,         \* the flight the fan-out belongs to: "open", "landed", "gone"
    answers,       \* how many outcomes were reported to the asker
    others,        \* live agents of the worker role on other flights
    advancing,     \* the fan-out is in fanouts_advancing
    phase,         \* what the thread is in the middle of, "idle" between messages
    sweep,         \* drain_local_queue: entries of its copy still to look at
    todo,          \* resume_fanouts, fanout_tick, cancel_fanout: children to go
    doomed,        \* child whose agent is stopped once the barrier has moved
    resumed,       \* fanouts_resumed
    restarts,      \* how often the daemon was restarted
    handReleases,  \* how many drafts a human released
    deletes        \* how many child flights a human deleted

barrier == <<status, wave, state, retries>>
flights == <<packet, agent, queue>>
human   == <<pending, inbox, owner, answers>>
thread  == <<phase, sweep, todo, doomed, resumed>>
bounds  == <<restarts, handReleases, deletes>>
vars    == <<barrier, flights, human, others, advancing, thread, bounds>>

FanoutStatus == {"Waiting", "Running", "Paused", "Done", "Partial", "Cancelled"}
TaskState    == {"Pending", "Queued", "Running", "Returned", "Failed", "Skipped"}

TypeOK ==
    /\ status \in FanoutStatus \cup {"none"}
    /\ wave \in 1..NWaves + 1
    /\ state \in [Parts -> TaskState]
    /\ retries \in [Parts -> 0..MaxRetries]
    /\ packet \in [Children -> {"none", "Draft", "Accepted", "Returned", "gone"}]
    /\ agent \in [Children -> {"none", "live", "off"}]
    /\ queue \in Seq(Children)
    /\ pending \in SUBSET {"start", "failed"}
    /\ inbox \in SUBSET {"start", "failed"}
    /\ owner \in {"open", "landed", "gone"}
    /\ answers \in Nat
    /\ others \in 0..RoleCap
    /\ advancing \in BOOLEAN
    /\ phase \in {"idle", "drain", "lost", "late", "cancel"}
    /\ sweep \in Seq(Children)
    /\ todo \in SUBSET Children
    /\ doomed \in Children \cup {NoChild}
    /\ resumed \in BOOLEAN
    /\ restarts \in 0..MaxRestarts
    /\ handReleases \in 0..MaxHandReleases
    /\ deletes \in 0..MaxDeletes

Init ==
    /\ status = "none" /\ wave = 1
    /\ state = [p \in Parts |-> "Pending"]
    /\ retries = [p \in Parts |-> 0]
    /\ packet = [c \in Children |-> "none"]
    /\ agent = [c \in Children |-> "none"]
    /\ queue = <<>>
    /\ pending = {} /\ inbox = {} /\ owner = "open" /\ answers = 0
    /\ others \in 0..RoleCap
    /\ advancing = FALSE
    /\ phase = "idle" /\ sweep = <<>> /\ todo = {} /\ doomed = NoChild
    /\ resumed = TRUE
    /\ restarts = 0 /\ handReleases = 0 /\ deletes = 0

-----------------------------------------------------------------------------
(* What the handlers read. *)

\* FanoutStatus::is_open, TaskState::is_done
IsOpen == status \in {"Waiting", "Running", "Paused"}
IsDone(s) == s \in {"Returned", "Failed", "Skipped"}

InState(s) == {p \in Parts : state[p] = s}
CurrentWave == {p \in Parts : WaveOf[p] = wave}

\* part_of: a child still stands for its part until the part is tried again.
IsPart(c) == retries[c[1]] = c[2]
ChildOf(p) == <<p, retries[p]>>

\* The child of the part that comes first in the plan.
First(S) == CHOOSE c \in S : c[1] = Min({d[1] : d \in S})

\* role_load: live agents of the role on flights that have not landed.
RoleLoad ==
    others + Cardinality({c \in Children : agent[c] = "live" /\ packet[c] # "Returned"})

MustWait_OneMore(c) ==
    /\ IsPart(c)
    /\ \/ Cardinality(InState("Running") \ {c[1]}) > MaxAgents
       \/ RoleLoad >= RoleCap

\* fanout_wait: all slots of the fan-out or of the role are taken.
MustWait(c) ==
    /\ IsPart(c)
    /\ \/ Cardinality(InState("Running") \ {c[1]}) >= MaxAgents
       \/ RoleLoad >= RoleCap

\* on_failure: an agent judges a partial result itself; Tower's own split asks,
\* unless the flight runs hands-free.
AutoOnFailure == IF ~Swarm \/ HandsFree THEN "continue" ELSE "ask"
OnFailure == {IF cfg = "auto" THEN AutoOnFailure ELSE cfg : cfg \in OnFailureCfg}

DependsUpon_DirectOnly(seed, eligible) ==
    {p \in eligible : DependsOn[p] \cap seed # {}}

(***************************************************************************)
(* The least set of eligible parts that contains every eligible part       *)
(* depending on a seed or on a member: what the loops of skip_dependents   *)
(* and of a retry compute.                                                 *)
(***************************************************************************)
DependsUpon(seed, eligible) ==
    {p \in eligible :
        \A S \in SUBSET eligible :
            (\A q \in eligible : DependsOn[q] \cap (seed \cup S) # {} => q \in S)
            => p \in S}

\* fanout::skip_dependents
SkipDependents ==
    LET newly == DependsUpon(InState("Failed") \cup InState("Skipped"), InState("Pending"))
    IN  [p \in Parts |-> IF p \in newly THEN "Skipped" ELSE state[p]]

RetryableParts_AnyWave ==
    {p \in Parts : state[p] = "Failed" /\ retries[p] < MaxRetries}

\* retryable_parts
RetryableParts ==
    {p \in CurrentWave : state[p] = "Failed" /\ retries[p] < MaxRetries}

PartState_Overwrites(c, s) ==
    IF IsPart(c) THEN [state EXCEPT ![c[1]] = s] ELSE state

\* fanout_part_state, and the part's side of fanout_child_done: a part that is
\* over stays as it is.
PartState(c, s) ==
    IF IsPart(c) /\ ~IsDone(state[c[1]])
    THEN [state EXCEPT ![c[1]] = s]
    ELSE state

\* The handler is done: the next message may be taken.
Idle == phase = "idle" /\ ~advancing /\ doomed = NoChild

\* fanout_child_done: the part's state, and the barrier moves unless the part
\* was over already (advance_fanout leaves a fan-out alone that is not Running).
ChildDone(c, s) ==
    /\ state' = PartState(c, s)
    /\ advancing' = (IsPart(c) /\ ~IsDone(state[c[1]]) /\ status = "Running")

\* stop_agent and mark_offline: a part whose agent goes before it returned failed.
StopAgent(c) ==
    /\ agent' = [agent EXCEPT ![c] = "off"]
    /\ IF agent[c] = "live" /\ packet[c] = "Accepted"
       THEN ChildDone(c, "Failed")
       ELSE UNCHANGED <<state, advancing>>

-----------------------------------------------------------------------------
(***************************************************************************)
(* release: a draft's agent is launched, or its part waits in line.  Used  *)
(* by begin_wave for a child it just made, by drain_local_queue, and when  *)
(* a human releases a draft.                                               *)
(***************************************************************************)

Held_Twice(c) ==
    /\ MustWait(c)
    /\ queue' = Append(queue, c)
    /\ packet' = [packet EXCEPT ![c] = "Draft"]
    /\ state' = PartState(c, "Queued")
    /\ UNCHANGED agent

\* queue_local: an entry that is in line already keeps its place.
Held(c) ==
    /\ MustWait(c)
    /\ queue' = IF c \in Range(queue) THEN queue ELSE Append(queue, c)
    /\ packet' = [packet EXCEPT ![c] = "Draft"]
    /\ state' = PartState(c, "Queued")
    /\ UNCHANGED agent

Launched_NoLimit(c) ==
    /\ ~MustWait(c)
    /\ queue' = RemoveFirst(queue, c)
    /\ packet' = [packet EXCEPT ![c] = "Accepted"]
    /\ agent' = [agent EXCEPT ![c] = "live"]
    /\ state' = PartState(c, "Running")

Launched(c) ==
    /\ ~MustWait(c) /\ RoleLoad < RoleCap
    /\ queue' = RemoveFirst(queue, c)
    /\ packet' = [packet EXCEPT ![c] = "Accepted"]
    /\ agent' = [agent EXCEPT ![c] = "live"]
    /\ state' = PartState(c, "Running")

\* The packet is a draft again; the barrier hears of it on the next tick.
LaunchFails(c) ==
    /\ ~MustWait(c)
    /\ queue' = RemoveFirst(queue, c)
    /\ packet' = [packet EXCEPT ![c] = "Draft"]
    /\ state' = PartState(c, "Failed")
    /\ UNCHANGED agent

Release(c) == Held(c) \/ Launched(c) \/ LaunchFails(c)

-----------------------------------------------------------------------------
(***************************************************************************)
(* advance_fanout: the turns of its loop, one action per outcome of        *)
(* next_step.  Only a Running fan-out is walked.                           *)
(***************************************************************************)

Turn == advancing /\ status = "Running"

WavePending == {p \in CurrentWave : state[p] = "Pending"}
WaveActive_RunningOnly == {p \in CurrentWave : state[p] = "Running"}

WaveActive  == {p \in CurrentWave : state[p] \in {"Queued", "Running"}}
WaveFailed  == {p \in CurrentWave : state[p] = "Failed"}

\* begin_wave, for the first part of the wave that has not started.
StartPart ==
    /\ Turn
    /\ WavePending # {}
    /\ LET p == Min(WavePending)
       IN  \/ Release(ChildOf(p))
           \/ /\ state' = [state EXCEPT ![p] = "Failed"]   \* make_child refuses
              /\ UNCHANGED flights
    /\ UNCHANGED <<status, wave, retries, human, others, advancing, thread, bounds>>

\* Parts are still running or queued: the loop ends.
Wait ==
    /\ Turn
    /\ WavePending = {} /\ WaveActive # {}
    /\ advancing' = FALSE
    /\ UNCHANGED <<barrier, flights, human, others, thread, bounds>>

WaveFailedOnly == Turn /\ WavePending = {} /\ WaveActive = {} /\ WaveFailed # {}

GoOn_PastTheEnd ==
    /\ state' = SkipDependents
    /\ wave' = IF wave + 1 < NWaves THEN wave + 1 ELSE wave + 2

\* continue_after_failure
GoOn ==
    /\ state' = SkipDependents
    /\ wave' = wave + 1

\* stop_fanout
GiveUpRest ==
    /\ state' = [p \in Parts |-> IF state[p] = "Pending" THEN "Skipped" ELSE state[p]]
    /\ wave' = NWaves + 1

ContinueAfterFailure ==
    /\ WaveFailedOnly /\ "continue" \in OnFailure
    /\ GoOn
    /\ UNCHANGED <<status, retries, flights, human, others, advancing, thread, bounds>>

StopFanout ==
    /\ WaveFailedOnly /\ "stop" \in OnFailure
    /\ GiveUpRest
    /\ UNCHANGED <<status, retries, flights, human, others, advancing, thread, bounds>>

\* ask_fanout_failure: one question at a time, and the loop ends.
AskFailure ==
    /\ WaveFailedOnly /\ "ask" \in OnFailure
    /\ status' = "Paused"
    /\ pending' = pending \cup {"failed"}
    /\ inbox' = IF "failed" \in pending THEN inbox ELSE inbox \cup {"failed"}
    /\ advancing' = FALSE
    /\ UNCHANGED <<wave, state, retries, flights, owner, answers, others, thread, bounds>>

WaveOver == Turn /\ WavePending = {} /\ WaveActive = {} /\ WaveFailed = {}

NextWave ==
    /\ WaveOver /\ wave < NWaves
    /\ wave' = wave + 1
    /\ UNCHANGED <<status, state, retries, flights, human, others, advancing, thread, bounds>>

\* finish_fanout: the outcome goes to the lead, or to Tower itself, which asks
\* what to do with a result that has parts missing.
FinishFanout ==
    /\ WaveOver /\ wave >= NWaves
    /\ LET clean == InState("Returned") = Parts
           asks  == Swarm /\ ~clean
       IN  /\ status' = IF clean THEN "Done" ELSE "Partial"
           /\ pending' = IF asks THEN pending \cup {"failed"} ELSE pending
           /\ inbox' = IF asks THEN inbox \cup {"failed"} ELSE inbox
    /\ answers' = answers + 1
    /\ advancing' = FALSE
    /\ UNCHANGED <<wave, state, retries, flights, owner, others, thread, bounds>>

Advance ==
    \/ StartPart \/ Wait \/ NextWave \/ FinishFanout
    \/ ContinueAfterFailure \/ StopFanout \/ AskFailure

-----------------------------------------------------------------------------
(* Starting a fan-out, and the human's answers to its questions. *)

\* start_fanout when the policy says Run.
StartFanout ==
    /\ Idle /\ status = "none" /\ owner = "open"
    /\ status' = "Running"
    /\ advancing' = TRUE
    /\ UNCHANGED <<wave, state, retries, flights, human, others, thread, bounds>>

\* start_fanout when the policy says Ask.
AskPlan ==
    /\ Idle /\ status = "none" /\ owner = "open"
    /\ status' = "Waiting"
    /\ pending' = pending \cup {"start"}
    /\ inbox' = inbox \cup {"start"}
    /\ UNCHANGED <<wave, state, retries, flights, owner, answers, others, advancing,
                   thread, bounds>>

\* resolve_pending_action: a question that is no longer in the Inbox cannot be
\* answered ("That item is gone"); an answer takes it away.
Answer(q) ==
    /\ Idle /\ q \in inbox
    /\ pending' = pending \ {q}
    /\ inbox' = inbox \ {q}

ClearPlan ==
    /\ Answer("start") /\ status = "Waiting"
    /\ status' = "Running"
    /\ advancing' = TRUE
    /\ UNCHANGED <<wave, state, retries, flights, owner, answers, others, thread, bounds>>

TriedAgain_SameChild == retries

\* A part that is tried again lets go of its child: the next attempt makes a new one.
TriedAgain ==
    [p \in Parts |-> IF p \in RetryableParts THEN retries[p] + 1 ELSE retries[p]]

\* The failed parts of this wave and what was skipped because of them run again.
AnswerRetry ==
    /\ Answer("failed") /\ status = "Paused"
    /\ RetryableParts # {}
    /\ LET back == DependsUpon(RetryableParts, InState("Skipped"))
       IN  state' = [p \in Parts |-> IF p \in RetryableParts \cup back
                                     THEN "Pending" ELSE state[p]]
    /\ retries' = TriedAgain
    /\ status' = "Running"
    /\ advancing' = TRUE
    /\ UNCHANGED <<wave, flights, owner, answers, others, thread, bounds>>

AnswerContinue ==
    /\ Answer("failed") /\ status = "Paused"
    /\ GoOn
    /\ status' = "Running"
    /\ advancing' = TRUE
    /\ UNCHANGED <<retries, flights, owner, answers, others, thread, bounds>>

AnswerStop ==
    /\ Answer("failed") /\ status = "Paused"
    /\ GiveUpRest
    /\ status' = "Running"
    /\ advancing' = TRUE
    /\ UNCHANGED <<retries, flights, owner, answers, others, thread, bounds>>

\* "gates" or "dismiss", for Tower's own split with parts missing.
AnswerPartial ==
    /\ Answer("failed") /\ status = "Partial"
    /\ UNCHANGED <<barrier, flights, owner, answers, others, advancing, thread, bounds>>

-----------------------------------------------------------------------------
CancelBegins_ClosedLast ==
    /\ phase' = "cancel"
    /\ todo' = {ChildOf(p) : p \in InState("Queued") \cup InState("Running")}
    /\ UNCHANGED <<status, wave, state, retries, flights, answers, others, advancing,
                   sweep, doomed, resumed, bounds>>

(***************************************************************************)
(* cancel_fanout: closed first, then part by part in plan order (a queued  *)
(* part leaves the line, a running one's agent is stopped, which reports   *)
(* the part failed), then the rest is skipped and the asker hears why.     *)
(***************************************************************************)
CancelBegins ==
    /\ status' = "Cancelled"
    /\ phase' = "cancel"
    /\ todo' = {ChildOf(p) : p \in InState("Queued") \cup InState("Running")}
    /\ UNCHANGED <<wave, state, retries, flights, answers, others, advancing,
                   sweep, doomed, resumed, bounds>>

\* The human says "not now" to the plan.
NotNow ==
    /\ Answer("start") /\ status = "Waiting"
    /\ CancelBegins
    /\ UNCHANGED owner

\* delete_flight of the owner: its items go with it, and its fan-out is cancelled.
DeleteOwner ==
    /\ Idle /\ owner # "gone"
    /\ owner' = "gone"
    /\ inbox' = {}
    /\ IF IsOpen
       THEN CancelBegins /\ pending' = pending
       ELSE UNCHANGED <<barrier, flights, pending, answers, others, advancing, thread, bounds>>

Cancelling == phase = "cancel" /\ ~advancing

CancelPart_StaysInLine ==
    /\ Cancelling /\ todo # {}
    /\ LET c == First(todo)
       IN  /\ todo' = todo \ {c}
           /\ IF state[c[1]] = "Queued"
              THEN UNCHANGED <<state, agent, advancing>>
              ELSE StopAgent(c)
    /\ UNCHANGED <<status, wave, retries, packet, queue, human, others, phase, sweep,
                   doomed, resumed, bounds>>

CancelPart ==
    /\ Cancelling /\ todo # {}
    /\ LET c == First(todo)
       IN  /\ todo' = todo \ {c}
           /\ IF state[c[1]] = "Queued"
              THEN /\ queue' = RemoveFirst(queue, c)
                   /\ UNCHANGED <<state, agent, advancing>>
              ELSE StopAgent(c) /\ UNCHANGED queue
    /\ UNCHANGED <<status, wave, retries, packet, human, others, phase, sweep, doomed,
                   resumed, bounds>>

CancelEnds ==
    /\ Cancelling /\ todo = {}
    /\ state' = [p \in Parts |-> IF IsDone(state[p]) THEN state[p] ELSE "Skipped"]
    /\ pending' = {}
    /\ inbox' = inbox \ {"failed"}
    /\ answers' = IF Swarm THEN answers ELSE answers + 1
    /\ phase' = "idle"
    /\ UNCHANGED <<status, wave, retries, flights, owner, others, advancing, sweep, todo,
                   doomed, resumed, bounds>>

-----------------------------------------------------------------------------
(* Messages about the children, from agents, panes and the human. *)

\* tower_return, from any agent whose child's packet is accepted: on_tool does
\* not ask whether the agent is still live.
Return(c) ==
    /\ Idle /\ agent[c] # "none" /\ packet[c] = "Accepted"
    /\ packet' = [packet EXCEPT ![c] = "Returned"]
    /\ ChildDone(c, "Returned")
    /\ UNCHANGED <<status, wave, retries, agent, queue, human, others, thread, bounds>>

\* The agent exits, crashes, is stopped by the human, or has ended the turn it
\* returned in.
AgentGone(c) ==
    /\ Idle /\ agent[c] = "live"
    /\ StopAgent(c)
    /\ UNCHANGED <<status, wave, retries, packet, queue, human, others, thread, bounds>>

\* remind_unreturned after every reminder: the barrier first, then the agent.
GiveUpReminding(c) ==
    /\ Idle /\ agent[c] = "live" /\ packet[c] = "Accepted"
    /\ ChildDone(c, "Failed")
    /\ doomed' = c
    /\ UNCHANGED <<status, wave, retries, flights, human, others, phase, sweep, todo,
                   resumed, bounds>>

StopDoomed ==
    /\ ~advancing /\ doomed # NoChild
    /\ StopAgent(doomed)
    /\ doomed' = NoChild
    /\ UNCHANGED <<status, wave, retries, packet, queue, human, others, phase, sweep, todo,
                   resumed, bounds>>

\* delete_flight of a child, refused while an agent is live on it.
DeletePart(c) ==
    /\ Idle /\ packet[c] \in {"Draft", "Accepted", "Returned"} /\ agent[c] # "live"
    /\ deletes < MaxDeletes
    /\ deletes' = deletes + 1
    /\ packet' = [packet EXCEPT ![c] = "gone"]
    /\ agent' = [agent EXCEPT ![c] = "none"]
    /\ queue' = RemoveFirst(queue, c)
    /\ ChildDone(c, "Failed")
    /\ UNCHANGED <<status, wave, retries, human, others, thread, restarts, handReleases>>

\* ClientMsg::ReleaseHandoff: a human releases a draft, also one of a part that
\* failed to start, timed out or was tried again.
HandRelease(c) ==
    /\ Idle /\ packet[c] = "Draft" /\ handReleases < MaxHandReleases
    /\ Release(c)
    /\ handReleases' = handReleases + 1
    /\ UNCHANGED <<status, wave, retries, human, others, advancing, thread, restarts, deletes>>

\* land: the lead's own work passed its gates.  Every item of the flight that
\* is not an agent's question leaves the Inbox.  Tower's own split has no lead:
\* its flight lands after the fan-out.
LandOwner ==
    /\ Idle /\ owner = "open" /\ (Swarm => ~IsOpen)
    /\ owner' = "landed"
    /\ inbox' = {}
    /\ UNCHANGED <<barrier, flights, pending, answers, others, advancing, thread, bounds>>

\* Other flights of the role start and stop agents.
OthersChange ==
    /\ Idle
    /\ \/ RoleLoad < RoleCap /\ others' = others + 1
       \/ others > 0 /\ others' = others - 1
    /\ UNCHANGED <<barrier, flights, human, advancing, thread, bounds>>

-----------------------------------------------------------------------------
(* The tick, every 150 ms. *)

\* drain_local_queue looks at a copy of the queue, oldest first.
Tick ==
    /\ Idle
    /\ phase' = "drain"
    /\ sweep' = queue
    /\ UNCHANGED <<barrier, flights, human, others, advancing, todo, doomed, resumed, bounds>>

DrainHead ==
    /\ phase = "drain" /\ sweep # <<>>
    /\ sweep' = Tail(sweep)
    /\ LET c == Head(sweep)
       IN  IF packet[c] = "Draft"
           THEN Release(c)
           ELSE queue' = RemoveFirst(queue, c) /\ UNCHANGED <<state, packet, agent>>
    /\ UNCHANGED <<status, wave, retries, human, others, advancing, phase, todo, doomed,
                   resumed, bounds>>

ResumeFanouts_KeepsLost ==
    /\ phase = "drain" /\ sweep = <<>>
    /\ phase' = "lost"
    /\ todo' = {}
    /\ resumed' = TRUE
    /\ UNCHANGED <<barrier, flights, human, others, advancing, sweep, doomed, bounds>>

\* resume_fanouts, on the first tick after a start: the parts whose agent is gone.
ResumeFanouts ==
    /\ phase = "drain" /\ sweep = <<>>
    /\ phase' = "lost"
    /\ todo' = IF resumed \/ status # "Running" THEN {}
               ELSE {ChildOf(p) : p \in {q \in InState("Running") : agent[ChildOf(q)] # "live"}}
    /\ resumed' = TRUE
    /\ UNCHANGED <<barrier, flights, human, others, advancing, sweep, doomed, bounds>>

LosePart ==
    /\ phase = "lost" /\ ~advancing /\ todo # {}
    /\ LET c == First(todo)
       IN  todo' = todo \ {c} /\ ChildDone(c, "Failed")
    /\ UNCHANGED <<status, wave, retries, flights, human, others, phase, sweep, doomed,
                   resumed, bounds>>

\* fanout_tick collects the active parts that are past the time limit.
ActiveChildren ==
    IF status = "Running"
    THEN {ChildOf(p) : p \in InState("Queued") \cup InState("Running")}
    ELSE {}

FanoutTick_RunningOnly(late) ==
    /\ phase = "lost" /\ ~advancing /\ todo = {}
    /\ late \subseteq (IF HasTimeout THEN {c \in ActiveChildren : state[c[1]] = "Running"} ELSE {})
    /\ phase' = "late"
    /\ todo' = late
    /\ UNCHANGED <<barrier, flights, human, others, advancing, sweep, doomed, resumed, bounds>>

FanoutTick(late) ==
    /\ phase = "lost" /\ ~advancing /\ todo = {}
    /\ late \subseteq (IF HasTimeout THEN ActiveChildren ELSE {})
    /\ phase' = "late"
    /\ todo' = late
    /\ UNCHANGED <<barrier, flights, human, others, advancing, sweep, doomed, resumed, bounds>>

LatePart_KeepsAgent ==
    /\ phase = "late" /\ ~advancing /\ doomed = NoChild /\ todo # {}
    /\ LET c == First(todo)
       IN  /\ todo' = todo \ {c}
           /\ queue' = RemoveFirst(queue, c)
           /\ ChildDone(c, "Failed")
    /\ UNCHANGED <<status, wave, retries, packet, agent, human, others, phase, sweep,
                   doomed, resumed, bounds>>

\* A late part leaves the line and fails first; its agent is stopped after the
\* barrier has moved.
LatePart ==
    /\ phase = "late" /\ ~advancing /\ doomed = NoChild /\ todo # {}
    /\ LET c == First(todo)
       IN  /\ todo' = todo \ {c}
           /\ queue' = RemoveFirst(queue, c)
           /\ ChildDone(c, "Failed")
           /\ doomed' = IF state[c[1]] = "Running" THEN c ELSE NoChild
    /\ UNCHANGED <<status, wave, retries, packet, agent, human, others, phase, sweep,
                   resumed, bounds>>

TickEnds_Still ==
    /\ phase = "late" /\ ~advancing /\ doomed = NoChild /\ todo = {}
    /\ phase' = "idle"
    /\ UNCHANGED <<barrier, flights, human, others, advancing, sweep, todo, doomed, resumed,
                   bounds>>

\* Every Running fan-out is walked: a part may have failed to start in the drain.
TickEnds ==
    /\ phase = "late" /\ ~advancing /\ doomed = NoChild /\ todo = {}
    /\ phase' = "idle"
    /\ advancing' = (status = "Running")
    /\ UNCHANGED <<barrier, flights, human, others, sweep, todo, doomed, resumed, bounds>>

(***************************************************************************)
(* Input::Shutdown saves and exits; Engine::new reads the state back with  *)
(* every ACP agent offline, without what mark_offline does for a part.     *)
(* Agents in panes stay live until the GUI reports their pane closed.      *)
(***************************************************************************)
Restart(panesStay) ==
    /\ Idle /\ restarts < MaxRestarts
    /\ agent' = [c \in Children |->
                    IF agent[c] = "live" /\ ~panesStay THEN "off" ELSE agent[c]]
    /\ others' = IF panesStay THEN others ELSE 0
    /\ resumed' = FALSE
    /\ restarts' = restarts + 1
    /\ UNCHANGED <<barrier, packet, queue, human, advancing, phase, sweep, todo, doomed,
                   handReleases, deletes>>

-----------------------------------------------------------------------------
ChildMessage(c) ==
    \/ Return(c) \/ AgentGone(c) \/ GiveUpReminding(c)
    \/ DeletePart(c) \/ HandRelease(c)

HumanAnswer ==
    \/ ClearPlan \/ NotNow \/ AnswerRetry \/ AnswerContinue \/ AnswerStop
    \/ AnswerPartial

TickStep ==
    \/ DrainHead \/ ResumeFanouts \/ LosePart \/ LatePart \/ StopDoomed \/ TickEnds
    \/ \E late \in SUBSET ActiveChildren : FanoutTick(late)

Next ==
    \/ StartFanout \/ AskPlan \/ Advance \/ HumanAnswer
    \/ DeleteOwner \/ CancelPart \/ CancelEnds \/ LandOwner
    \/ \E c \in Children : ChildMessage(c)
    \/ OthersChange
    \/ Tick \/ TickStep
    \/ \E panesStay \in BOOLEAN : Restart(panesStay)

Spec == Init /\ [][Next]_vars

(***************************************************************************)
(* The thread finishes what it began and the ticker never stops.  A part   *)
(* that stays active through endlessly many ticks is found late by one.    *)
(***************************************************************************)
TimesOut(p) ==
    \E late \in SUBSET ActiveChildren : ChildOf(p) \in late /\ FanoutTick(late)

Fairness ==
    /\ WF_vars(Advance \/ CancelPart \/ CancelEnds \/ TickStep)
    /\ WF_vars(Tick)
    /\ \A p \in Parts : SF_vars(TimesOut(p))

FairSpec == Spec /\ Fairness

-----------------------------------------------------------------------------
(* Safety. *)

IsClosed == status \in {"Done", "Partial", "Cancelled"}

\* The waves are a barrier: every part of an earlier wave is over and no part
\* of a later wave has started, through failures, retries, time limits and
\* restarts (next_step, continue_after_failure, resolve_fanout_failure).
Barrier ==
    \A p \in Parts :
        /\ WaveOf[p] < wave => IsDone(state[p])
        /\ WaveOf[p] > wave => state[p] \in {"Pending", "Skipped"}

\* A part that started has every result it depends on: "Parts that wait on a
\* failed or skipped part cannot run" (skip_dependents, core/src/fanout.rs:514).
DepsReturned ==
    \A p \in Parts :
        state[p] \in {"Queued", "Running", "Returned"}
            => \A d \in DependsOn[p] : state[d] = "Returned"

\* Never more parts at once than the fan-out's slots, nor more agents than the
\* role's max_concurrency (fanout_wait, launch).
Capacity ==
    /\ Cardinality(InState("Running")) <= MaxAgents
    /\ RoleLoad <= RoleCap

\* The asker hears the outcome once: never while the fan-out is open, never
\* twice (finish_fanout, cancel_fanout; Tower tells itself nothing of a cancel).
AnsweredOnce ==
    answers = CASE status \in {"Done", "Partial"}              -> 1
                [] status = "Cancelled" /\ phase # "cancel" /\ ~Swarm -> 1
                [] OTHER                                       -> 0

\* A queued part is in line, once, with a packet that can still be released, so
\* a free slot reaches it (queue_local, drain_local_queue).
QueueSound ==
    /\ IsInjective(queue)
    /\ phase # "cancel" => \A p \in InState("Queued") :
          ChildOf(p) \in Range(queue) /\ packet[ChildOf(p)] = "Draft"

\* A running part has a live agent that can still return, from the first tick
\* after a start on (mark_offline, resume_fanouts).
RunningHasAgent ==
    resumed /\ phase # "lost" =>
        \A p \in InState("Running") :
            agent[ChildOf(p)] = "live" /\ packet[ChildOf(p)] = "Accepted"

\* A fan-out that waits for the human has its question recorded, and something
\* the answer can act on: a plan nobody started, or a wave that is over with
\* failed parts (ask_fanout_failure, start_fanout).
WaitsForAnAnswer ==
    /\ status = "Waiting" => "start" \in pending /\ InState("Pending") = Parts
    /\ status = "Paused" =>
          /\ "failed" \in pending
          /\ WaveFailed # {} /\ InState("Queued") = {} /\ InState("Running") = {}

\* Once a fan-out is closed, and the handler that closed it is done, every part
\* is over, nothing of it waits in line and no agent still works for it.
ClosedIsOver ==
    IsClosed /\ Idle =>
        /\ \A p \in Parts : IsDone(state[p])
        /\ queue = <<>>
        /\ \A c \in Children : agent[c] = "live" => packet[c] = "Returned"

\* Two attempts at one part never work at the same time: a retry starts after
\* the failed attempt's agent is gone (resolve_fanout_failure, fanout_tick).
OneWorkerPerPart ==
    \A c, d \in Children :
        /\ c[1] = d[1] /\ c # d
        /\ agent[c] = "live" /\ packet[c] = "Accepted"
        => ~(agent[d] = "live" /\ packet[d] = "Accepted")

\* The question of a fan-out that waits for the human stays where the human can
\* answer it: "A fan-out's question stays until it gets an answer that fits"
\* (resolve_pending_action, towerd/src/guard.rs:378).
QuestionStays ==
    /\ status = "Waiting" => "start" \in inbox
    /\ status = "Paused" => "failed" \in inbox

-----------------------------------------------------------------------------
(* Why the barrier holds: what every step keeps true together with it. *)

\* A child is made when its part starts, for the part's present attempt or an
\* earlier one; a part that is pending, or was skipped before it started, has none.
Made ==
    /\ \A c \in Children : packet[c] # "none" => c[2] <= retries[c[1]]
    /\ \A p \in Parts :
          /\ state[p] = "Pending" => packet[ChildOf(p)] = "none"
          /\ state[p] \in {"Queued", "Running"} => packet[ChildOf(p)] # "none"
          /\ state[p] = "Skipped" /\ status # "Cancelled" => packet[ChildOf(p)] = "none"
    /\ \A c \in todo : packet[c] # "none"

\* A fan-out is paused on a wave that is over and has failed parts.
PausedOnFailure ==
    status = "Paused" => WavePending = {} /\ WaveActive = {} /\ WaveFailed # {}

\* Only a cancelled fan-out is in the middle of a cancel.
CancelCloses == phase = "cancel" => status = "Cancelled"

FanoutInv ==
    /\ TypeOK /\ Barrier /\ Made /\ PausedOnFailure /\ CancelCloses /\ AnsweredOnce

-----------------------------------------------------------------------------
(* What a step may never do. *)

\* A closed fan-out stays closed, a part's result is never taken back, and a
\* failed or skipped part runs again only by the human's retry, in the wave the
\* barrier stopped at or a later one (fanout_child_done, fanout_part_state).
OverIsFinal ==
    [][ /\ IsClosed => status' = status
        /\ \A p \in Parts :
              IsDone(state[p]) /\ state'[p] # state[p] =>
                  /\ state[p] # "Returned" /\ state'[p] = "Pending"
                  /\ status = "Paused" /\ WaveOf[p] >= wave ]_vars

\* An agent starts only for the present attempt of a part that has not run, in
\* a fan-out that is Running: not after a cancel, a time limit or a retry left
\* its draft behind.
StartsOnlyLiveParts ==
    [][ \A c \in Children :
            agent[c] # "live" /\ agent'[c] = "live" =>
                /\ status = "Running" /\ IsPart(c)
                /\ state[c[1]] \in {"Pending", "Queued"} ]_vars

-----------------------------------------------------------------------------
(* Liveness, under FairSpec with a time limit. *)

\* A running fan-out ends or asks: no lost agent, full role, failed launch or
\* restart holds the barrier forever (fanout_tick, resume_fanouts).
RunningEndsOrAsks == status = "Running" ~> status # "Running"

\* Where nobody is asked, it ends.
RunningEnds == status = "Running" ~> IsClosed

=============================================================================
