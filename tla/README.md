# A verification project for tgzterminal's Tower

tgzterminal is a fork of WezTerm with *Tower*: a daemon (`towerd`, in
`src/tgz-tower`) that runs coding agents on tasks ("flights"), hands work from
one agent to another, splits a task into parts that run wave by wave
("fan-outs"), asks a human where its policy says so, and lands the result.
Tower is the program's own core logic, and the subject of this project; the
terminal, the multiplexer and the renderer are inherited from WezTerm.

Paths below are relative to `src/tgz-tower` unless they start with `src/`.

## Inventory

### How Tower runs

`towerd/src/engine.rs` is an actor: one thread owns the whole state (`State`,
the agents, the maps beside them) and takes one `Input` at a time from a
channel (`run`, 458-473): a client's request, an agent's event, the result of
a background task (gates, planner, triage, polls), a `Tick` every 150 ms, or
`Shutdown`. A handler runs to its end before the next input; there are no
awaits inside. What is concurrent is everything around it: agents act and
report in any order, background tasks answer late, humans answer questions
about a state that has moved on, files and configuration change, the daemon
restarts while agents in panes go on. The state is saved to `state.json`
800 ms after a change (`changed`, `save`) and on `Shutdown`.

### Components

| component | state | operations | what makes it correct |
|---|---|---|---|
| fan-outs (`fanouts.rs`, `core/src/fanout.rs`) | `Fanout`: status, wave, waves; `FanoutTask`: state, retries, child flight | start, advance (start a wave, wait, ask, go on, stop, finish), a part is done, answers, cancel, tick, resume | waves are a barrier; a part starts with the results it needs; slots; the outcome is told once; every fan-out ends or asks |
| handoffs and queue (`delegate.rs`, `release`, `tool_return`) | packets (draft, released, accepted, returned), `local_queue` | make, release, hold in line, drain, return, remind, await | a packet is worked at once; nothing waits in line forever; the sender hears what became of it |
| agents and panes (`launch`, `stop_agent`, `mark_offline`, `panes.rs`, `drivers/`) | agents with a status, panes, tokens, pending spawns | launch, stop, pane spawned or exited, hooks, turn ends | role limits; a stopped agent stays stopped; no token outlives its agent |
| delivery (`deliver`, `on_idle`, `deliver_fyi`) | message queues per agent | queue, send at idle, hand to hooks | a message reaches an agent once, in order, or its loss is told |
| guard and policy (`guard.rs`, `policy.rs`) | pending actions, Inbox, rate counters, breaker, armed time | decide, ask, answer, expire | an action is done once, by the answer that fits; limits hold |
| gates and landing (`gates.rs`, `run_gates`, `on_gates`, `land`, `escalate`) | stage, gate results, failures | run, result, land, escalate | nothing lands without its gates passed for what is there now |
| swarm (`swarm.rs`) | planner in flight, fan-out owned by Tower | start, planned, finished, failed | a flight that is being split is never left without anyone |
| schedules, scouts, SLA, routines | last run, next run, lanes | due, catch up, finish | once per slot, never two at once where not allowed |
| intake, issues, acks, follow-ups | seen items, ack records, queued updates | poll, dedupe, ack, retry, publish | an item becomes one flight; an ack is sent once |
| store (`store.rs`) | `state.json` and its backup | save, load, migrate | what is read back is a state that was saved |
| routing (`router.rs`, `bandit.rs`) | weights and counts | choose, learn | choices within the roles that may run |
| server, shim, MCP | connections, tokens | accept, authenticate, frame | one reply per request |
| WezTerm: mux, codec, client, promise, leases, pty, term, gui, ... | | | inherited; see `PROJECT.json` |

They interact by method calls inside the one thread (a return moves the
barrier, which releases drafts, which launch agents), by `Input`s from tasks
and agents, and through shared state: the role's agent count, the queue, the
Inbox.

### What is hard

Not data races, but order: handlers call each other in the middle of what they
do (stopping an agent fails its part, which moves the barrier, which may stop
or start others); the same event arrives twice or late (a return after a time
limit, a stop after a return, a second answer); a question outlives what it
was about; a restart loses the agents but not the packets; a queue is walked
while it changes. `PROJECT.json` lists each hazard at its line and the
properties that would catch it going wrong.

## The model

| module | what it is |
|---|---|
| `Fanout` | one fan-out of one flight, its child flights, packets, agents, queue entries and questions |
| `FanoutPlan` | what `start_fanout` does with a plan before a part runs: checks, cycle walk, ordering of writers, waves |
| `MCFanoutPlan` | the plans it is checked on |
| `FanoutPlanProofs` | proofs: all safety properties of `FanoutPlan` |
| `FanoutPromise` | what a fan-out promises the one who asked for it: no waves, no queue, no retries |
| `FanoutRefinement` | the mapping from `Fanout` to `FanoutPromise` |
| `MCFanout` | small plans for the runs |
| `FanoutProofs` | proofs: types, barrier, one outcome, what is over stays over, results come before dependents |
| `FanoutWorkProofs` | proofs: queue, agents, slots, questions, one worker per part, nothing works for a closed fan-out |
| `FanoutRefinementProofs` | proof: `Fanout` implements `FanoutPromise` |
| `Handoff` | packets handed to local models: clearance, the line, helpers, results and their checks, `tower_await` |
| `MCHandoff` | three packets for one model |
| `HandoffProofs` | proofs: all safety properties of `Handoff` |
| `Delivery` | agents in panes, as child processes and as chat calls, and how messages reach them |
| `MCDelivery` | one agent of any kind |
| `DeliveryProofs` | proofs: all safety properties of `Delivery` |
| `Landing` | a flight from its agent's `tower_complete` through gates, policy and Inbox to the ground |
| `MCLanding` | five settings a flight may be under |
| `LandingProofs` | proofs: all safety properties of `Landing` |
| `QueueFacts` | lemmas about sequences and least elements that the proofs share |

`Fanout` and `Handoff` both model `release` and the queue, each with what its
packets bring along: a fan-out's parts have waves, slots and retries, the
packets of a handoff models, checks and someone who awaits them. `Landing` says
what a flight's lead is told, `Delivery` how what an agent is told reaches it. A
module takes what belongs to another one as a choice: whether a launch works,
whether the policy asks, when an agent leaves.

### How `Fanout` corresponds to the code

*State.* `status`, `wave`, `state` and `retries` are the fields of `Fanout` and
`FanoutTask` (`wave` counts from 1). A child flight is `<<part, attempt>>`, the
attempt being the part's `retries` when `begin_wave` made it; `packet` and
`agent` are its handoff packet and its agent, `queue` the `local_queue`.
`pending` and `inbox` are the two tables that hold a question: the
`pending_actions` entry and the Inbox item a human can see. `owner` is the
flight that the fan-out belongs to, `answers` counts outcomes reported.

*Steps.* The engine handles one message at a time, so a handler is one action
guarded by `Idle`, except where the code loops and the loop's order matters:

- `advance_fanout` loops until nothing is left to do. `advancing` is
  `fanouts_advancing`; while it is set, only the turns of the loop are enabled,
  one action for each outcome of `next_step`. A callback into `advance_fanout`
  from inside the loop returns at once in the code, and changes only the
  part's state in the model.
- a tick drains the queue (over a copy of it), looks for lost parts on the
  first tick after a start, stops late parts, and walks the barrier: the phases
  `drain`, `lost`, `late`.
- `cancel_fanout` closes the fan-out, then stops the parts one by one (phase
  `cancel`), then skips the rest and reports.
- `doomed` is the child whose agent is stopped after its part was failed and
  the barrier walked (late parts, unanswered reminders).

Calls into the middle of another handler are part of the action that makes
them: `StopAgent` is `stop_agent` with `mark_offline`, which fails the part
unless it returned; `Release` is `release`, whether the agent starts, its part
waits in line, or the start fails; `ChildDone` is `fanout_child_done`.

*Choices.* Whether a launch succeeds, whether a part is found late, when an
agent returns, exits or is stopped, what the human answers and deletes, whether
agents survive a restart (those in panes do) and what other flights do with the
role's slots are nondeterministic. `on_failure` is a set of values, because
the file is reloaded every two seconds and the code reads it at each failure.

*Left out.* Texts, paths, costs and times; parts with different roles or a
ladder of local models (the same queue, other capacity numbers); the policy's
answers Draft and Skip, which make no fan-out; the pruning of old fan-outs; the
64-turn bound of the loop, which 8 waves, the most `FanoutCfg::limits` allows, do
not reach; manual launches on a child flight beside its
handoff.

### How `FanoutPlan` corresponds to the code

One behaviour is one call of `start_fanout` with one plan. The code is
sequential; its loops are steps so that what each round relies on can be
stated, and later be proved. `Validate` is `validate` up to the walk; `WalkFrom`,
`WalkInto`, `WalkBack`, `WalkEnds` are `find_cycle`: `from` is the index of its loop
over the tasks, `path` and `done` are its own;
`SerializePair` and `SerializeNext` the two loops of `serialize_conflicts`, `later`
and `earlier` being its `j` and `i`; `BuildWave` is a round of `build_waves`,
`BuildRest` what follows its loop; `Evaluate` and `CheckRoles` decide. What it
accepts is a plan of `Fanout`: `deps` is `DependsOn` and `waves` gives `WaveOf`.

A plan is a sequence of tasks; ids, files and roles are names. A path is a file
and the way it is spelt, and `Normal` does what `same_path` does to each spelling.
`depends_on` lists are sets: the walk takes dependencies in any order, of which the
code's is one. A wave is a set, its plan order being of no matter to a property.
Title, brief and tier are one flag, the six reasons to refuse a role one set.

### How `Handoff` corresponds to the code

A packet and its child flight are one thing: `state` is the packet's, `stage`
the flight's, `helper` the agent on it. What `release` changes is a record
(`World`), because `drain_local_queue` releases one packet after the other in a
single tick: `Drain` does `DrainOne` to every entry of the queue as it was, the
first one first, and `Become` makes the outcome the new state. `Waits` is the test of `release` (the model's
load, older packets in line, the role's load), in the code's terms: `model_load`
counts agents at work, `role_load` the idle ones too.

Both count every agent there is, so `other` holds the agents that are on none of
the packets: leads, fan-out parts, agents launched by hand. Each has a model
and may have the local role; `launch` asks for a place in the role and not for a
free model (`OtherWorks`), and they rest, leave or go on for ever as they like
(`OtherRests`, with no fairness). What fan-out parts wait for in the same line is not
modelled here: such an entry may hold up a packet behind it until its fan-out
gives it a slot, which is `Fanout`'s matter. `Talk` is any message to a helper that
sits idle; the human's also resets its reminders.

`Return` is `tool_return`; with gate commands configured the result is held
(`check`) while they run beside the engine (`runs`), and `Checked` is
`on_local_checked`, which takes the held result with the first run that ends.
`TurnEnd` is `on_idle` with `remind_unreturned` behind it. `Resume`, on the first
tick after a start, runs the checks again whose results were held. `Await` is the
answer of `tool_await`, and `Pending` the answers on which the shim asks again.

### How `Delivery` corresponds to the code

Three parties run side by side: the engine, one input at a time; the GUI, which
opens panes, types and closes over a connection (`out`, `guiIn`) that may drop;
and the agent's program, which takes turns and reports through hooks or ACP
events (`hooks`) that the engine reads later. A hook call waits in `hooks` until
the engine answers it; `HookGivesUp` is the shim's two-second limit, after which
the program goes on and the answer is lost.

An agent's kind decides how a message reaches it. `deliver` sends at once to an
idle agent (`SendNow`) and queues for a busy one; what queued up goes out by
`on_idle` (`HandOver`), by the answer to Claude's Stop hook (`AnswerStop`) or,
for updates (`deliver_fyi`), by that to its PostToolUse hook (`OnTool`). `OnIdle`,
`Offline`, `Stop`, `PaneOpened` are `on_idle`, `mark_offline`, `stop_agent` and
`on_pane_spawned`. `Restart` keeps what is in `State` (queues, tokens, agents)
and loses what the engine keeps beside it (pending spawns, briefs to type,
channels, permission requests); panes live on, children die.

`CanSend` is what `send_now` asks for: a connected tab and a known pane, a live
driver, or the role of a chat agent, which `Reload` takes away and brings back as
the configuration file changes. `GuiDrops` may also lose the report of a pane that
the GUI has just opened, so its program runs and the engine never learns which
pane is its own.

### How `Landing` corresponds to the code

A flight is its `stage`, its lead (`live`, and `busy` while it has something to
do), its gate results and its Inbox items. Items name an agent, and
`mark_offline` takes the agent's items along, so they are counted for the
present lead (`mine`) and for earlier ones (`old`). `open` holds the gate runs
under way, as the code does not tell their results apart: `OnGates` uses a
result for whatever the flight's outcome and human gate are by then.
`RunGates`, `LandNow`, `GateFailed`, `GatePassed`, `EscalateNow`, `NewLead` are
`run_gates`, `land`, the two halves of `on_gates`, `escalate_now` and `launch`.
`Runs` is the automatic half of `decide_action`: level, Armed and the hourly
limit (`rates`). `held` is the pending action with Tower's text for the lead,
`shown` its Inbox item: two tables, which the code fills and empties apart.

The settings of a flight are fixed while it lasts. `again` and `excused` are not
state of the program: they say that gates were started again before the last
run was settled, and that the flight was given up or lost in one of the ways
that `SomebodyHasIt` names.

### Properties

Of `FanoutPlan`:

- `CycleVerdict`: a plan is refused for a cycle only if it has one, and after
  the walk there is none, also not after edges are added.
- `KeepsThePlan`: the plan's order is kept, and edges are added only between
  writers of one path that the plan does not order.
- `Layered`: an accepted plan has at most `max_waves` waves, every part in one,
  dependencies in earlier ones, one of them in the wave just before.
- `WritersApart`: no wave holds two writers of one path as `same_path` reads it.
- `Decided` (liveness): the call returns.

Of `Fanout`:

- `Barrier`: no part of a later wave has started and every part of an earlier
  one is over.
- `DepsReturned`: a part that started has every result it depends on.
- `Capacity`: running parts within the fan-out's slots, agents within the
  role's.
- `AnsweredOnce`: the asker hears the outcome once, after the end.
- `QueueSound`: a queued part is in line exactly once with a packet that can
  be released.
- `RunningHasAgent`: a running part has a live agent that can return, also
  after a restart.
- `WaitsForAnAnswer`: a fan-out that waits for the human has its question, and
  something the answer can act on.
- `ClosedIsOver`: a closed fan-out has no part, queue entry or agent left.
- `OneWorkerPerPart`: two attempts at a part never work at once.
- `OverIsFinal`, `StartsOnlyLiveParts` (action properties): results are never
  taken back, a closed fan-out stays closed, agents start only for parts that
  have not run, of a running fan-out.
- `RunningEnds`, `RunningEndsOrAsks` (liveness).
- `KeepsPromise`: `Fanout` implements `FanoutPromise`.

Of `Handoff`:

- `WaitingIsAsked`: "waiting for the human's clearance" is answered only while
  the Inbox asks for it.
- `ReportedOnce`: a result is passed on at most once for each `tower_return`, and
  is never lost: it is out, or its check runs or is about to run again.
- `NotOverbooked` (action property): Tower gives a model more work than its
  `max_concurrency`, agents of other flights counted, only where somebody writes to
  a helper that sits idle or an agent of another flight takes a turn; no release and
  no drain does.
- `OldestFirst` (action property): no packet starts while an older one stays in
  line for the same model.
- `AwaitAnswered` (liveness): who awaits a packet hears its end, unless the helper
  left with it or sits idle, or the packet is held up in line (`HeldUp`: by a helper
  that sits idle and keeps its place in the role, or by an agent of another flight
  that works on the model or has the role, for nothing bounds how long it stays).

Of `Delivery`:

- `NoDuplicate`: an agent reads a message once, whichever of three ways it took.
- `InOrder`: messages arrive in the order they were accepted; updates may be
  late, and Claude panes are left out (see the observations).
- `NoSilentLoss` (action property): a message disappears only with the agent, for
  an agent in a pane with a connection that is down or a pane that has not opened,
  for a chat agent with its role or with the call that a restart gives up, or with a
  hook that gave up.
- `StaysStopped` (action property): nothing late brings a stopped agent back but
  its own report of more work and its pane's opening.
- `WaitingIsRead` (liveness): what waits for an agent to end its turn is read. After
  a fault it leaves the queue, and the agent may not have read it; updates held for
  a CLI without a turn signal are left out, and are `UpdateIsRead`'s.
- `UpdateIsRead` (liveness): what a comment says of `deliver_fyi`; violated, see below.

Of `Landing`:

- `SomebodyHasIt`: a flight under way has a lead with work, gates that run or
  a question in the Inbox, unless it was dropped in a way the property names.
- `LandsPassed` (action property): what lands as done has passed its gates, of
  the run it waited for.
- `InFlightHasLead` (action property): no step leaves a flight in flight without
  an agent, but a restart and "Send back" to a lead that is gone.
- `GatesAnswered` (liveness): gates that run are answered.

Each `TypeOK` is the module's type invariant.

## Runs

| run | plan and bounds | asks |
|---|---|---|
| `fanout_continue` | 4 parts, 3 waves (two side by side, then a chain), one slot, role limit 2, no retries, one restart, one deleted child | everything about a fan-out nobody is asked about: safety, liveness and the promise |
| `fanout_ask` | 3 parts, 2 waves, one slot, role limit 2, one retry, Tower's own split | barrier, questions and attempts where the human answers; the inductive invariant of the proofs |
| `fanout_live` | 2 parts in a row, one slot, one retry, `on_failure` changing among its values, one restart, one draft released by hand | liveness and capacity under everything at once |
| `fanout_revived` | 4 parts, 3 waves, one depending on parts of both waves before it; ask, one retry | a disagreement: see below |
| `fanout_question` | 3 parts, 2 waves; ask | a disagreement: see below |
| `fanout_plan` | all dependencies among 4 parts, three writing one file; all among 3 parts with writes to two files in three spellings; 2 parts that spell one path in every two ways; plans to refuse; at most 3 waves | everything about planning |
| `handoff` | 3 packets, one model of one place, a role of two, two agents of other flights on the model and one of them in the role; one restart, deleted flight, further return, departure of the sender, message to a helper or turn of one of the others | everything about handoffs to local models |
| `handoff_stopped` | the same without the extras | a disagreement: see below |
| `delivery` | one agent of any kind, 2 messages, one dropped connection, hook that gives up, restart or role that leaves | everything about delivery |
| `delivery_held` | the same with one message and no fault | a disagreement: see below |
| `landing` | one flight under five settings, two gate runs, one more rung, two failures a rung, one automatic landing and one text an hour, one other text, one restart | everything about landing |
| `landing_messages` | one flight under the settings out of the box | a disagreement: see below |

*Bounds.* Two parts side by side are the least with a queue and a wave that
fails in part; three waves the least with a transitive skip; a slot limit below
the width of a wave makes parts wait; a role limit of 2 shared with `others`
lets other flights fill it. One retry makes a second attempt live beside the
rests of the first. One restart, one deletion and one hand-released draft can
fall into any state. More of each repeats these cases: nothing in the code
counts them, apart from `retries`, whose bound is a configuration value. Part
and wave numbers are ordered, so symmetry is not used.

Four parts are the least with a diamond, with a cycle of three beside a part
outside of it, and with two writers that a third part orders; three writers of
one file the least where an added edge bears on a later pair. The proofs cover
the rest.

`handoff`: a model's line needs one packet at work and two in line for
`OldestFirst` to say something, and a role of two lets a helper that sits idle
hold a place the model does not count. One of the others alone fills the model, and the one in
the role a place of it; the extra that lets one take a turn falls, as every extra,
into any state (260618 distinct states).
`delivery`: agents share nothing but the engine's thread and the GUI's
connection, so one agent of each kind stands for many; two messages are the
least that can be swapped, lost apart or joined into one prompt. The one fault
falls into any state (150751 distinct states).
`landing`: flights share only the Armed switch and the rate log, which others
fill sooner; with a limit of one the flight's first automatic run fills it. Two gate runs
overlap once; a third would overlap with one of them in the same way. Two
failures reach `failures_per_rung` on one rung.

In the two runs that check `ClosedIsOver`, `StartsOnlyLiveParts` and
`OneWorkerPerPart`, `MaxHandReleases` is 0: the code lets a human release
the draft of a part that is over, which starts an agent that these properties
exclude. `fanout_live` includes it.

*Fairness.* The thread finishes what it began (`WF` on the turns of the loop,
the cancel and the phases of a tick: one thread, no waiting inside a handler),
and ticks keep coming (`WF` on `Tick`: the ticker of `run`). A part that stays
active through endlessly many ticks is found late by one of them (`SF` on
`TimesOut(p)`): its age only grows and the limit is fixed, but the part need
not be late at each tick, so weak fairness would not say it. Nothing is assumed
of agents, humans or other flights. Without a time limit
(`child_timeout_mins = 0`) a hung agent holds its wave forever, and no liveness
is claimed.

`start_fanout` is one synchronous call, so `FanoutPlan` has `WF` on its steps.

In `Handoff` ticks keep coming, a check run ends (`gates.rs` kills its commands at
their timeout), and a helper's turn ends; nothing is asked of agents of other
flights. In `Delivery` the engine and the GUI take
what is in line, a program reads its prompts, Claude's idle notice comes, and
the tab connects again; a turn ends however often it is interrupted by tool
calls (`SF` on `EndsTurn`: a tool call or a question disables it for a while).
In `Landing` only the gate runs are fair, again by their timeout. Nowhere is a
human bound to answer, a launch to succeed or an agent to stay.

Deadlock is checked in the runs of `Fanout`: the thread never gets stuck, as
`Tick` is enabled whenever it is idle. A behaviour of `FanoutPlan` ends when the
call returns, so its runs do not check it; `Decided` says that it gets there.
`delivery` does not check it either: an agent that ended, with the bounds used
up, leaves nothing to do.

## Where the code and its comments disagree

*`fanout_revived`.* "Parts that wait on a failed or skipped part cannot run"
(`core/src/fanout.rs:514`). The human goes on without part 1 of the first wave,
which skips part 4; then part 3 of a later wave fails, and the human retries
it. `resolve_fanout_failure` (`fanouts.rs:739`) sets every skipped part pending
that depends on what runs again, so part 4 comes back although part 1 still
failed, and starts without its result. `DepsReturned` is violated.

*`fanout_question`.* "A fan-out's question stays until it gets an answer that
fits" (`guard.rs:378`). When the flight lands while its fan-out waits,
`land` (`engine.rs:3865`) drops all Inbox items of the flight but agents'
questions; the pending action and the status stay, so the fan-out waits for an
answer nobody can give. `QuestionStays` is violated.

*`handoff_stopped`.* "status: failed / The model stopped without a result"
(`delegate.rs:350`) and "so its model is free again and nobody waits forever"
(`delegate.rs:488`). `tool_await` (`delegate.rs:343`) says "failed" only where the
child flight needs the human, which the last reminder sets; for a helper that
exits or is stopped `mark_offline` (`engine.rs:2224`) sets the flight to cleared,
and the answer stays "running". `StoppedIsFailed` is violated.

*`landing_messages`.* "On `confirm`, these wait in the Inbox as Send / Drop,
merged into one item per agent" (`README.md:139`). `land` (`engine.rs:3865`) drops
the flight's item and leaves the pending action; `ask_message` (`guard.rs:580`)
merges every later text for that lead, which lives on in its pane, into the text
nobody sees. `WaitingMessageIsShown` is violated.

*`delivery_held`.* "Updates that should reach a busy Claude pane agent [...] Anyone
else gets them like any message" (`engine.rs:2377`). `deliver_fyi` holds them for any
pane that is not idle. A CLI that reports no turn end never looks idle and has no
`PostToolUse` hook: a plain message is typed at once, an update is held for good.
`UpdateIsRead` is violated.

Met on the way, and not excluded by a property:

- `on_idle`, "hold, then hand it whatever queued up" (`engine.rs:2350`), takes the queue
  and the updates out before it calls `send_now`, and drops its error
  (`engine.rs:2372`). With the tab away, with a pane whose opening was never reported,
  or for a chat agent whose role left the configuration ("Its role is gone"), the
  agent turns idle and its messages are nowhere. `NoSilentLoss` names these cases,
  and says that nothing else loses a message of a live agent.
- "Two tasks that both write a file are put in different waves"
  (`proto/src/lib.rs:539`), but `same_path` (`core/src/fanout.rs:315`) compares text
  after dropping a leading `./` and then turning backslashes: `src//a.rs`,
  `src/./a.rs`, and on Windows `.\src\a.rs`, are accepted and are not `src/a.rs`. Two
  parts that name one file so get no edge and may share a wave; `WritersApart` holds
  for paths that `same_path` takes for one.
- A pane that opens after its agent was stopped sets the agent working again
  (`engine.rs:2451`); its token is gone, its hooks are not let in, and what is
  queued for it stays unread (`StaysStopped` and `WaitingIsRead` except it).
- A message typed into a Claude pane during a turn that the human began is
  overtaken by one that the Stop hook hands over, hence `InOrder` without them.
- `tool_return` does not ask whether the packet came back before: a second
  return starts a second check, and the first run to end takes the later result
  along (`delegate.rs:439`).
- A helper that sits idle after a cancelled or refused turn frees its model and
  keeps its place in the role; nobody reminds or stops it. A packet behind it, or
  behind an agent of another flight that stays, is "queued" to `tower_await` for as
  long as that lasts (`HeldUp`).
- "Reject" removes the child flight, so `tower_await` never says "rejected".
- The result of a flight that is deleted while its check runs is lost in a
  restart; and after one, an ACP helper's flight stays in flight and `tower_await`
  says "running".
- Stopping a lead takes its "Land?" and "Gate failed" items along; the flight
  keeps its stage and is in nobody's hands (`excused`).

## Proofs

About `Fanout`, for every plan and all values of the limits, from the assumptions
`PlanAssumption` (every part is in a wave, no wave is empty, a part depends on
parts of earlier waves: what `build_waves` makes of a plan that `validate`
accepted) and `LimitsAssumption` (types of the configuration values).

- `InvTheorem`: `Spec => []FanoutInv`; from it `TypeTheorem`, `BarrierTheorem`,
  `AnsweredOnceTheorem`.
- `OverIsFinalTheorem`: `Spec => OverIsFinal`.
- `DepsReturnedTheorem`: `Spec => []DepsReturned` where `on_failure` never
  means "ask" (where it may, `fanout_revived` refutes it).

*The argument.* `Barrier` is not inductive: a handler is told of a child, not
of a part, and without knowing which children exist it might move a part of
another wave. `FanoutInv` adds `Made` (a child is made when its part starts,
and a retry forgets it), `PausedOnFailure` (a question is asked when the wave is
over, so the answer may move on), and for the outcome `CancelCloses`. Then a
child that was made, and still stands for a part that is not over, is of the
current wave (`ActivePart`), and every handler about a child comes down to
`PartMoves`. A retry needs one more fact, `RevivedParts`: what it revives lies in
later waves, because dependencies point to earlier ones; it is proved by giving
the least set that `DependsUpon` defines an explicit bound. `DepsReturned`
needs `Unblocked`, that pending parts never wait on a skipped part or on an
earlier one without a result, and `SkipsAllThatDepend`, that the skipped set is
closed. For the last two theorems every handler is first reduced to six shapes of
what it does to the parts (`Shape`).

- `QueueSoundTheorem`, `RunningHasAgentTheorem`, `CapacityTheorem`,
  `WaitsForAnAnswerTheorem`: `Spec => []` of each, without further assumptions.
- `ClosedIsOverTheorem`, `OneWorkerPerPartTheorem`, `StartsOnlyLivePartsTheorem`:
  with `MaxHandReleases = 0`, since a draft released by hand starts an agent for
  a part that is over, as the code lets it.
- `KeepsPromiseTheorem`: `Spec => KeepsPromise`, the refinement, where `on_failure`
  never means "ask". With a question in between, a part can start without its
  results (`fanout_revived`), which the promise excludes.

*The argument for who works.* A handler is told of a child. `Touches(c)` says what
it leaves alone for every other child and part, `PartSound(p)` what the present
attempt at a part looks like while the part is active: queued with a draft in
line, running with an accepted packet and an agent, unless a restart took the
agent and the first tick has yet to find it. `Ends` (before a fan-out starts its
parts are pending, when closed all are over) is needed because a part that moved
after the end would have no one to move the barrier. `WorkInv` is inductive with
`FanoutInv`. `Capacity` is counted with the library's cardinality facts: a launch
adds one where there was room, nothing else adds any (`OnlyLaunchesGrow`).
`WorkersInv` is the other way round, from child to part: whoever is in line, at
work or collected by a loop is the present attempt of an active part
(`Belongs`), or the one agent that is about to be stopped (`doomed`). For the
refinement every action is shown to be one step of the promise or none: a part is
taken, returns, fails, stays, or never starts; the fan-out ends once.

About `Landing`, for every flight, setting and bound, from `LandingAssumption`:
`TypeTheorem`, `SomebodyHasItTheorem`, `InFlightHasLeadTheorem`,
`LandsPassedTheorem`.

*The argument.* `SomebodyHasIt` does not say which of the hands is whose, so a
step that empties one could leave none. `Kept` says it stage by stage: gates
have a result on the way or a question, after a failure the Inbox asks, in flight
the lead is there and has something to do, a text for it waits, or an item of
an earlier failure is left. `LandsPassed` needs that there is one run to wait for (`OneRun`): unless the
gates started again before the last run was settled, there is at most one open
run, it tests what the flight's outcome asks for, and a "Land?" comes after it
with the gates as that run left them.

About `Handoff`, for every set of packets and models and all limits, from
`HandoffAssumption` (types; a model has room for one; the agents of other flights are
finitely many): `InvTheorem`
(`Spec => []HandoffInv`), and from it `TypeTheorem`, `WaitingIsAskedTheorem`,
`ReportedOnceTheorem`, `NotOverbookedTheorem`, `OldestFirstTheorem`.

*The argument.* `Release` is called by the sender, the human and the tick, so the
proof is about that operator before it is about actions: it ends in one of
three ways, the start refused, in line, started (`ReleaseCases`), and each of
them keeps `Sound` (a packet is in line once, only a released one has a helper,
only drafts are asked about) and `Told` (a draft is asked about, in line, or shown
as failed), changes no other packet and puts no model above its limit. `Told`
is what `WaitingIsAsked` needs: a draft that fell out of line without a word
would be reported as waiting. A tick releases one packet after the other.
`Drained(w, k)` says what the first k of them did: nothing to the packets behind
them, which are all still in line and in their order, and none of the k was
started with an older draft of its model left in line. It holds of every k, for
otherwise there were a least k of which it does not, and `DrainOne` keeps it.
The load of a model is the size of a set, compared with the library's facts on
finite sets; for that `Sound` says that finitely many packets were handed over. The
part of it that agents of other flights make up is a number no step about a packet
changes (`OthersRest`), so what is proved of the helpers carries over.

About `Delivery`, for every set of agents and all bounds, from `BoundsAssumption`:
`InvTheorem` (`Spec => []DeliveryInv`), and from it `TypeTheorem`,
`NoDuplicateTheorem`, `InOrderTheorem`, `NoSilentLossTheorem`,
`StaysStoppedTheorem`.

*The argument.* What an agent was sent stands in one line: what its program has
read (`got`), the prompts it has not (`pending`), what is on its way to the pane
(`Typed`), the queue and the updates. `InLine` says that any two places of the line
are related by `Order`: the messages differ and, but for Claude panes, briefs and
updates, the older one stands in front. `NoDuplicate` and `InOrder` are both read
off it. A step takes messages out, moves the back of one piece of the line to the
piece in front, or adds a message at an end; six lemmas (`LineShrinks`, `LineKeeps`,
`LineGainsMessage`, `LineGainsBrief`, `LineMoves`, `LineLosesHead`) say that this
keeps `InLine`, and every action is one of them. Whether a step is such a move
depends on facts about the three parties, which are the rest of `DeliveryInv`:

- a message typed at once has no queue to overtake: an agent that is idle has
  none (`Known`);
- Claude is handed its queue in the answer to a hook only while it waits for
  that answer: the report it waits for is the last one it made (`Waited`), so no
  later prompt stands behind it;
- the brief is given once, by the engine with the pane or typed when the pane
  opens (`Opening`, `Untyped`);
- an ACP agent before a permission request, or whose driver is gone, has nothing to
  report (`Silent`, for `NoSilentLoss`);
- only letters to a pane carry messages (`Carries`), and an agent that was not
  launched has nothing anywhere (`Fresh`).

A step is an agent's own (`AgentActs`), somebody else's (`Bystander`) or concerns
all agents (`GuiDrops`, `GuiConnects`, `Restart`). Both `FlattenSeq` and
`out` are sequences of any length: what the former gives when an entry is added or
taken away is proved in `QueueFacts` from its definition as a function of the
prefixes, which exists for every sequence (`JoinsExist`).

About `FanoutPlan`, for every set of plans, with nothing assumed but types
(`PlanInputs`): `PlanInvTheorem`, and from it `PlanTypeTheorem`, `CycleTheorem`,
`KeepsThePlanTheorem`, `LayeredTheorem` and `WritersApartTheorem`.

*The argument.* Having no cycle is said without paths: every nonempty set of
parts has one that waits for none of the set (`Acyclic`). The walk ends with
every part in `done`, because every task before `from` is finished with or begins
the present path (`Begun`). In this form each phase
takes a short lemma: `done` has no cycle and waits only for itself, so it may
grow by a part that waits only for it (`FinishedGrows`); an edge from b to a keeps
it when a does not wait for b, for what a waits for is a closed set without b
(`EdgeKeepsAcyclic`); and applied to the parts not placed yet it says that one of
them is ready, so layering leaves no rest (`BuildRestStep`). Edges only grow, so a
pair ordered once stays ordered (`DependsGrows`), and the waves before one are
closed under dependencies, so ordered parts are never in one wave
(`EarlierWaves`). `LayeredTheorem` is what `Fanout` assumes as `PlanAssumption`.

*Induction.* The library's induction theorems take an operator as a parameter,
which the installed provers cannot instantiate. Where a proof goes through a
sequence or a set of numbers it takes the least place at which the claim fails
(`MinInSet`, from well-foundedness of finite sets under inclusion) and refutes it.
`DependsUpon` is defined without recursion, as the least closed set.

*Only model-checked.* Liveness (`RunningEnds`, `RunningEndsOrAsks`, `Decided`,
`GatesAnswered`, `AwaitAnswered`, `WaitingIsRead`), which with fairness and
ENABLED is out of the prover's reach. Every invariant and every action property of
a passing run is a theorem.

## Not modelled

The repository is half a million lines, of which towerd and its core are 36000;
the rest is the terminal inherited from WezTerm, its renderer, platform code and
generated tables (Unicode names, emoji, fonts), which hold most of the lines and
none of Tower's logic. The models stay with the few thousand lines of towerd that
decide who works on what and what lands, so the share of all lines they cover is
small and will stay so. Of Tower itself are left out:

- a crash inside the 800 ms between a change and its save (`engine.rs:481`): the
  restarts here are those of `RestartDaemon`, which saves first;
- `heuristic_plan` (`swarm.rs:202`), which may make more parts than `validate`
  takes; the plan is refused then, and `FanoutPlan` has the refusal;
- how Tower's own splits move their flight's stage (`start_swarm`, `on_planned`,
  "Not now" at `guard.rs:413`);
- several fan-outs at once, and agents launched by hand on a packet's flight;
- handoffs to roles that are not local, which have no line and no reminders;
- triage, issues, intake, acknowledgements and write-backs to trackers; follow-ups;
- schedules, scouts, SLA timers and routines: timers over flights, with date
  arithmetic (`core/src/cron.rs`);
- the circuit breaker and the levels of actions other than landing and messages;
- adopted panes, session set-up and resume of ACP agents, tools of chat models;
- routing scores, budgets, privacy filters, audit, history: data and text.

`PROJECT.json` lists every component with its status.

## Plan

Done: `Fanout` with its promise, `FanoutPlan`, `Handoff`, `Delivery`, `Landing`; the
proofs of every invariant and action property of theirs that a run checks, and of
the refinement.

Left, in this order:

1. What a message's reader and a packet's sender see, as abstract specifications
   of their own (a lossy queue for an agent, a request with one answer for a
   packet), with `Delivery` and `Handoff` proved to implement them.
2. The saved copy beside the live state, crashes in the save window.
3. Swarm flights: planner, stage and split together.
4. Schedules (once per slot) and intake (an item becomes one flight).
