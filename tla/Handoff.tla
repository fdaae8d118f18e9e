------------------------------ MODULE Handoff ------------------------------
(***************************************************************************)
(* Packets an agent hands to local models with tower_delegate, and what it *)
(* hears of them from tower_await.  A packet is released at once or after  *)
(* the human's clearance, waits in line while its model or its role is     *)
(* busy, runs on a helper (an ACP child process) that should call          *)
(* tower_return, and its result is checked with the repository's gate      *)
(* commands before the sender gets it.  Helpers forget to return, exit or  *)
(* are stopped; the sender may be gone; the daemon may restart.            *)
(*                                                                         *)
(* Abstracted: briefs, texts and what the checks find; which of the fitting *)
(* models "auto" picks; lineage and keys of the child flights; what the    *)
(* policy says (Landing) is a choice; how a text reaches an agent is       *)
(* Delivery; the parts of a fan-out are Fanout, and here only their agents *)
(* count, as those of other flights do, not what they wait for in line.    *)
(*                                                                         *)
(* A definition named X_Y is X with a plausible mistake Y in it.  Next     *)
(* uses none of them.                                                      *)
(***************************************************************************)
EXTENDS Naturals, FiniteSets, SequencesExt

CONSTANTS
    Packets,
    Models,
    Capacity,      \* models.toml max_concurrency, per model
    RoleMax,       \* max_concurrency of the local role
    Others,        \* agents on none of the packets, as leads and fan-out parts are
    OtherModel,    \* Agent.model of each of them
    LocalOthers,   \* those that have the local role
    MaxExtras      \* bound: restarts, deleted flights, a sender that leaves, further
                   \* returns of a packet, messages to a helper, turns of the others

ASSUME HandoffAssumption ==
    /\ Capacity \in [Models -> Nat \ {0}] /\ RoleMax \in Nat /\ MaxExtras \in Nat
    /\ IsFiniteSet(Others) /\ OtherModel \in [Others -> Models]
    /\ LocalOthers \subseteq Others

MaxReminders == 2

VARIABLES
    model,      \* HandoffPacket.model
    state,      \* HandoffPacket.state; "none" before it is handed over,
                \* "gone" once its child flight is removed
    stage,      \* Flight.stage of its child flight
    asked,      \* the Inbox asks to release it
    queue,      \* State.local_queue
    helper,     \* Agent.status of the agent on it; "none" before the launch
    mail,       \* a message waits for the end of its turn
    reminded,   \* Engine.reminded
    stopAfter,  \* Engine.stop_after_turn holds the helper
    check,      \* State.local_checks holds its result
    runs,       \* check runs under way
    returns,    \* tower_return calls so far
    reports,    \* results that went to the sender or to the team
    sender,     \* the sender is live
    other,      \* Agent.status of the others; "none" when one is not live, or its
                \* flight has landed
    resumed,    \* Engine.checks_resumed
    extras

packetVars == <<model, state, stage, asked, queue>>
helperVars == <<helper, mail, reminded, stopAfter>>
resultVars == <<check, runs, returns, reports>>
vars == <<packetVars, helperVars, resultVars, sender, other, resumed, extras>>

TypeOK ==
    /\ model \in [Packets -> Models]
    /\ state \in [Packets -> {"none", "draft", "accepted", "returned", "gone"}]
    /\ stage \in [Packets -> {"none", "cleared", "holding", "inflight", "needsyou",
                              "landed"}]
    /\ asked \in [Packets -> BOOLEAN]
    /\ queue \in Seq(Packets)
    /\ helper \in [Packets -> {"none", "working", "holding", "offline"}]
    /\ mail \in [Packets -> BOOLEAN] /\ stopAfter \in [Packets -> BOOLEAN]
    /\ reminded \in [Packets -> 0..MaxReminders]
    /\ check \in [Packets -> BOOLEAN] /\ runs \in [Packets -> Nat]
    /\ returns \in [Packets -> Nat] /\ reports \in [Packets -> Nat]
    /\ sender \in BOOLEAN /\ resumed \in BOOLEAN
    /\ other \in [Others -> {"none", "working", "holding"}]
    /\ extras \in Nat

Init ==
    /\ model \in [Packets -> Models]
    /\ state = [p \in Packets |-> "none"] /\ stage = state /\ helper = state
    /\ asked = [p \in Packets |-> FALSE] /\ mail = asked /\ stopAfter = asked
    /\ check = asked
    /\ reminded = [p \in Packets |-> 0] /\ runs = reminded /\ returns = reminded
    /\ reports = reminded
    /\ queue = <<>> /\ sender = TRUE /\ resumed = FALSE
    /\ other = [o \in Others |-> "none"]
    /\ extras = 0

Extra     == extras < MaxExtras /\ extras' = extras + 1
Live(p)   == helper[p] \in {"working", "holding"}
Queued(p) == Contains(queue, p)
Pos(q, p) == IF Contains(q, p) THEN CHOOSE i \in DOMAIN q : q[i] = p ELSE Len(q) + 1

(***************************************************************************)
(* Release: what it changes is a record, so that a drain of the queue can  *)
(* release one packet after the other.                                     *)
(***************************************************************************)
World == [state |-> state, stage |-> stage, asked |-> asked, queue |-> queue,
          helper |-> helper]

\* model_load: agents at work on the model.  One that sits idle does not use it,
\* one whose packet came back is not counted.
Load(w, m) ==
      Cardinality({p \in Packets : model[p] = m /\ w.helper[p] = "working"
                                   /\ w.stage[p] # "landed"})
    + Cardinality({o \in Others : OtherModel[o] = m /\ other[o] = "working"})

\* role_load: live agents of the role, the idle ones too.
RoleLoad(w) ==
      Cardinality({p \in Packets : w.helper[p] \in {"working", "holding"}
                                   /\ w.stage[p] # "landed"})
    + Cardinality({o \in LocalOthers : other[o] # "none"})

\* Every other packet in line, not only the older ones.
QueuedAhead_Anywhere(w, p) ==
    \E i \in 1..Len(w.queue) :
        w.queue[i] # p /\ model[w.queue[i]] = model[p] /\ w.state[w.queue[i]] = "draft"

\* queued_ahead: older packets wait for the same model.
QueuedAhead(w, p) ==
    \E i \in 1..(Pos(w.queue, p) - 1) :
        model[w.queue[i]] = model[p] /\ w.state[w.queue[i]] = "draft"

Waits_OffByOne(w, p) ==
    Load(w, model[p]) > Capacity[model[p]] \/ QueuedAhead(w, p) \/ RoleLoad(w) >= RoleMax

Waits_NoLine(w, p) == Load(w, model[p]) >= Capacity[model[p]] \/ RoleLoad(w) >= RoleMax

Waits(w, p) ==
    Load(w, model[p]) >= Capacity[model[p]] \/ QueuedAhead(w, p) \/ RoleLoad(w) >= RoleMax

Enqueue(w, p) ==
    IF Contains(w.queue, p) THEN w
    ELSE [w EXCEPT !.queue = Append(@, p), !.stage[p] = "holding"]

\* What leaves the line leaves it everywhere (retain): a packet is in line once.
CannotStart_StageKept(w, p) == [w EXCEPT !.queue = RemoveFirst(@, p)]

\* It stays a draft, which the human can release again.
CannotStart(w, p) == [w EXCEPT !.queue = RemoveFirst(@, p), !.stage[p] = "needsyou"]

Start(w, p) ==
    [w EXCEPT !.queue = RemoveFirst(@, p), !.state[p] = "accepted", !.stage[p] = "inflight",
              !.helper[p] = "working"]

\* release.  It fails where the model left the role's ladder, before it is put in
\* line, and where the launch does (the folder, the terms, local-only work).
Release(w, p, fails) ==
    LET v == [w EXCEPT !.asked[p] = FALSE] IN
    IF w.state[p] # "draft" THEN w
    ELSE IF fails = "ladder" THEN CannotStart(v, p)
    ELSE IF Waits(v, p) THEN Enqueue(v, p)
    ELSE IF fails = "launch" THEN CannotStart(v, p)
    ELSE Start(v, p)

Failures == {"no", "ladder", "launch"}

Become(w) ==
    /\ state' = w.state /\ stage' = w.stage /\ asked' = w.asked /\ queue' = w.queue
    /\ helper' = w.helper

\* tower_delegate: released at once, or the Inbox asks.
Delegate(p, ask, fails) ==
    LET w == [World EXCEPT !.state[p] = "draft", !.stage[p] = "cleared"] IN
    /\ sender /\ state[p] = "none"
    /\ Become(IF ask THEN [w EXCEPT !.asked[p] = TRUE] ELSE Release(w, p, fails))
    /\ UNCHANGED <<model, mail, reminded, stopAfter, resultVars, sender, other, resumed,
                   extras>>

\* "Release" in the Inbox, or by hand on a draft that could not start.
ReleaseHandoff(p, fails) ==
    /\ state[p] = "draft"
    /\ Become(Release(World, p, fails))
    /\ UNCHANGED <<model, mail, reminded, stopAfter, resultVars, sender, other, resumed,
                   extras>>

Gone(w, p) ==
    [w EXCEPT !.state[p] = "gone", !.stage[p] = "none", !.asked[p] = FALSE]

\* "Reject" removes the child flight; its place in line is taken by nobody.
Reject(p) ==
    /\ asked[p]
    /\ Become(Gone(World, p))
    /\ UNCHANGED <<model, mail, reminded, stopAfter, resultVars, sender, other, resumed,
                   extras>>

\* delete_flight; a check that runs goes on.
Delete(p) ==
    /\ state[p] \notin {"none", "gone"} /\ ~Live(p) /\ Extra
    /\ Become([Gone(World, p) EXCEPT !.queue = RemoveFirst(@, p)])
    /\ UNCHANGED <<model, mail, reminded, stopAfter, resultVars, sender, other, resumed>>

(***************************************************************************)
(* Results.                                                                *)
(***************************************************************************)
Report(p) == reports' = [reports EXCEPT ![p] = @ + 1]

\* return_local: the repository's gate commands run on it first, if it has any.
ReturnLocal(p, commands) ==
    IF commands
    THEN /\ check' = [check EXCEPT ![p] = TRUE]
         /\ runs'  = [runs EXCEPT ![p] = @ + 1]
         /\ UNCHANGED reports
    ELSE Report(p) /\ UNCHANGED <<check, runs>>

\* tower_return, which does not ask whether the packet came back before.  Where
\* the sender is gone or the policy has a say, the result is passed on unchecked.
Return(p, commands, auto) ==
    /\ helper[p] = "working"
    /\ IF returns[p] = 0 THEN UNCHANGED extras ELSE Extra
    /\ returns'   = [returns EXCEPT ![p] = @ + 1]
    /\ reminded'  = [reminded EXCEPT ![p] = 0]
    /\ state'     = [state EXCEPT ![p] = "returned"]
    /\ stage'     = [stage EXCEPT ![p] = "landed"]
    /\ stopAfter' = [stopAfter EXCEPT ![p] = TRUE]
    /\ IF sender /\ auto THEN ReturnLocal(p, commands)
       ELSE Report(p) /\ UNCHANGED <<check, runs>>
    /\ UNCHANGED <<model, asked, queue, helper, mail, sender, other, resumed>>

\* The result stays in the list of checks.
Checked_Kept(p) ==
    /\ runs[p] > 0
    /\ runs' = [runs EXCEPT ![p] = @ - 1]
    /\ IF check[p] THEN Report(p) ELSE UNCHANGED reports
    /\ UNCHANGED <<packetVars, helperVars, check, returns, sender, other, resumed,
                   extras>>

\* on_local_checked: the first run to end takes the result along.
Checked(p) ==
    /\ runs[p] > 0
    /\ runs'  = [runs EXCEPT ![p] = @ - 1]
    /\ check' = [check EXCEPT ![p] = FALSE]
    /\ IF check[p] THEN Report(p) ELSE UNCHANGED reports
    /\ UNCHANGED <<packetVars, helperVars, returns, sender, other, resumed, extras>>

(***************************************************************************)
(* Helpers.                                                                *)
(***************************************************************************)
\* mark_offline: a flight in flight is back on the ground.
GoOffline(p, s) ==
    /\ helper'   = [helper EXCEPT ![p] = "offline"]
    /\ mail'     = [mail EXCEPT ![p] = FALSE]
    /\ reminded' = [reminded EXCEPT ![p] = 0]
    /\ stage'    = [stage EXCEPT ![p] = IF s = "inflight" THEN "cleared" ELSE s]

\* The helper exits, or the human stops it.
Leave(p) ==
    /\ Live(p)
    /\ GoOffline(p, stage[p])
    /\ UNCHANGED <<model, state, asked, queue, stopAfter, resultVars, sender, other,
                   resumed, extras>>

Remind_NoLimit(p) ==
    /\ reminded' = [reminded EXCEPT ![p] = @ + 1]
    /\ UNCHANGED <<helper, mail, stage>>

\* remind_unreturned: the reminder starts a turn at once; after the last one the
\* helper is stopped and the flight needs the human.
Remind(p) ==
    IF reminded[p] < MaxReminders
    THEN /\ reminded' = [reminded EXCEPT ![p] = @ + 1]
         /\ UNCHANGED <<helper, mail, stage>>
    ELSE GoOffline(p, "needsyou")

\* A turn ends: on_idle stops the helper that returned or hands it its mail, then
\* one that sits on an open packet is reminded, unless its turn was cancelled or
\* refused ("counts" is FALSE).
TurnEnd(p, counts) ==
    /\ helper[p] = "working"
    /\ \/ /\ stopAfter[p] /\ GoOffline(p, stage[p])
          /\ stopAfter' = [stopAfter EXCEPT ![p] = FALSE]
       \/ /\ ~stopAfter[p] /\ mail[p]
          /\ mail' = [mail EXCEPT ![p] = FALSE]
          /\ UNCHANGED <<helper, reminded, stopAfter, stage>>
       \/ /\ ~stopAfter[p] /\ ~mail[p] /\ counts /\ state[p] = "accepted"
          /\ Remind(p)
          /\ UNCHANGED stopAfter
       \/ /\ ~stopAfter[p] /\ ~mail[p] /\ ~(counts /\ state[p] = "accepted")
          /\ helper' = [helper EXCEPT ![p] = "holding"]
          /\ UNCHANGED <<mail, reminded, stopAfter, stage>>
    /\ UNCHANGED <<model, state, asked, queue, resultVars, sender, other, resumed,
                   extras>>

\* Somebody writes to it.  Where it is the human, its turns so far were not
\* forgetting.
Talk(p, human) ==
    /\ Live(p) /\ Extra
    /\ reminded' = [reminded EXCEPT ![p] = IF human THEN 0 ELSE @]
    /\ helper' = [helper EXCEPT ![p] = "working"]
    /\ mail' = [mail EXCEPT ![p] = @ \/ helper[p] = "working"]
    /\ UNCHANGED <<packetVars, stopAfter, resultVars, sender, other, resumed>>

SenderLeaves ==
    /\ sender /\ sender' = FALSE /\ Extra
    /\ UNCHANGED <<packetVars, helperVars, resultVars, other, resumed>>

\* launch, of an agent on another flight: it asks for a place in the role and not
\* whether the model is free.  Or somebody writes to one that is idle.
OtherWorks(o) ==
    /\ other[o] # "working" /\ Extra
    /\ other[o] = "none" /\ o \in LocalOthers => RoleLoad(World) < RoleMax
    /\ other' = [other EXCEPT ![o] = "working"]
    /\ UNCHANGED <<packetVars, helperVars, resultVars, sender, resumed>>

\* Its turn ends, or it leaves, or its flight lands.
OtherRests(o, left) ==
    /\ other[o] = "working" \/ (left /\ other[o] = "holding")
    /\ other' = [other EXCEPT ![o] = IF left THEN "none" ELSE "holding"]
    /\ UNCHANGED <<packetVars, helperVars, resultVars, sender, resumed, extras>>

(***************************************************************************)
(* The tick, and a restart.                                                *)
(***************************************************************************)
DrainOne(w, p, fail) ==
    IF w.state[p] = "draft" THEN Release(w, p, fail)
    ELSE [w EXCEPT !.queue = RemoveFirst(@, p)]

\* drain_local_queue, over the queue as it was: an entry that is no longer a draft
\* is dropped, every other one is released, which may leave it in line.
Drain(fails) ==
    LET after[i \in 0..Len(queue)] ==
          IF i = 0 THEN World ELSE DrainOne(after[i - 1], queue[i], fails[queue[i]])
    IN  after[Len(queue)]

\* The first tick after a start runs the checks again whose results were held;
\* that of a flight that is gone is not.
Resume(commands) ==
    IF resumed THEN UNCHANGED <<check, runs, reports>>
    ELSE LET held == {p \in Packets : check[p] /\ state[p] # "gone"} IN
         /\ check' = [p \in Packets |-> p \in held /\ commands]
         /\ runs'  = [p \in Packets |-> runs[p] + IF p \in held /\ commands THEN 1 ELSE 0]
         /\ reports' = [p \in Packets |-> reports[p] + IF p \in held /\ ~commands
                                                       THEN 1 ELSE 0]

Tick(fails, commands) ==
    /\ Become(Drain(fails))
    /\ Resume(commands) /\ resumed' = TRUE
    /\ UNCHANGED <<model, mail, reminded, stopAfter, returns, sender, other, extras>>

\* Helpers are children of the daemon and end with it, as check runs do; their
\* flights keep their stage.  Agents in a pane live on, one without does not.
Restart ==
    /\ Extra
    /\ \E gone \in SUBSET Others :
         other' = [o \in Others |-> IF o \in gone THEN "none" ELSE other[o]]
    /\ helper' = [p \in Packets |-> IF Live(p) THEN "offline" ELSE helper[p]]
    /\ stopAfter' = [p \in Packets |-> FALSE]
    /\ reminded' = [p \in Packets |-> 0] /\ runs' = [p \in Packets |-> 0]
    /\ sender' \in {sender, FALSE} /\ resumed' = FALSE
    /\ UNCHANGED <<packetVars, mail, check, returns, reports>>

Ticks ==
    \E fails \in [{p \in Packets : Queued(p)} -> Failures], commands \in BOOLEAN :
        Tick(fails, commands)

Next ==
    \/ SenderLeaves \/ Restart \/ Ticks
    \/ \E p \in Packets :
         \/ \E ask \in BOOLEAN, fails \in Failures : Delegate(p, ask, fails)
         \/ \E fails \in Failures : ReleaseHandoff(p, fails)
         \/ Reject(p) \/ Delete(p) \/ Leave(p) \/ Checked(p)
         \/ \E human \in BOOLEAN : Talk(p, human)
         \/ \E commands, auto \in BOOLEAN : Return(p, commands, auto)
         \/ \E counts \in BOOLEAN : TurnEnd(p, counts)
    \/ \E o \in Others : OtherWorks(o) \/ \E left \in BOOLEAN : OtherRests(o, left)

Spec == Init /\ [][Next]_vars

\* The daemon ticks, a check run ends (its commands are killed at their timeout),
\* and a turn of a helper ends.  Nothing is asked of the others.
FairSpec ==
    /\ Spec /\ WF_vars(Ticks)
    /\ \A p \in Packets :
         WF_vars(Checked(p)) /\ WF_vars(\E counts \in BOOLEAN : TurnEnd(p, counts))

(***************************************************************************)
(* What tower_await answers.                                               *)
(***************************************************************************)
Await(p) ==
    CASE state[p] \in {"none", "gone"} -> "unknown"
      [] state[p] = "draft" -> IF Queued(p) THEN "queued"
                               ELSE IF stage[p] = "needsyou" THEN "failed"
                               ELSE "waiting"
      [] state[p] = "accepted" /\ stage[p] = "needsyou" /\ ~Live(p) -> "failed"
      [] check[p] -> "checking"
      [] state[p] = "returned" /\ ~check[p] -> "returned"
      [] OTHER -> "running"

\* await_handoff in the shim asks again while it hears one of these.
Pending(p) == Await(p) \in {"running", "queued", "checking"}

(***************************************************************************)
(* Properties.                                                             *)
(***************************************************************************)
\* "Waiting for the human's clearance" is said only while the Inbox asks for it.
WaitingIsAsked == \A p \in Packets : Await(p) = "waiting" => asked[p]

\* A result is passed on once for a tower_return at most, and never lost: it is
\* out, or its check runs or is about to be run again.
ReportedOnce ==
    \A p \in Packets :
        LET held == IF check[p] THEN 1 ELSE 0 IN
        /\ reports[p] + held <= returns[p]
        /\ state[p] = "returned" => reports[p] + held > 0
        /\ check[p] /\ resumed => runs[p] > 0

\* A model gets more work than its max_concurrency only where somebody writes to
\* a helper that sits idle, or where an agent of another flight takes a turn.
NotOverbooked ==
    [][\A m \in Models :
          Load(World, m)' > Capacity[m] =>
              \/ Load(World, m)' <= Load(World, m)
              \/ \E p \in Packets, human \in BOOLEAN : Talk(p, human)
              \/ \E o \in Others : OtherWorks(o)]_vars

\* Tower starts no packet while an older one stays in line for the same model.
OldestFirst ==
    [][\A p, q \in Packets :
          /\ helper[p] = "none" /\ helper'[p] = "working"
          /\ Queued(q) /\ Queued(q)' /\ model[q] = model[p] /\ state'[q] = "draft"
          => Pos(queue, p) < Pos(queue, q)]_vars

\* The helper left with the packet: nobody tells the sender, and nobody stops one
\* that sits idle after a cancelled or refused turn.
Left(p) == state[p] = "accepted" /\ helper[p] = "offline" /\ stage[p] # "needsyou"

\* Who may keep a packet in line for good: a helper that sits idle, which keeps
\* its place in the role, and an agent of another flight that is at work on the
\* model or, idle or not, has the role.
HeldUp(p) ==
    \/ \E q \in Packets : helper[q] = "holding"
    \/ \E o \in Others : \/ other[o] = "working" /\ OtherModel[o] = model[p]
                         \/ other[o] # "none" /\ o \in LocalOthers

\* An agent that waits in tower_await gets an answer in the end, unless the helper
\* left or sits idle, or the packet is held up in line.
AwaitAnswered ==
    \A p \in Packets :
        []<>(~Pending(p) \/ Left(p) \/ helper[p] = "holding" \/ (Queued(p) /\ HeldUp(p)))

\* A packet whose model stopped without a result is told as failed ("status:
\* failed. The model stopped without a result").  Not so: a helper that exits or
\* is stopped leaves the flight cleared, and the answer stays "running".
StoppedIsFailed ==
    \A p \in Packets :
        state[p] = "accepted" /\ helper[p] = "offline" => Await(p) = "failed"
=============================================================================
