----------------------------- MODULE FanoutPlan -----------------------------
(***************************************************************************)
(* What start_fanout does with a plan before a part runs: core/fanout.rs   *)
(* checks it, walks it for a dependency cycle, makes two parts that write  *)
(* the same file wait for one another, lays the parts out in waves and     *)
(* holds the result against the limits.  One behaviour is one plan.        *)
(*                                                                         *)
(* The code is sequential.  Its loops are steps here, so that what each    *)
(* round relies on can be stated: `from`, `path` and `done` are those of   *)
(* find_cycle, `later` and `earlier` the indices of serialize_conflicts,   *)
(* `waves` the list build_waves makes.  depends_on lists are sets, and the *)
(* walk takes a part's dependencies in any order; so are the waves, whose  *)
(* plan order matters to no property.                                      *)
(*                                                                         *)
(* A definition named X_Y is X with a plausible mistake Y in it.           *)
(***************************************************************************)
EXTENDS Integers, FiniteSets, SequencesExt

CONSTANTS
    Names,         \* what a plan may use as ids and in depends_on
    Files,         \* files of the flight's folder
    Roles,         \* roles a part may name, or get from the plan's worker
    CannotTake,    \* the roles start_fanout refuses: unknown, LLM, swarm, unable
                   \* to run, the lead's own with max_concurrency 1, not local
    MaxSubtasks,   \* Limits.max_subtasks
    MaxWaves,      \* Limits.max_waves
    Plans          \* plans agents and planners come up with

(***************************************************************************)
(* How an agent may write a file's path: as tower writes it, with "./" in  *)
(* front, with a backslash between folders, with a "." or an empty segment *)
(* inside ("src//a.rs"), or climbing out with "..".                        *)
(***************************************************************************)
Spellings == {"plain", "dotted", "backslashed", "roundabout", "climbing"}

Path == [file : Files, spelling : Spellings]

Task == [id : Names, depends_on : SUBSET Names, target_files : SUBSET Path,
         read_only : BOOLEAN, role : Roles,
         filled : BOOLEAN]  \* has an id, a title or brief, and a known tier

ASSUME PlanInputs ==
    /\ Plans \subseteq Seq(Task)
    /\ CannotTake \subseteq Roles
    /\ MaxSubtasks \in Nat /\ MaxWaves \in Nat

VARIABLES
    plan,      \* the tasks, in plan order
    stage,     \* where start_fanout is
    verdict,   \* what it decided: "none" so far, "accepted", or why not
    deps,      \* depends_on of each part, as serialize_conflicts extends it
    from,      \* find_cycle: index of the task its next walk begins at, from 1
    path,      \* find_cycle: the parts the walk is inside of
    done,      \* find_cycle: the parts it is finished with
    later,     \* serialize_conflicts: j, from 1
    earlier,   \* serialize_conflicts: i, from 1
    waves      \* build_waves: the waves so far

vars == <<plan, stage, verdict, deps, from, path, done, later, earlier, waves>>

Stages == {"validate", "walk", "serialize", "layer", "evaluate", "roles", "over"}

Verdicts == {"none", "accepted", "invalid", "cycle", "single", "too big", "role"}

Ids == {plan[k].id : k \in DOMAIN plan}

\* The plan's own dependencies.
Given ==
    [id \in Ids |->
        UNION {plan[k].depends_on : k \in {k \in DOMAIN plan : plan[k].id = id}}]

-----------------------------------------------------------------------------
(***************************************************************************)
(* The pure operators.                                                     *)
(***************************************************************************)

\* is_safe_relative_path
IsSafe(p) == p.spelling # "climbing"

\* The normal form same_path compares: leading "./" dropped, "\" made "/".
Normal(p) ==
    [p EXCEPT !.spelling = IF @ \in {"dotted", "backslashed"} THEN "plain" ELSE @]

SamePath(p, q) == Normal(p) = Normal(q)

\* The test at the head of serialize_conflicts' inner loop.
Conflict(s, t) ==
    /\ ~s.read_only /\ ~t.read_only
    /\ \E p \in s.target_files, q \in t.target_files : SamePath(p, q)

DependsUpon_DirectOnly(dep, a, b) == b \in dep[a]

(***************************************************************************)
(* fanout::depends_on, where dep says what each part waits for: b is in    *)
(* the least set that holds what a waits for and what its members do.      *)
(***************************************************************************)
DependsUpon(dep, a, b) ==
    \A S \in SUBSET Ids :
        (\A x \in S \cup {a} : dep[x] \subseteq S) => b \in S

Valid_UnknownIds ==
    /\ plan # <<>> /\ Len(plan) <= MaxSubtasks
    /\ \A k \in DOMAIN plan :
          /\ plan[k].filled
          /\ \A p \in plan[k].target_files : IsSafe(p)
          /\ plan[k].id \notin plan[k].depends_on
    /\ \A k, l \in DOMAIN plan : plan[k].id = plan[l].id => k = l

\* The checks of fanout::validate but the last, the walk.
Valid ==
    /\ plan # <<>> /\ Len(plan) <= MaxSubtasks
    /\ \A k \in DOMAIN plan :
          /\ plan[k].filled
          /\ \A p \in plan[k].target_files : IsSafe(p)
          /\ plan[k].depends_on \subseteq Ids \ {plan[k].id}
    /\ \A k, l \in DOMAIN plan : plan[k].id = plan[l].id => k = l

-----------------------------------------------------------------------------
Init ==
    /\ plan \in Plans
    /\ stage = "validate" /\ verdict = "none"
    /\ deps = Given
    /\ from = 1 /\ path = <<>> /\ done = {}
    /\ later = 1 /\ earlier = 1
    /\ waves = <<>>

\* start_fanout returns.
Decide(v) == stage' = "over" /\ verdict' = v

GoTo(s) == stage' = s /\ UNCHANGED verdict

Validate ==
    /\ stage = "validate"
    /\ IF Valid THEN GoTo("walk") ELSE Decide("invalid")
    /\ UNCHANGED <<plan, deps, from, path, done, later, earlier, waves>>

\* find_cycle's loop: a walk begins at the next task, or is over at once where an
\* earlier one has finished with it.
WalkFrom ==
    /\ stage = "walk" /\ path = <<>> /\ from <= Len(plan)
    /\ path' = IF plan[from].id \in done THEN path ELSE <<plan[from].id>>
    /\ from' = from + 1
    /\ UNCHANGED <<plan, stage, verdict, deps, done, later, earlier, waves>>

\* Nobody looks whether the walk is inside of the part: a part it is inside of is
\* entered once more.
WalkInto_Blind ==
    /\ stage = "walk" /\ path # <<>>
    /\ \E d \in deps[Last(path)] \ done :
          path' = IF Contains(path, d)
                  THEN SubSeq(path, 1, CHOOSE i \in DOMAIN path : path[i] = d)
                  ELSE Append(path, d)
    /\ UNCHANGED <<plan, stage, verdict, deps, from, done, later, earlier, waves>>

\* walk: enter a dependency, unless the walk is already inside of it.
WalkInto ==
    /\ stage = "walk" /\ path # <<>>
    /\ \E d \in deps[Last(path)] \ done :
          IF d \in Range(path)
          THEN Decide("cycle") /\ UNCHANGED path
          ELSE path' = Append(path, d) /\ UNCHANGED <<stage, verdict>>
    /\ UNCHANGED <<plan, deps, from, done, later, earlier, waves>>

\* walk: every dependency is finished with, so this part is.
WalkBack ==
    /\ stage = "walk" /\ path # <<>>
    /\ deps[Last(path)] \subseteq done
    /\ path' = Front(path)
    /\ done' = done \cup {Last(path)}
    /\ UNCHANGED <<plan, stage, verdict, deps, from, later, earlier, waves>>

WalkEnds ==
    /\ stage = "walk" /\ path = <<>> /\ from > Len(plan)
    /\ GoTo("serialize")
    /\ UNCHANGED <<plan, deps, from, path, done, later, earlier, waves>>

SerializePair_Swapped ==
    /\ stage = "serialize" /\ later <= Len(plan) /\ earlier < later
    /\ LET a == plan[earlier].id  b == plan[later].id
       IN  deps' = IF /\ Conflict(plan[earlier], plan[later])
                      /\ ~DependsUpon(deps, b, a) /\ ~DependsUpon(deps, a, b)
                   THEN [deps EXCEPT ![a] = @ \cup {b}]
                   ELSE deps
    /\ earlier' = earlier + 1
    /\ UNCHANGED <<plan, stage, verdict, from, path, done, later, waves>>

\* The inner loop of serialize_conflicts: the later part waits for the
\* earlier one, unless one of them waits for the other already.
SerializePair ==
    /\ stage = "serialize" /\ later <= Len(plan) /\ earlier < later
    /\ LET a == plan[earlier].id  b == plan[later].id
       IN  deps' = IF /\ Conflict(plan[earlier], plan[later])
                      /\ ~DependsUpon(deps, b, a) /\ ~DependsUpon(deps, a, b)
                   THEN [deps EXCEPT ![b] = @ \cup {a}]
                   ELSE deps
    /\ earlier' = earlier + 1
    /\ UNCHANGED <<plan, stage, verdict, from, path, done, later, waves>>

SerializeNext ==
    /\ stage = "serialize" /\ later <= Len(plan) /\ earlier = later
    /\ later' = later + 1 /\ earlier' = 1
    /\ UNCHANGED <<plan, stage, verdict, deps, from, path, done, waves>>

SerializeEnds_OneShort ==
    /\ stage = "serialize" /\ later >= Len(plan)
    /\ GoTo("layer")
    /\ UNCHANGED <<plan, deps, from, path, done, later, earlier, waves>>

SerializeEnds ==
    /\ stage = "serialize" /\ later > Len(plan)
    /\ GoTo("layer")
    /\ UNCHANGED <<plan, deps, from, path, done, later, earlier, waves>>

Placed == UNION Range(waves)

ReadyParts_AnyDependency ==
    {t \in Ids \ Placed : deps[t] = {} \/ deps[t] \cap Placed # {}}

\* The parts not placed yet whose dependencies all are.
ReadyParts == {t \in Ids \ Placed : deps[t] \subseteq Placed}

\* build_waves: one round of its loop.
BuildWave ==
    /\ stage = "layer" /\ ReadyParts # {}
    /\ waves' = Append(waves, ReadyParts)
    /\ UNCHANGED <<plan, stage, verdict, deps, from, path, done, later, earlier>>

\* build_waves: the loop is over; what it could not place is a last wave.
BuildRest ==
    /\ stage = "layer" /\ ReadyParts = {}
    /\ waves' = IF Ids \subseteq Placed THEN waves ELSE Append(waves, Ids \ Placed)
    /\ GoTo("evaluate")
    /\ UNCHANGED <<plan, deps, from, path, done, later, earlier>>

\* fanout::evaluate
Evaluate ==
    /\ stage = "evaluate"
    /\ IF Len(plan) <= 1 THEN Decide("single")
       ELSE IF Len(waves) > MaxWaves THEN Decide("too big")
       ELSE GoTo("roles")
    /\ UNCHANGED <<plan, deps, from, path, done, later, earlier, waves>>

\* start_fanout's loop over the parts' roles; then the fan-out is stored.
CheckRoles ==
    /\ stage = "roles"
    /\ Decide(IF \E k \in DOMAIN plan : plan[k].role \in CannotTake
              THEN "role" ELSE "accepted")
    /\ UNCHANGED <<plan, deps, from, path, done, later, earlier, waves>>

Next ==
    \/ Validate
    \/ WalkFrom \/ WalkInto \/ WalkBack \/ WalkEnds
    \/ SerializePair \/ SerializeNext \/ SerializeEnds
    \/ BuildWave \/ BuildRest
    \/ Evaluate \/ CheckRoles

Spec == Init /\ [][Next]_vars

\* start_fanout is one synchronous call: it runs until it returns.
FairSpec == Spec /\ WF_vars(Next)

-----------------------------------------------------------------------------
(***************************************************************************)
(* Properties.                                                             *)
(***************************************************************************)

\* Types; from the first check on, dependencies are parts of the plan.
PlanTypeOK ==
    /\ plan \in Seq(Task) /\ stage \in Stages /\ verdict \in Verdicts
    /\ stage = "over" <=> verdict # "none"
    /\ verdict # "invalid" /\ stage # "validate" => deps \in [Ids -> SUBSET Ids]
    /\ from \in 1..(Len(plan) + 1) /\ path \in Seq(Ids) /\ done \in SUBSET Ids
    /\ later \in 1..(Len(plan) + 1) /\ earlier \in 1..later
    /\ waves \in Seq(SUBSET Ids)

\* Every nonempty set of parts has one that waits for no other of the set.
NoCycle ==
    \A S \in SUBSET Ids : S # {} => \E x \in S : deps[x] \cap S = {}

PastTheWalk ==
    \/ stage \in {"serialize", "layer", "evaluate", "roles"}
    \/ verdict \in {"single", "too big", "role", "accepted"}

(***************************************************************************)
(* find_cycle refuses a plan exactly when it has a cycle, and the edges    *)
(* serialize_conflicts then adds never close one: build_waves' rest, one   *)
(* wave of parts that wait for one another, would start them all at once.  *)
(***************************************************************************)
CycleVerdict ==
    /\ verdict = "cycle" => ~NoCycle
    /\ PastTheWalk => NoCycle

(***************************************************************************)
(* serialize_conflicts keeps what the plan asked for.  It makes a part     *)
(* wait only for an earlier writer of a file it writes, and only when the  *)
(* plan itself does not order the two, either way round.                   *)
(***************************************************************************)
KeepsThePlan ==
    \A l \in DOMAIN plan :
        LET b == plan[l].id IN
        /\ Given[b] \subseteq deps[b]
        /\ \A a \in deps[b] \ Given[b] :
              /\ \E k \in DOMAIN plan :
                    plan[k].id = a /\ k < l /\ Conflict(plan[k], plan[l])
              /\ ~DependsUpon(Given, b, a) /\ ~DependsUpon(Given, a, b)

(***************************************************************************)
(* An accepted plan is what the barrier of Fanout takes for granted: at    *)
(* most max_waves waves, none empty, every part in exactly one of them,    *)
(* and every dependency in an earlier wave.  A part of a later wave has a  *)
(* dependency in the wave before it: it waits no longer than it must.      *)
(***************************************************************************)
Layered ==
    verdict = "accepted" =>
        /\ Len(waves) <= MaxWaves
        /\ Placed = Ids
        /\ \A k \in DOMAIN waves : waves[k] # {}
        /\ \A k, l \in DOMAIN waves : k # l => waves[k] \cap waves[l] = {}
        /\ \A k \in DOMAIN waves : \A p \in waves[k] :
              /\ \A d \in deps[p] : \E e \in 1..(k - 1) : d \in waves[e]
              /\ k > 1 => deps[p] \cap waves[k - 1] # {}

\* Two parts of an accepted plan in one wave never write to one path as
\* same_path reads it: nothing else keeps children of a wave apart.
WritersApart ==
    verdict = "accepted" =>
        \A k, l \in DOMAIN plan : \A w \in DOMAIN waves :
            k # l /\ Conflict(plan[k], plan[l])
                => ~ {plan[k].id, plan[l].id} \subseteq waves[w]

\* Whatever plan an agent sends, the call returns: the engine's only thread
\* is never stuck walking or layering one.
Decided == <>(stage = "over")

=============================================================================
