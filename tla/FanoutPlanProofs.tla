-------------------------- MODULE FanoutPlanProofs --------------------------
(***************************************************************************)
(* Proofs about FanoutPlan, for every set of plans: what start_fanout      *)
(* accepts is layered as Fanout takes for granted, two parts of one wave   *)
(* never write to one path, and the plan's own order is kept.              *)
(*                                                                         *)
(* Each phase of the code hands one fact on to the next.  The walk has     *)
(* finished with a set of parts that has no cycle and waits for nothing    *)
(* outside of it (WalkSound), in the end with all of them (Begun); the edges added afterwards never close a     *)
(* cycle (NoCycle) and order one pair of writers after the other           *)
(* (PairsOrdered); without a cycle some part is always ready, so layering  *)
(* leaves no rest (LayersSound).                                           *)
(***************************************************************************)
EXTENDS FanoutPlan, SequenceTheorems, TLAPS

-----------------------------------------------------------------------------
(* The inductive invariant. *)

Checked == stage # "validate" /\ verdict # "invalid"

Acyclic(dep, D) ==
    \A S \in SUBSET D : S # {} => \E x \in S : dep[x] \cap S = {}

\* What find_cycle's loop knows: `done` waits only for itself and has no
\* cycle, and each part on `path` waits for the next one.
WalkSound ==
    /\ \A x \in done : deps[x] \subseteq done
    /\ stage = "walk" => Acyclic(deps, done)
    /\ \A k \in 1..(Len(path) - 1) : path[k + 1] \in deps[path[k]]
    /\ PastTheWalk => done = Ids

\* The walks begun so far are finished, or the one under way is inside of them.
Begun == \A k \in 1..(from - 1) : plan[k].id \in done \cup Range(path)

\* The pairs serialize_conflicts has been through.
Visited(k, l) == k < l /\ (l < later \/ (l = later /\ k < earlier))

PairsOrdered ==
    \A k, l \in DOMAIN plan :
        Visited(k, l) /\ Conflict(plan[k], plan[l]) =>
            \/ DependsUpon(deps, plan[l].id, plan[k].id)
            \/ DependsUpon(deps, plan[k].id, plan[l].id)

PastLayering ==
    \/ stage \in {"evaluate", "roles"}
    \/ verdict \in {"single", "too big", "role", "accepted"}

PastSerializing == stage = "layer" \/ PastLayering

Disjoint ==
    \A k, l \in DOMAIN waves : k # l => waves[k] \cap waves[l] = {}

\* A part's dependencies are in earlier waves, one of them in the wave before.
Tight ==
    \A k \in DOMAIN waves : \A p \in waves[k] :
        /\ \A d \in deps[p] : \E e \in 1..(k - 1) : d \in waves[e]
        /\ k > 1 => deps[p] \cap waves[k - 1] # {}

LayersSound ==
    /\ \A k \in DOMAIN waves : waves[k] # {}
    /\ Disjoint
    /\ Tight
    /\ \A t \in Ids \ Placed :
          waves # <<>> /\ deps[t] \subseteq Placed
              => deps[t] \cap waves[Len(waves)] # {}
    /\ PastLayering => Placed = Ids

PlanInv ==
    /\ PlanTypeOK
    /\ stage = "validate" => deps = Given /\ from = 1 /\ path = <<>> /\ done = {}
    /\ Checked => Valid
    /\ Checked => WalkSound
    /\ stage = "walk" => Begun
    /\ CycleVerdict
    /\ KeepsThePlan
    /\ Checked => PairsOrdered
    /\ stage \in {"validate", "walk"} => later = 1 /\ earlier = 1
    /\ PastSerializing => later > Len(plan)
    /\ ~PastSerializing => waves = <<>>
    /\ PastSerializing => LayersSound
    /\ stage = "roles" \/ verdict = "accepted" => Len(waves) <= MaxWaves

-----------------------------------------------------------------------------
(* Dependencies, whatever the plan. *)

\* More edges reach no less: what serialize_conflicts ordered stays ordered.
LEMMA DependsGrows ==
    ASSUME NEW old, NEW new, NEW a \in Ids, NEW b,
           \A x \in Ids : old[x] \subseteq new[x],
           DependsUpon(old, a, b)
    PROVE  DependsUpon(new, a, b)
BY DEF DependsUpon

\* A direct dependency is one that fanout::depends_on finds.
LEMMA DirectDependency ==
    ASSUME NEW dep, NEW a, NEW b, b \in dep[a]
    PROVE  DependsUpon(dep, a, b)
BY DEF DependsUpon

\* serialize_conflicts closes no cycle: b may wait for a when a does not
\* wait for b already.
LEMMA EdgeKeepsAcyclic ==
    ASSUME NEW dep \in [Ids -> SUBSET Ids], NEW a \in Ids, NEW b \in Ids, a # b,
           Acyclic(dep, Ids), ~DependsUpon(dep, a, b)
    PROVE  Acyclic([dep EXCEPT ![b] = @ \cup {a}], Ids)
<1> DEFINE new == [dep EXCEPT ![b] = @ \cup {a}]
<1> SUFFICES ASSUME NEW S \in SUBSET Ids, S # {}
             PROVE  \E x \in S : new[x] \cap S = {}
    BY DEF Acyclic
<1>1. PICK C \in SUBSET Ids : (\A x \in C \cup {a} : dep[x] \subseteq C) /\ b \notin C
    BY DEF DependsUpon
<1>2. CASE a \notin S
    <2>1. PICK x \in S : dep[x] \cap S = {}
        BY DEF Acyclic
    <2>2. new[x] \subseteq dep[x] \cup {a}
        OBVIOUS
    <2>3. QED
        BY <1>2, <2>1, <2>2
<1>3. CASE a \in S
    \* What a waits for, within S, is closed and leaves b out.
    <2> DEFINE R == (C \cup {a}) \cap S
    <2>1. R \in SUBSET Ids /\ R # {}
        BY <1>3
    <2>2. PICK x \in R : dep[x] \cap R = {}
        BY <2>1 DEF Acyclic
    <2>3. dep[x] \subseteq C /\ x # b
        BY <1>1
    <2>4. new[x] = dep[x] /\ dep[x] \cap S = {}
        BY <2>2, <2>3
    <2>5. QED
        BY <2>4
<1>4. QED
    BY <1>2, <1>3

\* A finished set grows by a part that waits only for finished parts: what
\* walk does on its way back.
LEMMA FinishedGrows ==
    ASSUME NEW dep, NEW D, NEW t, dep[t] \subseteq D,
           Acyclic(dep, D), \A x \in D : dep[x] \subseteq D
    PROVE  Acyclic(dep, D \cup {t})
<1>1. CASE t \in D
    <2>1. D \cup {t} = D
        BY <1>1
    <2>2. QED
        BY <2>1
<1>2. CASE t \notin D
    <2> SUFFICES ASSUME NEW S \in SUBSET (D \cup {t}), S # {}
                 PROVE  \E x \in S : dep[x] \cap S = {}
        BY DEF Acyclic
    <2>1. CASE S \ {t} = {}
        BY <1>2, <2>1
    <2>2. CASE S \ {t} # {}
        <3>1. S \ {t} \in SUBSET D
            OBVIOUS
        <3>2. PICK x \in S \ {t} : dep[x] \cap (S \ {t}) = {}
            BY <2>2, <3>1 DEF Acyclic
        <3>3. t \notin dep[x]
            BY <1>2, <3>1
        <3>4. QED
            BY <3>2, <3>3
    <2>3. QED
        BY <2>1, <2>2
<1>3. QED
    BY <1>1, <1>2

\* A plan that passed validate's checks has one part to an id, and its
\* dependencies are parts of it.
LEMMA OnePartPerId ==
    ASSUME PlanTypeOK, Checked, Valid
    PROVE  /\ Len(plan) \in Nat
           /\ DOMAIN plan = 1..Len(plan)
           /\ \A k \in DOMAIN plan : plan[k].id \in Ids
           /\ \A k, l \in DOMAIN plan : plan[k].id = plan[l].id => k = l
           /\ deps \in [Ids -> SUBSET Ids]
<1>1. Len(plan) \in Nat /\ DOMAIN plan = 1..Len(plan)
    <2>1. plan \in Seq(Task)
        BY DEF PlanTypeOK
    <2> HIDE DEF Task
    <2>2. QED
        BY <2>1, LenProperties
<1>2. \A k \in DOMAIN plan : plan[k].id \in Ids
    BY DEF Ids
<1>3. QED
    BY <1>1, <1>2 DEF PlanTypeOK, Checked, Valid

-----------------------------------------------------------------------------
(* Init. *)

\* A plan as it is handed to start_fanout: nothing is checked, walked or layered.
LEMMA PlanInvInit == Init => PlanInv
<1> SUFFICES ASSUME Init PROVE PlanInv
    OBVIOUS
<1>1. plan \in Seq(Task) /\ Len(plan) \in Nat
    BY PlanInputs DEF Init
<1>2. PlanTypeOK
    BY <1>1 DEF Init, PlanTypeOK, Stages, Verdicts
<1>3. KeepsThePlan
    BY DEF Init, KeepsThePlan
<1>4. QED
    BY <1>2, <1>3 DEF Init, PlanInv, Checked, PastTheWalk, CycleVerdict,
       PastSerializing, PastLayering

-----------------------------------------------------------------------------
(* The steps.  No step touches the plan. *)

\* What is derived from the plan alone stays with it.
LEMMA SamePlan ==
    ASSUME plan' = plan
    PROVE  /\ Ids' = Ids /\ Given' = Given /\ (Valid <=> Valid')
<1>1. Ids' = Ids
    BY DEF Ids
<1>2. Given' = Given
    BY <1>1 DEF Given
<1>3. Valid <=> Valid'
    BY <1>1 DEF Valid
<1>4. QED
    BY <1>1, <1>2, <1>3

\* What depends on `plan` and `deps` alone.
LEMMA SameDeps ==
    ASSUME plan' = plan, deps' = deps
    PROVE  /\ KeepsThePlan => KeepsThePlan'
           /\ NoCycle <=> NoCycle'
           /\ PairsOrdered /\ later' = later /\ earlier' = earlier
                => PairsOrdered'
<1>1. Ids' = Ids /\ Given' = Given
    BY SamePlan
<1>2. KeepsThePlan => KeepsThePlan'
    BY <1>1 DEF KeepsThePlan, DependsUpon
<1>3. NoCycle <=> NoCycle'
    BY <1>1 DEF NoCycle
<1>4. ASSUME PairsOrdered, later' = later, earlier' = earlier
      PROVE  PairsOrdered'
    BY <1>1, <1>4 DEF PairsOrdered, Visited, DependsUpon
<1>5. QED
    BY <1>2, <1>3, <1>4

\* A step that leaves the waves and what they are made from alone.
LEMMA SameWaves ==
    ASSUME plan' = plan, deps' = deps, waves' = waves, LayersSound,
           PastLayering' => PastLayering
    PROVE  LayersSound'
<1>1. Ids' = Ids
    BY SamePlan
<1>2. Placed' = Placed
    BY DEF Placed
<1>3. QED
    BY <1>1, <1>2 DEF LayersSound, Disjoint, Tight

\* Type correctness of a step that leaves the lists alone.
LEMMA SameLists ==
    ASSUME PlanTypeOK, UNCHANGED <<plan, deps, from, path, done, later, earlier, waves>>,
           stage' \in Stages, verdict' \in Verdicts,
           stage' = "over" <=> verdict' # "none",
           Checked' => Checked
    PROVE  PlanTypeOK'
<1>1. Ids' = Ids
    BY SamePlan
<1>2. QED
    BY <1>1 DEF PlanTypeOK, Checked

\* validate: past it the plan is valid, and the walk starts with its edges as given.
LEMMA ValidateStep == PlanInv /\ Validate => PlanInv'
<1> SUFFICES ASSUME PlanInv, Validate PROVE PlanInv'
    OBVIOUS
<1>1. /\ UNCHANGED <<plan, deps, from, path, done, later, earlier, waves>>
      /\ stage = "validate" /\ verdict = "none"
      /\ deps = Given /\ from = 1 /\ path = <<>> /\ done = {} /\ waves = <<>>
      /\ later = 1 /\ earlier = 1
    BY DEF Validate, PlanInv, PlanTypeOK, PastSerializing, PastLayering
<1>2. Ids' = Ids /\ Given' = Given /\ (Valid <=> Valid')
    BY <1>1, SamePlan
<1>3. KeepsThePlan'
    BY <1>1, SameDeps DEF PlanInv
<1>4. CASE Valid
    <2>1. stage' = "walk" /\ verdict' = "none"
        BY <1>1, <1>4 DEF Validate, GoTo
    <2>2. deps \in [Ids -> SUBSET Ids]
        BY <1>1, <1>4 DEF Valid, Given
    <2>3. PlanTypeOK'
        BY <1>1, <1>2, <2>1, <2>2 DEF PlanInv, PlanTypeOK, Stages
    <2>4. WalkSound'
        BY <1>1, <2>1 DEF WalkSound, Acyclic, PastTheWalk
    <2>5. PairsOrdered'
        <3>1. Len(plan) \in Nat /\ DOMAIN plan = 1..Len(plan)
            BY LenProperties DEF PlanInv, PlanTypeOK
        <3>2. QED
            BY <1>1, <3>1 DEF PairsOrdered, Visited
    <2>6. Begun'
        BY <1>1 DEF Begun
    <2>7. QED
        BY <1>1, <1>2, <1>3, <1>4, <2>1, <2>3, <2>4, <2>5, <2>6
        DEF PlanInv, Checked, CycleVerdict, PastTheWalk, PastSerializing, PastLayering
<1>5. CASE ~Valid
    <2>1. stage' = "over" /\ verdict' = "invalid"
        BY <1>1, <1>5 DEF Validate, Decide
    <2>2. PlanTypeOK'
        BY <1>1, <1>2, <2>1 DEF PlanInv, PlanTypeOK, Stages, Verdicts
    <2>3. QED
        BY <1>1, <1>2, <1>3, <2>1, <2>2
        DEF PlanInv, Checked, CycleVerdict, PastTheWalk, PastSerializing, PastLayering
<1>6. QED
    BY <1>4, <1>5

\* The three steps of a walk change only `from`, `path` and `done`, or find a cycle.
LEMMA WalkFrame ==
    ASSUME PlanInv, stage = "walk",
           UNCHANGED <<plan, deps, later, earlier, waves>>,
           \/ stage' = "walk" /\ verdict' = verdict
           \/ stage' = "over" /\ verdict' = "cycle" /\ ~NoCycle,
           from' \in 1..(Len(plan) + 1), path' \in Seq(Ids), done' \in SUBSET Ids,
           WalkSound', stage' = "walk" => Begun'
    PROVE  PlanInv'
<1>1. Ids' = Ids /\ (Valid <=> Valid')
    BY SamePlan
<1>2. verdict = "none" /\ Checked /\ Valid
    BY DEF PlanInv, PlanTypeOK, Checked
<1>3. KeepsThePlan' /\ PairsOrdered' /\ (NoCycle <=> NoCycle')
    BY <1>2, SameDeps DEF PlanInv
<1>4. PlanTypeOK'
    BY <1>1, <1>2 DEF PlanInv, PlanTypeOK, Stages, Verdicts
<1>5. waves = <<>>
    BY <1>2 DEF PlanInv, PastSerializing, PastLayering
<1>6. QED
    BY <1>1, <1>2, <1>3, <1>4, <1>5
    DEF PlanInv, Checked, CycleVerdict, PastTheWalk, PastSerializing, PastLayering

\* The walk for cycles begins at the next part: the path is that part alone, or
\* stays empty where the part is finished with.
LEMMA WalkFromStep == PlanInv /\ WalkFrom => PlanInv'
<1> SUFFICES ASSUME PlanInv, WalkFrom PROVE PlanInv'
    OBVIOUS
<1>1. /\ stage = "walk" /\ verdict = "none" /\ path = <<>> /\ from <= Len(plan)
      /\ path' = IF plan[from].id \in done THEN path ELSE <<plan[from].id>>
      /\ from' = from + 1
      /\ UNCHANGED <<plan, stage, verdict, deps, done, later, earlier, waves>>
    BY DEF WalkFrom, PlanInv, PlanTypeOK
<1>2. WalkSound /\ Begun /\ done \in SUBSET Ids
    BY <1>1 DEF PlanInv, PlanTypeOK, Checked
<1>3. /\ Len(plan) \in Nat /\ DOMAIN plan = 1..Len(plan)
      /\ \A k \in DOMAIN plan : plan[k].id \in Ids
    BY <1>1, OnePartPerId DEF PlanInv, Checked
<1>4. from \in DOMAIN plan /\ from' \in 1..(Len(plan) + 1)
    <2>1. from \in 1..(Len(plan) + 1)
        BY DEF PlanInv, PlanTypeOK
    <2>2. QED
        BY <1>1, <1>3, <2>1
<1> DEFINE t == plan[from].id
<1>5. t \in Ids /\ path' = IF t \in done THEN <<>> ELSE <<t>>
    BY <1>1, <1>3, <1>4
<1> HIDE DEF t
<1>6. path' \in Seq(Ids) /\ Len(path') <= 1 /\ Len(path') \in Nat
    BY <1>5
<1>7. WalkSound'
    BY <1>1, <1>2, <1>6 DEF WalkSound, Acyclic, PastTheWalk
<1>8. Begun'
    <2>1. t \in done \cup Range(path')
        BY <1>5 DEF Range
    <2>2. ASSUME NEW k \in 1..(from' - 1)
          PROVE  plan[k].id \in done \cup Range(path')
        <3>1. CASE k = from
            BY <2>1, <3>1 DEF t
        <3>2. CASE k # from
            <4>1. k \in 1..(from - 1)
                BY <1>1, <1>3, <1>4, <3>2
            <4>2. plan[k].id \in done
                BY <1>1, <1>2, <4>1 DEF Begun, Range
            <4>3. QED
                BY <4>2
        <3>3. QED
            BY <3>1, <3>2
    <2>3. QED
        BY <1>1, <2>2 DEF Begun
<1>9. QED
    BY <1>1, <1>2, <1>4, <1>6, <1>7, <1>8, WalkFrame

\* The part of the path from an earlier visit of d on is a cycle.
LEMMA WalkIntoStep == PlanInv /\ WalkInto => PlanInv'
<1> SUFFICES ASSUME PlanInv, WalkInto PROVE PlanInv'
    OBVIOUS
<1>1. /\ stage = "walk" /\ verdict = "none" /\ path # <<>>
      /\ from \in 1..(Len(plan) + 1) /\ Begun
      /\ UNCHANGED <<plan, deps, from, done, later, earlier, waves>>
    BY DEF WalkInto, PlanInv, PlanTypeOK
<1>2. PICK d \in deps[Last(path)] \ done :
          IF d \in Range(path)
          THEN Decide("cycle") /\ UNCHANGED path
          ELSE path' = Append(path, d) /\ UNCHANGED <<stage, verdict>>
    BY DEF WalkInto
<1>3. /\ WalkSound
      /\ deps \in [Ids -> SUBSET Ids]
      /\ path \in Seq(Ids) /\ done \in SUBSET Ids
    BY <1>1 DEF PlanInv, PlanTypeOK, Checked
<1>4. /\ Len(path) \in Nat /\ Len(path) >= 1
      /\ \A k \in 1..Len(path) : path[k] \in Ids
      /\ DOMAIN path = 1..Len(path)
      /\ Last(path) = path[Len(path)]
    BY <1>1, <1>3 DEF Last
<1>5. CASE d \in Range(path)
    <2>1. stage' = "over" /\ verdict' = "cycle" /\ path' = path
        BY <1>2, <1>5 DEF Decide
    <2>2. ~NoCycle
        <3>1. PICK m \in 1..Len(path) : path[m] = d
            BY <1>4, <1>5 DEF Range
        <3> DEFINE S == {path[k] : k \in m..Len(path)}
        <3>2. S \in SUBSET Ids /\ S # {}
            BY <1>4
        <3>3. \A x \in S : deps[x] \cap S # {}
            <4> SUFFICES ASSUME NEW k \in m..Len(path)
                         PROVE  deps[path[k]] \cap S # {}
                OBVIOUS
            <4>1. CASE k = Len(path)
                BY <1>2, <1>4, <3>1, <4>1
            <4>2. CASE k < Len(path)
                <5>1. path[k + 1] \in deps[path[k]]
                    BY <1>3, <1>4, <4>2 DEF WalkSound
                <5>2. k + 1 \in m..Len(path)
                    BY <1>4, <4>2
                <5>3. QED
                    BY <5>1, <5>2
            <4>3. k = Len(path) \/ k < Len(path)
                <5>1. Len(path) \in Nat
                    BY <1>4
                <5>2. QED
                    BY <5>1
            <4>4. QED
                BY <4>1, <4>2, <4>3
        <3>4. QED
            BY <3>2, <3>3 DEF NoCycle
    <2>3. WalkSound'
        BY <1>1, <1>3, <2>1 DEF WalkSound, PastTheWalk
    <2>4. QED
        BY <1>1, <1>3, <2>1, <2>2, <2>3, WalkFrame
<1>6. CASE d \notin Range(path)
    <2>1. path' = Append(path, d) /\ stage' = stage /\ verdict' = verdict
        BY <1>2, <1>6
    <2>2. d \in Ids
        BY <1>2, <1>3, <1>4
    <2>3. /\ path' \in Seq(Ids) /\ Len(path') = Len(path) + 1
          /\ \A k \in 1..Len(path) : path'[k] = path[k]
          /\ path'[Len(path) + 1] = d
        BY <1>3, <2>1, <2>2, AppendProperties
    <2>4. \A k \in 1..(Len(path') - 1) : path'[k + 1] \in deps[path'[k]]
        <3> SUFFICES ASSUME NEW k \in 1..Len(path)
                     PROVE  path'[k + 1] \in deps[path'[k]]
            BY <1>4, <2>3
        <3>1. CASE k = Len(path)
            BY <1>2, <1>4, <2>3, <3>1
        <3>2. CASE k < Len(path)
            BY <1>3, <1>4, <2>3, <3>2 DEF WalkSound
        <3>3. QED
            BY <1>4, <3>1, <3>2
    <2>5. WalkSound'
        BY <1>1, <1>3, <2>1, <2>4 DEF WalkSound, Acyclic, PastTheWalk
    <2>6. Begun'
        <3>1. Range(path) \subseteq Range(path')
            BY <1>4, <2>3 DEF Range
        <3>2. QED
            BY <1>1, <3>1 DEF Begun
    <2>7. QED
        BY <1>1, <1>3, <2>1, <2>3, <2>5, <2>6, WalkFrame
<1>7. QED
    BY <1>5, <1>6

\* The walk steps back: the part it leaves waits for finished parts only, so the
\* finished ones stay without a cycle.
LEMMA WalkBackStep == PlanInv /\ WalkBack => PlanInv'
<1> SUFFICES ASSUME PlanInv, WalkBack PROVE PlanInv'
    OBVIOUS
<1>1. /\ stage = "walk" /\ verdict = "none" /\ path # <<>>
      /\ deps[Last(path)] \subseteq done
      /\ path' = Front(path) /\ done' = done \cup {Last(path)}
      /\ from \in 1..(Len(plan) + 1) /\ Begun
      /\ UNCHANGED <<plan, stage, verdict, deps, from, later, earlier, waves>>
    BY DEF WalkBack, PlanInv, PlanTypeOK
<1>2. WalkSound /\ path \in Seq(Ids) /\ done \in SUBSET Ids
    BY <1>1 DEF PlanInv, PlanTypeOK, Checked
<1>3. PICK n \in Nat : n + 1 = Len(path)
    BY <1>1, <1>2
<1>4. /\ path' \in Seq(Ids) /\ Len(path') = n
      /\ \A k \in 1..n : path'[k] = path[k]
    <2>1. path' = SubSeq(path, 1, n)
        BY <1>1, <1>3 DEF Front
    <2>2. \A i \in 1..n : path[i] \in Ids
        BY <1>2, <1>3
    <2>3. /\ path' \in Seq(Ids) /\ Len(path') = IF 1 <= n THEN n - 1 + 1 ELSE 0
          /\ \A i \in 1..(n - 1 + 1) : path'[i] = path[1 + i - 1]
        BY <2>1, <2>2, SubSeqProperties
    <2>4. QED
        BY <2>3
<1>5. Acyclic(deps, done) /\ \A x \in done : deps[x] \subseteq done
    BY <1>1, <1>2 DEF WalkSound
<1>6. Acyclic(deps, done')
    BY <1>1, <1>5, FinishedGrows
<1>7. WalkSound'
    <2>1. \A x \in done' : deps[x] \subseteq done'
        BY <1>1, <1>5
    <2>2. \A k \in 1..(Len(path') - 1) : path'[k + 1] \in deps[path'[k]]
        BY <1>2, <1>3, <1>4 DEF WalkSound
    <2>3. QED
        BY <1>1, <1>6, <2>1, <2>2 DEF WalkSound, Acyclic, PastTheWalk
<1>8. Last(path) \in Ids
    BY <1>2, <1>3 DEF Last
<1>9. Begun'
    <2>1. Len(path) \in Nat /\ DOMAIN path = 1..Len(path) /\ DOMAIN path' = 1..n
        BY <1>2, <1>4
    <2>2. Range(path) \subseteq Range(path') \cup {Last(path)}
        BY <1>3, <1>4, <2>1 DEF Range, Last
    <2>3. QED
        BY <1>1, <2>2 DEF Begun
<1>10. QED
    BY <1>1, <1>2, <1>4, <1>7, <1>8, <1>9, WalkFrame

\* The walk is over: `done` is the whole plan, and it has no cycle.
LEMMA WalkEndsStep == PlanInv /\ WalkEnds => PlanInv'
<1> SUFFICES ASSUME PlanInv, WalkEnds PROVE PlanInv'
    OBVIOUS
<1>1. /\ stage = "walk" /\ verdict = "none" /\ path = <<>> /\ from > Len(plan)
      /\ stage' = "serialize" /\ verdict' = "none"
      /\ UNCHANGED <<plan, deps, from, path, done, later, earlier, waves>>
    BY DEF WalkEnds, GoTo, PlanInv, PlanTypeOK
<1>2. Ids' = Ids /\ (Valid <=> Valid')
    BY <1>1, SamePlan
<1>3. WalkSound /\ PairsOrdered /\ KeepsThePlan /\ waves = <<>>
    BY <1>1 DEF PlanInv, Checked, PastSerializing, PastLayering
<1>4. KeepsThePlan' /\ PairsOrdered' /\ (NoCycle <=> NoCycle')
    BY <1>1, <1>3, SameDeps
<1>5. PlanTypeOK'
    BY <1>1, SameLists DEF PlanInv, Checked, Stages, Verdicts
<1>6. done = Ids
    <2>1. Len(plan) \in Nat /\ DOMAIN plan = 1..Len(plan) /\ from \in 1..(Len(plan) + 1)
        BY <1>1, OnePartPerId DEF PlanInv, PlanTypeOK, Checked
    <2>2. \A k \in DOMAIN plan : plan[k].id \in done
        BY <1>1, <2>1 DEF PlanInv, Begun, Range
    <2>3. QED
        BY <2>2 DEF PlanInv, PlanTypeOK, Ids
<1>7. NoCycle
    BY <1>1, <1>3, <1>6 DEF WalkSound, Acyclic, NoCycle
<1>8. WalkSound'
    BY <1>1, <1>2, <1>3, <1>6 DEF WalkSound
<1>9. QED
    BY <1>1, <1>2, <1>3, <1>4, <1>5, <1>7, <1>8
    DEF PlanInv, Checked, CycleVerdict, PastSerializing, PastLayering

\* serialize_conflicts looks at one pair: an edge it adds closes no cycle, and the
\* pair is ordered afterwards.
LEMMA SerializePairStep == PlanInv /\ SerializePair => PlanInv'
<1> SUFFICES ASSUME PlanInv, SerializePair PROVE PlanInv'
    OBVIOUS
<1> DEFINE a == plan[earlier].id
           b == plan[later].id
           Joined == /\ Conflict(plan[earlier], plan[later])
                     /\ ~DependsUpon(deps, b, a) /\ ~DependsUpon(deps, a, b)
<1>1. /\ stage = "serialize" /\ verdict = "none"
      /\ later <= Len(plan) /\ earlier < later /\ earlier' = earlier + 1
      /\ UNCHANGED <<plan, stage, verdict, from, path, done, later, waves>>
      /\ deps' = IF Joined THEN [deps EXCEPT ![b] = @ \cup {a}] ELSE deps
    BY DEF SerializePair, PlanInv, PlanTypeOK
<1>2. Checked /\ Valid /\ WalkSound /\ PairsOrdered /\ KeepsThePlan
      /\ NoCycle /\ done = Ids /\ waves = <<>>
    BY <1>1 DEF PlanInv, Checked, CycleVerdict, PastTheWalk, WalkSound,
       PastSerializing, PastLayering
<1>3. /\ Len(plan) \in Nat
      /\ DOMAIN plan = 1..Len(plan)
      /\ \A k \in DOMAIN plan : plan[k].id \in Ids
      /\ \A k, l \in DOMAIN plan : plan[k].id = plan[l].id => k = l
      /\ deps \in [Ids -> SUBSET Ids]
    BY <1>2, OnePartPerId DEF PlanInv
<1>4. /\ later \in Nat /\ earlier \in Nat
      /\ later \in DOMAIN plan /\ earlier \in DOMAIN plan
    <2>1. later \in 1..(Len(plan) + 1) /\ earlier \in 1..later
        BY DEF PlanInv, PlanTypeOK
    <2>2. Len(plan) \in Nat /\ DOMAIN plan = 1..Len(plan)
        BY <1>3
    <2>3. QED
        BY <1>1, <2>1, <2>2
<1>5. a \in Ids /\ b \in Ids /\ a # b
    BY <1>1, <1>3, <1>4
<1>6. /\ deps' \in [Ids -> SUBSET Ids]
      /\ \A x \in Ids : deps[x] \subseteq deps'[x]
    <2> HIDE DEF a, b, Joined
    <2>1. QED
        BY <1>1, <1>3, <1>5
<1>7. Ids' = Ids /\ Given' = Given /\ (Valid <=> Valid')
    BY <1>1, SamePlan
<1>8. \A x, y \in Ids : DependsUpon(deps, x, y) => DependsUpon(deps', x, y)
    BY <1>6, DependsGrows
<1>9. Joined => DependsUpon(deps', b, a)
    <2> HIDE DEF a, b, Joined
    <2>1. Joined => a \in deps'[b]
        BY <1>1, <1>3, <1>5
    <2>2. QED
        BY <2>1, DirectDependency
<1>10. Acyclic(deps', Ids)
    <2>1. Acyclic(deps, Ids)
        BY <1>2 DEF NoCycle, Acyclic
    <2>2. Joined => ~DependsUpon(deps, a, b)
        OBVIOUS
    <2> HIDE DEF a, b, Joined
    <2>3. CASE Joined
        <3>1. Acyclic([deps EXCEPT ![b] = @ \cup {a}], Ids)
            BY <1>3, <1>5, <2>1, <2>2, <2>3, EdgeKeepsAcyclic
        <3>2. QED
            BY <1>1, <2>3, <3>1
    <2>4. CASE ~Joined
        BY <1>1, <2>1, <2>4
    <2>5. QED
        BY <2>3, <2>4
<1>11. NoCycle'
    BY <1>7, <1>10 DEF NoCycle, Acyclic
<1>12. KeepsThePlan'
    <2> SUFFICES ASSUME NEW l \in DOMAIN plan
                 PROVE  LET c == plan[l].id IN
                        /\ Given[c] \subseteq deps'[c]
                        /\ \A x \in deps'[c] \ Given[c] :
                              /\ \E k \in DOMAIN plan :
                                    plan[k].id = x /\ k < l /\ Conflict(plan[k], plan[l])
                              /\ ~DependsUpon(Given, c, x) /\ ~DependsUpon(Given, x, c)
        <3>1. plan' = plan
            BY <1>1
        <3> HIDE DEF Joined
        <3>2. QED
            BY <1>7, <3>1 DEF KeepsThePlan, DependsUpon
    <2> DEFINE c == plan[l].id
    <2>1. c \in Ids
        BY <1>3
    <2>2. /\ Given[c] \subseteq deps[c]
          /\ \A x \in deps[c] \ Given[c] :
                /\ \E k \in DOMAIN plan :
                      plan[k].id = x /\ k < l /\ Conflict(plan[k], plan[l])
                /\ ~DependsUpon(Given, c, x) /\ ~DependsUpon(Given, x, c)
        BY <1>2 DEF KeepsThePlan
    <2>3. CASE Joined /\ c = b
        <3>1. l = later
            BY <1>3, <1>4, <2>3
        <3>2. deps'[c] = deps[c] \cup {a}
            <4> HIDE DEF a, b, c, Joined
            <4>1. QED
                BY <1>1, <1>3, <1>5, <2>3
        <3>3. \A x \in Ids : Given[x] \subseteq deps[x]
            BY <1>2 DEF KeepsThePlan, Ids
        <3>4. \A x, y \in Ids : DependsUpon(Given, x, y) => DependsUpon(deps, x, y)
            BY <3>3, DependsGrows
        <3>5. ~DependsUpon(Given, b, a) /\ ~DependsUpon(Given, a, b)
            <4>1. ~DependsUpon(deps, b, a) /\ ~DependsUpon(deps, a, b)
                BY <2>3
            <4> HIDE DEF a, b
            <4>2. QED
                BY <1>5, <3>4, <4>1
        <3>6. /\ plan[earlier].id = a /\ earlier < l
              /\ Conflict(plan[earlier], plan[l])
            BY <1>1, <2>3, <3>1
        <3>7. QED
            <4> HIDE DEF a, b, Joined
            <4>1. QED
                BY <1>4, <2>2, <2>3, <3>2, <3>5, <3>6
    <2>4. CASE ~(Joined /\ c = b)
        <3>1. deps'[c] = deps[c]
            <4> HIDE DEF a, b, c, Joined
            <4>1. QED
                BY <1>1, <1>3, <1>5, <2>1, <2>4
        <3>2. QED
            BY <2>2, <3>1
    <2>5. QED
        BY <2>3, <2>4
<1>13. PairsOrdered'
    <2> SUFFICES ASSUME NEW k \in DOMAIN plan, NEW l \in DOMAIN plan,
                        Visited(k, l)', Conflict(plan[k], plan[l])
                 PROVE  \/ DependsUpon(deps', plan[l].id, plan[k].id)
                        \/ DependsUpon(deps', plan[k].id, plan[l].id)
        BY <1>1, <1>7 DEF PairsOrdered, DependsUpon
    <2>1. Visited(k, l) \/ (k = earlier /\ l = later)
        BY <1>1, <1>3, <1>4 DEF Visited
    <2>2. CASE Visited(k, l)
        BY <1>2, <1>3, <1>8, <2>2 DEF PairsOrdered
    <2>3. CASE k = earlier /\ l = later
        <3>1. Joined \/ DependsUpon(deps, b, a) \/ DependsUpon(deps, a, b)
            BY <2>3
        <3>2. DependsUpon(deps', b, a) \/ DependsUpon(deps', a, b)
            <4> HIDE DEF a, b, Joined
            <4>1. QED
                BY <1>5, <1>8, <1>9, <3>1
        <3>3. QED
            BY <2>3, <3>2
    <2>4. QED
        BY <2>1, <2>2, <2>3
<1>14. WalkSound'
    <2>1. \A x \in done' : deps'[x] \subseteq done'
        BY <1>1, <1>2, <1>6
    <2>2. \A k \in 1..(Len(path) - 1) : path[k + 1] \in deps'[path[k]]
        <3> SUFFICES ASSUME NEW k \in 1..(Len(path) - 1)
                     PROVE  path[k + 1] \in deps'[path[k]]
            OBVIOUS
        <3>1. path[k + 1] \in deps[path[k]]
            BY <1>2 DEF WalkSound
        <3>2. path[k] \in Ids
            <4>1. path \in Seq(Ids)
                BY DEF PlanInv, PlanTypeOK
            <4>2. Len(path) \in Nat
                BY <4>1
            <4>3. k \in 1..Len(path)
                BY <4>2
            <4>4. QED
                BY <4>1, <4>3
        <3>3. QED
            BY <1>6, <3>1, <3>2
    <2>3. QED
        BY <1>1, <1>2, <1>7, <2>1, <2>2 DEF WalkSound
<1>15. PlanTypeOK'
    <2>1. earlier' \in 1..later'
        BY <1>1, <1>4
    <2>2. QED
        BY <1>1, <1>6, <1>7, <2>1 DEF PlanInv, PlanTypeOK
<1>16. QED
    BY <1>1, <1>2, <1>7, <1>11, <1>12, <1>13, <1>14, <1>15
    DEF PlanInv, Checked, CycleVerdict, PastSerializing, PastLayering

\* The next value of serialize_conflicts' outer index has no pair yet.
LEMMA SerializeNextStep == PlanInv /\ SerializeNext => PlanInv'
<1> SUFFICES ASSUME PlanInv, SerializeNext PROVE PlanInv'
    OBVIOUS
<1>1. /\ stage = "serialize" /\ verdict = "none"
      /\ later <= Len(plan) /\ earlier = later /\ later' = later + 1 /\ earlier' = 1
      /\ UNCHANGED <<plan, stage, verdict, deps, from, path, done, waves>>
    BY DEF SerializeNext, PlanInv, PlanTypeOK
<1>2. Ids' = Ids /\ Given' = Given /\ (Valid <=> Valid')
    BY <1>1, SamePlan
<1>3. KeepsThePlan' /\ (NoCycle <=> NoCycle')
    BY <1>1, SameDeps DEF PlanInv
<1>4. Checked /\ WalkSound /\ PairsOrdered
    BY <1>1 DEF PlanInv, Checked
<1>5. /\ Len(plan) \in Nat /\ DOMAIN plan = 1..Len(plan)
      /\ later \in Nat
    BY <1>4, OnePartPerId DEF PlanInv, PlanTypeOK
<1>6. \A k, l \in DOMAIN plan : Visited(k, l)' => Visited(k, l)
    BY <1>1, <1>5 DEF Visited
<1>7. PairsOrdered'
    BY <1>1, <1>2, <1>4, <1>6 DEF PairsOrdered, DependsUpon
<1>8. PlanTypeOK'
    <2>1. later' \in 1..(Len(plan') + 1) /\ earlier' \in 1..later'
        BY <1>1, <1>5
    <2>2. QED
        BY <1>1, <1>2, <2>1 DEF PlanInv, PlanTypeOK
<1>9. WalkSound'
    BY <1>1, <1>2, <1>4 DEF WalkSound, PastTheWalk
<1>10. QED
    BY <1>1, <1>2, <1>3, <1>7, <1>8, <1>9
    DEF PlanInv, Checked, CycleVerdict, PastTheWalk, PastSerializing, PastLayering

\* Every pair has been seen; no wave is made yet.
LEMMA SerializeEndsStep == PlanInv /\ SerializeEnds => PlanInv'
<1> SUFFICES ASSUME PlanInv, SerializeEnds PROVE PlanInv'
    OBVIOUS
<1>1. /\ stage = "serialize" /\ verdict = "none" /\ later > Len(plan)
      /\ stage' = "layer" /\ verdict' = "none"
      /\ UNCHANGED <<plan, deps, from, path, done, later, earlier, waves>>
    BY DEF SerializeEnds, GoTo, PlanInv, PlanTypeOK
<1>2. Ids' = Ids /\ (Valid <=> Valid')
    BY <1>1, SamePlan
<1>3. WalkSound /\ PairsOrdered /\ KeepsThePlan /\ NoCycle /\ waves = <<>>
    BY <1>1 DEF PlanInv, Checked, CycleVerdict, PastTheWalk, PastSerializing, PastLayering
<1>4. KeepsThePlan' /\ PairsOrdered' /\ NoCycle'
    BY <1>1, <1>3, SameDeps
<1>5. PlanTypeOK'
    BY <1>1, SameLists DEF PlanInv, Checked, Stages, Verdicts
<1>6. WalkSound'
    BY <1>1, <1>2, <1>3 DEF WalkSound, PastTheWalk
<1>7. LayersSound'
    <2>1. waves' = <<>> /\ DOMAIN waves' = {}
        BY <1>1, <1>3
    <2>2. QED
        BY <1>1, <2>1 DEF LayersSound, Disjoint, Tight, PastLayering
<1>8. QED
    BY <1>1, <1>2, <1>4, <1>5, <1>6, <1>7
    DEF PlanInv, Checked, CycleVerdict, PastTheWalk, PastSerializing, PastLayering

\* The parts that have a wave are those some wave holds.
LEMMA PlacedIn ==
    ASSUME PlanTypeOK
    PROVE  /\ Len(waves) \in Nat /\ DOMAIN waves = 1..Len(waves)
           /\ \A t : t \in Placed <=> \E k \in 1..Len(waves) : t \in waves[k]
<1>1. waves \in Seq(SUBSET Ids)
    BY DEF PlanTypeOK
<1>2. Len(waves) \in Nat /\ DOMAIN waves = 1..Len(waves)
    BY <1>1, LenProperties
<1>3. QED
    BY <1>2 DEF Placed, Range

\* One more wave: what was not ready before waits for the wave before.
LEMMA BuildWaveStep == PlanInv /\ BuildWave => PlanInv'
<1> SUFFICES ASSUME PlanInv, BuildWave PROVE PlanInv'
    OBVIOUS
<1>1. /\ stage = "layer" /\ verdict = "none" /\ ReadyParts # {}
      /\ waves' = Append(waves, ReadyParts)
      /\ UNCHANGED <<plan, stage, verdict, deps, from, path, done, later, earlier>>
    BY DEF BuildWave, PlanInv, PlanTypeOK
<1>2. Ids' = Ids /\ Given' = Given /\ (Valid <=> Valid')
    BY <1>1, SamePlan
<1>3. /\ WalkSound /\ PairsOrdered /\ KeepsThePlan /\ NoCycle /\ LayersSound
      /\ deps \in [Ids -> SUBSET Ids] /\ later > Len(plan)
    BY <1>1 DEF PlanInv, PlanTypeOK, Checked, CycleVerdict, PastTheWalk,
       PastSerializing, PastLayering
<1>4. KeepsThePlan' /\ PairsOrdered' /\ NoCycle'
    BY <1>1, <1>3, SameDeps, SMTT(30)
<1>5. PICK n \in Nat : n = Len(waves)
    BY PlacedIn DEF PlanInv
<1>6. /\ waves' \in Seq(SUBSET Ids) /\ Len(waves') = n + 1
      /\ waves'[n + 1] = ReadyParts
      /\ \A k \in 1..n : waves'[k] = waves[k]
    <2>1. ReadyParts \in SUBSET Ids /\ waves \in Seq(SUBSET Ids)
        BY DEF ReadyParts, PlanInv, PlanTypeOK
    <2>2. QED
        BY <1>1, <1>5, <2>1, AppendProperties
<1>7. DOMAIN waves = 1..n /\ DOMAIN waves' = 1..(n + 1)
    BY <1>5, <1>6, PlacedIn DEF PlanInv
<1>8. PlanTypeOK'
    BY <1>1, <1>2, <1>6 DEF PlanInv, PlanTypeOK
<1>9. WalkSound'
    BY <1>1, <1>2, <1>3 DEF WalkSound, PastTheWalk
<1>10. \A t : t \in Placed <=> \E k \in 1..n : t \in waves[k]
    BY <1>5, PlacedIn DEF PlanInv
<1>11. Placed' = Placed \cup ReadyParts
    <2>1. \A t : t \in Placed' <=> \E k \in 1..(n + 1) : t \in waves'[k]
        BY <1>7 DEF Placed, Range
    <2>2. \A k : k \in 1..(n + 1) <=> k \in 1..n \/ k = n + 1
        BY <1>5
    <2>3. QED
        BY <1>6, <1>10, <2>1, <2>2
<1>12. \A k \in 1..(n + 1) : k \in 1..n \/ k = n + 1
    BY <1>5
<1>13. ReadyParts \cap Placed = {} /\ \A t \in ReadyParts : deps[t] \subseteq Placed
    BY DEF ReadyParts
<1>14. \A k \in DOMAIN waves' : waves'[k] # {}
    BY <1>1, <1>3, <1>6, <1>7, <1>12 DEF LayersSound
<1>15. Disjoint'
    <2> SUFFICES ASSUME NEW k \in 1..(n + 1), NEW l \in 1..(n + 1), k # l
                 PROVE  waves'[k] \cap waves'[l] = {}
        BY <1>7 DEF Disjoint
    <2>1. CASE k \in 1..n /\ l \in 1..n
        BY <1>3, <1>6, <1>7, <2>1 DEF LayersSound, Disjoint
    <2>2. CASE k \in 1..n /\ l = n + 1
        BY <1>6, <1>10, <1>13, <2>2
    <2>3. CASE k = n + 1 /\ l \in 1..n
        BY <1>6, <1>10, <1>13, <2>3
    <2>4. QED
        BY <1>12, <2>1, <2>2, <2>3
<1>16. Tight'
    <2> SUFFICES ASSUME NEW k \in 1..(n + 1), NEW p \in waves'[k]
                 PROVE  /\ \A d \in deps[p] : \E e \in 1..(k - 1) : d \in waves'[e]
                        /\ k > 1 => deps[p] \cap waves'[k - 1] # {}
        BY <1>1, <1>7 DEF Tight
    <2>1. CASE k \in 1..n
        <3>1. p \in waves[k]
            BY <1>6, <2>1
        <3>2. /\ \A d \in deps[p] : \E e \in 1..(k - 1) : d \in waves[e]
              /\ k > 1 => deps[p] \cap waves[k - 1] # {}
            BY <1>3, <1>7, <2>1, <3>1 DEF LayersSound, Tight
        <3>3. \A e \in 1..(k - 1) : waves'[e] = waves[e]
            BY <1>6, <2>1
        <3>4. k > 1 => k - 1 \in 1..(k - 1)
            OBVIOUS
        <3>5. QED
            BY <3>2, <3>3, <3>4
    <2>2. CASE k = n + 1
        <3>1. p \in ReadyParts /\ p \in Ids \ Placed /\ deps[p] \subseteq Placed
            BY <1>6, <2>2 DEF ReadyParts
        <3>2. \A d \in deps[p] : \E e \in 1..n : d \in waves'[e]
            BY <1>6, <1>10, <3>1
        <3>3. n # 0 => deps[p] \cap waves[n] # {}
            <4>1. n # 0 => waves # <<>>
                BY <1>5
            <4>2. waves # <<>> => deps[p] \cap waves[Len(waves)] # {}
                BY <1>3, <3>1 DEF LayersSound
            <4>3. QED
                BY <1>5, <4>1, <4>2
        <3>4. n # 0 => waves'[n] = waves[n]
            BY <1>5, <1>6
        <3>5. k - 1 = n
            BY <1>5, <2>2
        <3>6. QED
            BY <1>5, <3>2, <3>3, <3>4, <3>5
    <2>3. QED
        BY <1>12, <2>1, <2>2
<1>17. \A t \in Ids \ Placed' : deps[t] \subseteq Placed'
                                => deps[t] \cap waves'[Len(waves')] # {}
    <2> SUFFICES ASSUME NEW t \in Ids \ Placed', deps[t] \subseteq Placed'
                 PROVE  deps[t] \cap ReadyParts # {}
        BY <1>6
    <2>1. t \in Ids \ Placed /\ t \notin ReadyParts
        BY <1>11
    <2>2. ~(deps[t] \subseteq Placed)
        BY <2>1 DEF ReadyParts
    <2>3. QED
        BY <1>11, <2>2
<1>18. LayersSound'
    BY <1>1, <1>2, <1>14, <1>15, <1>16, <1>17 DEF LayersSound, PastLayering
<1>19. QED
    BY <1>1, <1>2, <1>3, <1>4, <1>8, <1>9, <1>18
    DEF PlanInv, Checked, CycleVerdict, PastTheWalk, PastSerializing, PastLayering

\* Of the parts not placed one waits for none of the others, as there is no
\* cycle: it is ready.  So when none is ready, none is left.
LEMMA BuildRestStep == PlanInv /\ BuildRest => PlanInv'
<1> SUFFICES ASSUME PlanInv, BuildRest PROVE PlanInv'
    OBVIOUS
<1>1. /\ stage = "layer" /\ verdict = "none" /\ ReadyParts = {}
      /\ waves' = IF Ids \subseteq Placed THEN waves ELSE Append(waves, Ids \ Placed)
      /\ stage' = "evaluate" /\ verdict' = "none"
      /\ UNCHANGED <<plan, deps, from, path, done, later, earlier>>
    BY DEF BuildRest, GoTo, PlanInv, PlanTypeOK
<1>2. Ids' = Ids /\ (Valid <=> Valid')
    BY <1>1, SamePlan
<1>3. /\ WalkSound /\ PairsOrdered /\ KeepsThePlan /\ NoCycle /\ LayersSound
      /\ deps \in [Ids -> SUBSET Ids] /\ later > Len(plan)
    BY <1>1 DEF PlanInv, PlanTypeOK, Checked, CycleVerdict, PastTheWalk,
       PastSerializing, PastLayering
<1>4. Placed = Ids
    <2>1. Placed \subseteq Ids
        <3>1. waves \in Seq(SUBSET Ids)
            BY DEF PlanInv, PlanTypeOK
        <3>2. \A k \in 1..Len(waves) : waves[k] \in SUBSET Ids
            BY <3>1
        <3>3. QED
            BY <3>2, PlacedIn DEF PlanInv
    <2>2. ASSUME Ids \ Placed # {}
          PROVE  FALSE
        <3>1. PICK x \in Ids \ Placed : deps[x] \cap (Ids \ Placed) = {}
            BY <1>3, <2>2 DEF NoCycle
        <3>2. deps[x] \subseteq Placed
            BY <1>3, <3>1
        <3>3. QED
            BY <1>1, <3>1, <3>2 DEF ReadyParts
    <2>3. QED
        BY <2>1, <2>2
<1>5. waves' = waves
    BY <1>1, <1>4
<1>6. KeepsThePlan' /\ PairsOrdered' /\ NoCycle'
    BY <1>1, <1>3, SameDeps
<1>7. PlanTypeOK'
    BY <1>1, <1>5, SameLists DEF PlanInv, Checked, Stages, Verdicts
<1>8. WalkSound'
    BY <1>1, <1>2, <1>3 DEF WalkSound, PastTheWalk
<1>9. LayersSound'
    <2>1. Placed' = Placed
        BY <1>5 DEF Placed
    <2>2. QED
        BY <1>1, <1>2, <1>3, <1>4, <1>5, <2>1 DEF LayersSound, Disjoint, Tight
<1>10. QED
    BY <1>1, <1>2, <1>3, <1>6, <1>7, <1>8, <1>9
    DEF PlanInv, Checked, CycleVerdict, PastTheWalk, PastSerializing, PastLayering

\* evaluate and the role check only decide.
LEMMA DecisionStep == PlanInv /\ (Evaluate \/ CheckRoles) => PlanInv'
<1> SUFFICES ASSUME PlanInv, Evaluate \/ CheckRoles PROVE PlanInv'
    OBVIOUS
<1>1. /\ stage \in {"evaluate", "roles"} /\ verdict = "none"
      /\ UNCHANGED <<plan, deps, from, path, done, later, earlier, waves>>
    BY DEF Evaluate, CheckRoles, PlanInv, PlanTypeOK
<1>2. \/ stage' = "over" /\ verdict' \in {"single", "too big", "role", "accepted"}
      \/ stage' = "roles" /\ verdict' = "none"
    BY <1>1 DEF Evaluate, CheckRoles, Decide, GoTo
<1>3. stage' = "roles" \/ verdict' = "accepted" => Len(waves) <= MaxWaves
    <2>1. CASE Evaluate
        <3>1. Len(waves) \in Nat /\ MaxWaves \in Nat
            BY PlacedIn, PlanInputs DEF PlanInv
        <3>2. stage' = "roles" => ~(Len(waves) > MaxWaves)
            BY <2>1 DEF Evaluate, Decide, GoTo
        <3>3. verdict' # "accepted"
            BY <1>1, <2>1 DEF Evaluate, Decide, GoTo
        <3>4. QED
            BY <3>1, <3>2, <3>3
    <2>2. CASE CheckRoles
        BY <2>2 DEF CheckRoles, PlanInv
    <2>3. QED
        BY <2>1, <2>2
<1>4. Ids' = Ids /\ (Valid <=> Valid')
    BY <1>1, SamePlan
<1>5. /\ WalkSound /\ PairsOrdered /\ KeepsThePlan /\ NoCycle /\ LayersSound
      /\ later > Len(plan)
    BY <1>1 DEF PlanInv, Checked, CycleVerdict, PastTheWalk, PastSerializing, PastLayering
<1>6. KeepsThePlan' /\ PairsOrdered' /\ NoCycle'
    BY <1>1, <1>5, SameDeps
<1>7. PlanTypeOK'
    BY <1>1, <1>2, SameLists DEF PlanInv, Checked, Stages, Verdicts
<1>8. WalkSound'
    BY <1>1, <1>2, <1>4, <1>5 DEF WalkSound, PastTheWalk
<1>9. LayersSound'
    BY <1>1, <1>2, <1>5, SameWaves DEF PastLayering
<1>10. QED
    BY <1>1, <1>2, <1>3, <1>4, <1>5, <1>6, <1>7, <1>8, <1>9
    DEF PlanInv, Checked, CycleVerdict, PastTheWalk, PastSerializing, PastLayering

\* A step of somebody else changes none of it.
LEMMA PlanStutter == PlanInv /\ UNCHANGED vars => PlanInv'
<1> SUFFICES ASSUME PlanInv, UNCHANGED vars PROVE PlanInv'
    OBVIOUS
<1>1. UNCHANGED <<plan, stage, verdict, deps, from, path, done, later, earlier, waves>>
    BY DEF vars
<1>2. Ids' = Ids /\ Given' = Given /\ (Valid <=> Valid')
    BY <1>1, SamePlan
<1>3. KeepsThePlan' /\ (NoCycle <=> NoCycle') /\ (PairsOrdered => PairsOrdered')
    BY <1>1, SameDeps DEF PlanInv
<1>4. PlanTypeOK'
    BY <1>1, <1>2 DEF PlanInv, PlanTypeOK
<1>5. WalkSound => WalkSound'
    BY <1>1, <1>2 DEF WalkSound, Acyclic, PastTheWalk
<1>6. LayersSound => LayersSound'
    BY <1>1, SameWaves DEF PastLayering
<1>7. Begun => Begun'
    BY <1>1 DEF Begun
<1>8. QED
    BY <1>1, <1>2, <1>3, <1>4, <1>5, <1>6, <1>7
    DEF PlanInv, Checked, CycleVerdict, PastTheWalk, PastSerializing, PastLayering

-----------------------------------------------------------------------------
(* The theorems. *)

\* Whatever plans agents send, what start_fanout's phases rely on holds.
THEOREM PlanInvTheorem == Spec => []PlanInv
<1>1. PlanInv /\ [Next]_vars => PlanInv'
    BY ValidateStep, WalkFromStep, WalkIntoStep, WalkBackStep, WalkEndsStep,
       SerializePairStep, SerializeNextStep, SerializeEndsStep,
       BuildWaveStep, BuildRestStep, DecisionStep, PlanStutter DEF Next
<1>2. QED
    BY <1>1, PlanInvInit, PTL DEF Spec

\* The state of start_fanout is well formed.
THEOREM PlanTypeTheorem == Spec => []PlanTypeOK
<1>1. PlanInv => PlanTypeOK
    BY DEF PlanInv
<1>2. QED
    BY <1>1, PlanInvTheorem, PTL

\* find_cycle is exact, and serialize_conflicts closes no cycle.
THEOREM CycleTheorem == Spec => []CycleVerdict
<1>1. PlanInv => CycleVerdict
    BY DEF PlanInv
<1>2. QED
    BY <1>1, PlanInvTheorem, PTL

\* serialize_conflicts keeps the plan's own order and adds no needless edge.
THEOREM KeepsThePlanTheorem == Spec => []KeepsThePlan
<1>1. PlanInv => KeepsThePlan
    BY DEF PlanInv
<1>2. QED
    BY <1>1, PlanInvTheorem, PTL

\* What start_fanout stores meets the assumption Fanout makes of its plan.
THEOREM LayeredTheorem == Spec => []Layered
<1>1. PlanInv => Layered
    BY DEF PlanInv, Layered, PastSerializing, PastLayering, LayersSound, Disjoint, Tight
<1>2. QED
    BY <1>1, PlanInvTheorem, PTL

\* The waves up to one are closed under dependencies, so what a part depends
\* on, however far, is in an earlier wave.
LEMMA EarlierWaves ==
    ASSUME PlanTypeOK, Tight, Disjoint, Checked,
           NEW w \in DOMAIN waves, NEW x \in waves[w], NEW y \in waves[w],
           DependsUpon(deps, x, y)
    PROVE  FALSE
<1> DEFINE Before == {t \in Ids : \E e \in 1..(w - 1) : t \in waves[e]}
<1>1. Len(waves) \in Nat /\ DOMAIN waves = 1..Len(waves)
    BY PlacedIn
<1>2. w \in 1..Len(waves)
    BY <1>1
<1>3. \A k \in 1..Len(waves) : waves[k] \in SUBSET Ids
    BY <1>1 DEF PlanTypeOK
<1>4. \A k \in 1..w : \A p \in waves[k] : deps[p] \subseteq Before
    <2> SUFFICES ASSUME NEW k \in 1..w, NEW p \in waves[k], NEW d \in deps[p]
                 PROVE  d \in Before
        OBVIOUS
    <2>1. k \in 1..Len(waves)
        BY <1>1, <1>2
    <2>2. PICK e \in 1..(k - 1) : d \in waves[e]
        BY <1>1, <2>1 DEF Tight
    <2>3. e \in 1..(w - 1) /\ e \in 1..Len(waves)
        BY <1>1, <1>2, <2>1, <2>2
    <2>4. d \in Ids
        BY <1>3, <2>2, <2>3
    <2>5. QED
        BY <2>2, <2>3, <2>4
<1>5. \A z \in Before \cup {x} : deps[z] \subseteq Before
    <2>1. deps[x] \subseteq Before
        BY <1>2, <1>4
    <2>2. ASSUME NEW z \in Before
          PROVE  deps[z] \subseteq Before
        <3>1. PICK e \in 1..(w - 1) : z \in waves[e]
            BY <2>2
        <3>2. e \in 1..w
            BY <1>2, <3>1
        <3>3. QED
            BY <1>4, <3>1, <3>2
    <2>3. QED
        BY <2>1, <2>2
<1>6. y \in Before
    <2>1. Before \in SUBSET Ids
        OBVIOUS
    <2> HIDE DEF Before
    <2>2. QED
        BY <1>5, <2>1 DEF DependsUpon
<1>7. PICK e \in 1..(w - 1) : y \in waves[e]
    BY <1>6
<1>8. e \in DOMAIN waves /\ e # w
    BY <1>1, <1>2, <1>7
<1>9. QED
    BY <1>7, <1>8 DEF Disjoint

\* Two parts that write to one path, as same_path reads it, are ordered by
\* their dependencies and so are never in one wave.
THEOREM WritersApartTheorem == Spec => []WritersApart
<1>1. PlanInv => WritersApart
    <2> SUFFICES ASSUME PlanInv, verdict = "accepted",
                        NEW k \in DOMAIN plan, NEW l \in DOMAIN plan,
                        NEW w \in DOMAIN waves,
                        k # l, Conflict(plan[k], plan[l]),
                        plan[k].id \in waves[w], plan[l].id \in waves[w]
                 PROVE  FALSE
        BY DEF WritersApart
    <2>1. /\ Checked /\ Valid /\ PairsOrdered /\ LayersSound /\ PlanTypeOK
          /\ later > Len(plan)
        BY DEF PlanInv, PlanTypeOK, Checked, PastSerializing, PastLayering
    <2>2. Len(plan) \in Nat /\ DOMAIN plan = 1..Len(plan) /\ later \in Nat
        BY <2>1, OnePartPerId DEF PlanTypeOK
    <2>3. Visited(k, l) \/ Visited(l, k)
        BY <2>1, <2>2 DEF Visited
    <2>4. Conflict(plan[l], plan[k])
        BY DEF Conflict, SamePath
    <2>5. \/ DependsUpon(deps, plan[l].id, plan[k].id)
          \/ DependsUpon(deps, plan[k].id, plan[l].id)
        BY <2>1, <2>3, <2>4 DEF PairsOrdered
    <2>6. QED
        BY <2>1, <2>5, EarlierWaves DEF LayersSound
<1>2. QED
    BY <1>1, PlanInvTheorem, PTL

=============================================================================
