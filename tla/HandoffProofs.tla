--------------------------- MODULE HandoffProofs ---------------------------
(***************************************************************************)
(* Proofs about Handoff, for every set of packets and models and every     *)
(* limit.                                                                  *)
(*                                                                         *)
(* Most of it is about one operator: Release, which the sender, the human  *)
(* and the tick call.  It ends in one of three ways (ReleaseCases), and    *)
(* each of them keeps a packet's states, its place in line and its helper  *)
(* together (Sound), changes no other packet, puts no model above its      *)
(* capacity and starts nothing behind an older packet.  The tick releases  *)
(* one packet after the other: what a drain has done after each of them    *)
(* (Drained) follows from the step before, from the first on.              *)
(***************************************************************************)
EXTENDS Handoff, QueueFacts

-----------------------------------------------------------------------------
(* The inductive invariant. *)

\* What a release reads and writes has the types of TypeOK.
Worlds ==
    [state  : [Packets -> {"none", "draft", "accepted", "returned", "gone"}],
     stage  : [Packets -> {"none", "cleared", "holding", "inflight", "needsyou",
                           "landed"}],
     asked  : [Packets -> BOOLEAN],
     queue  : Seq(Packets),
     helper : [Packets -> {"none", "working", "holding", "offline"}]]

\* A packet is in line once; only a packet that was released has a helper; the
\* Inbox asks about drafts only.  Finitely many packets were handed over.
Sound(w) ==
    /\ w \in Worlds
    /\ IsInjective(w.queue)
    /\ IsFiniteSet({p \in Packets : w.state[p] # "none"})
    /\ \A p \in Packets : w.state[p] \in {"none", "draft"} => w.helper[p] = "none"
    /\ \A p \in Packets : w.asked[p] => w.state[p] = "draft"

\* Somebody or something has to do with a draft, or it is reported as failed.
Told(w, p) ==
    w.state[p] = "draft" =>
        w.asked[p] \/ p \in Range(w.queue) \/ w.stage[p] = "needsyou"

HandoffInv == TypeOK /\ Sound(World) /\ \A p \in Packets : Told(World, p)

-----------------------------------------------------------------------------
(* The line. *)

\* A packet is queued when it is an entry of the queue.
LEMMA ContainsIsRange ==
    ASSUME NEW q \in Seq(Packets), NEW p
    PROVE  Contains(q, p) <=> p \in Range(q)
BY LenProperties DEF Contains, Range

\* Where a queued packet stands.
LEMMA PosOfQueued ==
    ASSUME NEW q \in Seq(Packets), NEW p
    PROVE  /\ p \in Range(q) => Pos(q, p) \in 1..Len(q) /\ q[Pos(q, p)] = p
           /\ p \notin Range(q) => Pos(q, p) = Len(q) + 1
BY ContainsIsRange, LenProperties DEF Pos, Range

\* Of two packets in line the one that stands first is the older one.
LEMMA BeforeIsPos ==
    ASSUME NEW q \in Seq(Packets), IsInjective(q), NEW a, NEW b, Before(q, a, b)
    PROVE  a \in Range(q) /\ b \in Range(q) /\ Pos(q, a) < Pos(q, b)
<1>1. Len(q) \in Nat /\ DOMAIN q = 1..Len(q)
    BY LenProperties
<1>2. PICK i \in 1..Len(q), j \in 1..Len(q) : i < j /\ q[i] = a /\ q[j] = b
    BY DEF Before
<1>3. a \in Range(q) /\ b \in Range(q)
    BY <1>1, <1>2 DEF Range
<1>4. Pos(q, a) = i /\ Pos(q, b) = j
    BY <1>1, <1>2, <1>3, PosOfQueued DEF IsInjective
<1>5. QED
    BY <1>2, <1>3, <1>4

\* A release starts nothing behind an older draft for the same model.
LEMMA NobodyAhead ==
    ASSUME NEW w \in Worlds, NEW p \in Packets, ~QueuedAhead(w, p),
           NEW a \in Packets, model[a] = model[p], w.state[a] = "draft",
           IsInjective(w.queue)
    PROVE  /\ ~Before(w.queue, a, p)
           /\ p \notin Range(w.queue) => a \notin Range(w.queue)
<1> DEFINE q == w.queue
<1>0. q \in Seq(Packets)
    BY DEF Worlds
<1>1. Len(q) \in Nat
    BY <1>0, LenProperties
<1>2. ASSUME a \in Range(q), Pos(q, a) < Pos(q, p)
      PROVE  FALSE
    <2>1. Pos(q, a) \in 1..Len(q) /\ q[Pos(q, a)] = a
        BY <1>0, <1>2, PosOfQueued
    <2>2. Pos(q, p) \in 1..Len(q) + 1
        BY <1>0, <1>1, PosOfQueued
    <2>3. Pos(q, a) \in 1..(Pos(q, p) - 1)
        BY <1>1, <1>2, <2>1, <2>2
    <2>4. QED
        BY <2>1, <2>3 DEF QueuedAhead
<1>3. ~Before(q, a, p)
    BY <1>0, <1>2, BeforeIsPos
<1>4. ASSUME p \notin Range(q), a \in Range(q)
      PROVE  FALSE
    BY <1>0, <1>1, <1>2, <1>4, PosOfQueued
<1>5. QED
    BY <1>3, <1>4

-----------------------------------------------------------------------------
(* Release. *)

\* The helpers that count against a model's max_concurrency.
AtWork(w, m) ==
    {p \in Packets : model[p] = m /\ w.helper[p] = "working" /\ w.stage[p] # "landed"}

\* The agents of other flights that do.
OthersOn(m) == {o \in Others : OtherModel[o] = m /\ other[o] = "working"}

\* Of the packets only those that were handed over count, and they are finitely
\* many, as the other agents are.
LEMMA LoadIsNumber ==
    ASSUME NEW w, Sound(w), NEW m
    PROVE  /\ IsFiniteSet(AtWork(w, m)) /\ Cardinality(AtWork(w, m)) \in Nat
           /\ Cardinality(OthersOn(m)) \in Nat
           /\ Load(w, m) = Cardinality(AtWork(w, m)) + Cardinality(OthersOn(m))
           /\ Load(w, m) \in Nat
<1>1. AtWork(w, m) \subseteq {p \in Packets : w.state[p] # "none"}
    BY DEF AtWork, Sound
<1>2. IsFiniteSet(AtWork(w, m))
    BY <1>1, FS_Subset DEF Sound
<1>3. Load(w, m) = Cardinality(AtWork(w, m)) + Cardinality(OthersOn(m))
    BY DEF Load, AtWork, OthersOn
<1>4. IsFiniteSet(OthersOn(m))
    <2>1. OthersOn(m) \subseteq Others
        BY DEF OthersOn
    <2>2. QED
        BY <2>1, FS_Subset, HandoffAssumption
<1>5. Cardinality(AtWork(w, m)) \in Nat /\ Cardinality(OthersOn(m)) \in Nat
    BY <1>2, <1>4, FS_CardinalityType
<1>6. QED
    BY <1>2, <1>3, <1>5

\* Less work for a model is less load.
LEMMA LoadShrinks ==
    ASSUME NEW w, Sound(w), NEW v, Sound(v), NEW m, AtWork(v, m) \subseteq AtWork(w, m)
    PROVE  Load(v, m) <= Load(w, m)
<1>1. IsFiniteSet(AtWork(w, m))
    BY LoadIsNumber
<1>2. Cardinality(AtWork(v, m)) <= Cardinality(AtWork(w, m))
    BY <1>1, FS_Subset
<1>3. /\ Load(v, m) = Cardinality(AtWork(v, m)) + Cardinality(OthersOn(m))
      /\ Cardinality(AtWork(v, m)) \in Nat
    BY LoadIsNumber
<1>4. /\ Load(w, m) = Cardinality(AtWork(w, m)) + Cardinality(OthersOn(m))
      /\ Cardinality(AtWork(w, m)) \in Nat /\ Cardinality(OthersOn(m)) \in Nat
    BY LoadIsNumber
<1>5. QED
    BY <1>2, <1>3, <1>4

\* The three ends of release.
Refused(w, p, v) ==
    /\ v.state = w.state /\ v.stage = [w.stage EXCEPT ![p] = "needsyou"]
    /\ v.asked = [w.asked EXCEPT ![p] = FALSE]
    /\ v.queue = RemoveFirst(w.queue, p) /\ v.helper = w.helper

InLine(w, p, v) ==
    /\ v.state = w.state
    /\ v.stage = IF p \in Range(w.queue) THEN w.stage
                 ELSE [w.stage EXCEPT ![p] = "holding"]
    /\ v.asked = [w.asked EXCEPT ![p] = FALSE]
    /\ v.queue = IF p \in Range(w.queue) THEN w.queue ELSE Append(w.queue, p)
    /\ v.helper = w.helper

Started(w, p, v) ==
    /\ v.state = [w.state EXCEPT ![p] = "accepted"]
    /\ v.stage = [w.stage EXCEPT ![p] = "inflight"]
    /\ v.asked = [w.asked EXCEPT ![p] = FALSE]
    /\ v.queue = RemoveFirst(w.queue, p)
    /\ v.helper = [w.helper EXCEPT ![p] = "working"]
    /\ Load(w, model[p]) < Capacity[model[p]] /\ ~QueuedAhead(w, p)

\* A draft that is released cannot start, waits in line, or starts (release).
LEMMA ReleaseCases ==
    ASSUME NEW w, Sound(w), NEW p \in Packets, w.state[p] = "draft", NEW fails,
           model \in [Packets -> Models]
    PROVE  LET v == Release(w, p, fails)
           IN  /\ v \in Worlds
               /\ Refused(w, p, v) \/ InLine(w, p, v) \/ Started(w, p, v)
<1> DEFINE u == [w EXCEPT !.asked[p] = FALSE]
           v == Release(w, p, fails)
           c == CannotStart(u, p)
           e == Enqueue(u, p)
           s == Start(u, p)
<1>1. /\ u \in Worlds /\ u.state = w.state /\ u.stage = w.stage /\ u.queue = w.queue
      /\ u.helper = w.helper /\ u.asked = [w.asked EXCEPT ![p] = FALSE]
    <2>1. w \in Worlds
        BY DEF Sound
    <2>2. u \in Worlds
        BY <2>1 DEF Worlds
    <2>3. QED
        BY <2>1, <2>2 DEF Worlds
<1>2. RemoveFirst(u.queue, p) \in Seq(Packets)
    BY <1>1, RemoveFirstType DEF Worlds
<1>3. v = c \/ v = e \/ (v = s /\ ~Waits(u, p))
    BY DEF Release
<1> HIDE DEF u, v
<1>4. c \in Worlds /\ Refused(w, p, c)
    <2>1. c \in Worlds
        BY <1>1, <1>2 DEF CannotStart, Worlds
    <2>2. /\ c.state = u.state /\ c.asked = u.asked /\ c.helper = u.helper
          /\ c.queue = RemoveFirst(u.queue, p)
        BY <1>1, <1>2 DEF CannotStart, Worlds
    <2>3. c.stage = [u.stage EXCEPT ![p] = "needsyou"]
        BY <1>1, <1>2 DEF CannotStart, Worlds
    <2>4. QED
        BY <1>1, <2>1, <2>2, <2>3 DEF Refused
<1>5. e \in Worlds /\ InLine(w, p, e)
    <2>1. Contains(u.queue, p) <=> p \in Range(w.queue)
        BY <1>1, ContainsIsRange DEF Worlds
    <2>2. CASE p \in Range(w.queue)
        BY <1>1, <2>1, <2>2 DEF Enqueue, InLine
    <2>3. CASE p \notin Range(w.queue)
        <3> DEFINE a == [u EXCEPT !.queue = Append(@, p), !.stage[p] = "holding"]
        <3>1. Append(u.queue, p) \in Seq(Packets)
            BY <1>1, AppendProperties DEF Worlds
        <3>2. a \in Worlds
            BY <1>1, <3>1 DEF Worlds
        <3>3. /\ a.state = u.state /\ a.asked = u.asked /\ a.helper = u.helper
              /\ a.queue = Append(u.queue, p)
            BY <1>1, <3>1 DEF Worlds
        <3>4. a.stage = [u.stage EXCEPT ![p] = "holding"]
            BY <1>1, <3>1 DEF Worlds
        <3>5. e = a
            BY <2>1, <2>3 DEF Enqueue
        <3> HIDE DEF a
        <3>6. QED
            BY <1>1, <2>3, <3>2, <3>3, <3>4, <3>5 DEF InLine
    <2>4. QED
        BY <2>2, <2>3
<1>6. ASSUME ~Waits(u, p)
      PROVE  s \in Worlds /\ Started(w, p, s)
    <2>1. Load(u, model[p]) = Load(w, model[p])
        BY <1>1 DEF Load
    <2>2. QueuedAhead(u, p) <=> QueuedAhead(w, p)
        BY <1>1 DEF QueuedAhead
    <2>3. Load(w, model[p]) < Capacity[model[p]]
        <3>1. Load(w, model[p]) \in Nat
            BY LoadIsNumber
        <3>2. Capacity[model[p]] \in Nat
            BY HandoffAssumption
        <3>3. QED
            BY <1>6, <2>1, <3>1, <3>2 DEF Waits
    <2>4. s \in Worlds
        BY <1>1, <1>2 DEF Start, Worlds
    <2>5. s.asked = u.asked /\ s.queue = RemoveFirst(u.queue, p)
        BY <1>1, <1>2 DEF Start, Worlds
    <2>6. /\ s.state = [u.state EXCEPT ![p] = "accepted"]
          /\ s.stage = [u.stage EXCEPT ![p] = "inflight"]
          /\ s.helper = [u.helper EXCEPT ![p] = "working"]
        BY <1>1, <1>2 DEF Start, Worlds
    <2>7. QED
        BY <1>1, <1>6, <2>2, <2>3, <2>4, <2>5, <2>6 DEF Waits, Started
<1>7. QED
    BY <1>3, <1>4, <1>5, <1>6 DEF v

\* What a release of p, or taking it out of the line, does to the rest: nothing
\* to other packets and their order, no overload, and no start behind an older one.
Steps(w, p, v) ==
    /\ Sound(v)
    /\ \A q \in Packets \ {p} :
          /\ v.state[q] = w.state[q] /\ v.stage[q] = w.stage[q]
          /\ v.asked[q] = w.asked[q] /\ v.helper[q] = w.helper[q]
    /\ v.state[p] = w.state[p] \/ (w.state[p] = "draft" /\ v.state[p] = "accepted")
    /\ w.helper[p] # "none" => v.helper[p] = w.helper[p]
    /\ Range(v.queue) \ {p} = Range(w.queue) \ {p}
    /\ p \in Range(w.queue) => Range(v.queue) \subseteq Range(w.queue)
    /\ \A a, b \in Range(v.queue) : Before(w.queue, a, b) => Before(v.queue, a, b)
    /\ \A m \in Models : Load(v, m) <= Capacity[m] \/ Load(v, m) <= Load(w, m)
    /\ w.helper[p] = "none" /\ v.helper[p] = "working" =>
          \A a \in Packets :
             model[a] = model[p] /\ w.state[a] = "draft" =>
                 /\ ~Before(w.queue, a, p)
                 /\ p \notin Range(w.queue) => a \notin Range(w.queue)

\* A packet that leaves the line without a start (CannotStart, an entry that is no
\* draft): its helper, if it has one, counts as before.
LEMMA LeavesLine ==
    ASSUME NEW w, Sound(w), NEW p \in Packets, NEW v \in Worlds,
           v.state = w.state, v.helper = w.helper,
           v.queue = RemoveFirst(w.queue, p) \/ v.queue = w.queue,
           \A q \in Packets \ {p} : v.stage[q] = w.stage[q] /\ v.asked[q] = w.asked[q],
           v.asked[p] => w.asked[p], w.state[p] = "draft" \/ v.stage[p] = w.stage[p]
    PROVE  Steps(w, p, v)
<1>1. w.queue \in Seq(Packets) /\ IsInjective(w.queue)
    BY DEF Sound, Worlds
<1>2. /\ IsInjective(v.queue)
      /\ Range(v.queue) \subseteq Range(w.queue)
      /\ Range(v.queue) \ {p} = Range(w.queue) \ {p}
      /\ v.queue = RemoveFirst(w.queue, p) => p \notin Range(v.queue)
    BY <1>1, RemoveFirstOnce
<1>3. Sound(v)
    BY <1>2 DEF Sound
<1>4. ASSUME NEW m \in Models
      PROVE  Load(v, m) <= Load(w, m)
    <2>1. w.state[p] = "draft" => w.helper[p] = "none"
        BY DEF Sound
    <2>2. AtWork(v, m) \subseteq AtWork(w, m)
        BY <2>1 DEF AtWork
    <2>3. QED
        BY <1>3, <2>2, LoadShrinks
<1>5. ASSUME NEW a \in Range(v.queue), NEW b \in Range(v.queue), Before(w.queue, a, b)
      PROVE  Before(v.queue, a, b)
    BY <1>1, <1>2, <1>5, RemoveFirstOrder
<1>6. QED
    BY <1>2, <1>3, <1>4, <1>5 DEF Steps

\* Every end of release is such a step, and a draft it leaves is in line or needs
\* the human (release).
LEMMA ReleaseSteps ==
    ASSUME NEW w, Sound(w), NEW p \in Packets, w.state[p] = "draft", NEW fails,
           model \in [Packets -> Models]
    PROVE  LET v == Release(w, p, fails) IN Steps(w, p, v) /\ Told(v, p)
<1> DEFINE v == Release(w, p, fails)
<1>0. v \in Worlds /\ (Refused(w, p, v) \/ InLine(w, p, v) \/ Started(w, p, v))
    BY ReleaseCases
<1> SUFFICES Steps(w, p, v) /\ Told(v, p)
    OBVIOUS
<1> HIDE DEF v
<1>1. /\ w.queue \in Seq(Packets) /\ IsInjective(w.queue) /\ w.helper[p] = "none"
      /\ w \in Worlds
    BY DEF Sound, Worlds
<1>2. CASE Refused(w, p, v)
    <2>1. Steps(w, p, v)
        BY <1>0, <1>1, <1>2, LeavesLine DEF Refused, Worlds
    <2>2. v.stage[p] = "needsyou"
        BY <1>1, <1>2 DEF Refused, Worlds
    <2>3. QED
        BY <2>1, <2>2 DEF Told
<1>3. CASE InLine(w, p, v) /\ p \in Range(w.queue)
    <2>1. Steps(w, p, v)
        BY <1>0, <1>1, <1>3, LeavesLine DEF InLine, Worlds
    <2>2. QED
        BY <1>3, <2>1 DEF InLine, Told
<1>4. CASE InLine(w, p, v) /\ p \notin Range(w.queue)
    <2>1. /\ v.state = w.state /\ v.helper = w.helper
          /\ v.queue = Append(w.queue, p)
          /\ \A q \in Packets \ {p} : v.stage[q] = w.stage[q] /\ v.asked[q] = w.asked[q]
          /\ ~v.asked[p]
        BY <1>1, <1>4 DEF InLine, Worlds
    <2>2. IsInjective(v.queue) /\ Range(v.queue) = Range(w.queue) \cup {p}
        BY <1>1, <1>4, <2>1, AppendOnce
    <2>3. Sound(v)
        BY <1>0, <2>1, <2>2 DEF Sound
    <2>4. ASSUME NEW m \in Models
          PROVE  Load(v, m) <= Load(w, m)
        <3>1. AtWork(v, m) \subseteq AtWork(w, m)
            BY <1>1, <2>1 DEF AtWork
        <3>2. QED
            BY <2>3, <3>1, LoadShrinks
    <2>5. ASSUME NEW a, NEW b, Before(w.queue, a, b)
          PROVE  Before(v.queue, a, b)
        <3>1. PICK i \in 1..Len(w.queue), j \in 1..Len(w.queue) :
                  i < j /\ w.queue[i] = a /\ w.queue[j] = b
            BY <2>5 DEF Before
        <3>2. /\ Len(v.queue) = Len(w.queue) + 1 /\ Len(w.queue) \in Nat
              /\ \A h \in 1..Len(w.queue) : v.queue[h] = w.queue[h]
            BY <1>1, <2>1, AppendProperties, LenProperties
        <3>3. /\ i \in 1..Len(v.queue) /\ j \in 1..Len(v.queue)
              /\ v.queue[i] = a /\ v.queue[j] = b
            BY <3>1, <3>2
        <3>4. QED
            BY <3>1, <3>3 DEF Before
    <2>6. Steps(w, p, v)
        BY <1>1, <1>4, <2>1, <2>2, <2>3, <2>4, <2>5 DEF Steps
    <2>7. QED
        BY <2>2, <2>6 DEF Told
<1>5. CASE Started(w, p, v)
    <2>1. /\ \A q \in Packets \ {p} :
                /\ v.state[q] = w.state[q] /\ v.stage[q] = w.stage[q]
                /\ v.asked[q] = w.asked[q] /\ v.helper[q] = w.helper[q]
          /\ v.state[p] = "accepted" /\ ~v.asked[p]
        BY <1>1, <1>5 DEF Started, Worlds
    <2>2. /\ v.queue = RemoveFirst(w.queue, p) /\ IsInjective(v.queue)
          /\ Range(v.queue) = Range(w.queue) \ {p}
        BY <1>1, <1>5, RemoveFirstOnce DEF Started
    <2>3. Sound(v)
        <3>1. {q \in Packets : v.state[q] # "none"} = {q \in Packets : w.state[q] # "none"}
            BY <2>1
        <3>2. QED
            BY <1>0, <2>1, <2>2, <3>1 DEF Sound
    <2>4. ASSUME NEW m \in Models
          PROVE  Load(v, m) <= Capacity[m] \/ Load(v, m) <= Load(w, m)
        <3>1. CASE m # model[p]
            <4>1. AtWork(v, m) \subseteq AtWork(w, m)
                BY <2>1, <3>1 DEF AtWork
            <4>2. QED
                BY <2>3, <4>1, LoadShrinks
        <3>2. CASE m = model[p]
            <4>1. AtWork(v, m) \subseteq AtWork(w, m) \cup {p}
                BY <2>1 DEF AtWork
            <4>2. /\ IsFiniteSet(AtWork(w, m)) /\ Cardinality(AtWork(w, m)) \in Nat
                  /\ Cardinality(OthersOn(m)) \in Nat
                  /\ Load(w, m) = Cardinality(AtWork(w, m)) + Cardinality(OthersOn(m))
                BY LoadIsNumber
            <4>3. /\ IsFiniteSet(AtWork(w, m) \cup {p})
                  /\ Cardinality(AtWork(w, m) \cup {p}) <= Cardinality(AtWork(w, m)) + 1
                <5>1. /\ IsFiniteSet(AtWork(w, m) \cup {p})
                      /\ Cardinality(AtWork(w, m) \cup {p}) =
                           IF p \in AtWork(w, m) THEN Cardinality(AtWork(w, m))
                           ELSE Cardinality(AtWork(w, m)) + 1
                    BY <4>2, FS_AddElement
                <5>2. QED
                    BY <4>2, <5>1
            <4>4. /\ Load(v, m) = Cardinality(AtWork(v, m)) + Cardinality(OthersOn(m))
                  /\ Cardinality(AtWork(v, m)) \in Nat
                BY <2>3, LoadIsNumber
            <4>5. Cardinality(AtWork(v, m)) <= Cardinality(AtWork(w, m) \cup {p})
                BY <4>1, <4>3, FS_Subset
            <4>6. Load(w, m) < Capacity[m] /\ Capacity[m] \in Nat
                BY <1>5, <3>2, HandoffAssumption DEF Started
            <4>7. Cardinality(AtWork(w, m) \cup {p}) \in Nat
                BY <4>3, FS_CardinalityType
            <4>8. QED
                BY <4>2, <4>3, <4>4, <4>5, <4>6, <4>7
        <3>3. QED
            BY <3>1, <3>2
    <2>5. ASSUME NEW a \in Range(v.queue), NEW b \in Range(v.queue),
                 Before(w.queue, a, b)
          PROVE  Before(v.queue, a, b)
        BY <1>1, <2>2, <2>5, RemoveFirstOrder
    <2>6. ASSUME NEW a \in Packets, model[a] = model[p], w.state[a] = "draft"
          PROVE  /\ ~Before(w.queue, a, p)
                 /\ p \notin Range(w.queue) => a \notin Range(w.queue)
        BY <1>1, <1>5, <2>6, NobodyAhead DEF Started
    <2>7. Steps(w, p, v)
        BY <1>1, <2>1, <2>2, <2>3, <2>4, <2>5, <2>6 DEF Steps
    <2>8. QED
        BY <2>1, <2>7 DEF Told
<1>6. QED
    BY <1>0, <1>2, <1>3, <1>4, <1>5

-----------------------------------------------------------------------------
(* The drain of the queue. *)

\* The drain up to the k-th entry, as the loop goes.
DrainsTo(g, k, fails) ==
    g = [i \in 0..k |-> IF i = 0 THEN World
                        ELSE DrainOne(g[i - 1], queue[i], fails[queue[i]])]

\* There is such a function for every length of the queue.
LEMMA DrainExists ==
    ASSUME NEW n \in Nat, NEW fails
    PROVE  \E g : DrainsTo(g, n, fails)
<1> DEFINE Bad == {k \in Nat : ~ \E g : DrainsTo(g, k, fails)}
           m == Min(Bad)
<1>1. SUFFICES ASSUME Bad # {} PROVE FALSE
    OBVIOUS
<1>2. m \in Bad /\ \A x \in Bad : m <= x
    BY <1>1, MinInSet
<1> HIDE DEF m
<1>3. CASE m = 0
    <2> DEFINE g == [i \in 0..0 |-> World]
    <2>1. DrainsTo(g, 0, fails)
        BY DEF DrainsTo
    <2>2. QED
        BY <1>2, <1>3, <2>1
<1>4. CASE m # 0
    <2>1. m - 1 \in Nat /\ m - 1 \notin Bad /\ m \in Nat
        BY <1>2, <1>4
    <2>2. PICK g : DrainsTo(g, m - 1, fails)
        BY <2>1
    <2> DEFINE h == [i \in 0..m |-> IF i = m
                                    THEN DrainOne(g[m - 1], queue[m], fails[queue[m]])
                                    ELSE g[i]]
    <2>3. ASSUME NEW i \in 0..m
          PROVE  h[i] = IF i = 0 THEN World
                        ELSE DrainOne(h[i - 1], queue[i], fails[queue[i]])
        <3>1. CASE i = m
            <4>1. i - 1 \in 0..m /\ i - 1 # m /\ h[i - 1] = g[m - 1]
                BY <1>4, <2>1, <3>1
            <4>2. QED
                BY <1>4, <2>1, <3>1, <4>1
        <3>2. CASE i = 0
            <4>1. g[0] = World
                BY <2>1, <2>2 DEF DrainsTo
            <4>2. QED
                BY <1>4, <2>1, <3>2, <4>1
        <3>3. CASE i # 0 /\ i # m
            <4>1. i \in 0..m - 1 /\ i - 1 \in 0..m /\ i - 1 # m
                BY <2>1, <3>3
            <4>2. g[i] = DrainOne(g[i - 1], queue[i], fails[queue[i]])
                BY <2>2, <3>3, <4>1 DEF DrainsTo
            <4>3. h[i] = g[i] /\ h[i - 1] = g[i - 1]
                BY <3>3, <4>1
            <4>4. QED
                BY <3>3, <4>2, <4>3
        <3>4. QED
            BY <3>1, <3>2, <3>3
    <2>4. h = [i \in 0..m |-> h[i]]
        OBVIOUS
    <2> HIDE DEF h
    <2>5. DrainsTo(h, m, fails)
        BY <2>3, <2>4 DEF DrainsTo
    <2>6. QED
        BY <1>2, <2>5
<1>5. QED
    BY <1>3, <1>4

\* What the tick makes of the queue is the last value of that function.
LEMMA DrainIsLast ==
    ASSUME NEW fails, Len(queue) \in Nat
    PROVE  \E g : DrainsTo(g, Len(queue), fails) /\ Drain(fails) = g[Len(queue)]
<1> DEFINE g == CHOOSE g : DrainsTo(g, Len(queue), fails)
<1>1. DrainsTo(g, Len(queue), fails)
    BY DrainExists
<1>2. Drain(fails) = g[Len(queue)]
    BY DEF Drain, DrainsTo
<1>3. QED
    BY <1>1, <1>2

\* What holds after the first k entries were drained: only they were touched, the
\* ones behind them are still in line and in their order, and none of them was
\* started with an older draft for the same model left in line.
Drained(w, k) ==
    /\ Sound(w) /\ \A q \in Packets : Told(w, q)
    /\ \A q \in Packets :
          \/ w.helper[q] = helper[q]
          \/ helper[q] = "none" /\ q \in {queue[j] : j \in 1..k}
    /\ \A q \in Packets :
          w.state[q] = state[q] \/ (state[q] = "draft" /\ w.state[q] = "accepted")
    /\ Range(w.queue) \subseteq Range(queue)
    /\ \A j \in k + 1..Len(queue) : queue[j] \in Range(w.queue)
    /\ \A a, b \in Range(w.queue) : Before(queue, a, b) => Before(w.queue, a, b)
    /\ \A m \in Models : Load(w, m) <= Capacity[m] \/ Load(w, m) <= Load(World, m)
    /\ \A j \in 1..k :
          helper[queue[j]] = "none" /\ w.helper[queue[j]] = "working" =>
              \A a \in Range(w.queue) :
                  model[a] = model[queue[j]] /\ w.state[a] = "draft" =>
                      ~Before(queue, a, queue[j])

\* An entry is dropped or released (drain_local_queue).
LEMMA DrainOneSteps ==
    ASSUME NEW w, Sound(w), NEW p \in Packets, NEW fail, model \in [Packets -> Models]
    PROVE  LET v == DrainOne(w, p, fail) IN Steps(w, p, v) /\ Told(v, p)
<1>1. CASE w.state[p] = "draft"
    BY <1>1, ReleaseSteps DEF DrainOne
<1>2. CASE w.state[p] # "draft"
    <2> DEFINE v == [w EXCEPT !.queue = RemoveFirst(@, p)]
    <2>1. w \in Worlds /\ RemoveFirst(w.queue, p) \in Seq(Packets)
        BY RemoveFirstType DEF Sound, Worlds
    <2>2. v \in Worlds
        BY <2>1 DEF Worlds
    <2>3. /\ v.state = w.state /\ v.stage = w.stage /\ v.asked = w.asked
          /\ v.helper = w.helper /\ v.queue = RemoveFirst(w.queue, p)
        BY <2>1 DEF Worlds
    <2>4. DrainOne(w, p, fail) = v
        BY <1>2 DEF DrainOne
    <2> HIDE DEF v
    <2>5. Steps(w, p, v)
        BY <2>2, <2>3, LeavesLine
    <2>6. Told(v, p)
        BY <1>2, <2>3 DEF Told
    <2>7. QED
        BY <2>4, <2>5, <2>6
<1>3. QED
    BY <1>1, <1>2

\* One entry further (drain_local_queue).
LEMMA DrainedStep ==
    ASSUME HandoffInv, NEW k \in 1..Len(queue), NEW w, Drained(w, k - 1), NEW fail
    PROVE  Drained(DrainOne(w, queue[k], fail), k)
<1> DEFINE p == queue[k]
           v == DrainOne(w, queue[k], fail)
<1>1. /\ queue \in Seq(Packets) /\ IsInjective(queue) /\ model \in [Packets -> Models]
      /\ Sound(World)
    BY DEF HandoffInv, TypeOK, Sound, World
<1>2. /\ Len(queue) \in Nat /\ DOMAIN queue = 1..Len(queue)
      /\ \A i \in 1..Len(queue) : queue[i] \in Packets
    BY <1>1, LenProperties, ElementOfSeq
<1>3. p \in Packets /\ k \in Nat /\ k - 1 \in Nat
    BY <1>2
<1>4. Steps(w, p, v) /\ Told(v, p)
    BY <1>1, <1>3, DrainOneSteps DEF Drained
<1> SUFFICES Drained(v, k)
    OBVIOUS
<1> HIDE DEF v
<1>5. p \in Range(w.queue)
    <2>1. k \in (k - 1) + 1..Len(queue)
        BY <1>2
    <2>2. QED
        BY <2>1 DEF Drained
<1>6. ASSUME NEW j \in 1..Len(queue), queue[j] = p
      PROVE  j = k
    BY <1>1, <1>2, <1>6 DEF IsInjective
<1>7. Range(v.queue) \subseteq Range(w.queue) /\ Range(w.queue) \subseteq Range(queue)
    BY <1>4, <1>5 DEF Steps, Drained
<1>8. ASSUME NEW q \in Packets
      PROVE  Told(v, q)
    <2>1. CASE q = p
        BY <1>4, <2>1
    <2>2. CASE q # p
        <3>1. Told(w, q)
            BY DEF Drained
        <3>2. /\ v.state[q] = w.state[q] /\ v.asked[q] = w.asked[q]
              /\ v.stage[q] = w.stage[q]
              /\ Range(v.queue) \ {p} = Range(w.queue) \ {p}
            BY <1>4, <2>2 DEF Steps
        <3>3. QED
            BY <2>2, <3>1, <3>2 DEF Told
    <2>3. QED
        BY <2>1, <2>2
<1>9. ASSUME NEW q \in Packets
      PROVE  \/ v.helper[q] = helper[q]
             \/ helper[q] = "none" /\ q \in {queue[j] : j \in 1..k}
    <2>1. \/ w.helper[q] = helper[q]
          \/ helper[q] = "none" /\ q \in {queue[j] : j \in 1..k - 1}
        BY DEF Drained
    <2>2. {queue[j] : j \in 1..k - 1} \subseteq {queue[j] : j \in 1..k}
        BY <1>3
    <2>3. CASE q # p
        BY <1>4, <2>1, <2>2, <2>3 DEF Steps
    <2>4. CASE q = p
        <3>1. w.helper[p] # "none" => v.helper[p] = w.helper[p]
            BY <1>3, <1>4 DEF Steps
        <3>2. p \in {queue[j] : j \in 1..k}
            BY <1>3
        <3>3. QED
            BY <2>1, <2>2, <2>4, <3>1, <3>2
    <2>5. QED
        BY <2>3, <2>4
<1>10. ASSUME NEW q \in Packets
       PROVE  /\ v.state[q] = state[q] \/ (state[q] = "draft" /\ v.state[q] = "accepted")
              /\ v.state[q] = "draft" => w.state[q] = "draft"
    <2>1. w.state[q] = state[q] \/ (state[q] = "draft" /\ w.state[q] = "accepted")
        BY DEF Drained
    <2>2. v.state[q] = w.state[q] \/ (w.state[q] = "draft" /\ v.state[q] = "accepted")
        BY <1>3, <1>4 DEF Steps
    <2>3. QED
        BY <2>1, <2>2
<1>11. ASSUME NEW j \in k + 1..Len(queue)
       PROVE  queue[j] \in Range(v.queue)
    <2>1. j \in (k - 1) + 1..Len(queue) /\ j \in 1..Len(queue) /\ j # k
        BY <1>2
    <2>2. queue[j] \in Range(w.queue) /\ queue[j] # p
        BY <1>6, <2>1 DEF Drained
    <2>3. QED
        BY <1>4, <2>2 DEF Steps
<1>12. ASSUME NEW a \in Range(v.queue), NEW b \in Range(v.queue), Before(queue, a, b)
       PROVE  Before(v.queue, a, b)
    BY <1>4, <1>7, <1>12 DEF Steps, Drained
<1>13. ASSUME NEW m \in Models
       PROVE  Load(v, m) <= Capacity[m] \/ Load(v, m) <= Load(World, m)
    <2>1. Sound(w) /\ Sound(v)
        BY <1>4 DEF Steps, Drained
    <2>2. Load(v, m) \in Nat /\ Load(w, m) \in Nat /\ Load(World, m) \in Nat
        BY <1>1, <2>1, LoadIsNumber
    <2>3. Load(w, m) <= Capacity[m] \/ Load(w, m) <= Load(World, m)
        BY DEF Drained
    <2>4. Load(v, m) <= Capacity[m] \/ Load(v, m) <= Load(w, m)
        BY <1>4 DEF Steps
    <2>5. Capacity[m] \in Nat
        BY HandoffAssumption
    <2>6. QED
        BY <2>2, <2>3, <2>4, <2>5
<1>14. ASSUME NEW j \in 1..k, helper[queue[j]] = "none",
              v.helper[queue[j]] = "working",
              NEW a \in Range(v.queue), model[a] = model[queue[j]],
              v.state[a] = "draft"
       PROVE  ~Before(queue, a, queue[j])
    <2>1. a \in Range(w.queue) /\ a \in Range(queue) /\ a \in Packets
        BY <1>2, <1>7 DEF Range
    <2>2. w.state[a] = "draft"
        BY <1>10, <1>14, <2>1
    <2>3. CASE j = k
        <3>1. p \notin {queue[h] : h \in 1..k - 1}
            BY <1>2, <1>3, <1>6
        <3>2. w.helper[p] = "none"
            BY <1>3, <1>14, <2>3, <3>1 DEF Drained
        <3>3. ~Before(w.queue, a, p)
            BY <1>4, <1>14, <2>1, <2>2, <2>3, <3>2 DEF Steps
        <3>4. QED
            BY <1>5, <2>1, <2>3, <3>3 DEF Drained
    <2>4. CASE j # k
        <3>1. j \in 1..k - 1 /\ j \in 1..Len(queue)
            BY <1>2, <1>3, <2>4
        <3>2. queue[j] # p /\ queue[j] \in Packets
            BY <1>2, <1>6, <2>4, <3>1
        <3>3. w.helper[queue[j]] = "working"
            BY <1>4, <1>14, <3>2 DEF Steps
        <3>4. QED
            BY <1>14, <2>1, <2>2, <3>1, <3>3 DEF Drained
    <2>5. QED
        BY <2>3, <2>4
<1>15. Sound(v)
    BY <1>4 DEF Steps
<1>16. Range(v.queue) \subseteq Range(queue)
    BY <1>7
<1>17. QED
    BY <1>8, <1>9, <1>10, <1>11, <1>12, <1>13, <1>14, <1>15, <1>16 DEF Drained

\* The whole drain: of all places where it might fail one would be the first.
LEMMA DrainDrained ==
    ASSUME HandoffInv, NEW fails
    PROVE  Drained(Drain(fails), Len(queue))
<1>1. queue \in Seq(Packets) /\ Sound(World)
    BY DEF HandoffInv, TypeOK
<1>2. Len(queue) \in Nat /\ DOMAIN queue = 1..Len(queue)
    BY <1>1, LenProperties
<1>3. PICK g : DrainsTo(g, Len(queue), fails) /\ Drain(fails) = g[Len(queue)]
    BY <1>2, DrainIsLast
<1> DEFINE Bad == {k \in Nat : k <= Len(queue) /\ ~Drained(g[k], k)}
           m == Min(Bad)
<1>4. SUFFICES ASSUME Bad # {} PROVE FALSE
    BY <1>2, <1>3
<1>5. m \in Bad /\ \A x \in Bad : m <= x
    BY <1>4, MinInSet
<1> HIDE DEF m
<1>6. CASE m = 0
    <2>1. g[0] = World
        BY <1>2, <1>3 DEF DrainsTo
    <2>2. /\ World.queue = queue /\ World.state = state /\ World.helper = helper
          /\ \A q \in Packets : Told(World, q)
        BY DEF World, HandoffInv
    <2>3. ASSUME NEW m1 \in Models
          PROVE  Load(World, m1) <= Load(World, m1)
        BY <1>1, LoadIsNumber
    <2>4. \A j \in 0 + 1..Len(queue) : queue[j] \in Range(queue)
        BY <1>2 DEF Range
    <2>5. Drained(World, 0)
        BY <1>1, <2>2, <2>3, <2>4 DEF Drained
    <2>6. QED
        BY <1>5, <1>6, <2>1, <2>5
<1>7. CASE m # 0
    <2>1. m \in 1..Len(queue) /\ m \in 0..Len(queue) /\ m - 1 \in Nat
          /\ m - 1 <= Len(queue) /\ ~(m <= m - 1)
        BY <1>2, <1>5, <1>7
    <2>2. Drained(g[m - 1], m - 1)
        BY <1>5, <2>1
    <2>3. g[m] = DrainOne(g[m - 1], queue[m], fails[queue[m]])
        BY <1>3, <1>7, <2>1 DEF DrainsTo
    <2>4. Drained(g[m], m)
        BY <2>1, <2>2, <2>3, DrainedStep
    <2>5. QED
        BY <1>5, <2>4
<1>8. QED
    BY <1>6, <1>7

-----------------------------------------------------------------------------
(* The steps that release packets or take them back. *)

\* What every such step does to the packets: the invariant holds, no packet comes
\* back, no model is overloaded, and no draft left in line is overtaken.
Orderly(w, v) ==
    /\ Sound(v) /\ \A q \in Packets : Told(v, q)
    /\ \A q \in Packets : v.state[q] = "returned" => w.state[q] = "returned"
    /\ \A q \in Packets : w.helper[q] # "none" => v.helper[q] = w.helper[q]
    /\ \A m \in Models : Load(v, m) <= Capacity[m] \/ Load(v, m) <= Load(w, m)
    /\ \A p, q \in Packets :
          /\ w.helper[p] = "none" /\ v.helper[p] = "working"
          /\ q \in Range(w.queue) /\ q \in Range(v.queue)
          /\ model[q] = model[p] /\ v.state[q] = "draft"
          => Pos(w.queue, p) < Pos(w.queue, q)

\* Of two packets, one that is not behind the other stands before it.
LEMMA NotBeforeIsPos ==
    ASSUME NEW q \in Seq(Packets), NEW a, NEW b, a # b, a \in Range(q), b \in Range(q),
           ~Before(q, a, b)
    PROVE  Pos(q, b) < Pos(q, a)
<1>1. Len(q) \in Nat
    BY LenProperties
<1>2. /\ Pos(q, a) \in 1..Len(q) /\ q[Pos(q, a)] = a
      /\ Pos(q, b) \in 1..Len(q) /\ q[Pos(q, b)] = b
    BY PosOfQueued
<1>3. ~(Pos(q, a) < Pos(q, b)) /\ Pos(q, a) # Pos(q, b)
    BY <1>2 DEF Before
<1>4. QED
    BY <1>1, <1>2, <1>3

\* Releasing one draft (release).
LEMMA ReleaseOrderly ==
    ASSUME NEW w, Sound(w), NEW p \in Packets, w.state[p] = "draft", NEW fails,
           model \in [Packets -> Models], \A q \in Packets \ {p} : Told(w, q)
    PROVE  Orderly(w, Release(w, p, fails))
<1> DEFINE v == Release(w, p, fails)
<1>1. Steps(w, p, v) /\ Told(v, p)
    BY ReleaseSteps
<1> SUFFICES Orderly(w, v)
    OBVIOUS
<1> HIDE DEF v
<1>2. w.queue \in Seq(Packets) /\ w.helper[p] = "none" /\ w \in Worlds
    BY DEF Sound, Worlds
<1>3. ASSUME NEW q \in Packets
      PROVE  Told(v, q)
    <2>1. CASE q = p
        BY <1>1, <2>1
    <2>2. CASE q # p
        <3>1. Told(w, q)
            BY <2>2
        <3>2. /\ v.state[q] = w.state[q] /\ v.asked[q] = w.asked[q]
              /\ v.stage[q] = w.stage[q]
              /\ Range(v.queue) \ {p} = Range(w.queue) \ {p}
            BY <1>1, <2>2 DEF Steps
        <3>3. QED
            BY <2>2, <3>1, <3>2 DEF Told
    <2>3. QED
        BY <2>1, <2>2
<1>4. ASSUME NEW q \in Packets
      PROVE  /\ v.state[q] = "returned" => w.state[q] = "returned"
             /\ w.helper[q] # "none" => v.helper[q] = w.helper[q]
    <2>1. CASE q = p
        BY <1>1, <1>2, <2>1 DEF Steps
    <2>2. CASE q # p
        BY <1>1, <2>2 DEF Steps
    <2>3. QED
        BY <2>1, <2>2
<1>5. ASSUME NEW a \in Packets, NEW q \in Packets,
             w.helper[a] = "none", v.helper[a] = "working",
             q \in Range(w.queue), q \in Range(v.queue),
             model[q] = model[a], v.state[q] = "draft"
      PROVE  Pos(w.queue, a) < Pos(w.queue, q)
    <2>1. a = p
        BY <1>1, <1>5 DEF Steps
    <2>2. q # p
        BY <1>1, <1>5, <2>1 DEF Steps, Sound
    <2>3. w.state[q] = "draft"
        BY <1>1, <1>5, <2>2 DEF Steps
    <2>4. /\ ~Before(w.queue, q, p)
          /\ p \notin Range(w.queue) => q \notin Range(w.queue)
        BY <1>1, <1>5, <2>1, <2>3 DEF Steps
    <2>5. QED
        BY <1>2, <1>5, <2>1, <2>2, <2>4, NotBeforeIsPos
<1>6. Sound(v)
    BY <1>1 DEF Steps
<1>7. \A m \in Models : Load(v, m) <= Capacity[m] \/ Load(v, m) <= Load(w, m)
    BY <1>1 DEF Steps
<1>8. QED
    BY <1>3, <1>4, <1>5, <1>6, <1>7 DEF Orderly

\* The state the packets are in is the one TypeOK describes.
LEMMA WorldFields ==
    /\ World.state = state /\ World.stage = stage /\ World.asked = asked
    /\ World.queue = queue /\ World.helper = helper
BY DEF World

\* A packet that is not in anybody's hands changes: nothing else does.
LEMMA NoHelperOrderly ==
    ASSUME HandoffInv, NEW p \in Packets, NEW v \in Worlds,
           v.helper = helper, helper[p] # "working",
           \A q \in Packets \ {p} : v.state[q] = state[q] /\ v.stage[q] = stage[q]
                                    /\ v.asked[q] = asked[q],
           v.queue = queue \/ v.queue = RemoveFirst(queue, p),
           v.state[p] # "none",
           v.state[p] = "draft" => v.asked[p] /\ helper[p] = "none",
           v.asked[p] => v.state[p] = "draft"
    PROVE  /\ Sound(v) /\ \A q \in Packets : Told(v, q)
           /\ \A m \in Models : Load(v, m) <= Load(World, m)
<1>1. queue \in Seq(Packets) /\ IsInjective(queue) /\ Sound(World)
    BY WorldFields DEF HandoffInv, TypeOK, Sound
<1>2. IsInjective(v.queue) /\ Range(v.queue) \ {p} = Range(queue) \ {p}
    BY <1>1, RemoveFirstOnce
<1>3. IsFiniteSet({q \in Packets : v.state[q] # "none"})
    <2>1. IsFiniteSet({q \in Packets : state[q] # "none"})
        BY <1>1, WorldFields DEF Sound
    <2> DEFINE had(q) == state[q] # "none"
               has(q) == v.state[q] # "none"
    <2>2. \A q \in Packets : has(q) <=> (q = p \/ had(q))
        OBVIOUS
    <2> HIDE DEF had, has
    <2>3. {q \in Packets : has(q)} = {q \in Packets : had(q)} \cup {p}
        BY <2>2
    <2>4. IsFiniteSet({q \in Packets : had(q)} \cup {p})
        BY <2>1, FS_AddElement DEF had
    <2>5. QED
        BY <2>3, <2>4 DEF has
<1>4. \A q \in Packets : v.state[q] \in {"none", "draft"} => v.helper[q] = "none"
    BY <1>1, WorldFields DEF Sound
<1>5. \A q \in Packets : v.asked[q] => v.state[q] = "draft"
    BY <1>1, WorldFields DEF Sound
<1>6. Sound(v)
    BY <1>2, <1>3, <1>4, <1>5 DEF Sound
<1>7. ASSUME NEW q \in Packets
      PROVE  Told(v, q)
    <2>1. CASE q = p
        BY <2>1 DEF Told
    <2>2. CASE q # p
        BY <1>2, <2>2, WorldFields DEF HandoffInv, Told
    <2>3. QED
        BY <2>1, <2>2
<1>8. ASSUME NEW m \in Models
      PROVE  Load(v, m) <= Load(World, m)
    <2>1. AtWork(v, m) \subseteq AtWork(World, m)
        BY WorldFields DEF AtWork
    <2>2. QED
        BY <1>1, <1>6, <2>1, LoadShrinks
<1>9. QED
    BY <1>6, <1>7, <1>8

\* A packet is handed over (tower_delegate).
LEMMA DelegateOrderly ==
    ASSUME HandoffInv, NEW p \in Packets, NEW ask \in BOOLEAN, NEW fails,
           Delegate(p, ask, fails)
    PROVE  \E v : Become(v) /\ Orderly(World, v)
<1> DEFINE w == [World EXCEPT !.state[p] = "draft", !.stage[p] = "cleared"]
           u == [w EXCEPT !.asked[p] = TRUE]
<1>1. World \in Worlds /\ state[p] = "none" /\ Sound(World) /\ helper[p] = "none"
      /\ model \in [Packets -> Models]
    BY WorldFields DEF HandoffInv, Delegate, Sound, TypeOK
<1>2. w \in Worlds
    BY <1>1 DEF Worlds
<1>3. /\ w.queue = queue /\ w.helper = helper /\ w.asked = asked
      /\ w.state = [state EXCEPT ![p] = "draft"]
      /\ w.stage = [stage EXCEPT ![p] = "cleared"]
    BY <1>1, WorldFields DEF Worlds
<1>4. u \in Worlds
    BY <1>2 DEF Worlds
<1>5. /\ u.queue = w.queue /\ u.helper = w.helper /\ u.state = w.state
      /\ u.stage = w.stage /\ u.asked = [w.asked EXCEPT ![p] = TRUE]
    BY <1>2 DEF Worlds
<1>6. Become(IF ask THEN u ELSE Release(w, p, fails))
    BY DEF Delegate
<1> HIDE DEF w, u
<1>7. /\ w.state[p] = "draft" /\ u.asked[p] = TRUE
      /\ \A q \in Packets \ {p} : /\ w.state[q] = state[q] /\ w.stage[q] = stage[q]
                                  /\ u.asked[q] = asked[q]
    BY <1>1, <1>3, <1>5, WorldFields DEF Worlds
<1>8. /\ Sound(u) /\ \A q \in Packets : Told(u, q)
      /\ \A m \in Models : Load(u, m) <= Load(World, m)
    <2>1. u.helper = helper /\ helper[p] # "working" /\ u.queue = queue
        BY <1>1, <1>3, <1>5
    <2>2. \A q \in Packets \ {p} : /\ u.state[q] = state[q] /\ u.stage[q] = stage[q]
                                   /\ u.asked[q] = asked[q]
        BY <1>5, <1>7
    <2>3. u.state[p] = "draft" /\ u.asked[p] /\ helper[p] = "none"
        BY <1>1, <1>5, <1>7
    <2>4. QED
        BY <1>4, <2>1, <2>2, <2>3, NoHelperOrderly
<1>9. CASE ask
    <2>1. Orderly(World, u)
        BY <1>1, <1>3, <1>5, <1>7, <1>8, WorldFields DEF Orderly
    <2>2. QED
        BY <1>6, <1>9, <2>1
<1>10. CASE ~ask
    <2> DEFINE v == Release(w, p, fails)
    <2>1. Sound(w)
        <3>1. ~asked[p]
            BY <1>1, WorldFields DEF Sound
        <3>2. QED
            BY <1>1, <1>2, <1>3, <1>5, <1>7, <1>8, <3>1, WorldFields DEF Sound
    <2>2. ASSUME NEW q \in Packets \ {p}
          PROVE  Told(w, q)
        BY <1>3, <1>7, WorldFields DEF HandoffInv, Told
    <2>3. Orderly(w, v)
        BY <1>1, <1>7, <2>1, <2>2, ReleaseOrderly
    <2> HIDE DEF v
    <2>4. ASSUME NEW m \in Models
          PROVE  Load(w, m) = Load(World, m)
        <3>1. AtWork(w, m) = AtWork(World, m)
            BY <1>1, <1>3, <1>7, WorldFields DEF AtWork
        <3>2. QED
            BY <1>1, <2>1, <3>1, LoadIsNumber
    <2>5. \A q \in Packets : w.state[q] = "returned" => state[q] = "returned"
        BY <1>1, <1>7
    <2>6. Orderly(World, v)
        BY <1>3, <2>3, <2>4, <2>5, WorldFields DEF Orderly
    <2>7. QED
        BY <1>6, <1>10, <2>6 DEF v
<1>11. QED
    BY <1>9, <1>10

\* The human releases a draft (resolve_inbox, release_handoff).
LEMMA ReleaseHandoffOrderly ==
    ASSUME HandoffInv, NEW p \in Packets, NEW fails, ReleaseHandoff(p, fails)
    PROVE  \E v : Become(v) /\ Orderly(World, v)
<1>1. Orderly(World, Release(World, p, fails))
    BY ReleaseOrderly, WorldFields DEF HandoffInv, TypeOK, ReleaseHandoff
<1>2. QED
    BY <1>1 DEF ReleaseHandoff

\* A child flight is removed: what it leaves of its packet (resolve_inbox,
\* delete_flight).
LEMMA GoneFields ==
    ASSUME NEW w \in Worlds, NEW p \in Packets
    PROVE  /\ Gone(w, p) \in Worlds
           /\ Gone(w, p).queue = w.queue /\ Gone(w, p).helper = w.helper
           /\ Gone(w, p).state = [w.state EXCEPT ![p] = "gone"]
           /\ Gone(w, p).stage = [w.stage EXCEPT ![p] = "none"]
           /\ Gone(w, p).asked = [w.asked EXCEPT ![p] = FALSE]
<1>1. Gone(w, p) \in Worlds
    BY DEF Gone, Worlds
<1>2. Gone(w, p).queue = w.queue /\ Gone(w, p).helper = w.helper
    BY DEF Gone, Worlds
<1>3. /\ Gone(w, p).state = [w.state EXCEPT ![p] = "gone"]
      /\ Gone(w, p).stage = [w.stage EXCEPT ![p] = "none"]
      /\ Gone(w, p).asked = [w.asked EXCEPT ![p] = FALSE]
    BY DEF Gone, Worlds
<1>4. QED
    BY <1>1, <1>2, <1>3

\* The human says no (resolve_inbox).
LEMMA RejectOrderly ==
    ASSUME HandoffInv, NEW p \in Packets, Reject(p)
    PROVE  \E v : Become(v) /\ Orderly(World, v)
<1> DEFINE v == Gone(World, p)
<1>1. World \in Worlds /\ Become(v)
    BY DEF HandoffInv, Sound, Reject
<1>2. /\ v \in Worlds /\ v.queue = queue /\ v.helper = helper
      /\ v.state = [state EXCEPT ![p] = "gone"] /\ v.stage = [stage EXCEPT ![p] = "none"]
      /\ v.asked = [asked EXCEPT ![p] = FALSE]
    BY <1>1, GoneFields, WorldFields
<1> HIDE DEF v
<1>3. /\ \A q \in Packets \ {p} : v.state[q] = state[q] /\ v.stage[q] = stage[q]
                                  /\ v.asked[q] = asked[q]
      /\ v.state[p] = "gone" /\ ~v.asked[p]
    BY <1>1, <1>2, WorldFields DEF Worlds
<1>4. state[p] = "draft" /\ helper[p] = "none"
    BY WorldFields DEF HandoffInv, Sound, Reject
<1>5. /\ Sound(v) /\ \A q \in Packets : Told(v, q)
      /\ \A m \in Models : Load(v, m) <= Load(World, m)
    BY <1>2, <1>3, <1>4, NoHelperOrderly
<1>6. Orderly(World, v)
    BY <1>2, <1>3, <1>5, WorldFields DEF Orderly
<1>7. QED
    BY <1>1, <1>6

\* A flight nobody works on is removed (delete_flight).
LEMMA DeleteOrderly ==
    ASSUME HandoffInv, NEW p \in Packets, Delete(p)
    PROVE  \E v : Become(v) /\ Orderly(World, v)
<1> DEFINE w == Gone(World, p)
           v == [w EXCEPT !.queue = RemoveFirst(@, p)]
<1>1. World \in Worlds /\ Become(v)
    BY DEF HandoffInv, Sound, Delete
<1>2. /\ w \in Worlds /\ w.queue = queue /\ w.helper = helper
      /\ w.state = [state EXCEPT ![p] = "gone"] /\ w.stage = [stage EXCEPT ![p] = "none"]
      /\ w.asked = [asked EXCEPT ![p] = FALSE]
    BY <1>1, GoneFields, WorldFields
<1> HIDE DEF w
<1>3. /\ v \in Worlds /\ v.queue = RemoveFirst(queue, p) /\ v.helper = helper
      /\ v.state = [state EXCEPT ![p] = "gone"] /\ v.stage = [stage EXCEPT ![p] = "none"]
      /\ v.asked = [asked EXCEPT ![p] = FALSE]
    <2>1. RemoveFirst(w.queue, p) \in Seq(Packets)
        BY <1>2, RemoveFirstType DEF Worlds
    <2>2. v \in Worlds
        BY <1>2, <2>1 DEF Worlds
    <2>3. /\ v.queue = RemoveFirst(w.queue, p) /\ v.helper = w.helper
          /\ v.state = w.state /\ v.stage = w.stage /\ v.asked = w.asked
        BY <1>2 DEF Worlds
    <2> HIDE DEF v
    <2>4. QED
        BY <1>2, <2>2, <2>3
<1> HIDE DEF v
<1>4. /\ \A q \in Packets \ {p} : v.state[q] = state[q] /\ v.stage[q] = stage[q]
                                  /\ v.asked[q] = asked[q]
      /\ v.state[p] = "gone" /\ ~v.asked[p]
    BY <1>1, <1>3, WorldFields DEF Worlds
<1>5. helper[p] # "working"
    BY DEF Delete, Live
<1>6. /\ Sound(v) /\ \A q \in Packets : Told(v, q)
      /\ \A m \in Models : Load(v, m) <= Load(World, m)
    BY <1>3, <1>4, <1>5, NoHelperOrderly
<1>7. Orderly(World, v)
    BY <1>3, <1>4, <1>6, WorldFields DEF Orderly
<1>8. QED
    BY <1>1, <1>7

\* The tick drains the queue (drain_local_queue).
LEMMA TickOrderly ==
    ASSUME HandoffInv, NEW fails, NEW commands, Tick(fails, commands)
    PROVE  \E v : Become(v) /\ Orderly(World, v)
<1> DEFINE v == Drain(fails)
<1>1. Become(v) /\ Drained(v, Len(queue))
    BY DrainDrained DEF Tick
<1> HIDE DEF v
<1>2. queue \in Seq(Packets) /\ IsInjective(queue) /\ Sound(World)
    BY WorldFields DEF HandoffInv, TypeOK, Sound
<1>3. /\ Len(queue) \in Nat /\ DOMAIN queue = 1..Len(queue)
      /\ \A i \in 1..Len(queue) : queue[i] \in Packets
    BY <1>2, LenProperties, ElementOfSeq
<1>4. ASSUME NEW q \in Packets
      PROVE  /\ v.state[q] = "returned" => state[q] = "returned"
             /\ v.helper[q] # helper[q] => q \in Range(queue)
             /\ helper[q] # "none" => v.helper[q] = helper[q]
    <2>1. v.state[q] = "returned" => state[q] = "returned"
        BY <1>1 DEF Drained
    <2>2. v.helper[q] # helper[q] => q \in Range(queue)
        BY <1>1, <1>3 DEF Drained, Range
    <2>3. helper[q] # "none" => v.helper[q] = helper[q]
        BY <1>1 DEF Drained
    <2>4. QED
        BY <2>1, <2>2, <2>3
<1>5. ASSUME NEW p \in Packets, NEW q \in Packets,
             helper[p] = "none", v.helper[p] = "working",
             q \in Range(queue), q \in Range(v.queue),
             model[q] = model[p], v.state[q] = "draft"
      PROVE  Pos(queue, p) < Pos(queue, q)
    <2>1. PICK j \in 1..Len(queue) : queue[j] = p
        BY <1>3, <1>4, <1>5 DEF Range
    <2>2. ~Before(queue, q, p)
        BY <1>1, <1>5, <2>1 DEF Drained
    <2>3. v.helper[q] = "none"
        BY <1>1, <1>5 DEF Drained, Sound
    <2>4. p # q /\ p \in Range(queue)
        BY <1>3, <1>5, <2>1, <2>3 DEF Range
    <2>5. QED
        BY <1>2, <1>5, <2>2, <2>4, NotBeforeIsPos
<1>6. Orderly(World, v)
    BY <1>1, <1>4, <1>5, WorldFields DEF Drained, Orderly
<1>7. QED
    BY <1>1, <1>6

-----------------------------------------------------------------------------
(* Every step. *)

\* Packets are released or taken back, and nothing happens to a helper.
Releasing ==
    model' = model /\ other' = other /\ \E v : Become(v) /\ Orderly(World, v)

\* No other agent begins a turn.
OthersRest == \A o \in Others : other'[o] = "working" => other[o] = "working"

\* Helpers and other agents work, return, are told and end: what was handed over,
\* and what is asked and in line, stays, and only a message gives a helper new work.
HelpersMove ==
    /\ model' = model /\ queue' = queue /\ asked' = asked
    /\ \A q \in Packets :
          /\ state'[q] = state[q] \/ (helper[q] # "none" /\ state'[q] = "returned")
          /\ helper[q] = "none" => helper'[q] = "none" /\ stage'[q] = stage[q]
    /\ \/ \A q \in Packets :
             helper'[q] = "working" /\ stage'[q] # "landed" =>
                 helper[q] = "working" /\ stage[q] # "landed"
       \/ \E p \in Packets, human \in BOOLEAN : Talk(p, human)
    /\ \/ OthersRest
       \/ \E o \in Others : OtherWorks(o)

\* The effect of marking a helper offline (mark_offline).
LEMMA GoOfflineFields ==
    ASSUME TypeOK, NEW p \in Packets, NEW s \in {"none", "cleared", "holding", "inflight",
                                                 "needsyou", "landed"},
           GoOffline(p, s)
    PROVE  /\ helper' \in [Packets -> {"none", "working", "holding", "offline"}]
           /\ stage' \in [Packets -> {"none", "cleared", "holding", "inflight", "needsyou",
                                      "landed"}]
           /\ mail' \in [Packets -> BOOLEAN] /\ reminded' \in [Packets -> 0..MaxReminders]
           /\ helper'[p] = "offline"
           /\ \A q \in Packets \ {p} : helper'[q] = helper[q] /\ stage'[q] = stage[q]
BY DEF GoOffline, TypeOK, MaxReminders

\* Every step is one or the other.
LEMMA TwoKindsOfSteps ==
    ASSUME HandoffInv, Next
    PROVE  Releasing \/ HelpersMove
<1>0. TypeOK
    BY DEF HandoffInv
<1>1. ASSUME SenderLeaves
      PROVE  HelpersMove
    BY <1>1 DEF SenderLeaves, packetVars, helperVars, HelpersMove, OthersRest
<1>2. ASSUME Restart
      PROVE  HelpersMove
    <2>1. OthersRest
        BY <1>2 DEF Restart, OthersRest
    <2>2. /\ state' = state /\ stage' = stage /\ queue' = queue /\ asked' = asked
          /\ model' = model
        BY <1>2 DEF Restart, packetVars
    <2>3. \A q \in Packets : /\ helper[q] = "none" => helper'[q] = "none"
                             /\ helper'[q] # "working"
        BY <1>0, <1>2 DEF Restart, Live, TypeOK
    <2>4. QED
        BY <2>1, <2>2, <2>3 DEF HelpersMove
<1>3. ASSUME Ticks
      PROVE  Releasing
    <2>1. PICK fails, commands : Tick(fails, commands)
        BY <1>3 DEF Ticks
    <2>2. \E v : Become(v) /\ Orderly(World, v)
        BY <2>1, TickOrderly, Zenon
    <2>3. model' = model /\ other' = other
        BY <2>1, Zenon DEF Tick
    <2>4. QED
        BY <2>2, <2>3 DEF Releasing
<1>4. ASSUME NEW p \in Packets, NEW ask \in BOOLEAN, NEW fails, Delegate(p, ask, fails)
      PROVE  Releasing
    BY <1>4, DelegateOrderly DEF Delegate, Releasing
<1>5. ASSUME NEW p \in Packets, NEW fails, ReleaseHandoff(p, fails)
      PROVE  Releasing
    BY <1>5, ReleaseHandoffOrderly DEF ReleaseHandoff, Releasing
<1>6. ASSUME NEW p \in Packets, Reject(p)
      PROVE  Releasing
    BY <1>6, RejectOrderly DEF Reject, Releasing
<1>7. ASSUME NEW p \in Packets, Delete(p)
      PROVE  Releasing
    BY <1>7, DeleteOrderly DEF Delete, Releasing
<1>8. ASSUME NEW p \in Packets, Leave(p)
      PROVE  HelpersMove
    <2>1. GoOffline(p, stage[p]) /\ helper[p] # "none"
        BY <1>8 DEF Leave, Live
    <2>2. stage[p] \in {"none", "cleared", "holding", "inflight", "needsyou", "landed"}
        BY <1>0 DEF TypeOK
    <2>3. /\ helper'[p] = "offline"
          /\ \A q \in Packets \ {p} : helper'[q] = helper[q] /\ stage'[q] = stage[q]
        BY <1>0, <2>1, <2>2, GoOfflineFields
    <2>4. /\ state' = state /\ queue' = queue /\ asked' = asked /\ model' = model
          /\ other' = other
        BY <1>8 DEF Leave
    <2>5. QED
        BY <2>1, <2>3, <2>4 DEF HelpersMove, OthersRest
<1>9. ASSUME NEW p \in Packets, NEW human \in BOOLEAN, Talk(p, human)
      PROVE  HelpersMove
    <2>1. /\ state' = state /\ stage' = stage /\ queue' = queue /\ asked' = asked
          /\ model' = model /\ other' = other
        BY <1>9 DEF Talk, packetVars
    <2>2. \A q \in Packets : helper[q] = "none" => helper'[q] = "none"
        BY <1>0, <1>9 DEF Talk, Live, TypeOK
    <2>3. QED
        BY <1>9, <2>1, <2>2 DEF HelpersMove, OthersRest
<1>10. ASSUME NEW p \in Packets, Checked(p)
       PROVE  HelpersMove
    BY <1>10 DEF Checked, packetVars, helperVars, HelpersMove, OthersRest
<1>11. ASSUME NEW p \in Packets, NEW commands, NEW auto, Return(p, commands, auto)
       PROVE  HelpersMove
    BY <1>0, <1>11 DEF Return, HelpersMove, OthersRest, TypeOK
<1>12. ASSUME NEW p \in Packets, NEW counts, TurnEnd(p, counts)
       PROVE  HelpersMove
    <2>1. helper[p] = "working" /\ state' = state /\ queue' = queue /\ asked' = asked
          /\ model' = model /\ OthersRest
        BY <1>12 DEF TurnEnd, OthersRest
    <2>2. \/ helper' = helper /\ stage' = stage
          \/ helper' = [helper EXCEPT ![p] = "holding"] /\ stage' = stage
          \/ \E s \in {"none", "cleared", "holding", "inflight", "needsyou", "landed"} :
                GoOffline(p, s)
        BY <1>0, <1>12 DEF TurnEnd, Remind, TypeOK
    <2>3. CASE helper' = helper /\ stage' = stage
        BY <2>1, <2>3 DEF HelpersMove
    <2>4. CASE helper' = [helper EXCEPT ![p] = "holding"] /\ stage' = stage
        BY <1>0, <2>1, <2>4 DEF HelpersMove, TypeOK
    <2>5. ASSUME NEW s \in {"none", "cleared", "holding", "inflight", "needsyou", "landed"},
                 GoOffline(p, s)
          PROVE  HelpersMove
        <3>1. /\ helper'[p] = "offline"
              /\ \A q \in Packets \ {p} : helper'[q] = helper[q] /\ stage'[q] = stage[q]
            BY <1>0, <2>5, GoOfflineFields
        <3>2. QED
            BY <2>1, <3>1 DEF HelpersMove
    <2>6. QED
        BY <2>2, <2>3, <2>4, <2>5
<1>13. ASSUME NEW o \in Others, OtherWorks(o)
       PROVE  HelpersMove
    BY <1>13 DEF OtherWorks, packetVars, helperVars, HelpersMove
<1>14. ASSUME NEW o \in Others, NEW left, OtherRests(o, left)
       PROVE  HelpersMove
    <2>1. other \in [Others -> {"none", "working", "holding"}]
        BY <1>0 DEF TypeOK
    <2>2. OthersRest
        BY <1>14, <2>1 DEF OtherRests, OthersRest
    <2>3. QED
        BY <1>14, <2>2 DEF OtherRests, packetVars, helperVars, HelpersMove
<1>15. QED
    BY <1>1, <1>2, <1>3, <1>4, <1>5, <1>6, <1>7, <1>8, <1>9, <1>10, <1>11, <1>12, <1>13,
       <1>14 DEF Next

\* The variables a release leaves to others keep their types, and so do the
\* packets' (TypeOK).
LEMMA TypeStep ==
    ASSUME HandoffInv, Next
    PROVE  TypeOK'
<1>0. TypeOK /\ HandoffAssumption
    BY HandoffAssumption DEF HandoffInv
<1>1. ASSUME Releasing
      PROVE  /\ model' \in [Packets -> Models]
             /\ state' \in [Packets -> {"none", "draft", "accepted", "returned", "gone"}]
             /\ stage' \in [Packets -> {"none", "cleared", "holding", "inflight",
                                        "needsyou", "landed"}]
             /\ asked' \in [Packets -> BOOLEAN] /\ queue' \in Seq(Packets)
             /\ helper' \in [Packets -> {"none", "working", "holding", "offline"}]
    <2>1. PICK v : Become(v) /\ v \in Worlds
        BY <1>1 DEF Releasing, Orderly, Sound
    <2>2. QED
        BY <1>0, <1>1, <2>1 DEF Become, Worlds, Releasing, TypeOK
<1>2. ASSUME SenderLeaves
      PROVE  TypeOK'
    <2>1. /\ UNCHANGED <<model, state, stage, asked, queue>>
          /\ UNCHANGED <<helper, mail, reminded, stopAfter>>
          /\ UNCHANGED <<check, runs, returns, reports>>
          /\ sender' = FALSE /\ other' = other /\ resumed' = resumed
          /\ extras' = extras + 1
        BY <1>2 DEF SenderLeaves, Extra, packetVars, helperVars, resultVars
    <2>2. extras' \in Nat
        <3>1. extras \in Nat
            BY <1>0 DEF TypeOK
        <3>2. QED
            BY <2>1, <3>1
    <2>3. QED
        BY <1>0, <2>1, <2>2 DEF TypeOK
<1>3. ASSUME Restart
      PROVE  TypeOK'
    <2>1. /\ UNCHANGED <<model, state, stage, asked, queue>>
          /\ UNCHANGED <<mail, check, returns, reports>>
          /\ sender' \in {sender, FALSE} /\ resumed' = FALSE /\ extras' = extras + 1
        BY <1>3 DEF Restart, Extra, packetVars
    <2>2. helper' \in [Packets -> {"none", "working", "holding", "offline"}]
        BY <1>0, <1>3 DEF Restart, TypeOK
    <2>3. /\ stopAfter' \in [Packets -> BOOLEAN]
          /\ reminded' \in [Packets -> 0..MaxReminders] /\ runs' \in [Packets -> Nat]
        BY <1>3 DEF Restart, MaxReminders
    <2>4. extras' \in Nat
        <3>1. extras \in Nat
            BY <1>0 DEF TypeOK
        <3>2. QED
            BY <2>1, <3>1
    <2>5. other' \in [Others -> {"none", "working", "holding"}]
        <3>1. PICK gone \in SUBSET Others :
                  other' = [o \in Others |-> IF o \in gone THEN "none" ELSE other[o]]
            BY <1>3 DEF Restart
        <3>2. other \in [Others -> {"none", "working", "holding"}]
            BY <1>0 DEF TypeOK
        <3>3. QED
            BY <3>1, <3>2
    <2>6. QED
        BY <1>0, <2>1, <2>2, <2>3, <2>4, <2>5 DEF TypeOK
<1>4. ASSUME NEW fails, NEW commands \in BOOLEAN, Tick(fails, commands)
      PROVE  TypeOK'
    <2>1. Releasing
        BY <1>4, TickOrderly DEF Tick, Releasing
    <2>2. /\ check' \in [Packets -> BOOLEAN] /\ runs' \in [Packets -> Nat]
          /\ reports' \in [Packets -> Nat]
        <3>1. CASE resumed
            BY <1>0, <1>4, <3>1 DEF Tick, Resume, TypeOK
        <3>2. CASE ~resumed
            <4> DEFINE held == {p \in Packets : check[p] /\ state[p] # "gone"}
            <4>1. /\ check' = [p \in Packets |-> p \in held /\ commands]
                  /\ runs' = [p \in Packets |->
                                 runs[p] + IF p \in held /\ commands THEN 1 ELSE 0]
                  /\ reports' = [p \in Packets |->
                                    reports[p] + IF p \in held /\ ~commands THEN 1 ELSE 0]
                BY <1>4, <3>2 DEF Tick, Resume
            <4> HIDE DEF held
            <4>2. \A p \in Packets : runs[p] \in Nat /\ reports[p] \in Nat
                BY <1>0 DEF TypeOK
            <4>3. check' \in [Packets -> BOOLEAN]
                BY <4>1, ZenonT(30)
            <4>4. runs' \in [Packets -> Nat] /\ reports' \in [Packets -> Nat]
                BY <4>1, <4>2
            <4>5. QED
                BY <4>3, <4>4
        <3>3. QED
            BY <3>1, <3>2
    <2>3. /\ mail' = mail /\ reminded' = reminded /\ stopAfter' = stopAfter
          /\ returns' = returns /\ sender' = sender /\ extras' = extras /\ resumed' = TRUE
          /\ other' = other
        BY <1>4 DEF Tick
    <2>4. QED
        BY <1>0, <1>1, <2>1, <2>2, <2>3 DEF TypeOK
<1>5. ASSUME NEW p \in Packets, NEW ask \in BOOLEAN, NEW fails, Delegate(p, ask, fails)
      PROVE  TypeOK'
    <2>1. Releasing
        BY <1>5, DelegateOrderly DEF Delegate, Releasing
    <2>2. QED
        BY <1>0, <1>1, <1>5, <2>1 DEF Delegate, resultVars, TypeOK
<1>6. ASSUME NEW p \in Packets, NEW fails, ReleaseHandoff(p, fails)
      PROVE  TypeOK'
    <2>1. Releasing
        BY <1>6, ReleaseHandoffOrderly DEF ReleaseHandoff, Releasing
    <2>2. QED
        BY <1>0, <1>1, <1>6, <2>1 DEF ReleaseHandoff, resultVars, TypeOK
<1>7. ASSUME NEW p \in Packets, Reject(p)
      PROVE  TypeOK'
    <2>1. Releasing
        BY <1>7, RejectOrderly DEF Reject, Releasing
    <2>2. QED
        BY <1>0, <1>1, <1>7, <2>1 DEF Reject, resultVars, TypeOK
<1>8. ASSUME NEW p \in Packets, Delete(p)
      PROVE  TypeOK'
    <2>1. Releasing
        BY <1>8, DeleteOrderly DEF Delete, Releasing
    <2>2. extras' \in Nat
        BY <1>0, <1>8 DEF Delete, Extra, TypeOK
    <2>3. UNCHANGED <<model, mail, reminded, stopAfter, resultVars, sender, other,
                     resumed>>
        BY <1>8 DEF Delete
    <2>4. QED
        BY <1>0, <1>1, <2>1, <2>2, <2>3, ZenonT(30) DEF resultVars, TypeOK
<1>9. ASSUME NEW p \in Packets, Leave(p)
      PROVE  TypeOK'
    <2>1. stage[p] \in {"none", "cleared", "holding", "inflight", "needsyou", "landed"}
        BY <1>0 DEF TypeOK
    <2>2. QED
        BY <1>0, <1>9, <2>1, GoOfflineFields DEF Leave, resultVars, TypeOK
<1>10. ASSUME NEW p \in Packets, NEW human \in BOOLEAN, Talk(p, human)
       PROVE  TypeOK'
    BY <1>0, <1>10 DEF Talk, Extra, packetVars, resultVars, TypeOK, MaxReminders
<1>11. ASSUME NEW p \in Packets, Checked(p)
       PROVE  TypeOK'
    <2>1. /\ UNCHANGED <<model, state, stage, asked, queue>>
          /\ UNCHANGED <<helper, mail, reminded, stopAfter>>
          /\ UNCHANGED <<returns, sender, other, resumed, extras>>
        BY <1>11 DEF Checked, packetVars, helperVars
    <2>2. runs' \in [Packets -> Nat] /\ check' \in [Packets -> BOOLEAN]
        BY <1>0, <1>11 DEF Checked, TypeOK
    <2>3. reports' \in [Packets -> Nat]
        <3>1. reports \in [Packets -> Nat]
            BY <1>0 DEF TypeOK
        <3>2. reports' = reports \/ reports' = [reports EXCEPT ![p] = @ + 1]
            BY <1>11 DEF Checked, Report
        <3>3. QED
            BY <3>1, <3>2
    <2>4. QED
        BY <1>0, <2>1, <2>2, <2>3 DEF TypeOK
<1>12. ASSUME NEW p \in Packets, NEW commands, NEW auto, Return(p, commands, auto)
       PROVE  TypeOK'
    <2>1. /\ check' \in [Packets -> BOOLEAN] /\ runs' \in [Packets -> Nat]
          /\ reports' \in [Packets -> Nat]
        <3>1. \/ Report(p) /\ UNCHANGED <<check, runs>>
              \/ /\ check' = [check EXCEPT ![p] = TRUE]
                 /\ runs' = [runs EXCEPT ![p] = @ + 1] /\ reports' = reports
            BY <1>12 DEF Return, ReturnLocal
        <3>2. CASE Report(p) /\ UNCHANGED <<check, runs>>
            BY <1>0, <3>2 DEF Report, TypeOK
        <3>3. CASE /\ check' = [check EXCEPT ![p] = TRUE]
                   /\ runs' = [runs EXCEPT ![p] = @ + 1] /\ reports' = reports
            <4>1. check' \in [Packets -> BOOLEAN]
                BY <1>0, <3>3 DEF TypeOK
            <4>2. runs' \in [Packets -> Nat] /\ reports' \in [Packets -> Nat]
                BY <1>0, <3>3 DEF TypeOK
            <4>3. QED
                BY <4>1, <4>2
        <3>4. QED
            BY <3>1, <3>2, <3>3
    <2>2. returns' \in [Packets -> Nat] /\ extras' \in Nat
        BY <1>0, <1>12 DEF Return, Extra, TypeOK
    <2>3. /\ reminded' \in [Packets -> 0..MaxReminders]
          /\ state' \in [Packets -> {"none", "draft", "accepted", "returned", "gone"}]
          /\ stage' \in [Packets -> {"none", "cleared", "holding", "inflight",
                                     "needsyou", "landed"}]
          /\ stopAfter' \in [Packets -> BOOLEAN]
        BY <1>0, <1>12 DEF Return, TypeOK, MaxReminders
    <2>4. UNCHANGED <<model, asked, queue, helper, mail, sender, other, resumed>>
        BY <1>12 DEF Return
    <2>5. QED
        BY <1>0, <2>1, <2>2, <2>3, <2>4 DEF TypeOK
<1>13. ASSUME NEW p \in Packets, NEW counts, TurnEnd(p, counts)
       PROVE  TypeOK'
    <2>1. /\ helper' \in [Packets -> {"none", "working", "holding", "offline"}]
          /\ stage' \in [Packets -> {"none", "cleared", "holding", "inflight",
                                     "needsyou", "landed"}]
          /\ mail' \in [Packets -> BOOLEAN]
          /\ reminded' \in [Packets -> 0..MaxReminders]
          /\ stopAfter' \in [Packets -> BOOLEAN]
        <3>1. CASE \E s \in {"none", "cleared", "holding", "inflight", "needsyou", "landed"} :
                      GoOffline(p, s)
            BY <1>0, <1>13, <3>1, GoOfflineFields DEF TurnEnd, TypeOK
        <3>2. CASE ~ \E s \in {"none", "cleared", "holding", "inflight", "needsyou",
                               "landed"} : GoOffline(p, s)
            <4>1. stage' = stage /\ stopAfter' = stopAfter
                BY <1>0, <1>13, <3>2 DEF TurnEnd, Remind, TypeOK
            <4>2. helper' \in [Packets -> {"none", "working", "holding", "offline"}]
                <5>1. helper' = helper \/ helper' = [helper EXCEPT ![p] = "holding"]
                    BY <1>0, <1>13, <3>2 DEF TurnEnd, Remind, TypeOK
                <5>2. helper \in [Packets -> {"none", "working", "holding", "offline"}]
                    BY <1>0 DEF TypeOK
                <5>3. QED
                    BY <5>1, <5>2
            <4>3. mail' \in [Packets -> BOOLEAN]
                <5>1. mail' = mail \/ mail' = [mail EXCEPT ![p] = FALSE]
                    BY <1>0, <1>13, <3>2 DEF TurnEnd, Remind, TypeOK
                <5>2. mail \in [Packets -> BOOLEAN]
                    BY <1>0 DEF TypeOK
                <5>3. QED
                    BY <5>1, <5>2
            <4>4. reminded' \in [Packets -> 0..MaxReminders]
                <5>1. reminded \in [Packets -> 0..MaxReminders]
                    BY <1>0 DEF TypeOK
                <5>2. \/ reminded' = reminded
                      \/ /\ reminded[p] < MaxReminders
                         /\ reminded' = [reminded EXCEPT ![p] = @ + 1]
                    BY <1>0, <1>13, <3>2 DEF TurnEnd, Remind, TypeOK
                <5>3. QED
                    BY <5>1, <5>2 DEF MaxReminders
            <4>5. QED
                BY <1>0, <4>1, <4>2, <4>3, <4>4 DEF TypeOK
        <3>3. QED
            BY <3>1, <3>2
    <2>2. QED
        BY <1>0, <1>13, <2>1 DEF TurnEnd, resultVars, TypeOK
<1>14. ASSUME NEW o \in Others, OtherWorks(o) \/ \E left \in BOOLEAN : OtherRests(o, left)
       PROVE  TypeOK'
    <2>1. /\ UNCHANGED <<model, state, stage, asked, queue>>
          /\ UNCHANGED <<helper, mail, reminded, stopAfter>>
          /\ UNCHANGED <<check, runs, returns, reports>>
          /\ sender' = sender /\ resumed' = resumed
          /\ extras' = extras + 1 \/ extras' = extras
        BY <1>14 DEF OtherWorks, OtherRests, Extra, packetVars, helperVars, resultVars
    <2>2. other' \in [Others -> {"none", "working", "holding"}]
        <3>1. other \in [Others -> {"none", "working", "holding"}]
            BY <1>0 DEF TypeOK
        <3>2. \E s \in {"none", "working", "holding"} : other' = [other EXCEPT ![o] = s]
            BY <1>14 DEF OtherWorks, OtherRests
        <3>3. QED
            BY <3>1, <3>2
    <2>3. extras' \in Nat
        <3>1. extras \in Nat
            BY <1>0 DEF TypeOK
        <3>2. QED
            BY <2>1, <3>1
    <2>4. QED
        BY <1>0, <2>1, <2>2, <2>3 DEF TypeOK
<1>15. QED
    BY <1>2, <1>3, <1>4, <1>5, <1>6, <1>7, <1>8, <1>9, <1>10, <1>11, <1>12, <1>13, <1>14
    DEF Next, Ticks

\* After a release the packets are what it made of them.
LEMMA BecomesWorld ==
    ASSUME NEW v \in Worlds, Become(v), model' = model, other' = other
    PROVE  /\ World' = v /\ state' = v.state /\ stage' = v.stage /\ asked' = v.asked
           /\ queue' = v.queue /\ helper' = v.helper
           /\ \A m : Load(World, m)' = Load(v, m)
<1>1. /\ state' = v.state /\ stage' = v.stage /\ asked' = v.asked
      /\ queue' = v.queue /\ helper' = v.helper
    BY DEF Become
<1>2. World' = [state |-> state', stage |-> stage', asked |-> asked', queue |-> queue',
                helper |-> helper']
    BY DEF World
<1>3. World' = v
    BY <1>1, <1>2 DEF Worlds
<1>4. ASSUME NEW m
      PROVE  Load(World, m)' = Load(v, m)
    <2>1. Load(World, m)' = Cardinality({p \in Packets : model'[p] = m
                                             /\ helper'[p] = "working"
                                             /\ stage'[p] # "landed"})
                       + Cardinality({o \in Others : OtherModel[o] = m
                                                     /\ other'[o] = "working"})
        BY DEF Load, World
    <2>2. QED
        BY <1>1, <2>1 DEF Load
<1>5. QED
    BY <1>1, <1>3, <1>4

\* Helpers that move leave the packets as the invariant wants them.
LEMMA HelpersMoveSound ==
    ASSUME HandoffInv, TypeOK', HelpersMove
    PROVE  Sound(World)' /\ \A p \in Packets : Told(World, p)'
<1>1. Sound(World) /\ \A p \in Packets : Told(World, p)
    BY DEF HandoffInv
<1>2. World' = [state |-> state', stage |-> stage', asked |-> asked', queue |-> queue',
                helper |-> helper']
    BY DEF World
<1>3. World' \in Worlds
    BY <1>2 DEF TypeOK, Worlds
<1>4. ASSUME NEW p \in Packets
      PROVE  /\ state[p] = "draft" => helper[p] = "none"
             /\ state[p] = "none" => helper[p] = "none"
             /\ asked[p] => state[p] = "draft"
    BY <1>1, WorldFields DEF Sound
<1>5. IsFiniteSet({p \in Packets : state'[p] # "none"})
    <2>1. IsFiniteSet({p \in Packets : state[p] # "none"})
        BY <1>1, WorldFields DEF Sound
    <2>2. {p \in Packets : state'[p] # "none"} \subseteq {p \in Packets : state[p] # "none"}
        BY <1>4 DEF HelpersMove
    <2>3. QED
        BY <2>1, <2>2, FS_Subset
<1>6. IsInjective(queue')
    BY <1>1, WorldFields DEF Sound, HelpersMove
<1>7. ASSUME NEW p \in Packets
      PROVE  /\ state'[p] \in {"none", "draft"} => helper'[p] = "none"
             /\ asked'[p] => state'[p] = "draft"
    BY <1>4 DEF HelpersMove
<1>8. ASSUME NEW p \in Packets, state'[p] = "draft"
      PROVE  asked'[p] \/ p \in Range(queue') \/ stage'[p] = "needsyou"
    <2>1. state[p] = "draft" /\ stage'[p] = stage[p]
        BY <1>4, <1>8 DEF HelpersMove
    <2>2. asked[p] \/ p \in Range(queue) \/ stage[p] = "needsyou"
        BY <1>1, <2>1, WorldFields DEF Told
    <2>3. QED
        BY <2>1, <2>2 DEF HelpersMove
<1>9. QED
    BY <1>2, <1>3, <1>5, <1>6, <1>7, <1>8 DEF Sound, Told

\* The invariant holds at the start and is kept by every step.
LEMMA InvInit ==
    Init => HandoffInv
<1> SUFFICES ASSUME Init PROVE HandoffInv
    OBVIOUS
<1>1. <<>> \in Seq(Packets) /\ IsInjective(<<>>)
    BY EmptySeq DEF IsInjective
<1>2. TypeOK
    <2>1. /\ model \in [Packets -> Models] /\ queue = <<>> /\ extras = 0
          /\ sender = TRUE /\ resumed = FALSE
        BY DEF Init
    <2>2. /\ state = [p \in Packets |-> "none"] /\ stage = [p \in Packets |-> "none"]
          /\ helper = [p \in Packets |-> "none"]
        BY DEF Init
    <2>3. /\ asked = [p \in Packets |-> FALSE] /\ mail = [p \in Packets |-> FALSE]
          /\ stopAfter = [p \in Packets |-> FALSE] /\ check = [p \in Packets |-> FALSE]
        BY DEF Init
    <2>4. /\ reminded = [p \in Packets |-> 0] /\ runs = [p \in Packets |-> 0]
          /\ returns = [p \in Packets |-> 0] /\ reports = [p \in Packets |-> 0]
        BY DEF Init
    <2>5. /\ asked \in [Packets -> BOOLEAN] /\ mail \in [Packets -> BOOLEAN]
          /\ stopAfter \in [Packets -> BOOLEAN] /\ check \in [Packets -> BOOLEAN]
        BY <2>3
    <2>6. /\ reminded \in [Packets -> 0..MaxReminders] /\ runs \in [Packets -> Nat]
          /\ returns \in [Packets -> Nat] /\ reports \in [Packets -> Nat]
          /\ extras \in Nat
        BY <2>1, <2>4 DEF MaxReminders
    <2>7. /\ state \in [Packets -> {"none", "draft", "accepted", "returned", "gone"}]
          /\ stage \in [Packets -> {"none", "cleared", "holding", "inflight", "needsyou",
                                    "landed"}]
          /\ helper \in [Packets -> {"none", "working", "holding", "offline"}]
        BY <2>2
    <2>8. other \in [Others -> {"none", "working", "holding"}]
        BY DEF Init
    <2>9. QED
        BY <1>1, <2>1, <2>5, <2>6, <2>7, <2>8 DEF TypeOK
<1>3. World \in Worlds
    BY <1>2 DEF World, Worlds, TypeOK
<1>4. \A p \in Packets : state[p] = "none" /\ helper[p] = "none" /\ ~asked[p]
    BY DEF Init
<1>5. {p \in Packets : state[p] # "none"} = {}
    BY <1>4
<1>6. Sound(World)
    BY <1>1, <1>3, <1>4, <1>5, WorldFields, FS_EmptySet DEF Sound, Init
<1>7. \A p \in Packets : Told(World, p)
    BY <1>4, WorldFields DEF Told
<1>8. QED
    BY <1>2, <1>6, <1>7 DEF HandoffInv

\* Every step keeps the invariant: a release by Orderly, the rest by what it leaves
\* alone.
LEMMA InvStep ==
    HandoffInv /\ [Next]_vars => HandoffInv'
<1> SUFFICES ASSUME HandoffInv, [Next]_vars PROVE HandoffInv'
    OBVIOUS
<1>1. CASE Next
    <2>1. TypeOK'
        BY <1>1, TypeStep
    <2>2. CASE Releasing
        <3>1. PICK v : Become(v) /\ Orderly(World, v)
            BY <2>2 DEF Releasing
        <3>2. v \in Worlds /\ Sound(v) /\ \A p \in Packets : Told(v, p)
            BY <3>1 DEF Orderly, Sound
        <3>3. World' = v
            BY <2>2, <3>1, <3>2, BecomesWorld DEF Releasing
        <3>4. Sound(World)' /\ \A p \in Packets : Told(World, p)'
            BY <3>2, <3>3 DEF Sound, Told
        <3>5. QED
            BY <2>1, <3>4 DEF HandoffInv
    <2>3. CASE HelpersMove
        BY <2>1, <2>3, HelpersMoveSound DEF HandoffInv
    <2>4. QED
        BY <1>1, <2>2, <2>3, TwoKindsOfSteps
<1>2. CASE UNCHANGED vars
    BY <1>2 DEF vars, packetVars, helperVars, resultVars, HandoffInv, TypeOK, Sound, Told,
                World
<1>3. QED
    BY <1>1, <1>2

-----------------------------------------------------------------------------
(* The theorems. *)

\* The inductive invariant holds in every reachable state.
THEOREM InvTheorem == Spec => []HandoffInv
<1>1. Init => HandoffInv
    BY InvInit
<1>2. HandoffInv /\ [Next]_vars => HandoffInv'
    BY InvStep
<1>3. QED
    BY <1>1, <1>2, PTL DEF Spec

\* The state of packets and helpers is well formed; in particular nobody is
\* reminded more than MaxReminders times (remind_unreturned).
THEOREM TypeTheorem == Spec => []TypeOK
<1>1. HandoffInv => TypeOK
    BY DEF HandoffInv
<1>2. QED
    BY <1>1, InvTheorem, PTL

\* tower_await says "waiting for the human's clearance" only of packets the Inbox
\* asks about (tool_await).
THEOREM WaitingIsAskedTheorem == Spec => []WaitingIsAsked
<1>1. ASSUME HandoffInv
      PROVE  WaitingIsAsked
    <2>1. SUFFICES ASSUME NEW p \in Packets, Await(p) = "waiting"
                   PROVE  asked[p]
        BY DEF WaitingIsAsked
    <2>2. queue \in Seq(Packets)
        BY <1>1 DEF HandoffInv, TypeOK
    <2>3. state[p] = "draft" /\ ~Queued(p) /\ stage[p] # "needsyou"
        BY <2>1 DEF Await
    <2>4. p \notin Range(queue)
        BY <2>2, <2>3, ContainsIsRange DEF Queued
    <2>5. QED
        BY <1>1, <2>3, <2>4, WorldFields DEF HandoffInv, Told
<1>2. QED
    BY <1>1, InvTheorem, PTL

\* No model is put above its max_concurrency by a release or by the drain of the
\* line: only a message to a helper that sits idle and a turn of an agent on
\* another flight can do that (model_load, release, drain_local_queue).
THEOREM NotOverbookedTheorem == Spec => NotOverbooked
<1>1. ASSUME HandoffInv, HandoffInv', [Next]_vars, NEW m \in Models
      PROVE  Load(World, m)' > Capacity[m] =>
                 \/ Load(World, m)' <= Load(World, m)
                 \/ \E p \in Packets, human \in BOOLEAN : Talk(p, human)
                 \/ \E o \in Others : OtherWorks(o)
    <2>1. Sound(World) /\ Load(World, m) \in Nat /\ Capacity[m] \in Nat
        BY <1>1, LoadIsNumber, HandoffAssumption DEF HandoffInv
    <2>2. CASE Releasing
        <3>1. PICK v : Become(v) /\ Orderly(World, v)
            BY <2>2 DEF Releasing
        <3>2. v \in Worlds /\ Sound(v)
            BY <3>1 DEF Orderly, Sound
        <3>3. Load(World, m)' = Load(v, m) /\ Load(v, m) \in Nat
            BY <2>2, <3>1, <3>2, BecomesWorld, LoadIsNumber DEF Releasing
        <3>4. Load(v, m) <= Capacity[m] \/ Load(v, m) <= Load(World, m)
            BY <3>1 DEF Orderly
        <3>5. QED
            BY <2>1, <3>3, <3>4
    <2>3. CASE HelpersMove
        <3>1. CASE \/ \E p \in Packets, human \in BOOLEAN : Talk(p, human)
                   \/ \E o \in Others : OtherWorks(o)
            BY <3>1
        <3>2. CASE ~ \/ \E p \in Packets, human \in BOOLEAN : Talk(p, human)
                     \/ \E o \in Others : OtherWorks(o)
            <4>1. /\ model' = model /\ OthersRest
                  /\ \A q \in Packets :
                       helper'[q] = "working" /\ stage'[q] # "landed" =>
                           helper[q] = "working" /\ stage[q] # "landed"
                BY <2>3, <3>2 DEF HelpersMove
            <4> DEFINE after == {q \in Packets : model[q] = m /\ helper'[q] = "working"
                                                 /\ stage'[q] # "landed"}
                       turns == {o \in Others : OtherModel[o] = m /\ other'[o] = "working"}
            <4>2. Load(World, m)' = Cardinality(after) + Cardinality(turns)
                BY <4>1 DEF Load, World
            <4>3. after \subseteq AtWork(World, m)
                BY <4>1, WorldFields DEF AtWork
            <4>4. turns \subseteq OthersOn(m)
                BY <4>1 DEF OthersRest, OthersOn
            <4> HIDE DEF after, turns
            <4>5. IsFiniteSet(AtWork(World, m)) /\ IsFiniteSet(OthersOn(m))
                <5>1. OthersOn(m) \subseteq Others
                    BY DEF OthersOn
                <5>2. QED
                    BY <2>1, <5>1, LoadIsNumber, FS_Subset, HandoffAssumption
            <4>6. /\ Cardinality(after) <= Cardinality(AtWork(World, m))
                  /\ Cardinality(after) \in Nat
                BY <4>3, <4>5, FS_Subset, FS_CardinalityType
            <4>7. /\ Cardinality(turns) <= Cardinality(OthersOn(m))
                  /\ Cardinality(turns) \in Nat
                BY <4>4, <4>5, FS_Subset, FS_CardinalityType
            <4>8. /\ Load(World, m) = Cardinality(AtWork(World, m)) + Cardinality(OthersOn(m))
                  /\ Cardinality(AtWork(World, m)) \in Nat
                  /\ Cardinality(OthersOn(m)) \in Nat
                BY <2>1, LoadIsNumber
            <4>9. QED
                BY <4>2, <4>6, <4>7, <4>8
        <3>3. QED
            BY <3>1, <3>2
    <2>4. CASE UNCHANGED vars
        <3>1. Load(World, m)' = Load(World, m)
            BY <2>4 DEF vars, packetVars, helperVars, Load, World
        <3>2. QED
            BY <2>1, <3>1
    <2>5. QED
        BY <1>1, <2>2, <2>3, <2>4, TwoKindsOfSteps
<1>2. HandoffInv /\ HandoffInv' /\ [Next]_vars =>
        [\A m \in Models :
            Load(World, m)' > Capacity[m] =>
                \/ Load(World, m)' <= Load(World, m)
                \/ \E p \in Packets, human \in BOOLEAN : Talk(p, human)
                \/ \E o \in Others : OtherWorks(o)]_vars
    BY <1>1
<1>3. QED
    BY <1>2, InvTheorem, PTL DEF Spec, NotOverbooked

\* Tower starts no packet while an older one for the same model stays in line
\* (queued_ahead, drain_local_queue).
THEOREM OldestFirstTheorem == Spec => OldestFirst
<1>1. ASSUME HandoffInv, HandoffInv', [Next]_vars, NEW p \in Packets, NEW q \in Packets,
             helper[p] = "none", helper'[p] = "working",
             Queued(q), Queued(q)', model[q] = model[p], state'[q] = "draft"
      PROVE  Pos(queue, p) < Pos(queue, q)
    <2>1. CASE Releasing
        <3>1. PICK v : Become(v) /\ Orderly(World, v)
            BY <2>1 DEF Releasing
        <3>2. v \in Worlds
            BY <3>1 DEF Orderly, Sound
        <3>3. v.helper[p] = "working" /\ v.state[q] = "draft" /\ queue' = v.queue
            BY <1>1, <2>1, <3>1, <3>2, BecomesWorld DEF Releasing
        <3>4. q \in Range(queue)
            BY <1>1, ContainsIsRange DEF Queued, HandoffInv, TypeOK
        <3>5. q \in Range(v.queue)
            BY <1>1, <3>2, <3>3, ContainsIsRange DEF Queued, Worlds
        <3>6. QED
            BY <1>1, <3>1, <3>3, <3>4, <3>5, WorldFields DEF Orderly
    <2>2. CASE HelpersMove
        BY <1>1, <2>2 DEF HelpersMove
    <2>3. CASE UNCHANGED vars
        BY <1>1, <2>3 DEF vars, helperVars
    <2>4. QED
        BY <1>1, <2>1, <2>2, <2>3, TwoKindsOfSteps
<1>2. HandoffInv /\ HandoffInv' /\ [Next]_vars =>
        [\A p, q \in Packets :
            /\ helper[p] = "none" /\ helper'[p] = "working"
            /\ Queued(q) /\ Queued(q)' /\ model[q] = model[p] /\ state'[q] = "draft"
            => Pos(queue, p) < Pos(queue, q)]_vars
    BY <1>1
<1>3. QED
    BY <1>2, InvTheorem, PTL DEF Spec, OldestFirst

\* What is owed to the sender of one packet.
Owed(p) ==
    LET held == IF check[p] THEN 1 ELSE 0 IN
    /\ reports[p] + held <= returns[p]
    /\ state[p] = "returned" => reports[p] + held > 0
    /\ check[p] /\ resumed => runs[p] > 0

\* A result is passed on at most once for each tower_return and never lost
\* (tool_return, on_local_checked, resume_local_checks).
LEMMA ReportedOnceStep ==
    ASSUME HandoffInv, ReportedOnce, [Next]_vars
    PROVE  ReportedOnce'
<1>0. TypeOK
    BY DEF HandoffInv
<1>1. ASSUME NEW p \in Packets
      PROVE  runs[p] \in Nat /\ returns[p] \in Nat /\ reports[p] \in Nat
             /\ check[p] \in BOOLEAN
    BY <1>0 DEF TypeOK
<1>2. ASSUME NEW p \in Packets
      PROVE  Owed(p)
    BY DEF ReportedOnce, Owed
<1>3. SUFFICES ASSUME NEW p \in Packets
               PROVE  Owed(p)'
    BY DEF ReportedOnce, Owed
\* What leaves the results alone and brings no packet back.
<1>4. ASSUME check'[p] = check[p], runs'[p] = runs[p], returns'[p] = returns[p],
             reports'[p] = reports[p], resumed' => resumed,
             state'[p] = "returned" => state[p] = "returned"
      PROVE  Owed(p)'
    BY <1>2, <1>4 DEF Owed
<1>5. ASSUME Releasing
      PROVE  state'[p] = "returned" => state[p] = "returned"
    <2>1. PICK v : Become(v) /\ Orderly(World, v)
        BY <1>5 DEF Releasing
    <2>2. QED
        BY <2>1, WorldFields DEF Become, Orderly
<1>6. ASSUME SenderLeaves
      PROVE  Owed(p)'
    BY <1>4, <1>6 DEF SenderLeaves, packetVars, resultVars
<1>7. ASSUME Restart
      PROVE  Owed(p)'
    <2>1. /\ check' = check /\ returns' = returns /\ reports' = reports /\ ~resumed'
          /\ state' = state
        BY <1>7 DEF Restart, packetVars
    <2>2. QED
        BY <1>2, <2>1 DEF Owed
<1>8. ASSUME NEW fails, NEW commands \in BOOLEAN, Tick(fails, commands)
      PROVE  Owed(p)'
    <2>1. state'[p] = "returned" => state[p] = "returned"
        BY <1>5, <1>8, TickOrderly DEF Tick, Releasing
    <2>2. returns' = returns /\ resumed' = TRUE
        BY <1>8 DEF Tick
    <2>3. CASE resumed
        <3>1. check' = check /\ runs' = runs /\ reports' = reports
            BY <1>8, <2>3 DEF Tick, Resume
        <3>2. QED
            BY <1>4, <2>1, <2>2, <2>3, <3>1
    <2>4. CASE ~resumed
        <3> DEFINE held == check[p] /\ state[p] # "gone"
        <3>1. /\ check'[p] <=> held /\ commands
              /\ runs'[p] = runs[p] + IF held /\ commands THEN 1 ELSE 0
              /\ reports'[p] = reports[p] + IF held /\ ~commands THEN 1 ELSE 0
            BY <1>8, <2>4 DEF Tick, Resume
        <3>2. CASE held /\ commands
            BY <1>1, <1>2, <2>1, <2>2, <3>1, <3>2 DEF Owed
        <3>3. CASE held /\ ~commands
            BY <1>1, <1>2, <2>1, <2>2, <3>1, <3>3 DEF Owed
        <3>4. CASE ~held
            <4>1. ~check'[p] /\ runs'[p] = runs[p] /\ reports'[p] = reports[p]
                BY <1>1, <3>1, <3>4
            <4>2. QED
                BY <1>1, <1>2, <2>1, <2>2, <3>4, <4>1, SMTT(30) DEF Owed
        <3>5. QED
            BY <3>2, <3>3, <3>4
    <2>5. QED
        BY <2>3, <2>4
<1>9. ASSUME NEW q \in Packets, NEW ask \in BOOLEAN, NEW fails, Delegate(q, ask, fails)
      PROVE  Owed(p)'
    BY <1>4, <1>5, <1>9, DelegateOrderly DEF Delegate, Releasing, resultVars
<1>10. ASSUME NEW q \in Packets, NEW fails, ReleaseHandoff(q, fails)
       PROVE  Owed(p)'
    BY <1>4, <1>5, <1>10, ReleaseHandoffOrderly DEF ReleaseHandoff, Releasing, resultVars
<1>11. ASSUME NEW q \in Packets, Reject(q)
       PROVE  Owed(p)'
    BY <1>4, <1>5, <1>11, RejectOrderly DEF Reject, Releasing, resultVars
<1>12. ASSUME NEW q \in Packets, Delete(q)
       PROVE  Owed(p)'
    BY <1>4, <1>5, <1>12, DeleteOrderly DEF Delete, Releasing, resultVars
<1>13. ASSUME NEW q \in Packets, Leave(q)
       PROVE  Owed(p)'
    BY <1>4, <1>13 DEF Leave, resultVars
<1>14. ASSUME NEW q \in Packets, NEW human, Talk(q, human)
       PROVE  Owed(p)'
    BY <1>4, <1>14 DEF Talk, packetVars, resultVars
<1>15. ASSUME NEW q \in Packets, Checked(q)
       PROVE  Owed(p)'
    <2>1. /\ runs[q] > 0 /\ runs' = [runs EXCEPT ![q] = @ - 1]
          /\ check' = [check EXCEPT ![q] = FALSE]
          /\ reports' = IF check[q] THEN [reports EXCEPT ![q] = @ + 1] ELSE reports
          /\ state' = state /\ returns' = returns /\ resumed' = resumed
        BY <1>15 DEF Checked, Report, packetVars
    <2>2. CASE p # q
        BY <1>0, <1>4, <2>1, <2>2 DEF TypeOK
    <2>3. CASE p = q
        <3>1. /\ ~check'[p]
              /\ reports'[p] = IF check[p] THEN reports[p] + 1 ELSE reports[p]
            BY <1>0, <2>1, <2>3 DEF TypeOK
        <3>2. QED
            BY <1>1, <1>2, <2>1, <3>1 DEF Owed
    <2>4. QED
        BY <2>2, <2>3
<1>16. ASSUME NEW q \in Packets, NEW commands, NEW auto, Return(q, commands, auto)
       PROVE  Owed(p)'
    <2>1. /\ returns' = [returns EXCEPT ![q] = @ + 1]
          /\ state' = [state EXCEPT ![q] = "returned"] /\ resumed' = resumed
        BY <1>16 DEF Return
    <2>2. \/ /\ reports' = [reports EXCEPT ![q] = @ + 1] /\ check' = check /\ runs' = runs
          \/ /\ check' = [check EXCEPT ![q] = TRUE]
             /\ runs' = [runs EXCEPT ![q] = @ + 1] /\ reports' = reports
        BY <1>16 DEF Return, ReturnLocal, Report
    <2>3. CASE p # q
        BY <1>0, <1>4, <2>1, <2>2, <2>3 DEF TypeOK
    <2>4. CASE p = q
        <3>1. returns'[p] = returns[p] + 1 /\ state'[p] = "returned"
            BY <1>0, <2>1, <2>4 DEF TypeOK
        <3>2. CASE reports' = [reports EXCEPT ![q] = @ + 1] /\ check' = check /\ runs' = runs
            <4>1. reports'[p] = reports[p] + 1
                BY <1>0, <2>4, <3>2 DEF TypeOK
            <4>2. QED
                BY <1>1, <1>2, <2>1, <3>1, <3>2, <4>1 DEF Owed
        <3>3. CASE /\ check' = [check EXCEPT ![q] = TRUE]
                   /\ runs' = [runs EXCEPT ![q] = @ + 1] /\ reports' = reports
            <4>1. check'[p] = TRUE /\ runs'[p] = runs[p] + 1
                BY <1>0, <2>4, <3>3 DEF TypeOK
            <4>2. reports[p] + 0 <= returns[p]
                BY <1>1, <1>2 DEF Owed
            <4>3. QED
                BY <1>1, <2>1, <3>1, <3>3, <4>1, <4>2 DEF Owed
        <3>4. QED
            BY <2>2, <3>2, <3>3
    <2>5. QED
        BY <2>3, <2>4
<1>17. ASSUME NEW q \in Packets, NEW counts, TurnEnd(q, counts)
       PROVE  Owed(p)'
    BY <1>4, <1>17 DEF TurnEnd, resultVars
<1>18. ASSUME NEW o \in Others, OtherWorks(o) \/ \E left \in BOOLEAN : OtherRests(o, left)
       PROVE  Owed(p)'
    BY <1>4, <1>18 DEF OtherWorks, OtherRests, packetVars, resultVars
<1>19. CASE UNCHANGED vars
    BY <1>4, <1>19 DEF vars, packetVars, resultVars
<1>20. QED
    BY <1>6, <1>7, <1>8, <1>9, <1>10, <1>11, <1>12, <1>13, <1>14, <1>15, <1>16, <1>17,
       <1>18, <1>19 DEF Next, Ticks

\* Every result is passed on once and none is lost, through restarts, deleted
\* flights and packets that come back several times.
THEOREM ReportedOnceTheorem == Spec => []ReportedOnce
<1>1. Init => ReportedOnce
    BY DEF Init, ReportedOnce
<1>2. HandoffInv /\ ReportedOnce /\ [Next]_vars => ReportedOnce'
    BY ReportedOnceStep
<1>3. QED
    BY <1>1, <1>2, InvTheorem, PTL DEF Spec

=============================================================================
