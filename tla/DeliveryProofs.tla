--------------------------- MODULE DeliveryProofs ---------------------------
(***************************************************************************)
(* Proofs about Delivery, for every set of agents and every bound.         *)
(*                                                                         *)
(* What was sent to an agent stands in one line: what its program has      *)
(* read, the prompts it has not, what is on its way to the pane, the queue *)
(* of the engine and the updates it holds back.  No message stands in it   *)
(* twice, and, but for Claude panes, briefs and updates, the older one     *)
(* stands in front (InLine).  A step empties some of the five, moves their *)
(* messages on from the back of one to the front part of the line, or adds *)
(* a message at an end: six lemmas about lines (LineShrinks to             *)
(* LineLosesHead) cover every action.                                      *)
(*                                                                         *)
(* The line alone is not inductive.  That nothing stands in it twice needs *)
(* that the brief is given by one party only (Opening, Untyped), that a    *)
(* message for an idle agent finds no queue in front of it (Known), and    *)
(* that Claude waits for the answer to the last report it made when it is  *)
(* given what queued up (Waited).  That nothing is lost without a reason   *)
(* needs that an ACP driver that is gone has no program (Silent).          *)
(*                                                                         *)
(* A step is an agent's own (AgentActs), another agent's (Bystander) or    *)
(* changes all of them (GuiDrops, GuiConnects, Restart).                   *)
(***************************************************************************)
EXTENDS Delivery, QueueFacts

-----------------------------------------------------------------------------
(* Types. *)

Statuses == {"none", "starting", "working", "needsyou", "holding", "offline"}
Programs == {"none", "idle", "turn", "tool", "stopping", "asking", "gone"}
Letters  == Agents \X {"spawn", "type", "close"} \X Seq(Nat)
News     == {"opened", "failed", "exited"}
Reports  == {"start", "prompt", "tool", "ask", "idle", "stop", "stopAgain", "stopLate",
             "toolLate", "end", "turnEnd", "perm", "exited", "answer"}

\* What the engine keeps, what is on its way and what the program has are queues.
LEMMA QueueType ==
    ASSUME NEW S, NEW q \in Seq(S)
    PROVE  /\ \A e \in S : Append(q, e) \in Seq(S)
           /\ q # <<>> => Head(q) \in S /\ Tail(q) \in Seq(S)
           /\ \A r \in Seq(S) : q \o r \in Seq(S)
           /\ Front(q) \in Seq(S)
<1>1. Front(q) \in Seq(S)
    BY SubSeqProperties, ElementOfSeq, LenProperties DEF Front
<1>2. QED
    BY <1>1, AppendProperties, HeadTailProperties, ConcatProperties

\* What the helpers of the engine leave has the types of TypeOK: a letter to a pane,
LEMMA ToPaneType ==
    ASSUME TypeOK, NEW a \in Agents, NEW what \in {"spawn", "type", "close"},
           NEW msgs \in Seq(Nat), ToPane(a, what, msgs)
    PROVE  out' \in Seq(Letters)
<1>1. out \in Seq(Letters) /\ <<a, what, msgs>> \in Letters
    BY DEF TypeOK, Letters
<1>2. QED
    BY <1>1, QueueType DEF ToPane

\* send_now,
LEMMA SendNowType ==
    ASSUME TypeOK, NEW a \in Agents, NEW msgs \in Seq(Nat), SendNow(a, msgs)
    PROVE  /\ status' \in [Agents -> Statuses] /\ out' \in Seq(Letters)
           /\ pending' \in [Agents -> Seq(Seq(Nat))]
<1>1. /\ status \in [Agents -> Statuses] /\ out \in Seq(Letters)
      /\ pending \in [Agents -> Seq(Seq(Nat))]
    BY DEF TypeOK, Letters, Statuses
<1>2. status' \in [Agents -> Statuses]
    BY <1>1 DEF SendNow, Statuses
<1>3. CASE kind[a] \in PaneKinds
    <2>1. ToPane(a, "type", msgs) /\ pending' = pending
        BY <1>3 DEF SendNow
    <2>2. QED
        BY <1>1, <1>2, <2>1, ToPaneType
<1>4. CASE kind[a] \notin PaneKinds
    <2>1. pending' = [pending EXCEPT ![a] = Append(@, msgs)] /\ out' = out
        BY <1>4 DEF SendNow
    <2>2. Append(pending[a], msgs) \in Seq(Seq(Nat))
        BY <1>1, QueueType
    <2>3. QED
        BY <1>1, <1>2, <2>1, <2>2
<1>5. QED
    BY <1>3, <1>4

\* an agent that goes offline,
LEMMA OfflineType ==
    ASSUME TypeOK, NEW a \in Agents, Offline(a)
    PROVE  /\ status' \in [Agents -> Statuses] /\ queue' \in [Agents -> Seq(Nat)]
           /\ token' \in [Agents -> BOOLEAN] /\ perm' \in [Agents -> BOOLEAN]
<1>1. /\ status \in [Agents -> Statuses] /\ queue \in [Agents -> Seq(Nat)]
      /\ token \in [Agents -> BOOLEAN] /\ perm \in [Agents -> BOOLEAN]
    BY DEF TypeOK, Statuses
<1>2. <<>> \in Seq(Nat)
    BY EmptySeq
<1>3. CASE Live(a)
    BY <1>1, <1>2, <1>3 DEF Offline, Statuses
<1>4. CASE ~Live(a)
    BY <1>1, <1>4 DEF Offline
<1>5. QED
    BY <1>3, <1>4

\* that is stopped,
LEMMA StopType ==
    ASSUME TypeOK, NEW a \in Agents, Stop(a)
    PROVE  /\ status' \in [Agents -> Statuses] /\ queue' \in [Agents -> Seq(Nat)]
           /\ token' \in [Agents -> BOOLEAN] /\ perm' \in [Agents -> BOOLEAN]
           /\ handle' \in [Agents -> BOOLEAN] /\ out' \in Seq(Letters)
<1>1. out' \in Seq(Letters)
    BY ToPaneType, EmptySeq DEF Stop, TypeOK, Letters
<1>2. handle' \in [Agents -> BOOLEAN]
    BY DEF Stop, TypeOK
<1>3. QED
    BY <1>1, <1>2, OfflineType DEF Stop

\* that is handed what queued up,
LEMMA HandOverType ==
    ASSUME TypeOK, NEW a \in Agents, HandOver(a)
    PROVE  /\ status' \in [Agents -> Statuses] /\ queue' \in [Agents -> Seq(Nat)]
           /\ fyi' \in [Agents -> Seq(Nat)] /\ out' \in Seq(Letters)
           /\ pending' \in [Agents -> Seq(Seq(Nat))]
<1>1. queue[a] \in Seq(Nat) /\ fyi[a] \in Seq(Nat) /\ <<>> \in Seq(Nat)
    BY EmptySeq DEF TypeOK
<1>2. queue[a] \o fyi[a] \in Seq(Nat)
    BY <1>1, QueueType
<1>3. queue' \in [Agents -> Seq(Nat)] /\ fyi' \in [Agents -> Seq(Nat)]
    BY <1>1 DEF HandOver, TypeOK
<1>4. CASE SendNow(a, queue[a] \o fyi[a])
    BY <1>2, <1>3, <1>4, SendNowType
<1>5. CASE /\ status' = [status EXCEPT ![a] = "holding"]
           /\ UNCHANGED <<out, pending>>
    BY <1>3, <1>5 DEF TypeOK, Letters, Statuses
<1>6. QED
    BY <1>4, <1>5 DEF HandOver

\* that reports the end of a turn,
LEMMA OnIdleType ==
    ASSUME TypeOK, NEW a \in Agents, OnIdle(a)
    PROVE  /\ status' \in [Agents -> Statuses] /\ queue' \in [Agents -> Seq(Nat)]
           /\ fyi' \in [Agents -> Seq(Nat)] /\ stopAfter' \in [Agents -> BOOLEAN]
           /\ handle' \in [Agents -> BOOLEAN] /\ perm' \in [Agents -> BOOLEAN]
           /\ token' \in [Agents -> BOOLEAN] /\ out' \in Seq(Letters)
           /\ pending' \in [Agents -> Seq(Seq(Nat))]
<1>1. CASE ~Live(a)
    BY <1>1 DEF OnIdle, TypeOK, Statuses, Letters
<1>2. CASE Live(a) /\ stopAfter[a]
    <2>1. /\ Stop(a) /\ UNCHANGED <<fyi, pending>>
          /\ stopAfter' = [stopAfter EXCEPT ![a] = FALSE]
        BY <1>2 DEF OnIdle, IdleLive
    <2>2. QED
        BY <2>1, StopType DEF TypeOK
<1>3. CASE Live(a) /\ ~stopAfter[a]
    <2>1. HandOver(a) /\ UNCHANGED <<stopAfter, handle, perm, token>>
        BY <1>3 DEF OnIdle, IdleLive
    <2>2. QED
        BY <2>1, HandOverType DEF TypeOK
<1>4. QED
    BY <1>1, <1>2, <1>3

\* that asks whether it may end it;
LEMMA OnStopType ==
    ASSUME TypeOK, NEW a \in Agents, NEW continuing, NEW heard,
           OnStop(a, continuing, heard)
    PROVE  /\ status' \in [Agents -> Statuses] /\ queue' \in [Agents -> Seq(Nat)]
           /\ fyi' \in [Agents -> Seq(Nat)] /\ stopAfter' \in [Agents -> BOOLEAN]
           /\ handle' \in [Agents -> BOOLEAN] /\ perm' \in [Agents -> BOOLEAN]
           /\ token' \in [Agents -> BOOLEAN] /\ out' \in Seq(Letters)
           /\ pending' \in [Agents -> Seq(Seq(Nat))]
           /\ prog' \in [Agents -> Programs] /\ cont' \in [Agents -> BOOLEAN]
           /\ got' \in [Agents -> Seq(Nat)]
<1>1. CASE AnswerStop(a, heard)
    <2>1. /\ queue[a] \in Seq(Nat) /\ fyi[a] \in Seq(Nat) /\ got[a] \in Seq(Nat)
          /\ <<>> \in Seq(Nat)
        BY EmptySeq DEF TypeOK
    <2>2. got[a] \o queue[a] \o fyi[a] \in Seq(Nat)
        BY <2>1, QueueType
    <2>3. /\ prog' \in [Agents -> Programs] /\ cont' \in [Agents -> BOOLEAN]
          /\ got' \in [Agents -> Seq(Nat)]
        BY <1>1, <2>2, ZenonT(40) DEF AnswerStop, TypeOK, Programs
    <2>4. QED
        BY <1>1, <2>1, <2>3 DEF AnswerStop, TypeOK, Statuses, Letters
<1>2. CASE LetStop(a, heard) /\ OnIdle(a)
    <2>1. /\ prog' \in [Agents -> Programs] /\ cont' \in [Agents -> BOOLEAN]
          /\ got' \in [Agents -> Seq(Nat)]
        BY <1>2 DEF LetStop, TypeOK, Programs
    <2>2. QED
        BY <1>2, <2>1, OnIdleType
<1>3. QED
    BY <1>1, <1>2 DEF OnStop

\* a report of its program, and of the GUI.
LEMMA PostType ==
    ASSUME TypeOK, NEW a \in Agents, NEW events \in Seq(Reports), Post(a, events)
    PROVE  hooks' \in [Agents -> Seq(Reports)]
<1>1. hooks \in [Agents -> Seq(Reports)]
    BY DEF TypeOK, Reports
<1>2. hooks[a] \o events \in Seq(Reports)
    BY <1>1, QueueType
<1>3. QED
    BY <1>1, <1>2 DEF Post

\* The GUI reports on a pane of the agent.
LEMMA TellEngineType ==
    ASSUME TypeOK, NEW a \in Agents, NEW what \in News, TellEngine(a, what)
    PROVE  guiIn' \in [Agents -> Seq(News)]
<1>1. guiIn \in [Agents -> Seq(News)]
    BY DEF TypeOK, News
<1>2. Append(guiIn[a], what) \in Seq(News)
    BY <1>1, QueueType
<1>3. QED
    BY <1>1, <1>2 DEF TellEngine

\* Inputs from people and from the rest of the engine.
LEMMA RequestsType ==
    ASSUME TypeOK, NEW a \in Agents,
           Launch(a) \/ Deliver(a) \/ DeliverFyi(a) \/ StopAgent(a) \/ ToolReturn(a)
           \/ Answer(a) \/ Reload(a)
    PROVE  TypeOK'
<1>1. CASE Launch(a)
    <2>1. token' \in [Agents -> BOOLEAN]
        BY <1>1 DEF Launch, TypeOK
    <2>2. CASE kind[a] \in PaneKinds
        <3>1. out' \in Seq(Letters)
            BY <1>1, <2>2, ToPaneType, EmptySeq DEF Launch
        <3>2. QED
            BY <1>1, <2>1, <2>2, <3>1, ZenonT(40) DEF Launch, TypeOK, Letters, accepted
    <2>3. CASE kind[a] \notin PaneKinds
        <3> DEFINE brief == <<<<Brief>>>>
        <3>1. brief \in Seq(Seq(Nat)) /\ pending' = [pending EXCEPT ![a] = brief]
            BY <1>1, <2>3 DEF Launch, Brief
        <3> HIDE DEF brief
        <3>2. pending' \in [Agents -> Seq(Seq(Nat))]
            BY <3>1 DEF TypeOK
        <3>3. /\ status' \in [Agents -> Statuses] /\ handle' \in [Agents -> BOOLEAN]
              /\ prog' \in [Agents -> Programs]
            BY <1>1, <2>3, ZenonT(40) DEF Launch, TypeOK, Statuses, Programs
        <3>4. UNCHANGED <<kind, role, pane, queue, fyi, spawning, typeBrief, stopAfter,
                          perm, gui, out, guiIn, hooks, cont, got, updates, sent, faults>>
            BY <1>1, <2>3 DEF Launch, accepted
        <3>5. QED
            BY <2>1, <3>2, <3>3, <3>4 DEF TypeOK, Statuses, Programs
    <2>4. QED
        BY <2>2, <2>3
<1>2. CASE Deliver(a)
    <2>1. sent' \in Nat /\ sent' \in 0..MaxMessages
        BY <1>2, BoundsAssumption DEF TypeOK, Deliver
    <2>2. <<sent'>> \in Seq(Nat)
        BY <2>1
    <2>3. CASE SendNow(a, <<sent'>>) /\ queue' = queue
        BY <1>2, <2>1, <2>2, <2>3, SendNowType DEF TypeOK, Deliver, Letters, Statuses
    <2>4. CASE /\ queue' = [queue EXCEPT ![a] = Append(@, sent')]
               /\ UNCHANGED <<status, out, pending>>
        <3>1. queue' \in [Agents -> Seq(Nat)]
            BY <2>1, <2>4, QueueType DEF TypeOK
        <3>2. QED
            BY <1>2, <2>1, <2>4, <3>1 DEF TypeOK, Deliver
    <2>5. QED
        BY <1>2, <2>3, <2>4 DEF Deliver
<1>3. CASE DeliverFyi(a)
    <2>1. sent' \in Nat /\ sent' \in 0..MaxMessages /\ sent' \in Messages
        BY <1>3, BoundsAssumption DEF TypeOK, DeliverFyi, Messages
    <2>2. fyi' \in [Agents -> Seq(Nat)]
        BY <1>3, <2>1, QueueType DEF TypeOK, DeliverFyi
    <2>3. updates' \in SUBSET Messages
        BY <1>3, <2>1 DEF TypeOK, DeliverFyi
    <2>4. QED
        BY <1>3, <2>1, <2>2, <2>3 DEF TypeOK, DeliverFyi, lines, program
<1>4. CASE StopAgent(a)
    BY <1>4, StopType DEF StopAgent, TypeOK, program, accepted, Statuses, Letters
<1>5. CASE ToolReturn(a)
    BY <1>5 DEF ToolReturn, TypeOK, lines, program, accepted
<1>6. CASE Answer(a)
    BY <1>6 DEF Answer, TypeOK, lines, accepted
<1>7. CASE Reload(a)
    <2>1. faults' \in 0..MaxFaults
        BY <1>7, BoundsAssumption DEF Reload, TypeOK
    <2>2. role' \in [Agents -> BOOLEAN]
        BY <1>7 DEF Reload, TypeOK
    <2>3. QED
        BY <1>7, <2>1, <2>2 DEF Reload, TypeOK, engine, lines, program, accepted
<1>8. QED
    BY <1>1, <1>2, <1>3, <1>4, <1>5, <1>6, <1>7

\* Inputs from the GUI and from the program.
LEMMA ReportsType ==
    ASSUME TypeOK, NEW a \in Agents, HandleGui(a) \/ HandleHook(a)
    PROVE  TypeOK'
<1>1. CASE HandleGui(a)
    <2>1. guiIn' \in [Agents -> Seq(News)]
        BY <1>1, QueueType DEF HandleGui, TypeOK, News
    <2>2. spawning' \in [Agents -> BOOLEAN]
        BY <1>1 DEF HandleGui, TypeOK
    <2>3. CASE PaneOpened(a)
        <3>1. out' \in Seq(Letters)
            <4>1. <<Brief>> \in Seq(Nat)
                BY DEF Brief
            <4>2. QED
                BY <2>3, <4>1, ToPaneType DEF PaneOpened, TypeOK, Letters
        <3>2. /\ pane' \in [Agents -> BOOLEAN] /\ typeBrief' \in [Agents -> BOOLEAN]
              /\ status' \in [Agents -> Statuses]
            BY <2>3 DEF PaneOpened, TypeOK, Statuses
        <3>3. QED
            BY <1>1, <2>1, <2>2, <2>3, <3>1, <3>2
            DEF PaneOpened, HandleGui, TypeOK, program, accepted, Letters, Statuses, News
    <2>4. CASE Offline(a) /\ UNCHANGED <<pane, typeBrief, out>>
        BY <1>1, <2>1, <2>2, <2>4, OfflineType
        DEF HandleGui, TypeOK, program, accepted, Letters, Statuses, News
    <2>5. CASE UNCHANGED <<pane, typeBrief, out, status, queue, token, perm>>
        BY <1>1, <2>1, <2>2, <2>5
        DEF HandleGui, TypeOK, program, accepted, Letters, Statuses, News
    <2>6. QED
        BY <1>1, <2>3, <2>4, <2>5 DEF HandleGui
<1>2. CASE HandleHook(a)
    <2>1. hooks' \in [Agents -> Seq(Reports)]
        BY <1>2, QueueType DEF HandleHook, TypeOK, Reports
    <2>2. /\ UNCHANGED <<kind, role, pane, spawning, typeBrief, gui, guiIn, faults>>
          /\ UNCHANGED <<updates, sent>>
        BY <1>2 DEF HandleHook, accepted
    <2>3. ASSUME NEW s \in Statuses, SetStatus(a, s), perm' \in [Agents -> BOOLEAN]
          PROVE  TypeOK'
        BY <2>1, <2>2, <2>3 DEF SetStatus, TypeOK, program, Statuses, Reports
    <2>4. ASSUME NEW heard, OnTool(a, heard)
          PROVE  TypeOK'
        <3>1. /\ fyi[a] \in Seq(Nat) /\ got[a] \in Seq(Nat) /\ <<>> \in Seq(Nat)
            BY EmptySeq DEF TypeOK
        <3>2. got[a] \o fyi[a] \in Seq(Nat)
            BY <3>1, QueueType
        <3>3. fyi' \in [Agents -> Seq(Nat)]
            BY <2>4, <3>1 DEF OnTool, TypeOK
        <3>4. prog' \in [Agents -> Programs] /\ got' \in [Agents -> Seq(Nat)]
            BY <2>4, <3>2, ZenonT(40) DEF OnTool, TypeOK, Programs
        <3>5. QED
            BY <2>1, <2>2, <2>4, <3>3, <3>4 DEF OnTool, TypeOK, Programs, Reports
    <2>5. ASSUME NEW continuing, NEW heard, OnStop(a, continuing, heard)
          PROVE  TypeOK'
        BY <2>1, <2>2, <2>5, OnStopType DEF TypeOK, Programs, Reports, Statuses, Letters
    <2>6. ASSUME OnIdle(a), UNCHANGED <<prog, cont, got>>
          PROVE  TypeOK'
        BY <2>1, <2>2, <2>6, OnIdleType DEF TypeOK, Reports, Statuses, Letters
    <2>7. ASSUME Gone(a), handle' \in [Agents -> BOOLEAN]
          PROVE  TypeOK'
        BY <2>1, <2>2, <2>7, OfflineType DEF Gone, TypeOK, program, Reports, Statuses
    <2>8. /\ perm \in [Agents -> BOOLEAN] /\ handle \in [Agents -> BOOLEAN]
          /\ status[a] \in Statuses /\ {"working", "needsyou"} \subseteq Statuses
        BY DEF TypeOK, Statuses
    <2> DEFINE what == Head(hooks[a])
    <2>9. CASE /\ what = "start" /\ perm' = perm
               /\ SetStatus(a, IF status[a] \in {"starting", "offline"} THEN "working"
                                                                        ELSE status[a])
        BY <2>3, <2>8, <2>9
    <2>10. CASE SetStatus(a, "working") /\ perm' = perm
        BY <2>3, <2>8, <2>10
    <2>11. CASE SetStatus(a, "needsyou") /\ UNCHANGED perm
        BY <2>3, <2>8, <2>11
    <2>12. CASE SetStatus(a, "needsyou") /\ perm' = [perm EXCEPT ![a] = TRUE]
        BY <2>3, <2>8, <2>12
    <2>13. CASE Gone(a) /\ UNCHANGED handle
        BY <2>7, <2>8, <2>13
    <2>14. CASE Gone(a) /\ handle' = [handle EXCEPT ![a] = FALSE]
        BY <2>7, <2>8, <2>14
    <2> HIDE DEF what
    <2>15. QED
        BY <1>2, <2>4, <2>5, <2>6, <2>9, <2>10, <2>11, <2>12, <2>13, <2>14
        DEF HandleHook, what
<1>3. QED
    BY <1>1, <1>2

\* A program that starts is given its brief and reports that it did.
LEMMA StartsType ==
    ASSUME TypeOK, NEW a \in Agents, Starts(a)
    PROVE  /\ prog' \in [Agents -> Programs] /\ got' \in [Agents -> Seq(Nat)]
           /\ hooks' \in [Agents -> Seq(Reports)]
<1>1. hooks' \in [Agents -> Seq(Reports)]
    <2>1. <<"start", "prompt">> \in Seq(Reports)
        BY DEF Reports
    <2>2. CASE Post(a, <<"start", "prompt">>)
        BY <2>1, <2>2, PostType
    <2>3. CASE UNCHANGED hooks
        BY <2>3 DEF TypeOK, Reports
    <2>4. QED
        BY <2>2, <2>3 DEF Starts
<1> DEFINE brief == <<Brief>>
<1>2. brief \in Seq(Nat) /\ (got' = got \/ got' = [got EXCEPT ![a] = brief])
    BY DEF Starts, Brief
<1> HIDE DEF brief
<1>3. prog' \in [Agents -> Programs]
    BY DEF Starts, TypeOK, Programs
<1>4. got' \in [Agents -> Seq(Nat)]
    BY <1>2 DEF TypeOK
<1>5. QED
    BY <1>1, <1>3, <1>4

\* The GUI's side of the connection.
LEMMA PanesType ==
    ASSUME TypeOK
    PROVE  /\ \A a \in Agents : Opens(a) \/ Types(a) \/ Closes(a) => TypeOK'
           /\ GuiDrops \/ GuiConnects => TypeOK'
<1>1. out # <<>> => Head(out) \in Letters /\ Tail(out) \in Seq(Letters)
    BY QueueType DEF TypeOK, Letters
<1>2. ASSUME NEW a \in Agents, Opens(a)
      PROVE  TypeOK'
    <2>1. out' \in Seq(Letters)
        BY <1>1, <1>2 DEF Opens
    <2>2. guiIn' \in [Agents -> Seq(News)]
        BY <1>2, TellEngineType DEF Opens, News
    <2>3. /\ prog' \in [Agents -> Programs] /\ got' \in [Agents -> Seq(Nat)]
          /\ hooks' \in [Agents -> Seq(Reports)]
        <3>1. CASE Starts(a)
            BY <3>1, StartsType
        <3>2. CASE UNCHANGED <<prog, got, hooks>>
            BY <3>2 DEF TypeOK, Programs, Reports
        <3>3. QED
            BY <1>2, <3>1, <3>2 DEF Opens
    <2>4. QED
        BY <1>2, <2>1, <2>2, <2>3
        DEF Opens, TypeOK, engine, accepted, Letters, News, Reports, Programs
<1>3. ASSUME NEW a \in Agents, Types(a)
      PROVE  TypeOK'
    <2>1. out' \in Seq(Letters) /\ Head(out)[3] \in Seq(Nat)
        BY <1>1, <1>3 DEF Types, Letters
    <2>2. Append(pending[a], Head(out)[3]) \in Seq(Seq(Nat))
        BY <2>1, QueueType DEF TypeOK
    <2>3. pending' \in [Agents -> Seq(Seq(Nat))]
        BY <1>3, <2>2 DEF Types, TypeOK
    <2>4. QED
        BY <1>3, <2>1, <2>3 DEF Types, TypeOK, engine, accepted, Letters
<1>4. ASSUME NEW a \in Agents, Closes(a)
      PROVE  TypeOK'
    <2>1. out' \in Seq(Letters)
        BY <1>1, <1>4 DEF Closes
    <2>2. guiIn' \in [Agents -> Seq(News)]
        BY <1>4, TellEngineType DEF Closes, News
    <2>3. pending' \in [Agents -> Seq(Seq(Nat))] /\ prog' \in [Agents -> Programs]
        BY <1>4, EmptySeq DEF Closes, TypeOK, Programs
    <2>4. QED
        BY <1>4, <2>1, <2>2, <2>3
        DEF Closes, TypeOK, engine, accepted, Letters, News, Programs
<1>5. ASSUME GuiDrops
      PROVE  TypeOK'
    <2>1. faults' \in 0..MaxFaults
        BY <1>5, BoundsAssumption DEF GuiDrops, TypeOK
    <2>2. out' \in Seq(Letters) /\ gui' \in BOOLEAN
        BY <1>5, EmptySeq DEF GuiDrops
    <2>3. /\ prog' \in [Agents -> Programs] /\ got' \in [Agents -> Seq(Nat)]
          /\ hooks' \in [Agents -> Seq(Reports)]
        <3>1. CASE out # <<>> /\ Starts(Head(out)[1])
            <4>1. Head(out)[1] \in Agents
                BY <1>1, <3>1 DEF Letters
            <4>2. QED
                BY <3>1, <4>1, StartsType
        <3>2. CASE UNCHANGED <<prog, got, hooks>>
            BY <3>2 DEF TypeOK, Programs, Reports
        <3>3. QED
            BY <1>5, <3>1, <3>2 DEF GuiDrops
    <2>4. QED
        BY <1>5, <2>1, <2>2, <2>3
        DEF GuiDrops, TypeOK, engine, accepted, Letters, Programs, Reports
<1>6. ASSUME GuiConnects
      PROVE  TypeOK'
    <2>1. \A a \in Agents : Append(guiIn[a], "exited") \in Seq(News)
        BY QueueType DEF TypeOK, News
    <2>2. guiIn' \in [Agents -> Seq(News)] /\ gui' \in BOOLEAN
        BY <1>6, <2>1 DEF GuiConnects, TypeOK, News
    <2>3. QED
        BY <1>6, <2>2 DEF GuiConnects, TypeOK, engine, accepted, program, News
<1>7. QED
    BY <1>2, <1>3, <1>4, <1>5, <1>6

\* The program's side.
LEMMA ProgramType ==
    ASSUME TypeOK, NEW a \in Agents,
           \/ Reads(a) \/ HumanPrompts(a) \/ UsesTool(a) \/ Asks(a) \/ EndsTurn(a)
           \/ HookGivesUp(a) \/ IdleNotice(a) \/ Quits(a)
    PROVE  TypeOK'
<1>1. \A r \in Reports : <<r>> \in Seq(Reports)
    OBVIOUS
<1>2. \A r \in Reports : Post(a, <<r>>) => hooks' \in [Agents -> Seq(Reports)]
    BY <1>1, PostType
<1>3. UNCHANGED hooks => hooks' \in [Agents -> Seq(Reports)]
    BY DEF TypeOK, Reports
<1>4. CASE Reads(a)
    <2>1. hooks' \in [Agents -> Seq(Reports)]
        BY <1>2, <1>3, <1>4 DEF Reads, Reports
    <2>2. Head(pending[a]) \in Seq(Nat) /\ Tail(pending[a]) \in Seq(Seq(Nat))
        BY <1>4, QueueType DEF Reads, TypeOK
    <2>3. got[a] \o Head(pending[a]) \in Seq(Nat)
        BY <2>2, QueueType DEF TypeOK
    <2>4. /\ pending' \in [Agents -> Seq(Seq(Nat))] /\ got' \in [Agents -> Seq(Nat)]
          /\ prog' \in [Agents -> Programs]
        BY <1>4, <2>2, <2>3 DEF Reads, TypeOK, Programs
    <2>5. QED
        BY <1>4, <2>1, <2>4 DEF Reads, TypeOK, engine, accepted, Programs, Reports
<1>5. CASE HumanPrompts(a)
    <2>1. hooks' \in [Agents -> Seq(Reports)]
        BY <1>2, <1>3, <1>5 DEF HumanPrompts, Reports
    <2>2. QED
        BY <1>5, <2>1 DEF HumanPrompts, TypeOK, engine, accepted, Reports
<1>6. CASE UsesTool(a)
    <2>1. <<"prompt", "tool">> \in Seq(Reports)
        BY DEF Reports
    <2>2. hooks' \in [Agents -> Seq(Reports)]
        BY <1>6, <2>1, PostType DEF UsesTool
    <2>3. QED
        BY <1>6, <2>2 DEF UsesTool, TypeOK, engine, accepted, Reports
<1>7. CASE Asks(a)
    <2>1. hooks' \in [Agents -> Seq(Reports)]
        BY <1>2, <1>7 DEF Asks, Reports
    <2>2. QED
        BY <1>7, <2>1 DEF Asks, TypeOK, engine, accepted, Reports
<1>8. CASE EndsTurn(a)
    <2>1. hooks' \in [Agents -> Seq(Reports)]
        <3>1. CASE kind[a] = "claude" /\ token[a]
            BY <1>2, <1>8, <3>1 DEF EndsTurn, Reports
        <3>2. CASE kind[a] # "claude" \/ ~token[a]
            BY <1>2, <1>3, <1>8, <3>2 DEF EndsTurn, Reports
        <3>3. QED
            BY <3>1, <3>2
    <2>2. QED
        BY <1>8, <2>1 DEF EndsTurn, TypeOK, engine, accepted, Reports
<1>9. CASE HookGivesUp(a)
    <2> DEFINE last == CASE Last(hooks[a]) = "tool" -> "toolLate"
                         [] Last(hooks[a]) = "stop" -> "stopLate"
                         [] OTHER                   -> "idle"
    <2>1. last \in Reports
        BY DEF Reports
    <2>2. Front(hooks[a]) \in Seq(Reports)
        BY QueueType DEF TypeOK, Reports
    <2>3. hooks' = [hooks EXCEPT ![a] = Append(Front(hooks[a]), last)]
        BY <1>9 DEF HookGivesUp
    <2> HIDE DEF last
    <2>4. hooks' \in [Agents -> Seq(Reports)]
        BY <2>1, <2>2, <2>3, QueueType DEF TypeOK, Reports
    <2>5. faults' \in 0..MaxFaults
        BY <1>9, BoundsAssumption DEF HookGivesUp, TypeOK
    <2>6. prog' \in [Agents -> Programs] /\ cont' \in [Agents -> BOOLEAN]
        BY <1>9 DEF HookGivesUp, TypeOK, Programs
    <2>7. QED
        BY <1>9, <2>4, <2>5, <2>6
        DEF HookGivesUp, TypeOK, engine, accepted, Reports, Programs
<1>10. CASE IdleNotice(a)
    <2>1. hooks' \in [Agents -> Seq(Reports)]
        BY <1>2, <1>10 DEF IdleNotice, Reports
    <2>2. QED
        BY <1>10, <2>1 DEF IdleNotice, TypeOK, engine, accepted, program, Reports
<1>11. CASE Quits(a)
    <2>1. hooks' \in [Agents -> Seq(Reports)]
        BY <1>2, <1>3, <1>11 DEF Quits, Reports
    <2>2. guiIn' \in [Agents -> Seq(News)]
        BY <1>11, TellEngineType DEF Quits, TypeOK, News
    <2>3. pending' \in [Agents -> Seq(Seq(Nat))] /\ prog' \in [Agents -> Programs]
        BY <1>11, EmptySeq DEF Quits, TypeOK, Programs
    <2>4. QED
        BY <1>11, <2>1, <2>2, <2>3
        DEF Quits, TypeOK, engine, accepted, Reports, News, Programs
<1>12. QED
    BY <1>4, <1>5, <1>6, <1>7, <1>8, <1>9, <1>10, <1>11

\* A restart leaves every variable its type.
LEMMA RestartType ==
    ASSUME TypeOK, Restart
    PROVE  TypeOK'
<1>1. faults' \in 0..MaxFaults
    BY BoundsAssumption DEF Restart, TypeOK
<1>2. status' \in [Agents -> Statuses]
    BY DEF Restart, TypeOK, Statuses
<1>3. /\ spawning' \in [Agents -> BOOLEAN] /\ typeBrief' \in [Agents -> BOOLEAN]
      /\ stopAfter' \in [Agents -> BOOLEAN] /\ handle' \in [Agents -> BOOLEAN]
      /\ perm' \in [Agents -> BOOLEAN] /\ gui' \in BOOLEAN
    BY DEF Restart
<1>4. cont' \in [Agents -> BOOLEAN]
    BY DEF Restart, TypeOK
<1>5. prog' \in [Agents -> Programs]
    BY DEF Restart, TypeOK, Programs
<1>6. /\ out' \in Seq(Letters) /\ guiIn' \in [Agents -> Seq(News)]
      /\ hooks' \in [Agents -> Seq(Reports)]
    BY EmptySeq DEF Restart
<1>7. pending' \in [Agents -> Seq(Seq(Nat))]
    BY EmptySeq DEF Restart, TypeOK
<1>8. QED
    BY <1>1, <1>2, <1>3, <1>4, <1>5, <1>6, <1>7
    DEF Restart, TypeOK, accepted, Statuses, Programs, Letters, News, Reports

\* Every step keeps the types.
LEMMA TypeStep ==
    ASSUME TypeOK, [Next]_vars
    PROVE  TypeOK'
<1>1. CASE Next
    BY <1>1, RequestsType, ReportsType, PanesType, ProgramType, RestartType DEF Next
<1>2. CASE UNCHANGED vars
    BY <1>2 DEF TypeOK, vars, engine, lines, program, accepted
<1>3. QED
    BY <1>1, <1>2

\* Every variable has its type before the first step.
LEMMA TypeInit ==
    ASSUME Init
    PROVE  TypeOK
BY BoundsAssumption, EmptySeq DEF Init, TypeOK

\* Delivery.TypeOK: every variable keeps its type.
THEOREM TypeTheorem == Spec => []TypeOK
<1>1. Init => TypeOK
    BY TypeInit
<1>2. TypeOK /\ [Next]_vars => TypeOK'
    BY TypeStep
<1>3. QED
    BY <1>1, <1>2, PTL DEF Spec

-----------------------------------------------------------------------------
(* Five queues, one behind the other. *)

Apart(s, t, R) == \A x \in Range(s), y \in Range(t) : <<x, y>> \in R

\* Every entry of the five queues is related to all that come behind it.
Sorted(p, q, r, s, t, R) ==
    /\ Pairwise(p, R) /\ Pairwise(q, R) /\ Pairwise(r, R) /\ Pairwise(s, R)
    /\ Pairwise(t, R)
    /\ Apart(p, q, R) /\ Apart(p, r, R) /\ Apart(p, s, R) /\ Apart(p, t, R)
    /\ Apart(q, r, R) /\ Apart(q, s, R) /\ Apart(q, t, R)
    /\ Apart(r, s, R) /\ Apart(r, t, R) /\ Apart(s, t, R)

\* Two sequences one behind the other stand apart from a third one when each of them does.
LEMMA ConcatApart ==
    ASSUME NEW S, NEW s \in Seq(S), NEW t \in Seq(S), NEW R
    PROVE  /\ s \o t \in Seq(S)
           /\ Pairwise(s \o t, R) <=> Pairwise(s, R) /\ Pairwise(t, R) /\ Apart(s, t, R)
           /\ \A u : Apart(s \o t, u, R) <=> Apart(s, u, R) /\ Apart(t, u, R)
           /\ \A u : Apart(u, s \o t, R) <=> Apart(u, s, R) /\ Apart(u, t, R)
BY ConcatRange, ConcatPairwise DEF Apart

\* An empty sequence stands apart from every other one.
LEMMA NothingApart ==
    ASSUME NEW R
    PROVE  /\ Pairwise(<<>>, R) /\ \A u : Apart(<<>>, u, R) /\ Apart(u, <<>>, R)
           /\ \A e : Pairwise(<<e>>, R)
BY ShortSequences DEF Apart

\* The line c holds what is in the five.
Holds(c, p, q, r, s, t) ==
    Range(c) = Range(p) \cup Range(q) \cup Range(r) \cup Range(s) \cup Range(t)

\* The five are in order exactly when they are in one line.
LEMMA LineIsSorted ==
    ASSUME NEW S, NEW p \in Seq(S), NEW q \in Seq(S), NEW r \in Seq(S),
           NEW s \in Seq(S), NEW t \in Seq(S), NEW R
    PROVE  /\ p \o q \o r \o s \o t \in Seq(S)
           /\ Holds(p \o q \o r \o s \o t, p, q, r, s, t)
           /\ Pairwise(p \o q \o r \o s \o t, R) <=> Sorted(p, q, r, s, t, R)
<1> DEFINE c2 == p \o q
           c3 == c2 \o r
           c4 == c3 \o s
           c5 == c4 \o t
<1>1. c2 \in Seq(S) /\ Range(c2) = Range(p) \cup Range(q)
    BY ConcatRange
<1>2. /\ Pairwise(c2, R) <=> Pairwise(p, R) /\ Pairwise(q, R) /\ Apart(p, q, R)
      /\ \A u : Apart(c2, u, R) <=> Apart(p, u, R) /\ Apart(q, u, R)
    BY ConcatApart
<1> HIDE DEF c2
<1>3. c3 \in Seq(S) /\ Range(c3) = Range(c2) \cup Range(r)
    BY <1>1, ConcatRange
<1>4. /\ Pairwise(c3, R) <=> Pairwise(c2, R) /\ Pairwise(r, R) /\ Apart(c2, r, R)
      /\ \A u : Apart(c3, u, R) <=> Apart(c2, u, R) /\ Apart(r, u, R)
    BY <1>1, ConcatApart
<1> HIDE DEF c3
<1>5. c4 \in Seq(S) /\ Range(c4) = Range(c3) \cup Range(s)
    BY <1>3, ConcatRange
<1>6. /\ Pairwise(c4, R) <=> Pairwise(c3, R) /\ Pairwise(s, R) /\ Apart(c3, s, R)
      /\ \A u : Apart(c4, u, R) <=> Apart(c3, u, R) /\ Apart(s, u, R)
    BY <1>3, ConcatApart
<1> HIDE DEF c4
<1>7. c5 \in Seq(S) /\ Range(c5) = Range(c4) \cup Range(t)
    BY <1>5, ConcatRange
<1>8. Pairwise(c5, R) <=> Pairwise(c4, R) /\ Pairwise(t, R) /\ Apart(c4, t, R)
    BY <1>5, ConcatApart
<1> HIDE DEF c5
<1>9. Holds(c5, p, q, r, s, t)
    BY <1>1, <1>3, <1>5, <1>7 DEF Holds
<1>10. Pairwise(c5, R) <=> Sorted(p, q, r, s, t, R)
    BY <1>2, <1>4, <1>6, <1>8, Zenon DEF Sorted
<1>11. QED
    BY <1>7, <1>9, <1>10 DEF c5, c4, c3, c2

\* More is in order, and less is in line.
LEMMA SortedShrinks ==
    ASSUME NEW p, NEW q, NEW r, NEW s, NEW t, NEW R, Sorted(p, q, r, s, t, R),
           NEW pp, NEW qq, NEW rr, NEW ss, NEW tt, NEW RR, R \subseteq RR,
           Range(pp) \subseteq Range(p), Range(qq) \subseteq Range(q),
           Range(rr) \subseteq Range(r), Range(ss) \subseteq Range(s),
           Range(tt) \subseteq Range(t),
           Pairwise(pp, R), Pairwise(qq, R), Pairwise(rr, R), Pairwise(ss, R),
           Pairwise(tt, R)
    PROVE  Sorted(pp, qq, rr, ss, tt, RR)
<1>1. \A u : Pairwise(u, R) => Pairwise(u, RR)
    BY DEF Pairwise
<1>2. \A u, v, uu, vv : Apart(u, v, R) /\ Range(uu) \subseteq Range(u)
                            /\ Range(vv) \subseteq Range(v) => Apart(uu, vv, RR)
    BY DEF Apart
<1>3. QED
    BY <1>1, <1>2 DEF Sorted

\* One entry more at the end of one of the five.
LEMMA SortedGains ==
    ASSUME NEW S, NEW p \in Seq(S), NEW q \in Seq(S), NEW r \in Seq(S),
           NEW s \in Seq(S), NEW t \in Seq(S), NEW R, Sorted(p, q, r, s, t, R),
           NEW RR, R \subseteq RR, NEW n \in S
    PROVE  /\ /\ \A x \in Range(p) : <<x, n>> \in RR
              /\ \A x \in Range(q) \cup Range(r) \cup Range(s) \cup Range(t) : <<n, x>> \in RR
              => Sorted(p \o <<n>>, q, r, s, t, RR)
           /\ /\ \A x \in Range(p) \cup Range(q) : <<x, n>> \in RR
              /\ \A x \in Range(r) \cup Range(s) \cup Range(t) : <<n, x>> \in RR
              => Sorted(p, q \o <<n>>, r, s, t, RR)
           /\ /\ \A x \in Range(p) \cup Range(q) \cup Range(r) : <<x, n>> \in RR
              /\ \A x \in Range(s) \cup Range(t) : <<n, x>> \in RR
              => Sorted(p, q, r \o <<n>>, s, t, RR)
           /\ /\ \A x \in Range(p) \cup Range(q) \cup Range(r) \cup Range(s) : <<x, n>> \in RR
              /\ \A x \in Range(t) : <<n, x>> \in RR
              => Sorted(p, q, r, s \o <<n>>, t, RR)
           /\ /\ \A x \in Range(p) \cup Range(q) \cup Range(r) \cup Range(s) \cup Range(t) :
                    <<x, n>> \in RR
              => Sorted(p, q, r, s, t \o <<n>>, RR)
<1> DEFINE e == <<n>>
<1>1. e \in Seq(S) /\ Range(e) = {n}
    BY ShortSequences
<1>2. Pairwise(e, RR)
    BY NothingApart
<1>3. Sorted(p, q, r, s, t, RR)
    <2>1. \A u : Pairwise(u, R) => Pairwise(u, RR)
        BY DEF Pairwise
    <2>2. \A u, v : Apart(u, v, R) => Apart(u, v, RR)
        BY DEF Apart
    <2>3. QED
        BY <2>1, <2>2, Zenon DEF Sorted
<1>4. \A u : /\ (\A x \in Range(u) : <<x, n>> \in RR) => Apart(u, e, RR)
             /\ (\A x \in Range(u) : <<n, x>> \in RR) => Apart(e, u, RR)
    BY <1>1 DEF Apart
<1> HIDE DEF e
<1>5. \A u \in Seq(S) :
         /\ Pairwise(u \o e, RR) <=> Pairwise(u, RR) /\ Pairwise(e, RR) /\ Apart(u, e, RR)
         /\ \A v : Apart(u \o e, v, RR) <=> Apart(u, v, RR) /\ Apart(e, v, RR)
         /\ \A v : Apart(v, u \o e, RR) <=> Apart(v, u, RR) /\ Apart(v, e, RR)
    BY <1>1, ConcatApart
<1>6. Apart(p, e, RR) /\ Apart(e, q, RR) /\ Apart(e, r, RR) /\ Apart(e, s, RR)
         /\ Apart(e, t, RR) => Sorted(p \o e, q, r, s, t, RR)
    BY <1>2, <1>3, <1>5, Zenon DEF Sorted
<1>7. Apart(p, e, RR) /\ Apart(q, e, RR) /\ Apart(e, r, RR) /\ Apart(e, s, RR)
         /\ Apart(e, t, RR) => Sorted(p, q \o e, r, s, t, RR)
    BY <1>2, <1>3, <1>5, Zenon DEF Sorted
<1>8. Apart(p, e, RR) /\ Apart(q, e, RR) /\ Apart(r, e, RR) /\ Apart(e, s, RR)
         /\ Apart(e, t, RR) => Sorted(p, q, r \o e, s, t, RR)
    BY <1>2, <1>3, <1>5, Zenon DEF Sorted
<1>9. Apart(p, e, RR) /\ Apart(q, e, RR) /\ Apart(r, e, RR) /\ Apart(s, e, RR)
         /\ Apart(e, t, RR) => Sorted(p, q, r, s \o e, t, RR)
    BY <1>2, <1>3, <1>5, Zenon DEF Sorted
<1>10. Apart(p, e, RR) /\ Apart(q, e, RR) /\ Apart(r, e, RR) /\ Apart(s, e, RR)
         /\ Apart(t, e, RR) => Sorted(p, q, r, s, t \o e, RR)
    BY <1>2, <1>3, <1>5, Zenon DEF Sorted
<1>11. QED
    BY <1>4, <1>6, <1>7, <1>8, <1>9, <1>10 DEF e

\* Entries move on from one of the five to the end of the one before it.
LEMMA SortedMoves ==
    ASSUME NEW S, NEW p \in Seq(S), NEW q \in Seq(S), NEW r \in Seq(S),
           NEW s \in Seq(S), NEW t \in Seq(S), NEW h \in Seq(S), NEW R
    PROVE  /\ Sorted(p, h \o q, r, s, t, R) => Sorted(p \o h, q, r, s, t, R)
           /\ Sorted(p, q, h \o r, s, t, R) => Sorted(p, q \o h, r, s, t, R)
           /\ Sorted(p, q, r, s, t, R) => Sorted(p, q, r \o (s \o t), <<>>, <<>>, R)
           /\ Sorted(p, q, <<>>, s, t, R) => Sorted(p, q \o (s \o t), <<>>, <<>>, <<>>, R)
<1>1. \A u, v \in Seq(S) :
         /\ u \o v \in Seq(S)
         /\ Pairwise(u \o v, R) <=> Pairwise(u, R) /\ Pairwise(v, R) /\ Apart(u, v, R)
         /\ \A w : Apart(u \o v, w, R) <=> Apart(u, w, R) /\ Apart(v, w, R)
         /\ \A w : Apart(w, u \o v, R) <=> Apart(w, u, R) /\ Apart(w, v, R)
    BY ConcatApart
<1>2. Pairwise(<<>>, R) /\ \A u : Apart(<<>>, u, R) /\ Apart(u, <<>>, R)
    BY NothingApart
<1>3. Sorted(p, h \o q, r, s, t, R) => Sorted(p \o h, q, r, s, t, R)
    BY <1>1, Zenon DEF Sorted
<1>4. Sorted(p, q, h \o r, s, t, R) => Sorted(p, q \o h, r, s, t, R)
    BY <1>1, Zenon DEF Sorted
<1> DEFINE st == s \o t
<1>5. /\ st \in Seq(S)
      /\ Pairwise(st, R) <=> Pairwise(s, R) /\ Pairwise(t, R) /\ Apart(s, t, R)
      /\ \A u : Apart(u, st, R) <=> Apart(u, s, R) /\ Apart(u, t, R)
    BY <1>1
<1> HIDE DEF st
<1>6. Sorted(p, q, r, s, t, R) => Sorted(p, q, r \o st, <<>>, <<>>, R)
    BY <1>1, <1>2, <1>5, Zenon DEF Sorted
<1>7. Sorted(p, q, <<>>, s, t, R) => Sorted(p, q \o st, <<>>, <<>>, <<>>, R)
    BY <1>1, <1>2, <1>5, Zenon DEF Sorted
<1>8. QED
    BY <1>3, <1>4, <1>6, <1>7 DEF st

\* What the line holds.
LEMMA LineHolds ==
    ASSUME NEW S, NEW p \in Seq(S), NEW q \in Seq(S), NEW r \in Seq(S),
           NEW s \in Seq(S), NEW t \in Seq(S)
    PROVE  /\ p \o q \o r \o s \o t \in Seq(S)
           /\ Holds(p \o q \o r \o s \o t, p, q, r, s, t)
BY LineIsSorted

\* Where the relation goes both ways the first of the five may take the last ones.
LEMMA SortedJumps ==
    ASSUME NEW S, NEW p \in Seq(S), NEW q \in Seq(S), NEW r \in Seq(S),
           NEW s \in Seq(S), NEW t \in Seq(S), NEW R, Sorted(p, q, r, s, t, R),
           \A x, y \in S : <<x, y>> \in R => <<y, x>> \in R
    PROVE  /\ Sorted(p \o s \o t, q, r, <<>>, <<>>, R)
           /\ Sorted(p \o t, q, r, s, <<>>, R)
<1>1. \A u, v \in Seq(S) :
         /\ u \o v \in Seq(S)
         /\ Pairwise(u \o v, R) <=> Pairwise(u, R) /\ Pairwise(v, R) /\ Apart(u, v, R)
         /\ \A w : Apart(u \o v, w, R) <=> Apart(u, w, R) /\ Apart(v, w, R)
         /\ \A w : Apart(w, u \o v, R) <=> Apart(w, u, R) /\ Apart(w, v, R)
    BY ConcatApart
<1>2. Pairwise(<<>>, R) /\ \A u : Apart(<<>>, u, R) /\ Apart(u, <<>>, R)
    BY NothingApart
<1>3. \A u, v \in Seq(S) : Apart(u, v, R) => Apart(v, u, R)
    <2>1. \A u \in Seq(S) : Range(u) \subseteq S
        BY ElementOfSeq, LenProperties DEF Range
    <2>2. QED
        BY <2>1 DEF Apart
<1>4. Sorted(p \o t, q, r, s, <<>>, R)
    BY <1>1, <1>2, <1>3, Zenon DEF Sorted
<1> DEFINE ps == p \o s
<1>5. /\ ps \in Seq(S) 
      /\ Pairwise(ps, R) <=> Pairwise(p, R) /\ Pairwise(s, R) /\ Apart(p, s, R)
      /\ \A u : Apart(ps, u, R) <=> Apart(p, u, R) /\ Apart(s, u, R)
    BY <1>1
<1> HIDE DEF ps
<1>6. Sorted(ps \o t, q, r, <<>>, <<>>, R)
    BY <1>1, <1>2, <1>3, <1>5, Zenon DEF Sorted
<1>7. QED
    BY <1>4, <1>6 DEF ps

-----------------------------------------------------------------------------
(* The connection to the GUI. *)

Has(o, a)   == \E i \in 1..Len(o) : o[i][1] = a
Spawn(o, a) == \E i \in 1..Len(o) : o[i][1] = a /\ o[i][2] = "spawn"
Once(o, a)  == \A i, j \in 1..Len(o) : o[i][1] = a /\ o[j][1] = a => i = j

\* Only what is typed into a pane carries messages.
Carries(o, a) ==
    \A i \in 1..Len(o) :
        o[i][1] = a => \/ o[i][3] = <<>>
                       \/ o[i][2] = "type" /\ kind[a] \in PaneKinds

\* One letter more.
LEMMA MailPosted ==
    ASSUME NEW o \in Seq(Letters), NEW l \in Letters, NEW a
    PROVE  LET r == Append(o, l) IN
           /\ Has(r, a) <=> Has(o, a) \/ l[1] = a
           /\ Spawn(r, a) <=> Spawn(o, a) \/ (l[1] = a /\ l[2] = "spawn")
           /\ ~Has(o, a) \/ (Once(o, a) /\ l[1] # a) => Once(r, a)
           /\ /\ Carries(o, a)
              /\ l[1] = a => \/ l[3] = <<>>
                             \/ l[2] = "type" /\ kind[a] \in PaneKinds
              => Carries(r, a)
<1> DEFINE n == Len(o)
           r == Append(o, l)
<1>1. n \in Nat
    BY LenProperties
<1>2. Len(r) = n + 1 /\ r[n + 1] = l /\ \A i \in 1..n : r[i] = o[i]
    BY AppendProperties
<1> HIDE DEF r, n
<1>3. 1..n + 1 = (1..n) \cup {n + 1} /\ n + 1 \notin 1..n
    BY <1>1
<1>4. Has(r, a) <=> Has(o, a) \/ l[1] = a
    BY <1>2, <1>3 DEF Has, n
<1>5. Spawn(r, a) <=> Spawn(o, a) \/ (l[1] = a /\ l[2] = "spawn")
    BY <1>2, <1>3 DEF Spawn, n
<1>6. ~Has(o, a) \/ (Once(o, a) /\ l[1] # a) => Once(r, a)
    BY <1>2, <1>3 DEF Has, Once, n
<1>7. Carries(o, a) /\ (l[1] = a => \/ l[3] = <<>>
                                    \/ l[2] = "type" /\ kind[a] \in PaneKinds)
         => Carries(r, a)
    BY <1>2, <1>3 DEF Carries, n
<1>8. QED
    BY <1>4, <1>5, <1>6, <1>7 DEF r

\* The first letter is taken off.
LEMMA MailTaken ==
    ASSUME NEW o \in Seq(Letters), o # <<>>, NEW a
    PROVE  LET r == Tail(o)
               l == Head(o) IN
           /\ Has(r, a) => Has(o, a)
           /\ Has(o, a) => Has(r, a) \/ l[1] = a
           /\ l[1] = a => Has(o, a) /\ (l[2] = "spawn" => Spawn(o, a))
           /\ Spawn(r, a) => Spawn(o, a)
           /\ Spawn(o, a) => Spawn(r, a) \/ (l[1] = a /\ l[2] = "spawn")
           /\ Once(o, a) => Once(r, a)
           /\ Once(o, a) /\ l[1] = a => ~Has(r, a)
           /\ Carries(o, a) => Carries(r, a)
           /\ Carries(o, a) /\ l[1] = a =>
                 l[3] = <<>> \/ (l[2] = "type" /\ kind[a] \in PaneKinds)
<1> DEFINE n == Len(o)
           r == Tail(o)
           l == Head(o)
<1>1. n \in Nat \ {0}
    BY LenProperties, EmptySeq
<1>2. Len(r) = n - 1 /\ l = o[1] /\ \A i \in 1..n - 1 : r[i] = o[i + 1]
    BY HeadTailProperties
<1> HIDE DEF r, n, l
<1>3. \A i \in 1..n - 1 : i + 1 \in 1..n /\ i + 1 # 1 /\ r[i] = o[i + 1]
    BY <1>1, <1>2
<1>4. \A i \in 1..n : i = 1 \/ (i - 1 \in 1..n - 1 /\ r[i - 1] = o[i])
    <2>1. SUFFICES ASSUME NEW i \in 1..n, i # 1
                   PROVE  i - 1 \in 1..n - 1 /\ r[i - 1] = o[i]
        OBVIOUS
    <2>2. i - 1 \in 1..n - 1 /\ (i - 1) + 1 = i
        BY <1>1, <2>1
    <2>3. QED
        BY <1>3, <2>2
<1>5. 1 \in 1..n
    BY <1>1
<1>6. /\ Has(r, a) => Has(o, a)
      /\ Has(o, a) => Has(r, a) \/ l[1] = a
      /\ l[1] = a => Has(o, a) /\ (l[2] = "spawn" => Spawn(o, a))
    <2>1. Has(r, a) => Has(o, a)
        BY <1>2, <1>3 DEF Has, n
    <2>2. Has(o, a) => Has(r, a) \/ l[1] = a
        BY <1>2, <1>4 DEF Has, n
    <2>3. l[1] = a => Has(o, a) /\ (l[2] = "spawn" => Spawn(o, a))
        BY <1>2, <1>5 DEF Has, Spawn, n
    <2>4. QED
        BY <2>1, <2>2, <2>3
<1>7. /\ Spawn(r, a) => Spawn(o, a)
      /\ Spawn(o, a) => Spawn(r, a) \/ (l[1] = a /\ l[2] = "spawn")
    BY <1>2, <1>3, <1>4, <1>5 DEF Spawn, n
<1>8. Once(o, a) => Once(r, a)
    <2>1. SUFFICES ASSUME Once(o, a), NEW i \in 1..n - 1, NEW j \in 1..n - 1,
                          r[i][1] = a, r[j][1] = a
                   PROVE  i = j
        BY <1>2 DEF Once
    <2>2. i + 1 = j + 1
        BY <1>3, <2>1 DEF Once, n
    <2>3. QED
        BY <2>2
<1>9. Once(o, a) /\ l[1] = a => ~Has(r, a)
    BY <1>2, <1>3, <1>5 DEF Once, Has, n
<1>10. Carries(o, a) => Carries(r, a)
    BY <1>2, <1>3 DEF Carries, n
<1>11. Carries(o, a) /\ l[1] = a =>
          l[3] = <<>> \/ (l[2] = "type" /\ kind[a] \in PaneKinds)
    BY <1>2, <1>5 DEF Carries, n
<1>12. QED
    BY <1>6, <1>7, <1>8, <1>9, <1>10, <1>11 DEF r, l

\* The messages for a, letter by letter, and put together.
Shares(o, a)  == [i \in 1..Len(o) |-> IF o[i][1] = a THEN o[i][3] ELSE <<>>]
TypedIn(o, a) == FlattenSeq(Shares(o, a))

\* The share of an agent is a list of messages for each letter.
LEMMA SharesType ==
    ASSUME NEW o \in Seq(Letters), NEW a
    PROVE  /\ Shares(o, a) \in Seq(Seq(Nat)) /\ Len(Shares(o, a)) = Len(o)
           /\ \A i \in 1..Len(o) :
                 Shares(o, a)[i] = IF o[i][1] = a THEN o[i][3] ELSE <<>>
<1> DEFINE n == Len(o)
           h == Shares(o, a)
<1>1. n \in Nat /\ \A i \in 1..n : o[i] \in Letters
    BY LenProperties, ElementOfSeq
<1>2. \A i \in 1..n : (IF o[i][1] = a THEN o[i][3] ELSE <<>>) \in Seq(Nat)
    BY <1>1, EmptySeq DEF Letters
<1>3. h \in [1..n -> Seq(Nat)]
    BY <1>2 DEF Shares
<1>4. h \in Seq(Seq(Nat))
    BY <1>1, <1>3, SeqDef
<1>5. Len(h) = n
    BY <1>1, <1>3, <1>4, LenProperties
<1>6. QED
    BY <1>4, <1>5 DEF Shares

\* A letter adds its messages to the end of what is on its way.
LEMMA TypedPosted ==
    ASSUME NEW o \in Seq(Letters), NEW l \in Letters, NEW a
    PROVE  /\ TypedIn(o, a) \in Seq(Nat)
           /\ TypedIn(Append(o, l), a)
                 = IF l[1] = a THEN TypedIn(o, a) \o l[3] ELSE TypedIn(o, a)
<1> DEFINE n == Len(o)
           r == Append(o, l)
           s == IF l[1] = a THEN l[3] ELSE <<>>
           h == Shares(o, a)
           g == Append(h, s)
<1>1. n \in Nat /\ s \in Seq(Nat) /\ l[3] \in Seq(Nat)
    BY LenProperties, EmptySeq DEF Letters
<1>2. /\ r \in Seq(Letters) /\ Len(r) = n + 1 /\ r[n + 1] = l
      /\ \A i \in 1..n : r[i] = o[i]
    BY AppendProperties
<1>3. /\ h \in Seq(Seq(Nat)) /\ Len(h) = n
      /\ \A i \in 1..n : h[i] = IF o[i][1] = a THEN o[i][3] ELSE <<>>
    BY SharesType
<1>4. FlattenSeq(h) \in Seq(Nat) /\ FlattenSeq(g) = FlattenSeq(h) \o s
    BY <1>1, <1>3, FlattenAppend
<1>5. /\ g \in Seq(Seq(Nat)) /\ Len(g) = n + 1 /\ g[n + 1] = s
      /\ \A i \in 1..n : g[i] = h[i]
    BY <1>1, <1>3, AppendProperties
<1>6. /\ Shares(r, a) \in Seq(Seq(Nat)) /\ Len(Shares(r, a)) = n + 1
      /\ \A i \in 1..n + 1 :
            Shares(r, a)[i] = IF r[i][1] = a THEN r[i][3] ELSE <<>>
    <2> HIDE DEF r, n
    <2>1. /\ Shares(r, a) \in Seq(Seq(Nat)) /\ Len(Shares(r, a)) = Len(r)
          /\ \A i \in 1..Len(r) :
                Shares(r, a)[i] = IF r[i][1] = a THEN r[i][3] ELSE <<>>
        BY <1>2, SharesType
    <2>2. QED
        BY <1>2, <2>1
<1>7. Shares(r, a) = g
    <2> DEFINE k == Shares(r, a)
    <2>1. \A i \in 1..n + 1 : i \in 1..n \/ i = n + 1
        BY <1>1
    <2>2. \A i \in 1..n + 1 : k[i] = g[i]
        <3> HIDE DEF g, h, r, n, s
        <3>1. ASSUME NEW i \in 1..n
              PROVE  k[i] = g[i]
            <4>1. i \in 1..n + 1 /\ r[i] = o[i]
                BY <1>1, <1>2
            <4>2. k[i] = IF o[i][1] = a THEN o[i][3] ELSE <<>>
                BY <1>6, <4>1
            <4>3. QED
                BY <1>3, <1>5, <4>2
        <3>2. k[n + 1] = g[n + 1]
            <4>1. n + 1 \in 1..n + 1
                BY <1>1
            <4>2. QED
                BY <1>2, <1>5, <1>6, <4>1 DEF s
        <3>3. QED
            BY <2>1, <3>1, <3>2
    <2> HIDE DEF k, g
    <2>3. QED
        BY <1>5, <1>6, <2>2, SeqEqual DEF k
<1>8. TypedIn(r, a) = TypedIn(o, a) \o s /\ TypedIn(o, a) \in Seq(Nat)
    BY <1>4, <1>7 DEF TypedIn
<1>9. l[1] # a => TypedIn(r, a) = TypedIn(o, a)
    BY <1>8, ConcatEmptySeq
<1>10. QED
    BY <1>8, <1>9

\* Taking off the first letter takes its messages off the front.
LEMMA TypedTaken ==
    ASSUME NEW o \in Seq(Letters), o # <<>>, NEW a
    PROVE  /\ TypedIn(Tail(o), a) \in Seq(Nat)
           /\ TypedIn(o, a)
                 = IF Head(o)[1] = a THEN Head(o)[3] \o TypedIn(Tail(o), a)
                                     ELSE TypedIn(Tail(o), a)
<1> DEFINE n == Len(o)
           r == Tail(o)
           l == Head(o)
           s == IF l[1] = a THEN l[3] ELSE <<>>
           h == Shares(o, a)
<1>1. n \in Nat \ {0} /\ l \in Letters
    BY LenProperties, EmptySeq, HeadTailProperties
<1>2. s \in Seq(Nat)
    BY <1>1, EmptySeq DEF Letters
<1>3. /\ r \in Seq(Letters) /\ Len(r) = n - 1 /\ l = o[1]
      /\ \A i \in 1..n - 1 : r[i] = o[i + 1]
    BY HeadTailProperties
<1>4. /\ h \in Seq(Seq(Nat)) /\ Len(h) = n
      /\ \A i \in 1..n : h[i] = IF o[i][1] = a THEN o[i][3] ELSE <<>>
    BY SharesType
<1>5. h # <<>>
    BY <1>1, <1>4, EmptySeq
<1>6. FlattenSeq(h) = Head(h) \o FlattenSeq(Tail(h))
    BY <1>4, <1>5, FlattenTail
<1>7. /\ Tail(h) \in Seq(Seq(Nat)) /\ Len(Tail(h)) = n - 1 /\ Head(h) = h[1]
      /\ \A i \in 1..n - 1 : Tail(h)[i] = h[i + 1]
    BY <1>4, <1>5, HeadTailProperties
<1>8. Head(h) = s
    <2>1. 1 \in 1..n
        BY <1>1
    <2> HIDE DEF h, n, l
    <2>2. QED
        BY <1>3, <1>4, <1>7, <2>1
<1>9. /\ Shares(r, a) \in Seq(Seq(Nat)) /\ Len(Shares(r, a)) = n - 1
      /\ \A i \in 1..n - 1 :
            Shares(r, a)[i] = IF r[i][1] = a THEN r[i][3] ELSE <<>>
    <2> HIDE DEF r, n
    <2>1. /\ Shares(r, a) \in Seq(Seq(Nat)) /\ Len(Shares(r, a)) = Len(r)
          /\ \A i \in 1..Len(r) :
                Shares(r, a)[i] = IF r[i][1] = a THEN r[i][3] ELSE <<>>
        BY <1>3, SharesType, SMTT(30)
    <2>2. QED
        BY <1>3, <2>1
<1>10. Shares(r, a) = Tail(h)
    <2> DEFINE k == Shares(r, a)
               g == Tail(h)
    <2>1. \A i \in 1..n - 1 : i + 1 \in 1..n
        BY <1>1
    <2>2. \A i \in 1..n - 1 : k[i] = g[i]
        <3> HIDE DEF k, g, h, r, n
        <3>1. QED
            BY <1>3, <1>4, <1>7, <1>9, <2>1, ZenonT(40) DEF k, g
    <2>3. /\ k \in Seq(Seq(Nat)) /\ g \in Seq(Seq(Nat)) /\ Len(k) = n - 1
          /\ Len(g) = n - 1
        <3> HIDE DEF h, r, n
        <3>1. QED
            BY <1>7, <1>9
    <2> HIDE DEF k, g, n
    <2>4. k = g
        BY <2>2, <2>3, SeqEqual
    <2>5. QED
        BY <2>4 DEF k, g
<1>11. TypedIn(o, a) = s \o TypedIn(r, a)
    BY <1>6, <1>8, <1>10 DEF TypedIn
<1>12. TypedIn(r, a) \in Seq(Nat)
    BY <1>1, <1>3, TypedPosted
<1>13. l[1] # a => TypedIn(o, a) = TypedIn(r, a)
    BY <1>11, <1>12, ConcatEmptySeq
<1>14. QED
    BY <1>11, <1>12, <1>13

\* Nothing is on its way to an agent when its letters carry nothing.
LEMMA TypedNothing ==
    ASSUME NEW o \in Seq(Letters), NEW a,
           \A i \in 1..Len(o) : o[i][1] = a => o[i][3] = <<>>
    PROVE  TypedIn(o, a) = <<>>
<1> DEFINE n == Len(o)
           h == Shares(o, a)
           f == [i \in 0..n |-> <<>>]
<1>1. n \in Nat
    BY LenProperties
<1>2. h \in Seq(Seq(Nat)) /\ Len(h) = n /\ \A i \in 1..n : h[i] = <<>>
    <2>1. /\ h \in Seq(Seq(Nat)) /\ Len(h) = n
          /\ \A i \in 1..n : h[i] = IF o[i][1] = a THEN o[i][3] ELSE <<>>
        BY SharesType, SMTT(30)
    <2> HIDE DEF h
    <2>2. QED
        BY <2>1
<1>3. <<>> \o <<>> = <<>>
    BY EmptySeq, ConcatEmptySeq
<1>4. 0 \in 0..n /\ n \in 0..n /\ \A i \in 1..n : i \in 0..n /\ i - 1 \in 0..n
    BY <1>1
<1> HIDE DEF h, n
<1>5. f[0] = <<>> /\ f[n] = <<>> /\ \A i \in 1..n : f[i] = <<>> /\ f[i - 1] = <<>>
    BY <1>4
<1> HIDE DEF f
<1>6. Joins(f, h)
    BY <1>2, <1>3, <1>5 DEF Joins
<1>7. FlattenSeq(h) = f[n]
    BY <1>2, <1>6, FlattenJoins
<1>8. QED
    BY <1>5, <1>7 DEF TypedIn, h

-----------------------------------------------------------------------------
(* The inductive invariant, agent by agent. *)

\* Two messages that may stand in line one behind the other: they differ, and unless
\* one of them is a brief or an update, or they are for a Claude pane, the older
\* one comes first.
Plain(m) == m # Brief /\ m \notin updates
Order(a) ==
    {w \in Nat \X Nat :
        /\ w[1] # w[2]
        /\ kind[a] # "claude" /\ Plain(w[1]) /\ Plain(w[2]) => w[1] < w[2]}

\* What the program has read, what it has not, what is on its way and what waits.
Prompted(a) == FlattenSeq(pending[a])
InLine(a)   == Sorted(got[a], Prompted(a), Typed(a), queue[a], fyi[a], Order(a))

\* An agent that was not launched has nothing.
Fresh(a) ==
    status[a] = "none" =>
        /\ prog[a] = "none" /\ hooks[a] = <<>> /\ guiIn[a] = <<>>
        /\ ~pane[a] /\ ~spawning[a] /\ ~typeBrief[a]
        /\ queue[a] = <<>> /\ fyi[a] = <<>> /\ pending[a] = <<>> /\ got[a] = <<>>
        /\ ~Has(out, a)

\* While the GUI is to open a pane nothing else of the agent is on its way, and
\* nobody was given the brief but the one who will type it.
Opening(a) ==
    Spawn(out, a) =>
        /\ prog[a] = "none" /\ hooks[a] = <<>> /\ got[a] = <<>> /\ ~pane[a]
        /\ "opened" \notin Range(guiIn[a])
        /\ Once(out, a)
        /\ kind[a] # "mute" => Brief \notin Range(Copies(a))

Untyped(a) == typeBrief[a] => kind[a] = "mute" /\ Brief \notin Range(Copies(a))

\* Only what was accepted is in line; what is held back are updates; an agent that
\* is idle, or that never says so, has no queue.
Known(a) ==
    /\ Range(Copies(a)) \subseteq 0..sent /\ Range(fyi[a]) \subseteq updates
    /\ status[a] = "holding" \/ kind[a] = "mute" => queue[a] = <<>>

\* Which programs have panes, wait for hooks and report what.
Program(a) ==
    /\ pane[a] \/ spawning[a] => kind[a] \in PaneKinds
    /\ prog[a] \in {"stopping", "tool"} => kind[a] = "claude"
    /\ prog[a] = "none" /\ kind[a] \notin PaneKinds => status[a] = "none"
    /\ kind[a] = "acp" => Range(hooks[a]) \subseteq {"perm", "turnEnd", "exited"}

\* A report that its program waits to be answered is the last one it made.
Asked(a, e) == e \in {"stop", "tool", "perm"} \/ (e = "stopAgain" /\ kind[a] = "claude")
Fits(e, p)  == \/ e \in {"stop", "stopAgain"} /\ p = "stopping"
               \/ e = "tool" /\ p = "tool"
               \/ e = "perm" /\ p = "asking"
Waited(a) ==
    \A i \in 1..Len(hooks[a]) :
        Asked(a, hooks[a][i]) =>
            prog[a] = "gone" \/ (i = Len(hooks[a]) /\ Fits(hooks[a][i], prog[a]))

\* An ACP agent whose request is before the human, or whose driver is gone, says
\* nothing more.
Silent(a) ==
    perm[a] \/ (kind[a] = "acp" /\ Live(a) /\ ~handle[a]) =>
        /\ Live(a)
        /\ prog[a] = "gone" \/ (prog[a] = "asking" /\ hooks[a] = <<>>)

AgentInv(a) ==
    /\ InLine(a) /\ Fresh(a) /\ Opening(a) /\ Carries(out, a) /\ Untyped(a) /\ Known(a)
    /\ Program(a) /\ Waited(a) /\ Silent(a)

DeliveryInv == TypeOK /\ \A a \in Agents : AgentInv(a)

-----------------------------------------------------------------------------
(* How a step may change the line. *)

\* Prompts put together are a sequence of messages.
LEMMA FlattenType ==
    ASSUME NEW q \in Seq(Seq(Nat))
    PROVE  FlattenSeq(q) \in Seq(Nat)
BY FlattenAppend, EmptySeq

\* The five pieces of the line of an agent, and what they make together.
LEMMA PiecesNow ==
    ASSUME TypeOK, NEW a \in Agents
    PROVE  /\ got[a] \in Seq(Nat) /\ Prompted(a) \in Seq(Nat)
           /\ Typed(a) \in Seq(Nat) /\ Typed(a) = TypedIn(out, a)
           /\ queue[a] \in Seq(Nat) /\ fyi[a] \in Seq(Nat)
           /\ Range(Copies(a)) = Range(got[a]) \cup Range(Prompted(a)) \cup Range(Typed(a))
                                    \cup Range(queue[a]) \cup Range(fyi[a])
           /\ Copies(a) \in Seq(Nat)
           /\ Pairwise(Copies(a), Order(a)) <=> InLine(a)
<1>1. got[a] \in Seq(Nat) /\ queue[a] \in Seq(Nat) /\ fyi[a] \in Seq(Nat)
    BY DEF TypeOK
<1>2. Prompted(a) \in Seq(Nat)
    BY FlattenType DEF Prompted, TypeOK
<1>3. Typed(a) = TypedIn(out, a)
    BY DEF Typed, TypedIn, Shares
<1>4. TypedIn(out, a) \in Seq(Nat)
    BY SharesType, FlattenType DEF TypedIn, TypeOK, Letters
<1> DEFINE p == Prompted(a)
           t == Typed(a)
<1>5. /\ Copies(a) = got[a] \o p \o t \o queue[a] \o fyi[a]
      /\ p \in Seq(Nat) /\ t \in Seq(Nat)
    BY <1>2, <1>3, <1>4 DEF Copies, Prompted
<1>6. InLine(a) <=> Sorted(got[a], p, t, queue[a], fyi[a], Order(a))
    BY DEF InLine
<1> DEFINE c == got[a] \o p \o t \o queue[a] \o fyi[a]
<1> HIDE DEF p, t
<1>7. c \in Seq(Nat)
    BY <1>1, <1>5, LineIsSorted, Zenon
<1>8. Holds(c, got[a], p, t, queue[a], fyi[a])
    BY <1>1, <1>5, LineHolds, Zenon
<1>9. Pairwise(c, Order(a)) <=> Sorted(got[a], p, t, queue[a], fyi[a], Order(a))
    BY <1>1, <1>5, LineIsSorted, Zenon
<1> HIDE DEF c
<1>10. Copies(a) = c
    BY <1>5 DEF c
<1>11. QED
    BY <1>1, <1>2, <1>3, <1>4, <1>6, <1>7, <1>8, <1>9, <1>10 DEF p, t, Holds

\* The same after a step.
LEMMA PiecesThen ==
    ASSUME TypeOK', NEW a \in Agents
    PROVE  /\ got'[a] \in Seq(Nat) /\ Prompted(a)' \in Seq(Nat)
           /\ Typed(a)' \in Seq(Nat) /\ Typed(a)' = TypedIn(out', a)
           /\ queue'[a] \in Seq(Nat) /\ fyi'[a] \in Seq(Nat)
           /\ Range(Copies(a))' = Range(got'[a]) \cup Range(Prompted(a)')
                                     \cup Range(Typed(a)') \cup Range(queue'[a])
                                     \cup Range(fyi'[a])
<1>1. got'[a] \in Seq(Nat) /\ queue'[a] \in Seq(Nat) /\ fyi'[a] \in Seq(Nat)
    BY DEF TypeOK
<1>2. Prompted(a)' \in Seq(Nat)
    BY FlattenType DEF Prompted, TypeOK
<1>3. Typed(a)' = TypedIn(out', a)
    BY DEF Typed, TypedIn, Shares
<1>4. TypedIn(out', a) \in Seq(Nat)
    BY SharesType, FlattenType DEF TypedIn, TypeOK, Letters
<1> DEFINE p == Prompted(a)'
           t == Typed(a)'
           c == Copies(a)'
<1>5. /\ c = got'[a] \o p \o t \o queue'[a] \o fyi'[a]
      /\ p \in Seq(Nat) /\ t \in Seq(Nat)
    BY <1>2, <1>3, <1>4 DEF Copies, Prompted
<1> HIDE DEF p, t, c
<1>6. Holds(c, got'[a], p, t, queue'[a], fyi'[a])
    <2>1. Holds(got'[a] \o p \o t \o queue'[a] \o fyi'[a],
                got'[a], p, t, queue'[a], fyi'[a])
        BY <1>1, <1>5, LineHolds, Zenon
    <2>2. QED
        BY <1>5, <2>1, Zenon
<1>7. Range(Copies(a))' = Range(c)
    BY DEF c, Range
<1>8. QED
    BY <1>1, <1>2, <1>3, <1>4, <1>6, <1>7 DEF p, t, Holds

\* What may stand behind what only becomes more.
LEMMA OrderGrows ==
    ASSUME NEW a, kind' = kind, updates \subseteq updates'
    PROVE  Order(a) \subseteq Order(a)'
BY DEF Order, Plain

\* What a step adds to the line of an agent: a message that is accepted now, or the
\* brief, by the one who gives it.
Gained(a) ==
    \A m \in Range(Copies(a))' :
        \/ m \in Range(Copies(a))
        \/ m = sent' /\ sent' = sent + 1
        \/ m = Brief /\ ~typeBrief'[a] /\ ~Spawn(out, a)'

LineGoes(a) == InLine(a)' /\ Gained(a)

\* Some of the five are emptied, the others stay.
LEMMA LineShrinks ==
    ASSUME TypeOK, TypeOK', NEW a \in Agents, InLine(a),
           kind' = kind, updates \subseteq updates',
           got'[a] = got[a], Prompted(a)' \in {Prompted(a), <<>>},
           Typed(a)' \in {Typed(a), <<>>}, queue'[a] \in {queue[a], <<>>},
           fyi'[a] \in {fyi[a], <<>>}
    PROVE  /\ LineGoes(a) /\ Range(Copies(a))' \subseteq Range(Copies(a))
           /\ Range(got'[a]) = Range(got[a])
<1>1. Order(a) \subseteq Order(a)'
    BY OrderGrows
<1>2. Range(<<>>) = {} /\ Pairwise(<<>>, Order(a))
    BY ShortSequences
<1>3. /\ Range(Prompted(a)') \subseteq Range(Prompted(a))
      /\ Range(Typed(a)') \subseteq Range(Typed(a))
      /\ Range(queue'[a]) \subseteq Range(queue[a])
      /\ Range(fyi'[a]) \subseteq Range(fyi[a])
    BY <1>2
<1>4. /\ Pairwise(got'[a], Order(a)) /\ Pairwise(Prompted(a)', Order(a))
      /\ Pairwise(Typed(a)', Order(a)) /\ Pairwise(queue'[a], Order(a))
      /\ Pairwise(fyi'[a], Order(a))
    BY <1>2 DEF InLine, Sorted
<1>5. Sorted(got'[a], Prompted(a)', Typed(a)', queue'[a], fyi'[a], Order(a)')
    <2> DEFINE pp == Prompted(a)'
               tt == Typed(a)'
    <2>1. /\ Range(pp) \subseteq Range(Prompted(a)) /\ Pairwise(pp, Order(a))
          /\ Range(tt) \subseteq Range(Typed(a)) /\ Pairwise(tt, Order(a))
        BY <1>3, <1>4
    <2> HIDE DEF pp, tt
    <2>2. Sorted(got'[a], pp, tt, queue'[a], fyi'[a], Order(a)')
        BY <1>1, <1>3, <1>4, <2>1, SortedShrinks DEF InLine
    <2>3. QED
        BY <2>2 DEF pp, tt
<1>6. InLine(a)'
    BY <1>5 DEF InLine
<1>7. Range(Copies(a))' \subseteq Range(Copies(a))
    BY <1>3, PiecesNow, PiecesThen
<1>8. QED
    BY <1>6, <1>7 DEF LineGoes, Gained

\* All of the five stay.
LineStays(a) ==
    /\ got'[a] = got[a] /\ Prompted(a)' = Prompted(a) /\ Typed(a)' = Typed(a)
    /\ queue'[a] = queue[a] /\ fyi'[a] = fyi[a]

\* A step that touches none of the five keeps the line.
LEMMA LineKeeps ==
    ASSUME TypeOK, TypeOK', NEW a \in Agents, InLine(a),
           kind' = kind, updates \subseteq updates', LineStays(a)
    PROVE  LineGoes(a) /\ Range(Copies(a))' = Range(Copies(a))
<1>1. LineGoes(a)
    BY LineShrinks DEF LineStays
<1>2. Range(Copies(a))' = Range(Copies(a))
    BY PiecesNow, PiecesThen DEF LineStays
<1>3. QED
    BY <1>1, <1>2

\* A message is accepted: it goes to the end of the updates, of the queue, of what
\* is on its way or of the prompts, with nothing but updates behind it.
LEMMA LineGainsMessage ==
    ASSUME TypeOK, TypeOK', NEW a \in Agents, InLine(a), Known(a),
           kind' = kind, updates \subseteq updates', sent' = sent + 1,
           got'[a] = got[a],
           LET n == <<sent'>> IN
           \/ /\ fyi'[a] = fyi[a] \o n /\ queue'[a] = queue[a]
              /\ Typed(a)' = Typed(a) /\ Prompted(a)' = Prompted(a)
           \/ /\ fyi'[a] = fyi[a] /\ queue'[a] = queue[a] \o n
              /\ Typed(a)' = Typed(a) /\ Prompted(a)' = Prompted(a)
           \/ /\ fyi'[a] = fyi[a] /\ queue'[a] = queue[a] /\ queue[a] = <<>>
              /\ Typed(a)' = Typed(a) \o n /\ Prompted(a)' = Prompted(a)
           \/ /\ fyi'[a] = fyi[a] /\ queue'[a] = queue[a] /\ queue[a] = <<>>
              /\ Typed(a)' = Typed(a) /\ Typed(a) = <<>>
              /\ Prompted(a)' = Prompted(a) \o n
    PROVE  LineGoes(a) /\ Range(Copies(a)) \subseteq Range(Copies(a))'
<1> DEFINE g == got[a]
           p == Prompted(a)
           t == Typed(a)
           q == queue[a]
           f == fyi[a]
           pp == Prompted(a)'
           tt == Typed(a)'
           R == Order(a)
           RR == Order(a)'
           n == sent'
           e == <<n>>
<1>1. n \in Nat /\ sent \in Nat /\ n = sent + 1
    BY DEF TypeOK
<1>2. R \subseteq RR
    BY OrderGrows
<1>3. g \in Seq(Nat) /\ p \in Seq(Nat) /\ t \in Seq(Nat) /\ q \in Seq(Nat) /\ f \in Seq(Nat)
    BY PiecesNow
<1>4. Range(Copies(a)) = Range(g) \cup Range(p) \cup Range(t) \cup Range(q) \cup Range(f)
    BY PiecesNow
<1>5. Range(Copies(a))' = Range(got'[a]) \cup Range(pp) \cup Range(tt) \cup Range(queue'[a])
                             \cup Range(fyi'[a])
    BY PiecesThen
<1>6. Sorted(g, p, t, q, f, R)
    BY DEF InLine
<1>7. Range(<<>>) = {} /\ e \in Seq(Nat) /\ Range(e) = {n}
    BY <1>1, ShortSequences
<1>8. \A x \in Range(Copies(a)) : <<x, n>> \in RR
    BY <1>1 DEF Known, Order
<1>9. \A x \in Range(f) : <<n, x>> \in RR
    <2>1. SUFFICES ASSUME NEW x \in Range(f) PROVE <<n, x>> \in RR
        OBVIOUS
    <2>2. x \in 0..sent /\ x \in updates'
        BY <1>4 DEF Known
    <2>3. QED
        BY <1>1, <2>2 DEF Order, Plain
<1>10. \A s \in Seq(Nat) : Range(s \o e) = Range(s) \cup {n}
    <2> HIDE DEF e, n
    <2>1. QED
        BY <1>7, ConcatRange
<1>11. /\ (got'[a] = g /\ fyi'[a] = f \o e /\ queue'[a] = q /\ tt = t /\ pp = p)
             \/ (got'[a] = g /\ fyi'[a] = f /\ queue'[a] = q \o e /\ tt = t /\ pp = p)
             \/ (got'[a] = g /\ fyi'[a] = f /\ queue'[a] = q /\ q = <<>>
                   /\ tt = t \o e /\ pp = p)
             \/ (got'[a] = g /\ fyi'[a] = f /\ queue'[a] = q /\ q = <<>>
                   /\ tt = t /\ t = <<>> /\ pp = p \o e)
    OBVIOUS
<1>12. /\ Sorted(g, p, t, q, f \o e, RR)
       /\ Sorted(g, p, t, q \o e, f, RR)
       /\ q = <<>> => Sorted(g, p, t \o e, q, f, RR)
       /\ q = <<>> /\ t = <<>> => Sorted(g, p \o e, t, q, f, RR)
    <2>1. \A x \in Range(g) \cup Range(p) \cup Range(t) \cup Range(q) \cup Range(f) :
             <<x, n>> \in RR
        BY <1>4, <1>8
    <2>2. n \in Nat
        BY <1>1
    <2> HIDE DEF g, p, t, q, f, R, RR, n
    <2>3. Sorted(g, p, t, q, f \o <<n>>, RR)
        BY <1>2, <1>3, <1>6, <2>1, <2>2, SortedGains
    <2>4. Sorted(g, p, t, q \o <<n>>, f, RR)
        BY <1>2, <1>3, <1>6, <1>9, <2>1, <2>2, SortedGains
    <2>5. q = <<>> => Sorted(g, p, t \o <<n>>, q, f, RR)
        <3>1. q = <<>> => \A x \in Range(q) \cup Range(f) : <<n, x>> \in RR
            BY <1>7, <1>9
        <3>2. QED
            BY <1>2, <1>3, <1>6, <2>1, <2>2, <3>1, SortedGains
    <2>6. q = <<>> /\ t = <<>> => Sorted(g, p \o <<n>>, t, q, f, RR)
        <3>1. q = <<>> /\ t = <<>> =>
                 \A x \in Range(t) \cup Range(q) \cup Range(f) : <<n, x>> \in RR
            BY <1>7, <1>9
        <3>2. QED
            BY <1>2, <1>3, <1>6, <2>1, <2>2, <3>1, SortedGains
    <2>7. QED
        BY <2>3, <2>4, <2>5, <2>6
<1> HIDE DEF g, p, t, q, f, pp, tt, R, RR, n, e
<1>13. Sorted(got'[a], pp, tt, queue'[a], fyi'[a], RR)
    BY <1>11, <1>12
<1>14. InLine(a)'
    BY <1>13 DEF InLine, pp, tt, RR
<1>15. /\ Range(Copies(a)) \subseteq Range(Copies(a))'
       /\ Range(Copies(a))' \subseteq Range(Copies(a)) \cup {n}
    BY <1>3, <1>4, <1>5, <1>10, <1>11, ZenonT(40)
<1>16. QED
    BY <1>14, <1>15 DEF LineGoes, Gained, n

\* The brief is given: on its way to the pane, to a program that starts with it.
LEMMA LineGainsBrief ==
    ASSUME TypeOK, TypeOK', NEW a \in Agents, InLine(a),
           kind' = kind, updates' = updates,
           Brief \notin Range(Copies(a)), ~typeBrief'[a], ~Spawn(out, a)',
           queue'[a] = queue[a], fyi'[a] = fyi[a],
           LET n == <<Brief>> IN
           \/ /\ Typed(a)' = Typed(a) \o n /\ Prompted(a)' = Prompted(a)
              /\ got'[a] = got[a]
           \/ /\ Typed(a)' = Typed(a) /\ Prompted(a)' = Prompted(a) \o n
              /\ got'[a] = got[a]
           \/ /\ Typed(a)' = Typed(a) /\ Prompted(a)' = Prompted(a)
              /\ got'[a] = got[a] \o n
    PROVE  LineGoes(a) /\ Range(Copies(a)) \subseteq Range(Copies(a))'
<1> DEFINE g == got[a]
           p == Prompted(a)
           t == Typed(a)
           q == queue[a]
           f == fyi[a]
           pp == Prompted(a)'
           tt == Typed(a)'
           R == Order(a)
           n == Brief
           e == <<n>>
           C == Range(Copies(a))
<1>1. Order(a)' = R
    BY DEF Order, Plain
<1>2. n \in Nat /\ n = Brief
    BY DEF Brief
<1>3. g \in Seq(Nat) /\ p \in Seq(Nat) /\ t \in Seq(Nat) /\ q \in Seq(Nat) /\ f \in Seq(Nat)
    BY PiecesNow
<1>4. C = Range(g) \cup Range(p) \cup Range(t) \cup Range(q) \cup Range(f)
    BY PiecesNow
<1>5. Range(Copies(a))' = Range(got'[a]) \cup Range(pp) \cup Range(tt) \cup Range(queue'[a])
                             \cup Range(fyi'[a])
    BY PiecesThen
<1>6. Sorted(g, p, t, q, f, R)
    BY DEF InLine
<1>7. C \subseteq Nat
    <2>1. Copies(a) \in Seq(Nat)
        BY PiecesNow
    <2>2. QED
        BY <2>1, LenProperties, ElementOfSeq DEF Range
<1>8. \A x \in C : <<x, n>> \in R /\ <<n, x>> \in R
    BY <1>2, <1>7 DEF Order, Plain
<1>9. /\ queue'[a] = q /\ fyi'[a] = f
      /\ \/ got'[a] = g /\ tt = t \o e /\ pp = p
         \/ got'[a] = g /\ tt = t /\ pp = p \o e
         \/ got'[a] = g \o e /\ tt = t /\ pp = p
    OBVIOUS
<1> HIDE DEF g, p, t, q, f, pp, tt, R, n, e, C
<1>10. /\ Sorted(g, p, t \o <<n>>, q, f, R) /\ Sorted(g, p \o <<n>>, t, q, f, R)
       /\ Sorted(g \o <<n>>, p, t, q, f, R)
    <2>1. /\ \A x \in Range(g) \cup Range(p) \cup Range(t) \cup Range(q) \cup Range(f) :
                <<x, n>> \in R /\ <<n, x>> \in R
          /\ R \subseteq R
        BY <1>4, <1>8
    <2>2. Sorted(g, p, t \o <<n>>, q, f, R)
        BY <1>2, <1>3, <1>6, <2>1, SortedGains
    <2>3. Sorted(g, p \o <<n>>, t, q, f, R)
        BY <1>2, <1>3, <1>6, <2>1, SortedGains
    <2>4. Sorted(g \o <<n>>, p, t, q, f, R)
        BY <1>2, <1>3, <1>6, <2>1, SortedGains
    <2>5. QED
        BY <2>2, <2>3, <2>4
<1>11. InLine(a)'
    <2>1. Sorted(got'[a], pp, tt, queue'[a], fyi'[a], R)
        BY <1>9, <1>10 DEF e
    <2>2. QED
        BY <1>1, <2>1 DEF InLine, pp, tt
<1>12. e \in Seq(Nat) /\ Range(e) = {n}
    BY <1>2, ShortSequences DEF e
<1>13. \A s \in Seq(Nat) : Range(s \o e) = Range(s) \cup {n}
    BY <1>12, ConcatRange
<1>14. C \subseteq Range(Copies(a))' /\ Range(Copies(a))' \subseteq C \cup {n}
    <2>1. Range(t \o e) = Range(t) \cup {n} /\ Range(p \o e) = Range(p) \cup {n}
          /\ Range(g \o e) = Range(g) \cup {n}
        BY <1>3, <1>13
    <2>2. QED
        BY <1>4, <1>5, <1>9, <2>1
<1>15. QED
    BY <1>2, <1>11, <1>14 DEF LineGoes, Gained, C

\* The entries of three sequences put together.
LEMMA ThreeRanges ==
    ASSUME NEW u \in Seq(Nat), NEW v \in Seq(Nat), NEW w \in Seq(Nat)
    PROVE  /\ Range(u \o (v \o w)) = Range(u) \cup (Range(v) \cup Range(w))
           /\ Range(u \o v \o w) = Range(u) \cup Range(v) \cup Range(w)
<1> DEFINE vw == v \o w
           uv == u \o v
<1>1. vw \in Seq(Nat) /\ Range(vw) = Range(v) \cup Range(w)
    BY ConcatRange
<1>2. uv \in Seq(Nat) /\ Range(uv) = Range(u) \cup Range(v)
    BY ConcatRange
<1> HIDE DEF vw, uv
<1>3. Range(u \o vw) = Range(u) \cup Range(vw)
    BY <1>1, ConcatRange
<1>4. Range(uv \o w) = Range(uv) \cup Range(w)
    BY <1>2, ConcatRange, SMTT(30)
<1>5. QED
    BY <1>1, <1>2, <1>3, <1>4 DEF vw, uv

\* Messages move on: typed into the pane, read by the program, handed over at the
\* end of a turn (to the pane, or to the child or the chat), or, to Claude, with
\* the answer of a hook.
LEMMA LineMoves ==
    ASSUME TypeOK, TypeOK', NEW a \in Agents, InLine(a),
           kind' = kind, updates' = updates, NEW h \in Seq(Nat),
           \/ /\ got'[a] = got[a] \o h /\ Prompted(a) = h \o Prompted(a)'
              /\ Typed(a)' = Typed(a) /\ queue'[a] = queue[a] /\ fyi'[a] = fyi[a]
           \/ /\ Prompted(a)' = Prompted(a) \o h /\ Typed(a) = h \o Typed(a)'
              /\ got'[a] = got[a] /\ queue'[a] = queue[a] /\ fyi'[a] = fyi[a]
           \/ /\ Typed(a)' = Typed(a) \o (queue[a] \o fyi[a])
              /\ queue'[a] = <<>> /\ fyi'[a] = <<>>
              /\ got'[a] = got[a] /\ Prompted(a)' = Prompted(a)
           \/ /\ Prompted(a)' = Prompted(a) \o (queue[a] \o fyi[a])
              /\ queue'[a] = <<>> /\ fyi'[a] = <<>>
              /\ got'[a] = got[a] /\ Typed(a) = <<>> /\ Typed(a)' = <<>>
           \/ /\ kind[a] = "claude" /\ got'[a] = got[a] \o queue[a] \o fyi[a]
              /\ queue'[a] = <<>> /\ fyi'[a] = <<>>
              /\ Typed(a)' = Typed(a) /\ Prompted(a)' = Prompted(a)
           \/ /\ kind[a] = "claude" /\ got'[a] = got[a] \o fyi[a]
              /\ queue'[a] = queue[a] /\ fyi'[a] = <<>>
              /\ Typed(a)' = Typed(a) /\ Prompted(a)' = Prompted(a)
    PROVE  LineGoes(a) /\ Range(Copies(a))' = Range(Copies(a))
<1> DEFINE g == got[a]
           p == Prompted(a)
           t == Typed(a)
           q == queue[a]
           f == fyi[a]
           pp == Prompted(a)'
           tt == Typed(a)'
           R == Order(a)
           C == Range(Copies(a))
<1>1. Order(a)' = R
    BY DEF Order, Plain
<1>2. pp \in Seq(Nat) /\ tt \in Seq(Nat)
    BY PiecesThen
<1>3. g \in Seq(Nat) /\ p \in Seq(Nat) /\ t \in Seq(Nat) /\ q \in Seq(Nat) /\ f \in Seq(Nat)
    BY PiecesNow
<1>4. C = Range(g) \cup Range(p) \cup Range(t) \cup Range(q) \cup Range(f)
    BY PiecesNow
<1>5. Range(Copies(a))' = Range(got'[a]) \cup Range(pp) \cup Range(tt) \cup Range(queue'[a])
                             \cup Range(fyi'[a])
    BY PiecesThen
<1>6. Sorted(g, p, t, q, f, R)
    BY DEF InLine
<1>7. \A x, y \in Nat : <<x, y>> \in R /\ kind[a] = "claude" => <<y, x>> \in R
    BY DEF Order
<1>8. Range(<<>>) = {} /\ <<>> \in Seq(Nat)
    BY ShortSequences, EmptySeq
<1>9. \A u, v \in Seq(Nat) : u \o v \in Seq(Nat) /\ Range(u \o v) = Range(u) \cup Range(v)
    BY ConcatRange
<1>10. ASSUME Sorted(got'[a], pp, tt, queue'[a], fyi'[a], R), Range(Copies(a))' = C
       PROVE  LineGoes(a) /\ Range(Copies(a))' = Range(Copies(a))
    BY <1>1, <1>10, SMTT(30) DEF InLine, LineGoes, Gained
<1>11. \/ got'[a] = g \o h /\ p = h \o pp /\ tt = t /\ queue'[a] = q /\ fyi'[a] = f
       \/ pp = p \o h /\ t = h \o tt /\ got'[a] = g /\ queue'[a] = q /\ fyi'[a] = f
       \/ tt = t \o (q \o f) /\ queue'[a] = <<>> /\ fyi'[a] = <<>> /\ got'[a] = g /\ pp = p
       \/ /\ pp = p \o (q \o f) /\ queue'[a] = <<>> /\ fyi'[a] = <<>> /\ got'[a] = g
          /\ t = <<>> /\ tt = <<>>
       \/ /\ kind[a] = "claude" /\ got'[a] = g \o q \o f /\ queue'[a] = <<>>
          /\ fyi'[a] = <<>> /\ tt = t /\ pp = p
       \/ /\ kind[a] = "claude" /\ got'[a] = g \o f /\ queue'[a] = q /\ fyi'[a] = <<>>
          /\ tt = t /\ pp = p
    OBVIOUS
<1> SUFFICES /\ Sorted(got'[a], pp, tt, queue'[a], fyi'[a], R)
             /\ Range(Copies(a))' = C
    BY <1>10
<1> HIDE DEF g, p, t, q, f, pp, tt, R, C
<1>12. CASE got'[a] = g \o h /\ p = h \o pp /\ tt = t /\ queue'[a] = q /\ fyi'[a] = f
    <2>1. Sorted(g \o h, pp, t, q, f, R)
        BY <1>2, <1>3, <1>6, <1>12, SortedMoves
    <2>2. Range(Copies(a))' = C
        BY <1>2, <1>3, <1>4, <1>5, <1>9, <1>12
    <2>3. QED
        BY <1>12, <2>1, <2>2, SMTT(30)
<1>13. CASE pp = p \o h /\ t = h \o tt /\ got'[a] = g /\ queue'[a] = q /\ fyi'[a] = f
    <2>1. Sorted(g, p \o h, tt, q, f, R)
        BY <1>2, <1>3, <1>6, <1>13, SortedMoves
    <2>2. Range(Copies(a))' = C
        BY <1>2, <1>3, <1>4, <1>5, <1>9, <1>13
    <2>3. QED
        BY <1>13, <2>1, <2>2
<1>14. CASE tt = t \o (q \o f) /\ queue'[a] = <<>> /\ fyi'[a] = <<>> /\ got'[a] = g /\ pp = p
    <2>1. Sorted(g, p, t \o (q \o f), <<>>, <<>>, R)
        BY <1>3, <1>6, SortedMoves
    <2>2. Range(Copies(a))' = C
        <3>1. Range(t \o (q \o f)) = Range(t) \cup (Range(q) \cup Range(f))
            BY <1>3, ThreeRanges
        <3>2. QED
            BY <1>4, <1>5, <1>8, <1>14, <3>1
    <2>3. QED
        BY <1>14, <2>1, <2>2
<1>15. CASE /\ pp = p \o (q \o f) /\ queue'[a] = <<>> /\ fyi'[a] = <<>> /\ got'[a] = g
            /\ t = <<>> /\ tt = <<>>
    <2>1. Sorted(g, p \o (q \o f), <<>>, <<>>, <<>>, R)
        BY <1>3, <1>6, <1>15, SortedMoves
    <2>2. Range(Copies(a))' = C
        <3>1. Range(p \o (q \o f)) = Range(p) \cup (Range(q) \cup Range(f))
            BY <1>3, ThreeRanges, SMTT(30)
        <3>2. QED
            BY <1>4, <1>5, <1>8, <1>15, <3>1
    <2>3. QED
        BY <1>15, <2>1, <2>2
<1>16. CASE /\ kind[a] = "claude" /\ got'[a] = g \o q \o f /\ queue'[a] = <<>>
            /\ fyi'[a] = <<>> /\ tt = t /\ pp = p
    <2>1. Sorted(g \o q \o f, p, t, <<>>, <<>>, R)
        BY <1>3, <1>6, <1>7, <1>16, SortedJumps, ZenonT(40)
    <2>2. Range(Copies(a))' = C
        <3>1. Range(g \o q \o f) = Range(g) \cup Range(q) \cup Range(f)
            BY <1>3, ThreeRanges
        <3>2. QED
            BY <1>4, <1>5, <1>8, <1>16, <3>1
    <2>3. QED
        BY <1>16, <2>1, <2>2, SMTT(30)
<1>17. CASE /\ kind[a] = "claude" /\ got'[a] = g \o f /\ queue'[a] = q /\ fyi'[a] = <<>>
            /\ tt = t /\ pp = p
    <2>1. Sorted(g \o f, p, t, q, <<>>, R)
        BY <1>3, <1>6, <1>7, <1>17, SortedJumps
    <2>2. Range(Copies(a))' = C
        BY <1>3, <1>4, <1>5, <1>8, <1>9, <1>17
    <2>3. QED
        BY <1>17, <2>1, <2>2, SMTT(30)
<1>18. QED
    BY <1>11, <1>12, <1>13, <1>14, <1>15, <1>16, <1>17

\* What was typed for a program that is gone is lost.
LEMMA LineLosesHead ==
    ASSUME TypeOK, TypeOK', NEW a \in Agents, InLine(a),
           kind' = kind, updates' = updates, NEW h \in Seq(Nat),
           Typed(a) = h \o Typed(a)', got'[a] = got[a], Prompted(a)' = Prompted(a),
           queue'[a] = queue[a], fyi'[a] = fyi[a]
    PROVE  LineGoes(a)
<1> DEFINE t == Typed(a)
           tt == Typed(a)'
           p == Prompted(a)
           R == Order(a)
<1>1. Order(a)' = R
    BY DEF Order, Plain
<1>2. tt \in Seq(Nat) /\ t = h \o tt
    BY PiecesThen
<1>3. Sorted(got[a], p, t, queue[a], fyi[a], R)
    BY DEF InLine
<1>4. /\ Range(Copies(a)) = Range(got[a]) \cup Range(p) \cup Range(t) \cup Range(queue[a])
                               \cup Range(fyi[a])
      /\ Range(Copies(a))' = Range(got'[a]) \cup Range(Prompted(a)') \cup Range(tt)
                                \cup Range(queue'[a]) \cup Range(fyi'[a])
    BY PiecesNow, PiecesThen
<1> HIDE DEF t, tt, R
<1>5. Range(tt) \subseteq Range(t) /\ (Pairwise(t, R) => Pairwise(tt, R))
    BY <1>2, ConcatRange, ConcatPairwise
<1>6. Sorted(got[a], p, tt, queue[a], fyi[a], R)
    <2> HIDE DEF p
    <2>1. R \subseteq R
        OBVIOUS
    <2>2. Pairwise(got[a], R) /\ Pairwise(p, R) /\ Pairwise(t, R) /\ Pairwise(queue[a], R)
          /\ Pairwise(fyi[a], R)
        BY <1>3 DEF Sorted
    <2>3. QED
        BY <1>3, <1>5, <2>1, <2>2, SortedShrinks
<1>7. InLine(a)'
    BY <1>1, <1>6 DEF InLine, tt, R
<1>8. QED
    BY <1>4, <1>5, <1>7 DEF LineGoes, Gained

-----------------------------------------------------------------------------
(* What a step of one agent leaves alone. *)

Same(a) ==
    /\ status'[a] = status[a] /\ pane'[a] = pane[a] /\ queue'[a] = queue[a]
    /\ fyi'[a] = fyi[a] /\ spawning'[a] = spawning[a] /\ typeBrief'[a] = typeBrief[a]
    /\ handle'[a] = handle[a] /\ perm'[a] = perm[a] /\ guiIn'[a] = guiIn[a]
    /\ hooks'[a] = hooks[a] /\ prog'[a] = prog[a] /\ pending'[a] = pending[a]
    /\ got'[a] = got[a]

\* One letter of the agent's is written, or carried over, or none.
MailStep(b) ==
    \/ out' = out
    \/ \E l \in Letters : l[1] = b /\ out' = Append(out, l)
    \/ out # <<>> /\ Head(out)[1] = b /\ out' = Tail(out)

Alone(b) ==
    /\ kind' = kind /\ updates \subseteq updates' /\ MailStep(b)
    /\ \/ sent' = sent /\ updates' = updates
       \/ sent' = sent + 1 /\ updates' \subseteq updates \cup {sent'}
    /\ \A a \in Agents : a # b => Same(a)

\* Which letters the helpers write, and which agents they leave alone: a letter to a pane,
LEMMA ToPaneMail ==
    ASSUME NEW a \in Agents, NEW what \in {"spawn", "type", "close"},
           NEW msgs \in Seq(Nat), ToPane(a, what, msgs)
    PROVE  MailStep(a)
<1>1. <<a, what, msgs>> \in Letters
    BY DEF Letters
<1> DEFINE l == <<a, what, msgs>>
<1>2. l[1] = a /\ l \in Letters /\ (out' = out \/ out' = Append(out, l))
    BY <1>1 DEF ToPane
<1> HIDE DEF l
<1>3. QED
    BY <1>2 DEF MailStep

\* send_now,
LEMMA SendNowAlone ==
    ASSUME TypeOK, NEW a \in Agents, NEW msgs \in Seq(Nat), SendNow(a, msgs)
    PROVE  /\ MailStep(a)
           /\ \A b \in Agents : b # a => status'[b] = status[b] /\ pending'[b] = pending[b]
<1>1. CASE kind[a] \in PaneKinds
    BY <1>1, ToPaneMail DEF SendNow, TypeOK
<1>2. CASE kind[a] \notin PaneKinds
    <2>1. out' = out
        BY <1>2 DEF SendNow
    <2>2. QED
        BY <1>2, <2>1 DEF SendNow, TypeOK, MailStep
<1>3. QED
    BY <1>1, <1>2

\* stop_agent,
LEMMA StopAlone ==
    ASSUME TypeOK, NEW a \in Agents, Stop(a)
    PROVE  /\ MailStep(a)
           /\ \A b \in Agents : b # a =>
                 /\ status'[b] = status[b] /\ queue'[b] = queue[b]
                 /\ perm'[b] = perm[b] /\ handle'[b] = handle[b]
<1>1. MailStep(a)
    <2>1. CASE pane[a]
        BY <2>1, ToPaneMail, EmptySeq DEF Stop
    <2>2. CASE ~pane[a]
        BY <2>2 DEF Stop, MailStep
    <2>3. QED
        BY <2>1, <2>2
<1>2. QED
    BY <1>1, SMTT(30) DEF Stop, Offline, TypeOK

\* on_idle.
LEMMA OnIdleAlone ==
    ASSUME TypeOK, NEW a \in Agents, OnIdle(a)
    PROVE  /\ MailStep(a)
           /\ \A b \in Agents : b # a =>
                 /\ status'[b] = status[b] /\ queue'[b] = queue[b] /\ fyi'[b] = fyi[b]
                 /\ perm'[b] = perm[b] /\ handle'[b] = handle[b]
                 /\ pending'[b] = pending[b]
<1>1. CASE ~Live(a)
    BY <1>1 DEF OnIdle, MailStep
<1>2. CASE Live(a) /\ stopAfter[a]
    BY <1>2, StopAlone DEF OnIdle, IdleLive
<1>3. CASE Live(a) /\ ~stopAfter[a]
    <2>1. HandOver(a) /\ UNCHANGED <<handle, perm>>
        BY <1>3 DEF OnIdle, IdleLive
    <2>2. queue[a] \o fyi[a] \in Seq(Nat)
        BY QueueType DEF TypeOK
    <2>3. CASE SendNow(a, queue[a] \o fyi[a])
        BY <2>1, <2>2, <2>3, SendNowAlone DEF HandOver, TypeOK
    <2>4. CASE /\ status' = [status EXCEPT ![a] = "holding"]
               /\ UNCHANGED <<out, pending>>
        BY <2>1, <2>4 DEF HandOver, TypeOK, MailStep
    <2>5. QED
        BY <2>1, <2>3, <2>4 DEF HandOver
<1>4. QED
    BY <1>1, <1>2, <1>3

\* A report that the engine reads is about one agent.
LEMMA HandleHookAlone ==
    ASSUME TypeOK, NEW a \in Agents, HandleHook(a)
    PROVE  Alone(a)
<1>1. /\ kind' = kind /\ updates' = updates /\ sent' = sent
      /\ \A b \in Agents : b # a =>
            /\ pane'[b] = pane[b] /\ spawning'[b] = spawning[b]
            /\ typeBrief'[b] = typeBrief[b] /\ guiIn'[b] = guiIn[b]
            /\ hooks'[b] = hooks[b]
    BY DEF HandleHook, accepted, TypeOK
<1> SUFFICES /\ MailStep(a)
             /\ \A b \in Agents : b # a =>
                   /\ status'[b] = status[b] /\ queue'[b] = queue[b] /\ fyi'[b] = fyi[b]
                   /\ perm'[b] = perm[b] /\ handle'[b] = handle[b]
                   /\ pending'[b] = pending[b] /\ prog'[b] = prog[b] /\ got'[b] = got[b]
    BY <1>1 DEF Alone, Same
<1>2. ASSUME NEW s, SetStatus(a, s),
             perm' = perm \/ perm' = [perm EXCEPT ![a] = TRUE]
      PROVE  /\ MailStep(a)
             /\ \A b \in Agents : b # a =>
                   /\ status'[b] = status[b] /\ queue'[b] = queue[b] /\ fyi'[b] = fyi[b]
                   /\ perm'[b] = perm[b] /\ handle'[b] = handle[b]
                   /\ pending'[b] = pending[b] /\ prog'[b] = prog[b] /\ got'[b] = got[b]
    BY <1>2 DEF SetStatus, program, TypeOK, MailStep
<1>3. ASSUME NEW heard, OnTool(a, heard)
      PROVE  /\ MailStep(a)
             /\ \A b \in Agents : b # a =>
                   /\ status'[b] = status[b] /\ queue'[b] = queue[b] /\ fyi'[b] = fyi[b]
                   /\ perm'[b] = perm[b] /\ handle'[b] = handle[b]
                   /\ pending'[b] = pending[b] /\ prog'[b] = prog[b] /\ got'[b] = got[b]
    BY <1>3, SMTT(30) DEF OnTool, TypeOK, MailStep
<1>4. ASSUME NEW heard, AnswerStop(a, heard)
      PROVE  /\ MailStep(a)
             /\ \A b \in Agents : b # a =>
                   /\ status'[b] = status[b] /\ queue'[b] = queue[b] /\ fyi'[b] = fyi[b]
                   /\ perm'[b] = perm[b] /\ handle'[b] = handle[b]
                   /\ pending'[b] = pending[b] /\ prog'[b] = prog[b] /\ got'[b] = got[b]
    BY <1>4, SMTT(30) DEF AnswerStop, TypeOK, MailStep
<1>5. ASSUME OnIdle(a), UNCHANGED <<prog, got>> \/ \E heard : LetStop(a, heard)
      PROVE  /\ MailStep(a)
             /\ \A b \in Agents : b # a =>
                   /\ status'[b] = status[b] /\ queue'[b] = queue[b] /\ fyi'[b] = fyi[b]
                   /\ perm'[b] = perm[b] /\ handle'[b] = handle[b]
                   /\ pending'[b] = pending[b] /\ prog'[b] = prog[b] /\ got'[b] = got[b]
    <2>1. \A b \in Agents : b # a => prog'[b] = prog[b] /\ got'[b] = got[b]
        BY <1>5 DEF LetStop, TypeOK
    <2>2. QED
        BY <1>5, <2>1, OnIdleAlone
<1>6. ASSUME Gone(a), handle' = handle \/ handle' = [handle EXCEPT ![a] = FALSE]
      PROVE  /\ MailStep(a)
             /\ \A b \in Agents : b # a =>
                   /\ status'[b] = status[b] /\ queue'[b] = queue[b] /\ fyi'[b] = fyi[b]
                   /\ perm'[b] = perm[b] /\ handle'[b] = handle[b]
                   /\ pending'[b] = pending[b] /\ prog'[b] = prog[b] /\ got'[b] = got[b]
    BY <1>6, SMTT(30) DEF Gone, Offline, program, TypeOK, MailStep
<1> DEFINE what == Head(hooks[a])
<1> HIDE DEF what
<1>7. \/ \E s : SetStatus(a, s) /\ (perm' = perm \/ perm' = [perm EXCEPT ![a] = TRUE])
      \/ \E heard : OnTool(a, heard)
      \/ \E continuing, heard : OnStop(a, continuing, heard)
      \/ OnIdle(a) /\ UNCHANGED <<prog, got>>
      \/ Gone(a) /\ (handle' = handle \/ handle' = [handle EXCEPT ![a] = FALSE])
    BY DEF HandleHook
<1>8. \A continuing, heard : OnStop(a, continuing, heard) =>
         AnswerStop(a, heard) \/ (LetStop(a, heard) /\ OnIdle(a))
    BY DEF OnStop
<1>9. QED
    BY <1>2, <1>3, <1>4, <1>5, <1>6, <1>7, <1>8

\* A program that starts.
LEMMA StartsAlone ==
    ASSUME TypeOK, NEW b, Starts(b)
    PROVE  \A a \in Agents : a # b =>
              prog'[a] = prog[a] /\ got'[a] = got[a] /\ hooks'[a] = hooks[a]
<1>1. UNCHANGED hooks \/ \E events : Post(b, events)
    BY DEF Starts
<1>2. \A a \in Agents : a # b => hooks'[a] = hooks[a]
    BY <1>1 DEF Post, TypeOK
<1>3. \A a \in Agents : a # b => prog'[a] = prog[a] /\ got'[a] = got[a]
    BY ZenonT(40) DEF Starts, TypeOK
<1>4. QED
    BY <1>2, <1>3

\* Every step of an agent is alone in this sense.
LEMMA StepAlone ==
    ASSUME TypeOK, NEW a \in Agents,
           \/ Launch(a) \/ Deliver(a) \/ DeliverFyi(a) \/ StopAgent(a) \/ ToolReturn(a)
           \/ Answer(a) \/ Reload(a) \/ HandleGui(a) \/ HandleHook(a)
           \/ Opens(a) \/ Types(a) \/ Closes(a)
           \/ Reads(a) \/ HumanPrompts(a) \/ UsesTool(a) \/ Asks(a) \/ EndsTurn(a)
           \/ HookGivesUp(a) \/ IdleNotice(a) \/ Quits(a)
    PROVE  Alone(a)
<1>1. sent \in Nat /\ sent + 1 \in Nat
    BY DEF TypeOK
<1>2. CASE Launch(a)
    <2>1. MailStep(a)
        <3>1. CASE kind[a] \in PaneKinds
            BY <1>2, <3>1, ToPaneMail, EmptySeq DEF Launch
        <3>2. CASE kind[a] \notin PaneKinds
            BY <1>2, <3>2 DEF Launch, MailStep
        <3>3. QED
            BY <3>1, <3>2
    <2>2. \A b \in Agents : b # a => Same(b)
        BY <1>2, SMTT(30) DEF Launch, TypeOK, Same
    <2>3. QED
        BY <1>2, <2>1, <2>2 DEF Launch, Alone, accepted
<1>3. CASE Deliver(a)
    <2>1. <<sent'>> \in Seq(Nat)
        BY <1>1, <1>3 DEF Deliver
    <2>2. CASE SendNow(a, <<sent'>>) /\ queue' = queue
        <3>1. /\ MailStep(a)
              /\ \A b \in Agents : b # a => status'[b] = status[b] /\ pending'[b] = pending[b]
            BY <2>1, <2>2, SendNowAlone
        <3>2. QED
            BY <1>3, <2>2, <3>1 DEF Deliver, Alone, Same
    <2>3. CASE /\ queue' = [queue EXCEPT ![a] = Append(@, sent')]
               /\ UNCHANGED <<status, out, pending>>
        <3>1. \A b \in Agents : b # a => queue'[b] = queue[b]
            BY <2>3 DEF TypeOK
        <3>2. QED
            BY <1>3, <2>3, <3>1 DEF Deliver, Alone, Same, MailStep
    <2>4. QED
        BY <1>3, <2>2, <2>3 DEF Deliver
<1>4. CASE DeliverFyi(a)
    <2>1. \A b \in Agents : b # a => fyi'[b] = fyi[b]
        BY <1>4 DEF DeliverFyi, TypeOK
    <2>2. QED
        BY <1>4, <2>1 DEF DeliverFyi, Alone, Same, MailStep, lines, program
<1>5. CASE StopAgent(a)
    BY <1>5, StopAlone DEF StopAgent, Alone, Same, program, accepted
<1>6. CASE ToolReturn(a)
    BY <1>6 DEF ToolReturn, Alone, Same, MailStep, lines, program, accepted
<1>7. CASE Answer(a)
    <2>1. \A b \in Agents : b # a => Same(b)
        BY <1>7 DEF Answer, TypeOK, Same, lines
    <2>2. QED
        BY <1>7, <2>1 DEF Answer, Alone, MailStep, lines, accepted
<1>8. CASE HandleGui(a)
    <2>1. MailStep(a)
        <3>1. CASE PaneOpened(a)
            <4>1. <<Brief>> \in Seq(Nat)
                BY DEF Brief
            <4>2. CASE typeBrief[a]
                BY <3>1, <4>1, <4>2, ToPaneMail DEF PaneOpened
            <4>3. CASE ~typeBrief[a]
                BY <3>1, <4>3 DEF PaneOpened, MailStep
            <4>4. QED
                BY <4>2, <4>3
        <3>2. CASE out' = out
            BY <3>2 DEF MailStep
        <3>3. QED
            BY <1>8, <3>1, <3>2 DEF HandleGui
    <2>2. \A b \in Agents : b # a => Same(b)
        <3>1. \A b \in Agents : b # a =>
                 /\ guiIn'[b] = guiIn[b] /\ spawning'[b] = spawning[b]
                 /\ fyi'[b] = fyi[b] /\ handle'[b] = handle[b] /\ hooks'[b] = hooks[b]
                 /\ prog'[b] = prog[b] /\ pending'[b] = pending[b] /\ got'[b] = got[b]
            BY <1>8 DEF HandleGui, TypeOK, program
        <3>2. CASE PaneOpened(a)
            BY <3>1, <3>2 DEF PaneOpened, TypeOK, Same
        <3>3. CASE Offline(a) /\ UNCHANGED <<pane, typeBrief>>
            BY <3>1, <3>3 DEF Offline, TypeOK, Same
        <3>4. CASE UNCHANGED <<pane, typeBrief, status, queue, perm>>
            BY <3>1, <3>4 DEF Same
        <3>5. QED
            BY <1>8, <3>2, <3>3, <3>4 DEF HandleGui
    <2>3. QED
        BY <1>8, <2>1, <2>2 DEF HandleGui, Alone, accepted
<1>9. CASE HandleHook(a)
    BY <1>9, HandleHookAlone
<1>10. CASE Opens(a)
    <2>1. \A b \in Agents : b # a => Same(b)
        <3>1. \A b \in Agents : b # a => guiIn'[b] = guiIn[b]
            BY <1>10 DEF Opens, TellEngine, TypeOK
        <3>2. \A b \in Agents : b # a =>
                 prog'[b] = prog[b] /\ got'[b] = got[b] /\ hooks'[b] = hooks[b]
            BY <1>10, StartsAlone DEF Opens
        <3>3. QED
            BY <1>10, <3>1, <3>2 DEF Opens, Same, engine
    <2>2. QED
        BY <1>10, <2>1 DEF Opens, Alone, MailStep, accepted
<1>11. CASE Types(a)
    <2>1. \A b \in Agents : b # a => Same(b)
        BY <1>11 DEF Types, TypeOK, Same, engine
    <2>2. QED
        BY <1>11, <2>1 DEF Types, Alone, MailStep, accepted
<1>12. CASE Closes(a)
    <2>1. \A b \in Agents : b # a => Same(b)
        BY <1>12 DEF Closes, TypeOK, Same, engine, TellEngine
    <2>2. QED
        BY <1>12, <2>1 DEF Closes, Alone, MailStep, accepted
<1>13. CASE \/ Reads(a) \/ HumanPrompts(a) \/ UsesTool(a) \/ Asks(a) \/ EndsTurn(a)
            \/ IdleNotice(a)
    <2>1. \A b \in Agents : b # a => Same(b)
        <3>1. /\ UNCHANGED <<engine, guiIn>>
              /\ \A b \in Agents : b # a =>
                    prog'[b] = prog[b] /\ pending'[b] = pending[b] /\ got'[b] = got[b]
            BY <1>13, SMTT(30)
            DEF Reads, HumanPrompts, UsesTool, Asks, EndsTurn, IdleNotice, TypeOK,
                         program
        <3>2. UNCHANGED hooks \/ \E events : Post(a, events)
            BY <1>13 DEF Reads, HumanPrompts, UsesTool, Asks, EndsTurn, IdleNotice
        <3>3. \A b \in Agents : b # a => hooks'[b] = hooks[b]
            BY <3>2 DEF Post, TypeOK
        <3>4. QED
            BY <3>1, <3>3 DEF Same, engine
    <2>2. /\ kind' = kind /\ out' = out /\ UNCHANGED accepted
        BY <1>13 DEF Reads, HumanPrompts, UsesTool, Asks, EndsTurn, IdleNotice
    <2>3. QED
        BY <2>1, <2>2 DEF Alone, MailStep, accepted
<1>14. CASE HookGivesUp(a)
    <2>1. \A b \in Agents : b # a => Same(b)
        BY <1>14 DEF HookGivesUp, TypeOK, Same, engine
    <2>2. QED
        BY <1>14, <2>1 DEF HookGivesUp, Alone, MailStep, accepted
<1>15. CASE Quits(a)
    <2>1. \A b \in Agents : b # a => Same(b)
        <3>1. UNCHANGED hooks \/ \E events : Post(a, events)
            BY <1>15 DEF Quits
        <3>2. \A b \in Agents : b # a => hooks'[b] = hooks[b]
            BY <3>1 DEF Post, TypeOK
        <3>3. QED
            BY <1>15, <3>2 DEF Quits, TypeOK, Same, engine, TellEngine
    <2>2. QED
        BY <1>15, <2>1 DEF Quits, Alone, MailStep, accepted
<1>16. CASE Reload(a)
    <2>1. UNCHANGED <<kind, engine, lines, program, accepted>>
        BY <1>16 DEF Reload
    <2>2. MailStep(a)
        BY <2>1 DEF MailStep, lines
    <2>3. \A b \in Agents : Same(b)
        BY <2>1 DEF Same, engine, lines, program
    <2>4. QED
        BY <2>1, <2>2, <2>3 DEF Alone, accepted
<1>17. QED
    BY <1>2, <1>3, <1>4, <1>5, <1>6, <1>7, <1>8, <1>9, <1>10, <1>11, <1>12, <1>13,
       <1>14, <1>15, <1>16

\* An agent of which nothing is changed, and of whose letters none is.
LEMMA Unmoved ==
    ASSUME TypeOK, TypeOK', NEW a \in Agents, AgentInv(a), Same(a),
           kind' = kind, updates \subseteq updates', sent' = sent \/ sent' = sent + 1,
           TypedIn(out', a) = TypedIn(out, a),
           Has(out', a) => Has(out, a), Spawn(out', a) => Spawn(out, a),
           Once(out, a) => Once(out', a), Carries(out, a) => Carries(out', a)
    PROVE  AgentInv(a)' /\ Range(Copies(a))' = Range(Copies(a))
<1>1. sent \in Nat /\ sent' \in {sent, sent + 1}
    BY DEF TypeOK
<1>2. /\ Typed(a)' = Typed(a) /\ Prompted(a)' = Prompted(a)
      /\ got'[a] = got[a] /\ queue'[a] = queue[a] /\ fyi'[a] = fyi[a]
    BY PiecesNow, PiecesThen DEF Same, Prompted
<1>3. LineGoes(a) /\ Range(Copies(a))' = Range(Copies(a))
    BY <1>2, LineKeeps DEF LineStays, AgentInv
<1>4. InLine(a)'
    BY <1>3 DEF LineGoes
<1>5. Fresh(a)'
    BY DEF AgentInv, Fresh, Same
<1>6. Opening(a)'
    BY <1>3 DEF AgentInv, Opening, Same
<1>7. Carries(out, a)'
    BY DEF AgentInv, Carries
<1>8. Untyped(a)'
    BY <1>3 DEF AgentInv, Untyped, Same
<1>9. Known(a)'
    <2>1. 0..sent \subseteq 0..sent'
        BY <1>1
    <2>2. QED
        BY <1>3, <2>1 DEF AgentInv, Known, Same
<1>10. Program(a)'
    BY DEF AgentInv, Program, Same
<1>11. Waited(a)'
    BY DEF AgentInv, Waited, Same, Asked
<1>12. Silent(a)'
    BY DEF AgentInv, Silent, Same, Live
<1>13. QED
    BY <1>3, <1>4, <1>5, <1>6, <1>7, <1>8, <1>9, <1>10, <1>11, <1>12 DEF AgentInv

\* An agent that is left alone stays as it is.
LEMMA Bystander ==
    ASSUME TypeOK, TypeOK', NEW a \in Agents, NEW b \in Agents, a # b, AgentInv(a),
           Alone(b)
    PROVE  AgentInv(a)' /\ Range(Copies(a))' = Range(Copies(a))
<1>1. /\ Same(a) /\ kind' = kind /\ updates \subseteq updates'
      /\ sent \in Nat /\ sent' \in {sent, sent + 1}
    <2>1. sent \in Nat
        BY DEF TypeOK
    <2>2. sent' = sent \/ sent' = sent + 1
        BY DEF Alone
    <2>3. Same(a) /\ kind' = kind /\ updates \subseteq updates'
        BY DEF Alone
    <2>4. QED
        BY <2>1, <2>2, <2>3
<1>2. out \in Seq(Letters)
    BY DEF TypeOK, Letters
<1>3. /\ TypedIn(out', a) = TypedIn(out, a)
      /\ Has(out', a) => Has(out, a)
      /\ Spawn(out', a) => Spawn(out, a)
      /\ Once(out, a) => Once(out', a)
      /\ Carries(out, a) => Carries(out', a)
    <2>1. CASE out' = out
        BY <2>1
    <2>2. ASSUME NEW l \in Letters, l[1] = b, out' = Append(out, l)
          PROVE  /\ TypedIn(out', a) = TypedIn(out, a)
                 /\ Has(out', a) => Has(out, a)
                 /\ Spawn(out', a) => Spawn(out, a)
                 /\ Once(out, a) => Once(out', a)
                 /\ Carries(out, a) => Carries(out', a)
        BY <1>2, <2>2, MailPosted, TypedPosted
    <2>3. CASE out # <<>> /\ Head(out)[1] = b /\ out' = Tail(out)
        BY <1>2, <2>3, MailTaken, TypedTaken
    <2>4. QED
        BY <2>1, <2>2, <2>3 DEF Alone, MailStep
<1>4. QED
    BY <1>1, <1>3, Unmoved
-----------------------------------------------------------------------------
(* What a step does to the agent that takes it. *)

\* Why a message may be lost.
Excused(a) ==
    \/ ~Live(a)' \/ prog'[a] = "gone"
    \/ kind[a] \in PaneKinds /\ (~gui' \/ ~pane[a])
    \/ kind[a] = "llm" /\ (~role[a] \/ Restart)
    \/ hooks[a] # <<>> /\ Head(hooks[a]) \in {"stopLate", "toolLate"}

Kept(a) == Range(Copies(a)) \subseteq Range(Copies(a))' \/ Excused(a)

Acts(a) == AgentInv(a)' /\ Kept(a)

\* The parts of the invariant that follow from what the step does to the line.
LEMMA Books ==
    ASSUME TypeOK, TypeOK', NEW a \in Agents, AgentInv(a), kind' = kind,
           updates \subseteq updates', sent' = sent \/ sent' = sent + 1, LineGoes(a),
           status'[a] # "none",
           Spawn(out', a) =>
              /\ Spawn(out, a) /\ prog'[a] = "none" /\ hooks'[a] = <<>> /\ got'[a] = <<>>
              /\ ~pane'[a] /\ "opened" \notin Range(guiIn'[a]) /\ Once(out', a),
           Carries(out', a), typeBrief'[a] => typeBrief[a],
           Range(fyi'[a]) \subseteq updates',
           status'[a] = "holding" \/ kind[a] = "mute" => queue'[a] = <<>>
    PROVE  InLine(a)' /\ Fresh(a)' /\ Opening(a)' /\ Carries(out, a)' /\ Untyped(a)'
           /\ Known(a)'
<1>1. sent \in Nat /\ Brief = 0 /\ Brief # sent + 1
    BY DEF TypeOK, Brief
<1>2. \A m \in Range(Copies(a))' :
         \/ m \in Range(Copies(a))
         \/ m = sent' /\ sent' = sent + 1
         \/ m = Brief /\ ~typeBrief'[a] /\ ~Spawn(out', a)
    BY DEF LineGoes, Gained, Spawn
<1>3. InLine(a)' /\ Fresh(a)'
    BY DEF LineGoes, Fresh
<1>4. Opening(a)'
    <2>1. SUFFICES ASSUME Spawn(out', a), kind[a] # "mute"
                   PROVE  Brief \notin Range(Copies(a))'
        BY DEF Opening, Spawn, Once
    <2>2. Brief \notin Range(Copies(a))
        BY <2>1 DEF AgentInv, Opening
    <2>3. QED
        BY <1>1, <1>2, <2>1, <2>2
<1>5. Carries(out, a)'
    BY DEF Carries
<1>6. Untyped(a)'
    BY <1>1, <1>2 DEF AgentInv, Untyped
<1>7. Known(a)'
    <2>1. Range(Copies(a)) \subseteq 0..sent
        BY DEF AgentInv, Known
    <2>2. 0..sent \subseteq 0..sent' /\ Brief \in 0..sent' /\ sent' \in 0..sent'
        BY <1>1
    <2>3. Range(Copies(a))' \subseteq 0..sent'
        BY <1>2, <2>1, <2>2
    <2>4. QED
        BY <2>3 DEF Known
<1>8. QED
    BY <1>3, <1>4, <1>5, <1>6, <1>7

\* A letter to an agent's pane, other than the request to open it.
LEMMA Posts ==
    ASSUME TypeOK, NEW a \in Agents, Carries(out, a), NEW what \in {"type", "close"},
           NEW msgs \in Seq(Nat), msgs = <<>> \/ (what = "type" /\ kind[a] \in PaneKinds),
           ToPane(a, what, msgs)
    PROVE  /\ Carries(out', a) /\ (Spawn(out', a) => Spawn(out, a))
           /\ TypedIn(out', a) = IF gui THEN TypedIn(out, a) \o msgs ELSE TypedIn(out, a)
<1>1. out \in Seq(Letters)
    BY DEF TypeOK, Letters
<1> DEFINE l == <<a, what, msgs>>
<1>2. l \in Letters /\ l[1] = a /\ l[2] # "spawn" /\ l[3] = msgs
      /\ (l[3] = <<>> \/ (l[2] = "type" /\ kind[a] \in PaneKinds))
    BY DEF Letters
<1>3. out' = IF gui THEN Append(out, l) ELSE out
    BY DEF ToPane
<1> HIDE DEF l
<1>4. CASE gui
    BY <1>1, <1>2, <1>3, <1>4, MailPosted, TypedPosted
<1>5. CASE ~gui
    BY <1>3, <1>5
<1>6. QED
    BY <1>4, <1>5

\* Nothing is on its way to an agent that has no pane.
LEMMA NoPaneNoMail ==
    ASSUME TypeOK, NEW a \in Agents, Carries(out, a), kind[a] \notin PaneKinds
    PROVE  Typed(a) = <<>>
<1>1. out \in Seq(Letters)
    BY DEF TypeOK, Letters
<1>2. \A i \in 1..Len(out) : out[i][1] = a => out[i][3] = <<>>
    BY DEF Carries
<1>3. TypedIn(out, a) = <<>>
    BY <1>1, <1>2, TypedNothing
<1>4. QED
    BY <1>3, PiecesNow

\* A program that waits for nothing has no report that asks.
LEMMA WaitedPost ==
    ASSUME TypeOK, NEW a \in Agents, Waited(a), kind' = kind,
           prog[a] \notin {"stopping", "tool", "asking", "gone"},
           NEW events \in Seq(Reports),
           hooks'[a] = hooks[a] \o events \/ hooks'[a] = hooks[a],
           \A i \in 1..Len(events) :
               Asked(a, events[i]) => i = Len(events) /\ Fits(events[i], prog'[a])
    PROVE  Waited(a)'
<1> DEFINE h == hooks[a]
           m == Len(h)
           n == Len(events)
           r == h \o events
<1>1. h \in Seq(Reports) /\ m \in Nat /\ n \in Nat
    BY LenProperties DEF TypeOK, Reports
<1>2. \A i \in 1..m : ~Asked(a, h[i])
    BY DEF Waited, Fits
<1>3. CASE hooks'[a] = h
    BY <1>2, <1>3 DEF Waited, Asked
<1>4. CASE hooks'[a] = r
    <2>1. /\ Len(r) = m + n
          /\ \A i \in 1..m + n : r[i] = IF i <= m THEN h[i] ELSE events[i - m]
        BY <1>1, ConcatProperties
    <2>2. \A i \in 1..m + n : i \in 1..m \/ (~(i <= m) /\ i - m \in 1..n)
        BY <1>1
    <2>3. \A i \in 1..m + n : i - m = n => i = m + n
        BY <1>1
    <2>4. \A i \in 1..m : i <= m
        BY <1>1
    <2> HIDE DEF r, h, m, n
    <2>5. ASSUME NEW i \in 1..m + n, Asked(a, r[i])
          PROVE  i = m + n /\ Fits(r[i], prog'[a])
        <3>1. r[i] = IF i <= m THEN h[i] ELSE events[i - m]
            BY <2>1
        <3>2. ~(i \in 1..m)
            BY <1>2, <2>4, <2>5, <3>1
        <3>3. i - m \in 1..n /\ r[i] = events[i - m]
            BY <2>2, <3>1, <3>2
        <3>4. i - m = n /\ Fits(events[i - m], prog'[a])
            BY <2>5, <3>3 DEF n
        <3>5. QED
            BY <2>3, <3>3, <3>4
    <2>6. QED
        BY <1>4, <2>1, <2>5 DEF Waited, Asked
<1>5. QED
    BY <1>3, <1>4

\* The engine reads a report: if its program waits for the answer there is no other.
LEMMA WaitedTail ==
    ASSUME TypeOK, NEW a \in Agents, Waited(a), kind' = kind, hooks[a] # <<>>,
           hooks'[a] = Tail(hooks[a])
    PROVE  /\ Asked(a, Head(hooks[a])) /\ prog[a] # "gone" =>
                 Tail(hooks[a]) = <<>> /\ Fits(Head(hooks[a]), prog[a])
           /\ prog'[a] = prog[a] \/ Tail(hooks[a]) = <<>> => Waited(a)'
           /\ Range(Tail(hooks[a])) \subseteq Range(hooks[a])
           /\ Head(hooks[a]) \in Range(hooks[a])
<1> DEFINE h == hooks[a]
           n == Len(h)
           r == Tail(h)
<1>1. h \in Seq(Reports) /\ n \in Nat \ {0}
    BY LenProperties, EmptySeq DEF TypeOK, Reports
<1>2. /\ r \in Seq(Reports) /\ Len(r) = n - 1 /\ Head(h) = h[1]
      /\ \A i \in 1..n - 1 : r[i] = h[i + 1]
    BY <1>1, HeadTailProperties
<1>3. DOMAIN h = 1..n /\ DOMAIN r = 1..n - 1 /\ 1 \in 1..n
    BY <1>1, <1>2, LenProperties
<1>4. \A i \in 1..n - 1 : i + 1 \in 1..n /\ (i + 1 = n => i = n - 1)
    BY <1>1
<1>5. \A i \in 1..n :
         Asked(a, h[i]) => prog[a] = "gone" \/ (i = n /\ Fits(h[i], prog[a]))
    BY DEF Waited
<1> HIDE DEF h, n, r
<1>6. Asked(a, Head(h)) /\ prog[a] # "gone" => r = <<>> /\ Fits(Head(h), prog[a])
    <2>1. SUFFICES ASSUME Asked(a, Head(h)), prog[a] # "gone"
                   PROVE  r = <<>> /\ Fits(Head(h), prog[a])
        OBVIOUS
    <2>2. n = 1 /\ Fits(h[1], prog[a])
        BY <1>2, <1>3, <1>5, <2>1
    <2>3. Len(r) = 0
        BY <1>2, <2>2
    <2>4. QED
        BY <1>2, <2>2, <2>3, EmptySeq
<1>7. ASSUME prog'[a] = prog[a]
      PROVE  Waited(a)'
    <2>1. ASSUME NEW i \in 1..n - 1, Asked(a, r[i])
          PROVE  prog'[a] = "gone" \/ (i = n - 1 /\ Fits(r[i], prog'[a]))
        <3>1. i + 1 \in 1..n /\ r[i] = h[i + 1]
            BY <1>2, <1>4
        <3>2. prog[a] = "gone" \/ (i + 1 = n /\ Fits(h[i + 1], prog[a]))
            BY <1>5, <2>1, <3>1
        <3>3. QED
            BY <1>4, <1>7, <3>1, <3>2
    <2>2. hooks'[a] = r
        BY DEF r, h
    <2>3. QED
        BY <1>2, <2>1, <2>2 DEF Waited, Asked
<1>8. ASSUME r = <<>>
      PROVE  Waited(a)'
    <2>1. hooks'[a] = <<>>
        BY <1>8 DEF r, h
    <2>2. Len(<<>>) = 0 /\ \A i \in 1..0 : FALSE
        BY EmptySeq
    <2>3. \A i \in 1..Len(hooks'[a]) : FALSE
        BY <2>1, <2>2
    <2>4. QED
        BY <2>3 DEF Waited
<1>9. Range(r) \subseteq Range(h) /\ Head(h) \in Range(h)
    BY <1>2, <1>3, <1>4 DEF Range
<1>10. QED
    BY <1>6, <1>7, <1>8, <1>9 DEF r, h

\* What Front leaves of a sequence, none of it the last element.
LEMMA FrontOf ==
    ASSUME NEW S, NEW h \in Seq(S)
    PROVE  /\ Front(h) \in Seq(S)
           /\ \A i \in 1..Len(Front(h)) :
                 i \in 1..Len(h) /\ i # Len(h) /\ Front(h)[i] = h[i]
<1> DEFINE n == Len(h)
           f == SubSeq(h, 1, n - 1)
<1>1. n \in Nat
    BY LenProperties
<1>2. f \in Seq(S) /\ Front(h) = f
    BY <1>1 DEF Front
<1>3. CASE n = 0
    <2>1. Len(f) = 0
        BY <1>1, <1>3
    <2>2. \A i \in 1..0 : FALSE
        OBVIOUS
    <2> HIDE DEF f
    <2>3. QED
        BY <1>2, <2>1, <2>2
<1>4. CASE n # 0
    <2>1. Len(f) = n - 1 /\ \A i \in 1..n - 1 : f[i] = h[i]
        <3>1. 1 \in Int /\ n - 1 \in Int /\ \A i \in 1..n - 1 : h[i] \in S
            BY <1>1, ElementOfSeq
        <3>2. \A i \in 1..n - 1 - 1 + 1 : 1 + i - 1 = i
            BY <1>1
        <3>3. /\ Len(f) = IF 1 <= n - 1 THEN n - 1 - 1 + 1 ELSE 0
              /\ \A i \in 1..n - 1 - 1 + 1 : f[i] = h[1 + i - 1]
            BY <3>1, SubSeqProperties
        <3> HIDE DEF n, f
        <3>4. n - 1 - 1 + 1 = n - 1
            BY <1>1
        <3>5. 1 <= n - 1 \/ n - 1 = 0
            BY <1>1, <1>4
        <3>6. Len(f) = n - 1
            BY <3>3, <3>4, <3>5
        <3>7. \A i \in 1..n - 1 : f[i] = h[i]
            BY <3>2, <3>3, <3>4
        <3>8. QED
            BY <3>6, <3>7
    <2>2. \A i \in 1..n - 1 : i \in 1..n /\ i # n
        BY <1>1
    <2> HIDE DEF f, n
    <2>3. QED
        BY <1>2, <2>1, <2>2 DEF n
<1>5. QED
    BY <1>3, <1>4

\* What a program reports: nothing, or reports of which only the last one waits for
\* the engine's answer.
Speaks == {"perm", "turnEnd", "exited"}
Reported(a) ==
    \E events \in Seq(Reports) :
        /\ hooks'[a] = hooks[a] \o events \/ hooks'[a] = hooks[a]
        /\ \A i \in 1..Len(events) :
               Asked(a, events[i]) => i = Len(events) /\ Fits(events[i], prog'[a])
        /\ kind[a] = "acp" => Range(events) \subseteq Speaks

\* What the actions of a program report has this form.
LEMMA ReportedForms ==
    ASSUME TypeOK, NEW a \in Agents
    PROVE  /\ UNCHANGED hooks => Reported(a)
           /\ \A e \in Reports :
                 /\ Post(a, <<e>>)
                 /\ Asked(a, e) => Fits(e, prog'[a])
                 /\ kind[a] = "acp" => e \in Speaks
                 => Reported(a)
           /\ \A e, d \in Reports :
                 /\ Post(a, <<d, e>>) /\ kind[a] # "acp"
                 /\ ~Asked(a, d) /\ (Asked(a, e) => Fits(e, prog'[a]))
                 => Reported(a)
<1>1. hooks \in [Agents -> Seq(Reports)]
    BY DEF TypeOK, Reports
<1>2. \A events : Post(a, events) =>
         hooks'[a] = hooks[a] \o events \/ hooks'[a] = hooks[a]
    BY <1>1 DEF Post
<1>3. ASSUME UNCHANGED hooks
      PROVE  Reported(a)
    <2>1. <<>> \in Seq(Reports) /\ Len(<<>>) = 0 /\ Range(<<>>) = {}
        BY EmptySeq, ShortSequences
    <2>2. \A i \in 1..0 : FALSE
        OBVIOUS
    <2> DEFINE events == <<>>
    <2> HIDE DEF events
    <2>3. /\ events \in Seq(Reports) /\ Range(events) = {}
          /\ \A i \in 1..Len(events) : FALSE
        BY <2>1, <2>2 DEF events
    <2>4. QED
        BY <1>3, <2>3 DEF Reported
<1>4. ASSUME NEW e \in Reports, Post(a, <<e>>), Asked(a, e) => Fits(e, prog'[a]),
             kind[a] = "acp" => e \in Speaks
      PROVE  Reported(a)
    <2> DEFINE events == <<e>>
    <2>1. /\ events \in Seq(Reports) /\ Len(events) = 1 /\ events[1] = e
          /\ Range(events) = {e}
        BY ShortSequences
    <2>2. hooks'[a] = hooks[a] \o events \/ hooks'[a] = hooks[a]
        BY <1>2, <1>4
    <2> HIDE DEF events
    <2>3. \A i \in 1..1 : i = 1
        OBVIOUS
    <2>4. QED
        BY <1>4, <2>1, <2>2, <2>3 DEF Reported
<1>5. ASSUME NEW e \in Reports, NEW d \in Reports, Post(a, <<d, e>>), kind[a] # "acp",
             ~Asked(a, d), Asked(a, e) => Fits(e, prog'[a])
      PROVE  Reported(a)
    <2> DEFINE events == <<d, e>>
    <2>1. events \in Seq(Reports) /\ Len(events) = 2 /\ events[1] = d /\ events[2] = e
        OBVIOUS
    <2>2. hooks'[a] = hooks[a] \o events \/ hooks'[a] = hooks[a]
        BY <1>2, <1>5
    <2> HIDE DEF events
    <2>3. \A i \in 1..2 : i = 1 \/ i = 2
        OBVIOUS
    <2>4. QED
        BY <1>5, <2>1, <2>2, <2>3 DEF Reported
<1>6. QED
    BY <1>3, <1>4, <1>5

\* Such a report leaves the program with at most one that waits.
LEMMA ReportedInv ==
    ASSUME TypeOK, NEW a \in Agents, AgentInv(a), kind' = kind, Reported(a)
    PROVE  /\ prog[a] \notin {"stopping", "tool", "asking", "gone"} => Waited(a)'
           /\ kind[a] = "acp" => Range(hooks'[a]) \subseteq Speaks
<1>1. PICK events \in Seq(Reports) :
         /\ hooks'[a] = hooks[a] \o events \/ hooks'[a] = hooks[a]
         /\ \A i \in 1..Len(events) :
                Asked(a, events[i]) => i = Len(events) /\ Fits(events[i], prog'[a])
         /\ kind[a] = "acp" => Range(events) \subseteq Speaks
    BY DEF Reported
<1>2. prog[a] \notin {"stopping", "tool", "asking", "gone"} => Waited(a)'
    BY <1>1, WaitedPost DEF AgentInv
<1>3. hooks[a] \in Seq(Reports)
    BY DEF TypeOK, Reports
<1>4. Range(hooks[a] \o events) = Range(hooks[a]) \cup Range(events)
    BY <1>3, ConcatRange
<1>5. kind[a] = "acp" => Range(hooks[a]) \subseteq Speaks
    BY DEF AgentInv, Program, Speaks
<1>6. kind[a] = "acp" => Range(hooks'[a]) \subseteq Speaks
    BY <1>1, <1>4, <1>5
<1>7. QED
    BY <1>2, <1>6

\* A program that was started takes a step of its own.
LEMMA ProgramBooks ==
    ASSUME TypeOK, TypeOK', NEW a \in Agents, AgentInv(a), prog[a] # "none",
           UNCHANGED <<kind, engine, out, accepted>>, LineGoes(a)
    PROVE  InLine(a)' /\ Fresh(a)' /\ Opening(a)' /\ Carries(out, a)' /\ Untyped(a)'
           /\ Known(a)'
<1>1. /\ kind' = kind /\ status' = status /\ queue' = queue /\ fyi' = fyi
      /\ typeBrief' = typeBrief /\ out' = out /\ updates' = updates /\ sent' = sent
    BY DEF engine, accepted
<1>2. status[a] # "none" /\ ~Spawn(out, a)
    BY DEF AgentInv, Fresh, Opening
<1>3. /\ status'[a] # "none" /\ ~Spawn(out', a) /\ Carries(out', a)
      /\ Range(fyi'[a]) \subseteq updates'
      /\ status'[a] = "holding" \/ kind[a] = "mute" => queue'[a] = <<>>
      /\ typeBrief'[a] => typeBrief[a]
    BY <1>1, <1>2 DEF AgentInv, Known
<1>4. QED
    BY <1>1, <1>3, Books

\* The program goes on and the line stays: prompts of the human, calls of tools,
\* questions, ends of turns, notices.
LEMMA TurnsAct ==
    ASSUME TypeOK, TypeOK', NEW a \in Agents, AgentInv(a),
           \/ HumanPrompts(a) \/ UsesTool(a) \/ Asks(a) \/ EndsTurn(a)
           \/ HookGivesUp(a) \/ IdleNotice(a)
    PROVE  Acts(a)
<1>1. /\ UNCHANGED <<kind, engine, gui, out, guiIn, pending, got, accepted>>
      /\ prog[a] \in {"idle", "turn", "stopping", "tool"}
    BY DEF HumanPrompts, UsesTool, Asks, EndsTurn, HookGivesUp, IdleNotice, program
<1>2. prog'[a] \notin {"none", "gone"}
    <2>1. CASE HookGivesUp(a)
        BY <2>1 DEF HookGivesUp, TypeOK
    <2>2. CASE Asks(a)
        BY <1>1, <2>2, SMTT(30) DEF Asks, TypeOK
    <2>3. CASE EndsTurn(a)
        BY <2>3, ZenonT(40) DEF EndsTurn, TypeOK
    <2>4. CASE HumanPrompts(a) \/ UsesTool(a) \/ IdleNotice(a)
        BY <1>1, <2>4, ZenonT(40) DEF HumanPrompts, UsesTool, IdleNotice, program, TypeOK
    <2>5. QED
        BY <2>1, <2>2, <2>3, <2>4
<1>3. prog'[a] \in {"stopping", "tool"} => kind[a] = "claude"
    BY <1>1, SMTT(30) DEF HumanPrompts, UsesTool, Asks, EndsTurn, HookGivesUp, IdleNotice, program,
                TypeOK, AgentInv, Program
<1>4. LineGoes(a) /\ Range(Copies(a))' = Range(Copies(a))
    <2>1. /\ Typed(a)' = Typed(a) /\ Prompted(a)' = Prompted(a)
          /\ got'[a] = got[a] /\ queue'[a] = queue[a] /\ fyi'[a] = fyi[a]
          /\ kind' = kind /\ updates' = updates
        BY <1>1 DEF Typed, Prompted, engine, accepted
    <2>2. QED
        BY <2>1, LineKeeps DEF LineStays, AgentInv
<1>5. InLine(a)' /\ Fresh(a)' /\ Opening(a)' /\ Carries(out, a)' /\ Untyped(a)' /\ Known(a)'
    BY <1>1, <1>4, ProgramBooks
<1>6. Waited(a)' /\ (kind[a] = "acp" => Range(hooks'[a]) \subseteq Speaks)
    <2>1. CASE HookGivesUp(a)
        <3> DEFINE h == hooks[a]
                   last == CASE Last(h) = "tool" -> "toolLate"
                             [] Last(h) = "stop" -> "stopLate"
                             [] OTHER            -> "idle"
        <3>1. h \in Seq(Reports) /\ hooks'[a] = Append(Front(h), last)
            BY <2>1 DEF HookGivesUp, TypeOK, Reports
        <3>2. kind[a] = "claude" /\ prog[a] # "gone"
            BY <2>1 DEF HookGivesUp, AgentInv, Program
        <3>3. last \in {"toolLate", "stopLate", "idle"}
            OBVIOUS
        <3>4. ~Asked(a, last)
            BY <3>3 DEF Asked
        <3> HIDE DEF last
        <3>5. /\ Front(h) \in Seq(Reports)
              /\ \A i \in 1..Len(Front(h)) :
                    i \in 1..Len(h) /\ i # Len(h) /\ Front(h)[i] = h[i]
            BY <3>1, FrontOf
        <3> DEFINE f == Front(h)
                   n == Len(f)
                   r == Append(f, last)
        <3>6. n \in Nat
            BY <3>5, LenProperties
        <3>7. \A i \in 1..n : ~Asked(a, f[i])
            BY <3>2, <3>5 DEF AgentInv, Waited
        <3>8. Len(r) = n + 1 /\ r[n + 1] = last /\ \A i \in 1..n : r[i] = f[i]
            BY <3>5, AppendProperties
        <3> HIDE DEF f, n, r
        <3>9. \A i \in 1..n + 1 : i \in 1..n \/ i = n + 1
            BY <3>6
        <3>10. \A i \in 1..Len(r) : ~Asked(a, r[i])
            BY <3>4, <3>7, <3>8, <3>9
        <3>11. hooks'[a] = r /\ kind' = kind
            BY <1>1, <3>1 DEF r, f
        <3>12. Waited(a)'
            BY <3>10, <3>11 DEF Waited, Asked
        <3>13. QED
            BY <3>2, <3>12
    <2>2. CASE ~HookGivesUp(a)
        <3>1. prog[a] \in {"idle", "turn"}
            BY <2>2 DEF HumanPrompts, UsesTool, Asks, EndsTurn, IdleNotice
        <3>2. Reported(a)
            <4>1. CASE HumanPrompts(a)
                BY <4>1, ReportedForms DEF HumanPrompts, Asked, Reports
            <4>2. CASE UsesTool(a)
                <5>1. prog'[a] = "tool" /\ Post(a, <<"prompt", "tool">>)
                    BY <4>2 DEF UsesTool, TypeOK
                <5>2. /\ "prompt" \in Reports /\ "tool" \in Reports
                      /\ ~Asked(a, "prompt") /\ Fits("tool", prog'[a])
                    BY <5>1 DEF Reports, Asked, Fits
                <5>3. kind[a] # "acp"
                    BY <4>2, SMTT(30) DEF UsesTool
                <5>4. QED
                    BY <5>1, <5>2, <5>3, ReportedForms
            <4>3. CASE Asks(a)
                BY <4>3, ReportedForms DEF Asks, Asked, Fits, Reports, Speaks, TypeOK
            <4>4. CASE EndsTurn(a)
                <5>1. CASE kind[a] = "claude" /\ token[a]
                    BY <4>4, <5>1, ReportedForms DEF EndsTurn, Asked, Fits, Reports, TypeOK
                <5>2. CASE kind[a] # "claude" \/ ~token[a]
                    <6>1. CASE kind[a] = "codex" /\ Post(a, <<"stopAgain">>)
                        BY <6>1, ReportedForms, SMTT(30) DEF Asked, Reports
                    <6>2. CASE kind[a] = "acp" /\ Post(a, <<"turnEnd">>)
                        BY <6>2, ReportedForms, SMTT(30) DEF Asked, Reports, Speaks
                    <6>3. CASE kind[a] = "llm" /\ Post(a, <<"answer">>)
                        BY <6>3, ReportedForms, SMTT(30) DEF Asked, Reports
                    <6>4. CASE UNCHANGED hooks
                        BY <6>4, ReportedForms
                    <6>5. QED
                        BY <4>4, <5>2, <6>1, <6>2, <6>3, <6>4, SMTT(30) DEF EndsTurn
                <5>3. QED
                    BY <5>1, <5>2
            <4>5. CASE IdleNotice(a)
                BY <4>5, ReportedForms DEF IdleNotice, Asked, Reports
            <4>6. QED
                BY <2>2, <4>1, <4>2, <4>3, <4>4, <4>5, SMTT(30)
        <3>3. kind' = kind
            BY <1>1
        <3>4. QED
            BY <3>1, <3>2, <3>3, ReportedInv
    <2>3. QED
        BY <2>1, <2>2
<1>7. Program(a)'
    BY <1>1, <1>2, <1>3, <1>6 DEF AgentInv, Program, Speaks, engine
<1>8. Silent(a)'
    BY <1>1 DEF AgentInv, Silent, Live, engine
<1>9. QED
    BY <1>4, <1>5, <1>6, <1>7, <1>8 DEF Acts, AgentInv, Kept

\* The program reads a prompt, or ends.
LEMMA ReadsAct ==
    ASSUME TypeOK, TypeOK', NEW a \in Agents, AgentInv(a), Reads(a)
    PROVE  Acts(a)
<1> DEFINE h == Head(pending[a])
<1>1. /\ UNCHANGED <<kind, engine, gui, out, guiIn, accepted>>
      /\ prog[a] = "idle" /\ prog'[a] = "turn"
    BY DEF Reads, TypeOK
<1>2. LineGoes(a) /\ Range(Copies(a))' = Range(Copies(a))
    <2>1. pending[a] \in Seq(Seq(Nat)) /\ pending[a] # <<>>
        BY DEF Reads, TypeOK
    <2>2. h \in Seq(Nat)
        BY <2>1, HeadTailProperties
    <2>3. Prompted(a) = h \o Prompted(a)'
        <3>1. pending'[a] = Tail(pending[a])
            BY DEF Reads, TypeOK
        <3>2. QED
            BY <2>1, <3>1, FlattenTail DEF Prompted
    <2>4. got'[a] = got[a] \o h
        <3>1. got' = [got EXCEPT ![a] = got[a] \o h]
            BY DEF Reads
        <3> HIDE DEF h
        <3>2. QED
            BY <3>1, ZenonT(40) DEF TypeOK
    <2> HIDE DEF h
    <2>5. /\ Typed(a)' = Typed(a) /\ queue'[a] = queue[a] /\ fyi'[a] = fyi[a]
          /\ kind' = kind /\ updates' = updates
        BY <1>1 DEF Typed, engine, accepted
    <2>6. QED
        BY <2>2, <2>3, <2>4, <2>5, LineMoves DEF AgentInv
<1>3. InLine(a)' /\ Fresh(a)' /\ Opening(a)' /\ Carries(out, a)' /\ Untyped(a)' /\ Known(a)'
    BY <1>1, <1>2, ProgramBooks, SMTT(30)
<1>4. Reported(a)
    BY ReportedForms DEF Reads, Asked, Reports
<1>5. Waited(a)' /\ (kind[a] = "acp" => Range(hooks'[a]) \subseteq Speaks)
    BY <1>1, <1>4, ReportedInv
<1>6. Program(a)'
    BY <1>1, <1>5 DEF AgentInv, Program, Speaks, engine
<1>7. Silent(a)'
    BY <1>1 DEF AgentInv, Silent, Live, engine
<1>8. QED
    BY <1>2, <1>3, <1>5, <1>6, <1>7 DEF Acts, AgentInv, Kept

\* A program that is gone waits for nothing and says nothing more.
LEMMA GoneWaited ==
    ASSUME NEW a \in Agents, prog'[a] = "gone"
    PROVE  Waited(a)'
BY DEF Waited

\* A program that ends takes what it was prompted with it.
LEMMA QuitsAct ==
    ASSUME TypeOK, TypeOK', NEW a \in Agents, AgentInv(a), Quits(a)
    PROVE  Acts(a)
<1>1. /\ UNCHANGED <<kind, engine, gui, out, accepted>> /\ got' = got
      /\ prog[a] # "none" /\ prog'[a] = "gone" /\ pending'[a] = <<>>
    BY DEF Quits, TypeOK
<1>2. LineGoes(a)
    <2>1. Prompted(a)' = <<>>
        BY <1>1, FlattenNothing DEF Prompted
    <2>2. /\ got'[a] = got[a] /\ Typed(a)' = Typed(a)
          /\ queue'[a] = queue[a] /\ fyi'[a] = fyi[a]
          /\ kind' = kind /\ updates' = updates
        BY <1>1 DEF Typed, engine, accepted
    <2>3. QED
        BY <2>1, <2>2, LineShrinks DEF AgentInv
<1>3. InLine(a)' /\ Fresh(a)' /\ Opening(a)' /\ Carries(out, a)' /\ Untyped(a)' /\ Known(a)'
    BY <1>1, <1>2, ProgramBooks, SMTT(30)
<1>4. Reported(a)
    BY ReportedForms DEF Quits, Asked, Reports, Speaks
<1>5. kind[a] = "acp" => Range(hooks'[a]) \subseteq Speaks
    BY <1>1, <1>4, ReportedInv
<1>6. Program(a)'
    BY <1>1, <1>5 DEF AgentInv, Program, Speaks, engine
<1>7. Silent(a)'
    BY <1>1 DEF AgentInv, Silent, Live, engine
<1>8. Excused(a)
    BY <1>1 DEF Excused
<1>9. QED
    BY <1>1, <1>3, <1>6, <1>7, <1>8, GoneWaited DEF Acts, AgentInv, Kept

\* The GUI takes a letter of the agent's from the connection.
LEMMA LetterTaken ==
    ASSUME TypeOK, NEW a \in Agents, AgentInv(a), out # <<>>, Head(out)[1] = a,
           out' = Tail(out)
    PROVE  /\ status[a] # "none" /\ ~Spawn(out', a) /\ Carries(out', a)
           /\ TypedIn(out', a) \in Seq(Nat) /\ Head(out)[3] \in Seq(Nat)
           /\ TypedIn(out, a) = Head(out)[3] \o TypedIn(out', a)
           /\ Head(out)[2] # "type" =>
                 Head(out)[3] = <<>> /\ TypedIn(out, a) = TypedIn(out', a)
           /\ Head(out)[2] = "spawn" => Spawn(out, a)
<1> DEFINE l == Head(out)
<1>1. out \in Seq(Letters)
    BY DEF TypeOK, Letters
<1>2. l \in Letters
    BY <1>1, HeadTailProperties
<1>3. /\ Has(out, a) /\ (l[2] = "spawn" => Spawn(out, a))
      /\ Spawn(out', a) => Spawn(out, a)
      /\ Once(out, a) => ~Has(out', a)
      /\ Carries(out, a) => Carries(out', a) /\ (l[3] = <<>> \/ l[2] = "type")
    BY <1>1, MailTaken
<1>4. Spawn(out', a) => Has(out', a)
    BY DEF Spawn, Has
<1>5. status[a] # "none" /\ Carries(out, a) /\ (Spawn(out, a) => Once(out, a))
    BY <1>3 DEF AgentInv, Fresh, Opening
<1>6. /\ TypedIn(out', a) \in Seq(Nat) /\ l[3] \in Seq(Nat)
      /\ TypedIn(out, a) = l[3] \o TypedIn(out', a)
    BY <1>1, <1>2, TypedTaken DEF Letters
<1> HIDE DEF l
<1>7. l[3] = <<>> => TypedIn(out, a) = TypedIn(out', a)
    BY <1>6, ConcatEmptySeq
<1>8. QED
    BY <1>3, <1>4, <1>5, <1>6, <1>7 DEF l

\* Nothing the engine keeps changes when the GUI takes a letter.
LEMMA GuiBooks ==
    ASSUME TypeOK, TypeOK', NEW a \in Agents, AgentInv(a), out # <<>>, Head(out)[1] = a,
           out' = Tail(out), UNCHANGED <<kind, engine, accepted>>, LineGoes(a)
    PROVE  InLine(a)' /\ Fresh(a)' /\ Opening(a)' /\ Carries(out, a)' /\ Untyped(a)'
           /\ Known(a)'
<1>1. /\ kind' = kind /\ status' = status /\ queue' = queue /\ fyi' = fyi
      /\ typeBrief' = typeBrief /\ updates' = updates /\ sent' = sent
    BY DEF engine, accepted
<1>2. status[a] # "none" /\ ~Spawn(out', a) /\ Carries(out', a)
    BY LetterTaken
<1>3. /\ status'[a] # "none" /\ Range(fyi'[a]) \subseteq updates'
      /\ status'[a] = "holding" \/ kind[a] = "mute" => queue'[a] = <<>>
      /\ typeBrief'[a] => typeBrief[a]
    BY <1>1, <1>2 DEF AgentInv, Known
<1>4. QED
    BY <1>1, <1>2, <1>3, Books

\* What the GUI types reaches a program, unless that is gone.
LEMMA TypesAct ==
    ASSUME TypeOK, TypeOK', NEW a \in Agents, AgentInv(a), Types(a)
    PROVE  Acts(a)
<1> DEFINE h == Head(out)[3]
<1>1. /\ out # <<>> /\ Head(out)[1] = a /\ out' = Tail(out)
      /\ UNCHANGED <<kind, engine, gui, hooks, prog, got, accepted>>
    BY DEF Types
<1>2. h \in Seq(Nat) /\ Typed(a) = h \o Typed(a)' /\ status[a] # "none"
    BY <1>1, LetterTaken, PiecesNow, PiecesThen
<1>3. /\ got'[a] = got[a] /\ queue'[a] = queue[a] /\ fyi'[a] = fyi[a]
      /\ kind' = kind /\ updates' = updates
    BY <1>1 DEF engine, accepted
<1>4. LineGoes(a) /\ Kept(a)
    <2>1. CASE prog[a] = "gone"
        <3>1. Prompted(a)' = Prompted(a)
            BY <2>1 DEF Types, Prompted, TypeOK
        <3> HIDE DEF h
        <3>2. LineGoes(a)
            BY <1>2, <1>3, <3>1, LineLosesHead DEF AgentInv
        <3>3. Excused(a)
            BY <1>1, <2>1 DEF Excused
        <3>4. QED
            BY <3>2, <3>3 DEF Kept
    <2>2. CASE prog[a] # "gone"
        <3>1. pending[a] \in Seq(Seq(Nat)) /\ pending'[a] = Append(pending[a], h)
            BY <2>2 DEF Types, TypeOK
        <3> HIDE DEF h
        <3>2. Prompted(a)' = Prompted(a) \o h
            BY <1>2, <3>1, FlattenAppend DEF Prompted
        <3>3. LineGoes(a) /\ Range(Copies(a))' = Range(Copies(a))
            BY <1>2, <1>3, <3>2, LineMoves DEF AgentInv
        <3>4. QED
            BY <3>3 DEF Kept
    <2>3. QED
        BY <2>1, <2>2
<1>5. InLine(a)' /\ Fresh(a)' /\ Opening(a)' /\ Carries(out, a)' /\ Untyped(a)' /\ Known(a)'
    BY <1>1, <1>4, GuiBooks
<1>6. Program(a)' /\ Waited(a)' /\ Silent(a)'
    BY <1>1 DEF AgentInv, Program, Waited, Asked, Silent, Live, engine
<1>7. QED
    BY <1>4, <1>5, <1>6 DEF Acts, AgentInv

\* A pane that is closed takes its program with it.
LEMMA ClosesAct ==
    ASSUME TypeOK, TypeOK', NEW a \in Agents, AgentInv(a), Closes(a)
    PROVE  Acts(a)
<1>1. /\ out # <<>> /\ Head(out)[1] = a /\ Head(out)[2] = "close" /\ out' = Tail(out)
      /\ UNCHANGED <<kind, engine, gui, hooks, got, accepted>>
      /\ prog'[a] = "gone" /\ pending'[a] = <<>>
    BY DEF Closes, TypeOK
<1>2. Typed(a)' = Typed(a) /\ status[a] # "none"
    BY <1>1, LetterTaken, PiecesNow, PiecesThen
<1>3. Prompted(a)' = <<>>
    BY <1>1, FlattenNothing DEF Prompted
<1>4. /\ got'[a] = got[a] /\ queue'[a] = queue[a] /\ fyi'[a] = fyi[a]
      /\ kind' = kind /\ updates' = updates
    BY <1>1 DEF engine, accepted
<1>5. LineGoes(a)
    BY <1>2, <1>3, <1>4, LineShrinks DEF AgentInv
<1>6. InLine(a)' /\ Fresh(a)' /\ Opening(a)' /\ Carries(out, a)' /\ Untyped(a)' /\ Known(a)'
    BY <1>1, <1>5, GuiBooks
<1>7. Program(a)' /\ Silent(a)'
    BY <1>1 DEF AgentInv, Program, Silent, Live, engine
<1>8. Excused(a)
    BY <1>1 DEF Excused
<1>9. QED
    BY <1>1, <1>6, <1>7, <1>8, GoneWaited DEF Acts, AgentInv, Kept

\* Only the request is on its way to a pane that is being opened.
LEMMA SpawnAlone ==
    ASSUME TypeOK, NEW a \in Agents, AgentInv(a), Spawn(out, a)
    PROVE  Typed(a) = <<>>
<1>1. out \in Seq(Letters) /\ Once(out, a) /\ Carries(out, a)
    BY DEF TypeOK, Letters, AgentInv, Opening
<1>2. \A i \in 1..Len(out) : out[i][1] = a => out[i][2] = "spawn"
    BY <1>1 DEF Spawn, Once
<1>3. \A i \in 1..Len(out) : out[i][1] = a => out[i][3] = <<>>
    BY <1>1, <1>2 DEF Carries
<1>4. TypedIn(out, a) = <<>>
    BY <1>1, <1>3, TypedNothing
<1>5. QED
    BY <1>4, PiecesNow

\* A pane that opens starts its program on the brief, if it gives it at all.
LEMMA StartsAct ==
    ASSUME TypeOK, TypeOK', NEW a \in Agents, AgentInv(a), Spawn(out, a), ~Spawn(out', a),
           Typed(a)' = <<>>, UNCHANGED <<kind, engine, pending, accepted>>,
           Starts(a) \/ UNCHANGED <<prog, got, hooks>>
    PROVE  /\ LineGoes(a) /\ Range(Copies(a)) \subseteq Range(Copies(a))'
           /\ Program(a)' /\ Waited(a)' /\ Silent(a)'
<1>1. Typed(a)' = Typed(a)
    BY SpawnAlone
<1>2. /\ prog[a] = "none" /\ hooks[a] = <<>> /\ got[a] = <<>>
      /\ kind[a] # "mute" => Brief \notin Range(Copies(a)) /\ ~typeBrief[a]
      /\ kind[a] \in PaneKinds
    <2>1. Has(out, a)
        BY DEF Spawn, Has
    <2>2. status[a] # "none"
        BY <2>1 DEF AgentInv, Fresh
    <2>3. QED
        BY <2>2 DEF AgentInv, Opening, Untyped, Program
<1>3. /\ Prompted(a)' = Prompted(a)
      /\ queue'[a] = queue[a] /\ fyi'[a] = fyi[a] /\ typeBrief' = typeBrief
      /\ kind' = kind /\ updates' = updates
    BY DEF Prompted, engine, accepted
<1>4. LineGoes(a) /\ Range(Copies(a)) \subseteq Range(Copies(a))'
    <2>1. CASE got' = got
        <3>1. LineStays(a)
            BY <1>1, <1>3, <2>1 DEF LineStays
        <3>2. QED
            BY <1>3, <3>1, LineKeeps DEF AgentInv
    <2>2. CASE kind[a] # "mute" /\ got' = [got EXCEPT ![a] = <<Brief>>]
        <3> DEFINE e == <<Brief>>
        <3>1. e \in Seq(Nat)
            BY DEF Brief
        <3>2. got'[a] = e
            BY <2>2 DEF TypeOK
        <3> HIDE DEF e
        <3>3. got'[a] = got[a] \o e
            BY <1>2, <3>1, <3>2, ConcatEmptySeq
        <3>4. ~typeBrief'[a] /\ Brief \notin Range(Copies(a)) /\ ~Spawn(out, a)'
            BY <1>2, <1>3, <2>2 DEF Spawn
        <3>5. QED
            BY <1>1, <1>3, <3>3, <3>4, LineGainsBrief DEF AgentInv, e
    <2>3. QED
        BY <2>1, <2>2 DEF Starts
<1>5. Reported(a)
    BY ReportedForms DEF Starts, Asked, Reports
<1>6. Waited(a)'
    BY <1>2, <1>3, <1>5, ReportedInv
<1>7. prog'[a] \in {"none", "idle", "turn"}
    BY <1>2 DEF Starts, TypeOK
<1>8. Program(a)'
    BY <1>2, <1>7 DEF AgentInv, Program, engine, PaneKinds
<1>9. Silent(a)'
    BY <1>2 DEF AgentInv, Silent, Live, engine
<1>10. QED
    BY <1>4, <1>6, <1>8, <1>9

\* The GUI opens a pane, or fails to.
LEMMA OpensAct ==
    ASSUME TypeOK, TypeOK', NEW a \in Agents, AgentInv(a), Opens(a)
    PROVE  Acts(a)
<1>1. /\ out # <<>> /\ Head(out)[1] = a /\ Head(out)[2] = "spawn" /\ out' = Tail(out)
      /\ UNCHANGED <<kind, engine, pending, accepted>>
      /\ Starts(a) \/ UNCHANGED <<prog, got, hooks>>
    BY DEF Opens
<1>2. Typed(a)' = Typed(a) /\ Spawn(out, a) /\ ~Spawn(out', a)
    BY <1>1, LetterTaken, PiecesNow, PiecesThen
<1>3. Typed(a)' = <<>>
    BY <1>2, SpawnAlone
<1>4. /\ LineGoes(a) /\ Range(Copies(a)) \subseteq Range(Copies(a))'
      /\ Program(a)' /\ Waited(a)' /\ Silent(a)'
    BY <1>1, <1>2, <1>3, StartsAct
<1>5. InLine(a)' /\ Fresh(a)' /\ Opening(a)' /\ Carries(out, a)' /\ Untyped(a)' /\ Known(a)'
    BY <1>1, <1>4, GuiBooks, SMTT(30)
<1>6. QED
    BY <1>4, <1>5 DEF Acts, AgentInv, Kept

\* No report, none that waits.
LEMMA NothingWaited ==
    ASSUME NEW a \in Agents, hooks'[a] = <<>>
    PROVE  Waited(a)'
<1>1. Len(<<>>) = 0 /\ \A i \in 1..0 : FALSE
    BY EmptySeq
<1>2. \A i \in 1..Len(hooks'[a]) : FALSE
    BY <1>1
<1>3. QED
    BY <1>2 DEF Waited

\* An agent that was not launched has nothing in line.
LEMMA FreshLine ==
    ASSUME TypeOK, NEW a \in Agents, AgentInv(a), status[a] = "none"
    PROVE  /\ Range(Copies(a)) = {} /\ Typed(a) = <<>> /\ Prompted(a) = <<>>
           /\ prog[a] = "none" /\ hooks[a] = <<>> /\ guiIn[a] = <<>> /\ ~pane[a]
           /\ ~typeBrief[a] /\ queue[a] = <<>> /\ fyi[a] = <<>> /\ pending[a] = <<>>
           /\ got[a] = <<>> /\ ~Has(out, a) /\ ~Spawn(out, a) /\ ~perm[a]
<1>1. /\ prog[a] = "none" /\ hooks[a] = <<>> /\ guiIn[a] = <<>> /\ ~pane[a]
      /\ ~typeBrief[a] /\ queue[a] = <<>> /\ fyi[a] = <<>> /\ pending[a] = <<>>
      /\ got[a] = <<>> /\ ~Has(out, a)
    BY DEF AgentInv, Fresh
<1>2. ~Spawn(out, a) /\ \A i \in 1..Len(out) : out[i][1] = a => out[i][3] = <<>>
    BY <1>1 DEF Has, Spawn
<1>3. out \in Seq(Letters)
    BY DEF TypeOK, Letters
<1>4. TypedIn(out, a) = <<>>
    BY <1>2, <1>3, TypedNothing
<1>5. Typed(a) = <<>>
    BY <1>4, PiecesNow
<1>6. Prompted(a) = <<>>
    BY <1>1, FlattenNothing DEF Prompted
<1>7. Range(<<>>) = {}
    BY ShortSequences
<1>8. Range(Copies(a)) = {}
    BY <1>1, <1>5, <1>6, <1>7, PiecesNow
<1>9. ~perm[a]
    BY DEF AgentInv, Silent, Live
<1>10. QED
    BY <1>1, <1>2, <1>5, <1>6, <1>8, <1>9

\* A launch asks for a pane, or gives the brief to the child or the chat.
LEMMA LaunchActs ==
    ASSUME TypeOK, TypeOK', NEW a \in Agents, AgentInv(a), Launch(a)
    PROVE  Acts(a)
<1>1. /\ Range(Copies(a)) = {} /\ Typed(a) = <<>> /\ Prompted(a) = <<>>
      /\ prog[a] = "none" /\ hooks[a] = <<>> /\ guiIn[a] = <<>> /\ ~pane[a]
      /\ ~typeBrief[a] /\ queue[a] = <<>> /\ fyi[a] = <<>> /\ pending[a] = <<>>
      /\ got[a] = <<>> /\ ~Has(out, a) /\ ~Spawn(out, a) /\ ~perm[a]
    BY FreshLine DEF Launch
<1>2. /\ UNCHANGED <<kind, pane, queue, fyi, stopAfter, perm, gui, guiIn, hooks, got>>
      /\ updates' = updates /\ sent' = sent
    BY DEF Launch, accepted
<1>3. Range(<<>>) = {} /\ <<>> \in Seq(Nat)
    BY ShortSequences, EmptySeq
<1>4. Waited(a)'
    BY <1>1, <1>2, NothingWaited
<1>5. Kept(a)
    BY <1>1 DEF Kept
<1>6. CASE kind[a] \in PaneKinds
    <2>1. /\ status'[a] = "starting" /\ spawning'[a] /\ prog' = prog /\ pending' = pending
          /\ typeBrief'[a] = (kind[a] = "mute")
        BY <1>6 DEF Launch, TypeOK
    <2> DEFINE l == <<a, "spawn", <<>>>>
    <2>2. l \in Letters /\ l[1] = a /\ l[3] = <<>>
        BY <1>3 DEF Letters
    <2>3. out' = Append(out, l)
        BY <1>6 DEF Launch, ToPane
    <2>4. out \in Seq(Letters)
        BY DEF TypeOK, Letters
    <2> HIDE DEF l
    <2>5. Once(out', a) /\ Carries(out', a) /\ TypedIn(out', a) = TypedIn(out, a) \o <<>>
        <3>1. Carries(out, a)
            BY DEF AgentInv
        <3>2. /\ ~Has(out, a) => Once(Append(out, l), a)
              /\ Carries(out, a) /\ l[3] = <<>> => Carries(Append(out, l), a)
            BY <2>2, <2>4, MailPosted
        <3>3. TypedIn(Append(out, l), a) = TypedIn(out, a) \o l[3]
            BY <2>2, <2>4, TypedPosted
        <3>4. QED
            BY <1>1, <2>2, <2>3, <3>1, <3>2, <3>3
    <2>6. Typed(a)' = <<>>
        <3>1. TypedIn(out, a) = <<>>
            BY <1>1, PiecesNow
        <3>2. TypedIn(out', a) = <<>>
            BY <1>3, <2>5, <3>1, ConcatEmptySeq
        <3>3. QED
            BY <3>2, PiecesThen
    <2>7. LineGoes(a) /\ Range(Copies(a))' = Range(Copies(a))
        <3>1. Prompted(a)' = Prompted(a)
            BY <2>1 DEF Prompted
        <3>2. LineStays(a)
            BY <1>1, <1>2, <2>6, <3>1 DEF LineStays
        <3>3. QED
            BY <1>2, <3>2, LineKeeps DEF AgentInv
    <2>8. InLine(a)' /\ Range(Copies(a))' = {}
        BY <1>1, <2>7 DEF LineGoes
    <2>9. Fresh(a)' /\ Opening(a)' /\ Carries(out, a)' /\ Untyped(a)' /\ Known(a)'
        BY <1>1, <1>2, <1>3, <2>1, <2>5, <2>8
        DEF Fresh, Opening, Carries, Once, Untyped, Known
    <2>10. Program(a)'
        BY <1>1, <1>2, <1>3, <1>6, <2>1 DEF Program
    <2>11. Silent(a)'
        BY <1>1, <1>2, <1>6 DEF Silent, PaneKinds
    <2>12. QED
        BY <1>4, <1>5, <2>8, <2>9, <2>10, <2>11 DEF Acts, AgentInv
<1>7. CASE kind[a] \notin PaneKinds
    <2> DEFINE e == <<Brief>>
    <2>1. /\ status'[a] = "working" /\ prog'[a] = "idle" /\ spawning' = spawning
          /\ handle'[a] = (kind[a] = "acp") /\ typeBrief' = typeBrief /\ out' = out
        BY <1>7 DEF Launch, TypeOK
    <2>2. e \in Seq(Nat)
        BY DEF Brief
    <2>3. pending' = [pending EXCEPT ![a] = <<e>>]
        BY <1>7 DEF Launch
    <2> HIDE DEF e
    <2>4. pending'[a] = <<e>> /\ <<>> \in Seq(Seq(Nat)) /\ <<e>> = Append(<<>>, e)
        BY <2>3, EmptySeq DEF TypeOK
    <2>5. Prompted(a)' = Prompted(a) \o e
        <3>1. FlattenSeq(Append(<<>>, e)) = FlattenSeq(<<>>) \o e
            BY <2>2, <2>4, FlattenAppend
        <3>2. QED
            BY <1>1, <2>4, <3>1 DEF Prompted
    <2>6. LineGoes(a)
        <3>1. /\ Typed(a)' = Typed(a) /\ got'[a] = got[a] /\ kind' = kind
              /\ queue'[a] = queue[a] /\ fyi'[a] = fyi[a]
              /\ ~typeBrief'[a] /\ ~Spawn(out, a)' /\ Brief \notin Range(Copies(a))
            BY <1>1, <1>2, <2>1 DEF Typed, Spawn
        <3>2. QED
            BY <1>2, <2>5, <3>1, LineGainsBrief DEF AgentInv, e
    <2>7. InLine(a)' /\ Fresh(a)' /\ Opening(a)' /\ Carries(out, a)' /\ Untyped(a)' /\ Known(a)'
        <3>1. /\ status'[a] # "none" /\ ~Spawn(out', a) /\ Carries(out', a)
              /\ Range(fyi'[a]) \subseteq updates' /\ queue'[a] = <<>>
              /\ typeBrief'[a] => typeBrief[a]
            BY <1>1, <1>2, <1>3, <2>1 DEF AgentInv
        <3>2. QED
            BY <1>2, <2>6, <3>1, Books
    <2>8. Program(a)'
        BY <1>1, <1>2, <1>3, <2>1 DEF AgentInv, Program
    <2>9. Silent(a)'
        BY <1>1, <1>2, <2>1 DEF Silent
    <2>10. QED
        BY <1>4, <1>5, <2>7, <2>8, <2>9 DEF Acts, AgentInv
<1>8. QED
    BY <1>6, <1>7

\* send_now, when it finds what it needs: into the pane, or to the child or the chat.
LEMMA SendNowLine ==
    ASSUME TypeOK, TypeOK', NEW a \in Agents, AgentInv(a), NEW msgs \in Seq(Nat),
           CanSend(a), SendNow(a, msgs)
    PROVE  /\ status'[a] = "working" /\ Carries(out', a)
           /\ Spawn(out', a) => Spawn(out, a)
           /\ \/ /\ kind[a] \in PaneKinds /\ pane[a]
                 /\ Typed(a)' = Typed(a) \o msgs /\ Prompted(a)' = Prompted(a)
              \/ /\ kind[a] \notin PaneKinds /\ Typed(a) = <<>> /\ Typed(a)' = <<>>
                 /\ Prompted(a)' = Prompted(a) \o msgs
<1>1. status'[a] = "working"
    BY DEF SendNow, TypeOK
<1>2. CASE kind[a] \in PaneKinds
    <2>1. pane[a] /\ gui /\ ToPane(a, "type", msgs) /\ pending' = pending
        BY <1>2 DEF CanSend, SendNow, PaneKinds
    <2>2. /\ Carries(out', a) /\ (Spawn(out', a) => Spawn(out, a))
          /\ TypedIn(out', a) = TypedIn(out, a) \o msgs
        BY <1>2, <2>1, Posts DEF AgentInv
    <2>3. Typed(a)' = Typed(a) \o msgs
        BY <2>2, PiecesNow, PiecesThen
    <2>4. Prompted(a)' = Prompted(a)
        BY <2>1 DEF Prompted
    <2>5. QED
        BY <1>1, <1>2, <2>1, <2>2, <2>3, <2>4
<1>3. CASE kind[a] \notin PaneKinds
    <2>1. out' = out /\ pending'[a] = Append(pending[a], msgs)
        BY <1>3 DEF SendNow, TypeOK
    <2>2. Typed(a) = <<>>
        BY <1>3, NoPaneNoMail DEF AgentInv
    <2>3. Typed(a)' = <<>>
        BY <2>1, <2>2, PiecesNow, PiecesThen
    <2>4. pending[a] \in Seq(Seq(Nat))
        BY DEF TypeOK
    <2>5. Prompted(a)' = Prompted(a) \o msgs
        BY <2>1, <2>4, FlattenAppend DEF Prompted
    <2>6. Carries(out', a) /\ (Spawn(out', a) => Spawn(out, a))
        BY <2>1 DEF AgentInv
    <2>7. QED
        BY <1>1, <1>3, <2>2, <2>3, <2>5, <2>6
<1>4. QED
    BY <1>2, <1>3

\* A message that is accepted goes to the end of the line.
LEMMA DeliverActs ==
    ASSUME TypeOK, TypeOK', NEW a \in Agents, AgentInv(a), Deliver(a) \/ DeliverFyi(a)
    PROVE  Acts(a)
<1> DEFINE n == sent'
           e == <<n>>
<1>1. /\ Live(a) /\ sent' = sent + 1 /\ updates \subseteq updates'
      /\ UNCHANGED <<kind, pane, spawning, typeBrief, handle, perm, guiIn, hooks, prog, got>>
    BY DEF Deliver, DeliverFyi, lines, program
<1>2. n \in Nat /\ e \in Seq(Nat)
    <2>1. sent' \in Nat
        BY DEF TypeOK
    <2>2. QED
        BY <2>1
<1>3. \A q \in Seq(Nat) : Append(q, n) = q \o e
    BY <1>2, AppendIsConcat
<1>4. /\ got'[a] = got[a] /\ kind' = kind /\ status[a] # "none"
      /\ prog[a] = "none" => kind[a] \in PaneKinds
      /\ queue[a] \in Seq(Nat) /\ fyi[a] \in Seq(Nat)
    BY <1>1 DEF Live, AgentInv, Program, TypeOK
<1>5. /\ LineGoes(a) /\ Range(Copies(a)) \subseteq Range(Copies(a))'
      /\ Carries(out', a) /\ (Spawn(out', a) => Spawn(out, a) /\ out' = out)
      /\ Range(fyi'[a]) \subseteq updates' /\ status'[a] # "none"
      /\ status'[a] = "holding" \/ kind[a] = "mute" => queue'[a] = <<>>
      /\ Live(a)'
    <2>1. CASE DeliverFyi(a)
        <3>1. /\ fyi'[a] = Append(fyi[a], n) /\ queue' = queue /\ out' = out
              /\ pending' = pending /\ status' = status /\ updates' = updates \cup {n}
              /\ status[a] # "holding"
            BY <2>1 DEF DeliverFyi, lines, program, TypeOK
        <3>2. fyi'[a] = fyi[a] \o e
            BY <1>3, <1>4, <3>1
        <3>3. Typed(a)' = Typed(a) /\ Prompted(a)' = Prompted(a)
            BY <3>1 DEF Typed, Prompted
        <3>4. LineGoes(a) /\ Range(Copies(a)) \subseteq Range(Copies(a))'
            BY <1>1, <1>4, <3>1, <3>2, <3>3, LineGainsMessage DEF AgentInv, e, n
        <3>5. Range(fyi'[a]) = Range(fyi[a]) \cup {n}
            <4>1. Range(e) = {n}
                BY ShortSequences
            <4> HIDE DEF e, n
            <4>2. Range(fyi[a] \o e) = Range(fyi[a]) \cup Range(e)
                BY <1>2, <1>4, ConcatRange
            <4>3. QED
                BY <3>2, <4>1, <4>2
        <3>6. Range(fyi'[a]) \subseteq updates'
            BY <3>1, <3>5 DEF AgentInv, Known
        <3> HIDE DEF n
        <3>7. QED
            BY <1>1, <1>4, <3>1, <3>4, <3>6 DEF AgentInv, Known, Live
    <2>2. CASE Deliver(a) /\ SendNow(a, e) /\ CanSend(a) /\ UNCHANGED queue
               /\ (status[a] = "holding" \/ kind[a] = "mute")
        <3>1. queue[a] = <<>> /\ fyi' = fyi /\ updates' = updates /\ queue' = queue
            BY <2>2 DEF Deliver, AgentInv, Known
        <3> HIDE DEF e, n
        <3>2. /\ status'[a] = "working" /\ Carries(out', a)
              /\ Spawn(out', a) => Spawn(out, a)
              /\ \/ /\ kind[a] \in PaneKinds /\ pane[a]
                    /\ Typed(a)' = Typed(a) \o e /\ Prompted(a)' = Prompted(a)
                 \/ /\ kind[a] \notin PaneKinds /\ Typed(a) = <<>> /\ Typed(a)' = <<>>
                    /\ Prompted(a)' = Prompted(a) \o e
            BY <1>2, <2>2, SendNowLine
        <3>3. LineGoes(a) /\ Range(Copies(a)) \subseteq Range(Copies(a))'
            BY <1>1, <1>4, <3>1, <3>2, LineGainsMessage DEF AgentInv, e, n
        <3>4. ~Spawn(out', a)
            <4>1. Spawn(out, a) => ~pane[a] /\ prog[a] = "none"
                BY DEF AgentInv, Opening
            <4>2. QED
                BY <1>4, <3>2, <4>1
        <3>5. QED
            BY <3>1, <3>2, <3>3, <3>4 DEF AgentInv, Known, Live
    <2>3. CASE /\ Deliver(a) /\ queue' = [queue EXCEPT ![a] = Append(@, sent')]
               /\ UNCHANGED <<status, out, pending>>
               /\ ~(status[a] = "holding" \/ kind[a] = "mute")
        <3>1. /\ queue'[a] = Append(queue[a], n) /\ fyi' = fyi /\ updates' = updates
              /\ out' = out /\ pending' = pending /\ status' = status
            BY <2>3 DEF Deliver, TypeOK
        <3>2. queue'[a] = queue[a] \o e
            BY <1>3, <1>4, <3>1
        <3>3. Typed(a)' = Typed(a) /\ Prompted(a)' = Prompted(a)
            BY <3>1 DEF Typed, Prompted
        <3>4. LineGoes(a) /\ Range(Copies(a)) \subseteq Range(Copies(a))'
            BY <1>1, <1>4, <3>1, <3>2, <3>3, LineGainsMessage DEF AgentInv, e, n
        <3>5. QED
            BY <1>1, <1>4, <2>3, <3>1, <3>4 DEF AgentInv, Known, Live
    <2>4. QED
        BY <2>1, <2>2, <2>3 DEF Deliver
<1>6. InLine(a)' /\ Fresh(a)' /\ Opening(a)' /\ Carries(out, a)' /\ Untyped(a)' /\ Known(a)'
    <2>1. Spawn(out', a) =>
             /\ Spawn(out, a) /\ prog'[a] = "none" /\ hooks'[a] = <<>> /\ got'[a] = <<>>
             /\ ~pane'[a] /\ "opened" \notin Range(guiIn'[a]) /\ Once(out', a)
        BY <1>1, <1>5 DEF AgentInv, Opening
    <2>2. typeBrief'[a] => typeBrief[a]
        BY <1>1
    <2>3. QED
        BY <1>1, <1>5, <2>1, <2>2, Books
<1>7. Program(a)' /\ Waited(a)'
    BY <1>1, <1>4 DEF AgentInv, Program, Waited, Asked
<1>8. Silent(a)'
    BY <1>1, <1>5 DEF AgentInv, Silent
<1>9. QED
    BY <1>5, <1>6, <1>7, <1>8 DEF Acts, AgentInv, Kept

\* stop_agent takes an agent offline, and its queue with it.
LEMMA StopLine ==
    ASSUME TypeOK, TypeOK', NEW a \in Agents, AgentInv(a), Live(a), Stop(a),
           UNCHANGED <<kind, fyi, pending, got, updates>>
    PROVE  /\ LineGoes(a) /\ Carries(out', a) /\ (Spawn(out', a) => Spawn(out, a) /\ out' = out)
           /\ status'[a] = "offline" /\ queue'[a] = <<>> /\ ~perm'[a] /\ ~handle'[a]
<1>1. status'[a] = "offline" /\ queue'[a] = <<>> /\ ~perm'[a] /\ ~handle'[a]
    BY DEF Stop, Offline, TypeOK
<1>2. /\ Carries(out', a) /\ (Spawn(out', a) => Spawn(out, a) /\ out' = out)
      /\ TypedIn(out', a) = TypedIn(out, a)
    <2>1. CASE pane[a]
        <3>1. ToPane(a, "close", <<>>) /\ <<>> \in Seq(Nat)
            BY <2>1, EmptySeq DEF Stop
        <3>2. /\ Carries(out', a) /\ (Spawn(out', a) => Spawn(out, a))
              /\ TypedIn(out', a) = IF gui THEN TypedIn(out, a) \o <<>> ELSE TypedIn(out, a)
            BY <3>1, Posts DEF AgentInv
        <3>3. ~Spawn(out, a)
            BY <2>1 DEF AgentInv, Opening
        <3>4. TypedIn(out, a) \in Seq(Nat)
            BY PiecesNow
        <3>5. TypedIn(out, a) \o <<>> = TypedIn(out, a)
            BY <3>4, ConcatEmptySeq
        <3>6. QED
            BY <3>2, <3>3, <3>5
    <2>2. CASE ~pane[a]
        BY <2>2 DEF Stop, AgentInv
    <2>3. QED
        BY <2>1, <2>2
<1>3. Typed(a)' = Typed(a)
    BY <1>2, PiecesNow, PiecesThen
<1>4. Prompted(a)' = Prompted(a) /\ got'[a] = got[a] /\ fyi'[a] = fyi[a] /\ kind' = kind
      /\ updates' = updates
    BY DEF Prompted
<1>5. LineGoes(a)
    BY <1>1, <1>3, <1>4, LineShrinks DEF AgentInv
<1>6. QED
    BY <1>1, <1>2, <1>5

\* A human stops the agent.
LEMMA StopAgentActs ==
    ASSUME TypeOK, TypeOK', NEW a \in Agents, AgentInv(a), StopAgent(a)
    PROVE  Acts(a)
<1>1. /\ Live(a) /\ Stop(a)
      /\ UNCHANGED <<kind, pane, fyi, spawning, typeBrief, guiIn, hooks, prog, pending,
                     got, updates, sent>>
    BY DEF StopAgent, program, accepted
<1>2. /\ LineGoes(a) /\ Carries(out', a) /\ (Spawn(out', a) => Spawn(out, a) /\ out' = out)
      /\ status'[a] = "offline" /\ queue'[a] = <<>> /\ ~perm'[a] /\ ~handle'[a]
    BY <1>1, StopLine
<1>3. InLine(a)' /\ Fresh(a)' /\ Opening(a)' /\ Carries(out, a)' /\ Untyped(a)' /\ Known(a)'
    <2>1. Spawn(out', a) =>
             /\ Spawn(out, a) /\ prog'[a] = "none" /\ hooks'[a] = <<>> /\ got'[a] = <<>>
             /\ ~pane'[a] /\ "opened" \notin Range(guiIn'[a]) /\ Once(out', a)
        BY <1>1, <1>2 DEF AgentInv, Opening
    <2>2. (typeBrief'[a] => typeBrief[a]) /\ Range(fyi'[a]) \subseteq updates'
        BY <1>1 DEF AgentInv, Known
    <2>3. QED
        BY <1>1, <1>2, <2>1, <2>2, Books
<1>4. Program(a)' /\ Waited(a)'
    BY <1>1 DEF AgentInv, Program, Waited, Asked, Live
<1>5. Silent(a)' /\ Excused(a)
    BY <1>2 DEF Silent, Live, Excused
<1>6. QED
    BY <1>3, <1>4, <1>5 DEF Acts, AgentInv, Kept

\* A helper that returns is stopped later.
LEMMA ToolReturnActs ==
    ASSUME TypeOK, TypeOK', NEW a \in Agents, AgentInv(a), ToolReturn(a)
    PROVE  Acts(a)
<1>1. /\ UNCHANGED <<kind, status, pane, queue, fyi, spawning, typeBrief, handle, perm,
                     out, guiIn, hooks, prog, pending, got, updates, sent>>
    BY DEF ToolReturn, lines, program, accepted
<1>2. /\ Same(a) /\ kind' = kind /\ updates \subseteq updates' /\ sent' = sent /\ out' = out
    BY <1>1 DEF Same
<1>3. AgentInv(a)' /\ Range(Copies(a))' = Range(Copies(a))
    BY <1>2, Unmoved
<1>4. QED
    BY <1>3 DEF Acts, Kept

\* The human answers: the program goes on if it still waits.
LEMMA AnswerActs ==
    ASSUME TypeOK, TypeOK', NEW a \in Agents, AgentInv(a), Answer(a)
    PROVE  Acts(a)
<1>1. /\ UNCHANGED <<kind, pane, queue, fyi, spawning, typeBrief, handle, out, guiIn,
                     hooks, pending, got, updates, sent>>
      /\ perm[a] /\ ~perm'[a] /\ status'[a] = "working"
      /\ prog'[a] = IF handle[a] /\ prog[a] = "asking" THEN "turn" ELSE prog[a]
    BY DEF Answer, lines, accepted, TypeOK
<1>2. Live(a) /\ (prog[a] = "gone" \/ (prog[a] = "asking" /\ hooks[a] = <<>>))
    BY <1>1 DEF AgentInv, Silent
<1>3. LineGoes(a) /\ Range(Copies(a))' = Range(Copies(a))
    <2>1. LineStays(a)
        BY <1>1 DEF LineStays, Typed, Prompted
    <2>2. kind' = kind /\ updates \subseteq updates'
        BY <1>1
    <2>3. QED
        BY <2>1, <2>2, LineKeeps DEF AgentInv
<1>4. InLine(a)' /\ Fresh(a)' /\ Opening(a)' /\ Carries(out, a)' /\ Untyped(a)' /\ Known(a)'
    <2>1. ~Spawn(out', a) /\ Carries(out', a) /\ Range(fyi'[a]) \subseteq updates'
        BY <1>1, <1>2 DEF AgentInv, Opening, Known
    <2>2. /\ status'[a] = "holding" \/ kind[a] = "mute" => queue'[a] = <<>>
          /\ status'[a] # "none" /\ (typeBrief'[a] => typeBrief[a])
        BY <1>1 DEF AgentInv, Known
    <2>3. kind' = kind /\ updates \subseteq updates' /\ sent' = sent
        BY <1>1
    <2>4. QED
        BY <1>3, <2>1, <2>2, <2>3, Books
<1>5. Program(a)'
    BY <1>1, <1>2 DEF AgentInv, Program
<1>6. Waited(a)'
    <2>1. CASE prog[a] = "gone"
        BY <1>1, <2>1, GoneWaited
    <2>2. CASE hooks[a] = <<>>
        BY <1>1, <2>2, NothingWaited
    <2>3. QED
        BY <1>2, <2>1, <2>2
<1>7. Silent(a)'
    BY <1>1, <1>2 DEF Silent, Live
<1>8. QED
    BY <1>3, <1>4, <1>5, <1>6, <1>7 DEF Acts, AgentInv, Kept

\* What is left of a queue was in it.
LEMMA TailRange ==
    ASSUME NEW S, NEW q \in Seq(S), q # <<>>
    PROVE  Range(Tail(q)) \subseteq Range(q) /\ Head(q) \in Range(q)
<1> DEFINE n == Len(q)
           r == Tail(q)
<1>1. n \in Nat \ {0}
    BY LenProperties, EmptySeq
<1>2. r \in Seq(S) /\ Len(r) = n - 1 /\ Head(q) = q[1] /\ \A i \in 1..n - 1 : r[i] = q[i + 1]
    BY HeadTailProperties
<1>3. DOMAIN q = 1..n /\ DOMAIN r = 1..n - 1 /\ 1 \in 1..n
    BY <1>1, <1>2, LenProperties
<1>4. \A i \in 1..n - 1 : i + 1 \in 1..n
    BY <1>1
<1> HIDE DEF n, r
<1>5. QED
    BY <1>2, <1>3, <1>4 DEF Range, r

\* An agent whose program is left alone goes offline.
LEMMA OfflineLine ==
    ASSUME TypeOK, TypeOK', NEW a \in Agents, AgentInv(a), status[a] # "none", Offline(a),
           UNCHANGED <<kind, fyi, pending, got, updates, out>>
    PROVE  /\ LineGoes(a) /\ status'[a] = "offline" /\ ~perm'[a]
           /\ queue'[a] \in {queue[a], <<>>}
<1>1. status'[a] = "offline" /\ ~perm'[a] /\ queue'[a] \in {queue[a], <<>>}
    <2>1. CASE Live(a)
        BY <2>1 DEF Offline, TypeOK
    <2>2. CASE ~Live(a)
        BY <2>2 DEF Offline, Live, AgentInv, Silent
    <2>3. QED
        BY <2>1, <2>2
<1>2. /\ Typed(a)' = Typed(a) /\ Prompted(a)' = Prompted(a) /\ got'[a] = got[a]
      /\ fyi'[a] = fyi[a] /\ kind' = kind /\ updates \subseteq updates'
    BY DEF Typed, Prompted
<1>3. LineGoes(a)
    BY <1>1, <1>2, LineShrinks DEF AgentInv
<1>4. QED
    BY <1>1, <1>3

\* The engine reads what the GUI reports: a pane opened, failed or exited.
LEMMA HandleGuiActs ==
    ASSUME TypeOK, TypeOK', NEW a \in Agents, AgentInv(a), HandleGui(a)
    PROVE  Acts(a)
<1> DEFINE what == Head(guiIn[a])
           mine == what # "exited" /\ spawning[a]
<1>1. /\ UNCHANGED <<kind, fyi, handle, hooks, prog, pending, got, updates, sent>>
      /\ guiIn[a] # <<>> /\ guiIn'[a] = Tail(guiIn[a])
      /\ spawning'[a] => spawning[a]
    BY DEF HandleGui, program, accepted, TypeOK
<1>2. guiIn[a] \in Seq(News)
    BY DEF TypeOK, News
<1>3. Range(guiIn'[a]) \subseteq Range(guiIn[a]) /\ what \in Range(guiIn[a])
    BY <1>1, <1>2, TailRange
<1>4. status[a] # "none" /\ Range(fyi'[a]) \subseteq updates'
    BY <1>1 DEF AgentInv, Fresh, Known
<1>5. \/ what = "opened" /\ spawning[a] /\ PaneOpened(a)
      \/ Offline(a) /\ UNCHANGED <<pane, typeBrief, out>>
      \/ UNCHANGED <<pane, typeBrief, out, status, queue, token, perm>>
    BY DEF HandleGui
<1> HIDE DEF what, mine
<1>6. Waited(a)'
    BY <1>1 DEF AgentInv, Waited, Asked
<1>7. CASE what = "opened" /\ spawning[a] /\ PaneOpened(a)
    <2>1. /\ kind[a] \in PaneKinds /\ ~Spawn(out, a)
        BY <1>3, <1>7 DEF AgentInv, Program, Opening
    <2>2. /\ pane'[a] /\ status'[a] = "working" /\ ~typeBrief'[a] /\ UNCHANGED <<queue, perm>>
          /\ IF typeBrief[a] THEN ToPane(a, "type", <<Brief>>) ELSE out' = out
        BY <1>7 DEF PaneOpened, TypeOK
    <2> DEFINE e == <<Brief>>
    <2>3. e \in Seq(Nat)
        BY DEF Brief
    <2>4. /\ LineGoes(a) /\ Range(Copies(a)) \subseteq Range(Copies(a))'
          /\ Carries(out', a) /\ ~Spawn(out', a)
        <3>1. Prompted(a)' = Prompted(a) /\ got'[a] = got[a] /\ queue'[a] = queue[a]
              /\ fyi'[a] = fyi[a] /\ kind' = kind /\ updates' = updates
            BY <1>1, <2>2 DEF Prompted
        <3>2. CASE out' = out
            <4>1. Typed(a)' = Typed(a)
                BY <3>2 DEF Typed
            <4>2. LineStays(a)
                BY <3>1, <4>1 DEF LineStays
            <4>3. QED
                BY <2>1, <3>1, <3>2, <4>2, LineKeeps DEF AgentInv
        <3>3. CASE typeBrief[a] /\ gui
            <4> HIDE DEF e
            <4>1. ToPane(a, "type", e)
                BY <2>2, <3>3 DEF e
            <4>2. /\ Carries(out', a) /\ (Spawn(out', a) => Spawn(out, a))
                  /\ TypedIn(out', a) = TypedIn(out, a) \o e
                BY <2>1, <2>3, <3>3, <4>1, Posts DEF AgentInv
            <4>3. Typed(a)' = Typed(a) \o e
                BY <4>2, PiecesNow, PiecesThen
            <4>4. /\ Brief \notin Range(Copies(a)) /\ ~typeBrief'[a] /\ ~Spawn(out, a)'
                BY <2>1, <2>2, <3>3, <4>2 DEF AgentInv, Untyped, Spawn
            <4>5. LineGoes(a) /\ Range(Copies(a)) \subseteq Range(Copies(a))'
                BY <3>1, <4>3, <4>4, LineGainsBrief DEF AgentInv, e
            <4>6. QED
                BY <2>1, <4>2, <4>5
        <3>4. QED
            BY <2>2, <3>2, <3>3 DEF ToPane
    <2>5. InLine(a)' /\ Fresh(a)' /\ Opening(a)' /\ Carries(out, a)' /\ Untyped(a)' /\ Known(a)'
        <3>1. /\ status'[a] = "holding" \/ kind[a] = "mute" => queue'[a] = <<>>
              /\ status'[a] # "none" /\ (typeBrief'[a] => typeBrief[a])
            BY <2>2 DEF AgentInv, Known
        <3>2. kind' = kind /\ updates \subseteq updates' /\ sent' = sent
            BY <1>1
        <3>3. QED
            BY <1>4, <2>4, <3>1, <3>2, Books
    <2>6. Program(a)'
        BY <1>1, <2>1 DEF AgentInv, Program
    <2>7. Silent(a)'
        BY <1>1, <2>1, <2>2 DEF AgentInv, Silent, Live, PaneKinds
    <2>8. QED
        BY <1>6, <2>4, <2>5, <2>6, <2>7 DEF Acts, AgentInv, Kept
<1>8. ASSUME out' = out, typeBrief' = typeBrief, pane' = pane, LineGoes(a), Kept(a),
             status'[a] # "none",
             status'[a] = "holding" \/ kind[a] = "mute" => queue'[a] = <<>>,
             Silent(a)'
      PROVE  Acts(a)
    <2>1. Spawn(out', a) =>
             /\ Spawn(out, a) /\ prog'[a] = "none" /\ hooks'[a] = <<>> /\ got'[a] = <<>>
             /\ ~pane'[a] /\ "opened" \notin Range(guiIn'[a]) /\ Once(out', a)
        BY <1>1, <1>3, <1>8 DEF AgentInv, Opening
    <2>2. /\ kind' = kind /\ updates \subseteq updates' /\ sent' = sent /\ Carries(out', a)
          /\ (typeBrief'[a] => typeBrief[a])
        BY <1>1, <1>8 DEF AgentInv
    <2>3. InLine(a)' /\ Fresh(a)' /\ Opening(a)' /\ Carries(out, a)' /\ Untyped(a)' /\ Known(a)'
        BY <1>4, <1>8, <2>1, <2>2, Books
    <2>4. Program(a)'
        BY <1>1, <1>4, <1>8 DEF AgentInv, Program
    <2>5. QED
        BY <1>6, <1>8, <2>3, <2>4 DEF Acts, AgentInv
<1>9. CASE Offline(a) /\ UNCHANGED <<pane, typeBrief, out>>
    <2>1. /\ LineGoes(a) /\ status'[a] = "offline" /\ ~perm'[a]
          /\ queue'[a] \in {queue[a], <<>>}
        BY <1>1, <1>4, <1>9, OfflineLine
    <2>2. Silent(a)' /\ Kept(a)
        BY <2>1 DEF Silent, Live, Kept, Excused
    <2>3. status'[a] = "holding" \/ kind[a] = "mute" => queue'[a] = <<>>
        BY <2>1 DEF AgentInv, Known
    <2>4. QED
        BY <1>8, <1>9, <2>1, <2>2, <2>3
<1>10. CASE UNCHANGED <<pane, typeBrief, out, status, queue, token, perm>>
    <2>1. LineStays(a) /\ kind' = kind /\ updates \subseteq updates'
        BY <1>1, <1>10 DEF LineStays, Typed, Prompted
    <2>2. LineGoes(a) /\ Kept(a)
        BY <2>1, LineKeeps DEF AgentInv, Kept
    <2>3. Silent(a)'
        BY <1>1, <1>10 DEF AgentInv, Silent, Live
    <2>4. status'[a] = "holding" \/ kind[a] = "mute" => queue'[a] = <<>>
        BY <1>10 DEF AgentInv, Known
    <2>5. QED
        BY <1>4, <1>8, <1>10, <2>2, <2>3, <2>4
<1>11. QED
    BY <1>5, <1>7, <1>9, <1>10

\* What a report of the agent's may do to it, apart from its program.
Heard(a) ==
    /\ LineGoes(a) /\ Kept(a) /\ Carries(out', a) /\ ~Spawn(out', a)
    /\ status'[a] # "none" /\ Range(fyi'[a]) \subseteq updates'
    /\ status'[a] = "holding" \/ kind[a] = "mute" => queue'[a] = <<>>
    /\ Silent(a)'

\* on_idle: the agent is stopped, or what queued up is handed over.
LEMMA OnIdleHeard ==
    ASSUME TypeOK, TypeOK', NEW a \in Agents, AgentInv(a), OnIdle(a), hooks[a] # <<>>,
           UNCHANGED <<kind, gui, got, updates>>, prog[a] = "gone" => prog'[a] = "gone"
    PROVE  Heard(a)
<1>1. /\ status[a] # "none" /\ ~Spawn(out, a) /\ Carries(out, a)
      /\ Range(fyi[a]) \subseteq updates
      /\ status[a] = "holding" \/ kind[a] = "mute" => queue[a] = <<>>
      /\ perm[a] \/ (kind[a] = "acp" /\ Live(a) /\ ~handle[a]) => Live(a) /\ prog[a] = "gone"
    BY DEF AgentInv, Fresh, Opening, Known, Silent
<1>2. kind' = kind /\ updates' = updates /\ got'[a] = got[a]
    OBVIOUS
<1>3. CASE ~Live(a)
    <2>1. UNCHANGED <<status, queue, fyi, handle, perm, out, pending>>
        BY <1>3 DEF OnIdle
    <2>2. LineStays(a)
        BY <1>2, <2>1 DEF LineStays, Typed, Prompted
    <2>3. LineGoes(a) /\ Kept(a)
        BY <1>2, <2>2, LineKeeps DEF AgentInv, Kept
    <2>4. QED
        BY <1>1, <1>2, <2>1, <2>3 DEF Heard, Silent, Live
<1>4. CASE Live(a) /\ stopAfter[a]
    <2>1. Stop(a) /\ UNCHANGED <<fyi, pending>>
        BY <1>4 DEF OnIdle, IdleLive
    <2>2. /\ LineGoes(a) /\ Carries(out', a) /\ (Spawn(out', a) => Spawn(out, a))
          /\ status'[a] = "offline" /\ queue'[a] = <<>> /\ ~perm'[a]
        BY <1>4, <2>1, StopLine
    <2>3. Silent(a)' /\ Kept(a)
        BY <2>2 DEF Silent, Live, Kept, Excused
    <2>4. QED
        BY <1>1, <1>2, <2>1, <2>2, <2>3 DEF Heard
<1>5. CASE Live(a) /\ ~stopAfter[a]
    <2> DEFINE msgs == queue[a] \o fyi[a]
    <2>1. HandOver(a) /\ UNCHANGED <<handle, perm>>
        BY <1>5 DEF OnIdle, IdleLive
    <2>2. queue'[a] = <<>> /\ fyi'[a] = <<>> /\ Range(<<>>) = {}
        BY <2>1, ShortSequences DEF HandOver, TypeOK
    <2>3. queue[a] \in Seq(Nat) /\ fyi[a] \in Seq(Nat)
        BY DEF TypeOK
    <2>4. msgs \in Seq(Nat) /\ (msgs = <<>> => queue[a] = <<>> /\ fyi[a] = <<>>)
        BY <2>3, ConcatRange, ConcatEqualIffEmpty
    <2>5. \/ msgs # <<>> /\ CanSend(a) /\ SendNow(a, msgs)
          \/ /\ msgs = <<>> \/ ~CanSend(a)
             /\ status' = [status EXCEPT ![a] = "holding"] /\ UNCHANGED <<out, pending>>
        BY <2>1 DEF HandOver
    <2>6. CASE CanSend(a) /\ SendNow(a, msgs)
        <3> HIDE DEF msgs
        <3>1. /\ status'[a] = "working" /\ Carries(out', a)
              /\ Spawn(out', a) => Spawn(out, a)
              /\ \/ /\ kind[a] \in PaneKinds /\ pane[a]
                    /\ Typed(a)' = Typed(a) \o msgs /\ Prompted(a)' = Prompted(a)
                 \/ /\ kind[a] \notin PaneKinds /\ Typed(a) = <<>> /\ Typed(a)' = <<>>
                    /\ Prompted(a)' = Prompted(a) \o msgs
            BY <2>4, <2>6, SendNowLine
        <3>2. \/ Typed(a)' = Typed(a) \o (queue[a] \o fyi[a]) /\ Prompted(a)' = Prompted(a)
              \/ /\ Typed(a) = <<>> /\ Typed(a)' = <<>>
                 /\ Prompted(a)' = Prompted(a) \o (queue[a] \o fyi[a])
            BY <3>1 DEF msgs
        <3>3. <<>> \in Seq(Nat)
            BY EmptySeq
        <3>4. LineGoes(a) /\ Range(Copies(a))' = Range(Copies(a))
            BY <1>2, <2>2, <3>2, <3>3, LineMoves DEF AgentInv
        <3>5. Silent(a)'
            BY <1>1, <1>2, <1>5, <2>1, <3>1 DEF Silent, Live
        <3>6. QED
            BY <1>1, <2>2, <3>1, <3>4, <3>5 DEF Heard, Kept
    <2>7. CASE /\ msgs = <<>> \/ ~CanSend(a)
               /\ status' = [status EXCEPT ![a] = "holding"] /\ UNCHANGED <<out, pending>>
        <3>1. status'[a] = "holding" /\ out' = out
            BY <2>7 DEF TypeOK
        <3>2. Typed(a)' = Typed(a) /\ Prompted(a)' = Prompted(a)
            BY <2>7 DEF Typed, Prompted
        <3>3. LineGoes(a)
            BY <1>2, <2>2, <3>2, LineShrinks DEF AgentInv
        <3>4. Kept(a)
            <4>1. CASE msgs = <<>>
                <5>1. LineStays(a)
                    BY <1>2, <2>2, <2>4, <3>2, <4>1 DEF LineStays
                <5>2. QED
                    BY <1>2, <5>1, LineKeeps DEF AgentInv, Kept
            <4>2. CASE ~CanSend(a)
                <5>1. kind[a] \in Kinds
                    BY DEF TypeOK
                <5>2. \/ kind[a] \in PaneKinds /\ (~pane[a] \/ ~gui)
                      \/ kind[a] = "acp" /\ (~handle[a] \/ prog[a] = "gone")
                      \/ kind[a] = "llm" /\ ~role[a]
                    BY <4>2, <5>1 DEF CanSend, Kinds, PaneKinds
                <5>3. Excused(a)
                    BY <1>1, <1>5, <5>2 DEF Excused
                <5>4. QED
                    BY <5>3 DEF Kept
            <4>3. QED
                BY <2>7, <4>1, <4>2
        <3>5. Silent(a)'
            BY <1>1, <1>2, <1>5, <2>1, <3>1 DEF Silent, Live
        <3>6. QED
            BY <1>1, <2>2, <3>1, <3>3, <3>4, <3>5 DEF Heard
    <2>8. QED
        BY <2>5, <2>6, <2>7
<1>6. QED
    BY <1>3, <1>4, <1>5

\* PostToolUse and Stop: Claude is given what waits, if it still waits for the answer.
LEMMA HookAnswered ==
    ASSUME TypeOK, TypeOK', NEW a \in Agents, AgentInv(a), hooks[a] # <<>>,
           hooks'[a] = Tail(hooks[a]), UNCHANGED <<kind, gui, updates>>, NEW heard \in BOOLEAN,
           \/ /\ OnTool(a, heard)
              /\ Head(hooks[a]) = IF heard THEN "tool" ELSE "toolLate"
           \/ /\ AnswerStop(a, heard) /\ Live(a)
              /\ Head(hooks[a]) = IF heard THEN "stop" ELSE "stopLate"
    PROVE  Heard(a) /\ (prog'[a] = prog[a] \/ (Tail(hooks[a]) = <<>> /\ prog'[a] = "turn"))
<1> DEFINE what == Head(hooks[a])
<1>1. /\ status[a] # "none" /\ ~Spawn(out, a) /\ Carries(out, a)
      /\ status[a] = "holding" \/ kind[a] = "mute" => queue[a] = <<>>
      /\ perm[a] => Live(a) /\ prog[a] = "gone"
    BY DEF AgentInv, Fresh, Opening, Known, Silent
<1>2. /\ what \in Range(hooks[a])
      /\ Asked(a, what) /\ prog[a] # "gone" => Tail(hooks[a]) = <<>> /\ Fits(what, prog[a])
    BY WaitedTail DEF AgentInv
<1>3. what \in {"tool", "toolLate", "stop", "stopLate"}
    OBVIOUS
<1>4. kind[a] # "acp"
    BY <1>2, <1>3 DEF AgentInv, Program
<1>5. /\ kind' = kind /\ updates' = updates /\ UNCHANGED <<out, pending, handle, perm>>
    BY DEF OnTool, AnswerStop
<1>6. /\ Typed(a)' = Typed(a) /\ Prompted(a)' = Prompted(a)
    BY <1>5 DEF Typed, Prompted
<1>7. Range(<<>>) = {} /\ <<>> \in Seq(Nat)
    BY ShortSequences, EmptySeq
<1>8. /\ fyi'[a] = <<>>
      /\ \/ /\ queue'[a] = queue[a] /\ status' = status /\ what \in {"tool", "toolLate"}
            /\ \/ heard /\ prog[a] = "tool" /\ prog'[a] = "turn" /\ got'[a] = got[a] \o fyi[a]
               \/ ~(heard /\ prog[a] = "tool") /\ prog' = prog /\ got' = got
         \/ /\ queue'[a] = <<>> /\ status'[a] = "working" /\ Live(a)
            /\ what \in {"stop", "stopLate"}
            /\ \/ /\ heard /\ prog[a] = "stopping" /\ prog'[a] = "turn"
                  /\ got'[a] = got[a] \o queue[a] \o fyi[a]
               \/ ~(heard /\ prog[a] = "stopping") /\ prog' = prog /\ got' = got
    <2>1. CASE OnTool(a, heard) /\ what = IF heard THEN "tool" ELSE "toolLate"
        <3>1. queue' = queue /\ status' = status /\ fyi'[a] = <<>>
            BY <2>1 DEF OnTool, TypeOK
        <3>2. CASE heard /\ prog[a] = "tool"
            <4>1. got' = [got EXCEPT ![a] = got[a] \o fyi[a]]
                BY <2>1, <3>2 DEF OnTool
            <4>2. got'[a] = got[a] \o fyi[a]
                BY <4>1 DEF TypeOK
            <4>3. prog'[a] = "turn"
                BY <2>1, <3>2 DEF OnTool, TypeOK
            <4>4. QED
                BY <2>1, <3>1, <3>2, <4>2, <4>3
        <3>3. CASE ~(heard /\ prog[a] = "tool")
            <4>1. prog' = prog /\ got' = got
                BY <2>1, <3>3 DEF OnTool
            <4>2. QED
                BY <2>1, <3>1, <3>3, <4>1
        <3>4. QED
            BY <3>2, <3>3
    <2>2. CASE AnswerStop(a, heard) /\ Live(a) /\ what = IF heard THEN "stop" ELSE "stopLate"
        <3>1. queue'[a] = <<>> /\ status'[a] = "working" /\ fyi'[a] = <<>>
            BY <2>2 DEF AnswerStop, TypeOK
        <3>2. CASE heard /\ prog[a] = "stopping"
            <4>1. got' = [got EXCEPT ![a] = got[a] \o queue[a] \o fyi[a]]
                BY <2>2, <3>2 DEF AnswerStop
            <4>2. got'[a] = got[a] \o queue[a] \o fyi[a]
                BY <4>1 DEF TypeOK
            <4>3. prog'[a] = "turn"
                BY <2>2, <3>2 DEF AnswerStop, TypeOK
            <4>4. QED
                BY <2>2, <3>1, <3>2, <4>2, <4>3
        <3>3. CASE ~(heard /\ prog[a] = "stopping")
            <4>1. prog' = prog /\ got' = got
                BY <2>2, <3>3 DEF AnswerStop
            <4>2. QED
                BY <2>2, <3>1, <3>3, <4>1
        <3>4. QED
            BY <3>2, <3>3
    <2>3. QED
        BY <2>1, <2>2
<1>9. what = IF heard THEN IF what \in {"tool", "toolLate"} THEN "tool" ELSE "stop"
             ELSE IF what \in {"tool", "toolLate"} THEN "toolLate" ELSE "stopLate"
    OBVIOUS
<1> HIDE DEF what
<1>10. heard <=> Asked(a, what)
    BY <1>3, <1>9 DEF Asked
<1>11. CASE heard /\ prog[a] \in {"tool", "stopping"} /\ prog'[a] = "turn"
    <2>1. kind[a] = "claude" /\ ~perm[a] /\ Tail(hooks[a]) = <<>>
        BY <1>1, <1>2, <1>10, <1>11 DEF AgentInv, Program
    <2>2. \/ /\ queue'[a] = queue[a] /\ status' = status /\ got'[a] = got[a] \o fyi[a]
          \/ /\ queue'[a] = <<>> /\ status'[a] = "working"
             /\ got'[a] = got[a] \o queue[a] \o fyi[a]
        BY <1>8, <1>11
    <2>3. LineGoes(a) /\ Range(Copies(a))' = Range(Copies(a))
        BY <1>5, <1>6, <1>7, <1>8, <2>1, <2>2, LineMoves DEF AgentInv
    <2>4. Silent(a)'
        BY <1>5, <2>1 DEF Silent
    <2>5. /\ status'[a] # "none"
          /\ status'[a] = "holding" \/ kind[a] = "mute" => queue'[a] = <<>>
        BY <1>1, <2>2
    <2>6. QED
        BY <1>1, <1>5, <1>7, <1>8, <1>11, <2>1, <2>3, <2>4, <2>5 DEF Heard, Kept
<1>12. CASE prog' = prog /\ got' = got /\ ~(heard /\ prog[a] # "gone")
    <2>1. LineGoes(a)
        BY <1>5, <1>6, <1>8, <1>12, LineShrinks DEF AgentInv
    <2>2. Kept(a)
        <3>1. CASE heard
            BY <1>12, <3>1 DEF Kept, Excused
        <3>2. CASE ~heard
            <4>1. what \in {"stopLate", "toolLate"}
                BY <1>9, <3>2
            <4>2. QED
                BY <4>1 DEF Kept, Excused, what
        <3>3. QED
            BY <3>1, <3>2
    <2>3. /\ status'[a] # "none" /\ (Live(a) => Live(a)')
          /\ status'[a] = "holding" \/ kind[a] = "mute" => queue'[a] = <<>>
        BY <1>1, <1>8 DEF Live
    <2>4. Silent(a)'
        BY <1>1, <1>4, <1>5, <1>12, <2>3 DEF Silent
    <2>5. QED
        BY <1>1, <1>5, <1>7, <1>8, <1>12, <2>1, <2>2, <2>3, <2>4 DEF Heard
<1>13. QED
    <2>1. heard /\ prog[a] # "gone" => Fits(what, prog[a])
        BY <1>2, <1>10 DEF what
    <2>2. heard /\ what \in {"tool", "toolLate"} => what = "tool"
        BY <1>9
    <2>3. heard /\ what \in {"stop", "stopLate"} => what = "stop"
        BY <1>9
    <2>4. \/ heard /\ prog[a] \in {"tool", "stopping"} /\ prog'[a] = "turn"
          \/ prog' = prog /\ got' = got /\ ~(heard /\ prog[a] # "gone")
        BY <1>8, <2>1, <2>2, <2>3 DEF Fits
    <2>5. QED
        BY <1>11, <1>12, <2>4

\* The engine reads a report of the program.
LEMMA HandleHookActs ==
    ASSUME TypeOK, TypeOK', NEW a \in Agents, AgentInv(a), HandleHook(a)
    PROVE  Acts(a)
<1> DEFINE what == Head(hooks[a])
           mind == prog'[a] = prog[a]
                     \/ (Tail(hooks[a]) = <<>> /\ prog'[a] \in {"idle", "turn"})
<1>1. /\ UNCHANGED <<kind, pane, spawning, typeBrief, gui, guiIn, updates, sent>>
      /\ hooks[a] # <<>> /\ hooks'[a] = Tail(hooks[a])
    BY DEF HandleHook, accepted, TypeOK
<1>2. /\ status[a] # "none" /\ ~Spawn(out, a) /\ Carries(out, a)
      /\ Range(fyi[a]) \subseteq updates
      /\ status[a] = "holding" \/ kind[a] = "mute" => queue[a] = <<>>
      /\ perm[a] \/ (kind[a] = "acp" /\ Live(a) /\ ~handle[a]) => Live(a) /\ prog[a] = "gone"
    BY <1>1 DEF AgentInv, Fresh, Opening, Known, Silent
<1>3. /\ Asked(a, what) /\ prog[a] # "gone" => Tail(hooks[a]) = <<>> /\ Fits(what, prog[a])
      /\ prog'[a] = prog[a] \/ Tail(hooks[a]) = <<>> => Waited(a)'
      /\ Range(Tail(hooks[a])) \subseteq Range(hooks[a]) /\ what \in Range(hooks[a])
    BY <1>1, WaitedTail DEF AgentInv
<1>4. \/ /\ what = "start"
         /\ SetStatus(a, IF status[a] \in {"starting", "offline"} THEN "working"
                                                                  ELSE status[a])
         /\ perm' = perm
      \/ what = "prompt" /\ SetStatus(a, "working") /\ perm' = perm
      \/ what = "ask" /\ SetStatus(a, "needsyou") /\ perm' = perm
      \/ what = "perm" /\ SetStatus(a, "needsyou")
      \/ what = "tool" /\ OnTool(a, TRUE)
      \/ what = "toolLate" /\ OnTool(a, FALSE)
      \/ what = "stop" /\ OnStop(a, FALSE, TRUE)
      \/ what = "stopAgain" /\ OnStop(a, TRUE, TRUE)
      \/ what = "stopLate" /\ OnStop(a, FALSE, FALSE)
      \/ OnIdle(a) /\ UNCHANGED <<prog, got>>
      \/ Gone(a)
    BY DEF HandleHook
<1> HIDE DEF what
<1>5. ASSUME Heard(a), mind
      PROVE  Acts(a)
    <2>1. InLine(a)' /\ Fresh(a)' /\ Opening(a)' /\ Carries(out, a)' /\ Untyped(a)' /\ Known(a)'
        <3>1. kind' = kind /\ updates \subseteq updates' /\ sent' = sent
              /\ (typeBrief'[a] => typeBrief[a])
            BY <1>1
        <3>2. QED
            BY <1>5, <3>1, Books DEF Heard
    <2>2. Waited(a)'
        BY <1>3, <1>5
    <2>3. Program(a)'
        BY <1>1, <1>2, <1>3, <1>5 DEF AgentInv, Program
    <2>4. QED
        BY <1>5, <2>1, <2>2, <2>3 DEF Acts, AgentInv, Heard
<1>6. ASSUME OnIdle(a), UNCHANGED got, mind, prog[a] = "gone" => prog'[a] = "gone"
      PROVE  Acts(a)
    <2>1. Heard(a)
        BY <1>1, <1>6, OnIdleHeard
    <2>2. QED
        BY <1>5, <1>6, <2>1
<1>7. ASSUME NEW heard \in BOOLEAN,
             \/ OnTool(a, heard) /\ what = IF heard THEN "tool" ELSE "toolLate"
             \/ /\ AnswerStop(a, heard) /\ Live(a)
                /\ what = IF heard THEN "stop" ELSE "stopLate"
      PROVE  Acts(a)
    <2>1. Heard(a) /\ (prog'[a] = prog[a] \/ (Tail(hooks[a]) = <<>> /\ prog'[a] = "turn"))
        BY <1>1, <1>7, HookAnswered DEF what
    <2>2. QED
        BY <1>5, <2>1
<1>8. ASSUME NEW continuing \in BOOLEAN, NEW heard \in BOOLEAN, OnStop(a, continuing, heard),
             what = IF heard THEN IF continuing THEN "stopAgain" ELSE "stop" ELSE "stopLate"
      PROVE  Acts(a)
    <2>1. CASE AnswerStop(a, heard) /\ Live(a) /\ ~continuing
        <3>1. what = IF heard THEN "stop" ELSE "stopLate"
            BY <1>8, <2>1
        <3>2. QED
            BY <1>7, <2>1, <3>1
    <2>2. CASE LetStop(a, heard) /\ OnIdle(a)
        <3>1. CASE heard /\ prog[a] = "stopping"
            <4>1. kind[a] = "claude" /\ prog'[a] = "idle"
                BY <2>2, <3>1 DEF LetStop, TypeOK, AgentInv, Program
            <4>2. Asked(a, what)
                BY <1>8, <3>1, <4>1 DEF Asked
            <4>3. Tail(hooks[a]) = <<>>
                BY <1>3, <3>1, <4>2
            <4>4. UNCHANGED got
                BY <2>2 DEF LetStop
            <4>5. QED
                BY <1>6, <2>2, <3>1, <4>1, <4>3, <4>4
        <3>2. CASE ~(heard /\ prog[a] = "stopping")
            <4>1. prog' = prog /\ UNCHANGED got
                BY <2>2, <3>2 DEF LetStop
            <4>2. QED
                BY <1>6, <2>2, <4>1
        <3>3. QED
            BY <3>1, <3>2
    <2>3. QED
        BY <1>8, <2>1, <2>2 DEF OnStop
<1>9. ASSUME NEW s, SetStatus(a, s), s # "none", s = "holding" => status[a] = "holding",
             \/ perm' = perm /\ what \in {"start", "prompt", "ask"}
                /\ (Live(a) => s \notin {"none", "offline"})
             \/ what = "perm" /\ s = "needsyou"
      PROVE  Acts(a)
    <2>1. UNCHANGED <<queue, fyi, handle, out, prog, pending, got>> /\ status'[a] = s
        BY <1>9 DEF SetStatus, program, TypeOK
    <2>2. LineGoes(a) /\ Kept(a)
        <3>1. LineStays(a) /\ kind' = kind /\ updates \subseteq updates'
            BY <1>1, <2>1 DEF LineStays, Typed, Prompted
        <3>2. QED
            BY <3>1, LineKeeps DEF AgentInv, Kept
    <2>3. Silent(a)'
        <3>1. CASE perm' = perm /\ what \in {"start", "prompt", "ask"}
                   /\ (Live(a) => s \notin {"none", "offline"})
            <4>1. kind[a] # "acp"
                BY <1>3, <3>1 DEF AgentInv, Program
            <4>2. QED
                BY <1>1, <1>2, <2>1, <3>1, <4>1 DEF Silent, Live
        <3>2. CASE what = "perm" /\ s = "needsyou"
            <4>1. prog[a] = "gone" \/ (prog[a] = "asking" /\ Tail(hooks[a]) = <<>>)
                BY <1>3, <3>2 DEF Asked, Fits
            <4>2. QED
                BY <1>1, <2>1, <3>2, <4>1 DEF Silent, Live
        <3>3. QED
            BY <1>9, <3>1, <3>2
    <2>4. Heard(a)
        BY <1>1, <1>2, <1>9, <2>1, <2>2, <2>3 DEF Heard
    <2>5. QED
        BY <1>5, <2>1, <2>4
<1>10. ASSUME Gone(a)
       PROVE  Acts(a)
    <2>1. Offline(a) /\ UNCHANGED <<fyi, out, prog, pending, got>>
        BY <1>10 DEF Gone, program
    <2>2. /\ LineGoes(a) /\ status'[a] = "offline" /\ ~perm'[a]
          /\ queue'[a] \in {queue[a], <<>>}
        BY <1>1, <1>2, <2>1, OfflineLine
    <2>3. Silent(a)' /\ Kept(a)
        BY <2>2 DEF Silent, Live, Kept, Excused
    <2>4. Heard(a)
        BY <1>1, <1>2, <2>1, <2>2, <2>3 DEF Heard
    <2>5. QED
        BY <1>5, <2>1, <2>4
<1>11. CASE \/ what = "tool" /\ OnTool(a, TRUE)
            \/ what = "toolLate" /\ OnTool(a, FALSE)
            \/ what = "stop" /\ OnStop(a, FALSE, TRUE)
            \/ what = "stopAgain" /\ OnStop(a, TRUE, TRUE)
            \/ what = "stopLate" /\ OnStop(a, FALSE, FALSE)
    BY <1>7, <1>8, <1>11
<1>12. CASE /\ what = "start" /\ perm' = perm
            /\ SetStatus(a, IF status[a] \in {"starting", "offline"} THEN "working"
                                                                     ELSE status[a])
    BY <1>2, <1>9, <1>12 DEF Live
<1>13. CASE \/ what = "prompt" /\ SetStatus(a, "working") /\ perm' = perm
            \/ what = "ask" /\ SetStatus(a, "needsyou") /\ perm' = perm
            \/ what = "perm" /\ SetStatus(a, "needsyou")
    BY <1>9, <1>13
<1>14. CASE OnIdle(a) /\ UNCHANGED <<prog, got>>
    BY <1>6, <1>14
<1>15. QED
    BY <1>4, <1>10, <1>11, <1>12, <1>13, <1>14, Zenon

\* A role that leaves the configuration, or comes back, moves nothing.
LEMMA ReloadActs ==
    ASSUME TypeOK, TypeOK', NEW a \in Agents, AgentInv(a), Reload(a)
    PROVE  Acts(a)
<1>1. /\ Same(a) /\ kind' = kind /\ updates' = updates /\ sent' = sent /\ out' = out
    BY DEF Reload, Same, engine, lines, program, accepted
<1>2. AgentInv(a)' /\ Range(Copies(a))' = Range(Copies(a))
    BY <1>1, Unmoved
<1>3. QED
    BY <1>2 DEF Acts, Kept

\* A step of an agent keeps its part of the invariant.
LEMMA AgentActs ==
    ASSUME TypeOK, TypeOK', NEW a \in Agents, AgentInv(a),
           \/ Launch(a) \/ Deliver(a) \/ DeliverFyi(a) \/ StopAgent(a) \/ ToolReturn(a)
           \/ Answer(a) \/ Reload(a) \/ HandleGui(a) \/ HandleHook(a)
           \/ Opens(a) \/ Types(a) \/ Closes(a)
           \/ Reads(a) \/ HumanPrompts(a) \/ UsesTool(a) \/ Asks(a) \/ EndsTurn(a)
           \/ HookGivesUp(a) \/ IdleNotice(a) \/ Quits(a)
    PROVE  Acts(a)
<1>1. CASE \/ Launch(a) \/ Deliver(a) \/ DeliverFyi(a) \/ StopAgent(a) \/ ToolReturn(a)
           \/ Answer(a) \/ Reload(a)
    BY <1>1, LaunchActs, DeliverActs, StopAgentActs, ToolReturnActs, AnswerActs,
       ReloadActs
<1>2. CASE HandleGui(a) \/ HandleHook(a)
    BY <1>2, HandleGuiActs, HandleHookActs
<1>3. CASE Opens(a) \/ Types(a) \/ Closes(a)
    BY <1>3, OpensAct, TypesAct, ClosesAct
<1>4. CASE \/ HumanPrompts(a) \/ UsesTool(a) \/ Asks(a) \/ EndsTurn(a) \/ HookGivesUp(a)
           \/ IdleNotice(a)
    BY <1>4, TurnsAct
<1>5. CASE Reads(a) \/ Quits(a)
    BY <1>5, ReadsAct, QuitsAct
<1>6. QED
    BY <1>1, <1>2, <1>3, <1>4, <1>5

-----------------------------------------------------------------------------
(* What a step does to every agent at once. *)

\* A connection that is new carries nothing.
LEMMA NoMail ==
    ASSUME NEW a
    PROVE  /\ ~Has(<<>>, a) /\ ~Spawn(<<>>, a) /\ Carries(<<>>, a)
           /\ TypedIn(<<>>, a) = <<>>
<1> DEFINE o == <<>>
<1>1. o \in Seq(Letters) /\ Len(o) = 0
    BY EmptySeq
<1> HIDE DEF o
<1>2. \A i \in 1..Len(o) : FALSE
    BY <1>1
<1>3. TypedIn(o, a) = <<>>
    BY <1>1, <1>2, TypedNothing
<1>4. ~Has(o, a) /\ ~Spawn(o, a) /\ Carries(o, a)
    BY <1>2 DEF Has, Spawn, Carries
<1>5. QED
    BY <1>3, <1>4 DEF o

\* The connection goes down with what it carried, while a pane opens or not.
LEMMA GuiDropsActs ==
    ASSUME TypeOK, TypeOK', NEW a \in Agents, AgentInv(a), GuiDrops
    PROVE  Acts(a)
<1>1. /\ UNCHANGED <<kind, engine, guiIn, cont, pending, accepted>>
      /\ ~gui' /\ out' = <<>>
    BY DEF GuiDrops
<1>2. /\ kind' = kind /\ updates' = updates /\ sent' = sent
      /\ UNCHANGED <<status, pane, queue, fyi, spawning, typeBrief, handle, perm, guiIn,
                     pending>>
    BY <1>1 DEF engine, accepted
<1>3. ~Has(out', a) /\ ~Spawn(out', a) /\ Carries(out', a) /\ TypedIn(out', a) = <<>>
    BY <1>1, NoMail
<1>4. Typed(a)' = <<>> /\ Prompted(a)' = Prompted(a)
    BY <1>2, <1>3, PiecesThen DEF Prompted
<1>5. CASE prog'[a] = prog[a] /\ got'[a] = got[a] /\ hooks'[a] = hooks[a]
    <2>1. Same(a)
        BY <1>2, <1>5 DEF Same
    <2>2. LineGoes(a) /\ Range(Copies(a))' \subseteq Range(Copies(a))
        BY <1>2, <1>4, <2>1, LineShrinks DEF AgentInv, Same
    <2>3. Kept(a)
        <3>1. CASE kind[a] \in PaneKinds
            BY <1>1, <3>1 DEF Kept, Excused
        <3>2. CASE kind[a] \notin PaneKinds
            <4>1. LineStays(a)
                BY <1>4, <2>1, <3>2, NoPaneNoMail DEF LineStays, Same, AgentInv
            <4>2. QED
                BY <1>2, <4>1, LineKeeps DEF AgentInv, Kept
        <3>3. QED
            BY <3>1, <3>2
    <2>4. InLine(a)' /\ Carries(out, a)'
        BY <1>2, <1>3, <2>2 DEF LineGoes, Carries
    <2>5. Fresh(a)' /\ Opening(a)'
        BY <1>3, <2>1 DEF AgentInv, Fresh, Opening, Same, Has, Spawn
    <2>6. Untyped(a)' /\ Known(a)'
        BY <1>2, <2>1, <2>2 DEF AgentInv, Untyped, Known, Same
    <2>7. Program(a)' /\ Waited(a)' /\ Silent(a)'
        BY <1>2, <2>1 DEF AgentInv, Program, Waited, Asked, Silent, Live, Same
    <2>8. QED
        BY <2>3, <2>4, <2>5, <2>6, <2>7 DEF Acts, AgentInv
<1>6. CASE Spawn(out, a) /\ Starts(a)
    <2>1. /\ LineGoes(a) /\ Range(Copies(a)) \subseteq Range(Copies(a))'
          /\ Program(a)' /\ Waited(a)' /\ Silent(a)'
        BY <1>1, <1>3, <1>4, <1>6, StartsAct
    <2>2. /\ status'[a] # "none" /\ (typeBrief'[a] => typeBrief[a])
          /\ Range(fyi'[a]) \subseteq updates'
          /\ status'[a] = "holding" \/ kind[a] = "mute" => queue'[a] = <<>>
        BY <1>2, <1>6 DEF AgentInv, Fresh, Known, Spawn, Has
    <2>3. InLine(a)' /\ Fresh(a)' /\ Opening(a)' /\ Carries(out, a)' /\ Untyped(a)'
          /\ Known(a)'
        BY <1>2, <1>3, <2>1, <2>2, Books
    <2>4. QED
        BY <2>1, <2>3 DEF Acts, AgentInv, Kept
<1>7. \/ prog'[a] = prog[a] /\ got'[a] = got[a] /\ hooks'[a] = hooks[a]
      \/ Spawn(out, a) /\ Starts(a)
    <2>1. CASE out # <<>> /\ Head(out)[2] = "spawn" /\ Starts(Head(out)[1])
        <3>1. Head(out)[1] = a => Spawn(out, a)
            BY <2>1, MailTaken DEF TypeOK, Letters
        <3>2. QED
            BY <2>1, <3>1, StartsAlone
    <2>2. CASE UNCHANGED <<prog, got, hooks>>
        BY <2>2
    <2>3. QED
        BY <2>1, <2>2 DEF GuiDrops
<1>8. QED
    BY <1>5, <1>6, <1>7

\* It comes up, and the panes that are gone are reported.
LEMMA GuiConnectsActs ==
    ASSUME TypeOK, TypeOK', NEW a \in Agents, AgentInv(a), GuiConnects
    PROVE  Acts(a)
<1>1. UNCHANGED <<kind, engine, out, hooks, program, accepted>>
    BY DEF GuiConnects
<1>2. /\ kind' = kind /\ updates' = updates /\ sent' = sent /\ out' = out
      /\ UNCHANGED <<status, pane, queue, fyi, spawning, typeBrief, handle, perm, prog,
                     pending, got, hooks>>
    BY <1>1 DEF engine, program, accepted
<1>3. prog[a] # "gone" => guiIn'[a] = guiIn[a]
    BY DEF GuiConnects
<1>4. LineGoes(a) /\ Range(Copies(a))' = Range(Copies(a))
    <2>1. LineStays(a)
        BY <1>2 DEF LineStays, Typed, Prompted
    <2>2. QED
        BY <1>2, <2>1, LineKeeps DEF AgentInv
<1>5. InLine(a)' /\ Carries(out, a)'
    BY <1>2, <1>4 DEF AgentInv, LineGoes, Carries
<1>6. Fresh(a)'
    BY <1>2, <1>3 DEF AgentInv, Fresh
<1>7. Opening(a)'
    BY <1>2, <1>3, <1>4 DEF AgentInv, Opening
<1>8. Untyped(a)' /\ Known(a)'
    BY <1>2, <1>4 DEF AgentInv, Untyped, Known
<1>9. Program(a)' /\ Waited(a)' /\ Silent(a)'
    BY <1>2 DEF AgentInv, Program, Waited, Asked, Silent, Live
<1>10. QED
    BY <1>4, <1>5, <1>6, <1>7, <1>8, <1>9 DEF Acts, AgentInv, Kept

\* The daemon restarts: children and the calls of chats are gone, panes go on.
LEMMA RestartActs ==
    ASSUME TypeOK, TypeOK', NEW a \in Agents, AgentInv(a), Restart
    PROVE  Acts(a)
<1>1. /\ kind' = kind /\ updates' = updates /\ sent' = sent /\ ~gui' /\ out' = <<>>
      /\ UNCHANGED <<pane, queue, fyi, got>>
      /\ status'[a] = IF kind[a] = "acp" /\ Live(a) THEN "offline" ELSE status[a]
      /\ ~spawning'[a] /\ ~typeBrief'[a] /\ ~handle'[a] /\ ~perm'[a]
      /\ guiIn'[a] = <<>> /\ hooks'[a] = <<>>
      /\ pending'[a] = IF kind[a] \in PaneKinds THEN pending[a] ELSE <<>>
    BY DEF Restart, accepted
<1>2. prog'[a] = CASE kind[a] = "acp" /\ prog[a] # "none" -> "gone"
                   [] kind[a] = "llm" /\ prog[a] # "none" -> "idle"
                   [] prog[a] = "stopping" -> "idle"
                   [] prog[a] = "tool"     -> "turn"
                   [] OTHER                -> prog[a]
    BY DEF Restart
<1>3. /\ kind[a] = "acp" /\ prog[a] # "none" => prog'[a] = "gone"
      /\ prog'[a] = "none" <=> prog[a] = "none"
      /\ prog'[a] \notin {"stopping", "tool"}
    <2>1. kind[a] \in {"acp", "llm"} => prog[a] \notin {"stopping", "tool"}
        BY DEF AgentInv, Program
    <2>2. QED
        BY <1>2, <2>1
<1>4. ~Has(out', a) /\ ~Spawn(out', a) /\ Carries(out', a) /\ TypedIn(out', a) = <<>>
    BY <1>1, NoMail
<1>5. Typed(a)' = <<>> /\ Prompted(a)' \in {Prompted(a), <<>>}
    BY <1>1, <1>4, PiecesThen, FlattenNothing DEF Prompted
<1>6. LineGoes(a) /\ Range(Copies(a))' \subseteq Range(Copies(a))
    BY <1>1, <1>5, LineShrinks DEF AgentInv
<1>7. Kept(a)
    <2>1. CASE kind[a] \in PaneKinds \/ prog[a] # "none"
        <3>1. kind[a] \in PaneKinds \cup {"acp", "llm"}
            BY DEF TypeOK, Kinds, PaneKinds
        <3>2. QED
            BY <1>1, <1>3, <2>1, <3>1 DEF Kept, Excused
    <2>2. CASE kind[a] \notin PaneKinds /\ prog[a] = "none"
        <3>1. status[a] = "none"
            BY <2>2 DEF AgentInv, Program
        <3>2. Range(Copies(a)) = {}
            BY <3>1, FreshLine
        <3>3. QED
            BY <3>2 DEF Kept
    <2>3. QED
        BY <2>1, <2>2
<1>8. InLine(a)' /\ Carries(out, a)' /\ Opening(a)' /\ Untyped(a)'
    BY <1>1, <1>4, <1>6 DEF LineGoes, Carries, Opening, Spawn, Untyped
<1>9. Fresh(a)'
    BY <1>1, <1>3, <1>4 DEF AgentInv, Fresh, Has
<1>10. Known(a)'
    BY <1>1, <1>6 DEF AgentInv, Known
<1>11. Program(a)'
    <2>1. Range(<<>>) = {}
        BY ShortSequences
    <2>2. QED
        BY <1>1, <1>3, <2>1 DEF AgentInv, Program, Live
<1>12. Waited(a)' /\ Silent(a)'
    BY <1>1, NothingWaited DEF Silent, Live
<1>13. QED
    BY <1>7, <1>8, <1>9, <1>10, <1>11, <1>12 DEF Acts, AgentInv

-----------------------------------------------------------------------------
(* The theorems. *)

\* Before the first step nobody has anything.
LEMMA InvInit ==
    ASSUME Init
    PROVE  DeliveryInv
<1>1. TypeOK
    BY TypeInit
<1>2. SUFFICES ASSUME NEW a \in Agents
               PROVE  AgentInv(a)
    BY <1>1 DEF DeliveryInv
<1>3. /\ status[a] = "none" /\ prog[a] = "none" /\ ~pane[a] /\ ~spawning[a]
      /\ ~typeBrief[a] /\ ~handle[a] /\ ~perm[a] /\ queue[a] = <<>> /\ fyi[a] = <<>>
      /\ guiIn[a] = <<>> /\ hooks[a] = <<>> /\ pending[a] = <<>> /\ got[a] = <<>>
      /\ out = <<>>
    BY DEF Init
<1>4. ~Has(out, a) /\ ~Spawn(out, a) /\ Carries(out, a) /\ TypedIn(out, a) = <<>>
    BY <1>3, NoMail
<1>5. Range(<<>>) = {} /\ \A R : Pairwise(<<>>, R)
    BY ShortSequences
<1>6. Typed(a) = <<>> /\ Prompted(a) = <<>>
    BY <1>1, <1>3, <1>4, PiecesNow, FlattenNothing DEF Prompted
<1>7. Range(Copies(a)) = {}
    BY <1>1, <1>3, <1>5, <1>6, PiecesNow
<1>8. InLine(a)
    BY <1>3, <1>5, <1>6 DEF InLine, Sorted, Apart
<1>9. Fresh(a) /\ Opening(a) /\ Untyped(a) /\ Known(a)
    BY <1>3, <1>4, <1>5, <1>7 DEF Fresh, Opening, Untyped, Known
<1>10. Program(a) /\ Silent(a)
    BY <1>3, <1>5 DEF Program, Silent, Live
<1>11. Waited(a)
    <2>1. Len(<<>>) = 0 /\ \A i \in 1..0 : FALSE
        BY EmptySeq
    <2>2. \A i \in 1..Len(hooks[a]) : FALSE
        BY <1>3, <2>1
    <2>3. QED
        BY <2>2 DEF Waited
<1>12. QED
    BY <1>4, <1>8, <1>9, <1>10, <1>11 DEF AgentInv

\* Whoever takes it, a step keeps the invariant of every agent, and its messages.
LEMMA EveryStep ==
    ASSUME DeliveryInv, Next
    PROVE  TypeOK' /\ \A a \in Agents : Acts(a)
<1>1. TypeOK /\ TypeOK' /\ \A a \in Agents : AgentInv(a)
    BY TypeStep DEF DeliveryInv
<1>2. SUFFICES ASSUME NEW a \in Agents
               PROVE  Acts(a)
    BY <1>1
<1>3. ASSUME NEW b \in Agents,
             \/ Launch(b) \/ Deliver(b) \/ DeliverFyi(b) \/ StopAgent(b) \/ ToolReturn(b)
             \/ Answer(b) \/ Reload(b) \/ HandleGui(b) \/ HandleHook(b)
             \/ Opens(b) \/ Types(b) \/ Closes(b)
             \/ Reads(b) \/ HumanPrompts(b) \/ UsesTool(b) \/ Asks(b) \/ EndsTurn(b)
             \/ HookGivesUp(b) \/ IdleNotice(b) \/ Quits(b)
      PROVE  Acts(a)
    <2>1. CASE a = b
        BY <1>1, <1>3, <2>1, AgentActs
    <2>2. CASE a # b
        <3>1. Alone(b)
            BY <1>1, <1>3, StepAlone
        <3>2. AgentInv(a)' /\ Range(Copies(a))' = Range(Copies(a))
            BY <1>1, <2>2, <3>1, Bystander
        <3>3. QED
            BY <3>2 DEF Acts, Kept
    <2>3. QED
        BY <2>1, <2>2
<1>4. CASE GuiDrops \/ GuiConnects \/ Restart
    BY <1>1, <1>4, GuiDropsActs, GuiConnectsActs, RestartActs
<1>5. QED
    BY <1>3, <1>4 DEF Next

\* A step keeps the invariant.
LEMMA InvStep ==
    ASSUME DeliveryInv, [Next]_vars
    PROVE  DeliveryInv'
<1>1. CASE Next
    <2>1. TypeOK' /\ \A a \in Agents : AgentInv(a)'
        BY <1>1, EveryStep DEF Acts
    <2>2. QED
        BY <2>1 DEF DeliveryInv
<1>2. CASE UNCHANGED vars
    <2>1. TypeOK /\ TypeOK'
        BY TypeStep DEF DeliveryInv
    <2>2. /\ UNCHANGED <<kind, status, pane, queue, fyi, spawning, typeBrief, handle, perm,
                         out, guiIn, hooks, prog, pending, got, updates, sent>>
        BY <1>2 DEF vars, engine, lines, program, accepted
    <2>3. ASSUME NEW a \in Agents
          PROVE  AgentInv(a)'
        <3>1. /\ AgentInv(a) /\ Same(a) /\ kind' = kind /\ updates \subseteq updates'
              /\ sent' = sent /\ out' = out
            BY <2>2 DEF DeliveryInv, Same
        <3>2. QED
            BY <2>1, <3>1, Unmoved
    <2>4. QED
        BY <2>1, <2>3 DEF DeliveryInv
<1>3. QED
    BY <1>1, <1>2

\* The invariant: everything sent to an agent stands in one line - read, prompted, on its
\* way to the pane, queued, held back - in which what the engine, the GUI and the
\* program do only moves messages forward or takes them out.
THEOREM InvTheorem == Spec => []DeliveryInv
<1>1. Init => DeliveryInv
    BY InvInit
<1>2. DeliveryInv /\ [Next]_vars => DeliveryInv'
    BY InvStep
<1>3. QED
    BY <1>1, <1>2, PTL DEF Spec

\* What the invariant says of two messages in line.
LEMMA LineFacts ==
    ASSUME DeliveryInv, NEW a \in Agents
    PROVE  /\ Copies(a) \in Seq(Nat)
           /\ \A i, j \in DOMAIN Copies(a) :
                 i < j => <<Copies(a)[i], Copies(a)[j]>> \in Order(a)
<1>1. TypeOK /\ InLine(a)
    BY DEF DeliveryInv, AgentInv
<1>2. Copies(a) \in Seq(Nat) /\ Pairwise(Copies(a), Order(a))
    BY <1>1, PiecesNow
<1>3. QED
    BY <1>2, LenProperties DEF Pairwise

\* Delivery.NoDuplicate: an agent reads a message once.
THEOREM NoDuplicateTheorem == Spec => []NoDuplicate
<1>1. DeliveryInv => NoDuplicate
    <2>1. SUFFICES ASSUME DeliveryInv, NEW a \in Agents
                   PROVE  IsInjective(Copies(a))
        BY DEF NoDuplicate
    <2> DEFINE c == Copies(a)
    <2>2. c \in Seq(Nat) /\ \A i, j \in DOMAIN c : i < j => c[i] # c[j]
        <3>1. /\ c \in Seq(Nat)
              /\ \A i, j \in DOMAIN c : i < j => <<c[i], c[j]>> \in Order(a)
            BY <2>1, LineFacts
        <3>2. \A x, y : <<x, y>> \in Order(a) => x # y
            BY DEF Order
        <3> HIDE DEF c
        <3>3. QED
            BY <3>1, <3>2
    <2> HIDE DEF c
    <2>3. DOMAIN c = 1..Len(c) /\ Len(c) \in Nat
        BY <2>2, LenProperties
    <2>4. \A i, j \in DOMAIN c : i # j => i < j \/ j < i
        BY <2>3
    <2>5. IsInjective(c)
        BY <2>2, <2>4 DEF IsInjective
    <2>6. QED
        BY <2>5 DEF c
<1>2. QED
    BY <1>1, InvTheorem, PTL

\* Delivery.InOrder: messages reach an agent in the order they were accepted.
THEOREM InOrderTheorem == Spec => []InOrder
<1>1. DeliveryInv => InOrder
    <2>1. SUFFICES ASSUME DeliveryInv, NEW a \in Agents, kind[a] # "claude",
                          NEW i \in DOMAIN Copies(a), NEW j \in DOMAIN Copies(a), i < j,
                          Copies(a)[i] # Brief, Copies(a)[i] \notin updates,
                          Copies(a)[j] # Brief, Copies(a)[j] \notin updates
                   PROVE  Copies(a)[i] < Copies(a)[j]
        BY DEF InOrder
    <2> DEFINE w == <<Copies(a)[i], Copies(a)[j]>>
    <2>2. w \in Order(a)
        BY <2>1, LineFacts
    <2>3. QED
        BY <2>1, <2>2 DEF Order, Plain
<1>2. QED
    BY <1>1, InvTheorem, PTL

\* Delivery.NoSilentLoss: a message disappears only with the agent or its program, with
\* a connection that is down, with a pane that has not opened, with the role of a chat
\* agent or a chat call that a restart gives up, or with a hook that gave up.  So what
\* on_idle takes out of a queue and cannot send is lost for these reasons alone.
THEOREM NoSilentLossTheorem == Spec => NoSilentLoss
<1> DEFINE Loses(a) ==
        \A m \in 1..sent :
          m \in Range(Copies(a)) /\ m \notin Range(Copies(a))' =>
             \/ ~Live(a)' \/ prog'[a] = "gone"
             \/ kind[a] \in PaneKinds /\ (~gui' \/ ~pane[a])
             \/ kind[a] = "llm" /\ (~role[a] \/ Restart)
             \/ hooks[a] # <<>> /\ Head(hooks[a]) \in {"stopLate", "toolLate"}
<1>1. DeliveryInv /\ [Next]_vars => [\A a \in Agents : Loses(a)]_vars
    <2>1. SUFFICES ASSUME DeliveryInv, Next, NEW a \in Agents
                   PROVE  Loses(a)
        OBVIOUS
    <2>2. Kept(a)
        BY <2>1, EveryStep DEF Acts
    <2>3. QED
        BY <2>2 DEF Kept, Excused
<1>2. QED
    BY <1>1, InvTheorem, PTL DEF Spec, NoSilentLoss

\* Delivery.StaysStopped: a turn that ends, an answer that arrives or a permission that
\* is settled after the agent was stopped does not bring it back.
THEOREM StaysStoppedTheorem == Spec => StaysStopped
<1> DEFINE Stays(a) ==
        status[a] = "offline" /\ Live(a)' =>
          \/ HandleHook(a) /\ Head(hooks[a]) \in {"start", "prompt", "ask", "perm"}
          \/ HandleGui(a) /\ Head(guiIn[a]) = "opened"
<1>1. DeliveryInv /\ [Next]_vars => [\A a \in Agents : Stays(a)]_vars
    <2>1. SUFFICES ASSUME DeliveryInv, Next, NEW a \in Agents, status[a] = "offline", Live(a)'
                   PROVE  \/ HandleHook(a)
                             /\ Head(hooks[a]) \in {"start", "prompt", "ask", "perm"}
                          \/ HandleGui(a) /\ Head(guiIn[a]) = "opened"
        OBVIOUS
    <2>2. TypeOK /\ ~Live(a) /\ ~perm[a]
        BY <2>1 DEF DeliveryInv, AgentInv, Silent, Live
    <2>3. status'[a] # status[a]
        BY <2>1 DEF Live
    <2>4. ~(GuiDrops \/ GuiConnects \/ Restart)
        BY <2>2, <2>3 DEF GuiDrops, GuiConnects, Restart, engine
    <2>5. ASSUME NEW b \in Agents, b # a,
                 \/ Launch(b) \/ Deliver(b) \/ DeliverFyi(b) \/ StopAgent(b) \/ ToolReturn(b)
                 \/ Answer(b) \/ Reload(b) \/ HandleGui(b) \/ HandleHook(b)
                 \/ Opens(b) \/ Types(b) \/ Closes(b)
                 \/ Reads(b) \/ HumanPrompts(b) \/ UsesTool(b) \/ Asks(b) \/ EndsTurn(b)
                 \/ HookGivesUp(b) \/ IdleNotice(b) \/ Quits(b)
          PROVE  FALSE
        <3>1. Alone(b)
            BY <2>2, <2>5, StepAlone
        <3>2. QED
            BY <2>3, <2>5, <3>1 DEF Alone, Same
    <2>6. ~(\/ Launch(a) \/ Deliver(a) \/ DeliverFyi(a) \/ StopAgent(a) \/ ToolReturn(a)
            \/ Answer(a) \/ Reload(a))
        BY <2>1, <2>2, <2>3
        DEF Launch, Deliver, DeliverFyi, StopAgent, ToolReturn, Answer, Reload, engine
    <2>7. ~(\/ Opens(a) \/ Types(a) \/ Closes(a) \/ Reads(a) \/ HumanPrompts(a) \/ UsesTool(a)
            \/ Asks(a) \/ EndsTurn(a) \/ HookGivesUp(a) \/ IdleNotice(a) \/ Quits(a))
        BY <2>3 DEF Opens, Types, Closes, Reads, HumanPrompts, UsesTool, Asks, EndsTurn,
                    HookGivesUp, IdleNotice, Quits, engine
    <2>8. ~Offline(a) /\ ~OnIdle(a) /\ status' # status
        BY <2>2, <2>3 DEF Offline, OnIdle
    <2>9. CASE HandleGui(a)
        BY <2>8, <2>9 DEF HandleGui, PaneOpened
    <2>10. CASE HandleHook(a)
        <3>1. \A heard : ~OnTool(a, heard)
            BY <2>8 DEF OnTool
        <3>2. \A continuing, heard : ~OnStop(a, continuing, heard)
            BY <2>2, <2>8 DEF OnStop
        <3>3. QED
            BY <2>8, <2>10, <3>1, <3>2 DEF HandleHook, Gone
    <2>11. QED
        BY <2>1, <2>4, <2>5, <2>6, <2>7, <2>9, <2>10 DEF Next
<1>2. QED
    BY <1>1, InvTheorem, PTL DEF Spec, StaysStopped
=============================================================================
