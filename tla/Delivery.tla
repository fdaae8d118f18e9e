------------------------------ MODULE Delivery ------------------------------
(***************************************************************************)
(* Agents and the messages towerd sends them: an agent is launched as a    *)
(* CLI in a terminal pane, as a child process that speaks ACP, or as a     *)
(* series of chat calls; a message goes to it at once when it is idle and  *)
(* waits for the end of its turn otherwise.                                *)
(*                                                                         *)
(* Three parties run side by side.  The engine handles one input at a      *)
(* time.  The GUI opens panes and types into them, over a connection that  *)
(* may drop.  The agent's program takes turns and reports through hooks or *)
(* ACP events, which the engine reads later.  What a program does between  *)
(* its reports is modelled from what the engine and the drivers expect.    *)
(*                                                                         *)
(* Abstracted: texts, transcripts, activity lines, usage; the flight an    *)
(* agent is on (Landing, Handoff); agents a human started (Tower never     *)
(* types to them); one Tower tab at a time.                                *)
(*                                                                         *)
(* A definition named X_Y is X with a plausible mistake Y in it.  Next     *)
(* uses none of them.                                                      *)
(***************************************************************************)
EXTENDS Naturals, SequencesExt

CONSTANTS
    Agents,
    MaxMessages,   \* bound: messages accepted for delivery
    MaxFaults      \* bound: dropped connections, hooks that give up, restarts and
                   \* roles that leave the configuration

ASSUME BoundsAssumption == MaxMessages \in Nat /\ MaxFaults \in Nat

Messages == 1..MaxMessages
Brief    == 0                      \* the first prompt of an agent

\* What an agent is: Claude and Codex panes report the end of a turn (hooks,
\* notify); a "mute" CLI reports nothing and has its brief typed in.
Kinds     == {"claude", "codex", "mute", "acp", "llm"}
PaneKinds == {"claude", "codex", "mute"}

VARIABLES
    kind,       \* Agent.driver and the vendor of its CLI
    role,       \* the configuration has the agent's role
    status,     \* Agent.status; "none" before the launch
    pane,       \* Agent.pane_id is known
    queue,      \* State.queues
    fyi,        \* State.fyi, updates held for the next PostToolUse
    spawning,   \* Engine.spawns holds the agent's request
    typeBrief,  \* Engine.type_brief holds its brief
    stopAfter,  \* Engine.stop_after_turn
    handle,     \* Engine.acp holds its command channel
    perm,       \* Engine.perms holds a request of its
    token,      \* State.agent_tokens has one for it
    gui,        \* a Tower tab is connected
    out,        \* what that connection still has to carry: <<agent, what, messages>>
    guiIn,      \* what the GUI reported of the agent's pane
    hooks,      \* hook calls and driver events the engine has not read yet
    prog,       \* what the program is doing
    cont,       \* Claude goes on because of a Stop hook (stop_hook_active)
    pending,    \* prompts the program has not read yet
    got,        \* messages it read
    updates,    \* messages accepted by deliver_fyi
    sent,       \* number of messages accepted
    faults      \* dropped connections, hooks that gave up, restarts, roles that left

engine   == <<status, pane, queue, fyi, spawning, typeBrief, stopAfter, handle,
              perm, token>>
lines    == <<gui, out, guiIn, hooks>>
program  == <<prog, cont, pending, got>>
accepted == <<updates, sent>>
vars     == <<kind, role, engine, lines, program, accepted, faults>>

Live(a)  == status[a] \notin {"none", "offline"}

TypeOK ==
    /\ kind \in [Agents -> Kinds] /\ role \in [Agents -> BOOLEAN]
    /\ status \in [Agents -> {"none", "starting", "working", "needsyou", "holding",
                              "offline"}]
    /\ pane \in [Agents -> BOOLEAN] /\ spawning \in [Agents -> BOOLEAN]
    /\ typeBrief \in [Agents -> BOOLEAN] /\ stopAfter \in [Agents -> BOOLEAN]
    /\ handle \in [Agents -> BOOLEAN] /\ perm \in [Agents -> BOOLEAN]
    /\ token \in [Agents -> BOOLEAN] /\ gui \in BOOLEAN
    /\ queue \in [Agents -> Seq(Nat)] /\ fyi \in [Agents -> Seq(Nat)]
    /\ out \in Seq(Agents \X {"spawn", "type", "close"} \X Seq(Nat))
    /\ guiIn \in [Agents -> Seq({"opened", "failed", "exited"})]
    /\ hooks \in [Agents -> Seq({"start", "prompt", "tool", "ask", "idle", "stop",
                                 "stopAgain", "stopLate", "toolLate", "end",
                                 "turnEnd", "perm", "exited", "answer"})]
    /\ prog \in [Agents -> {"none", "idle", "turn", "tool", "stopping", "asking",
                            "gone"}]
    /\ cont \in [Agents -> BOOLEAN]
    /\ pending \in [Agents -> Seq(Seq(Nat))] /\ got \in [Agents -> Seq(Nat)]
    /\ updates \in SUBSET Messages /\ sent \in 0..MaxMessages
    /\ faults \in 0..MaxFaults

Init ==
    /\ kind \in [Agents -> Kinds] /\ role = [a \in Agents |-> TRUE]
    /\ status = [a \in Agents |-> "none"] /\ prog = [a \in Agents |-> "none"]
    /\ pane = [a \in Agents |-> FALSE] /\ spawning = pane /\ typeBrief = pane
    /\ stopAfter = pane /\ handle = pane /\ perm = pane /\ token = pane
    /\ cont = pane
    /\ queue = [a \in Agents |-> <<>>] /\ fyi = queue /\ guiIn = queue
    /\ hooks = queue /\ pending = queue /\ got = queue
    /\ gui = TRUE /\ out = <<>>
    /\ updates = {} /\ sent = 0 /\ faults = 0

(***************************************************************************)
(* The engine's helpers.                                                   *)
(***************************************************************************)
ToPane(a, what, msgs) == out' = IF gui THEN Append(out, <<a, what, msgs>>) ELSE out

\* send_now finds the pane, the child process or the role it needs.
CanSend(a) ==
    CASE kind[a] \in PaneKinds -> pane[a] /\ gui
      [] kind[a] = "acp"       -> handle[a] /\ prog[a] # "gone"
      [] kind[a] = "llm"       -> role[a]

\* send_now, when it finds it.
SendNow(a, msgs) ==
    /\ status' = [status EXCEPT ![a] = "working"]
    /\ IF kind[a] \in PaneKinds
       THEN ToPane(a, "type", msgs) /\ UNCHANGED pending
       ELSE pending' = [pending EXCEPT ![a] = Append(@, msgs)] /\ UNCHANGED out

\* It drops out of the list of agents, and its queue stays.
Offline_Removed(a) ==
    /\ status' = [status EXCEPT ![a] = IF Live(a) THEN "removed" ELSE @]
    /\ UNCHANGED <<queue, token, perm>>

Offline(a) ==
    IF Live(a)
    THEN /\ status' = [status EXCEPT ![a] = "offline"]
         /\ queue'  = [queue EXCEPT ![a] = <<>>]
         /\ token'  = [token EXCEPT ![a] = FALSE]
         /\ perm'   = [perm EXCEPT ![a] = FALSE]
    ELSE UNCHANGED <<status, queue, token, perm>>

\* stop_agent: the driver hears it by its channel closing.
Stop(a) ==
    /\ handle' = [handle EXCEPT ![a] = FALSE]
    /\ IF pane[a] THEN ToPane(a, "close", <<>>) ELSE UNCHANGED out
    /\ Offline(a)

HandOver_Copies(a) ==
    LET msgs == queue[a] \o fyi[a] IN
    IF msgs # <<>> /\ CanSend(a)
    THEN SendNow(a, msgs) /\ UNCHANGED <<queue, fyi>>
    ELSE /\ status' = [status EXCEPT ![a] = "holding"]
         /\ UNCHANGED <<out, pending, queue, fyi>>

\* on_idle's hand-over: what queued up is taken out, whether or not it can go.
HandOver(a) ==
    LET msgs == queue[a] \o fyi[a] IN
    /\ queue' = [queue EXCEPT ![a] = <<>>]
    /\ fyi'   = [fyi EXCEPT ![a] = <<>>]
    /\ IF msgs # <<>> /\ CanSend(a)
       THEN SendNow(a, msgs)
       ELSE /\ status' = [status EXCEPT ![a] = "holding"]
            /\ UNCHANGED <<out, pending>>

\* on_idle, when the agent was not stopped meanwhile.
IdleLive(a) ==
    \/ /\ stopAfter[a]
       /\ stopAfter' = [stopAfter EXCEPT ![a] = FALSE]
       /\ Stop(a)
       /\ UNCHANGED <<fyi, pending>>
    \/ /\ ~stopAfter[a]
       /\ HandOver(a)
       /\ UNCHANGED <<stopAfter, handle, perm, token>>

\* The agent is marked idle, and what queued up waits for the next turn.
OnIdle_KeepsQueue(a) ==
    /\ status' = [status EXCEPT ![a] = IF Live(a) THEN "holding" ELSE @]
    /\ UNCHANGED <<queue, fyi, stopAfter, handle, perm, token, out, pending>>

\* The check for an agent that was stopped is left out.
OnIdle_Dead(a) == IdleLive(a)

OnIdle(a) ==
    IF Live(a) THEN IdleLive(a)
    ELSE UNCHANGED <<status, queue, fyi, stopAfter, handle, perm, token, out, pending>>

(***************************************************************************)
(* Inputs from people and from the rest of the engine.                     *)
(***************************************************************************)
Launch(a) ==
    /\ status[a] = "none" /\ role[a]
    /\ token' = [token EXCEPT ![a] = TRUE]
    /\ IF kind[a] \in PaneKinds
       THEN /\ gui
            /\ status'    = [status EXCEPT ![a] = "starting"]
            /\ spawning'  = [spawning EXCEPT ![a] = TRUE]
            /\ typeBrief' = [typeBrief EXCEPT ![a] = kind[a] = "mute"]
            /\ ToPane(a, "spawn", <<>>)
            /\ UNCHANGED <<handle, pending, prog>>
       ELSE /\ status'  = [status EXCEPT ![a] = "working"]
            /\ handle'  = [handle EXCEPT ![a] = kind[a] = "acp"]
            /\ pending' = [pending EXCEPT ![a] = <<<<Brief>>>>]
            /\ prog'    = [prog EXCEPT ![a] = "idle"]
            /\ UNCHANGED <<spawning, typeBrief, out>>
    /\ UNCHANGED <<kind, role, pane, queue, fyi, stopAfter, perm, gui, guiIn, hooks,
                   cont, got, accepted, faults>>

\* A busy pane gets the message typed at once.
Deliver_AtOnce(a) ==
    /\ sent < MaxMessages /\ Live(a)
    /\ sent' = sent + 1
    /\ IF CanSend(a)
       THEN SendNow(a, <<sent'>>) /\ UNCHANGED queue
       ELSE /\ queue' = [queue EXCEPT ![a] = Append(@, sent')]
            /\ UNCHANGED <<status, out, pending>>
    /\ UNCHANGED <<kind, role, pane, fyi, spawning, typeBrief, stopAfter, handle,
                   perm, token, gui, guiIn, hooks, prog, cont, got, updates, faults>>

\* deliver: an error goes back to the caller, who knows nothing was sent.
Deliver(a) ==
    /\ sent < MaxMessages /\ Live(a)
    /\ sent' = sent + 1
    /\ IF status[a] = "holding" \/ kind[a] = "mute"
       THEN CanSend(a) /\ SendNow(a, <<sent'>>) /\ UNCHANGED queue
       ELSE /\ queue' = [queue EXCEPT ![a] = Append(@, sent')]
            /\ UNCHANGED <<status, out, pending>>
    /\ UNCHANGED <<kind, role, pane, fyi, spawning, typeBrief, stopAfter, handle,
                   perm, token, gui, guiIn, hooks, prog, cont, got, updates, faults>>

\* deliver_fyi, for a pane that is busy; any other agent has Deliver.
DeliverFyi(a) ==
    /\ sent < MaxMessages /\ Live(a)
    /\ kind[a] \in PaneKinds /\ status[a] # "holding"
    /\ sent'    = sent + 1
    /\ updates' = updates \cup {sent'}
    /\ fyi'     = [fyi EXCEPT ![a] = Append(@, sent')]
    /\ UNCHANGED <<kind, role, status, pane, queue, spawning, typeBrief, stopAfter,
                   handle, perm, token, lines, program, faults>>

\* Stopping it once more would only close its pane again.
StopAgent(a) ==
    /\ Live(a) /\ Stop(a)
    /\ UNCHANGED <<kind, role, pane, fyi, spawning, typeBrief, stopAfter, gui, guiIn,
                   hooks, program, accepted, faults>>

\* tool_return: a helper without a pane is stopped at the end of its turn.
ToolReturn(a) ==
    /\ kind[a] = "acp" /\ token[a] /\ prog[a] = "turn"
    /\ stopAfter' = [stopAfter EXCEPT ![a] = TRUE]
    /\ UNCHANGED <<kind, role, status, pane, queue, fyi, spawning, typeBrief, handle,
                   perm, token, lines, program, accepted, faults>>

\* The human answers a permission request in the Inbox (resolve_inbox).
Answer(a) ==
    /\ perm[a]
    /\ perm'   = [perm EXCEPT ![a] = FALSE]
    /\ status' = [status EXCEPT ![a] = "working"]
    /\ prog'   = [prog EXCEPT ![a] = IF handle[a] /\ @ = "asking" THEN "turn" ELSE @]
    /\ UNCHANGED <<kind, role, pane, queue, fyi, spawning, typeBrief, stopAfter,
                   handle, token, lines, cont, pending, got, accepted, faults>>

\* reload: the file of a role is gone, or is there again.  Only a chat agent needs
\* its role after the launch.
Reload(a) ==
    /\ kind[a] = "llm"
    /\ role' = [role EXCEPT ![a] = ~@]
    /\ IF role[a] THEN faults < MaxFaults /\ faults' = faults + 1 ELSE UNCHANGED faults
    /\ UNCHANGED <<kind, engine, lines, program, accepted>>

(***************************************************************************)
(* Inputs from the GUI.                                                    *)
(***************************************************************************)
\* on_pane_spawned does not ask whether the agent was stopped meanwhile.
PaneOpened(a) ==
    /\ pane'      = [pane EXCEPT ![a] = TRUE]
    /\ status'    = [status EXCEPT ![a] = "working"]
    /\ typeBrief' = [typeBrief EXCEPT ![a] = FALSE]
    /\ IF typeBrief[a] THEN ToPane(a, "type", <<Brief>>) ELSE UNCHANGED out
    /\ UNCHANGED <<queue, token, perm>>

HandleGui(a) ==
    /\ guiIn[a] # <<>>
    /\ guiIn' = [guiIn EXCEPT ![a] = Tail(@)]
    /\ LET what == Head(guiIn[a])
           mine == what # "exited" /\ spawning[a] IN
       /\ spawning' = [spawning EXCEPT ![a] = @ /\ ~mine]
       /\ \/ /\ what = "opened" /\ mine
             /\ PaneOpened(a)
          \/ /\ \/ what = "failed" /\ mine
                \/ what = "exited" /\ pane[a]
             /\ Offline(a)
             /\ UNCHANGED <<pane, typeBrief, out>>
          \/ /\ IF what = "exited" THEN ~pane[a] ELSE ~mine
             /\ UNCHANGED <<pane, typeBrief, out, status, queue, token, perm>>
    /\ UNCHANGED <<kind, role, fyi, stopAfter, handle, gui, hooks, program, accepted,
                   faults>>

(***************************************************************************)
(* Inputs from the program: hooks of a pane, events of the ACP driver, the *)
(* answer to a chat call.                                                  *)
(***************************************************************************)
\* The updates are taken with the queue, and forgotten.
AnswerStop_DropsFyi(a, heard) ==
    /\ queue'  = [queue EXCEPT ![a] = <<>>]
    /\ fyi'    = [fyi EXCEPT ![a] = <<>>]
    /\ status' = [status EXCEPT ![a] = "working"]
    /\ IF heard /\ prog[a] = "stopping"
       THEN /\ prog' = [prog EXCEPT ![a] = "turn"]
            /\ cont' = [cont EXCEPT ![a] = TRUE]
            /\ got'  = [got EXCEPT ![a] = @ \o queue[a]]
       ELSE UNCHANGED <<prog, cont, got>>
    /\ UNCHANGED <<stopAfter, handle, perm, token, out, pending>>

\* queued_for_stop_hook: Claude goes on with what queued up, if it still
\* waits for the hook's answer.
AnswerStop(a, heard) ==
    /\ queue'  = [queue EXCEPT ![a] = <<>>]
    /\ fyi'    = [fyi EXCEPT ![a] = <<>>]
    /\ status' = [status EXCEPT ![a] = "working"]
    /\ IF heard /\ prog[a] = "stopping"
       THEN /\ prog' = [prog EXCEPT ![a] = "turn"]
            /\ cont' = [cont EXCEPT ![a] = TRUE]
            /\ got'  = [got EXCEPT ![a] = @ \o queue[a] \o fyi[a]]
       ELSE UNCHANGED <<prog, cont, got>>
    /\ UNCHANGED <<stopAfter, handle, perm, token, out, pending>>

\* The hook has nothing to say: a CLI that waits for it ends its turn.
LetStop(a, heard) ==
    /\ IF heard /\ prog[a] = "stopping"
       THEN /\ prog' = [prog EXCEPT ![a] = "idle"]
            /\ cont' = [cont EXCEPT ![a] = FALSE]
       ELSE UNCHANGED <<prog, cont>>
    /\ UNCHANGED got

OnStop(a, continuing, heard) ==
    IF ~continuing /\ Live(a) /\ queue[a] \o fyi[a] # <<>>
    THEN AnswerStop(a, heard)
    ELSE LetStop(a, heard) /\ OnIdle(a)

\* PostToolUse: fyi_for_hook.
OnTool(a, heard) ==
    /\ fyi' = [fyi EXCEPT ![a] = <<>>]
    /\ IF heard /\ prog[a] = "tool"
       THEN /\ prog' = [prog EXCEPT ![a] = "turn"]
            /\ got'  = [got EXCEPT ![a] = @ \o fyi[a]]
       ELSE UNCHANGED <<prog, got>>
    /\ UNCHANGED <<status, queue, stopAfter, handle, perm, token, out, pending, cont>>

SetStatus(a, s) ==
    /\ status' = [status EXCEPT ![a] = s]
    /\ UNCHANGED <<queue, fyi, stopAfter, handle, token, out, program>>

Gone(a) ==
    /\ Offline(a)
    /\ UNCHANGED <<fyi, stopAfter, out, program>>

HandleHook(a) ==
    /\ hooks[a] # <<>>
    /\ hooks' = [hooks EXCEPT ![a] = Tail(@)]
    /\ LET what == Head(hooks[a]) IN
       \/ /\ what = "start"
          /\ SetStatus(a, IF status[a] \in {"starting", "offline"} THEN "working"
                                                                   ELSE status[a])
          /\ UNCHANGED perm
       \/ what = "prompt"    /\ SetStatus(a, "working")  /\ UNCHANGED perm
       \/ what = "ask"       /\ SetStatus(a, "needsyou") /\ UNCHANGED perm
       \/ what = "perm"      /\ SetStatus(a, "needsyou")
                             /\ perm' = [perm EXCEPT ![a] = TRUE]
       \/ what = "tool"      /\ OnTool(a, TRUE)
       \/ what = "toolLate"  /\ OnTool(a, FALSE)
       \/ what = "stop"      /\ OnStop(a, FALSE, TRUE)
       \/ what = "stopAgain" /\ OnStop(a, TRUE, TRUE)
       \/ what = "stopLate"  /\ OnStop(a, FALSE, FALSE)
       \/ /\ what \in {"idle", "turnEnd", "answer"}
          /\ OnIdle(a) /\ UNCHANGED <<prog, cont, got>>
       \/ what = "end"       /\ Gone(a) /\ UNCHANGED handle
       \/ what = "exited"    /\ Gone(a) /\ handle' = [handle EXCEPT ![a] = FALSE]
    /\ UNCHANGED <<kind, role, pane, spawning, typeBrief, gui, guiIn, accepted,
                   faults>>

(***************************************************************************)
(* The GUI's side of the connection.                                       *)
(***************************************************************************)
Post(a, events) ==
    IF kind[a] \in PaneKinds => token[a]
    THEN hooks' = [hooks EXCEPT ![a] = @ \o events] ELSE UNCHANGED hooks

TellEngine(a, what) == guiIn' = [guiIn EXCEPT ![a] = Append(@, what)]

\* The pane opens and the CLI starts on the prompt it was given.
Starts(a) ==
    IF kind[a] = "mute"
    THEN prog' = [prog EXCEPT ![a] = "idle"] /\ UNCHANGED <<got, hooks>>
    ELSE /\ prog' = [prog EXCEPT ![a] = "turn"]
         /\ got' = [got EXCEPT ![a] = <<Brief>>]
         /\ IF kind[a] = "claude" THEN Post(a, <<"start", "prompt">>) ELSE UNCHANGED hooks

\* Asked for a pane, the GUI opens it, or fails.
Opens(a) ==
    /\ out # <<>> /\ Head(out)[1] = a /\ Head(out)[2] = "spawn"
    /\ out' = Tail(out)
    /\ \/ TellEngine(a, "opened") /\ Starts(a)
       \/ /\ TellEngine(a, "failed")
          /\ UNCHANGED <<prog, got, hooks>>
    /\ UNCHANGED <<kind, role, engine, gui, cont, pending, accepted, faults>>

Types(a) ==
    /\ out # <<>> /\ Head(out)[1] = a /\ Head(out)[2] = "type"
    /\ out' = Tail(out)
    /\ pending' = [pending EXCEPT ![a] = IF prog[a] = "gone" THEN @
                                         ELSE Append(@, Head(out)[3])]
    /\ UNCHANGED <<kind, role, engine, gui, guiIn, hooks, prog, cont, got, accepted,
                   faults>>

Closes(a) ==
    /\ out # <<>> /\ Head(out)[1] = a /\ Head(out)[2] = "close"
    /\ out' = Tail(out)
    /\ prog'    = [prog EXCEPT ![a] = "gone"]
    /\ pending' = [pending EXCEPT ![a] = <<>>]
    /\ TellEngine(a, "exited")
    /\ UNCHANGED <<kind, role, engine, gui, hooks, cont, got, accepted, faults>>

\* The connection drops.  A pane that opens just then is reported to nobody.
GuiDrops ==
    /\ gui /\ faults < MaxFaults
    /\ gui' = FALSE /\ out' = <<>> /\ faults' = faults + 1
    /\ \/ UNCHANGED <<prog, got, hooks>>
       \/ out # <<>> /\ Head(out)[2] = "spawn" /\ Starts(Head(out)[1])
    /\ UNCHANGED <<kind, role, engine, guiIn, cont, pending, accepted>>

\* It connects again and lists the panes that are there (LivePanes).
GuiConnects ==
    /\ ~gui /\ gui' = TRUE
    /\ guiIn' = [a \in Agents |-> IF kind[a] \in PaneKinds /\ prog[a] = "gone"
                                  THEN Append(guiIn[a], "exited") ELSE guiIn[a]]
    /\ UNCHANGED <<kind, role, engine, out, hooks, program, accepted, faults>>

(***************************************************************************)
(* The program's side.                                                     *)
(***************************************************************************)
Reads(a) ==
    /\ prog[a] = "idle" /\ pending[a] # <<>>
    /\ prog'    = [prog EXCEPT ![a] = "turn"]
    /\ pending' = [pending EXCEPT ![a] = Tail(@)]
    /\ got'     = [got EXCEPT ![a] = @ \o Head(pending[a])]
    /\ IF kind[a] = "claude" THEN Post(a, <<"prompt">>) ELSE UNCHANGED hooks
    /\ UNCHANGED <<kind, role, engine, gui, out, guiIn, cont, accepted, faults>>

\* The human types a prompt of their own into the pane, behind what is there.
HumanPrompts(a) ==
    /\ kind[a] \in PaneKinds /\ prog[a] = "idle" /\ pending[a] = <<>>
    /\ prog' = [prog EXCEPT ![a] = "turn"]
    /\ IF kind[a] = "claude" THEN Post(a, <<"prompt">>) ELSE UNCHANGED hooks
    /\ UNCHANGED <<kind, role, engine, gui, out, guiIn, cont, pending, got, accepted,
                   faults>>

\* A tool call, with the hooks before and after it.
UsesTool(a) ==
    /\ kind[a] = "claude" /\ prog[a] = "turn" /\ token[a]
    /\ prog' = [prog EXCEPT ![a] = "tool"]
    /\ Post(a, <<"prompt", "tool">>)
    /\ UNCHANGED <<kind, role, engine, gui, out, guiIn, cont, pending, got, accepted,
                   faults>>

\* It asks for a permission: Claude in its pane (told once, hence the empty
\* channel), an ACP agent through Tower, where its turn waits for the answer.
Asks(a) ==
    /\ prog[a] = "turn"
    /\ \/ /\ kind[a] = "claude" /\ hooks[a] = <<>> /\ status[a] # "needsyou"
          /\ Post(a, <<"ask">>) /\ UNCHANGED prog
       \/ /\ kind[a] = "acp"
          /\ Post(a, <<"perm">>) /\ prog' = [prog EXCEPT ![a] = "asking"]
    /\ UNCHANGED <<kind, role, engine, gui, out, guiIn, cont, pending, got, accepted,
                   faults>>

\* A turn is longer than it takes the GUI to report the pane it opened, and the
\* engine to hear of the turn before.
EndsTurn(a) ==
    /\ prog[a] = "turn" /\ guiIn[a] = <<>>
    /\ kind[a] = "codex" => hooks[a] = <<>>
    /\ \/ /\ kind[a] = "claude" /\ token[a]
          /\ prog' = [prog EXCEPT ![a] = "stopping"]
          /\ Post(a, IF cont[a] THEN <<"stopAgain">> ELSE <<"stop">>)
          /\ UNCHANGED cont
       \/ /\ kind[a] # "claude" \/ ~token[a]
          /\ prog' = [prog EXCEPT ![a] = "idle"]
          /\ cont' = [cont EXCEPT ![a] = FALSE]
          /\ CASE kind[a] = "codex" -> Post(a, <<"stopAgain">>)
               [] kind[a] = "acp"   -> Post(a, <<"turnEnd">>)
               [] kind[a] = "llm"   -> Post(a, <<"answer">>)
               [] OTHER             -> UNCHANGED hooks
    /\ UNCHANGED <<kind, role, engine, gui, out, guiIn, pending, got, accepted,
                   faults>>

\* A hook waits two seconds for the engine and then lets Claude go on: what
\* the engine answers later is lost (a continued Stop has nothing to lose).
HookGivesUp(a) ==
    /\ faults < MaxFaults /\ faults' = faults + 1
    /\ prog[a] \in {"stopping", "tool"}
    /\ prog'  = [prog EXCEPT ![a] = IF @ = "tool" THEN "turn" ELSE "idle"]
    /\ cont'  = [cont EXCEPT ![a] = @ /\ prog[a] = "tool"]
    /\ hooks' = [hooks EXCEPT ![a] = Append(Front(@),
                   CASE Last(@) = "tool" -> "toolLate"
                     [] Last(@) = "stop" -> "stopLate"
                     [] OTHER            -> "idle")]
    /\ UNCHANGED <<kind, role, engine, gui, out, guiIn, pending, got, accepted>>

\* Claude reports that it has been waiting for input for a while.
IdleNotice(a) ==
    /\ kind[a] = "claude" /\ prog[a] = "idle" /\ token[a] /\ hooks[a] = <<>>
    /\ Post(a, <<"idle">>)
    /\ UNCHANGED <<kind, role, engine, gui, out, guiIn, program, accepted, faults>>

\* It ends: by itself, closed by the human, or told to by the driver.
Quits(a) ==
    /\ prog[a] \notin {"none", "gone"} /\ kind[a] # "llm"
    /\ prog'    = [prog EXCEPT ![a] = "gone"]
    /\ pending' = [pending EXCEPT ![a] = <<>>]
    /\ CASE kind[a] = "claude" -> Post(a, <<"end">>)
         [] kind[a] = "acp"    -> Post(a, <<"exited">>)
         [] OTHER              -> UNCHANGED hooks
    /\ IF kind[a] \in PaneKinds /\ gui THEN TellEngine(a, "exited")
                                       ELSE UNCHANGED guiIn
    /\ UNCHANGED <<kind, role, engine, gui, out, cont, got, accepted, faults>>

(***************************************************************************)
(* The daemon restarts (RestartDaemon saves first) and reads its state     *)
(* back.  Its children die with it, panes go on; a chat call under way is  *)
(* given up, as is what else the engine kept beside State.                 *)
(***************************************************************************)
Restart ==
    /\ faults < MaxFaults /\ faults' = faults + 1
    /\ status' = [a \in Agents |-> IF kind[a] = "acp" /\ Live(a) THEN "offline"
                                   ELSE status[a]]
    /\ spawning' = [a \in Agents |-> FALSE] /\ typeBrief' = spawning'
    /\ stopAfter' = spawning' /\ handle' = spawning' /\ perm' = spawning'
    /\ gui' = FALSE /\ out' = <<>>
    /\ guiIn' = [a \in Agents |-> <<>>] /\ hooks' = guiIn'
    /\ prog' = [a \in Agents |->
                  CASE kind[a] = "acp" /\ prog[a] # "none" -> "gone"
                    [] kind[a] = "llm" /\ prog[a] # "none" -> "idle"
                    [] prog[a] = "stopping" -> "idle"
                    [] prog[a] = "tool"     -> "turn"
                    [] OTHER                -> prog[a]]
    /\ cont' = [a \in Agents |-> cont[a] /\ prog[a] # "stopping"]
    /\ pending' = [a \in Agents |-> IF kind[a] \in PaneKinds THEN pending[a] ELSE <<>>]
    /\ UNCHANGED <<kind, role, pane, queue, fyi, token, got, accepted>>

Next ==
    \/ \E a \in Agents :
         \/ Launch(a) \/ Deliver(a) \/ DeliverFyi(a) \/ StopAgent(a) \/ ToolReturn(a)
         \/ Answer(a) \/ Reload(a) \/ HandleGui(a) \/ HandleHook(a)
         \/ Opens(a) \/ Types(a) \/ Closes(a)
         \/ Reads(a) \/ HumanPrompts(a) \/ UsesTool(a) \/ Asks(a) \/ EndsTurn(a)
         \/ HookGivesUp(a) \/ IdleNotice(a) \/ Quits(a)
    \/ GuiDrops \/ GuiConnects \/ Restart

Spec == Init /\ [][Next]_vars

(***************************************************************************)
(* The engine and the GUI take what is in line, a program reads its        *)
(* prompts, ends its turns however often it calls tools in between, and    *)
(* the tab connects again.  Nobody is bound to launch, stop or answer.     *)
(***************************************************************************)
Fairness ==
    /\ \A a \in Agents :
         /\ WF_vars(HandleGui(a)) /\ WF_vars(HandleHook(a))
         /\ WF_vars(Opens(a)) /\ WF_vars(Types(a)) /\ WF_vars(Closes(a))
         /\ WF_vars(Reads(a)) /\ SF_vars(EndsTurn(a)) /\ WF_vars(IdleNotice(a))
    /\ WF_vars(GuiConnects)

FairSpec == Spec /\ Fairness

(***************************************************************************)
(* Properties.                                                             *)
(***************************************************************************)
Typed(a) ==
    FlattenSeq([i \in 1..Len(out) |-> IF out[i][1] = a THEN out[i][3] ELSE <<>>])

\* Everything sent to an agent that it has read or can still read.
Copies(a) == got[a] \o FlattenSeq(pending[a]) \o Typed(a) \o queue[a] \o fyi[a]

\* An agent reads a message once: taking it out of a queue, typing it, handing
\* it to a hook or to the driver never leaves a second copy behind.
NoDuplicate == \A a \in Agents : IsInjective(Copies(a))

\* Messages reach an agent in the order they were accepted, whichever way each
\* of them went.  Updates may be late, and a Claude pane is left out: there a
\* message typed during a turn the human began is overtaken by one that the
\* Stop hook hands over.
InOrder ==
    \A a \in Agents : kind[a] # "claude" =>
        LET line     == Copies(a)
            plain(m) == m # Brief /\ m \notin updates IN
        \A i, j \in DOMAIN line :
            i < j /\ plain(line[i]) /\ plain(line[j]) => line[i] < line[j]

\* A message disappears only with the agent or its program, with a connection
\* to the GUI that is down, with a pane that has not opened, with the role of a
\* chat agent, with a chat call that a restart gives up, or because the hook it
\* was handed to had given up.
NoSilentLoss ==
    [][\A a \in Agents : \A m \in 1..sent :
          m \in Range(Copies(a)) /\ m \notin Range(Copies(a))' =>
             \/ ~Live(a)' \/ prog'[a] = "gone"
             \/ kind[a] \in PaneKinds /\ (~gui' \/ ~pane[a])
             \/ kind[a] = "llm" /\ (~role[a] \/ Restart)
             \/ hooks[a] # <<>> /\ Head(hooks[a]) \in {"stopLate", "toolLate"}]_vars

\* A turn that ends, an answer that arrives or a permission that is settled
\* after the agent was stopped does not bring it back: only its own report of
\* more work does, and a pane that opens after its agent was stopped.
StaysStopped ==
    [][\A a \in Agents : status[a] = "offline" /\ Live(a)' =>
          \/ HandleHook(a) /\ Head(hooks[a]) \in {"start", "prompt", "ask", "perm"}
          \/ HandleGui(a) /\ Head(guiIn[a]) = "opened"]_vars

Waiting(a) == Range(queue[a]) \cup IF kind[a] = "mute" THEN {} ELSE Range(fyi[a])

\* A message that waits for an agent to end its turn is read, unless the agent
\* goes, waits for the human, or was stopped before its pane opened (its token
\* is gone then, and with it the reports of its turns).  After a dropped
\* connection, a hook that gave up, a restart or a role that left it leaves the
\* queue all the same, where the agent can tell that it is idle: a Codex turn
\* that nobody heard end, and a chat call that died with the daemon, leave it
\* waiting.  Updates held for a CLI that reports nothing are never read: see
\* UpdateIsRead.
WaitingIsRead ==
    \A a \in Agents : \A m \in Messages :
        m \in Waiting(a) /\ (kind[a] \in PaneKinds => pane[a]) ~>
            \/ m \in Range(got[a]) \/ ~Live(a) \/ prog[a] \in {"asking", "gone"}
            \/ ~token[a]
            \/ /\ faults > 0
               /\ m \notin Waiting(a) \/ kind[a] \in {"codex", "llm"}

\* deliver_fyi holds updates for "a busy Claude pane" only: "Anyone else gets
\* them like any message", which reaches an agent in the end.  Not so: they are
\* held for any pane that is not idle, and a CLI that reports nothing never is.
UpdateIsRead ==
    \A a \in Agents : \A m \in Messages :
        kind[a] # "claude" /\ m \in Range(fyi[a]) /\ pane[a] ~>
            m \in Range(got[a]) \/ ~Live(a) \/ prog[a] = "gone" \/ ~token[a]
=============================================================================
