------------------------------ MODULE Contexts ------------------------------
(***************************************************************************)
(* Which turn a tool call belongs to (RuntimeBase).                        *)
(*                                                                         *)
(* The SDK calls the tools of an agent from threads of its own.  The call  *)
(* finds its turn through the box its agent was created with, the turn     *)
(* frozen for the agent, or the only turn of the bot; _run_turn and the    *)
(* worker task freeze their turn before they stream and clear it when they *)
(* end.  Tasks overlap: a stopped turn unwinds while the next one of its   *)
(* bot has begun, and a worker that was steered unwinds under the same     *)
(* worker id as its successor.                                             *)
(***************************************************************************)
EXTENDS Integers, FiniteSets

CONSTANTS
  Agents,      \* SDK sessions
  Bots,
  Leads,       \* runs of the leads
  MaxSteers    \* times a worker's task is replaced

ASSUME ContextsAssumption ==
  MaxSteers \in Nat /\ \A r \in Leads : r \notin Nat \cup {"no turn", "worker"}

VARIABLES
  botOf,          \* _bot_by_agent
  frozenByRun,    \* _frozen_by_run: per turn the agent and bot it was frozen with
  frozenByAgent,  \* _frozen_by_agent
  toolBox,            \* per agent the ToolTurnBox of its tools: its turn, or none
  boxed,          \* agents that have a box in _tool_boxes
  task,           \* per task its stage and the agent and bot it works with
  steers

ctxVars == <<botOf, frozenByRun, frozenByAgent, toolBox, boxed, task, steers>>

NoRun == "no turn"
NoAgent == "no agent"
NoBot == "no bot"
Worker == "worker"
(* The tasks: one of each lead run, and those of the one worker. *)
Tasks == Leads \cup (0..MaxSteers)
RunOf(k) == IF k \in Leads THEN k ELSE Worker
Runs == Leads \cup {Worker}

ContextsInit ==
  /\ botOf = [a \in Agents |-> NoBot]
  /\ frozenByRun = [r \in Runs |-> NoAgent]
  /\ frozenByAgent = [a \in Agents |-> NoRun]
  /\ toolBox = [a \in Agents |-> NoRun] /\ boxed = {}
  /\ task = [k \in Tasks |-> [pc |-> "new", agent |-> NoAgent]]
  /\ steers = 0

(* A turn that runs: frozen by its task, which has not come to its end. *)
Streaming(k) == task[k].pc \in {"streaming", "stopped"}

----------------------------------------------------------------------------
(* session_foreign_to_bot: a session of another bot is not taken. *)
Foreign(a, b) == botOf[a] \notin {NoBot, b}

(* create_session, and ensure_session of a session that is not in _agents:
   new tools with a box of their own, which register_tool_box fills with the
   turn that is frozen for the agent. *)
OpenSession(a, b) ==
  /\ a \notin boxed /\ ~Foreign(a, b)
  /\ boxed' = boxed \cup {a}
  /\ botOf' = [botOf EXCEPT ![a] = b]
  /\ toolBox' = [toolBox EXCEPT ![a] = frozenByAgent[a]]
  /\ UNCHANGED <<frozenByRun, frozenByAgent, task, steers>>

(* The bridge restart empties _agents: the sessions are resumed with new
   boxes. *)
LoseSession(a) ==
  /\ a \in boxed
  /\ boxed' = boxed \ {a} /\ toolBox' = [toolBox EXCEPT ![a] = NoRun]
  /\ UNCHANGED <<botOf, frozenByRun, frozenByAgent, task, steers>>

(* One task streams on a session at a time (the stream lock), but the one that
   was stopped may still hold it while its successor freezes its turn. *)
AgentFree(a) == \A k \in Tasks : task[k].agent = a => task[k].pc # "streaming"

(* set_current_turn_context: freeze_turn. *)
FreezeTurn(k, a, b) ==
  LET r == RunOf(k)
  IN /\ task[k].pc = "new" /\ botOf[a] = b /\ AgentFree(a)
     /\ k \in Nat => k = steers /\ (k > 0 => task[k - 1].pc # "streaming")
     /\ task' = [task EXCEPT ![k] = [pc |-> "streaming", agent |-> a]]
     /\ frozenByRun' = [frozenByRun EXCEPT ![r] = a]
     /\ frozenByAgent' = [frozenByAgent EXCEPT ![a] = r]
     /\ toolBox' = IF a \in boxed THEN [toolBox EXCEPT ![a] = r] ELSE toolBox
     /\ UNCHANGED <<botOf, boxed, steers>>

(* Stop, or for the worker a steer, cancels the task: it unwinds. *)
StopTask(k) ==
  /\ task[k].pc = "streaming"
  /\ task' = [task EXCEPT ![k].pc = "stopped"]
  /\ UNCHANGED <<botOf, frozenByRun, frozenByAgent, toolBox, boxed, steers>>

SteerWorker ==
  /\ steers < MaxSteers /\ task[steers].pc \in {"stopped", "ended"}
  /\ steers' = steers + 1
  /\ UNCHANGED <<botOf, frozenByRun, frozenByAgent, toolBox, boxed, task>>

(* Mutant: the agent the run was frozen with. *)
AgentOfTurn(r) == {a \in Agents : frozenByRun[r] = a}

(* The agents whose frozen turn is this run. *)
ClearedAgents(r) == {a \in Agents : frozenByAgent[a] = r}

(* The task ends: clear_active_turn of its run. *)
ClearActiveTurn(k) ==
  LET r == RunOf(k)
      cleared == ClearedAgents(r)
  IN /\ Streaming(k)
     /\ task' = [task EXCEPT ![k].pc = "ended"]
     /\ frozenByRun' = [frozenByRun EXCEPT ![r] = NoAgent]
     /\ frozenByAgent' = [a \in Agents |-> IF a \in cleared THEN NoRun ELSE frozenByAgent[a]]
     /\ toolBox' = [a \in Agents |-> IF a \in cleared /\ a \in boxed THEN NoRun ELSE toolBox[a]]
     /\ UNCHANGED <<botOf, boxed, steers>>

ContextsNext ==
  \/ \E a \in Agents, b \in Bots :
       OpenSession(a, b) \/ \E k \in Tasks : FreezeTurn(k, a, b)
  \/ \E a \in Agents : LoseSession(a)
  \/ \E k \in Tasks : StopTask(k) \/ ClearActiveTurn(k)
  \/ SteerWorker

ContextsSpec == ContextsInit /\ [][ContextsNext]_ctxVars

----------------------------------------------------------------------------
(* The turn a tool of agent a runs for: its box's, the agent's frozen one, or
   the only one of the bot (_custom_tools' execute, resolve_turn). *)
ResolveTurn(a) ==
  LET frozen == frozenByAgent[a]
      matching == {r \in Runs : frozenByRun[r] # NoAgent /\ botOf[frozenByRun[r]] = botOf[a]}
  IN IF toolBox[a] # NoRun THEN toolBox[a]
     ELSE IF frozen # NoRun THEN frozen
     ELSE IF Cardinality(matching) = 1 THEN CHOOSE r \in matching : TRUE
     ELSE NoRun

ContextsTypeOK ==
  /\ botOf \in [Agents -> Bots \cup {NoBot}]
  /\ frozenByRun \in [Runs -> Agents \cup {NoAgent}]
  /\ frozenByAgent \in [Agents -> Runs \cup {NoRun}] /\ toolBox \in [Agents -> Runs \cup {NoRun}]
  /\ boxed \subseteq Agents /\ steers \in 0..MaxSteers
  /\ task \in [Tasks -> [pc : {"new", "streaming", "stopped", "ended"}, agent : Agents \cup {NoAgent}]]

(* No predecessor of a worker's turn has come to its end. *)
Undisturbed(k) == k \in Nat => \A p \in 0..(k - 1) : task[p].pc # "ended"

(* Why: the workers' turns follow one another, each after its predecessor was
   stopped; and the turn frozen for an agent, its box's too, is the one that
   streams on it, as long as no predecessor's clear comes late. *)
ContextFacts ==
  /\ \A p \in 0..MaxSteers :
       /\ p < steers => task[p].pc \in {"stopped", "ended"}
       /\ p > steers => task[p].pc = "new"
  /\ \A k \in Tasks : task[k].pc = "streaming" /\ Undisturbed(k) =>
       /\ task[k].agent \in Agents /\ frozenByAgent[task[k].agent] = RunOf(k)
       /\ task[k].agent \in boxed => toolBox[task[k].agent] = RunOf(k)

(* A tool call of a turn that streams runs for that turn and no other,
   although a stopped turn of the bot is cleared late, other turns of the bot
   run, and the session is lost and resumed in between.  A worker's turn whose
   predecessor was steered away is excepted: both have the worker's id, and the
   predecessor's clear takes the successor's turn with it. *)
CallsRunForTheirTurn ==
  \A k \in Tasks :
    /\ task[k].pc = "streaming" /\ task[k].agent \in boxed
    /\ Undisturbed(k)
    => ResolveTurn(task[k].agent) = RunOf(k)

=============================================================================
