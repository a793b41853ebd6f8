------------------------------- MODULE Turns -------------------------------
(***************************************************************************)
(* The lead turns of one bot: owner sends and their retries, the dispatch  *)
(* outbox, the inbox of queued messages, the run rows, the turn tasks, the *)
(* tool threads that wait for the owner, Stop, and host restart recovery.  *)
(*                                                                         *)
(* Every lock and query of the modelled code is per bot, so one bot is     *)
(* enough.  The HTTP handlers and the turn tasks share one asyncio loop    *)
(* and call the store synchronously: what a handler does between two       *)
(* awaits is not interleaved with other handlers, but tools run on other   *)
(* threads, and a crash may fall between any two commits.                  *)
(*                                                                         *)
(* A default model is configured (the needs_setup reply is not modelled).  *)
(***************************************************************************)
EXTENDS Integers, FiniteSets

CONSTANTS
  Commands,     \* owner command ids; each stands for one owner message
  Notes,        \* owner messages sent without a command id
  Posts,        \* HTTP requests that may be in flight at the same time
  Tools,        \* the lead's tools: subset of ToolKinds
  Outcomes,     \* how the runtime may end a turn: subset of TurnOutcomes
  Faults,       \* subset of FaultKinds
  MaxInbox,     \* http/deps.MAX_INBOX
  MaxRuns,      \* bound: run rows
  MaxStops,     \* bound: presses of Stop
  MaxCrashes    \* bound: process exits

ToolKinds == {"plain", "options", "ask", "consent", "takeover"}
TurnOutcomes == {"completed", "failed", "unknown"}

(***************************************************************************)
(* agent: _ensure_agent raises.  midtool: the runtime ends a turn while    *)
(* one of its tools is still executing.  overlap: a dying process finishes *)
(* its turns while the next one is already up.  shutdown: the process is    *)
(* asked to exit and cancels its turns first.                              *)
(***************************************************************************)
FaultKinds == {"agent", "midtool", "overlap", "shutdown"}

RunIds == 1..MaxRuns
NoRun == 0
NoMsg == 0

(* A continuation after a restart is a message named by the run it continues. *)
Msgs == Commands \cup Notes \cup RunIds

ASSUME BoundsAssumption ==
  /\ MaxInbox \in Nat /\ MaxRuns \in Nat /\ MaxStops \in Nat /\ MaxCrashes \in Nat
  /\ Tools \subseteq ToolKinds
  /\ Outcomes \subseteq TurnOutcomes
  /\ Faults \subseteq FaultKinds

ASSUME MessagesAssumption ==
  /\ Commands \cap Notes = {}
  /\ (Commands \cup Notes) \cap (RunIds \cup {NoMsg}) = {}

Busy == {"running", "waiting_input", "waiting_takeover", "waiting_recovery", "unknown"}
Ended == {"completed", "failed", "cancelled"}
RunStatus == Busy \cup Ended \cup {"none"}
ParkedWait == {"waiting_input", "waiting_takeover", "waiting_recovery"}

VARIABLES
  \* Postgres
  runCount,     \* run rows inserted so far; ids follow started_at
  runStatus,    \* runs.status
  dispatch,     \* turn_dispatches.state
  cmdRun,       \* owner_commands.run_id
  posted,       \* owner messages stored in the thread
  inbox,        \* turn_inbox
  waitKind,     \* run_waits.kind, which also decides run_waits.path
  recovered,    \* run_waits.recovered_at is set
  ask,          \* the run's last owner question card
  consentReq,   \* the run's consent request
  botStatus,    \* bots.status
  \* the host process
  phase,        \* up | stopping | down | boot
  todo,         \* leftover runs the boot still has to recover
  bootKick,     \* the boot's _kick_inbox has not run yet
  req,          \* the HTTP requests in flight
  task,         \* the turn task of each run
  tool,         \* the tool thread of each run
  question,     \* ConsentHub._questions
  waiter,       \* ConsentHub._waiters
  \* history
  got,          \* the runs a message was handed to
  held,         \* the owner stopped and has not sent since
  stops, crashes

durable == <<runCount, runStatus, dispatch, cmdRun, posted, inbox, waitKind,
             recovered, ask, consentReq, botStatus>>
volatile == <<phase, todo, bootKick, req, task, tool, question, waiter>>
history == <<got, held, stops, crashes>>
vars == <<durable, volatile, history>>

Idle == [pc |-> "idle", msg |-> NoMsg, run |-> NoRun, fresh |-> FALSE]

(* Which request is where: accept, resume and kick are awaiting _ensure_agent; *)
(* begun and claimed sit between two commits of the synchronous part.          *)
Request ==
  {q \in [pc : {"idle", "accept", "begun", "claimed", "resume", "kick"},
          msg : Msgs \cup {NoMsg}, run : RunIds \cup {NoRun}, fresh : BOOLEAN] :
     /\ q.pc \in {"accept", "begun", "claimed", "resume"} => q.msg \in Msgs
     /\ q.pc \in {"begun", "claimed", "resume"} => q.run \in RunIds}

(***************************************************************************)
(* Every field has the values the schema and the process allow.            *)
(***************************************************************************)
TypeOK ==
  /\ runCount \in 0..MaxRuns
  /\ runStatus \in [RunIds -> RunStatus]
  /\ dispatch \in [RunIds -> {"none", "pending", "claimed"}]
  /\ cmdRun \in [Commands -> RunIds \cup {NoRun}]
  /\ posted \subseteq Msgs
  /\ inbox \subseteq Msgs
  /\ waitKind \in [RunIds -> {"none", "ask", "consent", "takeover", "running"}]
  /\ recovered \in [RunIds -> BOOLEAN]
  /\ ask \in [RunIds -> {"none", "pending", "answered"}]
  /\ consentReq \in [RunIds -> {"none", "pending", "allow", "deny"}]
  /\ botStatus \in {"idle", "running", "waiting_input", "waiting_takeover", "error"}
  /\ phase \in {"up", "stopping", "down", "boot"}
  /\ todo \subseteq RunIds
  /\ bootKick \in BOOLEAN
  /\ req \in [Posts -> Request]
  /\ task \in [RunIds -> {"none", "live", "cancelling", "stopped", "kick", "dying"}]
  /\ tool \in [RunIds -> {"none", "exec", "posted", "askWait", "offered", "consentWait",
                         "marked", "steer"}]
  /\ question \in [RunIds -> {"none", "open", "answered", "cancelled"}]
  /\ waiter \in [RunIds -> BOOLEAN]
  /\ got \in [Msgs -> SUBSET RunIds]
  /\ held \in BOOLEAN
  /\ stops \in 0..MaxStops
  /\ crashes \in 0..MaxCrashes

Init ==
  /\ runCount = 0
  /\ runStatus = [r \in RunIds |-> "none"]
  /\ dispatch = [r \in RunIds |-> "none"]
  /\ cmdRun = [c \in Commands |-> NoRun]
  /\ posted = {}
  /\ inbox = {}
  /\ waitKind = [r \in RunIds |-> "none"]
  /\ recovered = [r \in RunIds |-> FALSE]
  /\ ask = [r \in RunIds |-> "none"]
  /\ consentReq = [r \in RunIds |-> "none"]
  /\ botStatus = "idle"
  /\ phase = "up"
  /\ todo = {}
  /\ bootKick = FALSE
  /\ req = [p \in Posts |-> Idle]
  /\ task = [r \in RunIds |-> "none"]
  /\ tool = [r \in RunIds |-> "none"]
  /\ question = [r \in RunIds |-> "none"]
  /\ waiter = [r \in RunIds |-> FALSE]
  /\ got = [m \in Msgs |-> {}]
  /\ held = FALSE
  /\ stops = 0
  /\ crashes = 0

-----------------------------------------------------------------------------
(* Helpers over run rows.                                                    *)

Latest(S) == CHOOSE r \in S : \A q \in S : q <= r
WithStatus(st, S) == {r \in RunIds : st[r] \in S}
BusyRuns(st) == WithStatus(st, Busy)

(* Mutant of BotAfterFinish: an unknown run is taken for a failed one. *)
BotAfterFinishNoUnknown(st, r, o) ==
  IF BusyRuns(st) \ {r} # {} THEN "running"
  ELSE IF o \in {"completed", "cancelled"} THEN "idle" ELSE "error"

(* bots.status after a run r was written as o (finish_turn). *)
BotAfterFinish(st, r, o) ==
  IF BusyRuns(st) \ {r} # {} \/ o = "unknown" THEN "running"
  ELSE IF o \in {"completed", "cancelled"} THEN "idle" ELSE "error"

(* Mutants of SkipFinish: the status, or the recovery mark, is not looked at. *)
SkipFinishOverStop(r, o) ==
  \/ recovered[r] /\ o # "cancelled"
  \/ runStatus[r] = "unknown" /\ o = "unknown"

SkipFinishOverRecovery(r, o) ==
  \/ runStatus[r] = "cancelled" /\ o # "cancelled"
  \/ runStatus[r] = "unknown" /\ o = "unknown"

(* finish_turn ignores a late result of a stopped or recovered run. *)
SkipFinish(r, o) ==
  \/ recovered[r] /\ o # "cancelled"
  \/ runStatus[r] = "cancelled" /\ o # "cancelled"
  \/ runStatus[r] = "unknown" /\ o = "unknown"

FinishTurn(r, o) ==
  IF SkipFinish(r, o)
  THEN UNCHANGED <<runStatus, botStatus>>
  ELSE /\ runStatus' = [runStatus EXCEPT ![r] = o]
       /\ botStatus' = BotAfterFinish(runStatus', r, o)

(* The turn task must not finish a run whose wait outlived a restart. *)
LeaveParkedWait(r) ==
  /\ runStatus[r] \in ParkedWait
  /\ recovered[r] \/ runStatus[r] = "waiting_recovery"

WaitingTakeover(st) == WithStatus(st, {"waiting_takeover"})

(* _accept_turn: a new send ends the run that waits for takeover. *)
StopTakeover(st) ==
  IF WaitingTakeover(st) = {} THEN st
  ELSE [st EXCEPT ![Latest(WaitingTakeover(st))] = "cancelled"]

Superseded == {"waiting_takeover", "waiting_recovery", "unknown"}

(* The run a send queues behind, or NoRun when the send starts a run. *)
ActiveRun(st) ==
  IF BusyRuns(st) = {} \/ st[Latest(BusyRuns(st))] \in Superseded
  THEN NoRun ELSE Latest(BusyRuns(st))

(* Mutant of Supersede: the parked run stays as it is. *)
SupersedeNothing(st) == st

(* A send that starts a run cancels the parked run it supersedes. *)
Supersede(st) ==
  IF BusyRuns(st) # {} /\ st[Latest(BusyRuns(st))] \in Superseded
  THEN [st EXCEPT ![Latest(BusyRuns(st))] = "cancelled"] ELSE st

PendingAsks == {r \in RunIds : ask[r] = "pending"}

(* answer_pending_asks: a plain send answers the newest open question card. *)
AnswerPendingAsks ==
  ask' = IF PendingAsks = {} THEN ask
         ELSE [ask EXCEPT ![Latest(PendingAsks)] = "answered"]

(* mark_run_running and mark_run_waiting_input, with the bot's status. *)
MarkRunning(r) ==
  IF runStatus[r] \in {"waiting_input", "waiting_takeover"}
  THEN /\ runStatus' = [runStatus EXCEPT ![r] = "running"]
       /\ botStatus' = "running"
  ELSE UNCHANGED <<runStatus, botStatus>>

MarkWaitingInput(r) ==
  IF runStatus[r] = "running"
  THEN /\ runStatus' = [runStatus EXCEPT ![r] = "waiting_input"]
       /\ botStatus' = "waiting_input"
  ELSE UNCHANGED <<runStatus, botStatus>>

(* complete_parked_run and fail_parked_run, which overlook unknown runs. *)
EndParked(r, o) ==
  /\ runStatus' = [runStatus EXCEPT ![r] = o]
  /\ botStatus' = IF BusyRuns(runStatus) \ ({r} \cup WithStatus(runStatus, {"unknown"})) # {}
                  THEN botStatus
                  ELSE IF o = "failed" THEN "error" ELSE "idle"

Hand(ms, r) == [m \in Msgs |-> IF m \in ms THEN got[m] \cup {r} ELSE got[m]]

LoopFree == \A p \in Posts : req[p].pc \notin {"begun", "claimed"}
Up == phase = "up" /\ LoopFree

-----------------------------------------------------------------------------
(* Owner sends.                                                              *)

(* send_thread_message: a known command is replayed; if its dispatch is  *)
(* still pending the retry claims it and then awaits _ensure_agent.      *)
SendCommand(p, c) ==
  /\ Up
  /\ req[p].pc = "idle"
  /\ \/ /\ cmdRun[c] = NoRun
        /\ req' = [req EXCEPT ![p] = [Idle EXCEPT !.pc = "accept", !.msg = c]]
        /\ UNCHANGED dispatch
     \/ /\ cmdRun[c] # NoRun
        /\ c \notin inbox
        /\ dispatch[cmdRun[c]] = "pending"
        /\ dispatch' = [dispatch EXCEPT ![cmdRun[c]] = "claimed"]
        /\ req' = [req EXCEPT ![p] = [pc |-> "resume", msg |-> c, run |-> cmdRun[c],
                                      fresh |-> FALSE]]
  /\ UNCHANGED <<runCount, runStatus, cmdRun, posted, inbox, waitKind, recovered, ask,
                 consentReq, botStatus, phase, todo, bootKick, task, tool, question,
                 waiter, history>>

(* follow_up_thread_message and other sends that carry no command id. *)
SendNote(p, n) ==
  /\ Up
  /\ req[p].pc = "idle"
  /\ n \notin posted
  /\ \A q \in Posts : req[q].msg # n
  /\ req' = [req EXCEPT ![p] = [Idle EXCEPT !.pc = "accept", !.msg = n]]
  /\ UNCHANGED <<durable, phase, todo, bootKick, task, tool, question, waiter, history>>

(* begin_or_enqueue_turn finds the command already recorded. *)
BeginReplayed(p) ==
  LET m == req[p].msg
      st == StopTakeover(runStatus) IN
  /\ Up
  /\ req[p].pc = "accept"
  /\ m \in Commands /\ cmdRun[m] # NoRun
  /\ runStatus' = st
  /\ botStatus' = IF st = runStatus THEN botStatus
                  ELSE BotAfterFinish(st, NoRun, "cancelled")
  /\ req' = [req EXCEPT ![p] = IF m \in inbox THEN Idle
                               ELSE [@ EXCEPT !.pc = "begun", !.run = cmdRun[m]]]
  /\ UNCHANGED <<runCount, dispatch, cmdRun, posted, inbox, waitKind, recovered, ask,
                 consentReq, phase, todo, bootKick, task, tool, question, waiter, history>>

NewMessage(m) == m \in Commands => cmdRun[m] = NoRun

RecordCommand(m, r) ==
  cmdRun' = IF m \in Commands THEN [cmdRun EXCEPT ![m] = r] ELSE cmdRun

(* begin_or_enqueue_turn queues behind the active run, or refuses a full inbox. *)
BeginQueued(p) ==
  LET m == req[p].msg
      st == StopTakeover(runStatus) IN
  /\ Up
  /\ req[p].pc = "accept"
  /\ NewMessage(m)
  /\ ActiveRun(st) # NoRun
  /\ runStatus' = st
  /\ botStatus' = IF st = runStatus THEN botStatus ELSE "running"
  /\ req' = [req EXCEPT ![p] = Idle]
  /\ IF Cardinality(inbox) >= MaxInbox
     THEN UNCHANGED <<inbox, posted, cmdRun, ask>>
     ELSE /\ inbox' = inbox \cup {m}
          /\ posted' = posted \cup {m}
          /\ RecordCommand(m, ActiveRun(st))
          /\ AnswerPendingAsks
  /\ UNCHANGED <<runCount, dispatch, waitKind, recovered, consentReq, phase, todo, bootKick,
                 task, tool, question, waiter, history>>

(* begin_or_enqueue_turn starts a run: message, run, command and the pending *)
(* dispatch row are one transaction.                                         *)
BeginCreated(p) ==
  LET m == req[p].msg
      st == StopTakeover(runStatus)
      r == runCount + 1 IN
  /\ Up
  /\ req[p].pc = "accept"
  /\ NewMessage(m)
  /\ ActiveRun(st) = NoRun
  /\ runCount < MaxRuns
  /\ runCount' = r
  /\ runStatus' = [Supersede(st) EXCEPT ![r] = "running"]
  /\ botStatus' = "running"
  /\ posted' = posted \cup {m}
  /\ RecordCommand(m, r)
  /\ dispatch' = [dispatch EXCEPT ![r] = "pending"]
  /\ AnswerPendingAsks
  /\ req' = [req EXCEPT ![p] = [pc |-> "begun", msg |-> m, run |-> r, fresh |-> TRUE]]
  /\ held' = FALSE
  /\ UNCHANGED <<inbox, waitKind, recovered, consentReq, phase, todo, bootKick, task, tool,
                 question, waiter, got, stops, crashes>>

(* Mutant of ClaimDispatch: the claim is not conditional. *)
ClaimDispatchAgain(p) ==
  /\ phase = "up"
  /\ req[p].pc = "begun"
  /\ dispatch' = [dispatch EXCEPT ![req[p].run] = "claimed"]
  /\ req' = [req EXCEPT ![p].pc = "claimed"]
  /\ UNCHANGED <<runCount, runStatus, cmdRun, posted, inbox, waitKind, recovered, ask,
                 consentReq, botStatus, phase, todo, bootKick, task, tool, question,
                 waiter, history>>

(* claim_turn_dispatch: pending to claimed, or the handler returns. *)
ClaimDispatch(p) ==
  /\ phase = "up"
  /\ req[p].pc = "begun"
  /\ IF dispatch[req[p].run] = "pending"
     THEN /\ dispatch' = [dispatch EXCEPT ![req[p].run] = "claimed"]
          /\ req' = [req EXCEPT ![p].pc = "claimed"]
     ELSE /\ req' = [req EXCEPT ![p] = Idle]
          /\ UNCHANGED dispatch
  /\ UNCHANGED <<runCount, runStatus, cmdRun, posted, inbox, waitKind, recovered, ask,
                 consentReq, botStatus, phase, todo, bootKick, task, tool, question,
                 waiter, history>>

(* Mutant of StartClaimedTurn: the drained messages are not put in the prompt. *)
StartClaimedTurnDrops(p) ==
  /\ phase = "up"
  /\ req[p].pc = "claimed"
  /\ inbox' = IF req[p].fresh THEN {} ELSE inbox
  /\ got' = Hand({req[p].msg}, req[p].run)
  /\ task' = [task EXCEPT ![req[p].run] = "live"]
  /\ req' = [req EXCEPT ![p] = Idle]
  /\ UNCHANGED <<runCount, runStatus, dispatch, cmdRun, posted, waitKind, recovered, ask,
                 consentReq, botStatus, phase, todo, bootKick, tool, question, waiter,
                 held, stops, crashes>>

(* A created run drains the inbox into its first prompt; then the task starts. *)
StartClaimedTurn(p) ==
  LET r == req[p].run
      ms == {req[p].msg} \cup (IF req[p].fresh THEN inbox ELSE {}) IN
  /\ phase = "up"
  /\ req[p].pc = "claimed"
  /\ inbox' = IF req[p].fresh THEN {} ELSE inbox
  /\ got' = Hand(ms, r)
  /\ task' = [task EXCEPT ![r] = "live"]
  /\ req' = [req EXCEPT ![p] = Idle]
  /\ UNCHANGED <<runCount, runStatus, dispatch, cmdRun, posted, waitKind, recovered, ask,
                 consentReq, botStatus, phase, todo, bootKick, tool, question, waiter,
                 held, stops, crashes>>

(* _resume_pending_command_dispatch, after its await. *)
ResumePendingDispatch(p) ==
  /\ Up
  /\ req[p].pc = "resume"
  /\ got' = Hand({req[p].msg}, req[p].run)
  /\ task' = [task EXCEPT ![req[p].run] = "live"]
  /\ req' = [req EXCEPT ![p] = Idle]
  /\ UNCHANGED <<durable, phase, todo, bootKick, tool, question, waiter, held, stops, crashes>>

(* _ensure_agent raises: the request fails where it awaits. *)
AgentFails(p) ==
  /\ "agent" \in Faults
  /\ Up
  /\ req[p].pc \in {"accept", "resume", "kick"}
  /\ req' = [req EXCEPT ![p] = Idle]
  /\ UNCHANGED <<durable, phase, todo, bootKick, task, tool, question, waiter, history>>

-----------------------------------------------------------------------------
(* The inbox follow-up.                                                      *)

(* claim_inbox_follow_up: only without a busy run, a new run takes the whole *)
(* inbox and the queued commands point to it.  rest is task without the      *)
(* caller that kicks.                                                        *)
ClaimInboxFollowUp(rest) ==
  LET r == runCount + 1 IN
  IF BusyRuns(runStatus) = {} /\ inbox # {}
  THEN /\ runCount < MaxRuns
       /\ runCount' = r
       /\ runStatus' = [runStatus EXCEPT ![r] = "running"]
       /\ botStatus' = "running"
       /\ cmdRun' = [c \in Commands |-> IF c \in inbox THEN r ELSE cmdRun[c]]
       /\ got' = Hand(inbox, r)
       /\ inbox' = {}
       /\ task' = [rest EXCEPT ![r] = "live"]
       /\ held' = FALSE
  ELSE /\ task' = rest
       /\ UNCHANGED <<runCount, runStatus, botStatus, cmdRun, got, inbox, held>>

(* _kick_inbox at the end of _run_turn. *)
KickAfterTurn(r) ==
  /\ Up
  /\ task[r] = "kick"
  /\ ClaimInboxFollowUp([task EXCEPT ![r] = "none"])
  /\ UNCHANGED <<dispatch, posted, waitKind, recovered, ask, consentReq, phase, todo,
                 bootKick, req, tool, question, waiter, stops, crashes>>

(* _kick_inbox of the boot. *)
KickAfterBoot ==
  /\ Up
  /\ bootKick
  /\ bootKick' = FALSE
  /\ ClaimInboxFollowUp(task)
  /\ UNCHANGED <<dispatch, posted, waitKind, recovered, ask, consentReq, phase, todo, req,
                 tool, question, waiter, stops, crashes>>

(* _kick_inbox of resume_parked_consent_deny. *)
KickAfterDeny(p) ==
  /\ Up
  /\ req[p].pc = "kick"
  /\ req' = [req EXCEPT ![p] = Idle]
  /\ ClaimInboxFollowUp(task)
  /\ UNCHANGED <<dispatch, posted, waitKind, recovered, ask, consentReq, phase, todo,
                 bootKick, tool, question, waiter, stops, crashes>>

(* _kick_inbox logs the failure of its own _ensure_agent and returns: the *)
(* inbox stays as it is.                                                  *)
KickFails(r) ==
  /\ "agent" \in Faults
  /\ Up
  /\ \/ task[r] = "kick" /\ task' = [task EXCEPT ![r] = "none"] /\ UNCHANGED bootKick
     \/ bootKick /\ bootKick' = FALSE /\ UNCHANGED task
  /\ UNCHANGED <<durable, phase, todo, req, tool, question, waiter, history>>

-----------------------------------------------------------------------------
(* The turn task.                                                            *)

TaskUnchanged == UNCHANGED <<runCount, dispatch, cmdRun, posted, inbox, waitKind, recovered,
                             ask, consentReq, phase, todo, bootKick, req, tool, question,
                             waiter, history>>

(* Mutant of TurnEnds: the turn returns without a kick. *)
TurnEndsNoKick(r, o) ==
  /\ Up
  /\ task[r] = "live"
  /\ tool[r] = "none" \/ ("midtool" \in Faults /\ o # "completed")
  /\ task' = [task EXCEPT ![r] = "none"]
  /\ IF LeaveParkedWait(r) THEN UNCHANGED <<runStatus, botStatus>> ELSE FinishTurn(r, o)
  /\ TaskUnchanged

(* _run_turn after the stream ended with outcome o.  A turn that is not     *)
(* cancelled or unknown goes on to kick the inbox.                          *)
TurnEnds(r, o) ==
  /\ Up
  /\ task[r] = "live"
  /\ tool[r] = "none" \/ ("midtool" \in Faults /\ o # "completed")
  /\ IF LeaveParkedWait(r)
     THEN /\ task' = [task EXCEPT ![r] = "none"]
          /\ UNCHANGED <<runStatus, botStatus>>
     ELSE /\ FinishTurn(r, o)
          /\ task' = [task EXCEPT ![r] = IF o = "unknown" \/ runStatus'[r] = "cancelled"
                                         THEN "none" ELSE "kick"]
  /\ TaskUnchanged

(* _run_turn on CancelledError.  A run parked for takeover or for recovery *)
(* stays parked.                                                           *)
TurnUnwinds(r) ==
  /\ phase \in {"up", "stopping"} /\ LoopFree
  /\ task[r] \in {"cancelling", "stopped"}
  /\ task' = [task EXCEPT ![r] = "none"]
  /\ IF \/ WaitingTakeover(runStatus) # {} /\ Latest(WaitingTakeover(runStatus)) = r
        \/ LeaveParkedWait(r)
     THEN UNCHANGED <<runStatus, botStatus>>
     ELSE FinishTurn(r, "cancelled")
  /\ TaskUnchanged

(* A turn of the previous process ends after the next one recovered its run. *)
(* Bound: that process exits while its _kick_inbox awaits _ensure_agent.     *)
DyingTurnEnds(r, o) ==
  /\ phase = "up" /\ LoopFree
  /\ task[r] = "dying"
  /\ task' = [task EXCEPT ![r] = "none"]
  /\ IF LeaveParkedWait(r) THEN UNCHANGED <<runStatus, botStatus>> ELSE FinishTurn(r, o)
  /\ TaskUnchanged

-----------------------------------------------------------------------------
(* Tools of the lead, each on its own thread.                                *)

Alive == phase \in {"up", "stopping"}

(* is_run_cancelled, which ProductToolsCore.execute checks once, at its start. *)
TurnCancelled(r) ==
  \/ recovered[r]
  \/ runStatus[r] \notin {"running", "waiting_input", "waiting_takeover"}

ToolStarts(r) ==
  /\ Alive
  /\ task[r] = "live"
  /\ tool[r] = "none"
  /\ ~TurnCancelled(r)
  /\ tool' = [tool EXCEPT ![r] = "exec"]
  /\ UNCHANGED <<durable, phase, todo, bootKick, req, task, question, waiter, history>>

(* A tool that neither waits nor posts a question. *)
PlainTool(r) ==
  /\ "plain" \in Tools
  /\ Alive
  /\ tool[r] = "exec"
  /\ tool' = [tool EXCEPT ![r] = "steer"]
  /\ UNCHANGED <<durable, phase, todo, bootKick, req, task, question, waiter, history>>

(* send_message with options posts an open question card and goes on. *)
PostOptions(r) ==
  /\ "options" \in Tools
  /\ Alive
  /\ tool[r] = "exec"
  /\ ask' = [ask EXCEPT ![r] = "pending"]
  /\ tool' = [tool EXCEPT ![r] = "steer"]
  /\ UNCHANGED <<runCount, runStatus, dispatch, cmdRun, posted, inbox, waitKind, recovered,
                 consentReq, botStatus, phase, todo, bootKick, req, task, question, waiter,
                 history>>

(* _take_owner_steer resolves the bot through the turn contexts that are  *)
(* still set: this run's own, or the only other one.                      *)
ContextResolves(r) ==
  LET set == {q \in RunIds : task[q] \in {"live", "cancelling", "stopped"}}
  IN  r \in set \/ Cardinality(set) = 1

(* Mutant of TakeOwnerSteer: the rows are read and not deleted. *)
TakeOwnerSteerKeeps(r) ==
  /\ Alive
  /\ tool[r] = "steer"
  /\ tool' = [tool EXCEPT ![r] = "none"]
  /\ got' = Hand(inbox, r)
  /\ UNCHANGED <<durable, phase, todo, bootKick, req, task, question, waiter,
                 held, stops, crashes>>

(* Every lead tool returns through _take_owner_steer, which drains the inbox. *)
TakeOwnerSteer(r) ==
  /\ Alive
  /\ tool[r] = "steer"
  /\ tool' = [tool EXCEPT ![r] = "none"]
  /\ IF ContextResolves(r)
     THEN inbox' = {} /\ got' = Hand(inbox, r)
     ELSE UNCHANGED <<inbox, got>>
  /\ UNCHANGED <<runCount, runStatus, dispatch, cmdRun, posted, waitKind, recovered, ask,
                 consentReq, botStatus, phase, todo, bootKick, req, task, question, waiter,
                 held, stops, crashes>>

(* ask_user: begin_question and the card. *)
AskPost(r) ==
  /\ "ask" \in Tools
  /\ Alive
  /\ tool[r] = "exec"
  /\ question[r] = "none"
  /\ question' = [question EXCEPT ![r] = "open"]
  /\ ask' = [ask EXCEPT ![r] = "pending"]
  /\ tool' = [tool EXCEPT ![r] = "posted"]
  /\ UNCHANGED <<runCount, runStatus, dispatch, cmdRun, posted, inbox, waitKind, recovered,
                 consentReq, botStatus, phase, todo, bootKick, req, task, waiter, history>>

(* activate_question: park the run unless it was answered or stopped already. *)
AskActivate(r) ==
  /\ Alive
  /\ tool[r] = "posted"
  /\ IF question[r] = "open"
     THEN /\ MarkWaitingInput(r)
          /\ waitKind' = [waitKind EXCEPT ![r] = "ask"]
     ELSE UNCHANGED <<runStatus, botStatus, waitKind>>
  /\ IF question[r] = "cancelled"
     THEN /\ question' = [question EXCEPT ![r] = "none"]
          /\ tool' = [tool EXCEPT ![r] = "steer"]
     ELSE /\ tool' = [tool EXCEPT ![r] = "askWait"]
          /\ UNCHANGED question
  /\ UNCHANGED <<runCount, dispatch, cmdRun, posted, inbox, recovered, ask, consentReq,
                 phase, todo, bootKick, req, task, waiter, history>>

(* wait_question wakes for an answer or a cancel. *)
AskWakes(r) ==
  /\ Alive
  /\ tool[r] = "askWait"
  /\ question[r] \in {"answered", "cancelled"}
  /\ question' = [question EXCEPT ![r] = "none"]
  /\ tool' = [tool EXCEPT ![r] = "steer"]
  /\ UNCHANGED <<durable, phase, todo, bootKick, req, task, waiter, history>>

(* wait_question gives up after OWNER_QUESTION_WAIT and closes the card. *)
AskTimesOut(r) ==
  /\ Alive
  /\ tool[r] = "askWait"
  /\ question[r] = "open"
  /\ question' = [question EXCEPT ![r] = "none"]
  /\ ask' = [ask EXCEPT ![r] = "answered"]
  /\ MarkRunning(r)
  /\ tool' = [tool EXCEPT ![r] = "steer"]
  /\ UNCHANGED <<runCount, dispatch, cmdRun, posted, inbox, waitKind, recovered, consentReq,
                 phase, todo, bootKick, req, task, waiter, history>>

(* ConsentHub.offer stores the request and its card; one request per run is *)
(* the bound of this model.                                                 *)
ConsentOffer(r) ==
  /\ "consent" \in Tools
  /\ Alive
  /\ tool[r] = "exec"
  /\ consentReq[r] = "none"
  /\ consentReq' = [consentReq EXCEPT ![r] = "pending"]
  /\ tool' = [tool EXCEPT ![r] = "offered"]
  /\ UNCHANGED <<runCount, runStatus, dispatch, cmdRun, posted, inbox, waitKind, recovered,
                 ask, botStatus, phase, todo, bootKick, req, task, question, waiter, history>>

(* Mutant of ConsentWait: the run is parked before its waiter is registered. *)
ConsentWaitUnheard(r) ==
  /\ Alive
  /\ tool[r] = "offered"
  /\ MarkWaitingInput(r)
  /\ waitKind' = [waitKind EXCEPT ![r] = "consent"]
  /\ tool' = [tool EXCEPT ![r] = "consentWait"]
  /\ UNCHANGED <<runCount, dispatch, cmdRun, posted, inbox, recovered, ask, consentReq, phase,
                 todo, bootKick, req, task, question, waiter, history>>

(* Then the waiter is registered and the run parked, also when the owner *)
(* answered in between.                                                  *)
ConsentWait(r) ==
  /\ Alive
  /\ tool[r] = "offered"
  /\ waiter' = [waiter EXCEPT ![r] = TRUE]
  /\ MarkWaitingInput(r)
  /\ waitKind' = [waitKind EXCEPT ![r] = "consent"]
  /\ tool' = [tool EXCEPT ![r] = "consentWait"]
  /\ UNCHANGED <<runCount, dispatch, cmdRun, posted, inbox, recovered, ask, consentReq, phase,
                 todo, bootKick, req, task, question, history>>

(* require returns on a decision, or after WAIT_SECONDS: then the request *)
(* stays pending and its waiter registered.                               *)
ConsentReturns(r) ==
  /\ Alive
  /\ tool[r] = "consentWait"
  /\ MarkRunning(r)
  /\ tool' = [tool EXCEPT ![r] = "steer"]
  /\ UNCHANGED <<runCount, dispatch, cmdRun, posted, inbox, waitKind, recovered, ask,
                 consentReq, phase, todo, bootKick, req, task, question, waiter, history>>

(* request_takeover: mark_run_waiting_takeover has no status condition. *)
TakeoverMark(r) ==
  /\ "takeover" \in Tools
  /\ Alive
  /\ tool[r] = "exec"
  /\ runStatus' = [runStatus EXCEPT ![r] = "waiting_takeover"]
  /\ botStatus' = "waiting_takeover"
  /\ waitKind' = [waitKind EXCEPT ![r] = "takeover"]
  /\ tool' = [tool EXCEPT ![r] = "marked"]
  /\ UNCHANGED <<runCount, dispatch, cmdRun, posted, inbox, recovered, ask, consentReq,
                 phase, todo, bootKick, req, task, question, waiter, history>>

(* _handle_takeover_request cancels the turn task from the tool thread. *)
TakeoverCancelTask(r) ==
  /\ Alive
  /\ tool[r] = "marked"
  /\ task' = [task EXCEPT ![r] = IF @ = "live" THEN "cancelling" ELSE @]
  /\ tool' = [tool EXCEPT ![r] = "steer"]
  /\ UNCHANGED <<durable, phase, todo, bootKick, req, question, waiter, history>>

-----------------------------------------------------------------------------
(* The owner's answers.                                                      *)

(* answer_question while the asking tool waits: the card must still be open. *)
AnswerLive(r) ==
  /\ Up
  /\ question[r] = "open"
  /\ ask[r] = "pending"
  /\ ask' = [ask EXCEPT ![r] = "answered"]
  /\ question' = [question EXCEPT ![r] = "answered"]
  /\ MarkRunning(r)
  /\ UNCHANGED <<runCount, dispatch, cmdRun, posted, inbox, waitKind, recovered, consentReq,
                 phase, todo, bootKick, req, task, tool, waiter, history>>

(* A question or consent that outlived the process is one _answer_parked_question *)
(* or answer_consent finds in waiting_input with no waiter in memory.             *)
ParkedQuestion(r) ==
  /\ question[r] = "none"
  /\ waitKind[r] = "ask"
  /\ runStatus[r] = "waiting_input"
  /\ ask[r] = "pending"

(* answer_thread_question on a parked question: resume_parked_follow_up *)
(* completes the run and sends the continuation through _accept_turn.   *)
AnswerParked(p, r) ==
  /\ Up
  /\ req[p].pc = "idle"
  /\ ParkedQuestion(r)
  /\ ask' = [ask EXCEPT ![r] = "answered"]
  /\ EndParked(r, "completed")
  /\ req' = [req EXCEPT ![p] = [Idle EXCEPT !.pc = "accept", !.msg = r]]
  /\ UNCHANGED <<runCount, dispatch, cmdRun, posted, inbox, waitKind, recovered, consentReq,
                 phase, todo, bootKick, task, tool, question, waiter, history>>

(* ConsentHub.answer with a waiter, or for a run that no longer waits. *)
AnswerConsentLive(r, d) ==
  /\ Up
  /\ consentReq[r] = "pending"
  /\ waiter[r] \/ runStatus[r] # "waiting_input"
  /\ consentReq' = [consentReq EXCEPT ![r] = d]
  /\ waiter' = [waiter EXCEPT ![r] = FALSE]
  /\ UNCHANGED <<runCount, runStatus, dispatch, cmdRun, posted, inbox, waitKind, recovered,
                 ask, botStatus, phase, todo, bootKick, req, task, tool, question, history>>

(* answer_consent on a parked request: Allow continues, Deny fails the run *)
(* and kicks the inbox.                                                    *)
AnswerConsentParked(p, r, d) ==
  /\ Up
  /\ req[p].pc = "idle"
  /\ consentReq[r] = "pending"
  /\ ~waiter[r] /\ runStatus[r] = "waiting_input"
  /\ consentReq' = [consentReq EXCEPT ![r] = d]
  /\ EndParked(r, IF d = "allow" THEN "completed" ELSE "failed")
  /\ req' = [req EXCEPT ![p] = IF d = "allow" THEN [Idle EXCEPT !.pc = "accept", !.msg = r]
                               ELSE [Idle EXCEPT !.pc = "kick"]]
  /\ UNCHANGED <<runCount, dispatch, cmdRun, posted, inbox, waitKind, recovered, ask, phase,
                 todo, bootKick, task, tool, question, waiter, history>>

(* recover_thread_run: the owner starts a new attempt from the recovery card. *)
NewAttempt(r) ==
  /\ Up
  /\ runStatus[r] = "waiting_recovery"
  /\ EndParked(r, "cancelled")
  /\ held' = TRUE
  /\ UNCHANGED <<runCount, dispatch, cmdRun, posted, inbox, waitKind, recovered, ask,
                 consentReq, volatile, got, stops, crashes>>

(* computer_release: _resume_parked_takeover marks the run running; register_turn *)
(* drops the new task when the old one is still registered.  Bound: a task that   *)
(* Stop took out of the registry has unwound before the owner releases.           *)
ReleaseTakeover ==
  /\ Up
  /\ WaitingTakeover(runStatus) # {}
  /\ LET r == Latest(WaitingTakeover(runStatus)) IN
     /\ task[r] # "stopped"
     /\ MarkRunning(r)
     /\ task' = [task EXCEPT ![r] = IF @ = "none" THEN "live" ELSE @]
  /\ UNCHANGED <<runCount, dispatch, cmdRun, posted, inbox, waitKind, recovered, ask,
                 consentReq, phase, todo, bootKick, req, tool, question, waiter, history>>

(* stop_thread: cancel every busy run, wake its question, cancel the registered *)
(* tasks.  Inbox, dispatch rows and consent requests stay as they are.          *)
Stop ==
  /\ Up
  /\ stops < MaxStops
  /\ runStatus' = [r \in RunIds |-> IF runStatus[r] \in Busy THEN "cancelled" ELSE runStatus[r]]
  /\ botStatus' = "idle"
  /\ question' = [r \in RunIds |-> IF question[r] # "none" /\ runStatus[r] \in Busy
                                   THEN "cancelled" ELSE question[r]]
  /\ task' = [r \in RunIds |-> IF task[r] \in {"live", "cancelling"} THEN "stopped" ELSE task[r]]
  /\ held' = TRUE
  /\ stops' = stops + 1
  /\ UNCHANGED <<runCount, dispatch, cmdRun, posted, inbox, waitKind, recovered, ask,
                 consentReq, phase, todo, bootKick, req, tool, waiter, got, crashes>>

-----------------------------------------------------------------------------
(* Process exit and boot.                                                    *)

(* _shutdown_work cancels the turn tasks and waits for them. *)
Shutdown ==
  /\ "shutdown" \in Faults
  /\ Up
  /\ crashes < MaxCrashes
  /\ phase' = "stopping"
  /\ task' = [r \in RunIds |-> IF task[r] = "live" THEN "cancelling" ELSE task[r]]
  /\ UNCHANGED <<durable, todo, bootKick, req, tool, question, waiter, history>>

(* The process ends, at any point: what it held in memory is gone. *)
ProcessEnds ==
  /\ phase # "down"
  /\ crashes < MaxCrashes
  /\ crashes' = crashes + 1
  /\ phase' = "down"
  /\ todo' = {}
  /\ bootKick' = FALSE
  /\ req' = [p \in Posts |-> Idle]
  /\ task' = [r \in RunIds |-> IF task[r] = "live" /\ "overlap" \in Faults
                               THEN "dying" ELSE "none"]
  /\ tool' = [r \in RunIds |-> "none"]
  /\ question' = [r \in RunIds |-> "none"]
  /\ waiter' = [r \in RunIds |-> FALSE]
  /\ UNCHANGED <<durable, got, held, stops>>

(* Mutant of BootStarts: a claimed dispatch is left alone as well. *)
BootStartsSkipsClaimed ==
  /\ phase = "down"
  /\ phase' = "boot"
  /\ todo' = {r \in RunIds : /\ runStatus[r] \in {"running", "waiting_input", "waiting_takeover"}
                             /\ dispatch[r] = "none"}
  /\ UNCHANGED <<durable, bootKick, req, task, tool, question, waiter, history>>

(* recover_orphaned_runs reads the leftover runs; a pending dispatch is left *)
(* to the client's retry.                                                    *)
BootStarts ==
  /\ phase = "down"
  /\ phase' = "boot"
  /\ todo' = {r \in RunIds : /\ runStatus[r] \in {"running", "waiting_input", "waiting_takeover"}
                             /\ dispatch[r] # "pending"}
  /\ UNCHANGED <<durable, bootKick, req, task, tool, question, waiter, history>>

(* _classify_orphan *)
ClassifyOrphan(r) ==
  IF runStatus[r] = "waiting_takeover" THEN "takeover"
  ELSE IF consentReq[r] = "pending" THEN "consent"
  ELSE IF ask[r] = "pending" THEN "ask" ELSE "running"

(* One pass of the recovery loop: a wait that can continue keeps its status, *)
(* any other run is parked behind a recovery card.                           *)
RecoverRun(r) ==
  /\ phase = "boot"
  /\ r \in todo
  /\ todo' = todo \ {r}
  /\ waitKind' = [waitKind EXCEPT ![r] = ClassifyOrphan(r)]
  /\ recovered' = [recovered EXCEPT ![r] = TRUE]
  /\ IF ClassifyOrphan(r) \in {"consent", "ask"}
     THEN UNCHANGED <<runStatus, botStatus>>
     ELSE /\ runStatus' = [runStatus EXCEPT ![r] = "waiting_recovery"]
          /\ botStatus' = "waiting_input"
  /\ UNCHANGED <<runCount, dispatch, cmdRun, posted, inbox, ask, consentReq, phase, bootKick,
                 req, task, tool, question, waiter, history>>

(* Mutant of BootEnds: the boot does not look at the inbox. *)
BootEndsNoKick ==
  /\ phase = "boot"
  /\ todo = {}
  /\ phase' = "up"
  /\ bootKick' = FALSE
  /\ UNCHANGED <<durable, todo, req, task, tool, question, waiter, history>>

(* Recovery is done; the lifespan goes on to kick the inbox. *)
BootEnds ==
  /\ phase = "boot"
  /\ todo = {}
  /\ phase' = "up"
  /\ bootKick' = TRUE
  /\ UNCHANGED <<durable, todo, req, task, tool, question, waiter, history>>

-----------------------------------------------------------------------------
Host ==
  \/ \E p \in Posts :
       \/ BeginReplayed(p) \/ BeginQueued(p) \/ BeginCreated(p)
       \/ ClaimDispatch(p) \/ StartClaimedTurn(p) \/ ResumePendingDispatch(p)
       \/ AgentFails(p) \/ KickAfterDeny(p)
  \/ KickAfterBoot
  \/ \E r \in RunIds :
       \/ KickAfterTurn(r) \/ KickFails(r) \/ TurnUnwinds(r)
       \/ \E o \in Outcomes : TurnEnds(r, o) \/ DyingTurnEnds(r, o)
       \/ RecoverRun(r)
  \/ BootStarts \/ BootEnds

Tool(r) ==
  \/ ToolStarts(r) \/ PlainTool(r) \/ PostOptions(r) \/ TakeOwnerSteer(r)
  \/ AskPost(r) \/ AskActivate(r) \/ AskWakes(r) \/ AskTimesOut(r)
  \/ ConsentOffer(r) \/ ConsentWait(r) \/ ConsentReturns(r)
  \/ TakeoverMark(r) \/ TakeoverCancelTask(r)

Owner ==
  \/ \E p \in Posts :
       \/ \E c \in Commands : SendCommand(p, c)
       \/ \E n \in Notes : SendNote(p, n)
       \/ \E r \in RunIds : AnswerParked(p, r)
       \/ \E r \in RunIds, d \in {"allow", "deny"} : AnswerConsentParked(p, r, d)
  \/ \E r \in RunIds :
       \/ AnswerLive(r) \/ NewAttempt(r)
       \/ \E d \in {"allow", "deny"} : AnswerConsentLive(r, d)
  \/ ReleaseTakeover \/ Stop

Exit == Shutdown \/ ProcessEnds

Next == Host \/ (\E r \in RunIds : Tool(r)) \/ Owner \/ Exit

Spec == Init /\ [][Next]_vars

-----------------------------------------------------------------------------
(* Properties.                                                               *)

(* At most one run of the bot is busy (begin_or_enqueue_turn: "Atomically   *)
(* start a lead turn or queue behind the current lead").                    *)
OneBusyRun == \A q, r \in BusyRuns(runStatus) : q = r

(* A task drives the bot unless its own takeover request is about to cancel it. *)
Drives(r) == task[r] = "live" /\ tool[r] # "marked"

(* At most one turn task drives the bot, and its run is busy: neither a retry, *)
(* a restart nor Stop leaves a turn working on a run that is over.             *)
OneLiveTurn ==
  /\ \A q, r \in RunIds : Drives(q) /\ Drives(r) => q = r
  /\ \A r \in RunIds : Drives(r) => runStatus[r] \in Busy

(* A retried command never reaches two runs, and never the same model twice. *)
HandedOnce == \A m \in Msgs : Cardinality(got[m]) <= 1

(* A queued message waits behind a busy run, or its follow-up is on the way, *)
(* or the owner pressed Stop and has not sent since.                         *)
NoStrandedInbox ==
  phase = "up" /\ inbox # {} =>
    \/ BusyRuns(runStatus) # {} \/ held \/ bootKick
    \/ \E r \in RunIds : task[r] = "kick"
    \/ \E p \in Posts : req[p].pc \in {"accept", "kick"}

(* With the host up, a run in status running is being driven: by a task, by a *)
(* request that is about to start it, or by the retry of its own command.     *)
RunningHasDriver ==
  phase = "up" =>
    \A r \in RunIds : runStatus[r] = "running" =>
      \/ task[r] \in {"live", "cancelling"}
      \/ \E p \in Posts : req[p].run = r
      \/ dispatch[r] = "pending" /\ \E c \in Commands : cmdRun[c] = r

(* bots.status says idle or error only when no run is busy. *)
BotStatusAgrees == botStatus \in {"idle", "error"} => BusyRuns(runStatus) = {}

(* Stop keeps the run cancelled. *)
StopIsFinal ==
  [][\A r \in RunIds : runStatus[r] = "cancelled" => runStatus'[r] = "cancelled"]_vars

(* A message leaves the inbox only into the prompt or the tool result of a *)
(* turn that is still live.                                                *)
InboxGoesToLiveTurn ==
  [][\A m \in inbox \ inbox' : \E r \in got'[m] : task'[r] = "live"]_vars

(* After recovery a run changes only by a cancel, by another recovery or in  *)
(* the step that answers its question: a late result of the dying process    *)
(* cannot complete it.                                                       *)
NoLateCompletion ==
  [][\A r \in RunIds : recovered[r] /\ runStatus'[r] # runStatus[r] =>
       \/ runStatus'[r] \in {"cancelled", "waiting_recovery"}
       \/ <<ask[r], consentReq[r]>> # <<ask'[r], consentReq'[r]>>]_vars

(* A run that waits for input after a restart still has a card whose answer *)
(* resumes it.                                                              *)
ParkedAnswerable ==
  phase = "up" =>
    \A r \in RunIds :
      runStatus[r] = "waiting_input" /\ recovered[r] =>
        ParkedQuestion(r) \/ consentReq[r] = "pending"

-----------------------------------------------------------------------------
(* The parts of the inductive invariant.  Where nothing ends a turn under the *)
(* takeover tool they hold in every reachable state and carry the proofs of   *)
(* TurnsProofs.                                                               *)

Starting(p, r) == req[p].pc \in {"claimed", "resume"} /\ req[p].run = r

(* Run ids are taken in order: nothing is stored for an id not yet inserted. *)
RowsInserted ==
  \A r \in RunIds : r > runCount =>
    /\ runStatus[r] = "none" /\ dispatch[r] = "none" /\ consentReq[r] = "none"
    /\ task[r] = "none" /\ tool[r] = "none" /\ ~recovered[r]

(* The takeover tool marks the run of its own live turn, and only a running   *)
(* one; a run that waits for takeover is nobody else's, so that its release   *)
(* may give it back to a turn.                                                *)
TakeoverIsOwn ==
  \A r \in RunIds :
    /\ runStatus[r] = "waiting_takeover" \/ tool[r] = "marked" => "takeover" \in Tools
    /\ tool[r] = "marked" => task[r] = "live"
    /\ "takeover" \in Tools /\ tool[r] = "exec" => task[r] = "live" /\ runStatus[r] = "running"
    /\ runStatus[r] = "waiting_takeover" =>
         /\ ~recovered[r] /\ tool[r] \in {"none", "marked", "steer"}
         /\ phase = "boot" => r \in todo
    /\ runStatus[r] = "waiting_takeover" /\ phase = "up" =>
         /\ task[r] \in {"live", "cancelling", "none"}
         /\ consentReq[r] = "pending" => waiter[r]

(* A run whose dispatch is pending, or claimed by a request that has not yet *)
(* started the turn, is untouched: it runs or was stopped, and has no task.  *)
NotStarted ==
  \A r \in RunIds : dispatch[r] = "pending" \/ (\E p \in Posts : Starting(p, r)) =>
    /\ task[r] = "none" /\ tool[r] = "none" /\ consentReq[r] = "none"
    /\ ~recovered[r] /\ runStatus[r] \in {"running", "cancelled"}

(* One request at most is about to start a given run, and it holds the claim. *)
ClaimedOnce ==
  /\ \A p \in Posts, r \in RunIds : Starting(p, r) => dispatch[r] = "claimed"
  /\ \A p, q \in Posts, r \in RunIds : Starting(p, r) /\ Starting(q, r) => p = q

(* The run of a live turn task is running, stopped, or waits for the owner in *)
(* a tool of that very task, which holds the question or the consent waiter:  *)
(* nobody can answer it as a leftover of a restart.                           *)
LiveTurn ==
  \A r \in RunIds : task[r] = "live" =>
    /\ ~recovered[r]
    /\ runStatus[r] \in {"running", "waiting_input", "waiting_takeover", "cancelled"}
    /\ runStatus[r] = "waiting_takeover" => tool[r] = "marked"
    /\ runStatus[r] = "waiting_input" =>
         \/ tool[r] = "askWait" /\ question[r] = "open"
         \/ tool[r] = "consentWait" /\ waitKind[r] = "consent"
    /\ consentReq[r] = "pending" => waiter[r] \/ tool[r] = "offered"

(* A turn of the previous process works on a run that the boot has recovered, *)
(* will recover, or that the owner has stopped.                               *)
DyingTurn ==
  \A r \in RunIds : task[r] = "dying" =>
    \/ recovered[r] \/ runStatus[r] = "cancelled"
    \/ /\ runStatus[r] \in {"running", "waiting_input", "waiting_takeover"}
       /\ dispatch[r] # "pending"
       /\ phase = "down" \/ r \in todo

(* Nothing of the previous process is left in memory until the boot ends. *)
BootIsAlone ==
  phase \in {"down", "boot"} =>
    /\ \A p \in Posts : req[p].pc = "idle"
    /\ \A r \in RunIds : /\ task[r] \in {"none", "dying"} /\ tool[r] = "none"
                         /\ question[r] = "none"

Leftover ==
  \A r \in todo : /\ phase = "boot" /\ dispatch[r] # "pending"
                  /\ runStatus[r] \in {"running", "waiting_input", "waiting_takeover"}

(* A question in memory is one whose tool still waits for it; no tool of a     *)
(* recovered run is executing, so nothing waits for it in memory.             *)
RecoveredIsQuiet ==
  \A r \in RunIds :
    /\ question[r] # "none" => tool[r] \in {"posted", "askWait"}
    /\ recovered[r] => tool[r] = "none" /\ question[r] = "none"

(* A task that Stop took out of the registry works on a cancelled run; while *)
(* the host is up nothing else cancels a turn.                               *)
StoppedIsOver ==
  \A r \in RunIds : /\ task[r] = "stopped" => runStatus[r] = "cancelled"
                    /\ phase = "up" /\ task[r] = "cancelling" => "takeover" \in Tools

(* With the host up, a run that waits for input, or that runs with a tool of *)
(* its own executing, has its turn task, unless it was left by a restart.    *)
ParkedHasTurn ==
  phase = "up" => \A r \in RunIds :
    \/ runStatus[r] = "waiting_input"
    \/ runStatus[r] = "running" /\ tool[r] # "none"
    => recovered[r] \/ task[r] \in {"live", "cancelling"}

(* The boot still has to recover what it has not, or the command's retry will *)
(* start it.                                                                  *)
BootFinds ==
  phase = "boot" => \A r \in RunIds :
    runStatus[r] \in {"running", "waiting_input", "waiting_takeover"} =>
      r \in todo \/ recovered[r] \/ dispatch[r] = "pending"

(* Before the first Stop, a run that is to be started or has its task is busy. *)
StartedIsBusy ==
  stops = 0 => \A r \in RunIds :
    dispatch[r] = "pending" \/ (\E p \in Posts : Starting(p, r)) \/ Drives(r) =>
      runStatus[r] # "cancelled"

TurnFacts == StoppedIsOver /\ ParkedHasTurn /\ BootFinds /\ StartedIsBusy

(* Without failures of _ensure_agent: a running run has its task, is about to *)
(* be started, waits for its retry, or was left by a restart with an open     *)
(* card.                                                                      *)
Driven ==
  phase = "up" => \A r \in RunIds : runStatus[r] = "running" =>
    \/ task[r] \in {"live", "cancelling"} \/ dispatch[r] = "pending" \/ recovered[r]
    \/ \E p \in Posts : Starting(p, r)

(* NoStrandedInbox, with the requests that really look at the inbox: a        *)
(* continuation, which cannot be a replay, and the kick after Deny.           *)
InboxWatched ==
  phase = "up" /\ inbox # {} =>
    \/ BusyRuns(runStatus) # {} \/ held \/ bootKick
    \/ \E r \in RunIds : task[r] = "kick"
    \/ \E p \in Posts : \/ req[p].pc = "kick"
                        \/ req[p].pc = "accept" /\ req[p].msg \in RunIds

(* Where no tool waits for the owner and every message is a command: nothing *)
(* waits, only commands are sent, and a pending dispatch has its command.    *)
OnlyCommands ==
  /\ \A r \in RunIds : /\ runStatus[r] # "waiting_input" /\ ask[r] = "none"
                       /\ consentReq[r] = "none" /\ question[r] = "none"
                       /\ recovered[r] => runStatus[r] # "running"
                       /\ dispatch[r] = "pending" =>
                            \E c \in Commands : cmdRun[c] = r /\ c \notin inbox
                       /\ tool[r] \in {"none", "exec", "marked", "steer"}
  /\ \A p \in Posts : req[p].pc = "accept" => req[p].msg \in Commands
  /\ \A c \in Commands : c \in inbox => cmdRun[c] # NoRun

(* Where the runtime does not end a turn under a tool: before the first Stop  *)
(* a tool executes for a live turn, and never while a run is to be started.   *)
ToolHasTurn ==
  stops = 0 => \A r \in RunIds : tool[r] # "none" =>
    /\ task[r] = "live" \/ phase = "stopping"
    /\ \A q \in RunIds : /\ dispatch[q] # "pending"
                         /\ \A p \in Posts : ~Starting(p, q)

InFlight == {"begun", "claimed", "resume"}

(* A message was handed at most once, and not yet while it is queued, while   *)
(* the run it is to start has not started, or while it is not stored at all.  *)
UnseenUntilHanded ==
  /\ \A m \in Msgs : got[m] = {} \/ \E r \in RunIds : got[m] = {r}
  /\ \A m \in Msgs : m \in inbox => got[m] = {}
  /\ \A m \in Msgs : m \in inbox \/ got[m] # {} => m \in posted
  /\ \A c \in Commands : /\ cmdRun[c] = NoRun <=> c \notin posted
                         /\ cmdRun[c] <= runCount
                         /\ cmdRun[c] # NoRun /\ dispatch[cmdRun[c]] = "pending" =>
                              c \in inbox \/ got[c] = {}
  /\ \A p \in Posts :
       /\ req[p].pc \in InFlight =>
            /\ req[p].msg \notin inbox /\ req[p].msg \in posted
            /\ req[p].msg \in Commands => cmdRun[req[p].msg] = req[p].run
       /\ req[p].pc \in {"claimed", "resume"} => got[req[p].msg] = {}

(* A note and a continuation are in one request only, and are not stored     *)
(* before they are accepted.                                                 *)
SentOnce ==
  \A p \in Posts : req[p].pc \in InFlight \cup {"accept"} /\ req[p].msg \notin Commands =>
    /\ got[req[p].msg] = {}
    /\ req[p].pc = "accept" => req[p].msg \notin posted
    /\ \A q \in Posts : req[q].msg = req[p].msg => q = p

(* A run whose continuation was sent is over, and stays over because a restart *)
(* recovered it.                                                               *)
ContinuedIsOver ==
  \A r \in RunIds : r \in posted \/ (\E p \in Posts : req[p].msg = r) =>
    recovered[r] /\ runStatus[r] \in Ended

HandedFacts == stops = 0 => UnseenUntilHanded /\ SentOnce /\ ContinuedIsOver

(* The takeover tool writes its status without looking at the run: the         *)
(* invariants need that nothing ends a turn under that tool.                   *)
TakeoverIsAlone ==
  "takeover" \in Tools => MaxStops = 0 /\ Faults \cap {"midtool", "shutdown"} = {}

TurnInvariant ==
  /\ TypeOK /\ RowsInserted /\ TakeoverIsOwn /\ NotStarted /\ ClaimedOnce /\ LiveTurn
  /\ DyingTurn /\ BootIsAlone /\ Leftover /\ RecoveredIsQuiet /\ OneBusyRun
  /\ BotStatusAgrees

-----------------------------------------------------------------------------
(* Fairness: the event loop runs what is ready, the waits of the tools have *)
(* time limits, and the runtime ends every turn that is not inside a tool.  *)
RequestStep(p) ==
  \/ BeginReplayed(p) \/ BeginQueued(p) \/ BeginCreated(p) \/ ClaimDispatch(p)
  \/ StartClaimedTurn(p) \/ ResumePendingDispatch(p) \/ KickAfterDeny(p)

Fairness ==
  /\ \A p \in Posts : WF_vars(RequestStep(p))
  /\ \A r \in RunIds :
       /\ WF_vars(\E o \in Outcomes : TurnEnds(r, o))
       /\ WF_vars(TurnUnwinds(r))
       /\ WF_vars(KickAfterTurn(r))
       /\ WF_vars(RecoverRun(r))
       /\ WF_vars(Tool(r) /\ tool[r] # "none")
  /\ WF_vars(KickAfterBoot) /\ WF_vars(BootStarts) /\ WF_vars(BootEnds)

FairSpec == Spec /\ Fairness

(* The owner or the client has to act before the inbox can move: Stop was    *)
(* pressed, the outcome of the run is unknown, a restart left it parked, it  *)
(* waits for takeover, or its dispatch waits for the retry of the command.   *)
OwnerToAct ==
  \/ held
  \/ \E r \in BusyRuns(runStatus) :
       \/ recovered[r]
       \/ runStatus[r] = "unknown"
       \/ runStatus[r] = "waiting_takeover" /\ task[r] = "none"
       \/ dispatch[r] = "pending" /\ \A p \in Posts : req[p].run # r

(* Every queued message is handed to a turn: at the next tool, by the       *)
(* follow-up after the turn, or after the restart, unless the owner has to  *)
(* act first.                                                               *)
QueuedIsHanded == \A m \in Msgs : m \in inbox ~> (m \notin inbox \/ OwnerToAct)
=============================================================================
