------------------------------ MODULE Computer ------------------------------
(***************************************************************************)
(* The Team computer: its row in Postgres, the container behind it, the    *)
(* owner's control lease, and everybody who works on them at the same time *)
(* - the handlers of the event loop, the thread of send_input, the tool    *)
(* threads of the bots and the worker process.                             *)
(*                                                                         *)
(* A call of ComputerService reads the row once and works on that record   *)
(* (rec) to its end, so every call is a process with a program counter;    *)
(* the handlers share the process "loop" and never overlap.                *)
(***************************************************************************)
EXTENDS Integers, FiniteSets

CONSTANTS
  Bots,        \* bots in Team mode at the start
  MaxLeases,   \* bound: takeovers granted
  MaxBoxes,    \* bound: containers created
  MaxCalls,    \* bound: calls of ComputerService
  MaxEvents    \* bound: changes of runs, time, containers and modes around them

ASSUME ComputerAssumption ==
  /\ MaxLeases \in Nat /\ MaxBoxes \in Nat \ {0} /\ MaxCalls \in Nat /\ MaxEvents \in Nat
  /\ "loop" \notin Bots /\ "input" \notin Bots /\ "nobody" \notin Bots

Procs == Bots \cup {"loop", "input"}

VARIABLES
  comp,      \* the computers row
  team,      \* bots whose computer_id is that row
  botRun,    \* runs.status of each bot's run
  box,       \* the container with the computer's name: its id, whether it is
             \* up, and the lease whose token the control screen was opened with
  boxes,     \* containers created so far
  leases,    \* leases granted so far; lease ids are 1, 2, ...
  expired,   \* leases past control_lease_expires_at
  call,      \* what each process is doing
  calls,     \* calls started so far
  events,    \* changes around them so far
  dueList,   \* bots the worker will stop the computer for
  before     \* processes that read the row before the current lease was granted

computerVars ==
  <<comp, team, botRun, box, boxes, leases, expired, call, calls, events, dueList, before>>

NoBox == [id |-> 0, up |-> FALSE, token |-> 0]
Fresh == [state |-> "stopped", ref |-> 0, holder |-> "none", lease |-> 0, ctrl |-> "nobody",
          exec |-> "nobody", due |-> FALSE, quiet |-> FALSE]
BootedBy(b) == [Fresh EXCEPT !.state = "running", !.ref = 1, !.exec = b]
NoCall == [op |-> "none"]

Rows == [state : {"stopped", "booting", "running", "suspended", "error"}, ref : 0..MaxBoxes,
         holder : {"none", "bot", "user"}, lease : 0..MaxLeases, ctrl : Bots \cup {"nobody"},
         exec : Bots \cup {"nobody"}, due : BOOLEAN, quiet : BOOLEAN]

LoopOps == {"status", "boot", "stop", "restart", "reset", "takeover", "release", "screen", "delete"}
ToolOps == {"act", "observe", "close"}
IdleOps == {"status", "takeover", "screen", "input", "close"}

Calls == [op : LoopOps \cup ToolOps \cup {"input"}, bot : Bots,
          pc : {"read", "expire", "go", "boot", "provision", "provisioned", "booted", "clear", "save",
                "delete", "touch", "act"},
          rec : Rows, using : 0..MaxLeases]

(* The row, the container and the records in the threads are of their types, and the row *)
(* names a holder "user" exactly when it has a lease.                                    *)
ComputerTypeOK ==
  /\ comp \in Rows
  /\ comp.holder = "user" <=> comp.lease # 0
  /\ team \subseteq Bots
  /\ botRun \in [Bots -> {"none", "running", "waiting_input", "waiting_takeover"}]
  /\ box \in [id : 0..MaxBoxes, up : BOOLEAN, token : 0..MaxLeases]
  /\ boxes \in 0..MaxBoxes /\ leases \in 0..MaxLeases
  /\ expired \subseteq 1..leases
  /\ calls \in 0..MaxCalls /\ events \in 0..MaxEvents
  /\ call \in [Procs -> {NoCall} \cup Calls]
  /\ dueList \subseteq Bots /\ before \subseteq Procs

(* A new row, or a desktop that a bot has booted. *)
ComputerInit ==
  /\ \/ comp = Fresh /\ box = NoBox /\ boxes = 0
     \/ \E b \in Bots : comp = BootedBy(b) /\ box = [NoBox EXCEPT !.id = 1, !.up = TRUE] /\ boxes = 1
  /\ team = Bots
  /\ botRun = [b \in Bots |-> "none"]
  /\ leases = 0 /\ expired = {}
  /\ call = [p \in Procs |-> NoCall]
  /\ calls = 0 /\ events = 0
  /\ dueList = {}
  /\ before = {}

(***************************************************************************)
(* The store.                                                              *)
(***************************************************************************)

(* A mutant: the record's lease is written back where it has one. *)
SaveWithLease(rec) ==
  [comp EXCEPT !.state = rec.state, !.ref = rec.ref, !.exec = rec.exec, !.due = rec.due,
               !.lease = IF rec.lease # 0 THEN rec.lease ELSE @,
               !.holder = IF rec.lease # 0 THEN "user" ELSE @]

(* save_box_state writes the box and execution fields of the record; the control fields *)
(* of the row stay.                                                                     *)
SaveBoxState(rec) ==
  [comp EXCEPT !.state = rec.state, !.ref = rec.ref, !.exec = rec.exec, !.due = rec.due]

Uncontrolled(row, holder) ==
  [row EXCEPT !.holder = holder, !.lease = 0, !.ctrl = "nobody", !.quiet = FALSE]

(* clear_control_lease with a lease id: a row with another lease is left alone. *)
ClearControlLease(lease, holder) ==
  IF comp.lease = lease THEN Uncontrolled(comp, holder) ELSE comp

(* set_control_lease: the row must not have a holder. *)
SetControlLease(b) ==
  [comp EXCEPT !.holder = "user", !.lease = leases + 1, !.ctrl = b, !.quiet = FALSE]

(* busy_bot_name looks at the record it is given and at the runs. *)
Busy(rec, b) ==
  \/ /\ rec.state \in {"running", "booting"}
     /\ \/ rec.exec \notin {"nobody", b}
        \/ rec.ctrl \notin {"nobody", b} /\ rec.holder = "user"
  \/ rec.exec \notin {"nobody", b} /\ botRun[rec.exec] # "none"
  \/ \E o \in team \ {b} : botRun[o] \in {"running", "waiting_takeover"}

UserHasControl(rec) == rec.holder = "user" /\ rec.lease # 0 /\ rec.lease \notin expired

(***************************************************************************)
(* The supervisor.                                                         *)
(***************************************************************************)

BoxAlive(ref) == ref # 0 /\ box.id = ref /\ box.up

(* interactive_screen_command without interactive: the control screen goes, unless it *)
(* was opened with another token.                                                     *)
DropScreen(ref, lease) ==
  IF BoxAlive(ref) /\ box.token = lease THEN [box EXCEPT !.token = 0] ELSE box

(* _create finds the container by name and starts it, or creates one; a container of an *)
(* older image is replaced.                                                            *)
CreateBox ==
  \/ /\ box.id # 0
     /\ box' = [box EXCEPT !.up = TRUE]
     /\ UNCHANGED boxes
  \/ /\ boxes < MaxBoxes
     /\ boxes' = boxes + 1
     /\ box' = [id |-> boxes + 1, up |-> TRUE, token |-> 0]

(***************************************************************************)
(* The start of a call, and the expiry every call begins with.             *)
(***************************************************************************)

Start(p, op, b, lease) ==
  /\ call[p] = NoCall /\ calls < MaxCalls
  /\ b \in team
  /\ calls' = calls + 1
  /\ call' = [call EXCEPT ![p] = [op |-> op, bot |-> b, pc |-> "expire", rec |-> comp,
                                  using |-> lease]]
  /\ before' = before \ {p}
  /\ UNCHANGED <<comp, team, botRun, box, boxes, leases, expired, events>>

HandlerCalled(op, b) ==
  /\ op = "restart" => botRun[b] = "none"
  /\ op = "delete" => team # {b}
  /\ Start("loop", op, b, 0)
  /\ UNCHANGED dueList

(* The owner's browser sends input with a lease it was given. *)
InputCalled(b, lease) == lease \in 1..leases /\ Start("input", "input", b, lease) /\ UNCHANGED dueList

ToolCalled(b, op) == botRun[b] = "running" /\ Start(b, op, b, 0) /\ UNCHANGED dueList

(* The worker posts /stop for a bot it found due. *)
WorkerStops(b) ==
  /\ b \in dueList
  /\ Start("loop", "stop", b, 0)
  /\ dueList' = dueList \ {b}

At(p, pc) == call[p] # NoCall /\ call[p].pc = pc
Go(p, pc, rec) == call' = [call EXCEPT ![p].pc = pc, ![p].rec = rec]
Done(p) == call' = [call EXCEPT ![p] = NoCall]
\* boot, stop, release and the tools end with a call of status
ThenStatus(p) == call' = [call EXCEPT ![p].op = "status", ![p].pc = "read"]

(* get_computer_for_bot in the middle of a call. *)
ReadRow(p) ==
  /\ At(p, "read")
  /\ Go(p, "expire", comp)
  /\ before' = before \ {p}
  /\ UNCHANGED <<comp, team, botRun, box, boxes, leases, expired, calls, events, dueList>>

(* status has nothing to do but the expiry. *)
GoOn(p, rec) == IF call[p].op = "status" THEN Done(p) ELSE Go(p, "go", rec)

(* _expire_lease and, in some of the calls, _expire_idle_control: they act on the lease of *)
(* the record and go on with the row as it is then.                                        *)
Expire(p) ==
  /\ At(p, "expire")
  /\ LET rec == call[p].rec
         late == rec.holder = "user" /\ rec.lease \in expired
         idle == ~late /\ rec.holder = "user" /\ rec.quiet /\ call[p].op \in IdleOps
         after == ClearControlLease(rec.lease, IF late THEN "none" ELSE "bot") IN
     IF call[p].op # "release" /\ (late \/ idle)
       THEN /\ box' = DropScreen(rec.ref, rec.lease)
            /\ comp' = after
            /\ GoOn(p, IF comp.lease = rec.lease THEN after ELSE rec)
       ELSE GoOn(p, rec) /\ UNCHANGED <<box, comp>>
  /\ UNCHANGED <<team, botRun, boxes, leases, expired, calls, events, dueList, before>>

Running(p, op) == At(p, "go") /\ call[p].op = op

(***************************************************************************)
(* boot, alone or inside restart, screen_url and ensure_running.           *)
(***************************************************************************)

AfterBoot(p) ==
  IF call[p].op \in {"act", "observe"} THEN Go(p, "booted", call[p].rec) ELSE ThenStatus(p)

BootStarts(p) ==
  /\ Running(p, "boot") \/ At(p, "boot")
  /\ LET b == call[p].bot
         rec == [call[p].rec EXCEPT !.exec = b]
         alive == BoxAlive(rec.ref) IN
     \/ /\ Busy(call[p].rec, b)
        /\ Done(p)
        /\ UNCHANGED comp
     \/ /\ ~Busy(call[p].rec, b) /\ rec.state = "running" /\ alive
        /\ comp' = SaveBoxState([rec EXCEPT !.due = FALSE])
        /\ AfterBoot(p)
     \/ /\ ~Busy(call[p].rec, b) /\ ~(rec.state = "running" /\ alive)
        /\ LET booting == [rec EXCEPT !.state = "booting", !.ref = IF alive THEN @ ELSE 0] IN
           /\ comp' = SaveBoxState(booting)
           /\ Go(p, "provision", booting)
  /\ UNCHANGED <<team, botRun, box, boxes, leases, expired, calls, events, dueList, before>>

(* The supervisor makes the container, or the request fails. *)
Provision(p) ==
  /\ At(p, "provision")
  /\ \/ CreateBox /\ Go(p, "provisioned", [call[p].rec EXCEPT !.ref = box'.id, !.state = "running"])
     \/ Go(p, "provisioned", [call[p].rec EXCEPT !.state = "error"]) /\ UNCHANGED <<box, boxes>>
  /\ UNCHANGED <<comp, team, botRun, leases, expired, calls, events, dueList, before>>

BootEnds(p) ==
  /\ At(p, "provisioned")
  /\ LET rec == call[p].rec IN
     IF rec.state = "running"
       THEN comp' = SaveBoxState([rec EXCEPT !.due = FALSE]) /\ AfterBoot(p)
       ELSE comp' = SaveBoxState(rec) /\ Done(p)
  /\ UNCHANGED <<team, botRun, box, boxes, leases, expired, calls, events, dueList, before>>

(***************************************************************************)
(* stop, restart, reset, delete, switch_mode.                              *)
(***************************************************************************)

Stopped(rec) == [rec EXCEPT !.state = "suspended", !.exec = "nobody", !.due = FALSE]
Destroyed(rec) == [rec EXCEPT !.state = "stopped", !.ref = 0, !.exec = "nobody", !.due = FALSE]

(* A failure of the supervisor is logged and the call goes on. *)
StopBox(p) ==
  /\ Running(p, "stop") \/ Running(p, "restart")
  /\ \/ /\ Busy(call[p].rec, call[p].bot)
        /\ Done(p)
        /\ UNCHANGED box
     \/ /\ ~Busy(call[p].rec, call[p].bot)
        /\ box' \in {box} \cup (IF BoxAlive(call[p].rec.ref)
                                  THEN {[box EXCEPT !.up = FALSE, !.token = 0]} ELSE {})
        /\ Go(p, "clear", call[p].rec)
  /\ UNCHANGED <<comp, team, botRun, boxes, leases, expired, calls, events, dueList, before>>

(* _destroy_box, for reset: the container goes and the home is wiped. *)
DestroyBox(p) ==
  /\ Running(p, "reset")
  /\ \/ /\ botRun[call[p].bot] # "none" \/ Busy(call[p].rec, call[p].bot)
        /\ Done(p)
        /\ UNCHANGED box
     \/ /\ botRun[call[p].bot] = "none" /\ ~Busy(call[p].rec, call[p].bot)
        /\ box' \in {box} \cup (IF box.id # 0 /\ call[p].rec.ref = box.id THEN {NoBox} ELSE {})
        /\ Go(p, "clear", Destroyed(call[p].rec))
  /\ UNCHANGED <<comp, team, botRun, boxes, leases, expired, calls, events, dueList, before>>

(* clear_control_lease without a lease id.  stop then reads the row again; _destroy_box *)
(* and _detach_bot keep the record they have.                                           *)
ClearControl(p) ==
  /\ At(p, "clear")
  /\ comp' = Uncontrolled(comp, "none")
  /\ Go(p, "save", IF call[p].op \in {"stop", "restart"} THEN Stopped(comp') ELSE call[p].rec)
  /\ UNCHANGED <<team, botRun, box, boxes, leases, expired, calls, events, dueList, before>>

SaveRecord(p) ==
  /\ At(p, "save")
  /\ comp' = SaveBoxState(call[p].rec)
  /\ CASE call[p].op = "restart" -> call' = [call EXCEPT ![p].op = "boot", ![p].pc = "read"]
       [] call[p].op = "delete" -> Go(p, "delete", call[p].rec)
       [] OTHER -> ThenStatus(p)
  /\ UNCHANGED <<team, botRun, box, boxes, leases, expired, calls, events, dueList, before>>

(* _detach_bot for a bot that is deleted while others use the computer. *)
DetachBot(p) ==
  /\ Running(p, "delete")
  /\ LET b == call[p].bot
         rec == call[p].rec
         free == [rec EXCEPT !.exec = IF @ = b THEN "nobody" ELSE @] IN
     Go(p, IF rec.ctrl = b THEN "clear" ELSE IF rec.exec = b THEN "save" ELSE "delete", free)
  /\ UNCHANGED <<comp, team, botRun, box, boxes, leases, expired, calls, events, dueList, before>>

(* delete_bot takes the bot's runs with it. *)
DeleteBot(p) ==
  /\ At(p, "delete")
  /\ team' = team \ {call[p].bot}
  /\ botRun' = [botRun EXCEPT ![call[p].bot] = "none"]
  /\ dueList' = dueList \ {call[p].bot}
  /\ Done(p)
  /\ UNCHANGED <<comp, box, boxes, leases, expired, calls, events, before>>

(* switch_mode points the bot at its own computer, or back at the Team computer. *)
SwitchMode(b) ==
  /\ events < MaxEvents /\ events' = events + 1
  /\ call["loop"] = NoCall
  /\ botRun[b] = "none"
  /\ team' = IF b \in team THEN team \ {b} ELSE team \cup {b}
  /\ team' # {}
  /\ UNCHANGED <<comp, botRun, box, boxes, leases, expired, call, calls, dueList, before>>

(***************************************************************************)
(* The owner's control.                                                    *)
(***************************************************************************)

Takeover(p) ==
  /\ Running(p, "takeover")
  /\ LET rec == call[p].rec
         b == call[p].bot
         refused == \/ rec.state # "running" \/ rec.ref = 0
                    \/ rec.exec \notin {"nobody", b} /\ botRun[rec.exec] # "none"
                    \/ comp.holder = "user"
         has == rec.holder = "user" /\ rec.lease # 0 IN
     \/ /\ refused \/ has
        /\ Done(p)
        /\ UNCHANGED <<comp, leases, before>>
     \/ /\ ~refused /\ ~has /\ leases < MaxLeases
        /\ leases' = leases + 1
        /\ comp' = SetControlLease(b)
        /\ before' = {q \in Procs : call[q] # NoCall}
        /\ ThenStatus(p)
  /\ UNCHANGED <<team, botRun, box, boxes, expired, calls, events, dueList>>

(* release does not ask for whom the lease was given. *)
Release(p) ==
  /\ Running(p, "release")
  /\ LET lease == call[p].rec.lease IN
     /\ box' = IF lease # 0 THEN DropScreen(call[p].rec.ref, lease) ELSE box
     /\ comp' = IF lease # 0 THEN ClearControlLease(lease, "bot") ELSE Uncontrolled(comp, "bot")
  /\ ThenStatus(p)
  /\ UNCHANGED <<team, botRun, boxes, leases, expired, calls, events, dueList, before>>

(* screen_url opens the control screen for the holder, and closes it for anybody else. *)
ScreenUrl(p) ==
  /\ Running(p, "screen")
  /\ LET rec == call[p].rec
         lease == IF UserHasControl(rec) THEN rec.lease ELSE 0 IN
     \/ /\ rec.state \notin {"running", "booting"} \/ rec.ref = 0
        /\ Done(p)
        /\ UNCHANGED <<comp, box>>
     \/ /\ rec.state \in {"running", "booting"} /\ rec.ref # 0 /\ rec.ref = box.id
        /\ box' = IF box.up THEN [box EXCEPT !.token = lease] ELSE box
        /\ Done(p)
        /\ UNCHANGED comp
     \/ /\ rec.state \in {"running", "booting"} /\ rec.ref # 0 /\ rec.ref # box.id
        /\ comp' = SaveBoxState([rec EXCEPT !.state = "stopped", !.ref = 0])
        /\ call' = [call EXCEPT ![p].op = "boot", ![p].pc = "read"]
        /\ UNCHANGED box
  /\ UNCHANGED <<team, botRun, boxes, leases, expired, calls, events, dueList, before>>

(* send_input checks the lease, sends the input to the container, then records it. *)
SendInput(p) ==
  /\ Running(p, "input")
  /\ LET rec == call[p].rec IN
     IF UserHasControl(rec) /\ rec.ref # 0 /\ rec.lease = call[p].using
       THEN Go(p, "touch", rec) ELSE Done(p)
  /\ UNCHANGED <<comp, team, botRun, box, boxes, leases, expired, calls, events, dueList, before>>

TouchControlInput(p) ==
  /\ At(p, "touch") /\ call[p].op = "input"
  /\ comp' = IF comp.lease = call[p].using THEN [comp EXCEPT !.quiet = FALSE, !.due = FALSE] ELSE comp
  /\ Done(p)
  /\ UNCHANGED <<team, botRun, box, boxes, leases, expired, calls, events, dueList, before>>

(***************************************************************************)
(* The helper's tools.                                                     *)
(***************************************************************************)

(* ensure_running: a desktop that is not there is booted and the row read again. *)
EnsureRunning(p) ==
  /\ Running(p, "act") \/ Running(p, "observe") \/ At(p, "booted")
  /\ IF At(p, "booted")
       THEN Go(p, "touch", comp) /\ before' = before \ {p}
       ELSE /\ Go(p, IF call[p].rec.state = "running" /\ BoxAlive(call[p].rec.ref)
                       THEN "touch" ELSE "boot", call[p].rec)
            /\ UNCHANGED before
  /\ UNCHANGED <<comp, team, botRun, box, boxes, leases, expired, calls, events, dueList>>

(* A mutant: the owner's control is not asked about. *)
HelperMayAlwaysAct(rec) == TRUE

(* _require_helper_may_act looks at the record read before. *)
HelperMayAct(rec) == ~UserHasControl(rec)

TouchBox(p) ==
  /\ At(p, "touch") /\ call[p].op \in {"act", "observe"}
  /\ comp' = SaveBoxState([call[p].rec EXCEPT !.due = FALSE])
  /\ IF call[p].op = "act"
       THEN IF HelperMayAct(call[p].rec) THEN Go(p, "act", call[p].rec) ELSE Done(p)
       ELSE ThenStatus(p)
  /\ UNCHANGED <<team, botRun, box, boxes, leases, expired, calls, events, dueList, before>>

(* close_app boots nothing. *)
CloseApp(p) ==
  /\ Running(p, "close")
  /\ LET rec == call[p].rec IN
     IF rec.state = "running" /\ rec.ref # 0 /\ HelperMayAct(rec)
       THEN comp' = SaveBoxState([rec EXCEPT !.due = FALSE]) /\ Go(p, "act", rec)
       ELSE Done(p) /\ UNCHANGED comp
  /\ UNCHANGED <<team, botRun, box, boxes, leases, expired, calls, events, dueList, before>>

(* The action reaches the container, or fails; the tool then publishes the status. *)
HelperActs(p) ==
  /\ At(p, "act")
  /\ ThenStatus(p)
  /\ UNCHANGED <<comp, team, botRun, box, boxes, leases, expired, calls, events, dueList, before>>

(***************************************************************************)
(* The worker, the runs and the time.                                      *)
(***************************************************************************)

(* expire_idle_takeovers: one UPDATE; the control screen stays up. *)
WorkerExpiresIdle ==
  /\ comp.state = "running" /\ comp.holder = "user" /\ comp.quiet
  /\ comp' = Uncontrolled(comp, "bot")
  /\ UNCHANGED <<team, botRun, box, boxes, leases, expired, call, calls, events, dueList, before>>

(* due_idle_computer_bots: every bot of the computer is listed, if none is at work. *)
WorkerFindsDue ==
  /\ dueList = {}
  /\ comp.state = "running" /\ comp.due /\ comp.holder # "user"
  /\ \A b \in team : botRun[b] \notin {"running", "waiting_input"}
  /\ dueList' = team
  /\ UNCHANGED <<comp, team, botRun, box, boxes, leases, expired, call, calls, events, before>>

Event == events < MaxEvents /\ events' = events + 1

RunChanges(b, to) ==
  /\ Event
  /\ b \in team
  /\ botRun[b] # to
  /\ to \in {"waiting_input", "waiting_takeover"} => botRun[b] = "running"
  /\ botRun' = [botRun EXCEPT ![b] = to]
  /\ UNCHANGED <<comp, team, box, boxes, leases, expired, call, calls, dueList, before>>

LeaseRunsOut(l) ==
  /\ Event
  /\ l \in 1..leases /\ l \notin expired
  /\ expired' = expired \cup {l}
  /\ UNCHANGED <<comp, team, botRun, box, boxes, leases, call, calls, dueList, before>>

TimePasses ==
  /\ Event
  /\ \/ comp.holder = "user" /\ ~comp.quiet /\ comp' = [comp EXCEPT !.quiet = TRUE]
     \/ comp.state = "running" /\ ~comp.due /\ comp' = [comp EXCEPT !.due = TRUE]
  /\ UNCHANGED <<team, botRun, box, boxes, leases, expired, call, calls, dueList, before>>

(* The container goes without anybody asking. *)
BoxDies ==
  /\ Event
  /\ box.up
  /\ box' = [box EXCEPT !.up = FALSE, !.token = 0]
  /\ UNCHANGED <<comp, team, botRun, boxes, leases, expired, call, calls, dueList, before>>

(* The host process exits in the middle of its calls. *)
ServiceExits ==
  /\ \E p \in Procs : call[p] # NoCall
  /\ call' = [p \in Procs |-> NoCall]
  /\ before' = {}
  /\ UNCHANGED <<comp, team, botRun, box, boxes, leases, expired, calls, events, dueList>>

Step(p) ==
  \/ ReadRow(p) \/ Expire(p) \/ BootStarts(p) \/ Provision(p) \/ BootEnds(p)
  \/ StopBox(p) \/ DestroyBox(p) \/ ClearControl(p) \/ SaveRecord(p) \/ DetachBot(p) \/ DeleteBot(p)
  \/ Takeover(p) \/ Release(p) \/ ScreenUrl(p) \/ SendInput(p) \/ TouchControlInput(p)
  \/ EnsureRunning(p) \/ TouchBox(p) \/ CloseApp(p) \/ HelperActs(p)

ComputerNext ==
  \/ \E p \in Procs : Step(p)
  \/ \E b \in Bots :
       \/ \E op \in LoopOps : HandlerCalled(op, b)
       \/ \E l \in 1..MaxLeases : InputCalled(b, l)
       \/ \E op \in ToolOps : ToolCalled(b, op)
       \/ WorkerStops(b) \/ SwitchMode(b)
       \/ \E to \in {"none", "running", "waiting_input", "waiting_takeover"} : RunChanges(b, to)
  \/ WorkerExpiresIdle \/ WorkerFindsDue \/ TimePasses \/ BoxDies \/ ServiceExits
  \/ \E l \in 1..MaxLeases : LeaseRunsOut(l)

ComputerSpec == ComputerInit /\ [][ComputerNext]_computerVars

(* A lease that has ended does not come back: no call that works on an old record, and no *)
(* call that the lease ended under, writes it into the row again.                         *)
EndedLeaseStaysEnded ==
  [][comp'.lease # comp.lease => comp'.lease = 0 \/ comp'.lease = leases + 1]_computerVars

(* Why: a record has a holder when it has a lease, as the row does.  The lease of the row is *)
(* the one that a call has in its record, or has ended since, unless the call began before   *)
(* control was granted; and a helper on its way to act had no control in its record.         *)
RecordsKeepUp ==
  \A p \in Procs : call[p] # NoCall =>
    /\ call[p].rec.holder = "user" <=> call[p].rec.lease # 0
    /\ p \notin before => comp.lease \in {0, call[p].rec.lease}
    /\ p \notin before /\ call[p].pc = "act" => ~UserHasControl(call[p].rec)

(* While the owner holds control, the helper acts only with a call that had read the row *)
(* before control was granted.                                                           *)
HelperYields ==
  UserHasControl(comp) => \A p \in Procs : At(p, "act") => p \in before
=============================================================================
