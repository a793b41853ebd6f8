------------------------------ MODULE Workers ------------------------------
(***************************************************************************)
(* Subagents, the lead's background workers: spawn, run, steer, stop by    *)
(* the owner, stop by the lead after an inspect, restart, and a restart of *)
(* the host.                                                               *)
(*                                                                         *)
(* A worker is a row; every spawn or restart of it is a run (1, 2, ...)    *)
(* with a coroutine on the event loop.  The lead's tools and the worker's  *)
(* own tools run on threads, so they interleave with the loop; what a      *)
(* coroutine does between two awaits is one step.                          *)
(***************************************************************************)
EXTENDS Integers, FiniteSets

CONSTANTS
  Subagents,       \* workers of one bot
  MaxSubagents,    \* MAX_SUBAGENTS
  MaxRuns,         \* bound: runs of one worker
  MaxActivity,     \* bound: activity_seq
  MaxHostRestarts  \* bound: exits of the host process

ASSUME WorkersAssumption ==
  /\ MaxSubagents \in Nat /\ MaxRuns \in Nat \ {0} /\ MaxActivity \in Nat
  /\ MaxHostRestarts \in Nat /\ IsFiniteSet(Subagents)

WRuns == 1..MaxRuns
Live == {"queued", "running"}
NoStop == [pc |-> "none"]

VARIABLES
  wstatus,     \* subagents.status
  activity,    \* subagents.activity_seq
  toolRunning, \* subagents.tool_running
  spawning,    \* spawn calls of the lead that have passed the count
  scheduled,   \* runs whose starter the loop has not called yet
  wtask,       \* where the coroutine of a run is
  current,     \* SubagentService.tasks: the registered run, 0 when none
  cancelReq,   \* runs whose task was asked to cancel
  svcCancelled,\* SubagentService._cancelled
  rtCancelled, \* the runtime's _cancelled_runs
  wtool,       \* the tool thread of a run
  seen,        \* the activity_seq the lead last inspected, -1 for none
  stopper,     \* the lead's stop_subagent call
  wruns,       \* runs scheduled so far
  ownerStopped,\* workers the composer's Stop has stopped and nobody restarted
  accepted,    \* workers with a stop that was not refused
  hostRestarts

wrow == <<wstatus, activity, toolRunning>>
wloop == <<scheduled, wtask, current, cancelReq, wruns>>
wlead == <<spawning, seen, stopper>>
whist == <<ownerStopped, accepted, hostRestarts>>
workerVars == <<wrow, wloop, wlead, svcCancelled, rtCancelled, wtool, whist>>

(* Rows, tasks and threads are of their types; what waits for the loop and what is *)
(* registered has been scheduled.                                                  *)
WorkersTypeOK ==
  /\ wstatus \in [Subagents -> Live \cup {"none", "completed", "failed", "cancelled"}]
  /\ activity \in [Subagents -> 0..MaxActivity]
  /\ toolRunning \in [Subagents -> BOOLEAN]
  /\ spawning \in 0..Cardinality(Subagents)
  /\ scheduled \subseteq Subagents \X WRuns
  /\ wtask \in [Subagents -> [WRuns -> {"none", "begin", "session", "stream", "ending", "done"}]]
  /\ wruns \in [Subagents -> 0..MaxRuns]
  /\ \A p \in scheduled : p[2] <= wruns[p[1]]
  /\ current \in [Subagents -> 0..MaxRuns] /\ \A w \in Subagents : current[w] <= wruns[w]
  /\ cancelReq \subseteq Subagents \X WRuns
  /\ svcCancelled \subseteq Subagents /\ rtCancelled \subseteq Subagents
  /\ wtool \in [Subagents -> [WRuns -> {"none", "admitted", "busy"}]]
  /\ seen \in [Subagents -> -1..MaxActivity]
  /\ stopper = NoStop \/ stopper \in [pc : {"cancel", "row"}, sub : Subagents, seq : -1..MaxActivity]
  /\ ownerStopped \subseteq Subagents /\ accepted \subseteq Subagents
  /\ hostRestarts \in 0..MaxHostRestarts

WorkersInit ==
  /\ wstatus = [w \in Subagents |-> "none"]
  /\ activity = [w \in Subagents |-> 0]
  /\ toolRunning = [w \in Subagents |-> FALSE]
  /\ spawning = 0
  /\ scheduled = {}
  /\ wtask = [w \in Subagents |-> [g \in WRuns |-> "none"]]
  /\ current = [w \in Subagents |-> 0]
  /\ cancelReq = {}
  /\ svcCancelled = {} /\ rtCancelled = {}
  /\ wtool = [w \in Subagents |-> [g \in WRuns |-> "none"]]
  /\ seen = [w \in Subagents |-> -1]
  /\ stopper = NoStop
  /\ wruns = [w \in Subagents |-> 0]
  /\ ownerStopped = {} /\ accepted = {}
  /\ hostRestarts = 0

(***************************************************************************)
(* The lead spawns and restarts.                                           *)
(***************************************************************************)

Schedule(w) ==
  /\ wruns[w] < MaxRuns
  /\ wruns' = [wruns EXCEPT ![w] = @ + 1]
  /\ scheduled' = scheduled \cup {<<w, wruns[w] + 1>>}

(* running_subagent_count is read in one transaction, the row inserted in another. *)
SpawnChecks ==
  /\ Cardinality({w \in Subagents : wstatus[w] \in Live}) < MaxSubagents
  /\ spawning < Cardinality({w \in Subagents : wstatus[w] = "none"})
  /\ spawning' = spawning + 1
  /\ UNCHANGED <<wrow, wloop, seen, stopper, svcCancelled, rtCancelled, wtool, whist>>

(* update_subagent: by id alone, whatever the row has become. *)
UpdateSubagent(w, as) == wstatus' = [wstatus EXCEPT ![w] = as]

SpawnCreates(w) ==
  /\ spawning > 0 /\ wstatus[w] = "none"
  /\ spawning' = spawning - 1
  /\ wstatus' = [wstatus EXCEPT ![w] = "queued"]
  /\ Schedule(w)
  /\ UNCHANGED <<activity, toolRunning, wtask, current, cancelReq, seen, stopper, svcCancelled, rtCancelled, wtool,
                 whist>>

(* The runs whose task is registered and not done. *)
Registered(w) == {p \in {w} \X WRuns : p[2] = current[w] /\ wtask[w][p[2]] \notin {"none", "done"}}

(* restart: the task is cancelled, the row starts over, whatever its status. *)
RestartWorker(w) ==
  /\ wstatus[w] # "none"
  /\ cancelReq' = cancelReq \cup Registered(w)
  /\ UpdateSubagent(w, "queued")
  /\ activity' = [activity EXCEPT ![w] = 0]
  /\ toolRunning' = [toolRunning EXCEPT ![w] = FALSE]
  /\ Schedule(w)
  /\ ownerStopped' = ownerStopped \ {w}
  /\ accepted' = accepted \ {w}
  /\ UNCHANGED <<wtask, current, wlead, svcCancelled, rtCancelled, wtool, hostRestarts>>

(***************************************************************************)
(* The coroutine of a run.                                                 *)
(***************************************************************************)

(* The starter of _schedule cancels a task that is still there and registers the new one. *)
WStarter(w, g) ==
  /\ <<w, g>> \in scheduled
  /\ \A h \in WRuns : <<w, h>> \in scheduled => g <= h
  /\ scheduled' = scheduled \ {<<w, g>>}
  /\ cancelReq' = cancelReq \cup Registered(w)
  /\ wtask' = [wtask EXCEPT ![w][g] = "begin"]
  /\ current' = [current EXCEPT ![w] = g]
  /\ UNCHANGED <<wrow, wlead, svcCancelled, rtCancelled, wtool, wruns, whist>>

(* A task that is cancelled before its first step never enters _run. *)
WBegins(w, g) ==
  /\ wtask[w][g] = "begin"
  /\ wtask' = [wtask EXCEPT ![w][g] = IF <<w, g>> \in cancelReq THEN "done" ELSE "session"]
  /\ UNCHANGED <<wrow, scheduled, current, cancelReq, wruns, wlead, svcCancelled, rtCancelled, wtool, whist>>

Touched(w) == [activity EXCEPT ![w] = IF wstatus[w] \in Live THEN @ + 1 ELSE @]
CanTouch(w) == activity[w] < MaxActivity

(* create_session returns: the row is set to running, whatever it was. *)
WSessionStarts(w, g) ==
  /\ wtask[w][g] = "session" /\ <<w, g>> \notin cancelReq
  /\ CanTouch(w)
  /\ UpdateSubagent(w, "running")
  /\ activity' = [activity EXCEPT ![w] = @ + 1]
  /\ wtask' = [wtask EXCEPT ![w][g] = "stream"]
  /\ UNCHANGED <<toolRunning, scheduled, current, cancelReq, wruns, wlead, svcCancelled, rtCancelled, wtool, whist>>

WText(w, g) ==
  /\ wtask[w][g] = "stream" /\ <<w, g>> \notin cancelReq
  /\ CanTouch(w) /\ wstatus[w] \in Live
  /\ activity' = Touched(w)
  /\ UNCHANGED <<wstatus, toolRunning, wloop, wlead, svcCancelled, rtCancelled, wtool, whist>>

(* The stream is over; from here to the end the coroutine does not wait. *)
WStreamEnds(w, g) ==
  /\ wtask[w][g] = "stream" /\ <<w, g>> \notin cancelReq
  /\ wtask' = [wtask EXCEPT ![w][g] = "ending"]
  /\ UNCHANGED <<wrow, scheduled, current, cancelReq, wruns, wlead, svcCancelled, rtCancelled, wtool, whist>>

WDone(w, g) ==
  /\ wtask' = [wtask EXCEPT ![w][g] = "done"]
  /\ current' = IF current[w] = g THEN [current EXCEPT ![w] = 0] ELSE current

(* The final status is written without a condition. *)
WEnds(w, g, as) ==
  /\ wtask[w][g] = "ending"
  /\ UpdateSubagent(w, as)
  /\ accepted' = IF as = "cancelled" THEN accepted \cup {w} ELSE accepted
  /\ WDone(w, g)
  /\ UNCHANGED <<activity, toolRunning, scheduled, cancelReq, wruns, wlead, svcCancelled, rtCancelled, wtool,
                 ownerStopped, hostRestarts>>

WFails(w, g) ==
  /\ wtask[w][g] \in {"session", "stream"} /\ <<w, g>> \notin cancelReq
  /\ UpdateSubagent(w, "failed")
  /\ WDone(w, g)
  /\ UNCHANGED <<activity, toolRunning, scheduled, cancelReq, wruns, wlead, svcCancelled, rtCancelled, wtool, whist>>

(* CancelledError: a task that a newer one replaced leaves the row alone, and so does one *)
(* whose row is queued for the next run or has ended.                                     *)
WCancelled(w, g) ==
  /\ wtask[w][g] \in {"session", "stream"} /\ <<w, g>> \in cancelReq
  /\ wstatus' = IF current[w] \in {0, g} /\ wstatus[w] = "running"
                  THEN [wstatus EXCEPT ![w] = "cancelled"] ELSE wstatus
  /\ WDone(w, g)
  /\ UNCHANGED <<activity, toolRunning, scheduled, cancelReq, wruns, wlead, svcCancelled, rtCancelled, wtool, whist>>

(***************************************************************************)
(* The worker's tools.                                                     *)
(***************************************************************************)

(* A mutant: only the row is asked. *)
WorkerCancelledByRow(w) == wstatus[w] \notin Live

(* _turn_cancelled: is_run_cancelled of the runtime, then is_cancelled. *)
WorkerCancelled(w) == w \in svcCancelled \cup rtCancelled \/ wstatus[w] \notin Live

WToolAdmitted(w, g) ==
  /\ wtask[w][g] = "stream" /\ wtool[w][g] = "none"
  /\ ~WorkerCancelled(w)
  /\ wtool' = [wtool EXCEPT ![w][g] = "admitted"]
  /\ UNCHANGED <<wrow, wloop, wlead, svcCancelled, rtCancelled, whist>>

(* touch_worker_activity before and after the tool; the thread outlives its task. *)
WToolTouches(w, g) ==
  /\ wtool[w][g] \in {"admitted", "busy"}
  /\ CanTouch(w)
  /\ wtool' = [wtool EXCEPT ![w][g] = IF @ = "admitted" THEN "busy" ELSE "none"]
  /\ toolRunning' = [toolRunning EXCEPT ![w] = IF wstatus[w] \in Live THEN wtool[w][g] = "admitted" ELSE @]
  /\ activity' = Touched(w)
  /\ UNCHANGED <<wstatus, wloop, wlead, svcCancelled, rtCancelled, whist>>

(***************************************************************************)
(* Inspect, steer and stop.                                                *)
(***************************************************************************)

LeadInspects(w) ==
  /\ wstatus[w] # "none"
  /\ seen[w] # activity[w]
  /\ seen' = [seen EXCEPT ![w] = activity[w]]
  /\ UNCHANGED <<wrow, wloop, spawning, stopper, svcCancelled, rtCancelled, wtool, whist>>

(* steer and report_progress move the activity of a live worker. *)
SteerWorker(w) ==
  /\ wstatus[w] \in Live /\ CanTouch(w)
  /\ activity' = Touched(w)
  /\ UNCHANGED <<wstatus, toolRunning, wloop, wlead, svcCancelled, rtCancelled, wtool, whist>>

CancelRow(w) ==
  /\ wstatus' = [wstatus EXCEPT ![w] = "cancelled"]
  /\ toolRunning' = [toolRunning EXCEPT ![w] = FALSE]

(* stop by the owner: the mark is taken back only when the row ended otherwise before. *)
OwnerStopsWorker(w) ==
  /\ wstatus[w] # "none"
  /\ cancelReq' = cancelReq \cup Registered(w)
  /\ IF wstatus[w] \in Live
       THEN CancelRow(w) /\ accepted' = accepted \cup {w}
       ELSE UNCHANGED <<wstatus, toolRunning, accepted>>
  /\ svcCancelled' = IF wstatus[w] \in Live \cup {"cancelled"}
                       THEN svcCancelled \cup {w} ELSE svcCancelled \ {w}
  /\ UNCHANGED <<activity, scheduled, wtask, current, wruns, wlead, rtCancelled, wtool, ownerStopped, hostRestarts>>

(* The composer's Stop: mark_runs_cancelled for every live worker, then stop_all. *)
StopThread ==
  LET live == {w \in Subagents : wstatus[w] \in Live} IN
  /\ live # {}
  /\ rtCancelled' = rtCancelled \cup live
  /\ svcCancelled' = svcCancelled \cup live
  /\ cancelReq' = cancelReq \cup UNION {Registered(w) : w \in live}
  /\ wstatus' = [w \in Subagents |-> IF w \in live THEN "cancelled" ELSE wstatus[w]]
  /\ toolRunning' = [w \in Subagents |-> w \notin live /\ toolRunning[w]]
  /\ ownerStopped' = ownerStopped \cup live
  /\ accepted' = accepted \cup live
  /\ UNCHANGED <<activity, scheduled, wtask, current, wruns, wlead, wtool, hostRestarts>>

(* stop_subagent of the lead: the check of the inspected row ... *)
LeadStopChecks(w) ==
  /\ stopper = NoStop
  /\ wstatus[w] # "none" /\ ~toolRunning[w] /\ seen[w] = activity[w]
  /\ stopper' = [pc |-> "cancel", sub |-> w, seq |-> seen[w]]
  /\ UNCHANGED <<wrow, wloop, spawning, seen, svcCancelled, rtCancelled, wtool, whist>>

(* ... the mark and task.cancel() ... *)
LeadStopCancels ==
  /\ stopper.pc = "cancel"
  /\ svcCancelled' = svcCancelled \cup {stopper.sub}
  /\ cancelReq' = cancelReq \cup Registered(stopper.sub)
  /\ stopper' = [stopper EXCEPT !.pc = "row"]
  /\ UNCHANGED <<wrow, scheduled, wtask, current, wruns, spawning, seen, rtCancelled, wtool, whist>>

(* ... and cancel_subagent_row, which asks again; a refusal takes back only the mark. *)
LeadStopWrites ==
  /\ stopper.pc = "row"
  /\ LET w == stopper.sub
         holds == wstatus[w] \in Live /\ ~toolRunning[w] /\ activity[w] = stopper.seq IN
     /\ IF holds THEN CancelRow(w) /\ accepted' = accepted \cup {w}
                 ELSE UNCHANGED <<wstatus, toolRunning, accepted>>
     /\ svcCancelled' = IF holds \/ wstatus[w] = "cancelled" THEN svcCancelled ELSE svcCancelled \ {w}
  /\ stopper' = NoStop
  /\ UNCHANGED <<activity, wloop, spawning, seen, rtCancelled, wtool, ownerStopped, hostRestarts>>

(***************************************************************************)
(* The host exits; recover_orphaned_runs ends the workers it left.         *)
(***************************************************************************)
WorkersHostRestarts ==
  /\ hostRestarts < MaxHostRestarts
  /\ hostRestarts' = hostRestarts + 1
  /\ wstatus' = [w \in Subagents |-> IF wstatus[w] \in Live THEN "failed" ELSE wstatus[w]]
  /\ scheduled' = {}
  /\ wtask' = [w \in Subagents |-> [g \in WRuns |-> IF wtask[w][g] = "none" THEN "none" ELSE "done"]]
  /\ current' = [w \in Subagents |-> 0]
  /\ cancelReq' = {}
  /\ svcCancelled' = {} /\ rtCancelled' = {}
  /\ wtool' = [w \in Subagents |-> [g \in WRuns |-> "none"]]
  /\ spawning' = 0 /\ seen' = [w \in Subagents |-> -1] /\ stopper' = NoStop
  /\ UNCHANGED <<activity, toolRunning, wruns, ownerStopped, accepted>>

WorkersNext ==
  \/ SpawnChecks \/ StopThread \/ LeadStopCancels \/ LeadStopWrites \/ WorkersHostRestarts
  \/ \E w \in Subagents :
       \/ SpawnCreates(w) \/ RestartWorker(w) \/ LeadInspects(w) \/ SteerWorker(w)
       \/ OwnerStopsWorker(w) \/ LeadStopChecks(w)
       \/ \E g \in WRuns :
            \/ WStarter(w, g) \/ WBegins(w, g) \/ WSessionStarts(w, g) \/ WText(w, g)
            \/ WStreamEnds(w, g) \/ WFails(w, g) \/ WCancelled(w, g)
            \/ WToolAdmitted(w, g) \/ WToolTouches(w, g)
            \/ \E as \in {"completed", "failed", "cancelled"} : WEnds(w, g, as)

WorkersSpec == WorkersInit /\ [][WorkersNext]_workerVars

(* CHANGELOG: "Explicit window Stop still cancels it and admits no new worker tools": a *)
(* run of a worker the owner stopped gets no tool, though the run may start after Stop  *)
(* and set its row to running again.                                                    *)
StopAdmitsNoTools ==
  [][\A w \in ownerStopped, g \in WRuns :
       wtool'[w][g] = "admitted" => wtool[w][g] = "admitted"]_workerVars

(* Why: the runtime's mark on a worker the owner stopped goes only with the process, and *)
(* then its runs are gone too; only restart, which undoes the Stop, schedules another.    *)
StopKeepsMark ==
  \A w \in ownerStopped :
    /\ wstatus[w] # "none"
    /\ \/ w \in rtCancelled
       \/ \A g \in WRuns : <<w, g>> \notin scheduled /\ wtask[w][g] \in {"none", "done"}

(* CHANGELOG: "a stale inspect cannot Stop it": a worker is cancelled only by a stop that *)
(* was not refused (or by its own runtime).                                               *)
RefusedStopStopsNobody ==
  \A w \in Subagents : wstatus[w] = "cancelled" => w \in accepted
=============================================================================
