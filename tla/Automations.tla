---------------------------- MODULE Automations ----------------------------
(***************************************************************************)
(* One routine of one bot: the cron trigger and the manual one, automation *)
(* runs and their approval asks, the durable jobs that carry their         *)
(* prompts, the worker processes that claim routines and jobs, and the     *)
(* host they post to.                                                      *)
(*                                                                         *)
(* The workers are processes of their own: every commit of run_once is an  *)
(* action.  A host handler is not interleaved with other handlers; where   *)
(* it commits twice, host names the fire it still has to enqueue.  Times   *)
(* are left out: a lease expires and a retry becomes due at some time.     *)
(***************************************************************************)
EXTENDS Integers, Sequences, SequencesExt

CONSTANTS
  Workers,      \* worker processes
  Clicks,       \* trigger_event_ids of the manual trigger
  Approvals,    \* the values require_approval may take: subset of BOOLEAN
  Faults,       \* subset of FaultKinds
  MaxAttempts,  \* jobs.max_attempts
  MaxFires,     \* bound: trigger keys, each for one automation run
  MaxSlots,     \* bound: times the cron expression comes due
  MaxCrashes    \* bound: exits of workers and of the host

(***************************************************************************)
(* error: a POST fails before the host accepts it.  lost: the host accepts *)
(* it and the answer does not arrive within the worker's time limit.       *)
(* stall: a worker or its database stops for longer than a lease.          *)
(***************************************************************************)
FaultKinds == {"error", "lost", "stall"}

Fires == 1..MaxFires
NoFire == 0

ASSUME AutomationsAssumption ==
  /\ MaxAttempts \in Nat \ {0} /\ MaxFires \in Nat /\ MaxSlots \in Nat /\ MaxCrashes \in Nat
  /\ Approvals \subseteq BOOLEAN
  /\ Faults \subseteq FaultKinds

BusyApproval == {"running", "waiting_input", "waiting_recovery"}

VARIABLES
  \* Postgres
  active,       \* routines.active
  approval,     \* routines.require_approval
  due,          \* routines.next_run_at has passed
  leased,       \* routines.lease_until is in the future
  fireCount,    \* trigger keys made so far: last_run_at stamps and event ids
  clickFire,    \* the automation run of a trigger_event_id
  arun,         \* automation_runs.state
  gated,        \* the run's snapshot says require_approval
  bound,        \* automation_runs.approval_run_id is set
  askRun,       \* runs.status of the approval ask's run
  open,         \* fires whose ask card is open, oldest first
  parked,       \* run_waits of the ask's run: kind ask, after a host restart
  job,          \* jobs.state
  attempts,     \* jobs.attempts
  expired,      \* jobs.lease_expires_at has passed
  lead,         \* a lead turn of the bot is busy
  \* processes
  pc, fire, need, batch, answer,  \* the workers
  host,         \* the fire the host handler still has to enqueue
  \* history
  slot, slotOf, acked, approved, sends, crashes

routineVars == <<active, approval, due, leased>>
runVars == <<fireCount, clickFire, arun, gated, bound, askRun, open, parked, lead>>
jobVars == <<job, attempts, expired>>
workerVars == <<pc, fire, need, batch, answer>>
history == <<slot, slotOf, acked, approved, sends, crashes>>
vars == <<routineVars, runVars, jobVars, workerVars, host, history>>

(* Every field has the values the schema and the processes allow. *)
TypeOK ==
  /\ active \in BOOLEAN /\ approval \in BOOLEAN /\ due \in BOOLEAN /\ leased \in BOOLEAN
  /\ fireCount \in 0..MaxFires
  /\ clickFire \in [Clicks -> Fires \cup {NoFire}]
  /\ arun \in [Fires -> {"none", "waiting_for_approval", "queued", "running", "succeeded",
                         "failed", "cancelled"}]
  /\ gated \in [Fires -> BOOLEAN]
  /\ bound \in [Fires -> BOOLEAN]
  /\ askRun \in [Fires -> BusyApproval \cup {"none", "completed", "cancelled"}]
  /\ open \in Seq(Fires)
  /\ parked \in [Fires -> BOOLEAN]
  /\ job \in [Fires -> {"none", "queued", "running", "succeeded", "dead"}]
  /\ attempts \in [Fires -> Nat]
  /\ expired \in [Fires -> BOOLEAN]
  /\ lead \in BOOLEAN
  /\ pc \in [Workers -> {"idle", "claimed", "ensured", "free", "begun", "carded", "waiting",
                        "enqueued", "ack", "jobs", "work", "answered", "settled"}]
  /\ fire \in [Workers -> Fires \cup {NoFire}]
  /\ need \in [Workers -> BOOLEAN]
  /\ batch \in [Workers -> SUBSET Fires]
  /\ answer \in [Workers -> {"none", "ok", "busy", "error"}]
  /\ host \in Fires \cup {NoFire}
  /\ slot \in 0..MaxSlots
  /\ slotOf \in [Fires -> 0..MaxSlots]
  /\ acked \subseteq 1..MaxSlots
  /\ approved \subseteq Fires
  /\ sends \in [Fires -> Nat]
  /\ crashes \in 0..MaxCrashes

Init ==
  /\ active = TRUE
  /\ approval \in Approvals
  /\ due = FALSE
  /\ leased = FALSE
  /\ fireCount = 0
  /\ clickFire = [k \in Clicks |-> NoFire]
  /\ arun = [f \in Fires |-> "none"]
  /\ gated = [f \in Fires |-> FALSE]
  /\ bound = [f \in Fires |-> FALSE]
  /\ askRun = [f \in Fires |-> "none"]
  /\ open = <<>>
  /\ parked = [f \in Fires |-> FALSE]
  /\ job = [f \in Fires |-> "none"]
  /\ attempts = [f \in Fires |-> 0]
  /\ expired = [f \in Fires |-> FALSE]
  /\ lead = FALSE
  /\ pc = [w \in Workers |-> "idle"]
  /\ fire = [w \in Workers |-> NoFire]
  /\ need = [w \in Workers |-> FALSE]
  /\ batch = [w \in Workers |-> {}]
  /\ answer = [w \in Workers |-> "none"]
  /\ host = NoFire
  /\ slot = 0
  /\ slotOf = [f \in Fires |-> 0]
  /\ acked = {}
  /\ approved = {}
  /\ sends = [f \in Fires |-> 0]
  /\ crashes = 0

-----------------------------------------------------------------------------
(* Helpers.                                                                  *)

(* has_active_run: a lead turn, or an approval ask that is not over. *)
HasActiveRun == lead \/ \E f \in Fires : askRun[f] \in BusyApproval

(* The send is queued behind a run of the bot. *)
Behind(runs) == lead \/ \E f \in Fires : runs[f] \in {"running", "waiting_input"}

(* _accept_turn, as far as this routine sees it: the send is queued or starts *)
(* a turn, and then closes the newest open card.  The newest busy run decides *)
(* which; when that one is parked for recovery, over, it is superseded.       *)
AcceptTurn(cards, runs) ==
  \E over \in Fires \cup {NoFire} :
    /\ IF over = NoFire
       THEN Behind(runs) \/ \A f \in Fires : runs[f] # "waiting_recovery"
       ELSE runs[over] = "waiting_recovery"
    /\ open' = IF cards = <<>> THEN cards ELSE Front(cards)
    /\ lead' = (lead \/ over # NoFire \/ ~Behind(runs))
    /\ askRun' = [f \in Fires |-> IF f = over THEN "cancelled" ELSE runs[f]]

(* The state of a fresh automation run (ensure_automation_run). *)
FirstState(gate) == IF gate THEN "waiting_for_approval" ELSE "queued"

Goto(w, label) == pc' = [pc EXCEPT ![w] = label]

-----------------------------------------------------------------------------
(* The routine.                                                              *)

(* A worker is between its claim of the routine and the ack. *)
Processes(w) == pc[w] \in {"claimed", "ensured", "free", "begun", "carded", "waiting",
                          "enqueued", "ack"}

Processing == \E w \in Workers : Processes(w)

(* next_run_at is reached.  Bound: not between a claim and its ack, unless *)
(* the worker stalls (the ack skips the slots it is late for).             *)
TimeComes ==
  /\ active /\ ~due
  /\ "stall" \in Faults \/ ~Processing
  /\ slot < MaxSlots
  /\ due' = TRUE
  /\ slot' = slot + 1
  /\ UNCHANGED <<active, approval, leased, runVars, jobVars, workerVars, host, slotOf, acked,
                 approved, sends, crashes>>

(* update_routine computes next_run_at anew and leaves the lease alone. *)
EditRoutine(on, gate) ==
  /\ host = NoFire
  /\ active' = on
  /\ approval' = gate
  /\ due' = FALSE
  /\ UNCHANGED <<leased, runVars, jobVars, workerVars, host, history>>

(* lease_until passes: after its worker is gone, or while it stalls. *)
RoutineLeaseExpires ==
  /\ leased
  /\ "stall" \in Faults \/ ~Processing
  /\ leased' = FALSE
  /\ UNCHANGED <<active, approval, due, runVars, jobVars, workerVars, host, history>>

-----------------------------------------------------------------------------
(* run_once, first part: due routines.                                       *)

Claimable == active /\ due /\ ~leased

(* Mutant of ClaimDueRoutines: the slot is used up by the claim. *)
ClaimDueRoutinesAdvances(w) ==
  /\ pc[w] = "idle"
  /\ IF Claimable
     THEN /\ fireCount < MaxFires
          /\ fireCount' = fireCount + 1
          /\ slotOf' = [slotOf EXCEPT ![fireCount'] = slot]
          /\ fire' = [fire EXCEPT ![w] = fireCount']
          /\ need' = [need EXCEPT ![w] = approval]
          /\ due' = FALSE
          /\ acked' = acked \cup {slot}
          /\ Goto(w, "claimed")
     ELSE /\ Goto(w, "jobs")
          /\ UNCHANGED <<due, acked, fireCount, slotOf, fire, need>>
  /\ UNCHANGED <<active, approval, leased, clickFire, arun, gated, bound, askRun, open, parked,
                 lead, jobVars, batch, answer, host, slot, approved, sends, crashes>>

(* claim_due_routines stamps last_run_at, which becomes the trigger key, and *)
(* leases the row; next_run_at stays until the ack.                          *)
ClaimDueRoutines(w) ==
  /\ pc[w] = "idle"
  /\ IF Claimable
     THEN /\ fireCount < MaxFires
          /\ fireCount' = fireCount + 1
          /\ slotOf' = [slotOf EXCEPT ![fireCount'] = slot]
          /\ fire' = [fire EXCEPT ![w] = fireCount']
          /\ need' = [need EXCEPT ![w] = approval]
          /\ leased' = TRUE
          /\ Goto(w, "claimed")
     ELSE /\ Goto(w, "jobs")
          /\ UNCHANGED <<leased, fireCount, slotOf, fire, need>>
  /\ UNCHANGED <<active, approval, due, clickFire, arun, gated, bound, askRun, open, parked,
                 lead, jobVars, batch, answer, host, slot, acked, approved, sends, crashes>>

(* ensure_automation_run with the definition the worker claimed. *)
EnsureAutomationRun(w) ==
  /\ pc[w] = "claimed"
  /\ arun' = [arun EXCEPT ![fire[w]] = FirstState(need[w])]
  /\ gated' = [gated EXCEPT ![fire[w]] = need[w]]
  /\ Goto(w, "ensured")
  /\ UNCHANGED <<routineVars, fireCount, clickFire, bound, askRun, open, parked, lead, jobVars,
                 fire, need, batch, answer, host, history>>

(* ensure_approval_ask, whose commits are not one transaction: look for an *)
(* active run, begin a run, append the card, park the run, bind the run.   *)
ApprovalCheck(w) ==
  /\ pc[w] = "ensured" /\ need[w]
  /\ Goto(w, IF HasActiveRun THEN "ack" ELSE "free")
  /\ UNCHANGED <<routineVars, runVars, jobVars, fire, need, batch, answer, host, history>>

ApprovalBegin(w) ==
  /\ pc[w] = "free"
  /\ askRun' = [askRun EXCEPT ![fire[w]] = "running"]
  /\ Goto(w, "begun")
  /\ UNCHANGED <<routineVars, fireCount, clickFire, arun, gated, bound, open, parked, lead,
                 jobVars, fire, need, batch, answer, host, history>>

ApprovalCard(w) ==
  /\ pc[w] = "begun"
  /\ open' = Append(open, fire[w])
  /\ Goto(w, "carded")
  /\ UNCHANGED <<routineVars, fireCount, clickFire, arun, gated, bound, askRun, parked, lead,
                 jobVars, fire, need, batch, answer, host, history>>

ApprovalParks(w) ==
  /\ pc[w] = "carded"
  /\ askRun' = [askRun EXCEPT ![fire[w]] = IF @ = "running" THEN "waiting_input" ELSE @]
  /\ Goto(w, "waiting")
  /\ UNCHANGED <<routineVars, fireCount, clickFire, arun, gated, bound, open, parked, lead,
                 jobVars, fire, need, batch, answer, host, history>>

ApprovalBinds(w) ==
  /\ pc[w] = "waiting"
  /\ bound' = [bound EXCEPT ![fire[w]] = TRUE]
  /\ Goto(w, "ack")
  /\ UNCHANGED <<routineVars, fireCount, clickFire, arun, gated, askRun, open, parked, lead,
                 jobVars, fire, need, batch, answer, host, history>>

(* enqueue_job, once per automation run. *)
Enqueue(f) == job' = [job EXCEPT ![f] = IF @ = "none" THEN "queued" ELSE @]

(* enqueue_automation_prompt: the job, then the run's state, in two commits. *)
EnqueuePrompt(w) ==
  /\ pc[w] = "ensured" /\ ~need[w]
  /\ Enqueue(fire[w])
  /\ Goto(w, "enqueued")
  /\ UNCHANGED <<routineVars, runVars, attempts, expired, fire, need, batch, answer, host,
                 history>>

EnqueuedRuns(w) ==
  /\ pc[w] = "enqueued"
  /\ arun' = [arun EXCEPT ![fire[w]] = "running"]
  /\ Goto(w, "ack")
  /\ UNCHANGED <<routineVars, fireCount, clickFire, gated, bound, askRun, open, parked, lead,
                 jobVars, fire, need, batch, answer, host, history>>

(* ack_routine advances next_run_at, unless the routine was paused meanwhile. *)
AckRoutine(w) ==
  /\ pc[w] = "ack"
  /\ IF active
     THEN /\ due' = FALSE
          /\ leased' = FALSE
          /\ acked' = IF due THEN acked \cup {slot} ELSE acked
     ELSE UNCHANGED <<due, leased, acked>>
  /\ fire' = [fire EXCEPT ![w] = NoFire]
  /\ need' = [need EXCEPT ![w] = FALSE]
  /\ Goto(w, "jobs")
  /\ UNCHANGED <<active, approval, runVars, jobVars, batch, answer, host, slot, slotOf,
                 approved, sends, crashes>>

-----------------------------------------------------------------------------
(* run_once, second part: jobs.                                              *)

(* Mutant of Eligible: nobody takes over the job of a worker that is gone. *)
EligibleQueuedOnly(f) == job[f] = "queued"

(* Queued (the backoff has passed by then), or running on an expired lease. *)
Eligible(f) == job[f] = "queued" \/ (job[f] = "running" /\ expired[f])

(* claim_jobs; WORKER_CONCURRENCY is not smaller than the jobs of the model. *)
ClaimJobs(w) ==
  LET jobs == {f \in Fires : Eligible(f)} IN
  /\ pc[w] = "jobs"
  /\ job' = [f \in Fires |-> IF f \in jobs THEN "running" ELSE job[f]]
  /\ attempts' = [f \in Fires |-> IF f \in jobs THEN attempts[f] + 1 ELSE attempts[f]]
  /\ expired' = [f \in Fires |-> IF f \in jobs THEN FALSE ELSE expired[f]]
  /\ batch' = [batch EXCEPT ![w] = jobs]
  /\ Goto(w, "work")
  /\ UNCHANGED <<routineVars, runVars, fire, need, answer, host, history>>

JobLeaseExpires(f) ==
  /\ job[f] = "running" /\ ~expired[f]
  /\ "stall" \in Faults \/ \A w \in Workers : f \notin batch[w]
  /\ expired' = [expired EXCEPT ![f] = TRUE]
  /\ UNCHANGED <<routineVars, runVars, job, attempts, workerVars, host, history>>

(* wake_routine: POST the prompt as a send without a command id.  The host   *)
(* takes it while no other handler runs; 409 says that the inbox is full.    *)
WakeRoutine(w, f) ==
  /\ pc[w] = "work"
  /\ f \in batch[w]
  /\ \/ /\ host = NoFire
        /\ AcceptTurn(open, askRun)
        /\ sends' = [sends EXCEPT ![f] = @ + 1]
        /\ \E a \in {"ok"} \cup (IF "lost" \in Faults THEN {"error"} ELSE {}) :
             answer' = [answer EXCEPT ![w] = a]
     \/ /\ host = NoFire
        /\ Behind(askRun)
        /\ answer' = [answer EXCEPT ![w] = "busy"]
        /\ UNCHANGED <<open, lead, askRun, sends>>
     \/ /\ "error" \in Faults
        /\ answer' = [answer EXCEPT ![w] = "error"]
        /\ UNCHANGED <<open, lead, askRun, sends>>
  /\ fire' = [fire EXCEPT ![w] = f]
  /\ Goto(w, "answered")
  /\ UNCHANGED <<routineVars, fireCount, clickFire, arun, gated, bound, parked, jobVars, need,
                 batch, host, slot, slotOf, acked, approved, crashes>>

(* Mutant of AckJob: the job keeps its state. *)
AckJobForgets(f) == job' = [job EXCEPT ![f] = @]

(* ack_job ends a running job; fail_job looks at the attempts only. *)
AckJob(f) == job' = [job EXCEPT ![f] = IF @ = "running" THEN "succeeded" ELSE @]

FailJob(f) == job' = [job EXCEPT ![f] = IF attempts[f] >= MaxAttempts THEN "dead" ELSE "queued"]

SettleJob(w) ==
  /\ pc[w] = "answered"
  /\ IF answer[w] \in {"ok", "busy"} THEN AckJob(fire[w]) ELSE FailJob(fire[w])
  /\ expired' = [expired EXCEPT ![fire[w]] = FALSE]
  /\ Goto(w, "settled")
  /\ UNCHANGED <<routineVars, runVars, attempts, fire, need, batch, answer, host, history>>

(* finish_automation_run, whatever state the run has. *)
FinishAutomationRun(w) ==
  /\ pc[w] = "settled"
  /\ arun' = [arun EXCEPT ![fire[w]] = IF answer[w] = "ok" THEN "succeeded" ELSE "failed"]
  /\ batch' = [batch EXCEPT ![w] = @ \ {fire[w]}]
  /\ fire' = [fire EXCEPT ![w] = NoFire]
  /\ answer' = [answer EXCEPT ![w] = "none"]
  /\ Goto(w, "work")
  /\ UNCHANGED <<routineVars, fireCount, clickFire, gated, bound, askRun, open, parked, lead,
                 jobVars, need, host, history>>

(* The pass is over; the worker sleeps for a while. *)
PassEnds(w) ==
  /\ pc[w] = "work"
  /\ batch[w] = {}
  /\ Goto(w, "idle")
  /\ UNCHANGED <<routineVars, runVars, jobVars, fire, need, batch, answer, host, history>>

(* The process ends and is started again. *)
WorkerRestarts(w) ==
  /\ pc[w] # "idle"
  /\ crashes < MaxCrashes
  /\ crashes' = crashes + 1
  /\ Goto(w, "idle")
  /\ fire' = [fire EXCEPT ![w] = NoFire]
  /\ need' = [need EXCEPT ![w] = FALSE]
  /\ batch' = [batch EXCEPT ![w] = {}]
  /\ answer' = [answer EXCEPT ![w] = "none"]
  /\ UNCHANGED <<routineVars, runVars, jobVars, host, slot, slotOf, acked, approved, sends>>

-----------------------------------------------------------------------------
(* The host.                                                                 *)

(* fire_routine: one automation run per event id.  A run without approval is *)
(* enqueued next; the approval ask is refused while the bot is busy.  Bound: *)
(* the host does not exit between the commits of ensure_approval_ask.        *)
FireRoutine(k) ==
  LET new == clickFire[k] = NoFire
      f == IF new THEN fireCount + 1 ELSE clickFire[k]
      gate == IF new THEN approval ELSE gated[f]
      state == IF new THEN FirstState(gate) ELSE arun[f]
      asks == state = "waiting_for_approval" /\ (new \/ ~bound[f]) /\ ~HasActiveRun IN
  /\ host = NoFire
  /\ new => fireCount < MaxFires
  /\ fireCount' = IF new THEN f ELSE fireCount
  /\ clickFire' = [clickFire EXCEPT ![k] = f]
  /\ arun' = [arun EXCEPT ![f] = state]
  /\ gated' = [gated EXCEPT ![f] = gate]
  /\ askRun' = IF asks THEN [askRun EXCEPT ![f] = "waiting_input"] ELSE askRun
  /\ open' = IF asks THEN Append(open, f) ELSE open
  /\ bound' = IF asks THEN [bound EXCEPT ![f] = TRUE] ELSE bound
  /\ host' = IF state = "queued" THEN f ELSE NoFire
  /\ UNCHANGED <<routineVars, parked, lead, jobVars, workerVars, history>>

(* enqueue_automation_prompt in the host: its first and its second commit. *)
HostEnqueues ==
  /\ host # NoFire /\ job[host] = "none"
  /\ Enqueue(host)
  /\ UNCHANGED <<routineVars, runVars, attempts, expired, workerVars, host, history>>

HostRuns ==
  /\ host # NoFire /\ job[host] # "none"
  /\ arun' = [arun EXCEPT ![host] = "running"]
  /\ host' = NoFire
  /\ UNCHANGED <<routineVars, fireCount, clickFire, gated, bound, askRun, open, parked, lead,
                 jobVars, workerVars, history>>

Without(f) == SelectSeq(open, LAMBDA g : g # f)

(* Mutant of AnswerApproval: any answer starts the prompt. *)
AnswerApprovalAny(f, yes) ==
  /\ host = NoFire
  /\ f \in Range(open) /\ ~(parked[f] /\ askRun[f] = "waiting_input")
  /\ bound[f] /\ arun[f] = "waiting_for_approval"
  /\ open' = Without(f)
  /\ askRun' = [askRun EXCEPT ![f] = "completed"]
  /\ arun' = [arun EXCEPT ![f] = "queued"]
  /\ approved' = IF yes THEN approved \cup {f} ELSE approved
  /\ host' = f
  /\ UNCHANGED <<routineVars, fireCount, clickFire, gated, bound, parked, lead, jobVars,
                 workerVars, slot, slotOf, acked, sends, crashes>>

(* answer_automation_ask, with no condition on the ask's run; the prompt is *)
(* enqueued next.                                                           *)
AnswerApproval(f, yes) ==
  /\ host = NoFire
  /\ f \in Range(open) /\ ~(parked[f] /\ askRun[f] = "waiting_input")
  /\ bound[f] /\ arun[f] = "waiting_for_approval"
  /\ open' = Without(f)
  /\ askRun' = [askRun EXCEPT ![f] = IF yes THEN "completed" ELSE "cancelled"]
  /\ arun' = [arun EXCEPT ![f] = IF yes THEN "queued" ELSE "cancelled"]
  /\ approved' = IF yes THEN approved \cup {f} ELSE approved
  /\ host' = IF yes THEN f ELSE NoFire
  /\ UNCHANGED <<routineVars, fireCount, clickFire, gated, bound, parked, lead, jobVars,
                 workerVars, slot, slotOf, acked, sends, crashes>>

(* After a host restart the ask is taken for a parked question of a lead: *)
(* its run is completed and the bot goes on with the answer.  Bound:      *)
(* nothing happens between the two.                                       *)
AnswerAsQuestion(f) ==
  /\ host = NoFire
  /\ f \in Range(open) /\ parked[f] /\ askRun[f] = "waiting_input"
  /\ AcceptTurn(Without(f), [askRun EXCEPT ![f] = "completed"])
  /\ UNCHANGED <<routineVars, fireCount, clickFire, arun, gated, bound, parked, jobVars,
                 workerVars, host, history>>

OwnerSends ==
  /\ host = NoFire
  /\ AcceptTurn(open, askRun)
  /\ UNCHANGED <<routineVars, fireCount, clickFire, arun, gated, bound, parked, jobVars,
                 workerVars, host, history>>

LeadEnds ==
  /\ host = NoFire
  /\ lead
  /\ lead' = FALSE
  /\ UNCHANGED <<routineVars, fireCount, clickFire, arun, gated, bound, askRun, open, parked,
                 jobVars, workerVars, host, history>>

(* stop_thread cancels the bot's busy runs; cards stay open. *)
StopThread ==
  /\ host = NoFire
  /\ HasActiveRun
  /\ lead' = FALSE
  /\ askRun' = [f \in Fires |-> IF askRun[f] \in BusyApproval THEN "cancelled" ELSE askRun[f]]
  /\ UNCHANGED <<routineVars, fireCount, clickFire, arun, gated, bound, open, parked, jobVars,
                 workerVars, host, history>>

(* recover_orphaned_runs: the ask's run continues while its card is open and *)
(* is parked for recovery otherwise.  Bound: no lead turn is busy.           *)
HostRestarts ==
  /\ ~lead
  /\ crashes < MaxCrashes
  /\ crashes' = crashes + 1
  /\ host' = NoFire
  /\ parked' = [f \in Fires |-> \/ parked[f]
                                \/ /\ askRun[f] \in {"running", "waiting_input"}
                                   /\ f \in Range(open)]
  /\ askRun' = [f \in Fires |-> IF askRun[f] \in {"running", "waiting_input"} /\ f \notin Range(open)
                                THEN "waiting_recovery" ELSE askRun[f]]
  /\ UNCHANGED <<routineVars, fireCount, clickFire, arun, gated, bound, open, lead, jobVars,
                 workerVars, slot, slotOf, acked, approved, sends>>

-----------------------------------------------------------------------------
WorkerStep(w) ==
  \/ ClaimDueRoutines(w) \/ EnsureAutomationRun(w)
  \/ ApprovalCheck(w) \/ ApprovalBegin(w) \/ ApprovalCard(w) \/ ApprovalParks(w)
  \/ ApprovalBinds(w) \/ EnqueuePrompt(w) \/ EnqueuedRuns(w) \/ AckRoutine(w)
  \/ ClaimJobs(w) \/ (\E f \in Fires : WakeRoutine(w, f)) \/ SettleJob(w)
  \/ FinishAutomationRun(w) \/ PassEnds(w)

OwnerStep ==
  \/ \E on \in BOOLEAN, gate \in Approvals : EditRoutine(on, gate)
  \/ \E k \in Clicks : FireRoutine(k)
  \/ \E f \in Fires, yes \in BOOLEAN : AnswerApproval(f, yes)
  \/ \E f \in Fires : AnswerAsQuestion(f)
  \/ OwnerSends \/ StopThread

Next ==
  \/ \E w \in Workers : WorkerStep(w) \/ WorkerRestarts(w)
  \/ OwnerStep
  \/ HostEnqueues \/ HostRuns \/ LeadEnds \/ HostRestarts
  \/ TimeComes \/ RoutineLeaseExpires \/ \E f \in Fires : JobLeaseExpires(f)

Spec == Init /\ [][Next]_vars

(* Workers, the host's handlers and turns go on; leases run out. *)
FairSpec ==
  /\ Spec
  /\ \A w \in Workers : WF_vars(WorkerStep(w))
  /\ WF_vars(HostEnqueues \/ HostRuns) /\ WF_vars(LeadEnds) /\ WF_vars(RoutineLeaseExpires)
  /\ \A f \in Fires : WF_vars(JobLeaseExpires(f))

-----------------------------------------------------------------------------
(* Properties.                                                               *)

(* A prompt that needs approval reaches the bot only after the owner approved *)
(* that very fire, also when the routine is edited, a worker retries or a     *)
(* process restarts in between (answer_automation_ask, claim_jobs).           *)
PromptNeedsApproval == \A f \in Fires : sends[f] > 0 /\ gated[f] => f \in approved

(* No job, no prompt and no state that leads to one. *)
Held(f) == job[f] = "none" /\ sends[f] = 0 /\ host # f

(* Between claim and ack a worker has a trigger key of its own and acts on   *)
(* the snapshot that decided the gate.                                       *)
WorkerGate(w) ==
  Processes(w) =>
    /\ fire[w] \in 1..fireCount
    /\ \A k \in Clicks : clickFire[k] # fire[w]
    /\ \A v \in Workers \ {w} : Processes(v) => fire[v] # fire[w]
    /\ IF pc[w] = "claimed"
       THEN ~gated[fire[w]] /\ arun[fire[w]] = "none" /\ Held(fire[w])
       ELSE gated[fire[w]] = need[w]
    /\ pc[w] = "enqueued" => ~need[w]

(* A claimed job exists, and a worker answers for a job it claimed. *)
BatchGate(w) ==
  /\ \A f \in batch[w] : job[f] # "none"
  /\ pc[w] \in {"answered", "settled"} => fire[w] \in batch[w]

(* Why PromptNeedsApproval holds: every trigger key is used by one worker or  *)
(* one event id, and a gated fire is held until it is approved                *)
(* (claim_due_routines, ensure_automation_run, enqueue_automation_prompt).    *)
GateInvariant ==
  /\ \A k \in Clicks : clickFire[k] \in 0..fireCount
  /\ \A f \in Fires : f > fireCount => ~gated[f] /\ arun[f] = "none" /\ Held(f)
  /\ \A f \in Fires : gated[f] /\ f \notin approved =>
       Held(f) /\ arun[f] \in {"waiting_for_approval", "cancelled"}
  /\ \A w \in Workers : WorkerGate(w) /\ BatchGate(w)

(* The prompt of one fire reaches the bot more than once only when a worker *)
(* died between the POST and ack_job; jobs without an idempotent host rely  *)
(* on the lease and on the ack for this (claim_jobs, ack_job).              *)
PromptOnce == \A f \in Fires : sends[f] <= 1 + crashes

(* A slot of the routine is acknowledged only after its prompt is a durable *)
(* job or its approval ask is bound (run_once: claim, ensure, enqueue, ack). *)
FireKept ==
  \A s \in acked : \E f \in Fires : slotOf[f] = s /\ (job[f] # "none" \/ bound[f])

(* Why FireKept holds of a routine without approval: until the ack the slot   *)
(* stays where the claim found it (no worker stalls), and nothing but the     *)
(* commit of the job lies between the claim's fire and its ack.               *)
KeptFacts ==
  /\ ~approval
  /\ \A w \in Workers :
       /\ Processes(w) => ~need[w] /\ slotOf[fire[w]] = slot
       /\ pc[w] \notin {"free", "begun", "carded", "waiting"}
       /\ pc[w] \in {"enqueued", "ack"} => job[fire[w]] # "none"
  /\ \A s \in acked : \E f \in Fires : slotOf[f] = s /\ job[f] # "none"

(* The worker has the job of the fire and has not settled it. *)
WorksOn(w, f) == f \in batch[w] /\ ~(pc[w] = "settled" /\ fire[w] = f)

(* Why PromptOnce holds: a job that is not settled is one worker's, whose     *)
(* lease does not run out while it lives, and beyond one for every crash a    *)
(* prompt is sent only on the way to the ack or before it.                    *)
SendFacts ==
  /\ \A w \in Workers : pc[w] \notin {"work", "answered", "settled"} => batch[w] = {}
  /\ \A w \in Workers, f \in Fires : WorksOn(w, f) =>
       /\ job[f] = "running" /\ ~expired[f]
       /\ \A v \in Workers \ {w} : ~WorksOn(v, f)
  /\ \A f \in Fires : sends[f] <= 1 + crashes
  /\ \A f \in Fires :
       \/ sends[f] <= crashes
       \/ job[f] \in {"succeeded", "dead"}
       \/ \E w \in Workers : pc[w] = "answered" /\ fire[w] = f /\ answer[w] = "ok"

(* The ask's run completes only by an approval, which queues the prompt, also *)
(* after a host restart (answer_automation_ask; answer_thread_question tries  *)
(* the parked questions of leads first).                                      *)
ApprovalResumes ==
  [][\A f \in Fires :
       arun[f] = "waiting_for_approval" /\ bound[f] /\ askRun[f] # "completed"
         /\ askRun'[f] = "completed"
       => arun'[f] = "queued"]_vars

(* Every queued job ends as succeeded or dead (fail_job's retries, expired *)
(* leases).                                                                *)
JobSettles == \A f \in Fires : job[f] = "queued" ~> job[f] \in {"succeeded", "dead"}
=============================================================================
