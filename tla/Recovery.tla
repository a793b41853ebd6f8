------------------------------ MODULE Recovery ------------------------------
(***************************************************************************)
(* What a boot does with the runs the last process left, one commit at a   *)
(* time, when the process may exit between any two of them: the wait row   *)
(* (run_waits), the request a job waits on, the status of the run and the  *)
(* recovery card.  Nothing is served while it boots.  Then the owner       *)
(* answers what was kept or the card, and stops what they like.            *)
(*                                                                         *)
(* A request of a leftover has no job, or one that has not ended (the      *)
(* module OwnerJobs has the others); every leftover is of a bot of its     *)
(* own, as a bot has one busy run.                                         *)
(***************************************************************************)
EXTENDS Integers, FiniteSets

CONSTANTS
  Leftovers,       \* the runs the last process left
  MaxBootExits     \* bound: exits of the host

ASSUME RecoveryAssumption == MaxBootExits \in Nat

VARIABLES
  left,         \* runs.status
  request,      \* the consent request of the run: its status and its job_status
  question,     \* the question in the thread
  wait,         \* the row of run_waits
  card,         \* the recovery card: its status
  boot,         \* what the process is doing: [at, run, todo]
  handler,      \* the run a handler has answered and not yet ended
  bootExits

recoveryVars == <<left, request, question, wait, card, boot, handler, bootExits>>

NoRequest == [status |-> "none", job |-> "none"]
NoWait == [path |-> "none", recovered |-> FALSE, bound |-> "none"]
NoLeftover == "none"
Down == [at |-> "down", run |-> NoLeftover, todo |-> {}]

Asks(job) == [status |-> "pending", job |-> job]

(* The places a turn can be in when its process ends. *)
TurnPlaces ==
       {[left |-> s, request |-> NoRequest, question |-> "none"]
           : s \in {"running", "waiting_takeover"}}
  \cup {[left |-> "running", request |-> Asks(j), question |-> "none"]
           : j \in {"queued", "acknowledged"}}
  \cup {[left |-> "waiting_input", request |-> Asks(j), question |-> "none"]
           : j \in {"none", "queued"}}
  \cup {[left |-> "waiting_input", request |-> NoRequest, question |-> "pending"]}

(* Runs, requests, questions, waits and cards are of their types. *)
RecoveryTypeOK ==
  /\ left \in [Leftovers -> {"running", "waiting_input", "waiting_takeover",
                             "waiting_recovery", "ended"}]
  /\ \A r \in Leftovers :
       /\ request[r].status \in {"none", "pending", "once", "deny"}
       /\ request[r].job \in {"none", "queued", "acknowledged", "failed"}
       /\ question[r] \in {"none", "pending", "answered"}
       /\ wait[r].path \in {"none", "continue", "check", "new_attempt"}
       /\ wait[r].bound \in {"none", "ask", "card"}
       /\ card[r] \in {"none", "pending", "resolved"}
  /\ boot.run \in Leftovers \cup {NoLeftover} /\ boot.todo \subseteq Leftovers
  /\ handler \in Leftovers \cup {NoLeftover}
  /\ bootExits \in 0..MaxBootExits

RecoveryInit ==
  /\ \E place \in [Leftovers -> TurnPlaces] :
       /\ left = [r \in Leftovers |-> place[r].left]
       /\ request = [r \in Leftovers |-> place[r].request]
       /\ question = [r \in Leftovers |-> place[r].question]
  /\ wait = [r \in Leftovers |-> NoWait]
  /\ card = [r \in Leftovers |-> "none"]
  /\ boot = Down
  /\ handler = NoLeftover
  /\ bootExits = 0

(***************************************************************************)
(* The boot.                                                               *)
(***************************************************************************)

(* recover_orphaned_runs reads the runs; waiting_recovery is not among them. *)
RecoverOrphanedRuns ==
  /\ boot.at = "down"
  /\ boot' = [Down EXCEPT !.at = "next",
                          !.todo = {r \in Leftovers : left[r] \in
                                      {"running", "waiting_input", "waiting_takeover"}}]
  /\ UNCHANGED <<left, request, question, wait, card, handler, bootExits>>

PendingAskForRun(r) == question[r] = "pending"

PathOf(r) ==
  CASE left[r] = "waiting_takeover" -> "new_attempt"
    [] left[r] # "waiting_takeover" /\ request[r].status = "pending" ->
         (CASE request[r].job = "acknowledged" -> "check"
            [] request[r].job = "queued" -> "new_attempt"
            [] OTHER -> "continue")
    [] OTHER -> IF PendingAskForRun(r) THEN "continue" ELSE "check"

(* The upsert: a message that is not given leaves the one that is there. *)
BindRunWait(r, path, message) ==
  wait' = [wait EXCEPT ![r].path = path,
                       ![r].bound = IF message = "none" THEN @ ELSE message]

RecoverNext(r) ==
  LET asked == left[r] = "waiting_input" /\ (request[r].status = "pending" \/ PendingAskForRun(r))
  IN
  /\ boot.at = "next" /\ r \in boot.todo
  /\ BindRunWait(r, PathOf(r), IF asked THEN "ask" ELSE "none")
  /\ boot' = [at |-> "bound", run |-> r, todo |-> boot.todo \ {r}]
  /\ UNCHANGED <<left, request, question, card, handler, bootExits>>

To(at) == boot' = [boot EXCEPT !.at = at]

KeepsParked(r) == wait[r].path = "continue"

(* mark_run_wait_recovered, and what the path asks for next. *)
MarkRunWaitRecovered(r) ==
  /\ boot.at = "bound" /\ boot.run = r
  /\ wait' = [wait EXCEPT ![r].recovered = TRUE]
  /\ To(IF KeepsParked(r) THEN "next"
        ELSE IF request[r].status = "pending" THEN "closing" ELSE "parking")
  /\ UNCHANGED <<left, request, question, card, handler, bootExits>>

JobFails(r) == request' = [request EXCEPT ![r].job = IF @ \in {"queued", "acknowledged"} THEN "failed" ELSE @]
Denied(r) == request' = [request EXCEPT ![r].status = IF @ = "pending" THEN "deny" ELSE @]

(* A mutant: the request is denied first. *)
CloseSwapped(r) ==
  /\ boot.run = r
  /\ \/ boot.at = "closing" /\ Denied(r) /\ To("denying")
     \/ boot.at = "denying" /\ JobFails(r) /\ To("parking")
  /\ UNCHANGED <<left, question, wait, card, handler, bootExits>>

(* _close_non_continue_consent: finish_consent_job, then answer_consent_request with *)
(* deny; the message that shows the request follows it.                              *)
CloseNonContinueConsent(r) ==
  /\ boot.run = r
  /\ \/ boot.at = "closing" /\ JobFails(r) /\ To("denying")
     \/ boot.at = "denying" /\ Denied(r) /\ To("parking")
  /\ UNCHANGED <<left, question, wait, card, handler, bootExits>>

(* _park_recovery_run: the status, then the message, then the row that binds them. *)
ParkRecoveryRun(r) ==
  /\ boot.at = "parking" /\ boot.run = r
  /\ left' = [left EXCEPT ![r] = "waiting_recovery"]
  /\ To("parked")
  /\ UNCHANGED <<request, question, wait, card, handler, bootExits>>

AppendCard(r) ==
  /\ boot.at = "parked" /\ boot.run = r
  /\ card' = [card EXCEPT ![r] = "pending"]
  /\ To("carded")
  /\ UNCHANGED <<left, request, question, wait, handler, bootExits>>

BindCard(r) ==
  /\ boot.at = "carded" /\ boot.run = r
  /\ BindRunWait(r, wait[r].path, "card")
  /\ To("next")
  /\ UNCHANGED <<left, request, question, card, handler, bootExits>>

Serve ==
  /\ boot.at = "next" /\ boot.todo = {}
  /\ boot' = [Down EXCEPT !.at = "serving"]
  /\ UNCHANGED <<left, request, question, wait, card, handler, bootExits>>

(* The process exits, while it boots, while it serves, or inside a handler. *)
BootExits ==
  /\ boot.at # "down" /\ bootExits < MaxBootExits
  /\ bootExits' = bootExits + 1
  /\ boot' = Down /\ handler' = NoLeftover
  /\ UNCHANGED <<left, request, question, wait, card>>

(***************************************************************************)
(* The owner.  A handler awaits nothing before it has ended the run.       *)
(***************************************************************************)

Serving == boot.at = "serving" /\ handler = NoLeftover

(* resolve_run_recovery: the card the row names, pending, or answered so already. *)
ResolveRunRecovery(r) ==
  /\ Serving
  /\ left[r] = "waiting_recovery"
  /\ wait[r].bound = "card" /\ card[r] # "none"
  /\ card' = [card EXCEPT ![r] = "resolved"]
  /\ handler' = r
  /\ UNCHANGED <<left, request, question, wait, boot, bootExits>>

(* answer_question of a kept question: the block, then the run when it is parked. *)
AnswerQuestion(r) ==
  /\ Serving /\ question[r] = "pending"
  /\ question' = [question EXCEPT ![r] = "answered"]
  /\ handler' = IF left[r] = "waiting_input" THEN r ELSE NoLeftover
  /\ UNCHANGED <<left, request, wait, card, boot, bootExits>>

(* The answer to a kept request. *)
AnswerConsent(r) ==
  /\ Serving /\ request[r].status = "pending"
  /\ \E decision \in {"once", "deny"} : request' = [request EXCEPT ![r].status = decision]
  /\ handler' = IF left[r] = "waiting_input" THEN r ELSE NoLeftover
  /\ UNCHANGED <<left, question, wait, card, boot, bootExits>>

(* complete_parked_run or fail_parked_run. *)
EndParkedRun ==
  /\ handler # NoLeftover
  /\ left' = [left EXCEPT ![handler] = "ended"]
  /\ handler' = NoLeftover
  /\ UNCHANGED <<request, question, wait, card, boot, bootExits>>

(* Stop cancels every run of the bot. *)
StopThread(r) ==
  /\ Serving /\ left[r] # "ended"
  /\ left' = [left EXCEPT ![r] = "ended"]
  /\ UNCHANGED <<request, question, wait, card, boot, handler, bootExits>>

RecoveryNext ==
  \/ RecoverOrphanedRuns \/ Serve \/ EndParkedRun \/ BootExits
  \/ \E r \in Leftovers :
       \/ RecoverNext(r) \/ MarkRunWaitRecovered(r) \/ CloseNonContinueConsent(r)
       \/ ParkRecoveryRun(r) \/ AppendCard(r) \/ BindCard(r)
       \/ ResolveRunRecovery(r) \/ AnswerQuestion(r) \/ AnswerConsent(r)
       \/ StopThread(r)

RecoverySpec == RecoveryInit /\ [][RecoveryNext]_recoveryVars

(***************************************************************************)
(* Properties.                                                             *)
(***************************************************************************)

(* CHANGELOG: "Queued owner jobs are not replayed."  Over every cut of the boot and every *)
(* number of boots, a job of the last process is not handed to a paired PC: once the host *)
(* serves, none is open.                                                                  *)
JobsStayClosed ==
  boot.at = "serving" => \A r \in Leftovers : request[r].job \notin {"queued", "acknowledged"}

(* The docstring of recover_orphaned_runs: "keep parked waits, or show a recovery card". *)
(* Once the host serves, a run that has not ended waits for an answer the owner can give: *)
(* a question or request of a parked run, or the card that its row names.                 *)
WaitOrCard ==
  Serving =>
    \A r \in Leftovers : left[r] # "ended" =>
      \/ left[r] = "waiting_input" /\ (question[r] = "pending" \/ request[r].status = "pending")
      \/ left[r] = "waiting_recovery" /\ wait[r].bound = "card" /\ card[r] # "none"
=============================================================================
