----------------------------- MODULE OwnerJobs -----------------------------
(***************************************************************************)
(* Jobs the agent's owner tools run on the owner's PC: the consent card or *)
(* standing grant that permits one, the claim of a window, the file and    *)
(* result uploads, the tool thread that waits for them, Stop, and a host   *)
(* restart with its recovery pass.                                         *)
(*                                                                         *)
(* The HTTP handlers of ConsentHub run on the event loop and never wait in *)
(* the middle: loop is the handler under way, so handlers do not overlap,  *)
(* but the tool threads run between its steps.  A job is one call of an    *)
(* owner tool; jobs are numbered in the order of created_at.               *)
(***************************************************************************)
EXTENDS Integers, FiniteSets, FiniteSetsExt

CONSTANTS
  Windows,      \* the owner's paired windows, each a device
  OldWindows,   \* windows that return results without ACK
  Callers,      \* subset of {"lead", "worker"}: who calls owner tools
  Kinds,        \* subset of {"ask", "auto", "read"}: what they call
  MaxJobs,      \* bound: calls of owner tools
  MaxOpens,     \* bound: jobs taken up, counted per window
  MaxRestarts   \* bound: exits of the host process

Jobs == 1..MaxJobs
NoWindow == "no window"
NoLoop == [op |-> "none"]

ASSUME OwnerJobsAssumption ==
  /\ MaxJobs \in Nat /\ MaxOpens \in Nat /\ MaxRestarts \in Nat
  /\ OldWindows \subseteq Windows
  /\ Callers \subseteq {"lead", "worker"} /\ Kinds \subseteq {"ask", "auto", "read"}
  /\ NoWindow \notin Windows

OpenStatus == {"queued", "acknowledged"}
TerminalStatus == {"completed", "failed", "timed_out"}

VARIABLES
  \* Postgres
  run,          \* runs.status of the lead's run
  caller,       \* whose run_id the request has, "none" before the call
  kind,         \* ask: with a card; auto: no card; read: no card, a file read
  status,       \* consent_requests.status
  jobStatus,    \* consent_requests.job_status
  grants,       \* devices with a consent_grants row
  \* the host process
  tool,         \* where the tool thread of a call is
  decision,     \* ConsentHub._decisions
  claim,        \* ConsentHub._job_claims
  files,        \* ConsentHub._files
  results,      \* ConsentHub._results: who delivered it and what it says
  loop,         \* the handler on the event loop
  \* the windows
  win,          \* where a window is with a job
  \* history
  got,          \* what the tool call returned
  ran,          \* windows that did the job's work on the PC
  winner,       \* the window whose ACK the host accepted
  restarts,     \* exits of the host so far
  leftover      \* jobs that were open when the host restarted

rows == <<run, caller, kind, status, jobStatus, grants>>
hub == <<decision, claim, files, results>>
jobHistory == <<got, ran, winner, restarts, leftover>>
ownerVars == <<rows, tool, hub, loop, win, jobHistory>>

NoResult == [by |-> NoWindow, says |-> "none"]

(* The rows, the hub's dictionaries and the threads have values of their types. *)
OwnerTypeOK ==
  /\ run \in {"running", "waiting_input", "waiting_recovery", "cancelled"}
  /\ caller \in [Jobs -> Callers \cup {"none"}]
  /\ kind \in [Jobs -> {"none", "ask", "auto", "read"}]
  /\ status \in [Jobs -> {"none", "pending", "once", "always", "deny"}]
  /\ jobStatus \in [Jobs -> {"none"} \cup OpenStatus \cup TerminalStatus]
  /\ grants \subseteq Windows
  /\ tool \in [Jobs -> {"none", "start", "asking", "take", "waiting", "file", "filing", "giveup",
                        "done", "dead"}]
  /\ decision \in [Jobs -> {"none", "once", "always", "deny"}]
  /\ claim \in [Jobs -> Windows \cup {NoWindow}]
  /\ files \subseteq Jobs
  /\ results \in [Jobs -> [by : Windows \cup {NoWindow}, says : {"none", "ok", "bad", "stopped"}]]
  /\ \/ loop = NoLoop
     \/ loop \in [op : {"finish", "store"}, job : Jobs, by : Windows \cup {NoWindow},
                 says : {"ok", "bad", "stopped"}, rest : SUBSET Jobs]
     \/ loop \in [op : {"decide"}, job : Jobs, says : {"once", "always", "deny"}]
  /\ win \in [Windows -> [Jobs -> {"idle", "claiming", "work", "upload", "report", "answer",
                                   "done"}]]
  /\ got \in [Jobs -> {"none", "ok", "bad", "stopped", "denied", "nothing"}]
  /\ ran \in [Jobs -> SUBSET Windows]
  /\ winner \in [Jobs -> Windows \cup {NoWindow}]
  /\ restarts \in 0..MaxRestarts
  /\ leftover \subseteq Jobs

OwnerInit ==
  /\ run = "running"
  /\ caller = [j \in Jobs |-> "none"]
  /\ kind = [j \in Jobs |-> "none"]
  /\ status = [j \in Jobs |-> "none"]
  /\ jobStatus = [j \in Jobs |-> "none"]
  /\ grants = {}
  /\ tool = [j \in Jobs |-> "none"]
  /\ decision = [j \in Jobs |-> "none"]
  /\ claim = [j \in Jobs |-> NoWindow]
  /\ files = {}
  /\ results = [j \in Jobs |-> NoResult]
  /\ loop = NoLoop
  /\ win = [w \in Windows |-> [j \in Jobs |-> "idle"]]
  /\ got = [j \in Jobs |-> "none"]
  /\ ran = [j \in Jobs |-> {}]
  /\ winner = [j \in Jobs |-> NoWindow]
  /\ restarts = 0
  /\ leftover = {}

Open(j) == jobStatus[j] \in OpenStatus

(***************************************************************************)
(* The tool thread.                                                        *)
(***************************************************************************)

(* mark_run_waiting_input and mark_run_running leave a run that is over alone. *)
(* A worker's run is a subagent row, which neither of them touches.            *)
MarkWaiting(j) ==
  run' = IF caller'[j] = "lead" /\ run = "running" THEN "waiting_input" ELSE run
MarkRunning(j) ==
  run' = IF caller[j] = "lead" /\ run = "waiting_input" THEN "running" ELSE run

(* An owner tool starts: execute has found the run live.  The run's turn and its tools *)
(* end with the process.                                                               *)
OwnerToolStarts(j) ==
  /\ tool[j] = "none" /\ restarts = 0
  /\ \A i \in Jobs : i < j => tool[i] # "none"
  /\ run \in {"running", "waiting_input"}
  /\ tool' = [tool EXCEPT ![j] = "start"]
  /\ UNCHANGED <<rows, hub, loop, win, jobHistory>>

CreateRequest(j, c, k) ==
  /\ tool[j] = "start"
  /\ \A i \in Jobs : i < j => tool[i] # "start"
  /\ caller' = [caller EXCEPT ![j] = c]
  /\ kind' = [kind EXCEPT ![j] = k]
  /\ status' = [status EXCEPT ![j] = "pending"]
  /\ jobStatus' = [jobStatus EXCEPT ![j] = "queued"]
  /\ MarkWaiting(j)
  /\ UNCHANGED <<grants, hub, loop, win, jobHistory>>

(* The consent card of a device without a grant. *)
OfferJob(j, c, d) ==
  /\ "ask" \in Kinds
  /\ d \notin grants
  /\ CreateRequest(j, c, "ask")
  /\ tool' = [tool EXCEPT ![j] = "asking"]

PullOwnerAction(j, c, k) ==
  /\ k \in Kinds
  /\ CreateRequest(j, c, k)
  /\ tool' = [tool EXCEPT ![j] = "take"]

(* The file is read, or listed, without a card. *)
ReadOwnerFile(j, c) == PullOwnerAction(j, c, "read")

WriteOwnerFile(j, c, d) ==
  IF d \in grants THEN PullOwnerAction(j, c, "auto") ELSE OfferJob(j, c, d)

(* A read-only command needs no card, any other is asked for as a write is. *)
RunOwnerCommand(j, c, d) ==
  \/ PullOwnerAction(j, c, "auto")
  \/ WriteOwnerFile(j, c, d)

(* require: the waiter is set, or the time limit passes and the default is deny. *)
ConsentDecided(j) ==
  /\ tool[j] = "asking"
  /\ LET allowed == decision[j] \in {"once", "always"} IN
     /\ tool' = [tool EXCEPT ![j] = IF allowed THEN "take" ELSE "done"]
     /\ got' = IF allowed THEN got ELSE [got EXCEPT ![j] = "denied"]
  /\ MarkRunning(j)
  /\ UNCHANGED <<caller, kind, status, jobStatus, grants, hub, loop, win, ran, winner, restarts,
                 leftover>>

Returns(j, what) ==
  /\ tool' = [tool EXCEPT ![j] = "done"]
  /\ got' = [got EXCEPT ![j] = what]
  /\ IF kind[j] = "ask" THEN UNCHANGED run ELSE MarkRunning(j)
  /\ UNCHANGED <<caller, kind, status, grants, decision, loop, win, ran, winner, restarts, leftover>>

PopResult(j) ==
  /\ results[j] # NoResult
  /\ results' = [results EXCEPT ![j] = NoResult]
  /\ Returns(j, results[j].says)
  /\ UNCHANGED <<jobStatus, claim, files>>

(* Without a result: a read looks for the file, anything else gives up. *)
AfterResult(j) == IF kind[j] = "read" THEN "file" ELSE "giveup"

(* take_owner_result: pop what is there, or register a waiter; when the waiter is *)
(* set or the time limit passes, pop what is there then.                          *)
TakeOwnerResult(j) ==
  \/ tool[j] \in {"take", "waiting"} /\ PopResult(j)
  \/ /\ tool[j] \in {"take", "waiting"}
     /\ results[j] = NoResult
     /\ tool' = [tool EXCEPT ![j] = IF tool[j] = "take" THEN "waiting" ELSE AfterResult(j)]
     /\ UNCHANGED <<rows, hub, loop, win, jobHistory>>

(* take_owner_file: the same with the file; a result already there ends the wait. *)
TakeOwnerFile(j) ==
  /\ tool[j] \in {"file", "filing"}
  /\ \/ /\ j \in files
        /\ files' = files \ {j}
        /\ Returns(j, "ok")
        /\ UNCHANGED <<jobStatus, claim, results>>
     \/ /\ j \notin files
        /\ tool' = [tool EXCEPT ![j] =
                      IF tool[j] = "file" /\ results[j] = NoResult THEN "filing" ELSE "giveup"]
        /\ UNCHANGED <<rows, hub, loop, win, jobHistory>>

(* A mutant: the UPDATE has no condition on job_status. *)
TimeoutOwnerJobAlways(j) ==
  /\ tool[j] = "giveup"
  /\ jobStatus' = [jobStatus EXCEPT ![j] = "timed_out"]
  /\ claim' = [claim EXCEPT ![j] = NoWindow]
  /\ Returns(j, "nothing")
  /\ UNCHANGED <<files, results>>

(* timeout_owner_job ends the job unless it has ended; the call returns nothing either way. *)
TimeoutOwnerJob(j) ==
  /\ tool[j] = "giveup"
  /\ jobStatus' = IF Open(j) THEN [jobStatus EXCEPT ![j] = "timed_out"] ELSE jobStatus
  /\ claim' = IF Open(j) THEN [claim EXCEPT ![j] = NoWindow] ELSE claim
  /\ Returns(j, "nothing")
  /\ UNCHANGED <<files, results>>

(***************************************************************************)
(* The windows and the handlers they call.                                 *)
(***************************************************************************)

(* pending_auto_consent_ids: what a thread snapshot offers a window. *)
PendingAuto(j) == kind[j] \in {"auto", "read"} /\ status[j] = "pending" /\ jobStatus[j] = "queued"

(* The window takes up an automatic job, or the owner clicks Allow on the card. *)
WindowOpens(w, j) ==
  /\ win[w][j] = "idle"
  /\ Cardinality({p \in Windows \X Jobs : win[p[1]][p[2]] # "idle"}) < MaxOpens
  /\ PendingAuto(j) \/ (kind[j] = "ask" /\ status[j] = "pending")
  /\ win' = [win EXCEPT ![w][j] = "claiming"]
  /\ UNCHANGED <<rows, tool, hub, loop, jobHistory>>

(* What a window does when it is through with the work: it answers the card, if any. *)
AfterWork(j) == IF kind[j] = "ask" THEN "answer" ELSE "done"

(* A mutant: acknowledge_consent_job takes any open job. *)
ClaimOwnerJobTwice(w, j) ==
  /\ win[w][j] = "claiming" /\ w \notin OldWindows
  /\ loop = NoLoop /\ Open(j)
  /\ jobStatus' = [jobStatus EXCEPT ![j] = "acknowledged"]
  /\ claim' = [claim EXCEPT ![j] = w]
  /\ winner' = [winner EXCEPT ![j] = w]
  /\ win' = [win EXCEPT ![w][j] = "work"]
  /\ UNCHANGED <<run, caller, kind, status, grants, tool, decision, files, results, loop, got, ran,
                 restarts, leftover>>

(* claim_owner_job: one ACK wins; a 409 makes the window stand down. *)
ClaimOwnerJob(w, j) ==
  /\ win[w][j] = "claiming" /\ w \notin OldWindows
  /\ loop = NoLoop
  /\ \/ /\ jobStatus[j] = "queued"
        /\ jobStatus' = [jobStatus EXCEPT ![j] = "acknowledged"]
        /\ claim' = [claim EXCEPT ![j] = w]
        /\ winner' = [winner EXCEPT ![j] = w]
        /\ \/ win' = [win EXCEPT ![w][j] = "work"]
           \/ win' = [win EXCEPT ![w][j] = "report"]  \* the response is lost
     \/ /\ jobStatus[j] # "queued"
        /\ win' = [win EXCEPT ![w][j] = AfterWork(j)]
        /\ UNCHANGED <<jobStatus, claim, winner>>
  /\ UNCHANGED <<run, caller, kind, status, grants, tool, decision, files, results, loop, got, ran,
                 restarts, leftover>>

(* An old window works without ACK; the GET or the ACK of a new one may not arrive. *)
SkipClaim(w, j) ==
  /\ win[w][j] = "claiming"
  /\ win' = [win EXCEPT ![w][j] = IF w \in OldWindows THEN "work" ELSE "report"]
  /\ UNCHANGED <<rows, tool, hub, loop, jobHistory>>

(* The work on the PC, which may fail before it has an effect. *)
WindowWorks(w, j) ==
  /\ win[w][j] = "work"
  /\ ran' \in {ran, [ran EXCEPT ![j] = @ \cup {w}]}
  /\ win' = [win EXCEPT ![w][j] = "upload"]
  /\ UNCHANGED <<rows, tool, hub, loop, got, winner, restarts, leftover>>

(* _owner_claim_matches: without a claim on record anybody's result will do. *)
OwnerClaimMatches(w, j) == claim[j] \in {NoWindow, w}

Finishing(j, w, says, rest) ==
  [op |-> "finish", job |-> j, by |-> w, says |-> says, rest |-> rest]

(* upload_consent_file and upload_consent_result up to finish_consent_job; *)
(* a refused upload is a 409 that the window does not retry.               *)
UploadResult(w, j, says) ==
  /\ win[w][j] = "upload"
  /\ says = "ok" => w \in ran[j]
  /\ loop = NoLoop
  /\ win' = [win EXCEPT ![w][j] = AfterWork(j)]
  /\ IF Open(j) /\ OwnerClaimMatches(w, j)
       THEN /\ loop' = Finishing(j, w, says, {})
            /\ files' = IF kind[j] = "read" /\ says = "ok" THEN files \cup {j} ELSE files
       ELSE UNCHANGED <<loop, files>>
  /\ UNCHANGED <<rows, tool, decision, claim, results, jobHistory>>

(* reportOwnerJobError after a GET or an ACK without a response: it carries no claim. *)
ReportOwnerJobError(w, j) ==
  /\ win[w][j] = "report"
  /\ loop = NoLoop
  /\ win' = [win EXCEPT ![w][j] = AfterWork(j)]
  /\ loop' = IF Open(j) /\ claim[j] = NoWindow THEN Finishing(j, w, "bad", {}) ELSE NoLoop
  /\ UNCHANGED <<rows, tool, hub, jobHistory>>

(* A mutant: the payload's word is stored as the status. *)
FinishConsentJobRaw ==
  /\ loop # NoLoop /\ loop.op = "finish"
  /\ jobStatus' = [jobStatus EXCEPT ![loop.job] = loop.says]
  /\ loop' = [loop EXCEPT !.op = "store"]
  /\ UNCHANGED <<run, caller, kind, status, grants, tool, hub, win, jobHistory>>

(* finish_consent_job: only an open job ends.  An upload for a job that has ended *)
(* meanwhile is refused; Stop stores its result all the same.                     *)
FinishConsentJob ==
  /\ loop # NoLoop /\ loop.op = "finish"
  /\ LET j == loop.job IN
     /\ jobStatus' = IF Open(j)
                       THEN [jobStatus EXCEPT ![j] = IF loop.says = "ok" THEN "completed" ELSE "failed"]
                       ELSE jobStatus
     /\ loop' = IF Open(j) \/ loop.says = "stopped" THEN [loop EXCEPT !.op = "store"] ELSE NoLoop
  /\ UNCHANGED <<run, caller, kind, status, grants, tool, hub, win, jobHistory>>

(* The rest of put_owner_result and of one turn of cancel_owner_jobs's loop. *)
StoreResult ==
  /\ loop # NoLoop /\ loop.op = "store"
  /\ LET j == loop.job IN
     /\ results' = [results EXCEPT ![j] = [by |-> loop.by, says |-> loop.says]]
     /\ claim' = IF loop.says = "stopped" THEN claim ELSE [claim EXCEPT ![j] = NoWindow]
     /\ loop' = IF loop.rest = {} THEN NoLoop
                ELSE Finishing(Min(loop.rest), NoWindow, "stopped", loop.rest \ {Min(loop.rest)})
  /\ UNCHANGED <<rows, tool, decision, files, win, jobHistory>>

(* answer: the first answer to a pending card counts; Always saves a grant for the *)
(* answering device.  The waiter hears of it in a second step.                     *)
AnswerConsent(w, j, d) ==
  /\ loop = NoLoop
  /\ kind[j] = "ask"
  /\ \/ win[w][j] = "answer" /\ d \in {"once", "always"}
     \/ win[w][j] = "idle" /\ d = "deny" /\ status[j] = "pending"
  /\ win' = [win EXCEPT ![w][j] = "done"]
  /\ IF status[j] = "pending"
       THEN /\ status' = [status EXCEPT ![j] = d]
            /\ grants' = IF d = "always" THEN grants \cup {w} ELSE grants
            /\ loop' = [op |-> "decide", job |-> j, says |-> d]
       ELSE UNCHANGED <<status, grants, loop>>
  /\ UNCHANGED <<run, caller, kind, jobStatus, tool, hub, jobHistory>>

SetDecision ==
  /\ loop # NoLoop /\ loop.op = "decide"
  /\ decision' = [decision EXCEPT ![loop.job] = loop.says]
  /\ loop' = NoLoop
  /\ UNCHANGED <<rows, tool, claim, files, results, win, jobHistory>>

(* Stop ends the run and the live workers, then cancel_owner_jobs ends their open jobs; a *)
(* restart has ended the workers before it.                                              *)
OwnerStops ==
  /\ loop = NoLoop
  /\ run \in {"running", "waiting_input"}
  /\ run' = "cancelled"
  /\ LET open == {j \in Jobs : Open(j) /\ (caller[j] = "worker" => j \notin leftover)} IN
     loop' = IF open = {} THEN NoLoop
             ELSE Finishing(Min(open), NoWindow, "stopped", open \ {Min(open)})
  /\ UNCHANGED <<caller, kind, status, jobStatus, grants, tool, hub, win, jobHistory>>

(***************************************************************************)
(* The host exits and starts again.                                        *)
(***************************************************************************)

(* _pending_consent_for_run: the newest request of the run whose status is pending. *)
PendingConsents == {j \in Jobs : caller[j] = "lead" /\ status[j] = "pending"}

(* recover_orphaned_runs for the lead's run: a request with an open job is closed and *)
(* the run parked with a card; any other pending request leaves the run as it is.     *)
HostRestarts ==
  /\ restarts < MaxRestarts
  /\ restarts' = restarts + 1
  /\ leftover' = leftover \cup {j \in Jobs : Open(j)}
  /\ LET live == run \in {"running", "waiting_input"}
         newest == IF PendingConsents = {} THEN {} ELSE {Max(PendingConsents)}
         closed == {j \in newest : live /\ Open(j)} IN
     /\ jobStatus' = [j \in Jobs |-> IF j \in closed THEN "failed" ELSE jobStatus[j]]
     /\ status' = [j \in Jobs |-> IF j \in closed THEN "deny" ELSE status[j]]
     /\ run' = IF live /\ newest \subseteq {j \in Jobs : Open(j)} THEN "waiting_recovery" ELSE run
  /\ tool' = [j \in Jobs |-> IF tool[j] \in {"none", "done"} THEN tool[j] ELSE "dead"]
  /\ decision' = [j \in Jobs |-> "none"]
  /\ claim' = [j \in Jobs |-> NoWindow]
  /\ files' = {}
  /\ results' = [j \in Jobs |-> NoResult]
  /\ loop' = NoLoop
  /\ UNCHANGED <<caller, kind, grants, win, got, ran, winner>>

OwnerNext ==
  \/ \E j \in Jobs :
       \/ OwnerToolStarts(j) \/ ConsentDecided(j) \/ TakeOwnerResult(j) \/ TakeOwnerFile(j)
       \/ TimeoutOwnerJob(j)
       \/ \E c \in Callers :
            \/ ReadOwnerFile(j, c)
            \/ \E d \in Windows : WriteOwnerFile(j, c, d) \/ RunOwnerCommand(j, c, d)
       \/ \E w \in Windows :
            \/ WindowOpens(w, j) \/ ClaimOwnerJob(w, j) \/ SkipClaim(w, j) \/ WindowWorks(w, j)
            \/ \E says \in {"ok", "bad"} : UploadResult(w, j, says)
            \/ ReportOwnerJobError(w, j)
            \/ \E d \in {"once", "always", "deny"} : AnswerConsent(w, j, d)
  \/ FinishConsentJob \/ StoreResult \/ SetDecision \/ OwnerStops \/ HostRestarts

OwnerSpec == OwnerInit /\ [][OwnerNext]_ownerVars

(* No two windows that ACK do the work of one job, whatever is lost, timed out, stopped *)
(* or restarted: the UPDATE of acknowledge_consent_job lets one of them through.        *)
WorkDoneOnce == \A j \in Jobs : Cardinality(ran[j] \ OldWindows) <= 1

(* Why: a job nobody has offered has no status, an accepted ACK is gone from the queue for *)
(* good, and a window that ACKs has the work only as the one whose ACK was accepted.       *)
ClaimFacts ==
  /\ \A j \in Jobs : tool[j] \in {"none", "start"} => jobStatus[j] = "none"
  /\ \A j \in Jobs : winner[j] # NoWindow => jobStatus[j] \notin {"none", "queued"}
  /\ \A j \in Jobs, w \in Windows \ OldWindows : win[w][j] = "work" \/ w \in ran[j] => winner[j] = w

(* A job that has ended stays as it ended: late results, Stop, time-outs and recovery *)
(* do not touch it, and no window claims it.                                          *)
EndedJobIsFinal ==
  [][\A j \in Jobs : jobStatus[j] \in TerminalStatus =>
       jobStatus'[j] = jobStatus[j] /\ winner'[j] = winner[j]]_ownerVars

(* CHANGELOG: "running or takeover leftovers show a check / new-attempt card": a live   *)
(* run that a host restart interrupts is parked, or has a card that can still be answered. *)
RestartShowsCard ==
  [][restarts' # restarts /\ run \in {"running", "waiting_input"} =>
       \/ run' = "waiting_recovery"
       \/ \E j \in Jobs : caller[j] = "lead" /\ kind[j] = "ask" /\ status'[j] = "pending"]_ownerVars
=============================================================================
