---------------------------- MODULE TeamProofs ----------------------------
(***************************************************************************)
(* For any windows, workers, bots and bounds: no two windows that ACK do   *)
(* the work of one owner job and an ended job stays as it ended; a worker  *)
(* the owner stopped gets no tool; a reply is in one place from the step   *)
(* that marks its question; a lease that has ended does not come back and  *)
(* the helper acts under the owner's control only with an old call.        *)
(*                                                                         *)
(* Each part has an inductive invariant (its types and its ...Facts), one  *)
(* lemma per group of actions that they keep it, and theorems about the    *)
(* specification of the part; the last section puts the four together.     *)
(***************************************************************************)
EXTENDS MCTeam, FiniteSetTheorems, WellFoundedInduction, TLAPS

(* The least member of a set of numbers is one of them. *)
LEMMA MinIsMember == ASSUME NEW S \in SUBSET Nat, S # {} PROVE Min(S) \in S
<1>1. PICK x \in S : \A y \in S : ~(<<y, x>> \in OpToRel(<, Nat))
  BY NatLessThanWellFounded, WFMin
<1>2. ASSUME NEW y \in S PROVE x <= y
  <2>1. x \in Nat /\ y \in Nat
    OBVIOUS
  <2>2. ~(<<y, x>> \in OpToRel(<, Nat))
    BY <1>1
  <2>3. ~(y < x)
    BY <2>1, <2>2 DEF OpToRel
  <2> QED  BY <2>1, <2>3
<1> QED  BY <1>2 DEF Min

(***************************************************************************)
(* Jobs of the owner's PC.                                                 *)
(***************************************************************************)

(* The oldest of the open jobs, which Stop ends first, is one of them. *)
LEMMA OldestJob == ASSUME NEW S \in SUBSET Jobs, S # {} PROVE Min(S) \in S
BY MinIsMember DEF Jobs

JobLoop == [op : {"finish", "store"}, job : Jobs, by : Windows \cup {NoWindow},
            says : {"ok", "bad", "stopped"}, rest : SUBSET Jobs]
CardLoop == [op : {"decide"}, job : Jobs, says : {"once", "always", "deny"}]

LEMMA FinishingLoop ==
  ASSUME NEW j \in Jobs, NEW w \in Windows \cup {NoWindow}, NEW says \in {"ok", "bad", "stopped"},
         NEW rest \in SUBSET Jobs
  PROVE  Finishing(j, w, says, rest) \in JobLoop
BY DEF Finishing, JobLoop

LEMMA LoopKinds ==
  ASSUME loop = NoLoop \/ loop \in JobLoop \/ loop \in CardLoop, loop # NoLoop
  PROVE  /\ loop.op \in {"finish", "store"} => loop \in JobLoop
         /\ loop.op = "decide" => loop \in CardLoop
BY DEF JobLoop, CardLoop, NoLoop

LEMMA OwnerInitTypes == OwnerInit => OwnerTypeOK /\ ClaimFacts
BY OwnerJobsAssumption DEF OwnerInit, OwnerTypeOK, ClaimFacts, NoResult, OpenStatus, TerminalStatus

(* A request is created for a call that has none. *)
LEMMA CreateTypes ==
  ASSUME OwnerTypeOK, NEW j \in Jobs, NEW c \in Callers, NEW k \in Kinds, CreateRequest(j, c, k),
         tool' \in {[tool EXCEPT ![j] = "asking"], [tool EXCEPT ![j] = "take"]}
  PROVE  OwnerTypeOK'
<1>1. c \in Callers \cup {"none"} /\ k \in {"none", "ask", "auto", "read"}
  BY OwnerJobsAssumption
<1> QED
  BY <1>1 DEF CreateRequest, MarkWaiting, hub, jobHistory, OwnerTypeOK, OpenStatus, TerminalStatus

LEMMA CreateFacts ==
  ASSUME OwnerTypeOK, ClaimFacts, NEW j \in Jobs, NEW c, NEW k, CreateRequest(j, c, k),
         tool' \in {[tool EXCEPT ![j] = "asking"], [tool EXCEPT ![j] = "take"]}
  PROVE  /\ ClaimFacts'
         /\ \A i \in Jobs : jobStatus[i] \in TerminalStatus =>
              jobStatus'[i] = jobStatus[i] /\ winner'[i] = winner[i]
BY DEF CreateRequest, hub, jobHistory, OwnerTypeOK, OpenStatus, TerminalStatus, ClaimFacts

(* The four tools are two ways to create a request. *)
LEMMA CreateCases ==
  ASSUME NEW j \in Jobs, NEW c \in Callers,
         \/ ReadOwnerFile(j, c)
         \/ \E d \in Windows : WriteOwnerFile(j, c, d) \/ RunOwnerCommand(j, c, d)
  PROVE  \E k \in Kinds : /\ CreateRequest(j, c, k)
                          /\ tool' \in {[tool EXCEPT ![j] = "asking"], [tool EXCEPT ![j] = "take"]}
<1>1. ASSUME NEW k, PullOwnerAction(j, c, k)
      PROVE  \E kk \in Kinds : /\ CreateRequest(j, c, kk)
                               /\ tool' \in {[tool EXCEPT ![j] = "asking"], [tool EXCEPT ![j] = "take"]}
  BY <1>1 DEF PullOwnerAction
<1>2. ASSUME NEW d, OfferJob(j, c, d)
      PROVE  \E kk \in Kinds : /\ CreateRequest(j, c, kk)
                               /\ tool' \in {[tool EXCEPT ![j] = "asking"], [tool EXCEPT ![j] = "take"]}
  BY <1>2 DEF OfferJob
<1>3. CASE ReadOwnerFile(j, c)
  BY <1>1, <1>3 DEF ReadOwnerFile
<1>4. ASSUME NEW d \in Windows, WriteOwnerFile(j, c, d)
      PROVE  PullOwnerAction(j, c, "auto") \/ OfferJob(j, c, d)
  BY <1>4 DEF WriteOwnerFile
<1>5. ASSUME NEW d \in Windows, RunOwnerCommand(j, c, d)
      PROVE  PullOwnerAction(j, c, "auto") \/ OfferJob(j, c, d)
  BY <1>4, <1>5 DEF RunOwnerCommand
<1> QED
  BY <1>1, <1>2, <1>3, <1>4, <1>5

(* What is proved of a step: types, the facts, and that ended jobs stay. *)
OwnerKeeps ==
  /\ OwnerTypeOK'
  /\ ClaimFacts'
  /\ \A j \in Jobs : jobStatus[j] \in TerminalStatus =>
       jobStatus'[j] = jobStatus[j] /\ winner'[j] = winner[j]

(* What a tool thread does: no window and no winner is touched, and a job  *)
(* that has ended is not.                                                  *)
LEMMA ToolThreadStep ==
  ASSUME OwnerTypeOK, ClaimFacts, NEW j \in Jobs,
         \/ OwnerToolStarts(j) \/ ConsentDecided(j) \/ TakeOwnerResult(j) \/ TakeOwnerFile(j)
         \/ TimeoutOwnerJob(j)
  PROVE  OwnerKeeps
<1> USE DEF OwnerKeeps, rows, hub, jobHistory, OwnerTypeOK, ClaimFacts, OpenStatus, TerminalStatus,
            NoResult
<1>1. CASE OwnerToolStarts(j)
  BY <1>1 DEF OwnerToolStarts
<1>2. CASE ConsentDecided(j)
  BY <1>2 DEF ConsentDecided, MarkRunning
<1>3. CASE TakeOwnerResult(j)
  <2>1. CASE tool[j] \in {"take", "waiting"} /\ PopResult(j)
    BY <2>1 DEF PopResult, Returns, MarkRunning
  <2>2. ASSUME tool[j] \in {"take", "waiting"},
               tool' = [tool EXCEPT ![j] = IF tool[j] = "take" THEN "waiting" ELSE AfterResult(j)],
               UNCHANGED <<rows, hub, loop, win, jobHistory>>
        PROVE  OwnerKeeps
    BY <2>2 DEF AfterResult
  <2> QED  BY <1>3, <2>1, <2>2 DEF TakeOwnerResult
<1>4. CASE TakeOwnerFile(j)
  <2>1. CASE j \in files
    <3>1. /\ files' = files \ {j} /\ tool[j] \in {"file", "filing"}
          /\ tool' = [tool EXCEPT ![j] = "done"] /\ got' = [got EXCEPT ![j] = "ok"]
          /\ run' \in {run, "running"}
          /\ UNCHANGED <<caller, kind, status, grants, decision, loop, win, ran, winner, restarts,
                         leftover, jobStatus, claim, results>>
      BY <1>4, <2>1 DEF TakeOwnerFile, Returns, MarkRunning
    <3> QED  BY <3>1
  <2>2. ASSUME NEW to \in {"filing", "giveup"}, tool[j] \in {"file", "filing"},
               tool' = [tool EXCEPT ![j] = to], UNCHANGED <<rows, hub, loop, win, jobHistory>>
        PROVE  OwnerKeeps
    BY <2>2
  <2> QED  BY <1>4, <2>1, <2>2 DEF TakeOwnerFile
<1>5. CASE TimeoutOwnerJob(j)
  BY <1>5 DEF TimeoutOwnerJob, Returns, MarkRunning, Open
<1> QED  BY <1>1, <1>2, <1>3, <1>4, <1>5

LEMMA WindowStep ==
  ASSUME OwnerTypeOK, ClaimFacts, NEW j \in Jobs, NEW w \in Windows,
         \/ WindowOpens(w, j) \/ ClaimOwnerJob(w, j) \/ SkipClaim(w, j) \/ WindowWorks(w, j)
         \/ \E says \in {"ok", "bad"} : UploadResult(w, j, says)
         \/ ReportOwnerJobError(w, j)
         \/ \E d \in {"once", "always", "deny"} : AnswerConsent(w, j, d)
  PROVE  OwnerKeeps
<1> USE DEF OwnerKeeps, rows, hub, jobHistory, OpenStatus, TerminalStatus
<1>1. CASE WindowOpens(w, j)
  BY <1>1 DEF WindowOpens, OwnerTypeOK, ClaimFacts
<1>2. CASE ClaimOwnerJob(w, j)
  <2>1. \A v \in Windows : v # NoWindow
    BY OwnerJobsAssumption
  <2>2. UNCHANGED <<run, caller, kind, status, grants, tool, decision, files, results, loop, got, ran,
                    restarts, leftover>>
    BY <1>2 DEF ClaimOwnerJob
  <2>3. ASSUME jobStatus[j] = "queued", jobStatus' = [jobStatus EXCEPT ![j] = "acknowledged"],
               claim' = [claim EXCEPT ![j] = w], winner' = [winner EXCEPT ![j] = w],
               NEW to \in {"work", "report"}, win' = [win EXCEPT ![w][j] = to]
        PROVE  OwnerKeeps
    <3>1. OwnerTypeOK'
      BY <2>2, <2>3 DEF OwnerTypeOK
    <3>2. \A i \in Jobs : winner[i] # NoWindow => i # j
      BY <2>3 DEF ClaimFacts
    <3>3. \A i \in Jobs, v \in Windows :
            win'[v][i] = "work" => (win[v][i] = "work" \/ (v = w /\ i = j))
      BY <2>3 DEF OwnerTypeOK
    <3>4. \A i \in Jobs : i # j => winner'[i] = winner[i] /\ jobStatus'[i] = jobStatus[i]
      BY <2>3 DEF OwnerTypeOK
    <3>5. winner'[j] = w /\ jobStatus'[j] = "acknowledged"
      BY <2>3 DEF OwnerTypeOK
    <3>6. \A i \in Jobs, v \in Windows \ OldWindows :
            win'[v][i] = "work" \/ v \in ran'[i] => winner'[i] = v
      <4> SUFFICES ASSUME NEW i \in Jobs, NEW v \in Windows \ OldWindows,
                          win'[v][i] = "work" \/ v \in ran'[i]
                   PROVE  winner'[i] = v
        OBVIOUS
      <4>1. CASE win[v][i] = "work" \/ v \in ran[i]
        <5>1. winner[i] = v /\ v # NoWindow
          BY <2>1, <4>1 DEF ClaimFacts
        <5> QED  BY <5>1, <3>2, <3>4
      <4>2. CASE v = w /\ i = j
        BY <3>5, <4>2
      <4> QED  BY <2>2, <3>3, <4>1, <4>2
    <3>7. \A i \in Jobs : winner'[i] # NoWindow => jobStatus'[i] \notin {"none", "queued"}
      BY <3>4, <3>5 DEF ClaimFacts
    <3>8. \A i \in Jobs : tool'[i] \in {"none", "start"} => jobStatus'[i] = "none"
      BY <2>2, <2>3, <3>4, <3>5 DEF ClaimFacts
    <3>9. ClaimFacts'
      BY <3>6, <3>7, <3>8 DEF ClaimFacts
    <3> QED
      BY <2>3, <3>1, <3>4, <3>9
  <2>4. ASSUME UNCHANGED <<jobStatus, claim, winner>>, win' = [win EXCEPT ![w][j] = AfterWork(j)]
        PROVE  OwnerKeeps
    BY <2>2, <2>4 DEF AfterWork, OwnerTypeOK, ClaimFacts
  <2> QED
    BY <1>2, <2>3, <2>4 DEF ClaimOwnerJob
<1>3. CASE SkipClaim(w, j)
  BY <1>3 DEF SkipClaim, OwnerTypeOK, ClaimFacts
<1>4. CASE WindowWorks(w, j)
  <2>1. /\ win' = [win EXCEPT ![w][j] = "upload"] /\ win[w][j] = "work"
        /\ UNCHANGED <<rows, tool, hub, loop, got, winner, restarts, leftover>>
    BY <1>4 DEF WindowWorks
  <2>2. /\ ran' \in [Jobs -> SUBSET Windows]
        /\ \A i \in Jobs, v \in Windows : v \in ran'[i] => (v \in ran[i] \/ (v = w /\ i = j))
    <3>1. CASE ran' = ran
      BY <3>1 DEF OwnerTypeOK
    <3>2. CASE ran' = [ran EXCEPT ![j] = @ \cup {w}]
      <4>1. ran[j] \cup {w} \in SUBSET Windows
        BY DEF OwnerTypeOK
      <4> QED  BY <3>2, <4>1 DEF OwnerTypeOK
    <3> QED  BY <1>4, <3>1, <3>2 DEF WindowWorks
  <2>3. OwnerTypeOK'
    BY <2>1, <2>2 DEF OwnerTypeOK
  <2>4. \A i \in Jobs, v \in Windows : win'[v][i] = "work" => win[v][i] = "work"
    BY <2>1 DEF OwnerTypeOK
  <2>5. ClaimFacts'
    BY <2>1, <2>2, <2>4 DEF ClaimFacts
  <2> QED  BY <2>1, <2>3, <2>5
<1>5. ASSUME NEW says \in {"ok", "bad"}, UploadResult(w, j, says) PROVE OwnerKeeps
  <2>1. Finishing(j, w, says, {}) \in JobLoop
    BY FinishingLoop
  <2>2. loop' = loop \/ loop' \in JobLoop
    BY <1>5, <2>1 DEF UploadResult
  <2> QED
    BY <1>5, <2>2 DEF UploadResult, AfterWork, OwnerTypeOK, ClaimFacts, JobLoop
<1>6. CASE ReportOwnerJobError(w, j)
  <2>1. Finishing(j, w, "bad", {}) \in JobLoop
    BY FinishingLoop
  <2>2. loop' = NoLoop \/ loop' \in JobLoop
    BY <1>6, <2>1 DEF ReportOwnerJobError
  <2> QED
    BY <1>6, <2>2 DEF ReportOwnerJobError, AfterWork, OwnerTypeOK, ClaimFacts, JobLoop
<1>7. ASSUME NEW d \in {"once", "always", "deny"}, AnswerConsent(w, j, d) PROVE OwnerKeeps
  <2>1. loop' = loop \/ loop' \in CardLoop
    BY <1>7 DEF AnswerConsent, CardLoop
  <2>2. status' \in [Jobs -> {"none", "pending", "once", "always", "deny"}] /\ grants' \subseteq Windows
    BY <1>7 DEF AnswerConsent, OwnerTypeOK
  <2> QED
    BY <1>7, <2>1, <2>2 DEF AnswerConsent, OwnerTypeOK, ClaimFacts, CardLoop
<1> QED
  BY <1>1, <1>2, <1>3, <1>4, <1>5, <1>6, <1>7

LEMMA LoopStep ==
  ASSUME OwnerTypeOK, ClaimFacts, FinishConsentJob \/ StoreResult \/ SetDecision
  PROVE  OwnerKeeps
<1> USE DEF OwnerKeeps, rows, hub, jobHistory, OpenStatus, TerminalStatus
<1>0. loop = NoLoop \/ loop \in JobLoop \/ loop \in CardLoop
  BY DEF OwnerTypeOK, JobLoop, CardLoop
<1>1. CASE FinishConsentJob
  <2>1. loop \in JobLoop
    BY <1>0, <1>1, LoopKinds DEF FinishConsentJob
  <2>2. [loop EXCEPT !.op = "store"] \in JobLoop
    BY <2>1 DEF JobLoop
  <2>3. loop' = NoLoop \/ loop' \in JobLoop
    BY <1>1, <2>2 DEF FinishConsentJob
  <2>4. PICK to \in {"completed", "failed"} :
          /\ jobStatus' = IF Open(loop.job) THEN [jobStatus EXCEPT ![loop.job] = to] ELSE jobStatus
          /\ UNCHANGED <<run, caller, kind, status, grants, tool, hub, win, jobHistory>>
    BY <1>1 DEF FinishConsentJob
  <2>5. loop.job \in Jobs
    BY <2>1 DEF JobLoop
  <2>6. OwnerTypeOK'
    BY <2>3, <2>4, <2>5 DEF OwnerTypeOK, JobLoop
  <2>7. ClaimFacts'
    BY <2>4, <2>5 DEF Open, OwnerTypeOK, ClaimFacts
  <2> QED
    BY <2>4, <2>5, <2>6, <2>7 DEF Open, OwnerTypeOK
<1>2. CASE StoreResult
  <2>1. loop \in JobLoop
    BY <1>0, <1>2, LoopKinds DEF StoreResult
  <2>2. loop' = NoLoop \/ loop' \in JobLoop
    <3>1. CASE loop.rest = {}
      BY <1>2, <3>1 DEF StoreResult
    <3>2. CASE loop.rest # {}
      <4>1. loop.rest \in SUBSET Jobs
        BY <2>1 DEF JobLoop
      <4>2. Min(loop.rest) \in Jobs
        BY <3>2, <4>1, OldestJob
      <4>3. loop.rest \ {Min(loop.rest)} \in SUBSET Jobs
        BY <4>1
      <4> QED
        BY <1>2, <3>2, <4>2, <4>3, FinishingLoop DEF StoreResult
    <3> QED  BY <3>1, <3>2
  <2>3. [by |-> loop.by, says |-> loop.says]
          \in [by : Windows \cup {NoWindow}, says : {"none", "ok", "bad", "stopped"}]
    BY <2>1 DEF JobLoop
  <2>4. results' \in [Jobs -> [by : Windows \cup {NoWindow}, says : {"none", "ok", "bad", "stopped"}]]
    BY <1>2, <2>3 DEF StoreResult, OwnerTypeOK
  <2>5. claim' \in [Jobs -> Windows \cup {NoWindow}]
    BY <1>2 DEF StoreResult, OwnerTypeOK
  <2> QED
    BY <1>2, <2>2, <2>4, <2>5 DEF StoreResult, OwnerTypeOK, ClaimFacts, JobLoop
<1>3. CASE SetDecision
  <2>1. loop \in CardLoop
    BY <1>0, <1>3, LoopKinds DEF SetDecision
  <2> QED
    BY <1>3, <2>1 DEF SetDecision, OwnerTypeOK, ClaimFacts, CardLoop
<1> QED
  BY <1>1, <1>2, <1>3

LEMMA StopAndRestartStep ==
  ASSUME OwnerTypeOK, ClaimFacts, OwnerStops \/ HostRestarts
  PROVE  OwnerKeeps
<1> USE DEF OwnerKeeps, rows, hub, jobHistory, OpenStatus, TerminalStatus
<1>1. CASE OwnerStops
  <2> DEFINE open == {j \in Jobs : Open(j) /\ (caller[j] = "worker" => j \notin leftover)}
  <2>1. loop' = NoLoop \/ loop' \in JobLoop
    <3>1. CASE open = {}
      BY <1>1, <3>1 DEF OwnerStops
    <3>2. CASE open # {}
      <4>1. open \in SUBSET Jobs
        OBVIOUS
      <4> HIDE DEF open
      <4>2. Min(open) \in Jobs /\ open \ {Min(open)} \in SUBSET Jobs
        BY <3>2, <4>1, OldestJob
      <4>3. loop' = Finishing(Min(open), NoWindow, "stopped", open \ {Min(open)})
        BY <1>1, <3>2 DEF OwnerStops, open
      <4> QED
        BY <4>2, <4>3, FinishingLoop
    <3> QED  BY <3>1, <3>2
  <2> HIDE DEF open
  <2>2. UNCHANGED <<caller, kind, status, jobStatus, grants, tool, hub, win, jobHistory>> /\ run' = "cancelled"
    BY <1>1 DEF OwnerStops
  <2> QED
    BY <2>1, <2>2 DEF OwnerTypeOK, ClaimFacts, JobLoop
<1>2. CASE HostRestarts
  <2>1. /\ jobStatus' = [j \in Jobs |-> jobStatus'[j]]
        /\ \A j \in Jobs : jobStatus'[j] = jobStatus[j] \/ (Open(j) /\ jobStatus'[j] = "failed")
    BY <1>2 DEF HostRestarts
  <2>2. status' \in [Jobs -> {"none", "pending", "once", "always", "deny"}]
    BY <1>2 DEF HostRestarts, OwnerTypeOK
  <2>3. run' \in {run, "waiting_recovery"}
    BY <1>2 DEF HostRestarts
  <2>4. /\ tool' = [j \in Jobs |-> IF tool[j] \in {"none", "done"} THEN tool[j] ELSE "dead"]
        /\ decision' = [j \in Jobs |-> "none"]
        /\ claim' = [j \in Jobs |-> NoWindow]
        /\ files' = {} /\ results' = [j \in Jobs |-> NoResult] /\ loop' = NoLoop
        /\ leftover' = leftover \cup {j \in Jobs : Open(j)}
        /\ restarts' \in 0..MaxRestarts
        /\ UNCHANGED <<caller, kind, grants, win, got, ran, winner>>
    BY <1>2, OwnerJobsAssumption DEF HostRestarts, OwnerTypeOK
  <2>5. jobStatus' \in [Jobs -> {"none"} \cup OpenStatus \cup TerminalStatus]
    BY <2>1 DEF OwnerTypeOK
  <2>6. OwnerTypeOK'
    BY <2>2, <2>3, <2>4, <2>5 DEF OwnerTypeOK, NoResult
  <2>7. ClaimFacts'
    BY <2>1, <2>4 DEF OwnerTypeOK, ClaimFacts, Open
  <2> QED
    BY <2>1, <2>4, <2>6, <2>7 DEF Open
<1> QED
  BY <1>1, <1>2

LEMMA OwnerStepKeeps ==
  ASSUME OwnerTypeOK, ClaimFacts, OwnerNext
  PROVE  OwnerKeeps
<1>1. CASE \E j \in Jobs :
       \/ OwnerToolStarts(j) \/ ConsentDecided(j) \/ TakeOwnerResult(j) \/ TakeOwnerFile(j)
       \/ TimeoutOwnerJob(j)
  BY <1>1, ToolThreadStep
<1>2. ASSUME NEW j \in Jobs, NEW c \in Callers,
             \/ ReadOwnerFile(j, c)
             \/ \E d \in Windows : WriteOwnerFile(j, c, d) \/ RunOwnerCommand(j, c, d)
      PROVE  OwnerKeeps
  BY <1>2, CreateCases, CreateTypes, CreateFacts DEF OwnerKeeps
<1>3. CASE \E j \in Jobs, w \in Windows :
            \/ WindowOpens(w, j) \/ ClaimOwnerJob(w, j) \/ SkipClaim(w, j) \/ WindowWorks(w, j)
            \/ \E says \in {"ok", "bad"} : UploadResult(w, j, says)
            \/ ReportOwnerJobError(w, j)
            \/ \E d \in {"once", "always", "deny"} : AnswerConsent(w, j, d)
  BY <1>3, WindowStep
<1>4. CASE FinishConsentJob \/ StoreResult \/ SetDecision
  BY <1>4, LoopStep
<1>5. CASE OwnerStops \/ HostRestarts
  BY <1>5, StopAndRestartStep
<1> QED
  BY <1>1, <1>2, <1>3, <1>4, <1>5 DEF OwnerNext

LEMMA OwnerStutter ==
  ASSUME OwnerTypeOK, ClaimFacts, UNCHANGED ownerVars PROVE OwnerKeeps
BY DEF OwnerKeeps, ownerVars, rows, hub, jobHistory, OwnerTypeOK, ClaimFacts

THEOREM OwnerFactsHold == OwnerSpec => [](OwnerTypeOK /\ ClaimFacts)
<1>1. OwnerTypeOK /\ ClaimFacts /\ [OwnerNext]_ownerVars => (OwnerTypeOK /\ ClaimFacts)'
  BY OwnerStepKeeps, OwnerStutter DEF OwnerKeeps
<1> QED
  BY OwnerInitTypes, <1>1, PTL DEF OwnerSpec

(* No two windows that ACK do the work of one job. *)
THEOREM WorkDoneOnceHolds == OwnerSpec => []WorkDoneOnce
<1>1. OwnerTypeOK /\ ClaimFacts => WorkDoneOnce
  <2> SUFFICES ASSUME OwnerTypeOK, ClaimFacts, NEW j \in Jobs
               PROVE  Cardinality(ran[j] \ OldWindows) <= 1
    BY DEF WorkDoneOnce
  <2>1. ran[j] \subseteq Windows
    BY DEF OwnerTypeOK
  <2>2. ran[j] \ OldWindows \subseteq {winner[j]}
    BY <2>1 DEF ClaimFacts
  <2>3. ran[j] \ OldWindows = {} \/ ran[j] \ OldWindows = {winner[j]}
    BY <2>2
  <2>4. Cardinality(ran[j] \ OldWindows) \in {0, 1}
    BY <2>3, FS_EmptySet, FS_Singleton
  <2> QED  BY <2>4
<1> QED
  BY OwnerFactsHold, <1>1, PTL

(* A job that has ended stays as it ended. *)
THEOREM EndedJobIsFinalHolds == OwnerSpec => EndedJobIsFinal
<1>1. OwnerTypeOK /\ ClaimFacts /\ [OwnerNext]_ownerVars =>
        [\A j \in Jobs : jobStatus[j] \in TerminalStatus =>
           jobStatus'[j] = jobStatus[j] /\ winner'[j] = winner[j]]_ownerVars
  BY OwnerStepKeeps DEF OwnerKeeps
<1> QED
  BY OwnerFactsHold, <1>1, PTL DEF OwnerSpec, EndedJobIsFinal

(***************************************************************************)
(* Workers.                                                                *)
(***************************************************************************)

LEMMA WorkersInitTypes == WorkersInit => WorkersTypeOK /\ StopKeepsMark
<1>1. Cardinality(Subagents) \in Nat
  BY WorkersAssumption, FS_CardinalityType
<1> QED
  BY <1>1, WorkersAssumption DEF WorkersInit, WorkersTypeOK, StopKeepsMark, Live, WRuns, NoStop

(* What is proved of a step: types, the mark, and no tool for a stopped worker. *)
WorkerKeeps ==
  /\ WorkersTypeOK'
  /\ StopKeepsMark'
  /\ \A w \in ownerStopped, g \in WRuns :
       wtool'[w][g] = "admitted" => wtool[w][g] = "admitted"

LEMMA RegisteredRuns == ASSUME NEW w \in Subagents PROVE Registered(w) \subseteq Subagents \X WRuns
BY DEF Registered

(* A new run is within the bound and waits for the loop. *)
LEMMA ScheduleTypes ==
  ASSUME WorkersTypeOK, NEW w \in Subagents, Schedule(w)
  PROVE  /\ wruns' \in [Subagents -> 0..MaxRuns]
         /\ \A v \in Subagents : wruns[v] <= wruns'[v]
         /\ scheduled' \subseteq Subagents \X WRuns
         /\ \A p \in scheduled' : p[2] <= wruns'[p[1]]
         /\ \A v \in Subagents \ {w}, g \in WRuns : <<v, g>> \in scheduled' => <<v, g>> \in scheduled
<1>1. wruns[w] \in 0..MaxRuns /\ wruns[w] < MaxRuns /\ MaxRuns \in Nat
  BY WorkersAssumption DEF Schedule, WorkersTypeOK
<1>2. wruns[w] + 1 \in 0..MaxRuns /\ wruns[w] + 1 \in WRuns
  BY <1>1 DEF WRuns
<1>3. wruns' \in [Subagents -> 0..MaxRuns]
  BY <1>2 DEF Schedule, WorkersTypeOK
<1>4. ASSUME NEW v \in Subagents PROVE wruns[v] <= wruns'[v]
  <2>1. wruns[v] \in 0..MaxRuns
    BY DEF WorkersTypeOK
  <2>2. wruns'[v] = IF v = w THEN wruns[w] + 1 ELSE wruns[v]
    BY DEF Schedule, WorkersTypeOK
  <2> QED  BY <1>1, <2>1, <2>2
<1>5. scheduled' \subseteq Subagents \X WRuns
  BY <1>2 DEF Schedule, WorkersTypeOK
<1>6. ASSUME NEW p \in scheduled' PROVE p[2] <= wruns'[p[1]]
  <2>1. CASE p \in scheduled
    <3>1. p[1] \in Subagents /\ p[2] \in WRuns /\ p[2] <= wruns[p[1]]
      BY <2>1 DEF WorkersTypeOK
    <3>2. wruns[p[1]] \in 0..MaxRuns /\ wruns'[p[1]] \in 0..MaxRuns
      BY <3>1, <1>3 DEF WorkersTypeOK
    <3>3. wruns[p[1]] <= wruns'[p[1]]
      BY <3>1, <1>4
    <3> QED  BY <3>1, <3>2, <3>3 DEF WRuns
  <2>2. CASE p = <<w, wruns[w] + 1>>
    <3>1. wruns'[w] = wruns[w] + 1
      BY DEF Schedule, WorkersTypeOK
    <3> QED  BY <2>2, <3>1, <1>2
  <2> QED  BY <2>1, <2>2 DEF Schedule
<1>7. ASSUME NEW v \in Subagents \ {w}, NEW g \in WRuns, <<v, g>> \in scheduled'
      PROVE  <<v, g>> \in scheduled
  BY <1>7 DEF Schedule
<1> QED  BY <1>3, <1>4, <1>5, <1>6, <1>7

(* spawn and restart. *)
LEMMA LeadSpawnsStep ==
  ASSUME WorkersTypeOK, StopKeepsMark, NEW w \in Subagents,
         SpawnChecks \/ SpawnCreates(w) \/ RestartWorker(w)
  PROVE  WorkerKeeps
<1> USE DEF WorkerKeeps, wrow, wloop, wlead, whist, Live
<1>1. CASE SpawnChecks
  <2> DEFINE idle == {v \in Subagents : wstatus[v] = "none"}
  <2>1. /\ Cardinality(idle) \in Nat /\ Cardinality(Subagents) \in Nat
        /\ Cardinality(idle) <= Cardinality(Subagents)
    <3>1. idle \subseteq Subagents
      OBVIOUS
    <3>2. IsFiniteSet(Subagents)
      BY WorkersAssumption
    <3> HIDE DEF idle
    <3> QED  BY <3>1, <3>2, FS_Subset, FS_CardinalityType
  <2>2. spawning < Cardinality(idle) /\ spawning' = spawning + 1
        /\ UNCHANGED <<wrow, wloop, seen, stopper, svcCancelled, rtCancelled, wtool, whist>>
    BY <1>1 DEF SpawnChecks
  <2> HIDE DEF idle
  <2>3. spawning' \in 0..Cardinality(Subagents)
    BY <2>1, <2>2 DEF WorkersTypeOK
  <2> QED
    BY <2>2, <2>3 DEF WorkersTypeOK, StopKeepsMark
<1>2. CASE SpawnCreates(w)
  <2>1. Schedule(w) /\ wstatus[w] = "none" /\ spawning > 0 /\ spawning' = spawning - 1
        /\ wstatus' = [wstatus EXCEPT ![w] = "queued"]
        /\ UNCHANGED <<activity, toolRunning, wtask, current, cancelReq, seen, stopper, svcCancelled,
                       rtCancelled, wtool, whist>>
    BY <1>2 DEF SpawnCreates
  <2>2. spawning' \in 0..Cardinality(Subagents)
    <3>1. Cardinality(Subagents) \in Nat
      BY WorkersAssumption, FS_CardinalityType
    <3> QED  BY <2>1, <3>1 DEF WorkersTypeOK
  <2>3. \A v \in Subagents : current[v] <= wruns'[v]
    <3> TAKE v \in Subagents
    <3>1. current[v] \in 0..MaxRuns /\ wruns[v] \in 0..MaxRuns /\ wruns'[v] \in 0..MaxRuns
          /\ current[v] <= wruns[v] /\ wruns[v] <= wruns'[v]
      BY <2>1, ScheduleTypes DEF WorkersTypeOK
    <3> QED  BY <3>1
  <2>4. WorkersTypeOK'
    BY <2>1, <2>2, <2>3, ScheduleTypes DEF WorkersTypeOK
  <2>5. w \notin ownerStopped
    BY <2>1 DEF StopKeepsMark
  <2>6. StopKeepsMark'
    BY <2>1, <2>5, ScheduleTypes DEF StopKeepsMark, WorkersTypeOK
  <2> QED  BY <2>1, <2>4, <2>6
<1>3. CASE RestartWorker(w)
  <2>1. Schedule(w) /\ cancelReq' = cancelReq \cup Registered(w)
        /\ wstatus' = [wstatus EXCEPT ![w] = "queued"]
        /\ activity' = [activity EXCEPT ![w] = 0] /\ toolRunning' = [toolRunning EXCEPT ![w] = FALSE]
        /\ ownerStopped' = ownerStopped \ {w} /\ accepted' = accepted \ {w}
        /\ UNCHANGED <<wtask, current, wlead, svcCancelled, rtCancelled, wtool, hostRestarts>>
    BY <1>3 DEF RestartWorker, UpdateSubagent
  <2>2. cancelReq' \subseteq Subagents \X WRuns
    BY <2>1, RegisteredRuns DEF WorkersTypeOK
  <2>3. \A v \in Subagents : current[v] <= wruns'[v]
    <3> TAKE v \in Subagents
    <3>1. current[v] \in 0..MaxRuns /\ wruns[v] \in 0..MaxRuns /\ wruns'[v] \in 0..MaxRuns
          /\ current[v] <= wruns[v] /\ wruns[v] <= wruns'[v]
      BY <2>1, ScheduleTypes DEF WorkersTypeOK
    <3> QED  BY <3>1
  <2>4. activity' \in [Subagents -> 0..MaxActivity]
    BY <2>1, WorkersAssumption DEF WorkersTypeOK
  <2>5. WorkersTypeOK'
    BY <2>1, <2>2, <2>3, <2>4, ScheduleTypes DEF WorkersTypeOK
  <2>6. StopKeepsMark'
    BY <2>1, ScheduleTypes DEF StopKeepsMark, WorkersTypeOK
  <2> QED  BY <2>1, <2>5, <2>6
<1> QED  BY <1>1, <1>2, <1>3

(* The end of a task leaves it done and the registration to a newer one. *)
LEMMA WDoneTypes ==
  ASSUME WorkersTypeOK, NEW w \in Subagents, NEW g \in WRuns, WDone(w, g)
  PROVE  /\ wtask' \in [Subagents -> [WRuns -> {"none", "begin", "session", "stream", "ending", "done"}]]
         /\ current' \in [Subagents -> 0..MaxRuns] /\ \A v \in Subagents : current'[v] <= wruns[v]
         /\ \A v \in Subagents, h \in WRuns : wtask[v][h] \in {"none", "done"} => wtask'[v][h] \in {"none", "done"}
<1>1. wtask' = [wtask EXCEPT ![w][g] = "done"]
  BY DEF WDone
<1>2. current' \in {current, [current EXCEPT ![w] = 0]}
  BY DEF WDone
<1>3. \A v \in Subagents : current[v] \in 0..MaxRuns /\ wruns[v] \in 0..MaxRuns /\ current[v] <= wruns[v]
  BY DEF WorkersTypeOK
<1>4. current' \in [Subagents -> 0..MaxRuns] /\ \A v \in Subagents : current'[v] <= wruns[v]
  <2>1. CASE current' = current
    BY <1>3, <2>1 DEF WorkersTypeOK
  <2>2. CASE current' = [current EXCEPT ![w] = 0]
    <3>1. 0 \in 0..MaxRuns
      BY WorkersAssumption
    <3>2. current' \in [Subagents -> 0..MaxRuns]
      BY <2>2, <3>1 DEF WorkersTypeOK
    <3>3. ASSUME NEW v \in Subagents PROVE current'[v] <= wruns[v]
      <4>1. current'[v] = IF v = w THEN 0 ELSE current[v]
        BY <2>2 DEF WorkersTypeOK
      <4> QED  BY <4>1, <1>3
    <3> QED  BY <3>2, <3>3
  <2> QED  BY <1>2, <2>1, <2>2
<1> QED
  BY <1>1, <1>4 DEF WorkersTypeOK

LEMMA TouchTypes ==
  ASSUME WorkersTypeOK, NEW w \in Subagents, CanTouch(w)
  PROVE  /\ Touched(w) \in [Subagents -> 0..MaxActivity]
         /\ [activity EXCEPT ![w] = @ + 1] \in [Subagents -> 0..MaxActivity]
<1>1. activity[w] \in 0..MaxActivity /\ activity[w] < MaxActivity /\ MaxActivity \in Nat
  BY WorkersAssumption DEF WorkersTypeOK, CanTouch
<1>2. activity[w] + 1 \in 0..MaxActivity
  BY <1>1
<1> QED  BY <1>1, <1>2 DEF WorkersTypeOK, Touched

(* The coroutine of a run. *)
LEMMA CoroutineStep ==
  ASSUME WorkersTypeOK, StopKeepsMark, NEW w \in Subagents, NEW g \in WRuns,
         \/ WStarter(w, g) \/ WBegins(w, g) \/ WSessionStarts(w, g) \/ WText(w, g)
         \/ WStreamEnds(w, g) \/ WFails(w, g) \/ WCancelled(w, g)
         \/ \E as \in {"completed", "failed", "cancelled"} : WEnds(w, g, as)
  PROVE  WorkerKeeps
<1> USE DEF WorkerKeeps, wrow, wloop, wlead, whist, Live
<1>1. CASE WStarter(w, g)
  <2>1. /\ <<w, g>> \in scheduled
        /\ scheduled' = scheduled \ {<<w, g>>} /\ cancelReq' = cancelReq \cup Registered(w)
        /\ wtask' = [wtask EXCEPT ![w][g] = "begin"] /\ current' = [current EXCEPT ![w] = g]
        /\ UNCHANGED <<wrow, wlead, svcCancelled, rtCancelled, wtool, wruns, whist>>
    BY <1>1 DEF WStarter
  <2>2. cancelReq' \subseteq Subagents \X WRuns
    BY <2>1, RegisteredRuns DEF WorkersTypeOK
  <2>3. g <= wruns[w] /\ g \in 0..MaxRuns
    BY <2>1, WorkersAssumption DEF WorkersTypeOK, WRuns
  <2>4. current' \in [Subagents -> 0..MaxRuns] /\ \A v \in Subagents : current'[v] <= wruns[v]
    BY <2>1, <2>3 DEF WorkersTypeOK
  <2>5. WorkersTypeOK'
    BY <2>1, <2>2, <2>4 DEF WorkersTypeOK
  <2>6. StopKeepsMark'
    BY <2>1 DEF StopKeepsMark, WorkersTypeOK
  <2> QED  BY <2>1, <2>5, <2>6
<1>2. ASSUME NEW to \in {"session", "stream", "ending", "done"},
             wtask[w][g] \notin {"none", "done"},
             wtask' = [wtask EXCEPT ![w][g] = to],
             wstatus' \in {wstatus, [wstatus EXCEPT ![w] = "running"]},
             activity' \in [Subagents -> 0..MaxActivity],
             UNCHANGED <<toolRunning, scheduled, current, cancelReq, wruns, wlead, svcCancelled,
                         rtCancelled, wtool, whist>>
      PROVE  WorkerKeeps
  BY <1>2 DEF WorkersTypeOK, StopKeepsMark
<1>3. activity \in [Subagents -> 0..MaxActivity]
  BY DEF WorkersTypeOK
<1>4. CASE WBegins(w, g)
  BY <1>2, <1>3, <1>4 DEF WBegins
<1>5. CASE WSessionStarts(w, g)
  BY <1>2, <1>5, TouchTypes DEF WSessionStarts, UpdateSubagent
<1>6. CASE WText(w, g)
  BY <1>6, TouchTypes DEF WText, WorkersTypeOK, StopKeepsMark
<1>7. CASE WStreamEnds(w, g)
  BY <1>2, <1>3, <1>7 DEF WStreamEnds
<1>8. ASSUME NEW as \in {"completed", "failed", "cancelled"}, WDone(w, g),
             wstatus' \in {wstatus, [wstatus EXCEPT ![w] = as]},
             accepted' \in {accepted, accepted \cup {w}},
             UNCHANGED <<activity, toolRunning, scheduled, cancelReq, wruns, wlead, svcCancelled,
                         rtCancelled, wtool, ownerStopped, hostRestarts>>
      PROVE  WorkerKeeps
  <2>1. WorkersTypeOK'
    <3>1. wstatus' \in [Subagents -> Live \cup {"none", "completed", "failed", "cancelled"}]
          /\ accepted' \subseteq Subagents
      BY <1>8 DEF WorkersTypeOK
    <3>2. /\ wtask' \in [Subagents -> [WRuns -> {"none", "begin", "session", "stream", "ending", "done"}]]
          /\ current' \in [Subagents -> 0..MaxRuns] /\ \A v \in Subagents : current'[v] <= wruns[v]
      BY <1>8, WDoneTypes
    <3> QED  BY <1>8, <3>1, <3>2 DEF WorkersTypeOK
  <2>2. StopKeepsMark'
    BY <1>8, WDoneTypes DEF WorkersTypeOK, StopKeepsMark
  <2> QED  BY <1>8, <2>1, <2>2
<1>9. CASE WFails(w, g)
  BY <1>8, <1>9 DEF WFails, UpdateSubagent
<1>10. CASE WCancelled(w, g)
  BY <1>8, <1>10 DEF WCancelled
<1>11. CASE \E as \in {"completed", "failed", "cancelled"} : WEnds(w, g, as)
  BY <1>8, <1>11 DEF WEnds, UpdateSubagent
<1> QED
  BY <1>1, <1>4, <1>5, <1>6, <1>7, <1>9, <1>10, <1>11

(* The worker's tools, the lead's look at it and its first half of a stop. *)
LEMMA WorkerToolStep ==
  ASSUME WorkersTypeOK, StopKeepsMark, NEW w \in Subagents, NEW g \in WRuns,
         WToolAdmitted(w, g) \/ WToolTouches(w, g) \/ LeadInspects(w) \/ SteerWorker(w) \/ LeadStopChecks(w)
  PROVE  WorkerKeeps
<1> USE DEF WorkerKeeps, wrow, wloop, wlead, whist, Live
<1>1. CASE WToolAdmitted(w, g)
  <2>1. w \notin ownerStopped
    BY <1>1 DEF WToolAdmitted, WorkerCancelled, StopKeepsMark
  <2> QED
    BY <1>1, <2>1 DEF WToolAdmitted, WorkersTypeOK, StopKeepsMark
<1>2. CASE WToolTouches(w, g)
  <2>1. toolRunning' \in [Subagents -> BOOLEAN]
    <3>1. PICK now \in BOOLEAN : toolRunning' = [toolRunning EXCEPT ![w] = now]
      BY <1>2 DEF WToolTouches, WorkersTypeOK
    <3> QED  BY <3>1 DEF WorkersTypeOK
  <2>2. PICK to \in {"busy", "none"} : wtool' = [wtool EXCEPT ![w][g] = to]
    BY <1>2 DEF WToolTouches
  <2>3. activity' \in [Subagents -> 0..MaxActivity]
    BY <1>2, TouchTypes DEF WToolTouches
  <2>4. UNCHANGED <<wstatus, wloop, wlead, svcCancelled, rtCancelled, whist>>
    BY <1>2 DEF WToolTouches
  <2>5. wtool' \in [Subagents -> [WRuns -> {"none", "admitted", "busy"}]]
        /\ \A v \in Subagents, h \in WRuns : wtool'[v][h] = "admitted" => wtool[v][h] = "admitted"
    BY <2>2 DEF WorkersTypeOK
  <2>6. WorkersTypeOK'
    BY <2>1, <2>3, <2>4, <2>5 DEF WorkersTypeOK
  <2> QED
    BY <2>4, <2>5, <2>6 DEF StopKeepsMark, WorkersTypeOK
<1>3. CASE LeadInspects(w)
  BY <1>3 DEF LeadInspects, WorkersTypeOK, StopKeepsMark
<1>4. CASE SteerWorker(w)
  BY <1>4, TouchTypes DEF SteerWorker, WorkersTypeOK, StopKeepsMark
<1>5. CASE LeadStopChecks(w)
  BY <1>5 DEF LeadStopChecks, WorkersTypeOK, StopKeepsMark
<1> QED  BY <1>1, <1>2, <1>3, <1>4, <1>5

(* Stop, by the owner and by the lead. *)
LEMMA WorkerStopStep ==
  ASSUME WorkersTypeOK, StopKeepsMark,
         \/ \E w \in Subagents : OwnerStopsWorker(w)
         \/ StopThread \/ LeadStopCancels \/ LeadStopWrites
  PROVE  WorkerKeeps
<1> USE DEF WorkerKeeps, wrow, wloop, wlead, whist, Live
<1>1. ASSUME NEW w \in Subagents, OwnerStopsWorker(w) PROVE WorkerKeeps
  <2>1. /\ cancelReq' = cancelReq \cup Registered(w)
        /\ wstatus' \in {wstatus, [wstatus EXCEPT ![w] = "cancelled"]}
        /\ toolRunning' \in {toolRunning, [toolRunning EXCEPT ![w] = FALSE]}
        /\ accepted' \in {accepted, accepted \cup {w}}
        /\ svcCancelled' \in {svcCancelled \cup {w}, svcCancelled \ {w}}
        /\ UNCHANGED <<activity, scheduled, wtask, current, wruns, wlead, rtCancelled, wtool,
                       ownerStopped, hostRestarts>>
    BY <1>1 DEF OwnerStopsWorker, CancelRow
  <2>2. cancelReq' \subseteq Subagents \X WRuns
    BY <2>1, RegisteredRuns DEF WorkersTypeOK
  <2>3. WorkersTypeOK'
    BY <2>1, <2>2 DEF WorkersTypeOK
  <2> QED
    BY <2>1, <2>3 DEF WorkersTypeOK, StopKeepsMark
<1>2. CASE StopThread
  <2> DEFINE live == {w \in Subagents : wstatus[w] \in Live}
  <2>1. /\ rtCancelled' = rtCancelled \cup live /\ svcCancelled' = svcCancelled \cup live
        /\ cancelReq' = cancelReq \cup UNION {Registered(w) : w \in live}
        /\ wstatus' = [w \in Subagents |-> IF w \in live THEN "cancelled" ELSE wstatus[w]]
        /\ toolRunning' = [w \in Subagents |-> w \notin live /\ toolRunning[w]]
        /\ ownerStopped' = ownerStopped \cup live /\ accepted' = accepted \cup live
        /\ UNCHANGED <<activity, scheduled, wtask, current, wruns, wlead, wtool, hostRestarts>>
    BY <1>2 DEF StopThread
  <2>2. live \subseteq Subagents
    OBVIOUS
  <2>3. cancelReq' \subseteq Subagents \X WRuns
    BY <2>1, <2>2, RegisteredRuns DEF WorkersTypeOK
  <2> HIDE DEF live
  <2>4. toolRunning' \in [Subagents -> BOOLEAN]
    BY <2>1
  <2>5. wstatus' \in [Subagents -> Live \cup {"none", "completed", "failed", "cancelled"}]
    BY <2>1 DEF WorkersTypeOK
  <2>6. WorkersTypeOK'
    BY <2>1, <2>2, <2>3, <2>4, <2>5 DEF WorkersTypeOK
  <2>7. StopKeepsMark'
    BY <2>1, <2>2 DEF WorkersTypeOK, StopKeepsMark
  <2> QED  BY <2>1, <2>6, <2>7
<1>3. CASE LeadStopCancels
  <2>1. stopper \in [pc : {"cancel", "row"}, sub : Subagents, seq : -1..MaxActivity]
    BY <1>3 DEF LeadStopCancels, WorkersTypeOK, NoStop
  <2>2. stopper' \in [pc : {"cancel", "row"}, sub : Subagents, seq : -1..MaxActivity]
    BY <1>3, <2>1 DEF LeadStopCancels
  <2>3. cancelReq' \subseteq Subagents \X WRuns
    BY <1>3, <2>1, RegisteredRuns DEF LeadStopCancels, WorkersTypeOK
  <2> QED
    BY <1>3, <2>1, <2>2, <2>3 DEF LeadStopCancels, WorkersTypeOK, StopKeepsMark
<1>4. CASE LeadStopWrites
  <2>1. PICK w \in Subagents : w = stopper.sub
    BY <1>4 DEF LeadStopWrites, WorkersTypeOK, NoStop
  <2>2. /\ wstatus' \in {wstatus, [wstatus EXCEPT ![w] = "cancelled"]}
        /\ toolRunning' \in {toolRunning, [toolRunning EXCEPT ![w] = FALSE]}
        /\ accepted' \in {accepted, accepted \cup {w}}
        /\ svcCancelled' \in {svcCancelled, svcCancelled \ {w}}
        /\ stopper' = NoStop
        /\ UNCHANGED <<activity, wloop, spawning, seen, rtCancelled, wtool, ownerStopped, hostRestarts>>
    BY <1>4, <2>1 DEF LeadStopWrites, CancelRow
  <2> QED
    BY <2>2 DEF WorkersTypeOK, StopKeepsMark
<1> QED  BY <1>1, <1>2, <1>3, <1>4

LEMMA WorkersRestartStep ==
  ASSUME WorkersTypeOK, StopKeepsMark, WorkersHostRestarts PROVE WorkerKeeps
<1>1. Cardinality(Subagents) \in Nat
  BY WorkersAssumption, FS_CardinalityType
<1>2. wstatus' = [w \in Subagents |-> IF wstatus[w] \in Live THEN "failed" ELSE wstatus[w]]
      /\ wtask' = [w \in Subagents |-> [g \in WRuns |-> IF wtask[w][g] = "none" THEN "none" ELSE "done"]]
      /\ wtool' = [w \in Subagents |-> [g \in WRuns |-> "none"]]
      /\ scheduled' = {} /\ current' = [w \in Subagents |-> 0] /\ cancelReq' = {}
      /\ svcCancelled' = {} /\ rtCancelled' = {} /\ spawning' = 0 /\ seen' = [w \in Subagents |-> -1]
      /\ stopper' = NoStop /\ hostRestarts' \in 0..MaxHostRestarts
      /\ UNCHANGED <<activity, toolRunning, wruns, ownerStopped, accepted>>
  BY WorkersAssumption DEF WorkersHostRestarts, WorkersTypeOK
<1>3. wstatus' \in [Subagents -> Live \cup {"none", "completed", "failed", "cancelled"}]
  BY <1>2 DEF WorkersTypeOK
<1>4. wtask' \in [Subagents -> [WRuns -> {"none", "begin", "session", "stream", "ending", "done"}]]
  BY <1>2
<1>5. current' \in [Subagents -> 0..MaxRuns] /\ \A w \in Subagents : current'[w] <= wruns[w]
  BY <1>2, WorkersAssumption DEF WorkersTypeOK
<1>6. seen' \in [Subagents -> -1..MaxActivity]
  BY <1>2, WorkersAssumption
<1>7. WorkersTypeOK'
  BY <1>1, <1>2, <1>3, <1>4, <1>5, <1>6 DEF WorkersTypeOK
<1>8. StopKeepsMark'
  BY <1>2 DEF StopKeepsMark, WorkersTypeOK, Live
<1>9. \A w \in ownerStopped, g \in WRuns : wtool'[w][g] = "none"
  BY <1>2 DEF WorkersTypeOK
<1> QED  BY <1>7, <1>8, <1>9 DEF WorkerKeeps

LEMMA WorkersStepKeeps == ASSUME WorkersTypeOK, StopKeepsMark, WorkersNext PROVE WorkerKeeps
<1>1. CASE WorkersHostRestarts
  BY <1>1, WorkersRestartStep
<1>2. CASE \/ \E w \in Subagents : OwnerStopsWorker(w)
           \/ StopThread \/ LeadStopCancels \/ LeadStopWrites
  BY <1>2, WorkerStopStep
<1>3. CASE SpawnChecks
  <2>1. CASE Subagents = {}
    <3>1. Cardinality({w \in Subagents : wstatus[w] = "none"}) = 0
      <4>1. {w \in Subagents : wstatus[w] = "none"} = {}
        BY <2>1
      <4> HIDE DEF WorkersNext
      <4> QED  BY <4>1, FS_EmptySet
    <3>2. Cardinality(Subagents) = 0
      BY <2>1, FS_EmptySet
    <3> QED  BY <1>3, <3>1, <3>2 DEF SpawnChecks, WorkersTypeOK
  <2>2. CASE Subagents # {}
    BY <1>3, <2>2, LeadSpawnsStep
  <2> QED  BY <2>1, <2>2
<1>4. CASE \E w \in Subagents : SpawnCreates(w) \/ RestartWorker(w)
  BY <1>4, LeadSpawnsStep
<1>5. CASE \E w \in Subagents, g \in WRuns :
            \/ WStarter(w, g) \/ WBegins(w, g) \/ WSessionStarts(w, g) \/ WText(w, g)
            \/ WStreamEnds(w, g) \/ WFails(w, g) \/ WCancelled(w, g)
            \/ \E as \in {"completed", "failed", "cancelled"} : WEnds(w, g, as)
  BY <1>5, CoroutineStep
<1>6. CASE \E w \in Subagents :
             \/ LeadInspects(w) \/ SteerWorker(w) \/ LeadStopChecks(w)
             \/ \E g \in WRuns : WToolAdmitted(w, g) \/ WToolTouches(w, g)
  <2>1. 1 \in WRuns
    BY WorkersAssumption DEF WRuns
  <2> QED  BY <1>6, <2>1, WorkerToolStep
<1> QED
  BY <1>1, <1>2, <1>3, <1>4, <1>5, <1>6 DEF WorkersNext

LEMMA WorkersStutter ==
  ASSUME WorkersTypeOK, StopKeepsMark, UNCHANGED workerVars PROVE WorkerKeeps
BY DEF WorkerKeeps, workerVars, wrow, wloop, wlead, whist, WorkersTypeOK, StopKeepsMark

THEOREM WorkerFactsHold == WorkersSpec => [](WorkersTypeOK /\ StopKeepsMark)
<1>1. WorkersTypeOK /\ StopKeepsMark /\ [WorkersNext]_workerVars => (WorkersTypeOK /\ StopKeepsMark)'
  BY WorkersStepKeeps, WorkersStutter DEF WorkerKeeps
<1> QED
  BY WorkersInitTypes, <1>1, PTL DEF WorkersSpec

(* A run of a worker the owner stopped gets no tool. *)
THEOREM StopAdmitsNoToolsHolds == WorkersSpec => StopAdmitsNoTools
<1>1. WorkersTypeOK /\ StopKeepsMark /\ [WorkersNext]_workerVars =>
        [\A w \in ownerStopped, g \in WRuns :
           wtool'[w][g] = "admitted" => wtool[w][g] = "admitted"]_workerVars
  BY WorkersStepKeeps DEF WorkerKeeps
<1> QED
  BY WorkerFactsHold, <1>1, PTL DEF WorkersSpec, StopAdmitsNoTools

(***************************************************************************)
(* Asks between bots.                                                      *)
(***************************************************************************)

AskRecord == [from : AskBots \cup {NoBot}, to : AskBots \cup {NoBot}, run : 0..MaxTurns, delivered : BOOLEAN]
TurnRecord == [bot : AskBots \cup {NoBot},
               at : AskActive \cup {"none", "ended", "replying", "kicking", "done"},
               text : SUBSET Asks, ended : {"none", "over", "cancelled", "unknown"}]
AskInvariant == AsksTypeOK /\ AskFacts /\ ReplyFacts

LEMMA AskInvariantTypes ==
  ASSUME AskInvariant
  PROVE  /\ ask \in [Asks -> AskRecord] /\ turn \in [AskTurns -> TurnRecord]
         /\ aInbox \in [AskBots -> [asks : SUBSET Asks, replies : SUBSET Asks]]
         /\ handed \in [Asks -> Nat] /\ accepting \subseteq Asks
BY DEF AskInvariant, AsksTypeOK, AskRecord, TurnRecord

LEMMA AsksInitTypes == AsksInit => AskInvariant
<1> SUFFICES ASSUME AsksInit PROVE AskInvariant
  OBVIOUS
<1>1. NoAsk \in AskRecord /\ NoTurn \in TurnRecord /\ EmptyInbox \in [asks : SUBSET Asks, replies : SUBSET Asks]
  <2>1. 0 \in 0..MaxTurns
    BY AsksAssumption
  <2>2. NoAsk \in AskRecord
    BY <2>1 DEF NoAsk, AskRecord
  <2>3. NoTurn \in TurnRecord
    BY DEF NoTurn, TurnRecord
  <2> QED  BY <2>2, <2>3 DEF EmptyInbox
<1>2. AsksTypeOK
  BY <1>1 DEF AsksInit, AsksTypeOK, AskRecord, TurnRecord, NoAsk
<1>3. AskFacts /\ ReplyFacts
  BY DEF AsksInit, AskFacts, ReplyFacts, NoAsk, NoTurn, EmptyInbox
<1> QED  BY <1>2, <1>3 DEF AskInvariant

(* How turns go on: they keep their bots, and one that has begun has one. *)
TurnsGo ==
  /\ turn' \in [AskTurns -> TurnRecord]
  /\ \A t \in AskTurns : turn[t].at # "none" => turn'[t].at # "none" /\ turn'[t].bot = turn[t].bot
  /\ \A t \in AskTurns : turn'[t].at # "none" => turn'[t].bot \in AskBots

LEMMA TurnMoves ==
  ASSUME AskInvariant, NEW t \in AskTurns, turn[t].at # "none",
         NEW to \in {"starting", "live", "unknown", "ended", "replying", "kicking", "done"},
         NEW how \in {"none", "over", "cancelled", "unknown"},
         turn' \in {TurnAt(t, to), [turn EXCEPT ![t].at = to, ![t].ended = how]}
  PROVE  TurnsGo
BY AskInvariantTypes DEF TurnsGo, TurnAt, TurnRecord, AskActive, AskInvariant, AskFacts

(* A new turn takes a free number. *)
LEMMA FreeTurn == ASSUME FreeTurns # {} PROVE Min(FreeTurns) \in AskTurns /\ turn[Min(FreeTurns)].at = "none"
<1>1. FreeTurns \subseteq AskTurns /\ FreeTurns \in SUBSET Nat
  BY DEF FreeTurns, AskTurns
<1>2. Min(FreeTurns) \in FreeTurns
  BY <1>1, MinIsMember
<1> QED  BY <1>2 DEF FreeTurns

(* turns: the turns, with one of them perhaps at its end. *)
LEMMA TurnStarts ==
  ASSUME AskInvariant, NEW b \in AskBots, NEW text \in SUBSET Asks, FreeTurns # {}, NEW turns,
         \/ turns = turn
         \/ \E t \in AskTurns : \E to \in {"kicking", "done"} : turn[t].at # "none" /\ turns = TurnAt(t, to),
         turn' = [turns EXCEPT ![Min(FreeTurns)] = NewTurn(b, text)]
  PROVE  TurnsGo
<1> DEFINE m == Min(FreeTurns)
<1>1. m \in AskTurns /\ turn[m].at = "none"
  BY FreeTurn
<1> HIDE DEF m
<1>2. /\ turns \in [AskTurns -> TurnRecord]
      /\ \A t \in AskTurns : turn[t].at # "none" => turns[t].at # "none" /\ turns[t].bot = turn[t].bot
      /\ \A t \in AskTurns : turns[t].at # "none" => turns[t].bot \in AskBots
  <2>1. \A t \in AskTurns : turn[t].at # "none" => turn[t].bot \in AskBots
    BY DEF AskInvariant, AskFacts
  <2>2. CASE turns = turn
    BY <2>1, <2>2, AskInvariantTypes
  <2>3. ASSUME NEW t \in AskTurns, NEW to \in {"kicking", "done"}, turn[t].at # "none",
               turns = TurnAt(t, to)
        PROVE  /\ turns \in [AskTurns -> TurnRecord]
               /\ \A q \in AskTurns : turn[q].at # "none" => turns[q].at # "none" /\ turns[q].bot = turn[q].bot
               /\ \A q \in AskTurns : turns[q].at # "none" => turns[q].bot \in AskBots
    BY <2>1, <2>3, AskInvariantTypes DEF TurnAt, TurnRecord
  <2> QED  BY <2>2, <2>3
<1>3. NewTurn(b, text) \in TurnRecord /\ NewTurn(b, text).at # "none" /\ NewTurn(b, text).bot = b
  BY DEF NewTurn, TurnRecord, AskActive
<1>4. turn' = [turns EXCEPT ![m] = NewTurn(b, text)]
  BY DEF m
<1> QED
  BY <1>1, <1>2, <1>3, <1>4 DEF TurnsGo

(* What is handed out leaves the inbox. *)
LEMMA RepliesHanded ==
  ASSUME AskInvariant, NEW b \in AskBots,
         handed' = Handed(aInbox[b].replies), aInbox' = [aInbox EXCEPT ![b] = EmptyInbox], UNCHANGED ask
  PROVE  /\ handed' \in [Asks -> Nat]
         /\ aInbox' \in [AskBots -> [asks : SUBSET Asks, replies : SUBSET Asks]]
         /\ ReplyFacts'
<1>1. EmptyInbox \in [asks : SUBSET Asks, replies : SUBSET Asks] /\ EmptyInbox.replies = {}
  BY DEF EmptyInbox
<1>2. handed' = [a \in Asks |-> handed[a] + (IF a \in aInbox[b].replies THEN 1 ELSE 0)]
  BY DEF Handed
<1>3. /\ \A c \in AskBots : aInbox'[c] = IF c = b THEN EmptyInbox ELSE aInbox[c]
      /\ aInbox' \in [AskBots -> [asks : SUBSET Asks, replies : SUBSET Asks]]
  BY <1>1, AskInvariantTypes
<1>4. \A a \in Asks, c \in AskBots :
        a \in aInbox[c].replies <=> ask[a].delivered /\ handed[a] = 0 /\ c = ask[a].from
  BY DEF AskInvariant, ReplyFacts
<1>5. \A a \in Asks : handed[a] \in {0, 1} /\ (handed[a] = 1 => ask[a].delivered)
  BY DEF AskInvariant, ReplyFacts
<1>6. \A a \in Asks : /\ a \in aInbox[b].replies => handed[a] = 0 /\ handed'[a] = 1
                      /\ a \notin aInbox[b].replies => handed'[a] = handed[a]
  BY <1>2, <1>4, <1>5
<1>7. handed' \in [Asks -> Nat]
  BY <1>2, <1>5
<1>8. ReplyFacts'
  BY <1>1, <1>3, <1>4, <1>5, <1>6 DEF ReplyFacts
<1> QED  BY <1>3, <1>7, <1>8

(* Steps that write no question and bind none. *)
LEMMA TurnsOnly ==
  ASSUME AskInvariant, TurnsGo \/ UNCHANGED turn, UNCHANGED ask, accepting' \subseteq accepting,
         \/ UNCHANGED <<aInbox, handed>>
         \/ \E b \in AskBots : /\ handed' = Handed(aInbox[b].replies)
                               /\ aInbox' = [aInbox EXCEPT ![b] = EmptyInbox]
  PROVE  AskInvariant'
<1>1. TurnsGo
  BY AskInvariantTypes DEF TurnsGo, AskInvariant, AskFacts
<1>2. /\ handed' \in [Asks -> Nat]
      /\ aInbox' \in [AskBots -> [asks : SUBSET Asks, replies : SUBSET Asks]]
      /\ ReplyFacts'
  <2>1. CASE UNCHANGED <<aInbox, handed>>
    BY <2>1, AskInvariantTypes DEF AskInvariant, ReplyFacts
  <2>2. CASE \E b \in AskBots : /\ handed' = Handed(aInbox[b].replies)
                                /\ aInbox' = [aInbox EXCEPT ![b] = EmptyInbox]
    BY <2>2, RepliesHanded
  <2> QED  BY <2>1, <2>2
<1>3. \A a \in Asks : ask[a].run # 0 => ask[a].run \in AskTurns
  BY AskInvariantTypes, AsksAssumption DEF AskRecord, AskTurns
<1>4. AskFacts'
  BY <1>1, <1>3 DEF AskInvariant, AskFacts, TurnsGo
<1>5. \A a \in Asks : ask'[a].run # 0 => turn'[ask'[a].run].bot = ask'[a].to
  BY <1>1, <1>3 DEF AskInvariant, AskFacts, AsksTypeOK, TurnsGo
<1>6. AsksTypeOK'
  BY <1>1, <1>2, <1>5, AskInvariantTypes DEF AsksTypeOK, TurnsGo, AskRecord, TurnRecord
<1> QED  BY <1>2, <1>4, <1>6 DEF AskInvariant

(* A question is asked, accepted or refused. *)
LEMMA AskStep ==
  ASSUME AskInvariant,
         \/ \E b, d \in AskBots : AskBot(b, d)
         \/ \E a \in Asks : AskAccepted(a) \/ AskRefused(a)
         \/ \E b \in AskBots : OwnerWrites(b)
  PROVE  AskInvariant'
<1>1. ASSUME NEW b \in AskBots, NEW d \in AskBots, AskBot(b, d) PROVE AskInvariant'
  <2>1. PICK a \in Asks : /\ ask[a] = NoAsk
                          /\ ask' = [ask EXCEPT ![a].from = b, ![a].to = d]
                          /\ accepting' = accepting \cup {a}
    BY <1>1 DEF AskBot
  <2>2. UNCHANGED <<turn, aInbox, handed>>
    BY <1>1 DEF AskBot
  <2> DEFINE new == [ask[a] EXCEPT !.from = b, !.to = d]
  <2>3. ask' = [ask EXCEPT ![a] = new]
    BY <2>1, AskInvariantTypes
  <2>4. new \in AskRecord /\ new.run = 0 /\ ~new.delivered /\ new.from = b /\ new.to = d /\ new # NoAsk
    <3>1. ask[a] \in AskRecord
      BY AskInvariantTypes
    <3>3. ask[a].run = 0 /\ ~ask[a].delivered
      BY <2>1 DEF NoAsk
    <3>2. new \in AskRecord /\ new.run = 0 /\ ~new.delivered /\ new.from = b /\ new.to = d
      BY <3>1, <3>3 DEF AskRecord
    <3> HIDE DEF new
    <3> QED  BY <3>2, AsksAssumption DEF NoAsk
  <2> HIDE DEF new
  <2>5. \A c \in Asks : ask'[c] = IF c = a THEN new ELSE ask[c]
    BY <2>3, AskInvariantTypes
  <2>6. ask' \in [Asks -> AskRecord]
    BY <2>3, <2>4, AskInvariantTypes
  <2>7. ~ask[a].delivered /\ ask[a].run = 0
    BY <2>1 DEF NoAsk
  <2>8. AskFacts'
    <3>1. \A c \in Asks : ask'[c] = NoAsk \/ (ask'[c].from \in AskBots /\ ask'[c].to \in AskBots)
      BY <2>4, <2>5 DEF AskInvariant, AskFacts
    <3>2. \A c \in accepting' : ask'[c] # NoAsk
      BY <2>1, <2>4, <2>5, AskInvariantTypes DEF AskInvariant, AskFacts
    <3>3. \A c \in Asks : ask'[c].run # 0 => turn'[ask'[c].run].at # "none"
      BY <2>2, <2>4, <2>5 DEF AskInvariant, AskFacts
    <3> QED  BY <2>2, <3>1, <3>2, <3>3 DEF AskInvariant, AskFacts
  <2>9. ReplyFacts'
    BY <2>2, <2>4, <2>5, <2>7 DEF AskInvariant, ReplyFacts
  <2>10. AsksTypeOK'
    BY <2>1, <2>2, <2>4, <2>5, <2>6, AskInvariantTypes DEF AskInvariant, AsksTypeOK, AskRecord, TurnRecord
  <2> QED  BY <2>8, <2>9, <2>10 DEF AskInvariant
<1>2. ASSUME NEW a \in Asks, AskAccepted(a) PROVE AskInvariant'
  <2>1. a \in accepting /\ accepting' = accepting \ {a} /\ UNCHANGED ask
    BY <1>2 DEF AskAccepted
  <2>2. PICK d \in AskBots : d = ask[a].to
    BY <2>1 DEF AskInvariant, AskFacts
  <2>3. CASE ActiveTurns(d) = {}
    <3>1. FreeTurns # {} /\ turn' = [turn EXCEPT ![Min(FreeTurns)] = NewTurn(d, {a})]
          /\ aInbox' = [aInbox EXCEPT ![d] = EmptyInbox] /\ handed' = Handed(aInbox[d].replies)
      BY <1>2, <2>2, <2>3 DEF AskAccepted
    <3>2. {a} \in SUBSET Asks
      OBVIOUS
    <3>3. TurnsGo
      BY <3>1, <3>2, TurnStarts
    <3> QED  BY <2>1, <3>1, <3>3, TurnsOnly
  <2>4. CASE ActiveTurns(d) # {}
    <3>1. aInbox' = [aInbox EXCEPT ![d].asks = @ \cup {a}] /\ UNCHANGED <<turn, handed>>
      BY <1>2, <2>2, <2>4 DEF AskAccepted
    <3>2. aInbox' \in [AskBots -> [asks : SUBSET Asks, replies : SUBSET Asks]]
          /\ \A b \in AskBots : aInbox'[b].replies = aInbox[b].replies
      BY <3>1, AskInvariantTypes
    <3>3. AskFacts' /\ ReplyFacts'
      BY <2>1, <3>1, <3>2 DEF AskInvariant, AskFacts, ReplyFacts
    <3>4. AsksTypeOK'
      BY <2>1, <3>1, <3>2, AskInvariantTypes DEF AskInvariant, AsksTypeOK, AskRecord, TurnRecord
    <3> QED  BY <3>3, <3>4 DEF AskInvariant
  <2> QED  BY <2>3, <2>4
<1>3. ASSUME NEW a \in Asks, AskRefused(a) PROVE AskInvariant'
  BY <1>3, TurnsOnly DEF AskRefused
<1>4. ASSUME NEW b \in AskBots, OwnerWrites(b) PROVE AskInvariant'
  <2>1. TurnsGo
    BY <1>4, TurnStarts DEF OwnerWrites
  <2> QED  BY <1>4, <2>1, TurnsOnly DEF OwnerWrites
<1> QED  BY <1>1, <1>2, <1>3, <1>4

(* A turn of a bot binds the oldest open question for it. *)
LEMMA BindStep == ASSUME AskInvariant, NEW t \in AskTurns, AskTurnBegins(t) PROVE AskInvariant'
<1>1. turn[t].at = "starting" /\ turn' = TurnAt(t, "live") /\ UNCHANGED <<accepting, aInbox, handed>>
  BY DEF AskTurnBegins
<1>2. TurnsGo
  BY <1>1, TurnMoves
<1>3. CASE UNCHANGED ask
  BY <1>1, <1>2, <1>3, TurnsOnly
<1>4. CASE ask' # ask
  <2> DEFINE open == {a \in Asks : ask[a].to = turn[t].bot /\ ~ask[a].delivered /\ ask[a].run = 0}
  <2>1. open # {} /\ ask' = [ask EXCEPT ![Min(open)].run = t]
    BY <1>4 DEF AskTurnBegins, BindPendingAskRun
  <2>2. open \in SUBSET Nat
    BY DEF Asks
  <2>3. Min(open) \in open
    BY <2>1, <2>2, MinIsMember
  <2>4. PICK a \in Asks : a = Min(open) /\ ask[a].to = turn[t].bot /\ ~ask[a].delivered
    BY <2>3
  <2> HIDE DEF open
  <2>5. ask' = [ask EXCEPT ![a].run = t]
    BY <2>1, <2>4
  <2>6. t \in 0..MaxTurns
    BY DEF AskTurns
  <2>7. /\ ask' \in [Asks -> AskRecord]
        /\ \A c \in Asks : /\ ask'[c].from = ask[c].from /\ ask'[c].to = ask[c].to
                           /\ ask'[c].delivered = ask[c].delivered
                           /\ ask'[c].run = IF c = a THEN t ELSE ask[c].run
                           /\ c # a => ask'[c] = ask[c]
    BY <2>5, <2>6, AskInvariantTypes DEF AskRecord
  <2>8. turn[t].bot \in AskBots /\ turn'[t].bot = turn[t].bot /\ turn'[t].at # "none"
    BY <1>1, <1>2 DEF TurnsGo, AskInvariant, AskFacts
  <2>9. ask[a].from \in AskBots /\ ask[a].to \in AskBots /\ ask'[a] # NoAsk
    <3>1. ask[a] # NoAsk
      BY <2>4, <2>8, AsksAssumption DEF NoAsk
    <3>2. ask[a].from \in AskBots /\ ask[a].to \in AskBots
      BY <3>1 DEF AskInvariant, AskFacts
    <3>3. ask'[a].from # NoBot
      BY <2>7, <3>2, AsksAssumption
    <3> QED  BY <3>2, <3>3 DEF NoAsk
  <2>10. \A c \in Asks : ask[c].run # 0 => ask[c].run \in AskTurns
    BY AskInvariantTypes, AsksAssumption DEF AskRecord, AskTurns
  <2>11. \A c \in Asks : ask'[c].run # 0 => turn'[ask'[c].run].at # "none" /\ turn'[ask'[c].run].bot = ask'[c].to
    <3> SUFFICES ASSUME NEW c \in Asks, ask'[c].run # 0
                 PROVE  turn'[ask'[c].run].at # "none" /\ turn'[ask'[c].run].bot = ask'[c].to
      OBVIOUS
    <3>1. CASE c = a
      BY <2>4, <2>7, <2>8, <3>1
    <3>2. CASE c # a
      <4>1. ask[c].run \in AskTurns /\ turn[ask[c].run].at # "none" /\ turn[ask[c].run].bot = ask[c].to
        BY <2>7, <2>10, <3>2 DEF AskInvariant, AskFacts, AsksTypeOK
      <4> QED  BY <1>2, <2>7, <3>2, <4>1 DEF TurnsGo
    <3> QED  BY <3>1, <3>2
  <2>12. AskFacts'
    <3>1. \A c \in Asks : ask'[c] = NoAsk \/ (ask'[c].from \in AskBots /\ ask'[c].to \in AskBots)
      BY <2>7, <2>9 DEF AskInvariant, AskFacts
    <3>2. \A c \in accepting' : ask'[c] # NoAsk
      BY <1>1, <2>7, <2>9, AskInvariantTypes DEF AskInvariant, AskFacts
    <3> QED  BY <1>2, <2>11, <3>1, <3>2 DEF AskFacts, TurnsGo
  <2>13. ReplyFacts'
    BY <1>1, <2>7 DEF AskInvariant, ReplyFacts
  <2>14. AsksTypeOK'
    BY <1>1, <1>2, <2>7, <2>11, AskInvariantTypes DEF AsksTypeOK, AskRecord, TurnRecord, TurnsGo
  <2> QED  BY <2>12, <2>13, <2>14 DEF AskInvariant
<1> QED  BY <1>3, <1>4

(* The question is marked in the step that leaves its reply in the inbox or gives it to a *)
(* turn.                                                                                  *)
LEMMA DeliverStep == ASSUME AskInvariant, NEW t \in AskTurns, DeliverFollowUp(t) PROVE AskInvariant'
<1>1. turn[t].at = "replying" /\ UNCHANGED accepting
  BY DEF DeliverFollowUp
<1>2. PICK a \in Undelivered(t) :
        /\ ask' = [ask EXCEPT ![a].delivered = TRUE]
        /\ IF ActiveTurns(ask[a].from) # {}
             THEN /\ turn' = TurnAt(t, "kicking")
                  /\ aInbox' = [aInbox EXCEPT ![ask[a].from].replies = @ \cup {a}]
                  /\ UNCHANGED handed
             ELSE /\ FreeTurns # {}
                  /\ turn' = [TurnAt(t, "kicking") EXCEPT ![Min(FreeTurns)] = NewTurn(ask[a].from, {})]
                  /\ handed' = Handed({a})
                  /\ UNCHANGED aInbox
  BY DEF DeliverFollowUp
<1>3. a \in Asks /\ ask[a].run = t /\ ~ask[a].delivered
  BY DEF Undelivered
<1>4. t # 0
  BY DEF AskTurns
<1>5. PICK b \in AskBots : b = ask[a].from
  <2>1. ask[a] # NoAsk
    BY <1>3, <1>4 DEF NoAsk
  <2> QED  BY <1>3, <2>1 DEF AskInvariant, AskFacts
<1>6. /\ ask' \in [Asks -> AskRecord]
      /\ \A c \in Asks : /\ ask'[c].from = ask[c].from /\ ask'[c].to = ask[c].to /\ ask'[c].run = ask[c].run
                         /\ ask'[c].delivered <=> (ask[c].delivered \/ c = a)
                         /\ c # a => ask'[c] = ask[c]
  BY <1>2, <1>3, AskInvariantTypes DEF AskRecord
<1>7. ask[a].to \in AskBots /\ ask'[a].to \in AskBots /\ ask'[a].from \in AskBots
  BY <1>3, <1>4, <1>6 DEF AskInvariant, AskFacts, NoAsk
<1>8. /\ \A c \in Asks : handed[c] \in {0, 1} /\ (handed[c] = 1 => ask[c].delivered)
      /\ \A c \in Asks, d \in AskBots :
           c \in aInbox[d].replies <=> ask[c].delivered /\ handed[c] = 0 /\ d = ask[c].from
  BY DEF AskInvariant, ReplyFacts
<1>9. TurnsGo
  <2>1. CASE turn' = TurnAt(t, "kicking")
    BY <1>1, <2>1, TurnMoves
  <2>2. CASE FreeTurns # {} /\ turn' = [TurnAt(t, "kicking") EXCEPT ![Min(FreeTurns)] = NewTurn(b, {})]
    BY <1>1, <2>2, TurnStarts
  <2> QED  BY <1>2, <1>5, <2>1, <2>2
<1>10. /\ handed' \in [Asks -> Nat]
       /\ aInbox' \in [AskBots -> [asks : SUBSET Asks, replies : SUBSET Asks]]
       /\ ReplyFacts'
  <2>1. CASE ActiveTurns(b) # {}
    <3>1. aInbox' = [aInbox EXCEPT ![b].replies = @ \cup {a}] /\ UNCHANGED handed
      BY <1>2, <1>5, <2>1
    <3>2. /\ aInbox' \in [AskBots -> [asks : SUBSET Asks, replies : SUBSET Asks]]
          /\ \A d \in AskBots : aInbox'[d].replies = IF d = b THEN aInbox[d].replies \cup {a} ELSE aInbox[d].replies
      BY <1>3, <3>1, AskInvariantTypes
    <3>3. \A c \in Asks, d \in AskBots : c \in aInbox'[d].replies <=> (c \in aInbox[d].replies \/ (c = a /\ d = b))
      BY <3>2
    <3>4. handed[a] = 0
      BY <1>3, <1>8
    <3>5. ReplyFacts'
      <4>1. \A c \in Asks : handed'[c] \in {0, 1} /\ (handed'[c] = 1 => ask'[c].delivered)
        BY <1>6, <1>8, <3>1
      <4>2. ASSUME NEW c \in Asks, NEW d \in AskBots
            PROVE  c \in aInbox'[d].replies <=> ask'[c].delivered /\ handed'[c] = 0 /\ d = ask'[c].from
        <5>1. CASE c = a
          BY <1>3, <1>5, <1>6, <1>8, <3>1, <3>3, <3>4, <5>1
        <5>2. CASE c # a
          BY <1>6, <1>8, <3>1, <3>3, <5>2
        <5> QED  BY <5>1, <5>2
      <4> QED  BY <4>1, <4>2 DEF ReplyFacts
    <3> QED  BY <3>1, <3>2, <3>5, AskInvariantTypes
  <2>2. CASE ActiveTurns(b) = {}
    <3>1. UNCHANGED aInbox /\ handed' = [c \in Asks |-> handed[c] + (IF c \in {a} THEN 1 ELSE 0)]
      BY <1>2, <1>5, <2>2 DEF Handed
    <3>2. handed[a] = 0 /\ handed'[a] = 1 /\ \A c \in Asks : c # a => handed'[c] = handed[c]
      BY <1>3, <1>8, <3>1
    <3>3. handed' \in [Asks -> Nat]
      BY <1>8, <3>1
    <3>4. ReplyFacts'
      <4>1. \A c \in Asks : handed'[c] \in {0, 1} /\ (handed'[c] = 1 => ask'[c].delivered)
        BY <1>6, <1>8, <3>2
      <4>2. ASSUME NEW c \in Asks, NEW d \in AskBots
            PROVE  c \in aInbox'[d].replies <=> ask'[c].delivered /\ handed'[c] = 0 /\ d = ask'[c].from
        <5>1. CASE c = a
          BY <1>3, <1>6, <1>8, <3>1, <3>2, <5>1
        <5>2. CASE c # a
          BY <1>6, <1>8, <3>1, <3>2, <5>2
        <5> QED  BY <5>1, <5>2
      <4> QED  BY <4>1, <4>2 DEF ReplyFacts
    <3> QED  BY <3>1, <3>3, <3>4, AskInvariantTypes
  <2> QED  BY <2>1, <2>2
<1>11. \A c \in Asks : ask[c].run # 0 => ask[c].run \in AskTurns
  BY AskInvariantTypes, AsksAssumption DEF AskRecord, AskTurns
<1>12. AskFacts'
  <2>1. \A c \in Asks : ask'[c] = NoAsk \/ (ask'[c].from \in AskBots /\ ask'[c].to \in AskBots)
    BY <1>6, <1>7 DEF AskInvariant, AskFacts
  <2>2. \A c \in accepting' : ask'[c] # NoAsk
    <3>1. ask'[a] # NoAsk
      BY <1>7, AsksAssumption DEF NoAsk
    <3> QED  BY <1>1, <1>6, <3>1, AskInvariantTypes DEF AskInvariant, AskFacts
  <2> QED
    BY <1>6, <1>9, <1>11, <2>1, <2>2 DEF AskInvariant, AskFacts, TurnsGo
<1>13. \A c \in Asks : ask'[c].run # 0 => turn'[ask'[c].run].bot = ask'[c].to
  BY <1>6, <1>9, <1>11 DEF AskInvariant, AskFacts, AsksTypeOK, TurnsGo
<1>14. AsksTypeOK'
  BY <1>1, <1>6, <1>9, <1>10, <1>13, AskInvariantTypes DEF AsksTypeOK, AskRecord, TurnRecord, TurnsGo
<1> QED  BY <1>10, <1>12, <1>14 DEF AskInvariant

(* The inbox of a bot becomes a turn, or stays. *)
LEMMA KickedStep ==
  ASSUME AskInvariant, NEW b \in AskBots, NEW turns, Kicked(b, turns), UNCHANGED <<ask, accepting>>,
         turns = turn \/ \E t \in AskTurns : turn[t].at # "none" /\ turns = TurnAt(t, "done")
  PROVE  AskInvariant'
<1>1. CASE aInbox[b] = EmptyInbox \/ ActiveTurns(b) # {}
  <2>1. turn' = turns /\ UNCHANGED <<aInbox, handed>>
    BY <1>1 DEF Kicked
  <2>2. TurnsGo \/ UNCHANGED turn
    BY <2>1, TurnMoves
  <2> QED  BY <2>1, <2>2, TurnsOnly
<1>2. CASE ~(aInbox[b] = EmptyInbox \/ ActiveTurns(b) # {})
  <2>1. FreeTurns # {} /\ turn' = [turns EXCEPT ![Min(FreeTurns)] = NewTurn(b, aInbox[b].asks)]
        /\ aInbox' = [aInbox EXCEPT ![b] = EmptyInbox] /\ handed' = Handed(aInbox[b].replies)
    BY <1>2 DEF Kicked
  <2>2. aInbox[b].asks \in SUBSET Asks
    BY AskInvariantTypes
  <2>3. TurnsGo
    BY <2>1, <2>2, TurnStarts
  <2> QED  BY <2>1, <2>3, TurnsOnly
<1> QED  BY <1>1, <1>2

LEMMA AskTurnStep ==
  ASSUME AskInvariant, NEW t \in AskTurns,
         \/ AskTurnStopped(t) \/ ToolTakesInbox(t) \/ UnknownTurnSettled(t)
         \/ PeekUndelivered(t) \/ DeliverFails(t) \/ KickAsks(t)
         \/ \E how \in {"over", "cancelled", "unknown"} : AskTurnEnds(t, how)
  PROVE  AskInvariant'
<1>1. CASE AskTurnStopped(t)
  BY <1>1, TurnMoves, TurnsOnly DEF AskTurnStopped
<1>2. CASE ToolTakesInbox(t)
  <2>1. turn[t].bot \in AskBots
    BY <1>2 DEF ToolTakesInbox, AskInvariant, AskFacts
  <2> QED  BY <1>2, <2>1, TurnsOnly DEF ToolTakesInbox
<1>3. CASE UnknownTurnSettled(t)
  BY <1>3, TurnMoves, TurnsOnly DEF UnknownTurnSettled
<1>4. CASE PeekUndelivered(t)
  <2>1. PICK to \in {"kicking", "replying"} : turn' = TurnAt(t, to)
    BY <1>4 DEF PeekUndelivered
  <2> QED  BY <1>4, <2>1, TurnMoves, TurnsOnly DEF PeekUndelivered
<1>5. CASE DeliverFails(t)
  BY <1>5, TurnMoves, TurnsOnly DEF DeliverFails
<1>6. CASE KickAsks(t)
  <2>1. CASE turn[t].ended = "cancelled"
    BY <1>6, <2>1, TurnMoves, TurnsOnly DEF KickAsks
  <2>2. CASE turn[t].ended # "cancelled"
    <3>1. turn[t].bot \in AskBots
      BY <1>6 DEF KickAsks, AskInvariant, AskFacts
    <3> QED  BY <1>6, <2>2, <3>1, KickedStep DEF KickAsks
  <2> QED  BY <2>1, <2>2
<1>7. ASSUME NEW how \in {"over", "cancelled", "unknown"}, AskTurnEnds(t, how) PROVE AskInvariant'
  <2>1. PICK to \in {"unknown", "ended"} : turn' = [turn EXCEPT ![t].at = to, ![t].ended = how]
    BY <1>7 DEF AskTurnEnds
  <2> QED  BY <1>7, <2>1, TurnMoves, TurnsOnly DEF AskTurnEnds
<1> QED  BY <1>1, <1>2, <1>3, <1>4, <1>5, <1>6, <1>7

(* An exit ends the turns and drops the questions on their way. *)
LEMMA AsksRestartStep == ASSUME AskInvariant, AsksHostRestarts PROVE AskInvariant'
<1>1. NoTurn \in TurnRecord
  BY DEF NoTurn, TurnRecord
<1>2. turn' = [t \in AskTurns |-> IF turn[t].at = "none" THEN NoTurn ELSE [turn[t] EXCEPT !.at = "done"]]
  BY DEF AsksHostRestarts
<1>3. TurnsGo
  <2>1. ASSUME NEW t \in AskTurns
        PROVE  /\ turn'[t] \in TurnRecord
               /\ turn[t].at # "none" => turn'[t].at # "none" /\ turn'[t].bot = turn[t].bot
               /\ turn'[t].at # "none" => turn'[t].bot \in AskBots
    <3>1. turn[t] \in TurnRecord
      BY AskInvariantTypes
    <3>2. CASE turn[t].at = "none"
      BY <1>1, <1>2, <3>2 DEF NoTurn
    <3>3. CASE turn[t].at # "none"
      <4>1. turn'[t] = [turn[t] EXCEPT !.at = "done"]
        BY <1>2, <3>3
      <4>2. turn[t].bot \in AskBots
        BY <3>3 DEF AskInvariant, AskFacts
      <4> QED  BY <3>1, <4>1, <4>2 DEF TurnRecord
    <3> QED  BY <3>2, <3>3
  <2> QED  BY <1>2, <2>1 DEF TurnsGo
<1> QED  BY <1>3, TurnsOnly DEF AsksHostRestarts

LEMMA AsksStep == ASSUME AskInvariant, AsksNext PROVE AskInvariant'
<1>1. CASE AsksHostRestarts
  BY <1>1, AsksRestartStep
<1>2. CASE \/ \E b, d \in AskBots : AskBot(b, d)
           \/ \E a \in Asks : AskAccepted(a) \/ AskRefused(a)
           \/ \E b \in AskBots : OwnerWrites(b)
  BY <1>2, AskStep
<1>3. ASSUME NEW b \in AskBots, KickBot(b) PROVE AskInvariant'
  BY <1>3, KickedStep DEF KickBot
<1>4. CASE \E t \in AskTurns : AskTurnBegins(t)
  BY <1>4, BindStep
<1>5. CASE \E t \in AskTurns : DeliverFollowUp(t)
  BY <1>5, DeliverStep
<1>6. CASE \E t \in AskTurns :
             \/ AskTurnStopped(t) \/ ToolTakesInbox(t) \/ UnknownTurnSettled(t)
             \/ PeekUndelivered(t) \/ DeliverFails(t) \/ KickAsks(t)
             \/ \E how \in {"over", "cancelled", "unknown"} : AskTurnEnds(t, how)
  BY <1>6, AskTurnStep
<1> QED  BY <1>1, <1>2, <1>3, <1>4, <1>5, <1>6 DEF AsksNext

LEMMA AsksStutter == ASSUME AskInvariant, UNCHANGED askVars PROVE AskInvariant'
BY DEF askVars, AskInvariant, AsksTypeOK, AskFacts, ReplyFacts

THEOREM AskFactsHold == AsksSpec => []AskInvariant
<1>1. AskInvariant /\ [AsksNext]_askVars => AskInvariant'
  BY AsksStep, AsksStutter
<1> QED
  BY AsksInitTypes, <1>1, PTL DEF AsksSpec

(* The reply to a delivered question is in one place. *)
THEOREM ReplyKeptOnceHolds == AsksSpec => []ReplyKeptOnce
<1>1. AskInvariant => ReplyKeptOnce
  <2> SUFFICES ASSUME AskInvariant, NEW a \in Asks
               PROVE  handed[a] + Cardinality({b \in AskBots : a \in aInbox[b].replies})
                        = IF ask[a].delivered THEN 1 ELSE 0
    BY DEF ReplyKeptOnce
  <2> DEFINE at == {b \in AskBots : a \in aInbox[b].replies}
  <2>1. handed[a] \in {0, 1} /\ (handed[a] = 1 => ask[a].delivered)
    BY DEF AskInvariant, ReplyFacts
  <2>2. \A b \in AskBots : b \in at <=> ask[a].delivered /\ handed[a] = 0 /\ b = ask[a].from
    BY DEF AskInvariant, ReplyFacts
  <2>3. at \subseteq AskBots
    OBVIOUS
  <2> HIDE DEF at
  <2>4. CASE ask[a].delivered /\ handed[a] = 0
    <3>1. ask[a].from \in AskBots
      BY <2>4 DEF AskInvariant, AskFacts, NoAsk
    <3>2. at = {ask[a].from}
      BY <2>2, <2>3, <2>4, <3>1
    <3>3. Cardinality(at) = 1
      BY <3>2, FS_Singleton
    <3> QED  BY <2>4, <3>3 DEF at
  <2>5. CASE ~(ask[a].delivered /\ handed[a] = 0)
    <3>1. at = {}
      BY <2>2, <2>3, <2>5
    <3>2. Cardinality(at) = 0
      BY <3>1, FS_EmptySet
    <3> QED  BY <2>1, <2>5, <3>2 DEF at
  <2> QED  BY <2>4, <2>5
<1> QED
  BY AskFactsHold, <1>1, PTL

(***************************************************************************)
(* The computer.                                                           *)
(***************************************************************************)

(* A row or a record has a holder "user" exactly when it has a lease. *)
Controlled(row) == row \in Rows /\ (row.holder = "user" <=> row.lease # 0)

Boxes == [id : 0..MaxBoxes, up : BOOLEAN, token : 0..MaxLeases]
ComputerInvariant == ComputerTypeOK /\ RecordsKeepUp

LEMMA ComputerTypes ==
  ASSUME ComputerInvariant
  PROVE  /\ Controlled(comp) /\ team \subseteq Bots /\ dueList \subseteq Bots
         /\ botRun \in [Bots -> {"none", "running", "waiting_input", "waiting_takeover"}]
         /\ box \in Boxes /\ boxes \in 0..MaxBoxes /\ leases \in 0..MaxLeases
         /\ call \in [Procs -> {NoCall} \cup Calls]
         /\ \A p \in Procs : call[p] # NoCall => call[p] \in Calls /\ Controlled(call[p].rec)
BY DEF ComputerInvariant, ComputerTypeOK, RecordsKeepUp, Controlled, Boxes, Calls

LEMMA ComputerInitTypes == ComputerInit => ComputerInvariant
<1> SUFFICES ASSUME ComputerInit PROVE ComputerInvariant
  OBVIOUS
<1>1. 0 \in 0..MaxBoxes /\ 1 \in 0..MaxBoxes /\ 0 \in 0..MaxLeases /\ 0 \in 0..MaxCalls /\ 0 \in 0..MaxEvents
  BY ComputerAssumption
<1>2. Fresh \in Rows /\ Fresh.holder # "user" /\ Fresh.lease = 0
  BY <1>1 DEF Fresh, Rows
<1>3. \A b \in Bots : BootedBy(b) \in Rows /\ BootedBy(b).holder # "user" /\ BootedBy(b).lease = 0
  BY <1>1 DEF BootedBy, Fresh, Rows
<1>4. comp \in Rows /\ comp.holder # "user" /\ comp.lease = 0
  BY <1>2, <1>3 DEF ComputerInit
<1>5. box \in Boxes /\ boxes \in 0..MaxBoxes
  <2>1. NoBox \in Boxes
    BY <1>1 DEF NoBox, Boxes
  <2>2. [NoBox EXCEPT !.id = 1, !.up = TRUE] \in Boxes
    BY <1>1, <2>1 DEF Boxes
  <2> QED  BY <1>1, <2>1, <2>2 DEF ComputerInit
<1> QED
  BY <1>1, <1>4, <1>5 DEF ComputerInit, ComputerInvariant, ComputerTypeOK, RecordsKeepUp, Boxes

(* What the store makes of a row. *)
LEMMA SavedRow ==
  ASSUME ComputerInvariant, NEW rec \in Rows
  PROVE  Controlled(SaveBoxState(rec)) /\ SaveBoxState(rec).lease = comp.lease
BY ComputerTypes DEF SaveBoxState, Controlled, Rows

LEMMA UncontrolledRow ==
  ASSUME NEW row \in Rows, NEW holder \in {"none", "bot"}, ComputerInvariant
  PROVE  Controlled(Uncontrolled(row, holder)) /\ Uncontrolled(row, holder).lease = 0
<1> DEFINE x == [row EXCEPT !.holder = holder, !.lease = 0, !.ctrl = "nobody", !.quiet = FALSE]
<1>1. 0 \in 0..MaxLeases
  BY ComputerAssumption
<1>2. x \in Rows /\ x.holder = holder /\ x.lease = 0
  BY <1>1 DEF Rows
<1>3. Uncontrolled(row, holder) = x
  BY DEF Uncontrolled
<1> HIDE DEF x
<1> QED  BY <1>2, <1>3 DEF Controlled

LEMMA ClearedRow ==
  ASSUME ComputerInvariant, NEW lease, NEW holder \in {"none", "bot"}
  PROVE  /\ Controlled(ClearControlLease(lease, holder))
         /\ ClearControlLease(lease, holder).lease \in {0, comp.lease}
BY ComputerTypes, UncontrolledRow DEF ClearControlLease, Controlled

LEMMA DroppedScreen ==
  ASSUME ComputerInvariant, NEW ref, NEW lease PROVE DropScreen(ref, lease) \in Boxes
BY ComputerTypes, ComputerAssumption DEF DropScreen, Boxes

LEMMA CreatedBox == ASSUME ComputerInvariant, CreateBox PROVE box' \in Boxes /\ boxes' \in 0..MaxBoxes
<1>1. CASE box' = [box EXCEPT !.up = TRUE] /\ UNCHANGED boxes
  BY <1>1, ComputerTypes DEF Boxes
<1>2. CASE boxes < MaxBoxes /\ boxes' = boxes + 1 /\ box' = [id |-> boxes + 1, up |-> TRUE, token |-> 0]
  <2>1. boxes + 1 \in 0..MaxBoxes /\ 0 \in 0..MaxLeases
    BY <1>2, ComputerTypes, ComputerAssumption
  <2> QED  BY <1>2, <2>1 DEF Boxes
<1> QED  BY <1>1, <1>2 DEF CreateBox

(* A step of a call that grants no control: what it does to the row and around it ... *)
WorldGoes ==
  /\ Controlled(comp') /\ comp'.lease \in {0, comp.lease}
  /\ team' \subseteq Bots /\ dueList' \subseteq Bots
  /\ botRun' \in [Bots -> {"none", "running", "waiting_input", "waiting_takeover"}]
  /\ box' \in Boxes /\ boxes' \in 0..MaxBoxes
  /\ UNCHANGED <<leases, expired, calls, events>>

(* ... and what the call p is afterwards. *)
CallGoes(p, x) ==
  /\ call' = [call EXCEPT ![p] = x]
  /\ \/ x = NoCall
     \/ /\ x \in Calls /\ x # NoCall
        /\ Controlled(x.rec)
        /\ p \notin before' =>
             /\ comp'.lease \in {0, x.rec.lease}
             /\ x.pc = "act" => ~UserHasControl(x.rec)

LEMMA CallStep ==
  ASSUME ComputerInvariant, NEW p \in Procs, NEW x, WorldGoes, CallGoes(p, x),
         before' \in {before, before \ {p}}
  PROVE  ComputerInvariant'
<1>1. call' \in [Procs -> {NoCall} \cup Calls]
  BY ComputerTypes DEF CallGoes
<1>2. \A q \in Procs : call'[q] = IF q = p THEN x ELSE call[q]
  BY ComputerTypes DEF CallGoes
<1>3. ComputerTypeOK'
  BY <1>1 DEF ComputerInvariant, ComputerTypeOK, WorldGoes, Controlled, Boxes
<1>4. \A rec : UserHasControl(rec)' <=> UserHasControl(rec)
  BY DEF UserHasControl, WorldGoes
<1>5. ASSUME NEW q \in Procs, call'[q] # NoCall
      PROVE  /\ call'[q].rec.holder = "user" <=> call'[q].rec.lease # 0
             /\ q \notin before' => comp'.lease \in {0, call'[q].rec.lease}
             /\ q \notin before' /\ call'[q].pc = "act" => ~UserHasControl(call'[q].rec)
  <2>1. CASE q = p
    BY <1>2, <1>5, <2>1 DEF CallGoes, Controlled
  <2>2. CASE q # p
    <3>1. call'[q] = call[q] /\ (q \in before' <=> q \in before)
      BY <1>2, <2>2
    <3> QED
      BY <1>5, <3>1 DEF ComputerInvariant, RecordsKeepUp, WorldGoes
  <2> QED  BY <2>1, <2>2
<1>6. RecordsKeepUp'
  BY <1>4, <1>5 DEF RecordsKeepUp, UserHasControl, WorldGoes
<1> QED  BY <1>3, <1>6 DEF ComputerInvariant

LEMMA CallEnds ==
  ASSUME ComputerInvariant, NEW p \in Procs, Done(p), WorldGoes, before' \in {before, before \ {p}}
  PROVE  ComputerInvariant'
BY CallStep DEF Done, CallGoes

Pcs == {"read", "expire", "go", "boot", "provision", "provisioned", "booted", "clear", "save",
        "delete", "touch", "act"}

LEMMA CallGoesOn ==
  ASSUME ComputerInvariant, NEW p \in Procs, call[p] # NoCall, NEW pc \in Pcs, NEW rec, Go(p, pc, rec),
         Controlled(rec), WorldGoes, before' \in {before, before \ {p}},
         p \in before' \/ comp'.lease \in {0, rec.lease},
         pc = "act" => p \in before' \/ ~UserHasControl(rec)
  PROVE  ComputerInvariant'
<1> DEFINE x == [call[p] EXCEPT !.pc = pc, !.rec = rec]
<1>1. call[p] \in Calls
  BY ComputerTypes
<1>2. x \in Calls /\ x.pc = pc /\ x.rec = rec
  BY <1>1 DEF Calls, Pcs, Controlled
<1>3. call' = [call EXCEPT ![p] = x]
  BY ComputerTypes DEF Go
<1> HIDE DEF x
<1>4. x # NoCall
  <2>1. x.op \in LoopOps \cup ToolOps \cup {"input"}
    BY <1>2 DEF Calls
  <2> QED  BY <2>1 DEF NoCall, LoopOps, ToolOps
<1>5. CallGoes(p, x)
  BY <1>2, <1>3, <1>4 DEF CallGoes
<1> QED  BY <1>5, CallStep

(* The record stays: the call goes on as another operation. *)
LEMMA CallTurns ==
  ASSUME ComputerInvariant, NEW p \in Procs, call[p] # NoCall, NEW op \in {"status", "boot"},
         call' = [call EXCEPT ![p].op = op, ![p].pc = "read"], WorldGoes, UNCHANGED before
  PROVE  ComputerInvariant'
<1> DEFINE x == [call[p] EXCEPT !.op = op, !.pc = "read"]
<1>1. call[p] \in Calls
  BY ComputerTypes
<1>2. x \in Calls /\ x.pc = "read" /\ x.rec = call[p].rec /\ x.op = op
  BY <1>1 DEF Calls, LoopOps
<1>3. call' = [call EXCEPT ![p] = x]
  BY ComputerTypes
<1> HIDE DEF x
<1>4. x # NoCall
  BY <1>2 DEF NoCall
<1>5. CallGoes(p, x)
  BY <1>2, <1>3, <1>4, ComputerTypes DEF CallGoes, ComputerInvariant, RecordsKeepUp, WorldGoes
<1> QED  BY <1>5, CallStep

(* What is known of a call under way. *)
LEMMA CallKnown ==
  ASSUME ComputerInvariant, NEW p \in Procs, call[p] # NoCall
  PROVE  /\ call[p] \in Calls /\ Controlled(call[p].rec) /\ call[p].bot \in Bots
         /\ p \in before \/ comp.lease \in {0, call[p].rec.lease}
BY ComputerTypes DEF ComputerInvariant, RecordsKeepUp, Calls

(* The record moves on in its box fields, the row and the rest stay or are saved. *)
LEMMA GoesOnInBox ==
  ASSUME ComputerInvariant, NEW p \in Procs, call[p] # NoCall, NEW pc \in Pcs, pc # "act",
         NEW rec, Go(p, pc, rec), Controlled(rec), rec.lease = call[p].rec.lease, WorldGoes, UNCHANGED before
  PROVE  ComputerInvariant'
<1>1. p \in before \/ comp'.lease \in {0, rec.lease}
  BY CallKnown DEF WorldGoes
<1> QED  BY <1>1, CallGoesOn

(* The row is saved, or stays; all around it stays. *)
LEMMA RowSaved ==
  ASSUME ComputerInvariant, UNCHANGED comp \/ \E rec \in Rows : comp' = SaveBoxState(rec),
         UNCHANGED <<team, botRun, box, boxes, leases, expired, calls, events, dueList>>
  PROVE  WorldGoes
BY ComputerTypes, SavedRow DEF WorldGoes, Controlled

(* The box changes; the row stays. *)
LEMMA BoxChanged ==
  ASSUME ComputerInvariant, box' \in Boxes, boxes' \in 0..MaxBoxes,
         UNCHANGED <<comp, team, botRun, leases, expired, calls, events, dueList>>
  PROVE  WorldGoes
BY ComputerTypes DEF WorldGoes, Controlled

LEMMA ReadAndExpireStep ==
  ASSUME ComputerInvariant, NEW p \in Procs, ReadRow(p) \/ Expire(p) PROVE ComputerInvariant'
<1>0. call[p] # NoCall
  BY DEF ReadRow, Expire, At
<1> DEFINE rec == call[p].rec
<1>1. Controlled(rec) /\ (p \in before \/ comp.lease \in {0, rec.lease})
  BY <1>0, CallKnown
<1>2. CASE ReadRow(p)
  <2>1. WorldGoes
    BY <1>2, RowSaved DEF ReadRow
  <2> QED
    BY <1>0, <1>2, <2>1, CallGoesOn, ComputerTypes DEF ReadRow, Pcs
<1>3. CASE Expire(p)
  <2>0. UNCHANGED <<team, botRun, boxes, leases, expired, calls, events, dueList, before>>
    BY <1>3 DEF Expire
  <2>1. ASSUME UNCHANGED <<box, comp>>, GoOn(p, rec) PROVE ComputerInvariant'
    <3>1. WorldGoes
      BY <2>0, <2>1, RowSaved
    <3>2. CASE Done(p)
      BY <2>0, <3>1, <3>2, CallEnds
    <3>3. CASE Go(p, "go", rec)
      BY <1>0, <1>1, <2>0, <3>1, <3>3, GoesOnInBox DEF Pcs
    <3> QED  BY <2>1, <3>2, <3>3 DEF GoOn
  <2>2. ASSUME NEW holder \in {"none", "bot"}, NEW after, after = ClearControlLease(rec.lease, holder),
               box' = DropScreen(rec.ref, rec.lease), comp' = after,
               GoOn(p, IF comp.lease = rec.lease THEN after ELSE rec)
        PROVE  ComputerInvariant'
    <3>1. Controlled(comp') /\ comp'.lease \in {0, comp.lease} /\ box' \in Boxes
      BY <2>2, ClearedRow, DroppedScreen
    <3>2. WorldGoes
      BY <2>0, <3>1, ComputerTypes DEF WorldGoes
    <3>3. CASE Done(p)
      BY <2>0, <3>2, <3>3, CallEnds
    <3>4. CASE Go(p, "go", after)
      BY <1>0, <2>0, <2>2, <3>1, <3>2, <3>4, CallGoesOn DEF Pcs
    <3>5. CASE Go(p, "go", rec)
      BY <1>0, <1>1, <2>0, <3>2, <3>5, GoesOnInBox DEF Pcs
    <3> QED  BY <2>2, <3>3, <3>4, <3>5 DEF GoOn
  <2> QED  BY <1>3, <2>1, <2>2 DEF Expire
<1> QED  BY <1>2, <1>3

LEMMA AfterBootStep ==
  ASSUME ComputerInvariant, NEW p \in Procs, call[p] # NoCall, AfterBoot(p), WorldGoes, UNCHANGED before
  PROVE  ComputerInvariant'
<1>1. CASE Go(p, "booted", call[p].rec)
  BY <1>1, CallKnown, GoesOnInBox DEF Pcs
<1>2. CASE ThenStatus(p)
  BY <1>2, CallTurns DEF ThenStatus
<1> QED  BY <1>1, <1>2 DEF AfterBoot

LEMMA BootStep ==
  ASSUME ComputerInvariant, NEW p \in Procs, BootStarts(p) \/ Provision(p) \/ BootEnds(p)
  PROVE  ComputerInvariant'
<1>0. call[p] # NoCall
  BY DEF BootStarts, Provision, BootEnds, Running, At
<1>1. call[p].bot \in Bots /\ Controlled(call[p].rec) /\ call[p].rec \in Rows
  BY <1>0, CallKnown DEF Controlled
<1>2. CASE BootStarts(p)
  <2> DEFINE rec == [call[p].rec EXCEPT !.exec = call[p].bot]
             alive == BoxAlive(rec.ref)
             booting == [rec EXCEPT !.state = "booting", !.ref = IF alive THEN @ ELSE 0]
  <2>0. UNCHANGED <<team, botRun, box, boxes, leases, expired, calls, events, dueList, before>>
    BY <1>2 DEF BootStarts
  <2>1. CASE Done(p) /\ UNCHANGED comp
    BY <2>0, <2>1, RowSaved, CallEnds
  <2>2. rec \in Rows /\ Controlled(rec) /\ rec.lease = call[p].rec.lease
    BY <1>1 DEF Rows, Controlled
  <2>3. CASE comp' = SaveBoxState([rec EXCEPT !.due = FALSE]) /\ AfterBoot(p)
    <3>1. [rec EXCEPT !.due = FALSE] \in Rows
      <4> HIDE DEF rec
      <4> QED  BY <2>2 DEF Rows
    <3>2. WorldGoes
      BY <2>0, <2>3, <3>1, RowSaved
    <3> QED  BY <1>0, <2>0, <2>3, <3>2, AfterBootStep
  <2>4. CASE comp' = SaveBoxState(booting) /\ Go(p, "provision", booting)
    <3>1. booting \in Rows /\ Controlled(booting) /\ booting.lease = rec.lease
      <4> HIDE DEF rec, alive
      <4>1. 0 \in 0..MaxBoxes
        BY ComputerAssumption
      <4> QED  BY <2>2, <4>1 DEF Rows, Controlled
    <3> HIDE DEF booting
    <3>2. WorldGoes
      BY <2>0, <2>4, <3>1, RowSaved
    <3> QED  BY <1>0, <2>0, <2>2, <2>4, <3>1, <3>2, GoesOnInBox DEF Pcs
  <2> QED  BY <1>2, <2>1, <2>3, <2>4 DEF BootStarts
<1>3. CASE Provision(p)
  <2>0. UNCHANGED <<comp, team, botRun, leases, expired, calls, events, dueList, before>>
    BY <1>3 DEF Provision
  <2>1. ASSUME CreateBox, Go(p, "provisioned", [call[p].rec EXCEPT !.ref = box'.id, !.state = "running"])
        PROVE  ComputerInvariant'
    <3>1. box' \in Boxes /\ boxes' \in 0..MaxBoxes
      BY <2>1, CreatedBox
    <3> DEFINE rec == [call[p].rec EXCEPT !.ref = box'.id, !.state = "running"]
    <3>2. Controlled(rec) /\ rec.lease = call[p].rec.lease
      <4>1. box'.id \in 0..MaxBoxes
        BY <3>1 DEF Boxes
      <4> QED  BY <1>1, <4>1 DEF Controlled, Rows
    <3> HIDE DEF rec
    <3>3. WorldGoes
      BY <2>0, <3>1, BoxChanged
    <3> QED  BY <1>0, <2>0, <2>1, <3>2, <3>3, GoesOnInBox DEF Pcs, rec
  <2>2. ASSUME Go(p, "provisioned", [call[p].rec EXCEPT !.state = "error"]), UNCHANGED <<box, boxes>>
        PROVE  ComputerInvariant'
    <3> DEFINE rec == [call[p].rec EXCEPT !.state = "error"]
    <3>1. Controlled(rec) /\ rec.lease = call[p].rec.lease
      BY <1>1 DEF Controlled, Rows
    <3>2. WorldGoes
      BY <2>0, <2>2, RowSaved
    <3> HIDE DEF rec
    <3> QED  BY <1>0, <2>0, <2>2, <3>1, <3>2, GoesOnInBox DEF Pcs, rec
  <2> QED  BY <1>3, <2>1, <2>2 DEF Provision
<1>4. CASE BootEnds(p)
  <2>0. UNCHANGED <<team, botRun, box, boxes, leases, expired, calls, events, dueList, before>>
    BY <1>4 DEF BootEnds
  <2>1. [call[p].rec EXCEPT !.due = FALSE] \in Rows
    BY <1>1 DEF Rows
  <2>2. WorldGoes
    BY <1>1, <1>4, <2>0, <2>1, RowSaved DEF BootEnds
  <2>3. AfterBoot(p) \/ Done(p)
    BY <1>4 DEF BootEnds
  <2> QED  BY <1>0, <2>0, <2>2, <2>3, AfterBootStep, CallEnds
<1> QED  BY <1>2, <1>3, <1>4

LEMMA StopStep ==
  ASSUME ComputerInvariant, NEW p \in Procs,
         StopBox(p) \/ DestroyBox(p) \/ ClearControl(p) \/ SaveRecord(p) \/ DetachBot(p) \/ DeleteBot(p)
  PROVE  ComputerInvariant'
<1>0. call[p] # NoCall
  BY DEF StopBox, DestroyBox, ClearControl, SaveRecord, DetachBot, DeleteBot, Running, At
<1> DEFINE rec == call[p].rec
<1>1. call[p].bot \in Bots /\ Controlled(rec) /\ rec \in Rows
  BY <1>0, CallKnown DEF Controlled
<1>t. 0 \in 0..MaxBoxes /\ 0 \in 0..MaxLeases
  BY ComputerAssumption
<1> HIDE DEF rec
<1>2. CASE StopBox(p)
  <2>1. /\ Done(p) \/ Go(p, "clear", rec)
        /\ box' \in {box, [box EXCEPT !.up = FALSE, !.token = 0]}
        /\ UNCHANGED <<comp, team, botRun, boxes, leases, expired, calls, events, dueList, before>>
    BY <1>2 DEF StopBox, rec
  <2>2. box' \in Boxes
    BY <1>t, <2>1, ComputerTypes DEF Boxes
  <2>3. WorldGoes
    BY <2>1, <2>2, BoxChanged, ComputerTypes
  <2> QED  BY <1>0, <1>1, <2>1, <2>3, CallEnds, GoesOnInBox DEF Pcs, rec
<1>3. CASE DestroyBox(p)
  <2>1. /\ Done(p) \/ Go(p, "clear", Destroyed(rec))
        /\ box' \in {box, NoBox}
        /\ UNCHANGED <<comp, team, botRun, boxes, leases, expired, calls, events, dueList, before>>
    BY <1>3 DEF DestroyBox, rec
  <2>2. NoBox \in Boxes
    BY <1>t DEF NoBox, Boxes
  <2>3. WorldGoes
    BY <2>1, <2>2, BoxChanged, ComputerTypes
  <2>4. Controlled(Destroyed(rec)) /\ Destroyed(rec).lease = rec.lease
    BY <1>1, <1>t DEF Destroyed, Controlled, Rows
  <2> QED  BY <1>0, <2>1, <2>3, <2>4, CallEnds, GoesOnInBox DEF Pcs, rec
<1>4. CASE ClearControl(p)
  <2>1. /\ comp' = Uncontrolled(comp, "none")
        /\ Go(p, "save", Stopped(comp')) \/ Go(p, "save", rec)
        /\ UNCHANGED <<team, botRun, box, boxes, leases, expired, calls, events, dueList, before>>
    BY <1>4 DEF ClearControl, rec
  <2>2. Controlled(comp') /\ comp'.lease = 0
    BY <2>1, UncontrolledRow, ComputerTypes DEF Controlled
  <2>3. WorldGoes
    BY <2>1, <2>2, ComputerTypes DEF WorldGoes
  <2>4. Controlled(Stopped(comp'))
    BY <2>2 DEF Stopped, Controlled, Rows
  <2> QED  BY <1>0, <1>1, <2>1, <2>2, <2>3, <2>4, CallGoesOn DEF Pcs
<1>5. CASE SaveRecord(p)
  <2>1. /\ comp' = SaveBoxState(rec)
        /\ UNCHANGED <<team, botRun, box, boxes, leases, expired, calls, events, dueList, before>>
    BY <1>5 DEF SaveRecord, rec
  <2>2. WorldGoes
    BY <1>1, <2>1, RowSaved
  <2>3. \/ call' = [call EXCEPT ![p].op = "boot", ![p].pc = "read"]
        \/ Go(p, "delete", rec)
        \/ ThenStatus(p)
    <3>1. CASE call[p].op = "restart"
      BY <1>5, <3>1 DEF SaveRecord
    <3>2. CASE call[p].op = "delete"
      BY <1>5, <3>2 DEF SaveRecord, rec
    <3>3. CASE call[p].op \notin {"restart", "delete"}
      BY <1>5, <3>3 DEF SaveRecord
    <3> QED  BY <3>1, <3>2, <3>3
  <2> QED  BY <1>0, <1>1, <2>1, <2>2, <2>3, CallTurns, GoesOnInBox DEF Pcs, rec, ThenStatus
<1>6. CASE DetachBot(p)
  <2> DEFINE free == [rec EXCEPT !.exec = IF @ = call[p].bot THEN "nobody" ELSE @]
  <2>1. UNCHANGED <<comp, team, botRun, box, boxes, leases, expired, calls, events, dueList, before>>
    BY <1>6 DEF DetachBot
  <2>2. PICK pc \in {"clear", "save", "delete"} : Go(p, pc, free)
    BY <1>6 DEF DetachBot, rec
  <2>3. Controlled(free) /\ free.lease = rec.lease
    BY <1>1 DEF Controlled, Rows
  <2> HIDE DEF free
  <2>4. WorldGoes
    BY <2>1, RowSaved
  <2> QED  BY <1>0, <2>1, <2>2, <2>3, <2>4, GoesOnInBox DEF Pcs, rec
<1>7. CASE DeleteBot(p)
  <2>1. WorldGoes
    BY <1>7, ComputerTypes DEF DeleteBot, WorldGoes
  <2> QED  BY <1>7, <2>1, CallEnds DEF DeleteBot
<1> QED  BY <1>2, <1>3, <1>4, <1>5, <1>6, <1>7

(* A lease is granted while the calls under way have read the row before. *)
LEMMA TakeoverStep == ASSUME ComputerInvariant, NEW p \in Procs, Takeover(p) PROVE ComputerInvariant'
<1>0. call[p] # NoCall
  BY DEF Takeover, Running, At
<1>1. UNCHANGED <<team, botRun, box, boxes, expired, calls, events, dueList>>
  BY DEF Takeover
<1>2. CASE Done(p) /\ UNCHANGED <<comp, leases, before>>
  BY <1>1, <1>2, RowSaved, CallEnds
<1>3. ASSUME leases < MaxLeases, leases' = leases + 1, comp' = SetControlLease(call[p].bot),
             before' = {q \in Procs : call[q] # NoCall}, ThenStatus(p)
      PROVE  ComputerInvariant'
  <2>1. leases \in Nat /\ leases + 1 \in 0..MaxLeases /\ leases + 1 # 0 /\ call[p].bot \in Bots
    BY <1>0, <1>3, CallKnown, ComputerTypes, ComputerAssumption
  <2>2. Controlled(comp')
    <3>1. comp \in Rows
      BY ComputerTypes DEF Controlled
    <3> DEFINE x == [comp EXCEPT !.holder = "user", !.lease = leases + 1, !.ctrl = call[p].bot, !.quiet = FALSE]
    <3>2. x \in Rows /\ x.holder = "user" /\ x.lease = leases + 1
      BY <2>1, <3>1 DEF Rows
    <3>3. comp' = x
      BY <1>3 DEF SetControlLease
    <3> HIDE DEF x
    <3> QED  BY <2>1, <3>2, <3>3 DEF Controlled
  <2> DEFINE x == [call[p] EXCEPT !.op = "status", !.pc = "read"]
  <2>3. call' = [call EXCEPT ![p] = x] /\ x \in Calls /\ x.rec = call[p].rec
    BY <1>0, <1>3, CallKnown, ComputerTypes DEF ThenStatus, Calls, LoopOps
  <2> HIDE DEF x
  <2>4. call' \in [Procs -> {NoCall} \cup Calls] /\ \A q \in Procs : call'[q] = IF q = p THEN x ELSE call[q]
    BY <2>3, ComputerTypes
  <2>5. expired \subseteq 1..leases'
    BY <1>3, <2>1 DEF ComputerInvariant, ComputerTypeOK
  <2>6. ComputerTypeOK'
    BY <1>1, <1>3, <2>1, <2>2, <2>4, <2>5 DEF ComputerInvariant, ComputerTypeOK, Controlled
  <2>7. ASSUME NEW q \in Procs, call'[q] # NoCall
        PROVE  q \in before' /\ Controlled(call'[q].rec)
    BY <1>0, <1>3, <2>3, <2>4, <2>7, CallKnown
  <2>8. RecordsKeepUp'
    BY <2>7 DEF RecordsKeepUp, Controlled
  <2> QED  BY <2>6, <2>8 DEF ComputerInvariant
<1> QED  BY <1>2, <1>3 DEF Takeover

LEMMA ControlStep ==
  ASSUME ComputerInvariant, NEW p \in Procs,
         Release(p) \/ ScreenUrl(p) \/ SendInput(p) \/ TouchControlInput(p)
  PROVE  ComputerInvariant'
<1>0. call[p] # NoCall
  BY DEF Release, ScreenUrl, SendInput, TouchControlInput, Running, At
<1> DEFINE rec == call[p].rec
<1>1. call[p].bot \in Bots /\ Controlled(rec) /\ rec \in Rows
  BY <1>0, CallKnown DEF Controlled
<1>t. 0 \in 0..MaxBoxes /\ 0 \in 0..MaxLeases
  BY ComputerAssumption
<1> HIDE DEF rec
<1>2. CASE Release(p)
  <2>1. /\ box' \in {box, DropScreen(rec.ref, rec.lease)}
        /\ comp' \in {ClearControlLease(rec.lease, "bot"), Uncontrolled(comp, "bot")}
        /\ ThenStatus(p)
        /\ UNCHANGED <<team, botRun, boxes, leases, expired, calls, events, dueList, before>>
    BY <1>2 DEF Release, rec
  <2>2. box' \in Boxes
    BY <2>1, DroppedScreen, ComputerTypes
  <2>3. Controlled(comp') /\ comp'.lease \in {0, comp.lease}
    BY <2>1, ClearedRow, UncontrolledRow, ComputerTypes DEF Controlled
  <2>4. WorldGoes
    BY <2>1, <2>2, <2>3, ComputerTypes DEF WorldGoes
  <2> QED  BY <1>0, <2>1, <2>4, CallTurns DEF ThenStatus
<1>3. CASE ScreenUrl(p)
  <2>0. UNCHANGED <<team, botRun, boxes, leases, expired, calls, events, dueList, before>>
    BY <1>3 DEF ScreenUrl
  <2> DEFINE lease == IF UserHasControl(rec) THEN rec.lease ELSE 0
  <2>1. CASE Done(p) /\ UNCHANGED comp /\ box' \in {box, [box EXCEPT !.token = lease]}
    <3>1. lease \in 0..MaxLeases
      BY <1>1, <1>t DEF Rows
    <3> HIDE DEF lease
    <3>2. box' \in Boxes
      BY <2>1, <3>1, ComputerTypes DEF Boxes
    <3> QED  BY <2>0, <2>1, <3>2, BoxChanged, ComputerTypes, CallEnds
  <2>2. CASE /\ comp' = SaveBoxState([rec EXCEPT !.state = "stopped", !.ref = 0])
             /\ call' = [call EXCEPT ![p].op = "boot", ![p].pc = "read"]
             /\ UNCHANGED box
    <3>1. [rec EXCEPT !.state = "stopped", !.ref = 0] \in Rows
      BY <1>1, <1>t DEF Rows
    <3>2. WorldGoes
      BY <2>0, <2>2, <3>1, RowSaved
    <3> QED  BY <1>0, <2>0, <2>2, <3>2, CallTurns
  <2> QED  BY <1>3, <2>1, <2>2 DEF ScreenUrl, rec
<1>4. CASE SendInput(p)
  <2>1. WorldGoes
    BY <1>4, RowSaved DEF SendInput
  <2>2. UNCHANGED before /\ (Go(p, "touch", rec) \/ Done(p))
    BY <1>4 DEF SendInput, rec
  <2> QED  BY <1>0, <1>1, <2>1, <2>2, CallEnds, GoesOnInBox DEF Pcs, rec
<1>5. CASE TouchControlInput(p)
  <2>1. comp' \in {comp, [comp EXCEPT !.quiet = FALSE, !.due = FALSE]} /\ Done(p)
        /\ UNCHANGED <<team, botRun, box, boxes, leases, expired, calls, events, dueList, before>>
    BY <1>5 DEF TouchControlInput
  <2>2. Controlled(comp') /\ comp'.lease = comp.lease
    BY <2>1, ComputerTypes DEF Controlled, Rows
  <2>3. WorldGoes
    BY <2>1, <2>2, ComputerTypes DEF WorldGoes
  <2> QED  BY <2>1, <2>3, CallEnds
<1> QED  BY <1>2, <1>3, <1>4, <1>5

(* A helper that goes to act has had no control in its record. *)
LEMMA HelperStep ==
  ASSUME ComputerInvariant, NEW p \in Procs, EnsureRunning(p) \/ TouchBox(p) \/ CloseApp(p) \/ HelperActs(p)
  PROVE  ComputerInvariant'
<1>0. call[p] # NoCall
  BY DEF EnsureRunning, TouchBox, CloseApp, HelperActs, Running, At
<1> DEFINE rec == call[p].rec
<1>1. Controlled(rec) /\ rec \in Rows /\ (p \in before \/ comp.lease \in {0, rec.lease})
  BY <1>0, CallKnown DEF Controlled
<1>2. [rec EXCEPT !.due = FALSE] \in Rows
  BY <1>1 DEF Rows
<1> HIDE DEF rec
<1>3. CASE EnsureRunning(p)
  <2>0. UNCHANGED <<comp, team, botRun, box, boxes, leases, expired, calls, events, dueList>>
    BY <1>3 DEF EnsureRunning
  <2>1. WorldGoes
    BY <2>0, RowSaved
  <2>2. CASE Go(p, "touch", comp) /\ before' = before \ {p}
    BY <1>0, <2>0, <2>1, <2>2, CallGoesOn, ComputerTypes DEF Pcs
  <2>3. ASSUME NEW pc \in {"touch", "boot"}, Go(p, pc, rec), UNCHANGED before PROVE ComputerInvariant'
    BY <1>0, <1>1, <2>1, <2>3, GoesOnInBox DEF Pcs, rec
  <2> QED  BY <1>3, <2>2, <2>3 DEF EnsureRunning, rec
<1>4. CASE TouchBox(p)
  <2>1. /\ comp' = SaveBoxState([rec EXCEPT !.due = FALSE])
        /\ UNCHANGED <<team, botRun, box, boxes, leases, expired, calls, events, dueList, before>>
        /\ (HelperMayAct(rec) /\ Go(p, "act", rec)) \/ Done(p) \/ ThenStatus(p)
    BY <1>4 DEF TouchBox, rec
  <2>2. WorldGoes
    BY <1>2, <2>1, RowSaved
  <2>3. CASE HelperMayAct(rec) /\ Go(p, "act", rec)
    <3>1. p \in before' \/ comp'.lease \in {0, rec.lease}
      BY <1>1, <2>1, <2>2 DEF WorldGoes
    <3> QED  BY <1>0, <1>1, <2>1, <2>2, <2>3, <3>1, CallGoesOn DEF Pcs, HelperMayAct
  <2>4. CASE Done(p)
    BY <2>1, <2>2, <2>4, CallEnds
  <2>5. CASE ThenStatus(p)
    BY <1>0, <2>1, <2>2, <2>5, CallTurns DEF ThenStatus
  <2> QED  BY <2>1, <2>3, <2>4, <2>5
<1>5. CASE CloseApp(p)
  <2>0. UNCHANGED <<team, botRun, box, boxes, leases, expired, calls, events, dueList, before>>
    BY <1>5 DEF CloseApp
  <2>1. CASE HelperMayAct(rec) /\ comp' = SaveBoxState([rec EXCEPT !.due = FALSE]) /\ Go(p, "act", rec)
    <3>1. WorldGoes
      BY <1>2, <2>0, <2>1, RowSaved
    <3>2. p \in before' \/ comp'.lease \in {0, rec.lease}
      BY <1>1, <2>0, <3>1 DEF WorldGoes
    <3> QED  BY <1>0, <1>1, <2>0, <2>1, <3>1, <3>2, CallGoesOn DEF Pcs, HelperMayAct
  <2>2. CASE Done(p) /\ UNCHANGED comp
    BY <2>0, <2>2, RowSaved, CallEnds
  <2> QED  BY <1>5, <2>1, <2>2 DEF CloseApp, rec
<1>6. CASE HelperActs(p)
  <2>1. WorldGoes
    BY <1>6, RowSaved DEF HelperActs
  <2> QED  BY <1>0, <1>6, <2>1, CallTurns DEF HelperActs, ThenStatus
<1> QED  BY <1>3, <1>4, <1>5, <1>6

(* A call starts with the row as it is. *)
LEMMA StartStep ==
  ASSUME ComputerInvariant, NEW p \in Procs, NEW op \in LoopOps \cup ToolOps \cup {"input"}, NEW b,
         NEW lease \in 0..MaxLeases, Start(p, op, b, lease), dueList' \subseteq dueList
  PROVE  ComputerInvariant'
<1> DEFINE x == [op |-> op, bot |-> b, pc |-> "expire", rec |-> comp, using |-> lease]
<1>1. /\ b \in team /\ calls < MaxCalls /\ calls' = calls + 1
      /\ call' = [call EXCEPT ![p] = x] /\ before' = before \ {p}
      /\ UNCHANGED <<comp, team, botRun, box, boxes, leases, expired, events>>
  BY DEF Start
<1>2. x \in Calls /\ x.rec = comp /\ x.pc = "expire"
  BY <1>1, ComputerTypes DEF Calls, Controlled
<1> HIDE DEF x
<1>3. calls' \in 0..MaxCalls
  BY <1>1, ComputerAssumption DEF ComputerInvariant, ComputerTypeOK
<1>4. call' \in [Procs -> {NoCall} \cup Calls] /\ \A q \in Procs : call'[q] = IF q = p THEN x ELSE call[q]
  BY <1>1, <1>2, ComputerTypes
<1>5. ComputerTypeOK'
  BY <1>1, <1>3, <1>4 DEF ComputerInvariant, ComputerTypeOK
<1>6. ASSUME NEW q \in Procs, call'[q] # NoCall
      PROVE  /\ call'[q].rec.holder = "user" <=> call'[q].rec.lease # 0
             /\ q \notin before' => comp'.lease \in {0, call'[q].rec.lease}
             /\ q \notin before' /\ call'[q].pc = "act" => ~UserHasControl(call'[q].rec)
  <2>1. CASE q = p
    BY <1>1, <1>2, <1>4, <2>1, ComputerTypes DEF Controlled
  <2>2. CASE q # p
    BY <1>1, <1>4, <1>6, <2>2 DEF ComputerInvariant, RecordsKeepUp
  <2> QED  BY <2>1, <2>2
<1>7. RecordsKeepUp'
  BY <1>1, <1>6 DEF RecordsKeepUp, UserHasControl
<1> QED  BY <1>5, <1>7 DEF ComputerInvariant

(* The worker, the runs, the time and the containers leave the calls alone. *)
LEMMA AroundStep ==
  ASSUME ComputerInvariant, UNCHANGED <<call, before>>,
         Controlled(comp'), comp'.lease \in {0, comp.lease},
         team' \subseteq Bots, dueList' \subseteq Bots,
         botRun' \in [Bots -> {"none", "running", "waiting_input", "waiting_takeover"}],
         box' \in Boxes, expired \subseteq expired', expired' \subseteq 1..leases,
         events' \in 0..MaxEvents, UNCHANGED <<boxes, leases, calls>>
  PROVE  ComputerInvariant'
<1>1. ComputerTypeOK'
  BY DEF ComputerInvariant, ComputerTypeOK, Controlled, Boxes
<1>2. RecordsKeepUp'
  BY DEF ComputerInvariant, RecordsKeepUp, UserHasControl
<1> QED  BY <1>1, <1>2 DEF ComputerInvariant

LEMMA WorldStep ==
  ASSUME ComputerInvariant,
         \/ \E b \in Bots : SwitchMode(b)
         \/ \E b \in Bots : \E to \in {"none", "running", "waiting_input", "waiting_takeover"} : RunChanges(b, to)
         \/ WorkerExpiresIdle \/ WorkerFindsDue \/ TimePasses \/ BoxDies
         \/ \E l \in 1..MaxLeases : LeaseRunsOut(l)
  PROVE  ComputerInvariant'
<1>0. /\ comp \in Rows /\ expired \subseteq 1..leases /\ events \in 0..MaxEvents
      /\ \A e \in {events, events + 1} : (e = events \/ events < MaxEvents) => e \in 0..MaxEvents
  BY ComputerAssumption DEF ComputerInvariant, ComputerTypeOK
<1>1. ASSUME NEW b \in Bots, SwitchMode(b) PROVE ComputerInvariant'
  BY <1>0, <1>1, AroundStep, ComputerTypes DEF SwitchMode
<1>2. ASSUME NEW b \in Bots, NEW to \in {"none", "running", "waiting_input", "waiting_takeover"}, RunChanges(b, to)
      PROVE  ComputerInvariant'
  BY <1>0, <1>2, AroundStep, ComputerTypes DEF RunChanges, Event
<1>3. CASE WorkerExpiresIdle
  <2>1. Controlled(comp') /\ comp'.lease = 0
    BY <1>0, <1>3, UncontrolledRow DEF WorkerExpiresIdle
  <2> QED  BY <1>0, <1>3, <2>1, AroundStep, ComputerTypes DEF WorkerExpiresIdle
<1>4. CASE WorkerFindsDue
  BY <1>0, <1>4, AroundStep, ComputerTypes DEF WorkerFindsDue
<1>5. CASE TimePasses
  <2>1. Controlled(comp') /\ comp'.lease = comp.lease
    BY <1>0, <1>5, ComputerTypes DEF TimePasses, Controlled, Rows
  <2> QED  BY <1>0, <1>5, <2>1, AroundStep, ComputerTypes DEF TimePasses, Event
<1>6. CASE BoxDies
  <2>1. 0 \in 0..MaxLeases
    BY ComputerAssumption
  <2>2. box' \in Boxes
    BY <1>6, <2>1, ComputerTypes DEF BoxDies, Boxes
  <2> QED  BY <1>0, <1>6, <2>2, AroundStep, ComputerTypes DEF BoxDies, Event
<1>7. ASSUME NEW l \in 1..MaxLeases, LeaseRunsOut(l) PROVE ComputerInvariant'
  BY <1>0, <1>7, AroundStep, ComputerTypes DEF LeaseRunsOut, Event
<1> QED  BY <1>1, <1>2, <1>3, <1>4, <1>5, <1>6, <1>7

LEMMA ExitStep == ASSUME ComputerInvariant, ServiceExits PROVE ComputerInvariant'
<1>1. ComputerTypeOK'
  BY DEF ServiceExits, ComputerInvariant, ComputerTypeOK
<1>2. \A p \in Procs : call'[p] = NoCall
  BY DEF ServiceExits
<1> QED  BY <1>1, <1>2 DEF ComputerInvariant, RecordsKeepUp

LEMMA ComputerStep == ASSUME ComputerInvariant, ComputerNext PROVE ComputerInvariant'
<1>1. ASSUME NEW p \in Procs, Step(p) PROVE ComputerInvariant'
  BY <1>1, ReadAndExpireStep, BootStep, StopStep, TakeoverStep, ControlStep, HelperStep DEF Step
<1>2. 0 \in 0..MaxLeases /\ \A l \in 1..leases : l \in 0..MaxLeases
  BY ComputerAssumption, ComputerTypes
<1>3. ASSUME NEW b \in Bots, NEW op \in LoopOps, HandlerCalled(op, b) PROVE ComputerInvariant'
  BY <1>2, <1>3, StartStep DEF HandlerCalled, Procs
<1>4. ASSUME NEW b \in Bots, NEW l \in 1..MaxLeases, InputCalled(b, l) PROVE ComputerInvariant'
  BY <1>2, <1>4, StartStep DEF InputCalled, Procs
<1>5. ASSUME NEW b \in Bots, NEW op \in ToolOps, ToolCalled(b, op) PROVE ComputerInvariant'
  BY <1>2, <1>5, StartStep DEF ToolCalled, Procs
<1>6. ASSUME NEW b \in Bots, WorkerStops(b) PROVE ComputerInvariant'
  BY <1>2, <1>6, StartStep DEF WorkerStops, Procs, LoopOps
<1> QED
  BY <1>1, <1>3, <1>4, <1>5, <1>6, WorldStep, ExitStep DEF ComputerNext

LEMMA ComputerStutter == ASSUME ComputerInvariant, UNCHANGED computerVars PROVE ComputerInvariant'
BY DEF computerVars, ComputerInvariant, ComputerTypeOK, RecordsKeepUp, UserHasControl

THEOREM ComputerFactsHold == ComputerSpec => []ComputerInvariant
<1>1. ComputerInvariant /\ [ComputerNext]_computerVars => ComputerInvariant'
  BY ComputerStep, ComputerStutter
<1> QED
  BY ComputerInitTypes, <1>1, PTL DEF ComputerSpec

(* While the owner holds control, the helper acts only with a call from before. *)
THEOREM HelperYieldsHolds == ComputerSpec => []HelperYields
<1>1. ComputerInvariant => HelperYields
  <2> SUFFICES ASSUME ComputerInvariant, UserHasControl(comp), NEW p \in Procs, At(p, "act"), p \notin before
               PROVE  FALSE
    BY DEF HelperYields
  <2>1. call[p] # NoCall /\ call[p].pc = "act"
    BY DEF At
  <2>2. /\ call[p].rec.holder = "user" <=> call[p].rec.lease # 0
        /\ comp.lease \in {0, call[p].rec.lease}
        /\ ~UserHasControl(call[p].rec)
    BY <2>1 DEF ComputerInvariant, RecordsKeepUp
  <2> QED  BY <2>2 DEF UserHasControl
<1> QED
  BY ComputerFactsHold, <1>1, PTL

(* What the store does to the lease of the row. *)
LEMMA LeaseWrites ==
  ASSUME ComputerInvariant
  PROVE  /\ \A rec : SaveBoxState(rec).lease = comp.lease
         /\ \A holder : Uncontrolled(comp, holder).lease = 0
         /\ \A lease, holder : ClearControlLease(lease, holder).lease \in {0, comp.lease}
         /\ \A b : SetControlLease(b).lease = leases + 1
<1>1. comp \in Rows
  BY ComputerTypes DEF Controlled
<1>2. \A rec : SaveBoxState(rec).lease = comp.lease
  BY <1>1 DEF SaveBoxState, Rows
<1>3. \A holder : Uncontrolled(comp, holder).lease = 0
  BY <1>1 DEF Uncontrolled, Rows
<1>4. \A b : SetControlLease(b).lease = leases + 1
  BY <1>1 DEF SetControlLease, Rows
<1> QED  BY <1>2, <1>3, <1>4 DEF ClearControlLease

LEMMA LeaseStep ==
  ASSUME ComputerInvariant, ComputerNext PROVE comp'.lease \in {0, comp.lease, leases + 1}
<1>0. comp \in Rows
  BY ComputerTypes DEF Controlled
<1>1. ASSUME NEW p \in Procs, Step(p) PROVE comp'.lease \in {0, comp.lease, leases + 1}
  <2>1. CASE Expire(p)
    BY <2>1, LeaseWrites DEF Expire
  <2>2. CASE BootStarts(p) \/ BootEnds(p) \/ SaveRecord(p) \/ ScreenUrl(p) \/ TouchBox(p) \/ CloseApp(p)
    <3>1. UNCHANGED comp \/ \E rec : comp' = SaveBoxState(rec)
      BY <2>2 DEF BootStarts, BootEnds, SaveRecord, ScreenUrl, TouchBox, CloseApp
    <3> QED  BY <3>1, LeaseWrites
  <2>3. CASE ClearControl(p) \/ Release(p)
    BY <2>3, LeaseWrites DEF ClearControl, Release
  <2>4. CASE Takeover(p)
    BY <2>4, LeaseWrites DEF Takeover
  <2>5. CASE TouchControlInput(p)
    BY <1>0, <2>5 DEF TouchControlInput, Rows
  <2>6. CASE \/ ReadRow(p) \/ Provision(p) \/ StopBox(p) \/ DestroyBox(p) \/ DetachBot(p) \/ DeleteBot(p)
             \/ SendInput(p) \/ EnsureRunning(p) \/ HelperActs(p)
    BY <2>6 DEF ReadRow, Provision, StopBox, DestroyBox, DetachBot, DeleteBot, SendInput, EnsureRunning, HelperActs
  <2> QED  BY <1>1, <2>1, <2>2, <2>3, <2>4, <2>5, <2>6 DEF Step
<1>2. ASSUME NEW b \in Bots,
             \/ \E op \in LoopOps : HandlerCalled(op, b)
             \/ \E l \in 1..MaxLeases : InputCalled(b, l)
             \/ \E op \in ToolOps : ToolCalled(b, op)
             \/ WorkerStops(b) \/ SwitchMode(b)
             \/ \E to \in {"none", "running", "waiting_input", "waiting_takeover"} : RunChanges(b, to)
      PROVE  UNCHANGED comp
  BY <1>2 DEF HandlerCalled, InputCalled, ToolCalled, WorkerStops, SwitchMode, RunChanges, Start
<1>3. CASE WorkerExpiresIdle
  BY <1>3, LeaseWrites DEF WorkerExpiresIdle
<1>4. CASE TimePasses
  BY <1>0, <1>4 DEF TimePasses, Rows
<1>5. CASE WorkerFindsDue \/ BoxDies \/ ServiceExits \/ \E l \in 1..MaxLeases : LeaseRunsOut(l)
  BY <1>5 DEF WorkerFindsDue, BoxDies, ServiceExits, LeaseRunsOut
<1> QED
  BY <1>1, <1>2, <1>3, <1>4, <1>5 DEF ComputerNext

(* The lease of the row changes to none or to a new one. *)
THEOREM EndedLeaseStaysEndedHolds == ComputerSpec => EndedLeaseStaysEnded
<1>1. ComputerInvariant /\ [ComputerNext]_computerVars =>
        [comp'.lease # comp.lease => comp'.lease = 0 \/ comp'.lease = leases + 1]_computerVars
  BY LeaseStep
<1> QED
  BY ComputerFactsHold, <1>1, PTL DEF ComputerSpec, EndedLeaseStaysEnded

(***************************************************************************)
(* The four parts together.                                                *)
(***************************************************************************)

TeamInvariant ==
  /\ OwnerTypeOK /\ ClaimFacts
  /\ WorkersTypeOK /\ StopKeepsMark
  /\ AskInvariant
  /\ ComputerInvariant

(* The part that moves keeps its types, and so do those that wait. *)
THEOREM TeamTypesHold == TeamSpec => []TeamTypeOK
<1>1. TeamInit => TeamInvariant
  BY OwnerInitTypes, WorkersInitTypes, AsksInitTypes, ComputerInitTypes DEF TeamInit, TeamInvariant
<1>2. TeamInvariant /\ [TeamNext]_teamVars => TeamInvariant'
  <2> SUFFICES ASSUME TeamInvariant, [TeamNext]_teamVars PROVE TeamInvariant'
    OBVIOUS
  <2>1. (OwnerTypeOK /\ ClaimFacts)'
    <3>1. OwnerNext \/ UNCHANGED ownerVars
      BY DEF TeamNext, teamVars
    <3> QED  BY <3>1, OwnerStepKeeps, OwnerStutter DEF OwnerKeeps, TeamInvariant
  <2>2. (WorkersTypeOK /\ StopKeepsMark)'
    <3>1. WorkersNext \/ UNCHANGED workerVars
      BY DEF TeamNext, teamVars
    <3> QED  BY <3>1, WorkersStepKeeps, WorkersStutter DEF WorkerKeeps, TeamInvariant
  <2>3. AskInvariant'
    <3>1. AsksNext \/ UNCHANGED askVars
      BY DEF TeamNext, teamVars
    <3> QED  BY <3>1, AsksStep, AsksStutter DEF TeamInvariant
  <2>4. ComputerInvariant'
    <3>1. ComputerNext \/ UNCHANGED computerVars
      BY DEF TeamNext, teamVars
    <3> QED  BY <3>1, ComputerStep, ComputerStutter DEF TeamInvariant
  <2> QED  BY <2>1, <2>2, <2>3, <2>4 DEF TeamInvariant
<1>3. TeamInvariant => TeamTypeOK
  BY DEF TeamInvariant, TeamTypeOK, AskInvariant, ComputerInvariant
<1> QED
  BY <1>1, <1>2, <1>3, PTL DEF TeamSpec
=============================================================================
