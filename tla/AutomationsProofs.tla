------------------------- MODULE AutomationsProofs -------------------------
(* Proofs about Automations, for every number of workers, clicks and fires.  *)
EXTENDS Automations, TLAPS

(* The part of TypeOK that the gate rests on. *)
GateTypes ==
  /\ fireCount \in 0..MaxFires
  /\ clickFire \in [Clicks -> Fires \cup {NoFire}]
  /\ arun \in [Fires -> {"none", "waiting_for_approval", "queued", "running", "succeeded",
                         "failed", "cancelled"}]
  /\ gated \in [Fires -> BOOLEAN]
  /\ job \in [Fires -> {"none", "queued", "running", "succeeded", "dead"}]
  /\ sends \in [Fires -> Nat]
  /\ pc \in [Workers -> {"idle", "claimed", "ensured", "free", "begun", "carded", "waiting",
                        "enqueued", "ack", "jobs", "work", "answered", "settled"}]
  /\ fire \in [Workers -> Fires \cup {NoFire}]
  /\ need \in [Workers -> BOOLEAN]
  /\ batch \in [Workers -> SUBSET Fires]
  /\ host \in Fires \cup {NoFire}
  /\ approval \in BOOLEAN

(* The initial state has no fire. *)
LEMMA GateInit == Init => GateTypes /\ GateInvariant
BY AutomationsAssumption
   DEF Init, GateTypes, GateInvariant, WorkerGate, BatchGate, Held, Processes, Fires, NoFire

(* Every step keeps the gate's state well typed. *)
LEMMA GateTypesStep == GateTypes /\ [Next]_vars => GateTypes'
<1> SUFFICES ASSUME GateTypes, [Next]_vars PROVE GateTypes'
  OBVIOUS
<1> USE AutomationsAssumption DEF GateTypes, Goto, routineVars, runVars, jobVars, workerVars, history, Fires, NoFire
<1>1. CASE TimeComes
  BY <1>1 DEF TimeComes
<1>2. CASE \E on \in BOOLEAN, gate \in Approvals : EditRoutine(on, gate)
  BY <1>2 DEF EditRoutine
<1>3. CASE RoutineLeaseExpires
  BY <1>3 DEF RoutineLeaseExpires
<1>4. CASE \E w \in Workers : ClaimDueRoutines(w)
  <2>1. PICK w \in Workers : ClaimDueRoutines(w)
    BY <1>4
  <2>2. CASE Claimable
    <3>1. fireCount + 1 \in 1..MaxFires /\ fireCount' = fireCount + 1
      BY <2>1, <2>2 DEF ClaimDueRoutines
    <3>2. fire' \in [Workers -> Fires \cup {NoFire}]
      BY <2>1, <2>2, <3>1 DEF ClaimDueRoutines
    <3>3. need' \in [Workers -> BOOLEAN]
      BY <2>1, <2>2 DEF ClaimDueRoutines
    <3>4. /\ pc' \in [Workers -> {"idle", "claimed", "ensured", "free", "begun", "carded", "waiting",
                                  "enqueued", "ack", "jobs", "work", "answered", "settled"}]
          /\ fireCount' \in 0..MaxFires
      BY <2>1, <2>2, <3>1 DEF ClaimDueRoutines
    <3> QED  BY <2>1, <3>2, <3>3, <3>4 DEF ClaimDueRoutines
  <2>3. CASE ~Claimable
    BY <2>1, <2>3 DEF ClaimDueRoutines
  <2> QED  BY <2>2, <2>3
<1>5. CASE \E w \in Workers : EnsureAutomationRun(w)
  <2>1. PICK w \in Workers : EnsureAutomationRun(w)
    BY <1>5
  <2>2. FirstState(need[w]) \in {"waiting_for_approval", "queued"}
    BY DEF FirstState
  <2>3. arun' \in [Fires -> {"none", "waiting_for_approval", "queued", "running", "succeeded",
                            "failed", "cancelled"}]
    BY <2>1, <2>2 DEF EnsureAutomationRun
  <2>4. gated' \in [Fires -> BOOLEAN]
    BY <2>1 DEF EnsureAutomationRun
  <2> QED  BY <2>1, <2>3, <2>4 DEF EnsureAutomationRun
<1>6. CASE \E w \in Workers : ApprovalCheck(w)
  BY <1>6 DEF ApprovalCheck
<1>7. CASE \E w \in Workers : ApprovalBegin(w)
  BY <1>7 DEF ApprovalBegin
<1>8. CASE \E w \in Workers : ApprovalCard(w)
  BY <1>8 DEF ApprovalCard
<1>9. CASE \E w \in Workers : ApprovalParks(w)
  BY <1>9 DEF ApprovalParks
<1>10. CASE \E w \in Workers : ApprovalBinds(w)
  BY <1>10 DEF ApprovalBinds
<1>11. CASE \E w \in Workers : EnqueuePrompt(w)
  <2>1. PICK w \in Workers : EnqueuePrompt(w)
    BY <1>11
  <2>2. job' \in [Fires -> {"none", "queued", "running", "succeeded", "dead"}]
    BY <2>1 DEF EnqueuePrompt, Enqueue
  <2> QED  BY <2>1, <2>2 DEF EnqueuePrompt
<1>12. CASE \E w \in Workers : EnqueuedRuns(w)
  BY <1>12 DEF EnqueuedRuns
<1>13. CASE \E w \in Workers : AckRoutine(w)
  BY <1>13 DEF AckRoutine
<1>14. CASE \E w \in Workers : ClaimJobs(w)
  BY <1>14 DEF ClaimJobs, Eligible
<1>15. CASE \E w \in Workers, f \in Fires : WakeRoutine(w, f)
  BY <1>15 DEF WakeRoutine
<1>16. CASE \E w \in Workers : SettleJob(w)
  BY <1>16 DEF SettleJob, AckJob, FailJob
<1>17. CASE \E w \in Workers : FinishAutomationRun(w)
  <2>1. PICK w \in Workers : FinishAutomationRun(w)
    BY <1>17
  <2>2. arun' \in [Fires -> {"none", "waiting_for_approval", "queued", "running", "succeeded",
                            "failed", "cancelled"}]
    BY <2>1 DEF FinishAutomationRun
  <2> QED  BY <2>1, <2>2 DEF FinishAutomationRun
<1>18. CASE \E w \in Workers : PassEnds(w)
  BY <1>18 DEF PassEnds
<1>19. CASE \E w \in Workers : WorkerRestarts(w)
  BY <1>19 DEF WorkerRestarts
<1>20. CASE \E k \in Clicks : FireRoutine(k)
  BY <1>20 DEF FireRoutine, FirstState
<1>21. CASE HostEnqueues
  BY <1>21 DEF HostEnqueues, Enqueue
<1>22. CASE HostRuns
  BY <1>22 DEF HostRuns
<1>23. CASE \E f \in Fires, yes \in BOOLEAN : AnswerApproval(f, yes)
  BY <1>23 DEF AnswerApproval
<1>24. CASE \E f \in Fires : AnswerAsQuestion(f)
  BY <1>24 DEF AnswerAsQuestion
<1>25. CASE OwnerSends
  BY <1>25 DEF OwnerSends
<1>26. CASE LeadEnds
  BY <1>26 DEF LeadEnds
<1>27. CASE StopThread
  BY <1>27 DEF StopThread
<1>28. CASE HostRestarts
  BY <1>28 DEF HostRestarts
<1>29. CASE \E f \in Fires : JobLeaseExpires(f)
  BY <1>29 DEF JobLeaseExpires
<1>30. CASE UNCHANGED vars
  BY <1>30 DEF vars
<1> QED
  BY <1>1, <1>2, <1>3, <1>4, <1>5, <1>6, <1>7, <1>8, <1>9, <1>10, <1>11, <1>12, <1>13, <1>14, <1>15, <1>16, <1>17, <1>18, <1>19, <1>20, <1>21, <1>22, <1>23, <1>24, <1>25, <1>26, <1>27, <1>28, <1>29, <1>30 DEF Next, WorkerStep, OwnerStep

(* Every step keeps the gate. *)
LEMMA GateStep == GateTypes /\ GateInvariant /\ [Next]_vars => GateInvariant'
<1> SUFFICES ASSUME GateTypes, GateInvariant, [Next]_vars PROVE GateInvariant'
  OBVIOUS
<1> USE AutomationsAssumption DEF GateTypes, GateInvariant, WorkerGate, BatchGate, Held, Processes, Goto,
                               routineVars, runVars, jobVars, workerVars, history, Fires, NoFire
<1>1. CASE TimeComes
  BY <1>1 DEF TimeComes
<1>2. CASE \E on \in BOOLEAN, gate \in Approvals : EditRoutine(on, gate)
  BY <1>2 DEF EditRoutine
<1>3. CASE RoutineLeaseExpires
  BY <1>3 DEF RoutineLeaseExpires
<1>4. CASE \E w \in Workers : ClaimDueRoutines(w)
  <2>1. PICK w \in Workers : ClaimDueRoutines(w)
    BY <1>4
  <2>2. CASE Claimable
    <3>1. /\ fireCount + 1 \in 1..MaxFires /\ fireCount' = fireCount + 1
          /\ fire' = [fire EXCEPT ![w] = fireCount + 1]
          /\ need' = [need EXCEPT ![w] = approval]
          /\ pc' = [pc EXCEPT ![w] = "claimed"]
          /\ UNCHANGED <<clickFire, gated, arun, job, sends, host, approved, batch>>
      BY <2>1, <2>2 DEF ClaimDueRoutines
    <3>2. \A v \in Workers \ {w} : /\ Processes(v)' = Processes(v) /\ pc'[v] = pc[v]
                                 /\ fire'[v] = fire[v] /\ need'[v] = need[v]
      BY <3>1
    <3>3. Processes(w)' /\ fire'[w] = fireCount + 1 /\ pc'[w] = "claimed"
      BY <3>1
    <3> QED  BY <3>1, <3>2, <3>3
  <2>3. CASE ~Claimable
    BY <2>1, <2>3 DEF ClaimDueRoutines
  <2> QED  BY <2>2, <2>3
<1>5. CASE \E w \in Workers : EnsureAutomationRun(w)
  BY <1>5 DEF EnsureAutomationRun, FirstState
<1>6. CASE \E w \in Workers : ApprovalCheck(w)
  BY <1>6 DEF ApprovalCheck
<1>7. CASE \E w \in Workers : ApprovalBegin(w)
  BY <1>7 DEF ApprovalBegin
<1>8. CASE \E w \in Workers : ApprovalCard(w)
  BY <1>8 DEF ApprovalCard
<1>9. CASE \E w \in Workers : ApprovalParks(w)
  BY <1>9 DEF ApprovalParks
<1>10. CASE \E w \in Workers : ApprovalBinds(w)
  BY <1>10 DEF ApprovalBinds
<1>11. CASE \E w \in Workers : EnqueuePrompt(w)
  BY <1>11 DEF EnqueuePrompt, Enqueue
<1>12. CASE \E w \in Workers : EnqueuedRuns(w)
  BY <1>12 DEF EnqueuedRuns
<1>13. CASE \E w \in Workers : AckRoutine(w)
  <2>1. PICK w \in Workers : AckRoutine(w)
    BY <1>13
  <2>2. UNCHANGED <<fireCount, clickFire, gated, arun, job, sends, host, approved, batch>>
    BY <2>1 DEF AckRoutine
  <2>3. \A v \in Workers \ {w} : /\ pc'[v] = pc[v] /\ fire'[v] = fire[v]
                                 /\ need'[v] = need[v]
    BY <2>1 DEF AckRoutine
  <2>4. pc'[w] = "jobs"
    BY <2>1 DEF AckRoutine
  <2>5. ASSUME NEW v \in Workers PROVE WorkerGate(v)'
    <3>1. CASE v = w
      BY <2>4, <3>1
    <3>2. CASE v # w /\ Processes(v)'
      <4>1. /\ Processes(v) /\ pc'[v] = pc[v] /\ fire'[v] = fire[v] /\ need'[v] = need[v]
            /\ fire[v] \in 1..fireCount
            /\ \A k \in Clicks : clickFire[k] # fire[v]
        BY <2>3, <3>2
      <4>2. ASSUME NEW u \in Workers \ {v}, Processes(u)' PROVE fire'[u] # fire'[v]
        <5>1. u # w
          BY <2>4, <4>2
        <5>2. Processes(u) /\ fire'[u] = fire[u]
          BY <2>3, <4>2, <5>1
        <5>3. WorkerGate(v)
          OBVIOUS
        <5> QED  BY <4>1, <5>2, <5>3
      <4>3. IF pc'[v] = "claimed"
            THEN ~gated'[fire'[v]] /\ arun'[fire'[v]] = "none" /\ Held(fire[v])'
            ELSE gated'[fire'[v]] = need'[v]
        BY <2>2, <4>1
      <4> QED  BY <2>2, <4>1, <4>2, <4>3
    <3> QED  BY <3>1, <3>2
  <2>6. ASSUME NEW v \in Workers PROVE BatchGate(v)'
    <3>1. CASE v = w
      BY <2>2, <2>4, <3>1
    <3>2. CASE v # w
      BY <2>2, <2>3, <3>2
    <3> QED  BY <3>1, <3>2
  <2> QED  BY <2>2, <2>5, <2>6
<1>14. CASE \E w \in Workers : ClaimJobs(w)
  BY <1>14 DEF ClaimJobs, Eligible
<1>15. CASE \E w \in Workers, f \in Fires : WakeRoutine(w, f)
  BY <1>15 DEF WakeRoutine
<1>16. CASE \E w \in Workers : SettleJob(w)
  BY <1>16 DEF SettleJob, AckJob, FailJob
<1>17. CASE \E w \in Workers : FinishAutomationRun(w)
  BY <1>17 DEF FinishAutomationRun
<1>18. CASE \E w \in Workers : PassEnds(w)
  BY <1>18 DEF PassEnds
<1>19. CASE \E w \in Workers : WorkerRestarts(w)
  <2>1. PICK w \in Workers : WorkerRestarts(w)
    BY <1>19
  <2>2. UNCHANGED <<fireCount, clickFire, gated, arun, job, sends, host, approved>>
    BY <2>1 DEF WorkerRestarts
  <2>3. \A v \in Workers \ {w} : /\ pc'[v] = pc[v] /\ fire'[v] = fire[v]
                                 /\ need'[v] = need[v]
                                 /\ batch'[v] = batch[v]
    BY <2>1 DEF WorkerRestarts
  <2>4. pc'[w] = "idle" /\ batch'[w] = {}
    BY <2>1 DEF WorkerRestarts
  <2>5. ASSUME NEW v \in Workers PROVE WorkerGate(v)'
    <3>1. CASE v = w
      BY <2>4, <3>1
    <3>2. CASE v # w /\ Processes(v)'
      <4>1. /\ Processes(v) /\ pc'[v] = pc[v] /\ fire'[v] = fire[v] /\ need'[v] = need[v]
            /\ fire[v] \in 1..fireCount
            /\ \A k \in Clicks : clickFire[k] # fire[v]
        BY <2>3, <3>2
      <4>2. ASSUME NEW u \in Workers \ {v}, Processes(u)' PROVE fire'[u] # fire'[v]
        <5>1. u # w
          BY <2>4, <4>2
        <5>2. Processes(u) /\ fire'[u] = fire[u]
          BY <2>3, <4>2, <5>1
        <5>3. WorkerGate(v)
          OBVIOUS
        <5> QED  BY <4>1, <5>2, <5>3
      <4>3. IF pc'[v] = "claimed"
            THEN ~gated'[fire'[v]] /\ arun'[fire'[v]] = "none" /\ Held(fire[v])'
            ELSE gated'[fire'[v]] = need'[v]
        BY <2>2, <4>1
      <4> QED  BY <2>2, <4>1, <4>2, <4>3
    <3> QED  BY <3>1, <3>2
  <2>6. ASSUME NEW v \in Workers PROVE BatchGate(v)'
    <3>1. CASE v = w
      BY <2>2, <2>4, <3>1
    <3>2. CASE v # w
      BY <2>2, <2>3, <3>2
    <3> QED  BY <3>1, <3>2
  <2> QED  BY <2>2, <2>5, <2>6
<1>20. CASE \E k \in Clicks : FireRoutine(k)
  BY <1>20 DEF FireRoutine, FirstState
<1>21. CASE HostEnqueues
  BY <1>21 DEF HostEnqueues, Enqueue
<1>22. CASE HostRuns
  BY <1>22 DEF HostRuns
<1>23. CASE \E f \in Fires, yes \in BOOLEAN : AnswerApproval(f, yes)
  BY <1>23 DEF AnswerApproval
<1>24. CASE \E f \in Fires : AnswerAsQuestion(f)
  BY <1>24 DEF AnswerAsQuestion
<1>25. CASE OwnerSends
  BY <1>25 DEF OwnerSends
<1>26. CASE LeadEnds
  BY <1>26 DEF LeadEnds
<1>27. CASE StopThread
  BY <1>27 DEF StopThread
<1>28. CASE HostRestarts
  BY <1>28 DEF HostRestarts
<1>29. CASE \E f \in Fires : JobLeaseExpires(f)
  BY <1>29 DEF JobLeaseExpires
<1>30. CASE UNCHANGED vars
  BY <1>30 DEF vars
<1> QED
  BY <1>1, <1>2, <1>3, <1>4, <1>5, <1>6, <1>7, <1>8, <1>9, <1>10, <1>11, <1>12, <1>13, <1>14, <1>15, <1>16, <1>17, <1>18, <1>19, <1>20, <1>21, <1>22, <1>23, <1>24, <1>25, <1>26, <1>27, <1>28, <1>29, <1>30 DEF Next, WorkerStep, OwnerStep

(* The gate holds in every reachable state: whatever the workers, edits,     *)
(* stalls, lost answers and restarts, a fire that needs approval is held     *)
(* until the owner approves it.                                              *)
THEOREM GateHolds == Spec => []GateInvariant
<1>1. Init => GateTypes /\ GateInvariant
  BY GateInit
<1>2. GateTypes /\ GateInvariant /\ [Next]_vars => GateTypes' /\ GateInvariant'
  BY GateTypesStep, GateStep
<1> QED  BY <1>1, <1>2, PTL DEF Spec

(* No prompt that needs approval is sent without it (answer_automation_ask,  *)
(* enqueue_automation_prompt, wake_routine).                                 *)
THEOREM PromptNeedsApprovalHolds == Spec => []PromptNeedsApproval
<1>1. GateInvariant => PromptNeedsApproval
  <2> SUFFICES ASSUME GateInvariant, NEW f \in Fires, sends[f] > 0, gated[f]
               PROVE  f \in approved
    BY DEF PromptNeedsApproval
  <2> QED  BY DEF GateInvariant, Held
<1> QED  BY <1>1, GateHolds, PTL

-----------------------------------------------------------------------------
(* The part of TypeOK that KeptFacts and SendFacts rest on besides. *)
HistoryTypes ==
  /\ slot \in Nat /\ slotOf \in [Fires -> Nat]
  /\ expired \in [Fires -> BOOLEAN] /\ attempts \in [Fires -> Nat]
  /\ answer \in [Workers -> {"none", "ok", "busy", "error"}]
  /\ crashes \in Nat

LEMMA HistoryInit ==
  /\ Init => HistoryTypes /\ SendFacts
  /\ Init /\ TRUE \notin Approvals => KeptFacts
<1> SUFFICES ASSUME Init PROVE HistoryTypes /\ SendFacts /\ (TRUE \notin Approvals => KeptFacts)
  OBVIOUS
<1>1. HistoryTypes
  BY DEF Init, HistoryTypes
<1>2. SendFacts
  BY DEF Init, SendFacts, WorksOn, Fires
<1>3. TRUE \notin Approvals => ~approval
  <2>1. approval \in Approvals /\ Approvals \subseteq BOOLEAN
    BY AutomationsAssumption DEF Init
  <2> QED  BY <2>1
<1>4. (\A w \in Workers : pc[w] = "idle") /\ acked = {}
  BY DEF Init
<1> QED  BY <1>1, <1>2, <1>3, <1>4 DEF KeptFacts, Processes

LEMMA HistoryTypesStep == GateTypes /\ HistoryTypes /\ [Next]_vars => HistoryTypes'
<1> SUFFICES ASSUME GateTypes, HistoryTypes, [Next]_vars PROVE HistoryTypes'
  OBVIOUS
<1> USE AutomationsAssumption DEF GateTypes, HistoryTypes, Goto, routineVars, runVars, jobVars, workerVars, history, Fires, NoFire
<1>1. CASE TimeComes
  BY <1>1 DEF TimeComes
<1>2. CASE \E on \in BOOLEAN, gate \in Approvals : EditRoutine(on, gate)
  BY <1>2 DEF EditRoutine
<1>3. CASE RoutineLeaseExpires
  BY <1>3 DEF RoutineLeaseExpires
<1>4. CASE \E w \in Workers : ClaimDueRoutines(w)
  <2>1. PICK w \in Workers : ClaimDueRoutines(w)
    BY <1>4
  <2>2. CASE Claimable
    <3>1. /\ slotOf' = [slotOf EXCEPT ![fireCount + 1] = slot]
          /\ UNCHANGED <<slot, expired, attempts, answer, crashes>>
      BY <2>1, <2>2 DEF ClaimDueRoutines
    <3> QED  BY <3>1
  <2>3. CASE ~Claimable
    BY <2>1, <2>3 DEF ClaimDueRoutines
  <2> QED  BY <2>2, <2>3
<1>5. CASE \E w \in Workers : EnsureAutomationRun(w)
  BY <1>5 DEF EnsureAutomationRun
<1>6. CASE \E w \in Workers : ApprovalCheck(w)
  BY <1>6 DEF ApprovalCheck
<1>7. CASE \E w \in Workers : ApprovalBegin(w)
  BY <1>7 DEF ApprovalBegin
<1>8. CASE \E w \in Workers : ApprovalCard(w)
  BY <1>8 DEF ApprovalCard
<1>9. CASE \E w \in Workers : ApprovalParks(w)
  BY <1>9 DEF ApprovalParks
<1>10. CASE \E w \in Workers : ApprovalBinds(w)
  BY <1>10 DEF ApprovalBinds
<1>11. CASE \E w \in Workers : EnqueuePrompt(w)
  BY <1>11 DEF EnqueuePrompt, Enqueue
<1>12. CASE \E w \in Workers : EnqueuedRuns(w)
  BY <1>12 DEF EnqueuedRuns
<1>13. CASE \E w \in Workers : AckRoutine(w)
  BY <1>13 DEF AckRoutine
<1>14. CASE \E w \in Workers : ClaimJobs(w)
  <2>1. PICK w \in Workers : ClaimJobs(w)
    BY <1>14
  <2> DEFINE jobs == {f \in Fires : Eligible(f)}
  <2>2. /\ attempts' = [f \in Fires |-> IF f \in jobs THEN attempts[f] + 1 ELSE attempts[f]]
        /\ expired' = [f \in Fires |-> IF f \in jobs THEN FALSE ELSE expired[f]]
        /\ UNCHANGED <<slot, slotOf, answer, crashes>>
    BY <2>1 DEF ClaimJobs
  <2> HIDE DEF jobs
  <2>3. attempts' \in [Fires -> Nat]
    BY <2>2
  <2>4. expired' \in [Fires -> BOOLEAN]
    BY <2>2
  <2> QED  BY <2>2, <2>3, <2>4
<1>15. CASE \E w \in Workers, f \in Fires : WakeRoutine(w, f)
  <2>1. PICK w \in Workers, f \in Fires : WakeRoutine(w, f)
    BY <1>15
  <2>2. \E a \in {"ok", "busy", "error"} : answer' = [answer EXCEPT ![w] = a]
    BY <2>1 DEF WakeRoutine
  <2>3. UNCHANGED <<slot, slotOf, expired, attempts, crashes>>
    BY <2>1 DEF WakeRoutine
  <2> QED  BY <2>2, <2>3
<1>16. CASE \E w \in Workers : SettleJob(w)
  <2>1. PICK w \in Workers : SettleJob(w)
    BY <1>16
  <2>2. /\ expired' = [expired EXCEPT ![fire[w]] = FALSE]
        /\ UNCHANGED <<slot, slotOf, attempts, answer, crashes>>
    BY <2>1 DEF SettleJob
  <2> QED  BY <2>2
<1>17. CASE \E w \in Workers : FinishAutomationRun(w)
  BY <1>17 DEF FinishAutomationRun
<1>18. CASE \E w \in Workers : PassEnds(w)
  BY <1>18 DEF PassEnds
<1>19. CASE \E w \in Workers : WorkerRestarts(w)
  BY <1>19 DEF WorkerRestarts
<1>20. CASE \E k \in Clicks : FireRoutine(k)
  BY <1>20 DEF FireRoutine
<1>21. CASE HostEnqueues
  BY <1>21 DEF HostEnqueues, Enqueue
<1>22. CASE HostRuns
  BY <1>22 DEF HostRuns
<1>23. CASE \E f \in Fires, yes \in BOOLEAN : AnswerApproval(f, yes)
  BY <1>23 DEF AnswerApproval
<1>24. CASE \E f \in Fires : AnswerAsQuestion(f)
  BY <1>24 DEF AnswerAsQuestion
<1>25. CASE OwnerSends
  BY <1>25 DEF OwnerSends
<1>26. CASE LeadEnds
  BY <1>26 DEF LeadEnds
<1>27. CASE StopThread
  BY <1>27 DEF StopThread
<1>28. CASE HostRestarts
  BY <1>28 DEF HostRestarts
<1>29. CASE \E f \in Fires : JobLeaseExpires(f)
  BY <1>29 DEF JobLeaseExpires
<1>30. CASE UNCHANGED vars
  BY <1>30 DEF vars
<1> QED
  BY <1>1, <1>2, <1>3, <1>4, <1>5, <1>6, <1>7, <1>8, <1>9, <1>10, <1>11, <1>12, <1>13, <1>14, <1>15, <1>16, <1>17, <1>18, <1>19, <1>20, <1>21, <1>22, <1>23, <1>24, <1>25, <1>26, <1>27, <1>28, <1>29, <1>30 DEF Next, WorkerStep, OwnerStep

LEMMA KeptStep ==
  ASSUME "stall" \notin Faults, TRUE \notin Approvals
  PROVE  GateTypes /\ GateInvariant /\ HistoryTypes /\ KeptFacts /\ [Next]_vars => KeptFacts'
<1> SUFFICES ASSUME GateTypes, GateInvariant, HistoryTypes, KeptFacts, [Next]_vars PROVE KeptFacts'
  OBVIOUS
<1> USE AutomationsAssumption DEF GateTypes, HistoryTypes, KeptFacts, Processes, Goto, routineVars, runVars, jobVars, workerVars, history, Fires, NoFire
<1>1. CASE TimeComes
  BY <1>1 DEF TimeComes, Processing
<1>2. CASE \E on \in BOOLEAN, gate \in Approvals : EditRoutine(on, gate)
  <2>1. PICK on \in BOOLEAN, gate \in Approvals : EditRoutine(on, gate)
    BY <1>2
  <2>2. ~gate
    <3>1. gate \in BOOLEAN
      BY AutomationsAssumption
    <3> QED  BY <3>1
  <2>3. approval' = gate /\ UNCHANGED <<workerVars, slot, slotOf, acked, jobVars>>
    BY <2>1 DEF EditRoutine
  <2>4. ~approval'
    BY <2>2, <2>3
  <2> QED  BY <2>3, <2>4
<1>3. CASE RoutineLeaseExpires
  BY <1>3 DEF RoutineLeaseExpires
<1>4. CASE \E w \in Workers : ClaimDueRoutines(w)
  <2>1. PICK w \in Workers : ClaimDueRoutines(w)
    BY <1>4
  <2>2. CASE Claimable
    <3>1. /\ fireCount + 1 \in Fires
          /\ slotOf' = [slotOf EXCEPT ![fireCount + 1] = slot]
          /\ fire' = [fire EXCEPT ![w] = fireCount + 1]
          /\ need' = [need EXCEPT ![w] = approval]
          /\ pc' = [pc EXCEPT ![w] = "claimed"]
          /\ UNCHANGED <<approval, slot, acked, job>>
      BY <2>1, <2>2 DEF ClaimDueRoutines
    <3>2. \A f \in Fires : job[f] # "none" => f <= fireCount
      BY DEF GateInvariant, Held
    <3>3. \A v \in Workers : Processes(v) => fire[v] \in 1..fireCount
      BY DEF GateInvariant, WorkerGate
    <3>4. \A f \in Fires : f <= fireCount => slotOf'[f] = slotOf[f]
      BY <3>1
    <3>5. ASSUME NEW v \in Workers, v # w, Processes(v)
          PROVE  ~need'[v] /\ slotOf'[fire'[v]] = slot'
      <4>1. fire'[v] = fire[v] /\ need'[v] = need[v] /\ slotOf[fire[v]] = slot /\ ~need[v]
        BY <3>1, <3>5
      <4>2. fire[v] \in Fires /\ fire[v] <= fireCount
        BY <3>3, <3>5
      <4> QED  BY <3>1, <3>4, <4>1, <4>2
    <3>6. ~need'[w] /\ slotOf'[fire'[w]] = slot'
      <4>1. fire'[w] = fireCount + 1 /\ need'[w] = approval
        BY <3>1
      <4> QED  BY <3>1, <4>1
    <3>7. \A s \in acked : \E f \in Fires : slotOf'[f] = s /\ job[f] # "none"
      <4> SUFFICES ASSUME NEW s \in acked
                   PROVE  \E f \in Fires : slotOf'[f] = s /\ job[f] # "none"
        OBVIOUS
      <4>1. PICK f \in Fires : slotOf[f] = s /\ job[f] # "none"
        OBVIOUS
      <4> QED  BY <3>2, <3>4, <4>1
    <3>8. \A v \in Workers : /\ v # w => pc'[v] = pc[v] /\ fire'[v] = fire[v]
                             /\ pc'[w] = "claimed"
      BY <3>1
    <3> QED  BY <3>1, <3>5, <3>6, <3>7, <3>8
  <2>3. CASE ~Claimable
    BY <2>1, <2>3 DEF ClaimDueRoutines
  <2> QED  BY <2>2, <2>3
<1>5. CASE \E w \in Workers : EnsureAutomationRun(w)
  BY <1>5 DEF EnsureAutomationRun
<1>6. CASE \E w \in Workers : ApprovalCheck(w)
  BY <1>6 DEF ApprovalCheck
<1>7. CASE \E w \in Workers : ApprovalBegin(w)
  BY <1>7 DEF ApprovalBegin
<1>8. CASE \E w \in Workers : ApprovalCard(w)
  BY <1>8 DEF ApprovalCard
<1>9. CASE \E w \in Workers : ApprovalParks(w)
  BY <1>9 DEF ApprovalParks
<1>10. CASE \E w \in Workers : ApprovalBinds(w)
  BY <1>10 DEF ApprovalBinds
<1>11. CASE \E w \in Workers : EnqueuePrompt(w)
  <2>1. PICK w \in Workers : EnqueuePrompt(w)
    BY <1>11
  <2>2. fire[w] \in Fires
    BY <2>1 DEF EnqueuePrompt, GateInvariant, WorkerGate
  <2>3. job'[fire[w]] # "none" /\ \A f \in Fires : job[f] # "none" => job'[f] # "none"
    BY <2>1, <2>2 DEF EnqueuePrompt, Enqueue
  <2>4. /\ pc' = [pc EXCEPT ![w] = "enqueued"] /\ pc[w] = "ensured"
        /\ UNCHANGED <<approval, fire, need, slot, slotOf, acked>>
    BY <2>1 DEF EnqueuePrompt
  <2>5. \A v \in Workers : pc[v] \in {"enqueued", "ack"} => fire[v] \in Fires
    BY DEF GateInvariant, WorkerGate
  <2> QED  BY <2>3, <2>4, <2>5
<1>12. CASE \E w \in Workers : EnqueuedRuns(w)
  BY <1>12 DEF EnqueuedRuns
<1>13. CASE \E w \in Workers : AckRoutine(w)
  <2>1. PICK w \in Workers : AckRoutine(w)
    BY <1>13
  <2>2. /\ pc[w] = "ack" /\ pc' = [pc EXCEPT ![w] = "jobs"]
        /\ fire' = [fire EXCEPT ![w] = NoFire] /\ need' = [need EXCEPT ![w] = FALSE]
        /\ acked' \in {acked, acked \cup {slot}}
        /\ UNCHANGED <<approval, slot, slotOf, job>>
    BY <2>1 DEF AckRoutine
  <2>3. fire[w] \in Fires /\ slotOf[fire[w]] = slot /\ job[fire[w]] # "none"
    BY <2>2 DEF GateInvariant, WorkerGate
  <2>4. \A s \in acked' : \E f \in Fires : slotOf[f] = s /\ job[f] # "none"
    BY <2>2, <2>3
  <2>5. \A v \in Workers \ {w} : pc'[v] = pc[v] /\ fire'[v] = fire[v] /\ need'[v] = need[v]
    BY <2>2
  <2>6. pc'[w] = "jobs"
    BY <2>2
  <2> QED  BY <2>2, <2>4, <2>5, <2>6
<1>14. CASE \E w \in Workers : ClaimJobs(w)
  <2>1. PICK w \in Workers : ClaimJobs(w)
    BY <1>14
  <2>2. \A f \in Fires : job[f] # "none" => job'[f] # "none"
    BY <2>1 DEF ClaimJobs
  <2>3. /\ pc' = [pc EXCEPT ![w] = "work"]
        /\ UNCHANGED <<approval, fire, need, slot, slotOf, acked>>
    BY <2>1 DEF ClaimJobs
  <2>4. \A v \in Workers : pc[v] \in {"enqueued", "ack"} => fire[v] \in Fires
    BY DEF GateInvariant, WorkerGate
  <2> QED  BY <2>1, <2>2, <2>3, <2>4 DEF ClaimJobs
<1>15. CASE \E w \in Workers, f \in Fires : WakeRoutine(w, f)
  BY <1>15 DEF WakeRoutine
<1>16. CASE \E w \in Workers : SettleJob(w)
  <2>1. PICK w \in Workers : SettleJob(w)
    BY <1>16
  <2>2. \A f \in Fires : job[f] # "none" => job'[f] # "none"
    BY <2>1 DEF SettleJob, AckJob, FailJob
  <2>3. /\ pc' = [pc EXCEPT ![w] = "settled"] /\ pc[w] = "answered"
        /\ UNCHANGED <<approval, fire, need, slot, slotOf, acked>>
    BY <2>1 DEF SettleJob
  <2>4. \A v \in Workers : pc[v] \in {"enqueued", "ack"} => fire[v] \in Fires
    BY DEF GateInvariant, WorkerGate
  <2> QED  BY <2>2, <2>3, <2>4
<1>17. CASE \E w \in Workers : FinishAutomationRun(w)
  BY <1>17 DEF FinishAutomationRun
<1>18. CASE \E w \in Workers : PassEnds(w)
  BY <1>18 DEF PassEnds
<1>19. CASE \E w \in Workers : WorkerRestarts(w)
  BY <1>19 DEF WorkerRestarts
<1>20. CASE \E k \in Clicks : FireRoutine(k)
  BY <1>20 DEF FireRoutine
<1>21. CASE HostEnqueues
  BY <1>21 DEF HostEnqueues, Enqueue
<1>22. CASE HostRuns
  BY <1>22 DEF HostRuns
<1>23. CASE \E f \in Fires, yes \in BOOLEAN : AnswerApproval(f, yes)
  BY <1>23 DEF AnswerApproval
<1>24. CASE \E f \in Fires : AnswerAsQuestion(f)
  BY <1>24 DEF AnswerAsQuestion
<1>25. CASE OwnerSends
  BY <1>25 DEF OwnerSends
<1>26. CASE LeadEnds
  BY <1>26 DEF LeadEnds
<1>27. CASE StopThread
  BY <1>27 DEF StopThread
<1>28. CASE HostRestarts
  BY <1>28 DEF HostRestarts
<1>29. CASE \E f \in Fires : JobLeaseExpires(f)
  BY <1>29 DEF JobLeaseExpires
<1>30. CASE UNCHANGED vars
  BY <1>30 DEF vars
<1> QED
  BY <1>1, <1>2, <1>3, <1>4, <1>5, <1>6, <1>7, <1>8, <1>9, <1>10, <1>11, <1>12, <1>13, <1>14, <1>15, <1>16, <1>17, <1>18, <1>19, <1>20, <1>21, <1>22, <1>23, <1>24, <1>25, <1>26, <1>27, <1>28, <1>29, <1>30 DEF Next, WorkerStep, OwnerStep

(* What a worker does outside the jobs it claimed, keeping every durable job,  *)
(* keeps SendFacts.                                                           *)
LEMMA OutsideJobs ==
  ASSUME NEW w \in Workers
  PROVE  /\ GateTypes /\ HistoryTypes /\ SendFacts
         /\ pc[w] \notin {"work", "answered", "settled"}
         /\ pc'[w] \notin {"work", "answered", "settled"}
         /\ \A v \in Workers \ {w} : pc'[v] = pc[v] /\ fire'[v] = fire[v]
         /\ \A f \in Fires : job[f] # "none" => job'[f] = job[f]
         /\ UNCHANGED <<expired, batch, answer, sends, crashes>>
         => SendFacts'
<1> SUFFICES ASSUME GateTypes, HistoryTypes, SendFacts,
                    pc[w] \notin {"work", "answered", "settled"},
                    pc'[w] \notin {"work", "answered", "settled"},
                    \A v \in Workers \ {w} : pc'[v] = pc[v] /\ fire'[v] = fire[v],
                    \A f \in Fires : job[f] # "none" => job'[f] = job[f],
                    UNCHANGED <<expired, batch, answer, sends, crashes>>
             PROVE  SendFacts'
  OBVIOUS
<1>1. batch[w] = {}
  BY DEF SendFacts
<1>2. \A v \in Workers, f \in Fires : WorksOn(v, f)' <=> WorksOn(v, f)
  BY <1>1 DEF WorksOn
<1>3. \A v \in Workers : pc'[v] \notin {"work", "answered", "settled"} => batch'[v] = {}
  BY <1>1 DEF SendFacts
<1>4. \A v \in Workers, f \in Fires : WorksOn(v, f) =>
        /\ job'[f] = "running" /\ ~expired'[f]
        /\ \A u \in Workers \ {v} : ~WorksOn(u, f)
  BY DEF SendFacts
<1>5. \A f \in Fires, v \in Workers :
        pc[v] = "answered" /\ fire[v] = f /\ answer[v] = "ok"
          => pc'[v] = "answered" /\ fire'[v] = f /\ answer'[v] = "ok"
  OBVIOUS
<1>6. \A f \in Fires :
        \/ sends'[f] <= crashes'
        \/ job'[f] \in {"succeeded", "dead"}
        \/ \E v \in Workers : pc'[v] = "answered" /\ fire'[v] = f /\ answer'[v] = "ok"
  BY <1>5 DEF SendFacts
<1>7. \A f \in Fires : sends'[f] <= 1 + crashes'
  BY DEF SendFacts
<1> QED  BY <1>2, <1>3, <1>4, <1>6, <1>7 DEF SendFacts

LEMMA SendStep ==
  ASSUME Faults \subseteq {"error"}
  PROVE  GateTypes /\ GateInvariant /\ HistoryTypes /\ SendFacts /\ [Next]_vars => SendFacts'
<1> SUFFICES ASSUME GateTypes, GateInvariant, HistoryTypes, SendFacts, [Next]_vars PROVE SendFacts'
  OBVIOUS
<1> USE AutomationsAssumption DEF GateTypes, HistoryTypes, SendFacts, WorksOn, Goto, routineVars, runVars, jobVars, workerVars, history, Fires, NoFire
<1>1. CASE TimeComes
  BY <1>1 DEF TimeComes
<1>2. CASE \E on \in BOOLEAN, gate \in Approvals : EditRoutine(on, gate)
  BY <1>2 DEF EditRoutine
<1>3. CASE RoutineLeaseExpires
  BY <1>3 DEF RoutineLeaseExpires
<1>4. CASE \E w \in Workers : ClaimDueRoutines(w)
  <2>1. PICK w \in Workers : ClaimDueRoutines(w)
    BY <1>4
  <2>2. /\ pc[w] \notin {"work", "answered", "settled"}
        /\ pc'[w] \notin {"work", "answered", "settled"}
    BY <2>1 DEF ClaimDueRoutines
  <2>3. /\ \A v \in Workers \ {w} : pc'[v] = pc[v] /\ fire'[v] = fire[v]
        /\ UNCHANGED <<expired, batch, answer, sends, crashes>>
    BY <2>1 DEF ClaimDueRoutines
  <2>4. \A f \in Fires : job[f] # "none" => job'[f] = job[f]
    BY <2>1 DEF ClaimDueRoutines
  <2> QED  BY <2>2, <2>3, <2>4, OutsideJobs
<1>5. CASE \E w \in Workers : EnsureAutomationRun(w)
  <2>1. PICK w \in Workers : EnsureAutomationRun(w)
    BY <1>5
  <2>2. /\ pc[w] \notin {"work", "answered", "settled"}
        /\ pc'[w] \notin {"work", "answered", "settled"}
    BY <2>1 DEF EnsureAutomationRun
  <2>3. /\ \A v \in Workers \ {w} : pc'[v] = pc[v] /\ fire'[v] = fire[v]
        /\ UNCHANGED <<expired, batch, answer, sends, crashes>>
    BY <2>1 DEF EnsureAutomationRun
  <2>4. \A f \in Fires : job[f] # "none" => job'[f] = job[f]
    BY <2>1 DEF EnsureAutomationRun
  <2> QED  BY <2>2, <2>3, <2>4, OutsideJobs
<1>6. CASE \E w \in Workers : ApprovalCheck(w)
  <2>1. PICK w \in Workers : ApprovalCheck(w)
    BY <1>6
  <2>2. /\ pc[w] \notin {"work", "answered", "settled"}
        /\ pc'[w] \notin {"work", "answered", "settled"}
    BY <2>1 DEF ApprovalCheck
  <2>3. /\ \A v \in Workers \ {w} : pc'[v] = pc[v] /\ fire'[v] = fire[v]
        /\ UNCHANGED <<expired, batch, answer, sends, crashes>>
    BY <2>1 DEF ApprovalCheck
  <2>4. \A f \in Fires : job[f] # "none" => job'[f] = job[f]
    BY <2>1 DEF ApprovalCheck
  <2> QED  BY <2>2, <2>3, <2>4, OutsideJobs
<1>7. CASE \E w \in Workers : ApprovalBegin(w)
  <2>1. PICK w \in Workers : ApprovalBegin(w)
    BY <1>7
  <2>2. /\ pc[w] \notin {"work", "answered", "settled"}
        /\ pc'[w] \notin {"work", "answered", "settled"}
    BY <2>1 DEF ApprovalBegin
  <2>3. /\ \A v \in Workers \ {w} : pc'[v] = pc[v] /\ fire'[v] = fire[v]
        /\ UNCHANGED <<expired, batch, answer, sends, crashes>>
    BY <2>1 DEF ApprovalBegin
  <2>4. \A f \in Fires : job[f] # "none" => job'[f] = job[f]
    BY <2>1 DEF ApprovalBegin
  <2> QED  BY <2>2, <2>3, <2>4, OutsideJobs
<1>8. CASE \E w \in Workers : ApprovalCard(w)
  <2>1. PICK w \in Workers : ApprovalCard(w)
    BY <1>8
  <2>2. /\ pc[w] \notin {"work", "answered", "settled"}
        /\ pc'[w] \notin {"work", "answered", "settled"}
    BY <2>1 DEF ApprovalCard
  <2>3. /\ \A v \in Workers \ {w} : pc'[v] = pc[v] /\ fire'[v] = fire[v]
        /\ UNCHANGED <<expired, batch, answer, sends, crashes>>
    BY <2>1 DEF ApprovalCard
  <2>4. \A f \in Fires : job[f] # "none" => job'[f] = job[f]
    BY <2>1 DEF ApprovalCard
  <2> QED  BY <2>2, <2>3, <2>4, OutsideJobs
<1>9. CASE \E w \in Workers : ApprovalParks(w)
  <2>1. PICK w \in Workers : ApprovalParks(w)
    BY <1>9
  <2>2. /\ pc[w] \notin {"work", "answered", "settled"}
        /\ pc'[w] \notin {"work", "answered", "settled"}
    BY <2>1 DEF ApprovalParks
  <2>3. /\ \A v \in Workers \ {w} : pc'[v] = pc[v] /\ fire'[v] = fire[v]
        /\ UNCHANGED <<expired, batch, answer, sends, crashes>>
    BY <2>1 DEF ApprovalParks
  <2>4. \A f \in Fires : job[f] # "none" => job'[f] = job[f]
    BY <2>1 DEF ApprovalParks
  <2> QED  BY <2>2, <2>3, <2>4, OutsideJobs
<1>10. CASE \E w \in Workers : ApprovalBinds(w)
  <2>1. PICK w \in Workers : ApprovalBinds(w)
    BY <1>10
  <2>2. /\ pc[w] \notin {"work", "answered", "settled"}
        /\ pc'[w] \notin {"work", "answered", "settled"}
    BY <2>1 DEF ApprovalBinds
  <2>3. /\ \A v \in Workers \ {w} : pc'[v] = pc[v] /\ fire'[v] = fire[v]
        /\ UNCHANGED <<expired, batch, answer, sends, crashes>>
    BY <2>1 DEF ApprovalBinds
  <2>4. \A f \in Fires : job[f] # "none" => job'[f] = job[f]
    BY <2>1 DEF ApprovalBinds
  <2> QED  BY <2>2, <2>3, <2>4, OutsideJobs
<1>11. CASE \E w \in Workers : EnqueuePrompt(w)
  <2>1. PICK w \in Workers : EnqueuePrompt(w)
    BY <1>11
  <2>2. /\ pc[w] \notin {"work", "answered", "settled"}
        /\ pc'[w] \notin {"work", "answered", "settled"}
    BY <2>1 DEF EnqueuePrompt
  <2>3. /\ \A v \in Workers \ {w} : pc'[v] = pc[v] /\ fire'[v] = fire[v]
        /\ UNCHANGED <<expired, batch, answer, sends, crashes>>
    BY <2>1 DEF EnqueuePrompt
  <2>4. \A f \in Fires : job[f] # "none" => job'[f] = job[f]
    BY <2>1 DEF EnqueuePrompt, Enqueue
  <2> QED  BY <2>2, <2>3, <2>4, OutsideJobs
<1>12. CASE \E w \in Workers : EnqueuedRuns(w)
  <2>1. PICK w \in Workers : EnqueuedRuns(w)
    BY <1>12
  <2>2. /\ pc[w] \notin {"work", "answered", "settled"}
        /\ pc'[w] \notin {"work", "answered", "settled"}
    BY <2>1 DEF EnqueuedRuns
  <2>3. /\ \A v \in Workers \ {w} : pc'[v] = pc[v] /\ fire'[v] = fire[v]
        /\ UNCHANGED <<expired, batch, answer, sends, crashes>>
    BY <2>1 DEF EnqueuedRuns
  <2>4. \A f \in Fires : job[f] # "none" => job'[f] = job[f]
    BY <2>1 DEF EnqueuedRuns
  <2> QED  BY <2>2, <2>3, <2>4, OutsideJobs
<1>13. CASE \E w \in Workers : AckRoutine(w)
  <2>1. PICK w \in Workers : AckRoutine(w)
    BY <1>13
  <2>2. /\ pc[w] \notin {"work", "answered", "settled"}
        /\ pc'[w] \notin {"work", "answered", "settled"}
    BY <2>1 DEF AckRoutine
  <2>3. /\ \A v \in Workers \ {w} : pc'[v] = pc[v] /\ fire'[v] = fire[v]
        /\ UNCHANGED <<expired, batch, answer, sends, crashes>>
    BY <2>1 DEF AckRoutine
  <2>4. \A f \in Fires : job[f] # "none" => job'[f] = job[f]
    BY <2>1 DEF AckRoutine
  <2> QED  BY <2>2, <2>3, <2>4, OutsideJobs
<1>14. CASE \E w \in Workers : ClaimJobs(w)
  BY <1>14 DEF ClaimJobs, Eligible
<1>15. CASE \E w \in Workers, f \in Fires : WakeRoutine(w, f)
  <2>1. PICK w \in Workers, f \in Fires : WakeRoutine(w, f)
    BY <1>15
  <2>2. /\ pc[w] = "work" /\ f \in batch[w]
        /\ pc' = [pc EXCEPT ![w] = "answered"] /\ fire' = [fire EXCEPT ![w] = f]
        /\ UNCHANGED <<job, expired, batch, crashes>>
    BY <2>1 DEF WakeRoutine
  <2>3. \/ sends' = [sends EXCEPT ![f] = sends[f] + 1] /\ answer' = [answer EXCEPT ![w] = "ok"]
        \/ sends' = sends /\ \E a \in {"busy", "error"} : answer' = [answer EXCEPT ![w] = a]
    BY <2>1 DEF WakeRoutine
  <2>4. pc'[w] = "answered" /\ fire'[w] = f
    BY <2>2
  <2>5. \A v \in Workers \ {w} : pc'[v] = pc[v] /\ fire'[v] = fire[v] /\ answer'[v] = answer[v]
    BY <2>2, <2>3
  <2>6. \A v \in Workers, g \in Fires : WorksOn(v, g)' <=> WorksOn(v, g)
    BY <2>2, <2>4, <2>5
  <2>7. WorksOn(w, f) /\ job[f] = "running"
    BY <2>2
  <2>8. sends[f] <= crashes
    <3>1. ASSUME NEW v \in Workers, pc[v] = "answered", fire[v] = f PROVE FALSE
      <4>1. WorksOn(v, f)
        BY <3>1 DEF GateInvariant, BatchGate
      <4>2. v # w
        BY <2>2, <3>1
      <4>3. \A u \in Workers \ {v} : ~WorksOn(u, f)
        BY <4>1
      <4> QED  BY <2>7, <4>2, <4>3
    <3> QED  BY <2>7, <3>1
  <2>9. \A g \in Fires : sends'[g] <= 1 + crashes
    <3>1. ASSUME NEW g \in Fires
          PROVE  sends'[g] = sends[g] \/ (g = f /\ sends'[g] = sends[f] + 1)
      <4>1. CASE sends' = [sends EXCEPT ![f] = sends[f] + 1]
        <5>1. sends' = [x \in Fires |-> IF x = f THEN sends[f] + 1 ELSE sends[x]]
          BY <4>1
        <5> HIDE DEF GateTypes, HistoryTypes, SendFacts
        <5> QED  BY <5>1
      <4>2. CASE sends' = sends
        BY <4>2
      <4> QED  BY <2>3, <4>1, <4>2
    <3>2. \A g \in Fires : sends[g] \in Nat /\ sends[g] <= 1 + crashes
      OBVIOUS
    <3>3. ASSUME NEW g \in Fires PROVE sends'[g] <= 1 + crashes
      <4>1. CASE sends'[g] = sends[g]
        BY <3>2, <4>1
      <4>2. CASE sends'[g] = sends[f] + 1
        <5>1. sends[f] \in Nat /\ crashes \in Nat
          OBVIOUS
        <5> HIDE DEF GateTypes, HistoryTypes, SendFacts
        <5> QED  BY <2>8, <4>2, <5>1
      <4> QED  BY <3>1, <4>1, <4>2
    <3> QED  BY <3>3
  <2>10. ASSUME NEW g \in Fires
         PROVE  \/ sends'[g] <= crashes
                \/ job[g] \in {"succeeded", "dead"}
                \/ \E v \in Workers : pc'[v] = "answered" /\ fire'[v] = g /\ answer'[v] = "ok"
    <3>1. CASE g = f /\ answer' = [answer EXCEPT ![w] = "ok"]
      BY <2>4, <3>1
    <3>2. CASE g = f /\ sends' = sends
      BY <2>8, <3>2
    <3>3. CASE g # f
      <4>1. sends'[g] = sends[g]
        BY <2>3, <3>3
      <4>2. \A v \in Workers : pc[v] = "answered" => v # w
        BY <2>2
      <4>3. \A v \in Workers : pc[v] = "answered" /\ fire[v] = g /\ answer[v] = "ok"
              => pc'[v] = "answered" /\ fire'[v] = g /\ answer'[v] = "ok"
        BY <2>5, <4>2
      <4>4. \/ sends[g] <= crashes
            \/ job[g] \in {"succeeded", "dead"}
            \/ \E v \in Workers : pc[v] = "answered" /\ fire[v] = g /\ answer[v] = "ok"
        OBVIOUS
      <4> QED  BY <4>1, <4>3, <4>4
    <3> QED  BY <2>3, <3>1, <3>2, <3>3
  <2>11. \A v \in Workers : pc'[v] \notin {"work", "answered", "settled"} => batch[v] = {}
    BY <2>4, <2>5
  <2>12. \A v \in Workers, g \in Fires : WorksOn(v, g)' =>
           /\ job[g] = "running" /\ ~expired[g]
           /\ \A u \in Workers \ {v} : ~WorksOn(u, g)'
    BY <2>6
  <2> QED  BY <2>2, <2>9, <2>10, <2>11, <2>12
<1>16. CASE \E w \in Workers : SettleJob(w)
  <2>1. PICK w \in Workers : SettleJob(w)
    BY <1>16
  <2> DEFINE f == fire[w]
  <2>2. /\ pc[w] = "answered" /\ pc' = [pc EXCEPT ![w] = "settled"]
        /\ expired' = [expired EXCEPT ![f] = FALSE]
        /\ UNCHANGED <<fire, batch, answer, sends, crashes>>
    BY <2>1 DEF SettleJob
  <2>3. f \in batch[w] /\ f \in Fires /\ WorksOn(w, f)
    BY <2>2 DEF GateInvariant, BatchGate
  <2>4. job[f] = "running"
    BY <2>3
  <2>5. /\ answer[w] = "ok" => job'[f] = "succeeded"
        /\ \A g \in Fires : g # f => job'[g] = job[g]
    <3>1. IF answer[w] \in {"ok", "busy"} THEN AckJob(f) ELSE FailJob(f)
      BY <2>1 DEF SettleJob
    <3>2. answer[w] = "ok" => job'[f] = "succeeded"
      BY <2>3, <2>4, <3>1 DEF AckJob
    <3>3. AckJob(f) => \A g \in Fires : g # f => job'[g] = job[g]
      BY DEF AckJob
    <3>4. FailJob(f) => \A g \in Fires : g # f => job'[g] = job[g]
      BY DEF FailJob
    <3> QED  BY <3>1, <3>2, <3>3, <3>4
  <2> HIDE DEF f
  <2>6. \A v \in Workers \ {w} : pc'[v] = pc[v]
    BY <2>2
  <2>7. pc'[w] = "settled"
    BY <2>2
  <2>8. \A v \in Workers, g \in Fires : WorksOn(v, g)' => WorksOn(v, g) /\ ~(v = w /\ g = f)
    BY <2>2, <2>6, <2>7 DEF f
  <2>9. \A v \in Workers, g \in Fires : WorksOn(v, g)' =>
          /\ job'[g] = "running" /\ ~expired'[g]
          /\ \A u \in Workers \ {v} : ~WorksOn(u, g)'
    <3>1. SUFFICES ASSUME NEW v \in Workers, NEW g \in Fires, WorksOn(v, g)'
                   PROVE  /\ job'[g] = "running" /\ ~expired'[g]
                          /\ \A u \in Workers \ {v} : ~WorksOn(u, g)'
      OBVIOUS
    <3>2. WorksOn(v, g) /\ g # f
      BY <2>3, <2>8, <3>1
    <3>3. job'[g] = "running"
      BY <2>5, <3>2
    <3>4. ~expired'[g]
      BY <2>2, <3>2
    <3> QED  BY <2>8, <3>2, <3>3, <3>4
  <2>10. ASSUME NEW g \in Fires
         PROVE  \/ sends'[g] <= crashes'
                \/ job'[g] \in {"succeeded", "dead"}
                \/ \E v \in Workers : pc'[v] = "answered" /\ fire'[v] = g /\ answer'[v] = "ok"
    <3>1. CASE g # f
      <4>1. \A v \in Workers : fire[v] = g => v # w
        BY <3>1 DEF f
      <4> QED  BY <2>2, <2>5, <2>6, <3>1, <4>1
    <3>2. CASE g = f
      <4>1. ASSUME NEW v \in Workers, pc[v] = "answered", fire[v] = f PROVE v = w
        <5>1. WorksOn(v, f)
          BY <4>1 DEF GateInvariant, BatchGate
        <5> QED  BY <2>3, <5>1
      <4>2. sends[f] <= crashes \/ answer[w] = "ok"
        <5>1. \/ sends[f] <= crashes
              \/ job[f] \in {"succeeded", "dead"}
              \/ \E v \in Workers : pc[v] = "answered" /\ fire[v] = f /\ answer[v] = "ok"
          BY <2>3
        <5> QED  BY <2>4, <4>1, <5>1
      <4> QED  BY <2>2, <2>5, <3>2, <4>2
    <3> QED  BY <3>1, <3>2
  <2>11. \A v \in Workers : pc'[v] \notin {"work", "answered", "settled"} => batch'[v] = {}
    BY <2>2, <2>6, <2>7
  <2> QED  BY <2>2, <2>9, <2>10, <2>11
<1>17. CASE \E w \in Workers : FinishAutomationRun(w)
  <2>1. PICK w \in Workers : FinishAutomationRun(w)
    BY <1>17
  <2>2. /\ pc[w] = "settled" /\ pc'[w] = "work" /\ batch'[w] = batch[w] \ {fire[w]}
        /\ \A v \in Workers \ {w} : /\ pc'[v] = pc[v] /\ fire'[v] = fire[v]
                                   /\ answer'[v] = answer[v] /\ batch'[v] = batch[v]
        /\ UNCHANGED <<job, expired, sends, crashes>>
    BY <2>1 DEF FinishAutomationRun
  <2>3. \A v \in Workers, f \in Fires : WorksOn(v, f)' <=> WorksOn(v, f)
    BY <2>2
  <2>4. \A v \in Workers : pc'[v] \notin {"work", "answered", "settled"} => batch'[v] = {}
    BY <2>2
  <2>5. \A f \in Fires, v \in Workers :
          pc[v] = "answered" /\ fire[v] = f /\ answer[v] = "ok"
            => pc'[v] = "answered" /\ fire'[v] = f /\ answer'[v] = "ok"
    BY <2>2
  <2>6. \A f \in Fires :
          \/ sends'[f] <= crashes'
          \/ job'[f] \in {"succeeded", "dead"}
          \/ \E v \in Workers : pc'[v] = "answered" /\ fire'[v] = f /\ answer'[v] = "ok"
    BY <2>2, <2>5
  <2> QED  BY <2>2, <2>3, <2>4, <2>6
<1>18. CASE \E w \in Workers : PassEnds(w)
  <2>1. PICK w \in Workers : PassEnds(w)
    BY <1>18
  <2>2. /\ pc[w] = "work" /\ pc' = [pc EXCEPT ![w] = "idle"] /\ batch[w] = {}
        /\ UNCHANGED <<fire, job, expired, batch, answer, sends, crashes>>
    BY <2>1 DEF PassEnds
  <2> QED  BY <2>2
<1>19. CASE \E w \in Workers : WorkerRestarts(w)
  <2>1. PICK w \in Workers : WorkerRestarts(w)
    BY <1>19
  <2>2. /\ pc'[w] = "idle" /\ batch'[w] = {} /\ crashes' = crashes + 1
        /\ \A v \in Workers \ {w} : /\ pc'[v] = pc[v] /\ fire'[v] = fire[v]
                                   /\ batch'[v] = batch[v]
        /\ UNCHANGED <<job, expired, sends>>
    BY <2>1 DEF WorkerRestarts
  <2>3. \A v \in Workers, f \in Fires : WorksOn(v, f)' => WorksOn(v, f)
    BY <2>2
  <2>4. \A v \in Workers : pc'[v] \notin {"work", "answered", "settled"} => batch'[v] = {}
    BY <2>2
  <2>5. \A f \in Fires : sends'[f] <= crashes' /\ sends'[f] <= 1 + crashes'
    <3>1. crashes \in Nat /\ \A f \in Fires : sends[f] \in Nat /\ sends[f] <= 1 + crashes
      OBVIOUS
    <3> HIDE DEF GateTypes, HistoryTypes, SendFacts
    <3> QED  BY <2>2, <3>1
  <2>6. \A v \in Workers, f \in Fires : WorksOn(v, f)' =>
          /\ job'[f] = "running" /\ ~expired'[f]
          /\ \A u \in Workers \ {v} : ~WorksOn(u, f)'
    BY <2>2, <2>3
  <2> QED  BY <2>4, <2>5, <2>6
<1>20. CASE \E k \in Clicks : FireRoutine(k)
  BY <1>20 DEF FireRoutine
<1>21. CASE HostEnqueues
  BY <1>21 DEF HostEnqueues, Enqueue
<1>22. CASE HostRuns
  BY <1>22 DEF HostRuns
<1>23. CASE \E f \in Fires, yes \in BOOLEAN : AnswerApproval(f, yes)
  BY <1>23 DEF AnswerApproval
<1>24. CASE \E f \in Fires : AnswerAsQuestion(f)
  BY <1>24 DEF AnswerAsQuestion
<1>25. CASE OwnerSends
  BY <1>25 DEF OwnerSends
<1>26. CASE LeadEnds
  BY <1>26 DEF LeadEnds
<1>27. CASE StopThread
  BY <1>27 DEF StopThread
<1>28. CASE HostRestarts
  BY <1>28 DEF HostRestarts
<1>29. CASE \E f \in Fires : JobLeaseExpires(f)
  <2>1. PICK f \in Fires : JobLeaseExpires(f)
    BY <1>29
  <2>2. /\ \A w \in Workers : f \notin batch[w]
        /\ expired' = [expired EXCEPT ![f] = TRUE]
        /\ UNCHANGED <<job, pc, fire, batch, answer, sends, crashes>>
    BY <2>1 DEF JobLeaseExpires
  <2>3. \A g \in Fires : g # f => expired'[g] = expired[g]
    BY <2>2
  <2>4. \A v \in Workers, g \in Fires : WorksOn(v, g)' <=> WorksOn(v, g)
    BY <2>2
  <2>5. \A v \in Workers, g \in Fires : WorksOn(v, g) =>
          /\ job'[g] = "running" /\ ~expired'[g]
          /\ \A u \in Workers \ {v} : ~WorksOn(u, g)
    BY <2>2, <2>3
  <2>6. /\ \A v \in Workers : pc'[v] \notin {"work", "answered", "settled"} => batch'[v] = {}
        /\ \A g \in Fires : sends'[g] <= 1 + crashes'
        /\ \A g \in Fires :
             \/ sends'[g] <= crashes'
             \/ job'[g] \in {"succeeded", "dead"}
             \/ \E v \in Workers : pc'[v] = "answered" /\ fire'[v] = g /\ answer'[v] = "ok"
    BY <2>2
  <2> QED  BY <2>4, <2>5, <2>6
<1>30. CASE UNCHANGED vars
  BY <1>30 DEF vars
<1> QED
  BY <1>1, <1>2, <1>3, <1>4, <1>5, <1>6, <1>7, <1>8, <1>9, <1>10, <1>11, <1>12, <1>13, <1>14, <1>15, <1>16, <1>17, <1>18, <1>19, <1>20, <1>21, <1>22, <1>23, <1>24, <1>25, <1>26, <1>27, <1>28, <1>29, <1>30 DEF Next, WorkerStep, OwnerStep

(* A slot of a routine without approval is acknowledged only after the prompt *)
(* of its fire is a durable job, whatever errors, lost answers, edits and     *)
(* exits come in between, while no worker stalls for longer than its lease    *)
(* (run_once: claim, ensure, enqueue, ack).                                   *)
THEOREM FireKeptHolds ==
  ASSUME "stall" \notin Faults, TRUE \notin Approvals
  PROVE  Spec => []FireKept
<1>1. Init => GateTypes /\ GateInvariant /\ HistoryTypes /\ KeptFacts
  BY GateInit, HistoryInit
<1>2. GateTypes /\ GateInvariant /\ HistoryTypes /\ KeptFacts /\ [Next]_vars
        => GateTypes' /\ GateInvariant' /\ HistoryTypes' /\ KeptFacts'
  BY GateTypesStep, GateStep, HistoryTypesStep, KeptStep
<1>3. KeptFacts => FireKept
  BY DEF KeptFacts, FireKept
<1> QED  BY <1>1, <1>2, <1>3, PTL DEF Spec

(* The prompt of a fire reaches the bot once, and once more for every exit of *)
(* a worker or the host at the most, when the host answers what it accepts    *)
(* and leases outlive their workers (claim_jobs, ack_job, fail_job).          *)
THEOREM PromptOnceHolds ==
  ASSUME Faults \subseteq {"error"}
  PROVE  Spec => []PromptOnce
<1>1. Init => GateTypes /\ GateInvariant /\ HistoryTypes /\ SendFacts
  BY GateInit, HistoryInit
<1>2. GateTypes /\ GateInvariant /\ HistoryTypes /\ SendFacts /\ [Next]_vars
        => GateTypes' /\ GateInvariant' /\ HistoryTypes' /\ SendFacts'
  BY GateTypesStep, GateStep, HistoryTypesStep, SendStep
<1>3. SendFacts => PromptOnce
  BY DEF SendFacts, PromptOnce
<1> QED  BY <1>1, <1>2, <1>3, PTL DEF Spec
=============================================================================
