---------------------------- MODULE TurnsProofs ----------------------------
(***************************************************************************)
(* Proofs about Turns, for every number of commands, requests, runs, stops *)
(* and restarts.                                                           *)
(***************************************************************************)
EXTENDS Turns, WellFoundedInduction, FiniteSetTheorems, TLAPS

-----------------------------------------------------------------------------
(* Latest: the queries that order runs by started_at and take one row.       *)

(* A nonempty set of runs has a newest one, and Latest returns it. *)
LEMMA LatestIn ==
  ASSUME NEW S, S \subseteq RunIds, S # {}
  PROVE  Latest(S) \in S /\ \A q \in S : q <= Latest(S)
<1> DEFINE T == {MaxRuns - r : r \in S}
<1>0. MaxRuns \in Nat /\ \A r \in S : r \in 1..MaxRuns
  BY BoundsAssumption DEF RunIds
<1>1. T \subseteq Nat /\ T # {}
  <2>1. \A r \in S : MaxRuns - r \in Nat
    BY <1>0
  <2>2. T # {}
    <3>1. PICK r \in S : TRUE
      OBVIOUS
    <3>2. MaxRuns - r \in T
      OBVIOUS
    <3> QED  BY <3>2
  <2> QED  BY <2>1, <2>2
<1>2. PICK x \in T : \A y \in T : ~(<<y, x>> \in OpToRel(<, Nat))
  <2> HIDE DEF T
  <2> QED  BY <1>1, NatLessThanWellFounded, WFMin
<1>3. \A y \in T : ~(y < x)
  <2> HIDE DEF T
  <2> QED  BY <1>1, <1>2 DEF OpToRel
<1>4. PICK r \in S : x = MaxRuns - r
  OBVIOUS
<1>5. \A q \in S : q <= r
  BY <1>3, <1>4, BoundsAssumption DEF RunIds
<1> QED  BY <1>5 DEF Latest

(* The queries over run rows return rows. *)
LEMMA BusyRunsAreRuns ==
  ASSUME NEW st
  PROVE  BusyRuns(st) \subseteq RunIds /\ WaitingTakeover(st) \subseteq RunIds
BY DEF BusyRuns, WaitingTakeover, WithStatus

(* What a send reads and rewrites keeps the shape of the run table. *)
LEMMA SendTypes ==
  ASSUME NEW st \in [RunIds -> RunStatus]
  PROVE  /\ StopTakeover(st) \in [RunIds -> RunStatus]
         /\ Supersede(st) \in [RunIds -> RunStatus]
         /\ ActiveRun(st) \in RunIds \cup {NoRun}
<1>1. StopTakeover(st) \in [RunIds -> RunStatus]
  BY BusyRunsAreRuns, LatestIn DEF StopTakeover, RunStatus, Ended
<1>2. Supersede(st) \in [RunIds -> RunStatus]
  BY BusyRunsAreRuns, LatestIn DEF Supersede, RunStatus, Ended
<1>3. ActiveRun(st) \in RunIds \cup {NoRun}
  BY BusyRunsAreRuns, LatestIn DEF ActiveRun
<1> QED  BY <1>1, <1>2, <1>3

(* Closing the newest card keeps the cards typed. *)
LEMMA AnswerPendingAsksType ==
  ASSUME ask \in [RunIds -> {"none", "pending", "answered"}], AnswerPendingAsks
  PROVE  ask' \in [RunIds -> {"none", "pending", "answered"}]
<1>1. PendingAsks \subseteq RunIds
  BY DEF PendingAsks
<1> QED  BY <1>1, LatestIn DEF AnswerPendingAsks

(* The writers of a run's status keep the types of both status columns. *)
RowTypes ==
  /\ runStatus \in [RunIds -> RunStatus]
  /\ botStatus \in {"idle", "running", "waiting_input", "waiting_takeover", "error"}

LEMMA StatusWriterTypes ==
  ASSUME RowTypes, NEW r \in RunIds
  PROVE  /\ \A o \in TurnOutcomes \cup {"cancelled"} : FinishTurn(r, o) => RowTypes'
         /\ MarkRunning(r) => RowTypes'
         /\ MarkWaitingInput(r) => RowTypes'
         /\ \A o \in Ended : EndParked(r, o) => RowTypes'
<1>1. ASSUME NEW o \in TurnOutcomes \cup {"cancelled"}, FinishTurn(r, o) PROVE RowTypes'
  BY <1>1 DEF RowTypes, FinishTurn, BotAfterFinish, TurnOutcomes, RunStatus, Busy, Ended
<1>2. ASSUME MarkRunning(r) PROVE RowTypes'
  BY <1>2 DEF RowTypes, MarkRunning, RunStatus, Busy
<1>3. ASSUME MarkWaitingInput(r) PROVE RowTypes'
  BY <1>3 DEF RowTypes, MarkWaitingInput, RunStatus, Busy
<1>4. ASSUME NEW o \in Ended, EndParked(r, o) PROVE RowTypes'
  BY <1>4 DEF RowTypes, EndParked, RunStatus
<1> QED  BY <1>1, <1>2, <1>3, <1>4

(* Handing messages to a run keeps the history typed. *)
LEMMA HandType ==
  ASSUME got \in [Msgs -> SUBSET RunIds], NEW r \in RunIds, NEW ms
  PROVE  Hand(ms, r) \in [Msgs -> SUBSET RunIds]
BY DEF Hand

-----------------------------------------------------------------------------
(* Type correctness.                                                         *)

(* Every way a handler writes its request keeps it well formed. *)
LEMMA RequestForms ==
  /\ Idle \in Request
  /\ [Idle EXCEPT !.pc = "kick"] \in Request
  /\ \A m \in Msgs : [Idle EXCEPT !.pc = "accept", !.msg = m] \in Request
  /\ \A m \in Msgs, r \in RunIds, b \in BOOLEAN, c \in {"begun", "resume"} :
       [pc |-> c, msg |-> m, run |-> r, fresh |-> b] \in Request
  /\ \A q \in Request, r \in RunIds :
       q.pc = "accept" => [q EXCEPT !.pc = "begun", !.run = r] \in Request
  /\ \A q \in Request : q.pc = "begun" => [q EXCEPT !.pc = "claimed"] \in Request
  /\ \A q \in Request :
       /\ q.pc \in {"accept", "begun", "claimed", "resume"} => q.msg \in Msgs
       /\ q.pc \in {"begun", "claimed", "resume"} => q.run \in RunIds
       /\ q.fresh \in BOOLEAN
<1>1. Idle \in Request /\ [Idle EXCEPT !.pc = "kick"] \in Request
  BY DEF Idle, Request
<1>2. \A m \in Msgs : [Idle EXCEPT !.pc = "accept", !.msg = m] \in Request
  BY DEF Idle, Request
<1>3. \A m \in Msgs, r \in RunIds, b \in BOOLEAN, c \in {"begun", "resume"} :
        [pc |-> c, msg |-> m, run |-> r, fresh |-> b] \in Request
  BY DEF Request
<1>4. \A q \in Request, r \in RunIds :
        q.pc = "accept" => [q EXCEPT !.pc = "begun", !.run = r] \in Request
  BY DEF Request
<1>5. \A q \in Request : q.pc = "begun" => [q EXCEPT !.pc = "claimed"] \in Request
  BY DEF Request
<1> QED  BY <1>1, <1>2, <1>3, <1>4, <1>5 DEF Request

(* The transaction that starts a run inserts a well-typed row. *)
LEMMA BeginCreatedType ==
  ASSUME TypeOK, NEW p \in Posts, BeginCreated(p)
  PROVE  TypeOK'
<1> DEFINE st == StopTakeover(runStatus)
<1> USE DEF TypeOK
<1>1. st \in [RunIds -> RunStatus] /\ Supersede(st) \in [RunIds -> RunStatus]
  BY SendTypes
<1>2. runCount + 1 \in RunIds /\ runCount' \in 0..MaxRuns
  BY BoundsAssumption DEF BeginCreated, RunIds
<1>3. runStatus' \in [RunIds -> RunStatus] /\ dispatch' \in [RunIds -> {"none", "pending", "claimed"}]
  BY <1>1, <1>2 DEF BeginCreated, RunStatus, Busy
<1>4. req[p].msg \in Msgs /\ req[p].pc = "accept"
  BY RequestForms DEF BeginCreated
<1>5. req' \in [Posts -> Request]
  BY <1>2, <1>4, RequestForms DEF BeginCreated
<1>6. ask' \in [RunIds -> {"none", "pending", "answered"}]
  BY AnswerPendingAsksType DEF BeginCreated
<1>7. cmdRun' \in [Commands -> RunIds \cup {NoRun}]
  BY <1>2 DEF BeginCreated, RecordCommand
<1>8. posted' \subseteq Msgs
  BY <1>4 DEF BeginCreated
<1> QED  BY <1>2, <1>3, <1>5, <1>6, <1>7, <1>8 DEF BeginCreated

(* The follow-up of _kick_inbox, whoever calls it. *)
FollowUpTypes ==
  /\ runCount \in 0..MaxRuns
  /\ RowTypes
  /\ cmdRun \in [Commands -> RunIds \cup {NoRun}]
  /\ got \in [Msgs -> SUBSET RunIds]
  /\ inbox \subseteq Msgs
  /\ held \in BOOLEAN
  /\ task \in [RunIds -> {"none", "live", "cancelling", "stopped", "kick", "dying"}]

(* claim_inbox_follow_up does, too. *)
LEMMA FollowUpType ==
  ASSUME TypeOK, NEW rest \in [RunIds -> {"none", "live", "cancelling", "stopped", "kick", "dying"}],
         ClaimInboxFollowUp(rest)
  PROVE  FollowUpTypes'
<1>1. CASE BusyRuns(runStatus) = {} /\ inbox # {}
  <2>1. runCount + 1 \in RunIds /\ runCount' \in 0..MaxRuns
    BY <1>1, BoundsAssumption DEF ClaimInboxFollowUp, TypeOK, RunIds
  <2>2. got' \in [Msgs -> SUBSET RunIds]
    BY <1>1, <2>1, HandType DEF ClaimInboxFollowUp, TypeOK
  <2>3. /\ RowTypes'
        /\ held' \in BOOLEAN /\ inbox' \subseteq Msgs
    <3>1. held' = FALSE /\ inbox' = {} /\ botStatus' = "running"
      BY <1>1 DEF ClaimInboxFollowUp
    <3>2. runStatus' \in [RunIds -> RunStatus]
      BY <1>1, <2>1 DEF ClaimInboxFollowUp, TypeOK, RunStatus, Busy
    <3> QED  BY <3>1, <3>2 DEF RowTypes
  <2>4. cmdRun' \in [Commands -> RunIds \cup {NoRun}]
    BY <1>1, <2>1 DEF ClaimInboxFollowUp, TypeOK
  <2>5. task' \in [RunIds -> {"none", "live", "cancelling", "stopped", "kick", "dying"}]
    BY <1>1, <2>1 DEF ClaimInboxFollowUp
  <2> QED  BY <2>1, <2>2, <2>3, <2>4, <2>5 DEF FollowUpTypes
<1>2. CASE ~(BusyRuns(runStatus) = {} /\ inbox # {})
  BY <1>2 DEF ClaimInboxFollowUp, FollowUpTypes, RowTypes, TypeOK
<1> QED  BY <1>1, <1>2

(* Every step keeps the types. *)
LEMMA TypeStep ==
  ASSUME TypeOK, [Next]_vars
  PROVE  TypeOK'
<1> USE DEF TypeOK, durable, volatile, history
<1>1. ASSUME NEW p \in Posts, NEW c \in Commands, SendCommand(p, c) PROVE TypeOK'
  <2>1. req' \in [Posts -> Request]
    <3>1. [Idle EXCEPT !.pc = "accept", !.msg = c] \in Request
      BY RequestForms DEF Msgs
    <3>2. ASSUME cmdRun[c] # NoRun
          PROVE  [pc |-> "resume", msg |-> c, run |-> cmdRun[c], fresh |-> FALSE] \in Request
      <4>1. cmdRun[c] \in RunIds /\ c \in Msgs
        BY <3>2 DEF Msgs
      <4> QED  BY <4>1, RequestForms
    <3>3. CASE cmdRun[c] = NoRun
      BY <1>1, <3>1, <3>3 DEF SendCommand
    <3>4. CASE cmdRun[c] # NoRun
      <4>1. req' = [req EXCEPT ![p] = [pc |-> "resume", msg |-> c, run |-> cmdRun[c],
                                       fresh |-> FALSE]]
        BY <1>1, <3>4 DEF SendCommand
      <4> QED  BY <3>2, <3>4, <4>1
    <3> QED  BY <3>3, <3>4
  <2>2. dispatch' \in [RunIds -> {"none", "pending", "claimed"}]
    BY <1>1 DEF SendCommand
  <2> QED  BY <1>1, <2>1, <2>2 DEF SendCommand
<1>2. ASSUME NEW p \in Posts, NEW n \in Notes, SendNote(p, n) PROVE TypeOK'
  BY <1>2, RequestForms DEF SendNote, Msgs
<1>3. ASSUME NEW p \in Posts, BeginReplayed(p) PROVE TypeOK'
  BY <1>3, SendTypes, RequestForms DEF BeginReplayed, BotAfterFinish
<1>4. ASSUME NEW p \in Posts, BeginQueued(p) PROVE TypeOK'
  <2> DEFINE m == req[p].msg
             st == StopTakeover(runStatus)
  <2>1. st \in [RunIds -> RunStatus] /\ ActiveRun(st) \in RunIds \cup {NoRun}
    BY SendTypes
  <2>2. m \in Msgs /\ req' \in [Posts -> Request]
    BY <1>4, RequestForms DEF BeginQueued
  <2>3. cmdRun' \in [Commands -> RunIds \cup {NoRun}]
    BY <1>4, <2>1 DEF BeginQueued, RecordCommand
  <2>4. ask' \in [RunIds -> {"none", "pending", "answered"}]
    BY <1>4, AnswerPendingAsksType DEF BeginQueued
  <2>5. inbox' \subseteq Msgs /\ posted' \subseteq Msgs
    BY <1>4, <2>2 DEF BeginQueued
  <2>6. runStatus' \in [RunIds -> RunStatus]
    BY <1>4, <2>1 DEF BeginQueued
  <2> QED  BY <1>4, <2>2, <2>3, <2>4, <2>5, <2>6 DEF BeginQueued
<1>5. ASSUME NEW p \in Posts, BeginCreated(p) PROVE TypeOK'
  BY <1>5, BeginCreatedType
<1>6. ASSUME NEW p \in Posts, ClaimDispatch(p) PROVE TypeOK'
  <2>1. req' \in [Posts -> Request]
    <3>1. [req[p] EXCEPT !.pc = "claimed"] \in Request
      BY <1>6, RequestForms DEF ClaimDispatch
    <3>2. \/ req' = [req EXCEPT ![p] = Idle]
          \/ req' = [req EXCEPT ![p] = [req[p] EXCEPT !.pc = "claimed"]]
      BY <1>6 DEF ClaimDispatch
    <3> QED  BY <3>1, <3>2, RequestForms
  <2>2. dispatch' \in [RunIds -> {"none", "pending", "claimed"}]
    BY <1>6 DEF ClaimDispatch
  <2> QED  BY <1>6, <2>1, <2>2 DEF ClaimDispatch
<1>7. ASSUME NEW p \in Posts, StartClaimedTurn(p) PROVE TypeOK'
  BY <1>7, HandType, RequestForms DEF StartClaimedTurn
<1>8. ASSUME NEW p \in Posts, ResumePendingDispatch(p) PROVE TypeOK'
  BY <1>8, HandType, RequestForms DEF ResumePendingDispatch
<1>9. ASSUME NEW p \in Posts, AgentFails(p) PROVE TypeOK'
  BY <1>9, RequestForms DEF AgentFails
<1>10. ASSUME NEW p \in Posts, KickAfterDeny(p) PROVE TypeOK'
  BY <1>10, FollowUpType, RequestForms DEF KickAfterDeny, FollowUpTypes, RowTypes
<1>11. ASSUME KickAfterBoot PROVE TypeOK'
  BY <1>11, FollowUpType, RequestForms DEF KickAfterBoot, FollowUpTypes, RowTypes
<1>12. ASSUME NEW r \in RunIds, KickAfterTurn(r) PROVE TypeOK'
  BY <1>12, FollowUpType, RequestForms DEF KickAfterTurn, FollowUpTypes, RowTypes
<1>13. ASSUME NEW r \in RunIds, KickFails(r) PROVE TypeOK'
  <2>1. bootKick' \in BOOLEAN
    BY <1>13, Zenon DEF KickFails
  <2>2. task' \in [RunIds -> {"none", "live", "cancelling", "stopped", "kick", "dying"}]
    BY <1>13 DEF KickFails
  <2> QED  BY <1>13, <2>1, <2>2 DEF KickFails
<1>14. ASSUME NEW r \in RunIds, NEW o \in Outcomes, TurnEnds(r, o) PROVE TypeOK'
  BY <1>14, StatusWriterTypes, BoundsAssumption DEF TurnEnds, RowTypes, TaskUnchanged
<1>15. ASSUME NEW r \in RunIds, TurnUnwinds(r) PROVE TypeOK'
  BY <1>15, StatusWriterTypes DEF TurnUnwinds, RowTypes, TaskUnchanged
<1>16. ASSUME NEW r \in RunIds, NEW o \in Outcomes, DyingTurnEnds(r, o) PROVE TypeOK'
  BY <1>16, StatusWriterTypes, BoundsAssumption DEF DyingTurnEnds, RowTypes, TaskUnchanged
<1>17. ASSUME NEW r \in RunIds, RecoverRun(r) PROVE TypeOK'
  BY <1>17 DEF RecoverRun, ClassifyOrphan, RunStatus, Busy
<1>18. ASSUME BootStarts PROVE TypeOK'
  BY <1>18 DEF BootStarts
<1>19. ASSUME BootEnds PROVE TypeOK'
  BY <1>19 DEF BootEnds
<1>20. ASSUME NEW r \in RunIds, ToolStarts(r) PROVE TypeOK'
  BY <1>20 DEF ToolStarts
<1>21. ASSUME NEW r \in RunIds, PlainTool(r) PROVE TypeOK'
  BY <1>21 DEF PlainTool
<1>22. ASSUME NEW r \in RunIds, PostOptions(r) PROVE TypeOK'
  BY <1>22 DEF PostOptions
<1>23. ASSUME NEW r \in RunIds, TakeOwnerSteer(r) PROVE TypeOK'
  BY <1>23, HandType DEF TakeOwnerSteer
<1>24. ASSUME NEW r \in RunIds, AskPost(r) PROVE TypeOK'
  BY <1>24 DEF AskPost
<1>25. ASSUME NEW r \in RunIds, AskActivate(r) PROVE TypeOK'
  BY <1>25, StatusWriterTypes DEF AskActivate, RowTypes
<1>26. ASSUME NEW r \in RunIds, AskWakes(r) PROVE TypeOK'
  BY <1>26 DEF AskWakes
<1>27. ASSUME NEW r \in RunIds, AskTimesOut(r) PROVE TypeOK'
  BY <1>27, StatusWriterTypes DEF AskTimesOut, RowTypes
<1>28. ASSUME NEW r \in RunIds, ConsentOffer(r) PROVE TypeOK'
  BY <1>28 DEF ConsentOffer
<1>29. ASSUME NEW r \in RunIds, ConsentWait(r) PROVE TypeOK'
  BY <1>29, StatusWriterTypes DEF ConsentWait, RowTypes
<1>30. ASSUME NEW r \in RunIds, ConsentReturns(r) PROVE TypeOK'
  BY <1>30, StatusWriterTypes DEF ConsentReturns, RowTypes
<1>31. ASSUME NEW r \in RunIds, TakeoverMark(r) PROVE TypeOK'
  BY <1>31 DEF TakeoverMark, RunStatus, Busy
<1>32. ASSUME NEW r \in RunIds, TakeoverCancelTask(r) PROVE TypeOK'
  BY <1>32 DEF TakeoverCancelTask
<1>33. ASSUME NEW r \in RunIds, AnswerLive(r) PROVE TypeOK'
  BY <1>33, StatusWriterTypes DEF AnswerLive, RowTypes
<1>34. ASSUME NEW p \in Posts, NEW r \in RunIds, AnswerParked(p, r) PROVE TypeOK'
  BY <1>34, StatusWriterTypes, RequestForms DEF AnswerParked, RowTypes, Ended, Msgs
<1>35. ASSUME NEW r \in RunIds, NEW d \in {"allow", "deny"}, AnswerConsentLive(r, d)
      PROVE  TypeOK'
  BY <1>35 DEF AnswerConsentLive
<1>36. ASSUME NEW p \in Posts, NEW r \in RunIds, NEW d \in {"allow", "deny"}, AnswerConsentParked(p, r, d)
      PROVE  TypeOK'
  BY <1>36, StatusWriterTypes, RequestForms DEF AnswerConsentParked, RowTypes, Ended, Msgs
<1>37. ASSUME NEW r \in RunIds, NewAttempt(r) PROVE TypeOK'
  BY <1>37, StatusWriterTypes DEF NewAttempt, RowTypes, Ended
<1>38. ASSUME ReleaseTakeover PROVE TypeOK'
  BY <1>38, StatusWriterTypes, LatestIn, BusyRunsAreRuns DEF ReleaseTakeover, RowTypes
<1>39. ASSUME Stop PROVE TypeOK'
  BY <1>39, BoundsAssumption DEF Stop, RunStatus, Ended
<1>40. ASSUME Shutdown PROVE TypeOK'
  BY <1>40 DEF Shutdown
<1>41. ASSUME ProcessEnds PROVE TypeOK'
  <2>1. crashes' \in 0..MaxCrashes
    BY <1>41, BoundsAssumption DEF ProcessEnds
  <2>2. req' \in [Posts -> Request]
    BY <1>41, RequestForms DEF ProcessEnds
  <2>3. task' \in [RunIds -> {"none", "live", "cancelling", "stopped", "kick", "dying"}]
    BY <1>41 DEF ProcessEnds
  <2> QED  BY <1>41, <2>1, <2>2, <2>3 DEF ProcessEnds
<1>42. ASSUME UNCHANGED vars PROVE TypeOK'
  BY <1>42 DEF vars
<1> QED
  BY <1>1, <1>2, <1>3, <1>4, <1>5, <1>6, <1>7, <1>8, <1>9, <1>10, <1>11, <1>12, <1>13, <1>14,
     <1>15, <1>16, <1>17, <1>18, <1>19, <1>20, <1>21, <1>22, <1>23, <1>24, <1>25,
     <1>26, <1>27, <1>28, <1>29, <1>30, <1>31, <1>32, <1>33, <1>34, <1>35, <1>36,
     <1>37, <1>38, <1>39, <1>40, <1>41, <1>42
     DEF Next, Host, Tool, Owner, Exit

(* The types hold when the host starts with an empty database. *)
LEMMA TypeInit ==
  ASSUME Init
  PROVE  TypeOK
<1>1. runCount \in 0..MaxRuns /\ stops \in 0..MaxStops /\ crashes \in 0..MaxCrashes
  BY BoundsAssumption DEF Init
<1>2. req \in [Posts -> Request]
  BY RequestForms DEF Init
<1> QED  BY <1>1, <1>2 DEF Init, TypeOK, RunStatus

(* Every column and every in-memory table keeps its type, at any size of the *)
(* instance and with every tool and fault enabled.                           *)
THEOREM TypeCorrect == Spec => []TypeOK
<1>1. Init => TypeOK
  BY TypeInit
<1>2. TypeOK /\ [Next]_vars => TypeOK'
  BY TypeStep
<1> QED  BY <1>1, <1>2, PTL DEF Spec

-----------------------------------------------------------------------------
(* One busy run, and what keeps it so.                                       *)

(* With one busy run, what a send reads after the takeover was cancelled.     *)
LEMMA StopTakeoverFacts ==
  ASSUME runStatus \in [RunIds -> RunStatus], OneBusyRun
  PROVE  /\ StopTakeover(runStatus) \in [RunIds -> RunStatus]
         /\ \A q \in RunIds : StopTakeover(runStatus)[q] =
              IF runStatus[q] = "waiting_takeover" THEN "cancelled" ELSE runStatus[q]
         /\ \A r \in RunIds : runStatus[r] = "waiting_takeover" =>
              WaitingTakeover(runStatus) = {r} /\ Latest(WaitingTakeover(runStatus)) = r
<1> DEFINE W == WaitingTakeover(runStatus)
<1>1. StopTakeover(runStatus) \in [RunIds -> RunStatus]
  BY SendTypes
<1>2. ASSUME NEW r \in RunIds, runStatus[r] = "waiting_takeover"
      PROVE  W = {r} /\ Latest(W) = r
  <2>1. \A q \in RunIds : runStatus[q] = "waiting_takeover" => q = r
    BY <1>2 DEF OneBusyRun, BusyRuns, WithStatus, Busy
  <2>2. W = {r}
    BY <1>2, <2>1 DEF WaitingTakeover, WithStatus
  <2>3. Latest(W) \in W
    BY <2>2, BusyRunsAreRuns, LatestIn
  <2> QED  BY <2>2, <2>3
<1>3. ASSUME NEW q \in RunIds
      PROVE  StopTakeover(runStatus)[q] =
               IF runStatus[q] = "waiting_takeover" THEN "cancelled" ELSE runStatus[q]
  <2>1. CASE W = {}
    <3>1. runStatus[q] # "waiting_takeover"
      BY <2>1 DEF WaitingTakeover, WithStatus
    <3> QED  BY <2>1, <3>1 DEF StopTakeover
  <2>2. CASE W # {}
    <3>1. PICK r \in RunIds : runStatus[r] = "waiting_takeover"
      BY <2>2 DEF WaitingTakeover, WithStatus
    <3>2. W = {r} /\ Latest(W) = r
      BY <1>2, <3>1
    <3>3. StopTakeover(runStatus) = [runStatus EXCEPT ![r] = "cancelled"]
      BY <3>2 DEF StopTakeover
    <3>4. runStatus[q] = "waiting_takeover" => q = r
      <4>1. ASSUME runStatus[q] = "waiting_takeover" PROVE q = r
        <5>1. W = {q}
          BY <1>2, <4>1
        <5> QED  BY <3>2, <5>1
      <4> QED  BY <4>1
    <3> HIDE DEF W
    <3> QED  BY <3>1, <3>3, <3>4
  <2> QED  BY <2>1, <2>2
<1> QED  BY <1>1, <1>2, <1>3

(* The rows after the takeover was cancelled have one busy run at most. *)
LEMMA StopTakeoverBusy ==
  ASSUME runStatus \in [RunIds -> RunStatus], OneBusyRun
  PROVE  BusyRuns(StopTakeover(runStatus)) = BusyRuns(runStatus) \ WaitingTakeover(runStatus)
<1>1. "cancelled" \notin Busy /\ "waiting_takeover" \in Busy
  BY DEF Busy
<1>2. \A q \in RunIds : StopTakeover(runStatus)[q] =
        IF runStatus[q] = "waiting_takeover" THEN "cancelled" ELSE runStatus[q]
  BY StopTakeoverFacts
<1>3. \A q \in RunIds : StopTakeover(runStatus)[q] \in Busy <=>
        runStatus[q] \in Busy /\ runStatus[q] # "waiting_takeover"
  BY <1>1, <1>2
<1> QED  BY <1>3 DEF BusyRuns, WithStatus, WaitingTakeover

(* Without the takeover tool no run waits for takeover. *)
NoTakeover == \A r \in RunIds : runStatus[r] # "waiting_takeover" /\ tool[r] # "marked"

LEMMA NoTakeoverFacts ==
  ASSUME TakeoverIsOwn, "takeover" \notin Tools
  PROVE  NoTakeover /\ WaitingTakeover(runStatus) = {} /\ StopTakeover(runStatus) = runStatus
BY DEF NoTakeover, TakeoverIsOwn, WaitingTakeover, WithStatus, StopTakeover

(* A step that rewrites the request of p changes only what p is starting. *)
LEMMA StartingAfter ==
  ASSUME req \in [Posts -> Request], NEW p \in Posts, NEW x, req' = [req EXCEPT ![p] = x]
  PROVE  \A q \in Posts, r \in RunIds :
           Starting(q, r)' => \/ q = p /\ x.pc \in {"claimed", "resume"} /\ x.run = r
                              \/ q # p /\ Starting(q, r)
BY DEF Starting

(* The same when the request leaves the part that starts a turn. *)
LEMMA StartingShrinks ==
  ASSUME req \in [Posts -> Request], NEW p \in Posts, NEW x, x.pc \notin {"claimed", "resume"},
         req' = [req EXCEPT ![p] = x]
  PROVE  \A q \in Posts, r \in RunIds : Starting(q, r)' => Starting(q, r) /\ q # p
BY StartingAfter

(* The same when the request is done. *)
LEMMA StartingDone ==
  ASSUME req \in [Posts -> Request], NEW p \in Posts, req' = [req EXCEPT ![p] = Idle]
  PROVE  \A q \in Posts, r \in RunIds : Starting(q, r)' => Starting(q, r) /\ q # p
<1>1. Idle.pc \notin {"claimed", "resume"}
  BY DEF Idle
<1> QED  BY <1>1, StartingShrinks

(* A send that starts a run leaves no other run busy, and touches only the *)
(* parked run it supersedes.                                               *)
LEMMA SupersedeClears ==
  ASSUME runStatus \in [RunIds -> RunStatus], OneBusyRun,
         ActiveRun(StopTakeover(runStatus)) = NoRun, NEW q \in RunIds
  PROVE  /\ Supersede(StopTakeover(runStatus))[q] \notin Busy
         /\ \/ Supersede(StopTakeover(runStatus))[q] = runStatus[q]
            \/ /\ runStatus[q] \in Superseded
               /\ Supersede(StopTakeover(runStatus))[q] = "cancelled"
<1> DEFINE st == StopTakeover(runStatus)
           B == BusyRuns(st)
<1>0. /\ st \in [RunIds -> RunStatus]
      /\ \/ st[q] = runStatus[q]
         \/ runStatus[q] \in Superseded /\ st[q] = "cancelled"
  BY StopTakeoverFacts DEF Superseded
<1>1. CASE B = {}
  <2>1. Supersede(st) = st /\ st[q] \notin Busy
    BY <1>1 DEF Supersede, BusyRuns, WithStatus
  <2> QED  BY <1>0, <2>1
<1>2. CASE B # {}
  <2>1. Latest(B) \in B /\ B \subseteq RunIds
    BY <1>2, BusyRunsAreRuns, LatestIn
  <2>2. st[Latest(B)] \in Superseded
    BY <1>2, <2>1, BoundsAssumption DEF ActiveRun, NoRun, RunIds
  <2>3. \A b \in B : b = Latest(B)
    <3>1. B \subseteq BusyRuns(runStatus)
      BY StopTakeoverBusy
    <3> HIDE DEF B
    <3> QED  BY <2>1, <3>1 DEF OneBusyRun
  <2>4. Supersede(st) = [st EXCEPT ![Latest(B)] = "cancelled"]
    BY <1>2, <2>2 DEF Supersede
  <2>5. "cancelled" \notin Busy /\ "cancelled" \notin Superseded
    BY DEF Busy, Superseded
  <2>6. q # Latest(B) => st[q] \notin Busy
    BY <2>3 DEF BusyRuns, WithStatus
  <2>7. CASE q = Latest(B)
    <3>1. Supersede(st)[q] = "cancelled"
      BY <1>0, <2>4, <2>7
    <3>2. st[q] = runStatus[q]
      BY <1>0, <2>2, <2>5, <2>7
    <3> QED  BY <2>2, <2>5, <2>7, <3>1, <3>2
  <2>8. CASE q # Latest(B)
    <3>1. Supersede(st)[q] = st[q]
      BY <1>0, <2>4, <2>8
    <3> QED  BY <1>0, <2>6, <2>8, <3>1
  <2> QED  BY <2>7, <2>8
<1> QED  BY <1>1, <1>2

(* The invariant before a step and the types after it. *)
Invariants == TurnInvariant /\ TypeOK'

(* The follow-up starts a run only when none is busy; rest differs from task *)
(* at most by the caller that is done.                                       *)
LEMMA FollowUpInvariant ==
  ASSUME Invariants, NEW rest \in [RunIds -> {"none", "live", "cancelling", "stopped", "kick", "dying"}],
         \A r \in RunIds : rest[r] = task[r] \/ (task[r] = "kick" /\ rest[r] = "none"),
         ClaimInboxFollowUp(rest), phase = "up",
         \A q \in Posts, r \in RunIds : Starting(q, r)' => Starting(q, r),
         UNCHANGED <<dispatch, waitKind, recovered, consentReq, phase, todo, tool, question, waiter>>
  PROVE  TurnInvariant'
<1> USE DEF Invariants, TurnInvariant, TypeOK, RowsInserted, TakeoverIsOwn, NotStarted, ClaimedOnce,
            LiveTurn, DyingTurn, BootIsAlone, Leftover, RecoveredIsQuiet, OneBusyRun,
            BotStatusAgrees, BusyRuns, WithStatus, Busy, BotAfterFinish, durable, volatile,
            history, Up, Alive
<1>1. CASE BusyRuns(runStatus) = {} /\ inbox # {}
  <2> DEFINE n == runCount + 1
  <2>1. /\ n \in RunIds /\ n > runCount /\ runCount' = n
        /\ \A q \in RunIds : q > n => q > runCount /\ q # n
    BY <1>1, BoundsAssumption DEF ClaimInboxFollowUp, RunIds
  <2>2. /\ runStatus' = [runStatus EXCEPT ![n] = "running"] /\ botStatus' = "running"
        /\ task' = [rest EXCEPT ![n] = "live"]
    BY <1>1 DEF ClaimInboxFollowUp
  <2>3. \A q \in RunIds : runStatus[q] \notin Busy
    BY <1>1
  <2>4. RowsInserted' /\ TakeoverIsOwn'
    BY <2>1, <2>2
  <2>5. NotStarted' /\ ClaimedOnce'
    BY <2>1, <2>2
  <2>6. LiveTurn' /\ DyingTurn'
    BY <2>1, <2>2
  <2>7. BootIsAlone' /\ Leftover' /\ RecoveredIsQuiet'
    BY <2>1, <2>2
  <2>8. OneBusyRun' /\ BotStatusAgrees'
    BY <2>1, <2>2, <2>3
  <2> QED  BY <2>4, <2>5, <2>6, <2>7, <2>8
<1>2. CASE ~(BusyRuns(runStatus) = {} /\ inbox # {})
  <2>1. task' = rest /\ UNCHANGED <<runCount, runStatus, botStatus>>
    BY <1>2 DEF ClaimInboxFollowUp
  <2> QED  BY <2>1
<1> QED  BY <1>1, <1>2

(* Every step keeps the invariant. *)
LEMMA InvariantStep ==
  ASSUME TakeoverIsAlone, TurnInvariant, [Next]_vars
  PROVE  TurnInvariant'
<1>0. Invariants
  BY TypeStep DEF TurnInvariant, Invariants
<1>a. /\ StopTakeover(runStatus) \in [RunIds -> RunStatus]
      /\ \A q \in RunIds : StopTakeover(runStatus)[q] =
           IF runStatus[q] = "waiting_takeover" THEN "cancelled" ELSE runStatus[q]
      /\ \A r \in RunIds : runStatus[r] = "waiting_takeover" =>
           WaitingTakeover(runStatus) = {r} /\ Latest(WaitingTakeover(runStatus)) = r
  BY StopTakeoverFacts DEF TurnInvariant, TypeOK
<1>s. "takeover" \in Tools =>
        MaxStops = 0 /\ "midtool" \notin Faults /\ "shutdown" \notin Faults
  BY DEF TakeoverIsAlone
<1>b. req \in [Posts -> Request]
  BY <1>0 DEF Invariants, TurnInvariant, TypeOK
<1> USE DEF Invariants, TurnInvariant, TypeOK, RowsInserted, TakeoverIsOwn, NotStarted, ClaimedOnce,
            LiveTurn, DyingTurn, BootIsAlone, Leftover, RecoveredIsQuiet, OneBusyRun,
            BotStatusAgrees, BusyRuns, WithStatus, Busy, BotAfterFinish, durable, volatile,
            history, Up, Alive
<1>1. ASSUME NEW p \in Posts, NEW c \in Commands, SendCommand(p, c) PROVE TurnInvariant'
  <2>1. CASE cmdRun[c] = NoRun
    <3> DEFINE x == [Idle EXCEPT !.pc = "accept", !.msg = c]
    <3>1. req' = [req EXCEPT ![p] = x] /\ x.pc = "accept"
      BY <1>1, <2>1 DEF SendCommand, Idle
    <3> HIDE DEF x
    <3>2. \A q \in Posts, r \in RunIds : Starting(q, r)' => Starting(q, r) /\ q # p
      BY <1>b, <3>1, StartingShrinks
    <3> QED  BY <1>0, <1>1, <2>1, <3>2 DEF SendCommand
  <2>2. CASE cmdRun[c] # NoRun
    <3> DEFINE x == [pc |-> "resume", msg |-> c, run |-> cmdRun[c], fresh |-> FALSE]
    <3>1. req' = [req EXCEPT ![p] = x] /\ x.pc = "resume" /\ x.run = cmdRun[c]
      BY <1>1, <2>2 DEF SendCommand
    <3>2. \A q \in Posts, r \in RunIds : Starting(q, r)' =>
            (q = p /\ r = cmdRun[c]) \/ (q # p /\ Starting(q, r))
      <4> HIDE DEF x
      <4> QED  BY <1>b, <3>1, StartingAfter
    <3>3. dispatch[cmdRun[c]] = "pending" /\ dispatch' = [dispatch EXCEPT ![cmdRun[c]] = "claimed"]
      BY <1>1, <2>2 DEF SendCommand
    <3> HIDE DEF x
    <3> QED  BY <1>0, <1>1, <2>2, <3>2, <3>3 DEF SendCommand
  <2> QED  BY <2>1, <2>2
<1>2. ASSUME NEW p \in Posts, NEW n \in Notes, SendNote(p, n) PROVE TurnInvariant'
  BY <1>0, <1>2 DEF SendNote, Starting
<1>3. ASSUME NEW p \in Posts, BeginReplayed(p) PROVE TurnInvariant'
  <2> DEFINE x == IF req[p].msg \in inbox THEN Idle
                  ELSE [req[p] EXCEPT !.pc = "begun", !.run = cmdRun[req[p].msg]]
  <2>1. req' = [req EXCEPT ![p] = x]
    BY <1>3 DEF BeginReplayed
  <2>2. x.pc \notin {"claimed", "resume"}
    BY <1>0 DEF Idle, Request
  <2>3. \A q \in Posts, t \in RunIds : Starting(q, t)' => Starting(q, t) /\ q # p
    <3> HIDE DEF x
    <3> QED  BY <1>0, <2>1, <2>2, StartingShrinks
  <2> DEFINE st == StopTakeover(runStatus)
  <2>4. st \in [RunIds -> RunStatus] /\ runStatus' = st
    BY <1>a, <1>3 DEF BeginReplayed
  <2>5. \A q \in RunIds : st[q] = IF runStatus[q] = "waiting_takeover" THEN "cancelled" ELSE runStatus[q]
    BY <1>a
  <2>6. phase = "up" /\ UNCHANGED <<runCount, dispatch, waitKind, recovered, consentReq, phase,
                                    todo, task, tool, question, waiter>>
    BY <1>3 DEF BeginReplayed
  <2>7. BotStatusAgrees'
    <3>1. botStatus' = IF st = runStatus THEN botStatus ELSE BotAfterFinish(st, NoRun, "cancelled")
      BY <1>3 DEF BeginReplayed
    <3>2. NoRun \notin RunIds
      BY BoundsAssumption DEF NoRun, RunIds
    <3> HIDE DEF st
    <3> QED  BY <1>0, <2>4, <3>1, <3>2
  <2> HIDE DEF st
  <2>8. RowsInserted' /\ TakeoverIsOwn' /\ NotStarted' /\ ClaimedOnce'
    BY <1>0, <2>3, <2>4, <2>5, <2>6
  <2>9. LiveTurn' /\ DyingTurn' /\ BootIsAlone' /\ Leftover' /\ RecoveredIsQuiet' /\ OneBusyRun'
    BY <1>0, <2>4, <2>5, <2>6
  <2> QED  BY <1>0, <2>7, <2>8, <2>9
<1>4. ASSUME NEW p \in Posts, BeginQueued(p) PROVE TurnInvariant'
  <2>1. \A q \in Posts, t \in RunIds : Starting(q, t)' => Starting(q, t) /\ q # p
    BY <1>b, <1>4, StartingDone DEF BeginQueued
  <2> DEFINE st == StopTakeover(runStatus)
  <2>4. st \in [RunIds -> RunStatus] /\ runStatus' = st
    BY <1>a, <1>4 DEF BeginQueued
  <2>5. \A q \in RunIds : st[q] = IF runStatus[q] = "waiting_takeover" THEN "cancelled" ELSE runStatus[q]
    BY <1>a
  <2>6. /\ phase = "up" /\ UNCHANGED <<runCount, dispatch, waitKind, recovered, consentReq, phase,
                                       todo, task, tool, question, waiter>>
        /\ botStatus' = IF st = runStatus THEN botStatus ELSE "running"
    BY <1>4 DEF BeginQueued
  <2> HIDE DEF st
  <2>7. BotStatusAgrees'
    BY <1>0, <2>4, <2>6
  <2>8. RowsInserted' /\ TakeoverIsOwn' /\ NotStarted' /\ ClaimedOnce'
    BY <1>0, <2>1, <2>4, <2>5, <2>6
  <2>9. LiveTurn' /\ DyingTurn' /\ BootIsAlone' /\ Leftover' /\ RecoveredIsQuiet' /\ OneBusyRun'
    BY <1>0, <2>4, <2>5, <2>6
  <2> QED  BY <1>0, <2>7, <2>8, <2>9
<1>5. ASSUME NEW p \in Posts, BeginCreated(p) PROVE TurnInvariant'
  <2> DEFINE n == runCount + 1
             st == Supersede(StopTakeover(runStatus))
  <2>1. /\ n \in RunIds /\ n > runCount /\ runCount' = n
        /\ \A q \in RunIds : q > n => q > runCount /\ q # n
    BY <1>0, <1>5, BoundsAssumption DEF BeginCreated, RunIds
  <2>2. \A q \in Posts, t \in RunIds : Starting(q, t)' => Starting(q, t) /\ q # p
    <3> DEFINE x == [pc |-> "begun", msg |-> req[p].msg, run |-> n, fresh |-> TRUE]
    <3>1. req' = [req EXCEPT ![p] = x] /\ x.pc = "begun"
      BY <1>5 DEF BeginCreated
    <3> HIDE DEF x
    <3> QED  BY <1>b, <3>1, StartingShrinks
  <2>3. \A q \in RunIds : /\ st[q] \notin Busy
                          /\ \/ st[q] = runStatus[q]
                             \/ runStatus[q] \in Superseded /\ st[q] = "cancelled"
    <3>1. ActiveRun(StopTakeover(runStatus)) = NoRun /\ runStatus \in [RunIds -> RunStatus] /\ OneBusyRun
      BY <1>0, <1>5 DEF BeginCreated
    <3> QED  BY <3>1, SupersedeClears
  <2>4. st \in [RunIds -> RunStatus] /\ runStatus' = [st EXCEPT ![n] = "running"]
    BY <1>a, <1>5, SendTypes DEF BeginCreated
  <2>5. dispatch' = [dispatch EXCEPT ![n] = "pending"] /\ botStatus' = "running" /\ phase = "up"
    BY <1>5 DEF BeginCreated
  <2>6. UNCHANGED <<waitKind, recovered, consentReq, phase, todo, task, tool, question, waiter>>
    BY <1>5 DEF BeginCreated
  <2> HIDE DEF st
  <2>b. \A q \in RunIds : /\ runStatus'[q] # "waiting_takeover"
                          /\ q # n => runStatus[q] # "running"
    <3>1. ASSUME NEW q \in RunIds, q # n
          PROVE  runStatus'[q] # "waiting_takeover" /\ runStatus[q] # "running"
      <4>1. runStatus'[q] = st[q]
        BY <2>4, <3>1
      <4>2. st[q] \notin Busy /\ (st[q] = runStatus[q] \/ runStatus[q] \in Superseded)
        BY <2>3
      <4>3. runStatus[q] = "running" => runStatus[q] \in Busy /\ runStatus[q] \notin Superseded
        BY DEF Superseded
      <4> HIDE DEF n
      <4> QED  BY <4>1, <4>2, <4>3
    <3>2. runStatus'[n] = "running"
      BY <2>1, <2>4
    <3> HIDE DEF n
    <3> QED  BY <3>1, <3>2
  <2>7. RowsInserted' /\ TakeoverIsOwn'
    <3>1. RowsInserted'
      BY <1>0, <2>1, <2>3, <2>4, <2>5, <2>6 DEF Superseded
    <3>2. task[n] = "none" /\ tool[n] = "none"
      BY <1>0, <2>1
    <3>3. TakeoverIsOwn'
      <4> HIDE DEF n
      <4> QED  BY <1>0, <2>6, <2>b, <3>2
    <3> QED  BY <3>1, <3>3
  <2>8. NotStarted' /\ ClaimedOnce'
    BY <1>0, <2>1, <2>2, <2>3, <2>4, <2>5, <2>6 DEF Superseded
  <2>a. \A q \in RunIds : task[q] # "none" =>
          /\ q # n
          /\ \/ runStatus'[q] = runStatus[q] /\ runStatus[q] \notin Superseded
             \/ runStatus[q] \in Superseded /\ runStatus'[q] = "cancelled"
          /\ dispatch'[q] = dispatch[q]
    BY <1>0, <2>1, <2>3, <2>4, <2>5 DEF Superseded
  <2>9. LiveTurn' /\ DyingTurn'
    <3>1. LiveTurn'
      BY <1>0, <2>6, <2>a DEF Superseded
    <3>2. DyingTurn'
      BY <1>0, <2>5, <2>6, <2>a DEF Superseded
    <3> QED  BY <3>1, <3>2
  <2>10. BootIsAlone' /\ Leftover' /\ RecoveredIsQuiet'
    BY <1>0, <2>5, <2>6
  <2>11. OneBusyRun' /\ BotStatusAgrees'
    BY <1>0, <2>1, <2>3, <2>4, <2>5
  <2> QED  BY <1>0, <2>7, <2>8, <2>9, <2>10, <2>11
<1>6. ASSUME NEW p \in Posts, ClaimDispatch(p) PROVE TurnInvariant'
  <2> DEFINE n == req[p].run
  <2>1. CASE dispatch[n] = "pending"
    <3> DEFINE x == [req[p] EXCEPT !.pc = "claimed"]
    <3>1. req' = [req EXCEPT ![p] = x] /\ x.run = n /\ n \in RunIds
      BY <1>0, <1>6, <2>1 DEF ClaimDispatch, Request
    <3>2. \A q \in Posts, t \in RunIds : Starting(q, t)' =>
            (q = p /\ t = n) \/ (q # p /\ Starting(q, t))
      <4>1. x.pc = "claimed"
        BY <1>b DEF Request
      <4> HIDE DEF x, n
      <4> QED  BY <1>b, <3>1, <4>1, StartingAfter
    <3>3. dispatch' = [dispatch EXCEPT ![n] = "claimed"]
      BY <1>6, <2>1 DEF ClaimDispatch
    <3> HIDE DEF n, x
    <3> QED  BY <1>0, <1>6, <2>1, <3>1, <3>2, <3>3 DEF ClaimDispatch
  <2>2. CASE dispatch[n] # "pending"
    <3>1. \A q \in Posts, t \in RunIds : Starting(q, t)' => Starting(q, t) /\ q # p
      BY <1>b, <1>6, <2>2, StartingDone DEF ClaimDispatch
    <3> QED  BY <1>0, <1>6, <2>2, <3>1 DEF ClaimDispatch
  <2> QED  BY <2>1, <2>2
<1>7. ASSUME NEW p \in Posts, StartClaimedTurn(p) PROVE TurnInvariant'
  <2>1. PICK n \in RunIds : n = req[p].run /\ Starting(p, n)
    BY <1>b, <1>7 DEF StartClaimedTurn, Starting, Request
  <2>2. \A q \in Posts, t \in RunIds : Starting(q, t)' => Starting(q, t) /\ q # p
    BY <1>b, <1>7, StartingDone DEF StartClaimedTurn
  <2>3. task' = [task EXCEPT ![n] = "live"]
    BY <1>7, <2>1 DEF StartClaimedTurn
  <2>4. /\ consentReq[n] = "none" /\ ~recovered[n] /\ runStatus[n] \in {"running", "cancelled"}
        /\ dispatch[n] = "claimed"
    BY <1>0, <2>1
  <2>5. \A q \in Posts : ~Starting(q, n)'
    BY <1>0, <2>1, <2>2
  <2>6. ~(n > runCount)
    BY <1>0, <2>4
  <2>7. /\ phase = "up"
        /\ UNCHANGED <<runCount, runStatus, dispatch, waitKind, recovered, consentReq, botStatus,
                       phase, todo, tool, question, waiter>>
    BY <1>7 DEF StartClaimedTurn
  <2>8. RowsInserted' /\ TakeoverIsOwn' /\ NotStarted' /\ ClaimedOnce'
    BY <1>0, <2>1, <2>2, <2>3, <2>4, <2>5, <2>6, <2>7
  <2>9. LiveTurn' /\ DyingTurn' /\ BootIsAlone' /\ Leftover' /\ RecoveredIsQuiet'
    BY <1>0, <2>1, <2>3, <2>4, <2>7
  <2> QED  BY <1>0, <2>7, <2>8, <2>9
<1>8. ASSUME NEW p \in Posts, ResumePendingDispatch(p) PROVE TurnInvariant'
  <2>1. PICK n \in RunIds : n = req[p].run /\ Starting(p, n)
    BY <1>b, <1>8 DEF ResumePendingDispatch, Starting, Request
  <2>2. \A q \in Posts, t \in RunIds : Starting(q, t)' => Starting(q, t) /\ q # p
    BY <1>b, <1>8, StartingDone DEF ResumePendingDispatch
  <2>3. task' = [task EXCEPT ![n] = "live"]
    BY <1>8, <2>1 DEF ResumePendingDispatch
  <2>4. /\ consentReq[n] = "none" /\ ~recovered[n] /\ runStatus[n] \in {"running", "cancelled"}
        /\ dispatch[n] = "claimed"
    BY <1>0, <2>1
  <2>5. \A q \in Posts : ~Starting(q, n)'
    BY <1>0, <2>1, <2>2
  <2>6. ~(n > runCount)
    BY <1>0, <2>4
  <2>7. /\ phase = "up"
        /\ UNCHANGED <<runCount, runStatus, dispatch, waitKind, recovered, consentReq, botStatus,
                       phase, todo, tool, question, waiter>>
    BY <1>8 DEF ResumePendingDispatch
  <2>8. RowsInserted' /\ TakeoverIsOwn' /\ NotStarted' /\ ClaimedOnce'
    BY <1>0, <2>1, <2>2, <2>3, <2>4, <2>5, <2>6, <2>7
  <2>9. LiveTurn' /\ DyingTurn' /\ BootIsAlone' /\ Leftover' /\ RecoveredIsQuiet'
    BY <1>0, <2>1, <2>3, <2>4, <2>7
  <2> QED  BY <1>0, <2>7, <2>8, <2>9
<1>9. ASSUME NEW p \in Posts, AgentFails(p) PROVE TurnInvariant'
  <2>1. \A q \in Posts, t \in RunIds : Starting(q, t)' => Starting(q, t) /\ q # p
    BY <1>b, <1>9, StartingDone DEF AgentFails
  <2> QED  BY <1>0, <1>a, <1>9, <2>1 DEF AgentFails
<1>10. ASSUME NEW p \in Posts, KickAfterDeny(p) PROVE TurnInvariant'
  <2>1. \A q \in Posts, t \in RunIds : Starting(q, t)' => Starting(q, t)
    BY <1>b, <1>10, StartingDone DEF KickAfterDeny
  <2> QED  BY <1>0, <1>10, <2>1, FollowUpInvariant DEF KickAfterDeny
<1>11. ASSUME KickAfterBoot PROVE TurnInvariant'
  BY <1>0, <1>11, FollowUpInvariant DEF KickAfterBoot, Starting
<1>12. ASSUME NEW r \in RunIds, KickAfterTurn(r) PROVE TurnInvariant'
  <2> DEFINE rest == [task EXCEPT ![r] = "none"]
  <2>1. \A q \in Posts, t \in RunIds : Starting(q, t)' => Starting(q, t)
    BY <1>12 DEF KickAfterTurn, Starting
  <2>2. /\ ClaimInboxFollowUp(rest) /\ phase = "up"
        /\ UNCHANGED <<dispatch, waitKind, recovered, consentReq, phase, todo, tool, question, waiter>>
    BY <1>12 DEF KickAfterTurn
  <2>3. /\ rest \in [RunIds -> {"none", "live", "cancelling", "stopped", "kick", "dying"}]
        /\ \A q \in RunIds : rest[q] = task[q] \/ (task[q] = "kick" /\ rest[q] = "none")
    BY <1>0, <1>12 DEF KickAfterTurn
  <2> HIDE DEF Invariants, rest
  <2> QED  BY <1>0, <2>1, <2>2, <2>3, FollowUpInvariant
<1>13. ASSUME NEW r \in RunIds, KickFails(r) PROVE TurnInvariant'
  BY <1>0, <1>13 DEF KickFails, Starting
<1>14. ASSUME NEW r \in RunIds, NEW o \in Outcomes, TurnEnds(r, o) PROVE TurnInvariant'
  <2>1. o \in TurnOutcomes
    BY BoundsAssumption
  <2> QED  BY <1>0, <1>s, <1>14, <2>1 DEF TurnEnds, TaskUnchanged, LeaveParkedWait, FinishTurn, SkipFinish,
              TurnOutcomes, Starting
<1>15. ASSUME NEW r \in RunIds, TurnUnwinds(r) PROVE TurnInvariant'
  BY <1>0, <1>a, <1>15
     DEF TurnUnwinds, TaskUnchanged, LeaveParkedWait, FinishTurn, SkipFinish, Starting
<1>16. ASSUME NEW r \in RunIds, NEW o \in Outcomes, DyingTurnEnds(r, o) PROVE TurnInvariant'
  BY <1>0, <1>16 DEF DyingTurnEnds, TaskUnchanged, LeaveParkedWait, FinishTurn, SkipFinish, Starting
<1>17. ASSUME NEW r \in RunIds, RecoverRun(r) PROVE TurnInvariant'
  BY <1>0, <1>17 DEF RecoverRun, ClassifyOrphan, Starting
<1>18. ASSUME BootStarts PROVE TurnInvariant'
  BY <1>0, <1>18 DEF BootStarts, Starting
<1>19. ASSUME BootEnds PROVE TurnInvariant'
  BY <1>0, <1>19 DEF BootEnds, Starting
<1>20. ASSUME NEW r \in RunIds, ToolStarts(r) PROVE TurnInvariant'
  BY <1>0, <1>20 DEF ToolStarts, TurnCancelled, Starting
<1>21. ASSUME NEW r \in RunIds, PlainTool(r) PROVE TurnInvariant'
  BY <1>0, <1>21 DEF PlainTool, Starting
<1>22. ASSUME NEW r \in RunIds, PostOptions(r) PROVE TurnInvariant'
  BY <1>0, <1>22 DEF PostOptions, Starting
<1>23. ASSUME NEW r \in RunIds, TakeOwnerSteer(r) PROVE TurnInvariant'
  BY <1>0, <1>23 DEF TakeOwnerSteer, Starting
<1>24. ASSUME NEW r \in RunIds, AskPost(r) PROVE TurnInvariant'
  BY <1>0, <1>24 DEF AskPost, Starting
<1>25. ASSUME NEW r \in RunIds, AskActivate(r) PROVE TurnInvariant'
  BY <1>0, <1>25 DEF AskActivate, MarkWaitingInput, Starting
<1>26. ASSUME NEW r \in RunIds, AskWakes(r) PROVE TurnInvariant'
  BY <1>0, <1>26 DEF AskWakes, Starting
<1>27. ASSUME NEW r \in RunIds, AskTimesOut(r) PROVE TurnInvariant'
  BY <1>0, <1>27 DEF AskTimesOut, MarkRunning, Starting
<1>28. ASSUME NEW r \in RunIds, ConsentOffer(r) PROVE TurnInvariant'
  BY <1>0, <1>28 DEF ConsentOffer, Starting
<1>29. ASSUME NEW r \in RunIds, ConsentWait(r) PROVE TurnInvariant'
  BY <1>0, <1>29 DEF ConsentWait, MarkWaitingInput, Starting
<1>30. ASSUME NEW r \in RunIds, ConsentReturns(r) PROVE TurnInvariant'
  BY <1>0, <1>30 DEF ConsentReturns, MarkRunning, Starting
<1>31. ASSUME NEW r \in RunIds, TakeoverMark(r) PROVE TurnInvariant'
  BY <1>0, <1>31 DEF TakeoverMark, Starting
<1>32. ASSUME NEW r \in RunIds, TakeoverCancelTask(r) PROVE TurnInvariant'
  BY <1>0, <1>32 DEF TakeoverCancelTask, Starting
<1>33. ASSUME NEW r \in RunIds, AnswerLive(r) PROVE TurnInvariant'
  BY <1>0, <1>33 DEF AnswerLive, MarkRunning, Starting
<1>34. ASSUME NEW p \in Posts, NEW r \in RunIds, AnswerParked(p, r) PROVE TurnInvariant'
  BY <1>0, <1>34 DEF AnswerParked, EndParked, ParkedQuestion, Starting
<1>35. ASSUME NEW r \in RunIds, NEW d \in {"allow", "deny"}, AnswerConsentLive(r, d)
      PROVE  TurnInvariant'
  BY <1>0, <1>35 DEF AnswerConsentLive, Starting
<1>36. ASSUME NEW p \in Posts, NEW r \in RunIds, NEW d \in {"allow", "deny"}, AnswerConsentParked(p, r, d)
      PROVE  TurnInvariant'
  BY <1>0, <1>36 DEF AnswerConsentParked, EndParked, Starting
<1>37. ASSUME NEW r \in RunIds, NewAttempt(r) PROVE TurnInvariant'
  BY <1>0, <1>37 DEF NewAttempt, EndParked, Starting
<1>38. ASSUME ReleaseTakeover PROVE TurnInvariant'
  <2>1. PICK r \in RunIds : runStatus[r] = "waiting_takeover"
    BY <1>38 DEF ReleaseTakeover, WaitingTakeover
  <2>2. Latest(WaitingTakeover(runStatus)) = r
    BY <1>a, <2>1
  <2>3. /\ runStatus' = [runStatus EXCEPT ![r] = "running"] /\ botStatus' = "running"
        /\ task' = [task EXCEPT ![r] = IF @ = "none" THEN "live" ELSE @]
        /\ UNCHANGED <<runCount, dispatch, waitKind, recovered, consentReq, phase, todo, req,
                       tool, question, waiter>>
        /\ phase = "up"
    BY <1>38, <2>1, <2>2 DEF ReleaseTakeover, MarkRunning
  <2>4. \A q \in Posts, t \in RunIds : Starting(q, t)' <=> Starting(q, t)
    BY <2>3 DEF Starting
  <2>5. /\ ~recovered[r] /\ task[r] \in {"live", "cancelling", "none"} /\ ~(r > runCount)
        /\ consentReq[r] = "pending" => waiter[r]
    BY <1>0, <2>1, <2>3
  <2>6. RowsInserted' /\ TakeoverIsOwn' /\ NotStarted' /\ ClaimedOnce'
    BY <1>0, <2>1, <2>3, <2>4, <2>5
  <2>7. LiveTurn' /\ DyingTurn' /\ BootIsAlone' /\ Leftover' /\ RecoveredIsQuiet'
    BY <1>0, <2>1, <2>3, <2>5
  <2>8. OneBusyRun' /\ BotStatusAgrees'
    BY <1>0, <2>1, <2>3
  <2> QED  BY <1>0, <2>6, <2>7, <2>8
<1>39. ASSUME Stop PROVE TurnInvariant'
  BY <1>0, <1>s, <1>39, BoundsAssumption DEF Stop, Starting
<1>40. ASSUME Shutdown PROVE TurnInvariant'
  BY <1>0, <1>s, <1>40 DEF Shutdown, Starting
<1>41. ASSUME ProcessEnds PROVE TurnInvariant'
  <2>1. /\ \A p \in Posts : req'[p].pc = "idle"
        /\ \A p \in Posts, r \in RunIds : ~Starting(p, r)'
    BY <1>41 DEF ProcessEnds, Idle, Starting
  <2>2. /\ \A r \in RunIds : /\ task'[r] \in {"none", "dying"} /\ tool'[r] = "none"
                             /\ question'[r] = "none"
                             /\ task'[r] = "dying" => task[r] = "live"
        /\ todo' = {} /\ phase' = "down"
    BY <1>41 DEF ProcessEnds
  <2>3. UNCHANGED <<runCount, runStatus, dispatch, consentReq, recovered, botStatus>>
    BY <1>41 DEF ProcessEnds
  <2>4. RowsInserted' /\ TakeoverIsOwn' /\ NotStarted' /\ ClaimedOnce'
    BY <1>0, <2>1, <2>2, <2>3
  <2>5. LiveTurn' /\ DyingTurn'
    BY <1>0, <2>2, <2>3
  <2>6. BootIsAlone' /\ Leftover' /\ RecoveredIsQuiet' /\ OneBusyRun' /\ BotStatusAgrees'
    BY <1>0, <2>1, <2>2, <2>3
  <2> QED  BY <1>0, <2>4, <2>5, <2>6
<1>42. ASSUME UNCHANGED vars PROVE TurnInvariant'
  BY <1>0, <1>42 DEF vars, Starting
<1> HIDE DEF Invariants, TurnInvariant, TypeOK, RowsInserted, TakeoverIsOwn, NotStarted, ClaimedOnce,
            LiveTurn, DyingTurn, BootIsAlone, Leftover, RecoveredIsQuiet, OneBusyRun,
            BotStatusAgrees, BusyRuns, WithStatus, Busy, BotAfterFinish, durable, volatile,
            history, Up, Alive
<1> QED
  BY <1>1, <1>2, <1>3, <1>4, <1>5, <1>6, <1>7, <1>8, <1>9, <1>10, <1>11, <1>12, <1>13, <1>14,
     <1>15, <1>16, <1>17, <1>18, <1>19, <1>20, <1>21, <1>22, <1>23, <1>24, <1>25,
     <1>26, <1>27, <1>28, <1>29, <1>30, <1>31, <1>32, <1>33, <1>34, <1>35, <1>36,
     <1>37, <1>38, <1>39, <1>40, <1>41, <1>42
     DEF Next, Host, Tool, Owner, Exit

(* What a step may do to a run that is cancelled, or that was recovered. *)
StaysCancelled == \A r \in RunIds : runStatus[r] = "cancelled" => runStatus'[r] = "cancelled"

NotCompletedLate ==
  \A r \in RunIds : recovered[r] /\ runStatus'[r] # runStatus[r] =>
    \/ runStatus'[r] \in {"cancelled", "waiting_recovery"}
    \/ <<ask[r], consentReq[r]>> # <<ask'[r], consentReq'[r]>>

(* The follow-up run is a new row: no cancelled or recovered run changes. *)
LEMMA FollowUpStatus ==
  ASSUME TypeOK, RowsInserted, NEW rest, ClaimInboxFollowUp(rest)
  PROVE  StaysCancelled /\ NotCompletedLate
<1>1. CASE BusyRuns(runStatus) = {} /\ inbox # {}
  <2> DEFINE n == runCount + 1
  <2>1. /\ n \in RunIds /\ n > runCount
        /\ runStatus[n] = "none" /\ ~recovered[n]
    BY <1>1, BoundsAssumption DEF ClaimInboxFollowUp, RunIds, TypeOK, RowsInserted
  <2>2. runStatus' = [runStatus EXCEPT ![n] = "running"]
    BY <1>1 DEF ClaimInboxFollowUp
  <2> HIDE DEF n
  <2> QED  BY <2>1, <2>2 DEF StaysCancelled, NotCompletedLate, TypeOK
<1>2. CASE ~(BusyRuns(runStatus) = {} /\ inbox # {})
  BY <1>2 DEF ClaimInboxFollowUp, StaysCancelled, NotCompletedLate
<1> QED  BY <1>1, <1>2

(* No step revives a cancelled run or completes a recovered one late. *)
LEMMA StatusStep ==
  ASSUME TakeoverIsAlone, TurnInvariant, [Next]_vars
  PROVE  StaysCancelled /\ NotCompletedLate
<1>0. /\ TypeOK /\ RowsInserted /\ TakeoverIsOwn /\ RecoveredIsQuiet /\ Leftover /\ OneBusyRun
  BY DEF TurnInvariant
<1>a. /\ StopTakeover(runStatus) \in [RunIds -> RunStatus]
      /\ \A q \in RunIds : StopTakeover(runStatus)[q] =
           IF runStatus[q] = "waiting_takeover" THEN "cancelled" ELSE runStatus[q]
      /\ \A r \in RunIds : runStatus[r] = "waiting_takeover" =>
           WaitingTakeover(runStatus) = {r} /\ Latest(WaitingTakeover(runStatus)) = r
  BY <1>0, StopTakeoverFacts DEF TypeOK
<1> USE DEF StaysCancelled, NotCompletedLate, durable, volatile, history
<1>1. ASSUME NEW p \in Posts, NEW c \in Commands, SendCommand(p, c)
      PROVE  StaysCancelled /\ NotCompletedLate
  BY <1>1 DEF SendCommand
<1>2. ASSUME NEW p \in Posts, NEW n \in Notes, SendNote(p, n)
      PROVE  StaysCancelled /\ NotCompletedLate
  BY <1>2 DEF SendNote
<1>3. ASSUME NEW p \in Posts, BeginReplayed(p) PROVE StaysCancelled /\ NotCompletedLate
  BY <1>a, <1>3 DEF BeginReplayed
<1>4. ASSUME NEW p \in Posts, BeginQueued(p) PROVE StaysCancelled /\ NotCompletedLate
  BY <1>a, <1>4 DEF BeginQueued
<1>5. ASSUME NEW p \in Posts, BeginCreated(p) PROVE StaysCancelled /\ NotCompletedLate
  <2> DEFINE n == runCount + 1
             st == Supersede(StopTakeover(runStatus))
  <2>1. /\ n \in RunIds /\ n > runCount
        /\ runStatus[n] = "none" /\ ~recovered[n]
    BY <1>0, <1>5, BoundsAssumption DEF BeginCreated, RunIds, TypeOK, RowsInserted
  <2>2. \A q \in RunIds : st[q] = runStatus[q] \/ (runStatus[q] \in Superseded /\ st[q] = "cancelled")
    BY <1>0, <1>5, SupersedeClears DEF BeginCreated, TypeOK
  <2>3. st \in [RunIds -> RunStatus] /\ runStatus' = [st EXCEPT ![n] = "running"]
    BY <1>a, <1>5, SendTypes DEF BeginCreated
  <2> HIDE DEF n, st
  <2> QED  BY <2>1, <2>2, <2>3 DEF Superseded
<1>6. ASSUME NEW p \in Posts, ClaimDispatch(p) PROVE StaysCancelled /\ NotCompletedLate
  BY <1>6 DEF ClaimDispatch
<1>7. ASSUME NEW p \in Posts, StartClaimedTurn(p) PROVE StaysCancelled /\ NotCompletedLate
  BY <1>7 DEF StartClaimedTurn
<1>8. ASSUME NEW p \in Posts, ResumePendingDispatch(p) PROVE StaysCancelled /\ NotCompletedLate
  BY <1>8 DEF ResumePendingDispatch
<1>9. ASSUME NEW p \in Posts, AgentFails(p) PROVE StaysCancelled /\ NotCompletedLate
  BY <1>9 DEF AgentFails
<1>10. ASSUME NEW p \in Posts, KickAfterDeny(p) PROVE StaysCancelled /\ NotCompletedLate
  BY <1>0, <1>10, FollowUpStatus DEF KickAfterDeny
<1>11. ASSUME KickAfterBoot PROVE StaysCancelled /\ NotCompletedLate
  BY <1>0, <1>11, FollowUpStatus DEF KickAfterBoot
<1>12. ASSUME NEW r \in RunIds, KickAfterTurn(r) PROVE StaysCancelled /\ NotCompletedLate
  BY <1>0, <1>12, FollowUpStatus DEF KickAfterTurn
<1>13. ASSUME NEW r \in RunIds, KickFails(r) PROVE StaysCancelled /\ NotCompletedLate
  BY <1>13 DEF KickFails
<1>14. ASSUME NEW r \in RunIds, NEW o \in Outcomes, TurnEnds(r, o)
      PROVE  StaysCancelled /\ NotCompletedLate
  BY <1>0, <1>14, BoundsAssumption
     DEF TurnEnds, FinishTurn, SkipFinish, TaskUnchanged, TurnOutcomes, TypeOK
<1>15. ASSUME NEW r \in RunIds, TurnUnwinds(r) PROVE StaysCancelled /\ NotCompletedLate
  BY <1>0, <1>15 DEF TurnUnwinds, FinishTurn, SkipFinish, TaskUnchanged, TypeOK
<1>16. ASSUME NEW r \in RunIds, NEW o \in Outcomes, DyingTurnEnds(r, o)
      PROVE  StaysCancelled /\ NotCompletedLate
  BY <1>0, <1>16, BoundsAssumption
     DEF DyingTurnEnds, FinishTurn, SkipFinish, TaskUnchanged, TurnOutcomes, TypeOK
<1>17. ASSUME NEW r \in RunIds, RecoverRun(r) PROVE StaysCancelled /\ NotCompletedLate
  BY <1>0, <1>17 DEF RecoverRun, Leftover, TypeOK
<1>18. ASSUME BootStarts PROVE StaysCancelled /\ NotCompletedLate
  BY <1>18 DEF BootStarts
<1>19. ASSUME BootEnds PROVE StaysCancelled /\ NotCompletedLate
  BY <1>19 DEF BootEnds
<1>20. ASSUME NEW r \in RunIds, ToolStarts(r) PROVE StaysCancelled /\ NotCompletedLate
  BY <1>20 DEF ToolStarts
<1>21. ASSUME NEW r \in RunIds, PlainTool(r) PROVE StaysCancelled /\ NotCompletedLate
  BY <1>21 DEF PlainTool
<1>22. ASSUME NEW r \in RunIds, PostOptions(r) PROVE StaysCancelled /\ NotCompletedLate
  BY <1>22 DEF PostOptions
<1>23. ASSUME NEW r \in RunIds, TakeOwnerSteer(r) PROVE StaysCancelled /\ NotCompletedLate
  BY <1>23 DEF TakeOwnerSteer
<1>24. ASSUME NEW r \in RunIds, AskPost(r) PROVE StaysCancelled /\ NotCompletedLate
  BY <1>24 DEF AskPost
<1>25. ASSUME NEW r \in RunIds, AskActivate(r) PROVE StaysCancelled /\ NotCompletedLate
  BY <1>0, <1>25 DEF AskActivate, MarkWaitingInput, RecoveredIsQuiet, TypeOK
<1>26. ASSUME NEW r \in RunIds, AskWakes(r) PROVE StaysCancelled /\ NotCompletedLate
  BY <1>26 DEF AskWakes
<1>27. ASSUME NEW r \in RunIds, AskTimesOut(r) PROVE StaysCancelled /\ NotCompletedLate
  BY <1>0, <1>27 DEF AskTimesOut, MarkRunning, RecoveredIsQuiet, TypeOK
<1>28. ASSUME NEW r \in RunIds, ConsentOffer(r) PROVE StaysCancelled /\ NotCompletedLate
  BY <1>28 DEF ConsentOffer
<1>29. ASSUME NEW r \in RunIds, ConsentWait(r) PROVE StaysCancelled /\ NotCompletedLate
  BY <1>0, <1>29 DEF ConsentWait, MarkWaitingInput, RecoveredIsQuiet, TypeOK
<1>30. ASSUME NEW r \in RunIds, ConsentReturns(r) PROVE StaysCancelled /\ NotCompletedLate
  BY <1>0, <1>30 DEF ConsentReturns, MarkRunning, RecoveredIsQuiet, TypeOK
<1>31. ASSUME NEW r \in RunIds, TakeoverMark(r) PROVE StaysCancelled /\ NotCompletedLate
  BY <1>0, <1>31 DEF TakeoverMark, TakeoverIsOwn, RecoveredIsQuiet, TypeOK
<1>32. ASSUME NEW r \in RunIds, TakeoverCancelTask(r) PROVE StaysCancelled /\ NotCompletedLate
  BY <1>32 DEF TakeoverCancelTask
<1>33. ASSUME NEW r \in RunIds, AnswerLive(r) PROVE StaysCancelled /\ NotCompletedLate
  BY <1>0, <1>33 DEF AnswerLive, MarkRunning, RecoveredIsQuiet, TypeOK
<1>34. ASSUME NEW p \in Posts, NEW r \in RunIds, AnswerParked(p, r)
      PROVE  StaysCancelled /\ NotCompletedLate
  BY <1>0, <1>34 DEF AnswerParked, EndParked, ParkedQuestion, TypeOK
<1>35. ASSUME NEW r \in RunIds, NEW d \in {"allow", "deny"}, AnswerConsentLive(r, d)
      PROVE  StaysCancelled /\ NotCompletedLate
  BY <1>35 DEF AnswerConsentLive
<1>36. ASSUME NEW p \in Posts, NEW r \in RunIds, NEW d \in {"allow", "deny"}, AnswerConsentParked(p, r, d)
      PROVE  StaysCancelled /\ NotCompletedLate
  BY <1>0, <1>36 DEF AnswerConsentParked, EndParked, TypeOK
<1>37. ASSUME NEW r \in RunIds, NewAttempt(r) PROVE StaysCancelled /\ NotCompletedLate
  BY <1>0, <1>37 DEF NewAttempt, EndParked, TypeOK
<1>38. ASSUME ReleaseTakeover PROVE StaysCancelled /\ NotCompletedLate
  <2>1. PICK r \in RunIds : runStatus[r] = "waiting_takeover"
    BY <1>38 DEF ReleaseTakeover, WaitingTakeover, WithStatus
  <2>2. Latest(WaitingTakeover(runStatus)) = r /\ ~recovered[r]
    BY <1>0, <1>a, <2>1 DEF TakeoverIsOwn
  <2>3. runStatus' = [runStatus EXCEPT ![r] = "running"]
    BY <1>38, <2>1, <2>2 DEF ReleaseTakeover, MarkRunning
  <2> QED  BY <1>0, <2>1, <2>2, <2>3 DEF TypeOK
<1>39. ASSUME Stop PROVE StaysCancelled /\ NotCompletedLate
  BY <1>0, <1>39 DEF Stop, Busy, TypeOK
<1>40. ASSUME Shutdown PROVE StaysCancelled /\ NotCompletedLate
  BY <1>40 DEF Shutdown
<1>41. ASSUME ProcessEnds PROVE StaysCancelled /\ NotCompletedLate
  BY <1>41 DEF ProcessEnds
<1>42. ASSUME UNCHANGED vars PROVE StaysCancelled /\ NotCompletedLate
  BY <1>42 DEF vars
<1> HIDE DEF StaysCancelled, NotCompletedLate
<1> QED
  BY <1>1, <1>2, <1>3, <1>4, <1>5, <1>6, <1>7, <1>8, <1>9, <1>10, <1>11, <1>12, <1>13, <1>14,
     <1>15, <1>16, <1>17, <1>18, <1>19, <1>20, <1>21, <1>22, <1>23, <1>24, <1>25,
     <1>26, <1>27, <1>28, <1>29, <1>30, <1>31, <1>32, <1>33, <1>34, <1>35, <1>36,
     <1>37, <1>38, <1>39, <1>40, <1>41, <1>42
     DEF Next, Host, Tool, Owner, Exit

-----------------------------------------------------------------------------
(* Who works on a run.                                                       *)

(* What the proofs about a single step use of the inductive invariant. *)
StepFacts ==
  /\ TypeOK /\ TypeOK' /\ RowsInserted /\ TakeoverIsOwn /\ NotStarted /\ LiveTurn /\ Leftover
  /\ DyingTurn /\ BootIsAlone /\ RecoveredIsQuiet /\ OneBusyRun /\ StaysCancelled
  /\ StopTakeover(runStatus) \in [RunIds -> RunStatus]
  /\ \A q \in RunIds : StopTakeover(runStatus)[q] =
       IF runStatus[q] = "waiting_takeover" THEN "cancelled" ELSE runStatus[q]
  /\ \A r \in RunIds : runStatus[r] = "waiting_takeover" =>
       WaitingTakeover(runStatus) = {r} /\ Latest(WaitingTakeover(runStatus)) = r

LEMMA StepFactsHold ==
  ASSUME TakeoverIsAlone, TurnInvariant, [Next]_vars
  PROVE  StepFacts
<1>1. /\ StopTakeover(runStatus) \in [RunIds -> RunStatus]
      /\ \A q \in RunIds : StopTakeover(runStatus)[q] =
           IF runStatus[q] = "waiting_takeover" THEN "cancelled" ELSE runStatus[q]
      /\ \A r \in RunIds : runStatus[r] = "waiting_takeover" =>
           WaitingTakeover(runStatus) = {r} /\ Latest(WaitingTakeover(runStatus)) = r
  BY StopTakeoverFacts DEF TurnInvariant, TypeOK
<1>2. TypeOK' /\ StaysCancelled
  BY TypeStep, StatusStep DEF TurnInvariant
<1> QED  BY <1>1, <1>2 DEF TurnInvariant, StepFacts

(* The same where the takeover tool is absent. *)
LEMMA PlainStepFacts ==
  ASSUME "takeover" \notin Tools, TurnInvariant, [Next]_vars
  PROVE  /\ StepFacts /\ NoTakeover
         /\ WaitingTakeover(runStatus) = {} /\ StopTakeover(runStatus) = runStatus
<1>1. TakeoverIsAlone
  BY DEF TakeoverIsAlone
<1>2. StepFacts
  BY <1>1, StepFactsHold
<1>3. NoTakeover /\ WaitingTakeover(runStatus) = {} /\ StopTakeover(runStatus) = runStatus
  BY <1>2, NoTakeoverFacts DEF StepFacts
<1> QED  BY <1>2, <1>3

(* The follow-up run is new, running and has its task. *)
LEMMA FollowUpFacts ==
  ASSUME StepFacts, TurnFacts,
         NEW rest \in [RunIds -> {"none", "live", "cancelling", "stopped", "kick", "dying"}],
         \A r \in RunIds : rest[r] = task[r] \/ (task[r] = "kick" /\ rest[r] = "none"),
         ClaimInboxFollowUp(rest), phase = "up",
         \A q \in Posts, r \in RunIds : Starting(q, r)' => Starting(q, r),
         UNCHANGED <<dispatch, recovered, phase, todo, tool, stops>>
  PROVE  TurnFacts'
<1> USE DEF TurnFacts, StoppedIsOver, ParkedHasTurn, BootFinds, StartedIsBusy, Drives
<1>0. /\ TypeOK /\ RowsInserted
  BY DEF StepFacts
<1>1. CASE BusyRuns(runStatus) = {} /\ inbox # {}
  <2> DEFINE n == runCount + 1
  <2>1. n \in RunIds /\ n > runCount
    BY <1>0, <1>1, BoundsAssumption DEF ClaimInboxFollowUp, RunIds, TypeOK
  <2>2. runStatus' = [runStatus EXCEPT ![n] = "running"] /\ task' = [rest EXCEPT ![n] = "live"]
    BY <1>1 DEF ClaimInboxFollowUp
  <2> HIDE DEF n
  <2> QED  BY <1>0, <2>1, <2>2 DEF TypeOK
<1>2. CASE ~(BusyRuns(runStatus) = {} /\ inbox # {})
  BY <1>0, <1>2 DEF ClaimInboxFollowUp, TypeOK
<1> QED  BY <1>1, <1>2

(* Every step keeps the facts. *)
LEMMA TurnFactsStep ==
  ASSUME TakeoverIsAlone, TurnInvariant, [Next]_vars, TurnFacts
  PROVE  TurnFacts'
<1>00. StepFacts
  BY StepFactsHold
<1>0. /\ StepFacts /\ TurnFacts
      /\ runStatus \in [RunIds -> RunStatus] /\ task \in [RunIds -> {"none", "live", "cancelling", "stopped", "kick", "dying"}]
      /\ req \in [Posts -> Request] /\ dispatch \in [RunIds -> {"none", "pending", "claimed"}]
      /\ cmdRun \in [Commands -> RunIds \cup {NoRun}]
      /\ tool \in [RunIds -> {"none", "exec", "posted", "askWait", "offered", "consentWait", "marked", "steer"}]
      /\ recovered \in [RunIds -> BOOLEAN] /\ stops \in Nat /\ runCount \in Nat
      /\ RowsInserted /\ TakeoverIsOwn /\ NotStarted /\ LiveTurn /\ Leftover /\ OneBusyRun
      /\ RecoveredIsQuiet /\ DyingTurn /\ BootIsAlone /\ StaysCancelled
      /\ phase \in {"up", "stopping", "down", "boot"} /\ MaxStops \in Nat
  BY <1>00, BoundsAssumption DEF StepFacts, TypeOK
<1>a. /\ StopTakeover(runStatus) \in [RunIds -> RunStatus]
      /\ \A q \in RunIds : StopTakeover(runStatus)[q] =
           IF runStatus[q] = "waiting_takeover" THEN "cancelled" ELSE runStatus[q]
      /\ \A r \in RunIds : runStatus[r] = "waiting_takeover" =>
           WaitingTakeover(runStatus) = {r} /\ Latest(WaitingTakeover(runStatus)) = r
  BY <1>00 DEF StepFacts
<1>s. "takeover" \in Tools =>
        MaxStops = 0 /\ "midtool" \notin Faults /\ "shutdown" \notin Faults
  BY DEF TakeoverIsAlone
<1>b. req \in [Posts -> Request]
  BY <1>0
<1>d. task \in [RunIds -> {"none", "live", "cancelling", "stopped", "kick", "dying"}]
  BY <1>0
<1> USE DEF TurnFacts, StoppedIsOver, ParkedHasTurn, BootFinds, StartedIsBusy, Drives, NotStarted, LiveTurn,
            Leftover, RowsInserted, TakeoverIsOwn, RecoveredIsQuiet, DyingTurn, BootIsAlone, StaysCancelled,
            Up, Alive, durable, volatile, history
<1>1. ASSUME NEW p \in Posts, NEW c \in Commands, SendCommand(p, c) PROVE TurnFacts'
  <2>1. CASE cmdRun[c] = NoRun
    <3> DEFINE x == [Idle EXCEPT !.pc = "accept", !.msg = c]
    <3>1. req' = [req EXCEPT ![p] = x] /\ x.pc = "accept"
      BY <1>1, <2>1 DEF SendCommand, Idle
    <3> HIDE DEF x
    <3>2. \A q \in Posts, r \in RunIds : Starting(q, r)' => Starting(q, r) /\ q # p
      BY <1>b, <3>1, StartingShrinks
    <3> QED  BY <1>0, <1>1, <2>1, <3>2 DEF SendCommand
  <2>2. CASE cmdRun[c] # NoRun
    <3> DEFINE x == [pc |-> "resume", msg |-> c, run |-> cmdRun[c], fresh |-> FALSE]
    <3>1. req' = [req EXCEPT ![p] = x] /\ x.pc = "resume" /\ x.run = cmdRun[c]
      BY <1>1, <2>2 DEF SendCommand
    <3>2. \A q \in Posts, r \in RunIds : Starting(q, r)' =>
            (q = p /\ r = cmdRun[c]) \/ (q # p /\ Starting(q, r))
      <4> HIDE DEF x
      <4> QED  BY <1>b, <3>1, StartingAfter
    <3>3. dispatch[cmdRun[c]] = "pending" /\ dispatch' = [dispatch EXCEPT ![cmdRun[c]] = "claimed"]
      BY <1>1, <2>2 DEF SendCommand
    <3> HIDE DEF x
    <3> QED  BY <1>0, <1>1, <2>2, <3>2, <3>3 DEF SendCommand
  <2> QED  BY <2>1, <2>2
<1>2. ASSUME NEW p \in Posts, NEW n \in Notes, SendNote(p, n) PROVE TurnFacts'
  <2> DEFINE x == [Idle EXCEPT !.pc = "accept", !.msg = n]
  <2>0. req' = [req EXCEPT ![p] = x] /\ x.pc = "accept"
    BY <1>2 DEF SendNote, Idle
  <2> HIDE DEF x
  <2>1. \A q \in Posts, t \in RunIds : Starting(q, t)' => Starting(q, t) /\ q # p
    BY <1>b, <2>0, StartingShrinks
  <2> QED  BY <1>0, <1>2, <2>1 DEF SendNote
<1>3. ASSUME NEW p \in Posts, BeginReplayed(p) PROVE TurnFacts'
  <2> DEFINE x == IF req[p].msg \in inbox THEN Idle
                  ELSE [req[p] EXCEPT !.pc = "begun", !.run = cmdRun[req[p].msg]]
  <2>1. req' = [req EXCEPT ![p] = x]
    BY <1>3 DEF BeginReplayed
  <2>2. x.pc \notin {"claimed", "resume"}
    BY <1>0 DEF Idle, Request
  <2>3. \A q \in Posts, t \in RunIds : Starting(q, t)' => Starting(q, t) /\ q # p
    <3> HIDE DEF x
    <3> QED  BY <1>b, <2>1, <2>2, StartingShrinks
  <2> QED  BY <1>0, <1>a, <1>3, <2>3 DEF BeginReplayed
<1>4. ASSUME NEW p \in Posts, BeginQueued(p) PROVE TurnFacts'
  <2>1. \A q \in Posts, t \in RunIds : Starting(q, t)' => Starting(q, t) /\ q # p
    BY <1>b, <1>4, StartingDone DEF BeginQueued
  <2> QED  BY <1>0, <1>a, <1>4, <2>1 DEF BeginQueued
<1>5. ASSUME NEW p \in Posts, BeginCreated(p) PROVE TurnFacts'
  <2> DEFINE n == runCount + 1
             st == Supersede(StopTakeover(runStatus))
  <2>1. /\ n \in RunIds /\ task[n] = "none" /\ tool[n] = "none"
        /\ runStatus' = [st EXCEPT ![n] = "running"] /\ st \in [RunIds -> RunStatus]
    BY <1>0, <1>a, <1>5, SendTypes, BoundsAssumption DEF BeginCreated, RunIds
  <2>2. \A q \in RunIds : \/ st[q] = runStatus[q]
                          \/ runStatus[q] \in Superseded /\ st[q] = "cancelled"
    BY <1>0, <1>5, SupersedeClears DEF BeginCreated
  <2>3. \A q \in Posts, t \in RunIds : Starting(q, t)' => Starting(q, t) /\ q # p
    <3> DEFINE x == [pc |-> "begun", msg |-> req[p].msg, run |-> n, fresh |-> TRUE]
    <3>1. req' = [req EXCEPT ![p] = x] /\ x.pc = "begun"
      BY <1>5 DEF BeginCreated
    <3> HIDE DEF x
    <3> QED  BY <1>b, <3>1, StartingShrinks
  <2>4. /\ dispatch' = [dispatch EXCEPT ![n] = "pending"] /\ phase = "up"
        /\ UNCHANGED <<phase, recovered, task, tool, stops>>
    BY <1>5 DEF BeginCreated
  <2> HIDE DEF n, st
  <2>5. StoppedIsOver' /\ BootFinds'
    BY <1>0, <2>1, <2>2, <2>4
  <2>6. ParkedHasTurn'
    BY <1>0, <2>1, <2>2, <2>4 DEF Superseded
  <2>7. StartedIsBusy'
    BY <1>0, <2>1, <2>2, <2>3, <2>4 DEF Superseded
  <2> QED  BY <2>5, <2>6, <2>7
<1>6. ASSUME NEW p \in Posts, ClaimDispatch(p) PROVE TurnFacts'
  <2>1. CASE dispatch[req[p].run] = "pending"
    <3> DEFINE x == [req[p] EXCEPT !.pc = "claimed"]
    <3>1. req' = [req EXCEPT ![p] = x] /\ x.run = req[p].run /\ req[p].run \in RunIds
      BY <1>0, <1>6, <2>1 DEF ClaimDispatch, Request
    <3>2. \A q \in Posts, t \in RunIds : Starting(q, t)' =>
            (q = p /\ t = req[p].run) \/ (q # p /\ Starting(q, t))
      <4> HIDE DEF x
      <4> QED  BY <1>b, <3>1, StartingAfter
    <3> HIDE DEF x
    <3> QED  BY <1>0, <1>6, <2>1, <3>1, <3>2 DEF ClaimDispatch
  <2>2. CASE dispatch[req[p].run] # "pending"
    <3>1. \A q \in Posts, t \in RunIds : Starting(q, t)' => Starting(q, t) /\ q # p
      BY <1>b, <1>6, <2>2, StartingDone DEF ClaimDispatch
    <3> QED  BY <1>0, <1>6, <2>2, <3>1 DEF ClaimDispatch
  <2> QED  BY <2>1, <2>2
<1>7. ASSUME NEW p \in Posts, StartClaimedTurn(p) PROVE TurnFacts'
  <2>0. \A q \in Posts, t \in RunIds : Starting(q, t)' => Starting(q, t) /\ q # p
    BY <1>b, <1>7, StartingDone DEF StartClaimedTurn
  <2>1. req[p].run \in RunIds /\ Starting(p, req[p].run)
    BY <1>b, <1>7 DEF StartClaimedTurn, Starting, Request
  <2> QED  BY <1>0, <1>7, <2>0, <2>1 DEF StartClaimedTurn
<1>8. ASSUME NEW p \in Posts, ResumePendingDispatch(p) PROVE TurnFacts'
  <2>0. \A q \in Posts, t \in RunIds : Starting(q, t)' => Starting(q, t) /\ q # p
    BY <1>b, <1>8, StartingDone DEF ResumePendingDispatch
  <2>1. req[p].run \in RunIds /\ Starting(p, req[p].run)
    BY <1>b, <1>8 DEF ResumePendingDispatch, Starting, Request
  <2> QED  BY <1>0, <1>8, <2>0, <2>1 DEF ResumePendingDispatch
<1>9. ASSUME NEW p \in Posts, AgentFails(p) PROVE TurnFacts'
  <2>1. \A q \in Posts, t \in RunIds : Starting(q, t)' => Starting(q, t) /\ q # p
    BY <1>b, <1>9, StartingDone DEF AgentFails
  <2> QED  BY <1>0, <1>9, <2>1 DEF AgentFails
<1>10. ASSUME NEW p \in Posts, KickAfterDeny(p) PROVE TurnFacts'
  <2>1. \A q \in Posts, t \in RunIds : Starting(q, t)' => Starting(q, t) /\ q # p
    BY <1>b, <1>10, StartingDone DEF KickAfterDeny
  <2>2. /\ ClaimInboxFollowUp(task) /\ phase = "up"
        /\ UNCHANGED <<dispatch, recovered, phase, todo, tool, stops>>
    BY <1>10 DEF KickAfterDeny
  <2> HIDE DEF TurnFacts, StoppedIsOver, ParkedHasTurn, BootFinds, StartedIsBusy, NotStarted,
               LiveTurn, Leftover, RowsInserted, TakeoverIsOwn, RecoveredIsQuiet, DyingTurn,
               BootIsAlone, StaysCancelled
  <2> QED  BY <1>0, <1>d, <2>1, <2>2, FollowUpFacts
<1>11. ASSUME KickAfterBoot PROVE TurnFacts'
  <2>1. \A q \in Posts, t \in RunIds : Starting(q, t)' => Starting(q, t)
    BY <1>11 DEF KickAfterBoot, Starting
  <2>2. /\ ClaimInboxFollowUp(task) /\ phase = "up"
        /\ UNCHANGED <<dispatch, recovered, phase, todo, tool, stops>>
    BY <1>11 DEF KickAfterBoot
  <2> HIDE DEF TurnFacts, StoppedIsOver, ParkedHasTurn, BootFinds, StartedIsBusy, NotStarted,
               LiveTurn, Leftover, RowsInserted, TakeoverIsOwn, RecoveredIsQuiet, DyingTurn,
               BootIsAlone, StaysCancelled
  <2> QED  BY <1>0, <1>d, <2>1, <2>2, FollowUpFacts
<1>12. ASSUME NEW r \in RunIds, KickAfterTurn(r) PROVE TurnFacts'
  <2> DEFINE rest == [task EXCEPT ![r] = "none"]
  <2>1. \A q \in Posts, t \in RunIds : Starting(q, t)' => Starting(q, t)
    BY <1>12 DEF KickAfterTurn, Starting
  <2>2. /\ ClaimInboxFollowUp(rest) /\ phase = "up"
        /\ UNCHANGED <<dispatch, recovered, phase, todo, tool, stops>>
    BY <1>12 DEF KickAfterTurn
  <2>3. /\ rest \in [RunIds -> {"none", "live", "cancelling", "stopped", "kick", "dying"}]
        /\ \A q \in RunIds : rest[q] = task[q] \/ (task[q] = "kick" /\ rest[q] = "none")
    BY <1>d, <1>12 DEF KickAfterTurn
  <2> HIDE DEF TurnFacts, StoppedIsOver, ParkedHasTurn, BootFinds, StartedIsBusy, NotStarted,
               LiveTurn, Leftover, RowsInserted, TakeoverIsOwn, RecoveredIsQuiet, DyingTurn,
               BootIsAlone, StaysCancelled
  <2> HIDE DEF rest
  <2> QED  BY <1>0, <2>1, <2>2, <2>3, FollowUpFacts
<1>13. ASSUME NEW r \in RunIds, KickFails(r) PROVE TurnFacts'
  BY <1>0, <1>13 DEF KickFails, Starting
<1>14. ASSUME NEW r \in RunIds, NEW o \in Outcomes, TurnEnds(r, o) PROVE TurnFacts'
  BY <1>0, <1>s, <1>14, BoundsAssumption DEF TurnEnds, FinishTurn, TaskUnchanged, TurnOutcomes, Starting, SkipFinish, LeaveParkedWait
<1>15. ASSUME NEW r \in RunIds, TurnUnwinds(r) PROVE TurnFacts'
  <2>1. \/ runStatus' = [runStatus EXCEPT ![r] = "cancelled"]
        \/ runStatus' = runStatus /\ runStatus[r] \in ParkedWait /\ LeaveParkedWait(r)
        \/ runStatus' = runStatus /\ runStatus[r] = "waiting_takeover"
    <3>1. ASSUME WaitingTakeover(runStatus) # {}, Latest(WaitingTakeover(runStatus)) = r
          PROVE  runStatus[r] = "waiting_takeover"
      <4>1. PICK w \in RunIds : runStatus[w] = "waiting_takeover"
        BY <3>1 DEF WaitingTakeover, WithStatus
      <4> QED  BY <1>a, <3>1, <4>1
    <3> QED  BY <1>15, <3>1 DEF TurnUnwinds, FinishTurn, SkipFinish, LeaveParkedWait
  <2>2. /\ task' = [task EXCEPT ![r] = "none"] /\ phase \in {"up", "stopping"}
        /\ UNCHANGED <<dispatch, recovered, phase, todo, req, tool, stops>>
    BY <1>15 DEF TurnUnwinds, TaskUnchanged
  <2>3. \A q \in Posts, t \in RunIds : Starting(q, t)' <=> Starting(q, t)
    BY <2>2 DEF Starting
  <2>4. StoppedIsOver' /\ BootFinds'
    BY <1>0, <2>1, <2>2
  <2>5. ParkedHasTurn'
    BY <1>0, <2>1, <2>2 DEF LeaveParkedWait
  <2>6. StartedIsBusy'
    <3>1. dispatch[r] # "pending" /\ \A p \in Posts : ~Starting(p, r)
      BY <1>0, <1>15 DEF TurnUnwinds
    <3> QED  BY <1>0, <2>1, <2>2, <2>3, <3>1
  <2> QED  BY <2>4, <2>5, <2>6
<1>16. ASSUME NEW r \in RunIds, NEW o \in Outcomes, DyingTurnEnds(r, o) PROVE TurnFacts'
  BY <1>0, <1>16, BoundsAssumption DEF DyingTurnEnds, FinishTurn, TaskUnchanged, TurnOutcomes, Starting, SkipFinish, LeaveParkedWait
<1>17. ASSUME NEW r \in RunIds, RecoverRun(r) PROVE TurnFacts'
  BY <1>0, <1>17 DEF RecoverRun, Starting
<1>18. ASSUME BootStarts PROVE TurnFacts'
  BY <1>0, <1>18 DEF BootStarts, Starting
<1>19. ASSUME BootEnds PROVE TurnFacts'
  BY <1>0, <1>19 DEF BootEnds, Starting
<1>20. ASSUME NEW r \in RunIds, ToolStarts(r) PROVE TurnFacts'
  BY <1>0, <1>20 DEF ToolStarts, Starting
<1>21. ASSUME NEW r \in RunIds, PlainTool(r) PROVE TurnFacts'
  BY <1>0, <1>21 DEF PlainTool, Starting
<1>22. ASSUME NEW r \in RunIds, PostOptions(r) PROVE TurnFacts'
  BY <1>0, <1>22 DEF PostOptions, Starting
<1>23. ASSUME NEW r \in RunIds, TakeOwnerSteer(r) PROVE TurnFacts'
  BY <1>0, <1>23 DEF TakeOwnerSteer, Starting
<1>24. ASSUME NEW r \in RunIds, AskPost(r) PROVE TurnFacts'
  BY <1>0, <1>24 DEF AskPost, Starting
<1>25. ASSUME NEW r \in RunIds, AskActivate(r) PROVE TurnFacts'
  BY <1>0, <1>25 DEF AskActivate, MarkWaitingInput, Starting
<1>26. ASSUME NEW r \in RunIds, AskWakes(r) PROVE TurnFacts'
  BY <1>0, <1>26 DEF AskWakes, Starting
<1>27. ASSUME NEW r \in RunIds, AskTimesOut(r) PROVE TurnFacts'
  BY <1>0, <1>27 DEF AskTimesOut, MarkRunning, Starting
<1>28. ASSUME NEW r \in RunIds, ConsentOffer(r) PROVE TurnFacts'
  BY <1>0, <1>28 DEF ConsentOffer, Starting
<1>29. ASSUME NEW r \in RunIds, ConsentWait(r) PROVE TurnFacts'
  BY <1>0, <1>29 DEF ConsentWait, MarkWaitingInput, Starting
<1>30. ASSUME NEW r \in RunIds, ConsentReturns(r) PROVE TurnFacts'
  BY <1>0, <1>30 DEF ConsentReturns, MarkRunning, Starting
<1>31. ASSUME NEW r \in RunIds, TakeoverMark(r) PROVE TurnFacts'
  BY <1>0, <1>31 DEF TakeoverMark, Starting
<1>32. ASSUME NEW r \in RunIds, TakeoverCancelTask(r) PROVE TurnFacts'
  BY <1>0, <1>32 DEF TakeoverCancelTask, Starting
<1>33. ASSUME NEW r \in RunIds, AnswerLive(r) PROVE TurnFacts'
  BY <1>0, <1>33 DEF AnswerLive, MarkRunning, Starting
<1>34. ASSUME NEW p \in Posts, NEW r \in RunIds, AnswerParked(p, r) PROVE TurnFacts'
  <2> DEFINE x == [Idle EXCEPT !.pc = "accept", !.msg = r]
  <2>0. req' = [req EXCEPT ![p] = x] /\ x.pc = "accept"
    BY <1>34 DEF AnswerParked, Idle
  <2> HIDE DEF x
  <2>1. \A q \in Posts, t \in RunIds : Starting(q, t)' => Starting(q, t) /\ q # p
    BY <1>b, <2>0, StartingShrinks
  <2> QED  BY <1>0, <1>34, <2>1 DEF AnswerParked, EndParked, ParkedQuestion
<1>35. ASSUME NEW r \in RunIds, NEW d \in {"allow", "deny"}, AnswerConsentLive(r, d)
      PROVE  TurnFacts'
  BY <1>0, <1>35 DEF AnswerConsentLive, Starting
<1>36. ASSUME NEW p \in Posts, NEW r \in RunIds, NEW d \in {"allow", "deny"}, AnswerConsentParked(p, r, d)
      PROVE  TurnFacts'
  <2> DEFINE x == IF d = "allow" THEN [Idle EXCEPT !.pc = "accept", !.msg = r]
                  ELSE [Idle EXCEPT !.pc = "kick"]
  <2>0. req' = [req EXCEPT ![p] = x] /\ x.pc \in {"accept", "kick"}
    BY <1>36 DEF AnswerConsentParked, Idle
  <2> HIDE DEF x
  <2>1. \A q \in Posts, t \in RunIds : Starting(q, t)' => Starting(q, t) /\ q # p
    BY <1>b, <2>0, StartingShrinks
  <2> QED  BY <1>0, <1>36, <2>1 DEF AnswerConsentParked, EndParked
<1>37. ASSUME NEW r \in RunIds, NewAttempt(r) PROVE TurnFacts'
  BY <1>0, <1>37 DEF NewAttempt, EndParked, Starting
<1>38. ASSUME ReleaseTakeover PROVE TurnFacts'
  <2>1. PICK r \in RunIds : runStatus[r] = "waiting_takeover"
    BY <1>38 DEF ReleaseTakeover, WaitingTakeover, WithStatus
  <2>2. Latest(WaitingTakeover(runStatus)) = r
    BY <1>a, <2>1
  <2>3. /\ runStatus' = [runStatus EXCEPT ![r] = "running"]
        /\ task' = [task EXCEPT ![r] = IF @ = "none" THEN "live" ELSE @]
        /\ UNCHANGED <<dispatch, recovered, phase, todo, req, tool, stops>>
        /\ phase = "up" /\ task[r] \in {"live", "cancelling", "none"}
    BY <1>0, <1>38, <2>1, <2>2 DEF ReleaseTakeover, MarkRunning
  <2>4. \A q \in Posts, t \in RunIds : Starting(q, t)' <=> Starting(q, t)
    BY <2>3 DEF Starting
  <2> QED  BY <1>0, <2>1, <2>3, <2>4
<1>39. ASSUME Stop PROVE TurnFacts'
  BY <1>0, <1>s, <1>39, BoundsAssumption DEF Stop, Starting, Busy
<1>40. ASSUME Shutdown PROVE TurnFacts'
  BY <1>0, <1>s, <1>40 DEF Shutdown, Starting
<1>41. ASSUME ProcessEnds PROVE TurnFacts'
  <2>1. \A q \in Posts, t \in RunIds : ~Starting(q, t)'
    BY <1>41 DEF ProcessEnds, Idle, Starting
  <2> QED  BY <1>0, <1>41, <2>1 DEF ProcessEnds
<1>42. ASSUME UNCHANGED vars PROVE TurnFacts'
  BY <1>0, <1>42 DEF vars, Starting
<1> HIDE DEF TurnFacts, StoppedIsOver, ParkedHasTurn, BootFinds, StartedIsBusy, Up, Alive, durable, volatile, history
<1> QED
  BY <1>1, <1>2, <1>3, <1>4, <1>5, <1>6, <1>7, <1>8, <1>9, <1>10, <1>11, <1>12, <1>13,
     <1>14, <1>15, <1>16, <1>17, <1>18, <1>19, <1>20, <1>21, <1>22, <1>23, <1>24, <1>25,
     <1>26, <1>27, <1>28, <1>29, <1>30, <1>31, <1>32, <1>33, <1>34, <1>35, <1>36, <1>37,
     <1>38, <1>39, <1>40, <1>41, <1>42
     DEF Next, Host, Tool, Owner, Exit

(* A step that rewrites the request of p leaves what the others start alone. *)
LEMMA StartingOfOthers ==
  ASSUME req \in [Posts -> Request], NEW p \in Posts, NEW x, req' = [req EXCEPT ![p] = x]
  PROVE  /\ \A q \in Posts, r \in RunIds : q # p => (Starting(q, r)' <=> Starting(q, r))
         /\ \A r \in RunIds : Starting(p, r)' <=> x.pc \in {"claimed", "resume"} /\ x.run = r
BY DEF Starting

(* What any step does to the claims: a request starts a run only by taking its *)
(* pending dispatch, a pending dispatch is left only so, and a request that    *)
(* starts a run either gets there or is lost.                                  *)
DispatchMoves ==
  /\ \A q \in Posts, r \in RunIds : Starting(q, r)' =>
       Starting(q, r) \/ (dispatch[r] = "pending" /\ dispatch'[r] = "claimed" /\ phase = "up")
  /\ \A r \in RunIds : dispatch[r] = "pending" =>
       dispatch'[r] = "pending" \/ \E q \in Posts : Starting(q, r)'
  /\ \A r \in RunIds : dispatch'[r] = "pending" => dispatch[r] = "pending" \/ r = runCount + 1
  /\ \A q \in Posts, r \in RunIds : Starting(q, r) =>
       Starting(q, r)' \/ task'[r] = "live" \/ phase' = "down" \/ "agent" \in Faults

LEMMA DispatchStep ==
  ASSUME TypeOK, [Next]_vars
  PROVE  DispatchMoves
<1>0. /\ req \in [Posts -> Request] /\ dispatch \in [RunIds -> {"none", "pending", "claimed"}]
      /\ cmdRun \in [Commands -> RunIds \cup {NoRun}]
      /\ task \in [RunIds -> {"none", "live", "cancelling", "stopped", "kick", "dying"}]
  BY DEF TypeOK
<1> USE DEF DispatchMoves, Up, Alive, durable, volatile, history
<1>1. ASSUME NEW p \in Posts, NEW c \in Commands, SendCommand(p, c) PROVE DispatchMoves
  <2>1. CASE cmdRun[c] = NoRun
    <3> DEFINE x == [Idle EXCEPT !.pc = "accept", !.msg = c]
    <3>0. req' = [req EXCEPT ![p] = x] /\ x.pc = "accept"
      BY <1>0, <1>1, <2>1 DEF SendCommand, Idle, Request
    <3> HIDE DEF x
    <3>1. /\ \A q \in Posts, t \in RunIds : q # p => (Starting(q, t)' <=> Starting(q, t))
          /\ \A t \in RunIds : Starting(p, t)' <=> x.pc \in {"claimed", "resume"} /\ x.run = t
      BY <1>0, <3>0, StartingOfOthers
    <3> QED  BY <1>0, <1>1, <2>1, <3>0, <3>1 DEF SendCommand, Starting
  <2>2. CASE cmdRun[c] # NoRun
    <3> DEFINE x == [pc |-> "resume", msg |-> c, run |-> cmdRun[c], fresh |-> FALSE]
    <3>0. req' = [req EXCEPT ![p] = x] /\ x.pc = "resume" /\ x.run = cmdRun[c]
      BY <1>0, <1>1, <2>2 DEF SendCommand, Idle, Request
    <3> HIDE DEF x
    <3>1. /\ \A q \in Posts, t \in RunIds : q # p => (Starting(q, t)' <=> Starting(q, t))
          /\ \A t \in RunIds : Starting(p, t)' <=> x.pc \in {"claimed", "resume"} /\ x.run = t
      BY <1>0, <3>0, StartingOfOthers
    <3> QED  BY <1>0, <1>1, <2>2, <3>0, <3>1 DEF SendCommand, Starting
  <2> QED  BY <2>1, <2>2
<1>2. ASSUME NEW p \in Posts, NEW n \in Notes, SendNote(p, n) PROVE DispatchMoves
  <2> DEFINE x == [Idle EXCEPT !.pc = "accept", !.msg = n]
  <2>0. req' = [req EXCEPT ![p] = x] /\ x.pc = "accept"
    BY <1>0, <1>2 DEF SendNote, Idle, Request
  <2> HIDE DEF x
  <2>1. /\ \A q \in Posts, t \in RunIds : q # p => (Starting(q, t)' <=> Starting(q, t))
        /\ \A t \in RunIds : Starting(p, t)' <=> x.pc \in {"claimed", "resume"} /\ x.run = t
    BY <1>0, <2>0, StartingOfOthers
  <2> QED  BY <1>0, <1>2, <2>0, <2>1 DEF SendNote, Starting
<1>3. ASSUME NEW p \in Posts, BeginReplayed(p) PROVE DispatchMoves
  <2> DEFINE x == IF req[p].msg \in inbox THEN Idle
                  ELSE [req[p] EXCEPT !.pc = "begun", !.run = cmdRun[req[p].msg]]
  <2>0. req' = [req EXCEPT ![p] = x] /\ x.pc \in {"idle", "begun"}
    BY <1>0, <1>3 DEF BeginReplayed, Idle, Request
  <2> HIDE DEF x
  <2>1. /\ \A q \in Posts, t \in RunIds : q # p => (Starting(q, t)' <=> Starting(q, t))
        /\ \A t \in RunIds : Starting(p, t)' <=> x.pc \in {"claimed", "resume"} /\ x.run = t
    BY <1>0, <2>0, StartingOfOthers
  <2> QED  BY <1>0, <1>3, <2>0, <2>1 DEF BeginReplayed, Starting
<1>4. ASSUME NEW p \in Posts, BeginQueued(p) PROVE DispatchMoves
  <2> DEFINE x == Idle
  <2>0. req' = [req EXCEPT ![p] = x] /\ x.pc = "idle"
    BY <1>0, <1>4 DEF BeginQueued, Idle, Request
  <2> HIDE DEF x
  <2>1. /\ \A q \in Posts, t \in RunIds : q # p => (Starting(q, t)' <=> Starting(q, t))
        /\ \A t \in RunIds : Starting(p, t)' <=> x.pc \in {"claimed", "resume"} /\ x.run = t
    BY <1>0, <2>0, StartingOfOthers
  <2> QED  BY <1>0, <1>4, <2>0, <2>1 DEF BeginQueued, Starting
<1>5. ASSUME NEW p \in Posts, BeginCreated(p) PROVE DispatchMoves
  <2> DEFINE x == [pc |-> "begun", msg |-> req[p].msg, run |-> runCount + 1, fresh |-> TRUE]
  <2>0. req' = [req EXCEPT ![p] = x] /\ x.pc = "begun"
    BY <1>0, <1>5 DEF BeginCreated, Idle, Request
  <2> HIDE DEF x
  <2>1. /\ \A q \in Posts, t \in RunIds : q # p => (Starting(q, t)' <=> Starting(q, t))
        /\ \A t \in RunIds : Starting(p, t)' <=> x.pc \in {"claimed", "resume"} /\ x.run = t
    BY <1>0, <2>0, StartingOfOthers
  <2> QED  BY <1>0, <1>5, <2>0, <2>1 DEF BeginCreated, Starting
<1>6. ASSUME NEW p \in Posts, ClaimDispatch(p) PROVE DispatchMoves
  <2>1. CASE dispatch[req[p].run] = "pending"
    <3> DEFINE x == [req[p] EXCEPT !.pc = "claimed"]
    <3>0. req' = [req EXCEPT ![p] = x] /\ x.pc = "claimed" /\ x.run = req[p].run /\ req[p].run \in RunIds
      BY <1>0, <1>6, <2>1 DEF ClaimDispatch, Idle, Request
    <3> HIDE DEF x
    <3>1. /\ \A q \in Posts, t \in RunIds : q # p => (Starting(q, t)' <=> Starting(q, t))
          /\ \A t \in RunIds : Starting(p, t)' <=> x.pc \in {"claimed", "resume"} /\ x.run = t
      BY <1>0, <3>0, StartingOfOthers
    <3> QED  BY <1>0, <1>6, <2>1, <3>0, <3>1 DEF ClaimDispatch, Starting
  <2>2. CASE dispatch[req[p].run] # "pending"
    <3> DEFINE x == Idle
    <3>0. req' = [req EXCEPT ![p] = x] /\ x.pc = "idle"
      BY <1>0, <1>6, <2>2 DEF ClaimDispatch, Idle, Request
    <3> HIDE DEF x
    <3>1. /\ \A q \in Posts, t \in RunIds : q # p => (Starting(q, t)' <=> Starting(q, t))
          /\ \A t \in RunIds : Starting(p, t)' <=> x.pc \in {"claimed", "resume"} /\ x.run = t
      BY <1>0, <3>0, StartingOfOthers
    <3> QED  BY <1>0, <1>6, <2>2, <3>0, <3>1 DEF ClaimDispatch, Starting
  <2> QED  BY <2>1, <2>2
<1>7. ASSUME NEW p \in Posts, StartClaimedTurn(p) PROVE DispatchMoves
  <2> DEFINE x == Idle
  <2>0. req' = [req EXCEPT ![p] = x] /\ x.pc = "idle"
    BY <1>0, <1>7 DEF StartClaimedTurn, Idle, Request
  <2> HIDE DEF x
  <2>1. /\ \A q \in Posts, t \in RunIds : q # p => (Starting(q, t)' <=> Starting(q, t))
        /\ \A t \in RunIds : Starting(p, t)' <=> x.pc \in {"claimed", "resume"} /\ x.run = t
    BY <1>0, <2>0, StartingOfOthers
  <2> QED  BY <1>0, <1>7, <2>0, <2>1 DEF StartClaimedTurn, Starting
<1>8. ASSUME NEW p \in Posts, ResumePendingDispatch(p) PROVE DispatchMoves
  <2> DEFINE x == Idle
  <2>0. req' = [req EXCEPT ![p] = x] /\ x.pc = "idle"
    BY <1>0, <1>8 DEF ResumePendingDispatch, Idle, Request
  <2> HIDE DEF x
  <2>1. /\ \A q \in Posts, t \in RunIds : q # p => (Starting(q, t)' <=> Starting(q, t))
        /\ \A t \in RunIds : Starting(p, t)' <=> x.pc \in {"claimed", "resume"} /\ x.run = t
    BY <1>0, <2>0, StartingOfOthers
  <2> QED  BY <1>0, <1>8, <2>0, <2>1 DEF ResumePendingDispatch, Starting
<1>9. ASSUME NEW p \in Posts, AgentFails(p) PROVE DispatchMoves
  <2> DEFINE x == Idle
  <2>0. req' = [req EXCEPT ![p] = x] /\ x.pc = "idle"
    BY <1>0, <1>9 DEF AgentFails, Idle, Request
  <2> HIDE DEF x
  <2>1. /\ \A q \in Posts, t \in RunIds : q # p => (Starting(q, t)' <=> Starting(q, t))
        /\ \A t \in RunIds : Starting(p, t)' <=> x.pc \in {"claimed", "resume"} /\ x.run = t
    BY <1>0, <2>0, StartingOfOthers
  <2> QED  BY <1>0, <1>9, <2>0, <2>1 DEF AgentFails, Starting
<1>10. ASSUME NEW p \in Posts, KickAfterDeny(p) PROVE DispatchMoves
  <2> DEFINE x == Idle
  <2>0. req' = [req EXCEPT ![p] = x] /\ x.pc = "idle"
    BY <1>0, <1>10 DEF KickAfterDeny, Idle, Request
  <2> HIDE DEF x
  <2>1. /\ \A q \in Posts, t \in RunIds : q # p => (Starting(q, t)' <=> Starting(q, t))
        /\ \A t \in RunIds : Starting(p, t)' <=> x.pc \in {"claimed", "resume"} /\ x.run = t
    BY <1>0, <2>0, StartingOfOthers
  <2> QED  BY <1>0, <1>10, <2>0, <2>1 DEF KickAfterDeny, Starting
<1>11. ASSUME KickAfterBoot PROVE DispatchMoves
  BY <1>0, <1>11 DEF KickAfterBoot, Starting
<1>12. ASSUME NEW r \in RunIds, KickAfterTurn(r) PROVE DispatchMoves
  BY <1>0, <1>12 DEF KickAfterTurn, Starting
<1>13. ASSUME NEW r \in RunIds, KickFails(r) PROVE DispatchMoves
  BY <1>0, <1>13 DEF KickFails, Starting
<1>14. ASSUME NEW r \in RunIds, NEW o \in Outcomes, TurnEnds(r, o) PROVE DispatchMoves
  BY <1>0, <1>14 DEF TurnEnds, FinishTurn, TaskUnchanged, Starting
<1>15. ASSUME NEW r \in RunIds, TurnUnwinds(r) PROVE DispatchMoves
  BY <1>0, <1>15 DEF TurnUnwinds, FinishTurn, TaskUnchanged, Starting
<1>16. ASSUME NEW r \in RunIds, NEW o \in Outcomes, DyingTurnEnds(r, o) PROVE DispatchMoves
  BY <1>0, <1>16 DEF DyingTurnEnds, FinishTurn, TaskUnchanged, Starting
<1>17. ASSUME NEW r \in RunIds, RecoverRun(r) PROVE DispatchMoves
  BY <1>0, <1>17 DEF RecoverRun, Starting
<1>18. ASSUME BootStarts PROVE DispatchMoves
  BY <1>0, <1>18 DEF BootStarts, Starting
<1>19. ASSUME BootEnds PROVE DispatchMoves
  BY <1>0, <1>19 DEF BootEnds, Starting
<1>20. ASSUME NEW r \in RunIds, ToolStarts(r) PROVE DispatchMoves
  BY <1>0, <1>20 DEF ToolStarts, Starting
<1>21. ASSUME NEW r \in RunIds, PlainTool(r) PROVE DispatchMoves
  BY <1>0, <1>21 DEF PlainTool, Starting
<1>22. ASSUME NEW r \in RunIds, PostOptions(r) PROVE DispatchMoves
  BY <1>0, <1>22 DEF PostOptions, Starting
<1>23. ASSUME NEW r \in RunIds, TakeOwnerSteer(r) PROVE DispatchMoves
  BY <1>0, <1>23 DEF TakeOwnerSteer, Starting
<1>24. ASSUME NEW r \in RunIds, AskPost(r) PROVE DispatchMoves
  BY <1>0, <1>24 DEF AskPost, Starting
<1>25. ASSUME NEW r \in RunIds, AskActivate(r) PROVE DispatchMoves
  BY <1>0, <1>25 DEF AskActivate, MarkWaitingInput, Starting
<1>26. ASSUME NEW r \in RunIds, AskWakes(r) PROVE DispatchMoves
  BY <1>0, <1>26 DEF AskWakes, Starting
<1>27. ASSUME NEW r \in RunIds, AskTimesOut(r) PROVE DispatchMoves
  BY <1>0, <1>27 DEF AskTimesOut, MarkRunning, Starting
<1>28. ASSUME NEW r \in RunIds, ConsentOffer(r) PROVE DispatchMoves
  BY <1>0, <1>28 DEF ConsentOffer, Starting
<1>29. ASSUME NEW r \in RunIds, ConsentWait(r) PROVE DispatchMoves
  BY <1>0, <1>29 DEF ConsentWait, MarkWaitingInput, Starting
<1>30. ASSUME NEW r \in RunIds, ConsentReturns(r) PROVE DispatchMoves
  BY <1>0, <1>30 DEF ConsentReturns, MarkRunning, Starting
<1>31. ASSUME NEW r \in RunIds, TakeoverMark(r) PROVE DispatchMoves
  BY <1>0, <1>31 DEF TakeoverMark, Starting
<1>32. ASSUME NEW r \in RunIds, TakeoverCancelTask(r) PROVE DispatchMoves
  BY <1>0, <1>32 DEF TakeoverCancelTask, Starting
<1>33. ASSUME NEW r \in RunIds, AnswerLive(r) PROVE DispatchMoves
  BY <1>0, <1>33 DEF AnswerLive, MarkRunning, Starting
<1>34. ASSUME NEW p \in Posts, NEW r \in RunIds, AnswerParked(p, r) PROVE DispatchMoves
  <2> DEFINE x == [Idle EXCEPT !.pc = "accept", !.msg = r]
  <2>0. req' = [req EXCEPT ![p] = x] /\ x.pc = "accept"
    BY <1>0, <1>34 DEF AnswerParked, Idle, Request
  <2> HIDE DEF x
  <2>1. /\ \A q \in Posts, t \in RunIds : q # p => (Starting(q, t)' <=> Starting(q, t))
        /\ \A t \in RunIds : Starting(p, t)' <=> x.pc \in {"claimed", "resume"} /\ x.run = t
    BY <1>0, <2>0, StartingOfOthers
  <2> QED  BY <1>0, <1>34, <2>0, <2>1 DEF AnswerParked, Starting
<1>35. ASSUME NEW r \in RunIds, NEW d \in {"allow", "deny"}, AnswerConsentLive(r, d)
      PROVE  DispatchMoves
  BY <1>0, <1>35 DEF AnswerConsentLive, Starting
<1>36. ASSUME NEW p \in Posts, NEW r \in RunIds, NEW d \in {"allow", "deny"}, AnswerConsentParked(p, r, d)
      PROVE  DispatchMoves
  <2> DEFINE x == IF d = "allow" THEN [Idle EXCEPT !.pc = "accept", !.msg = r]
                  ELSE [Idle EXCEPT !.pc = "kick"]
  <2>0. req' = [req EXCEPT ![p] = x] /\ x.pc \in {"accept", "kick"}
    BY <1>0, <1>36 DEF AnswerConsentParked, Idle, Request
  <2> HIDE DEF x
  <2>1. /\ \A q \in Posts, t \in RunIds : q # p => (Starting(q, t)' <=> Starting(q, t))
        /\ \A t \in RunIds : Starting(p, t)' <=> x.pc \in {"claimed", "resume"} /\ x.run = t
    BY <1>0, <2>0, StartingOfOthers
  <2> QED  BY <1>0, <1>36, <2>0, <2>1 DEF AnswerConsentParked, Starting
<1>37. ASSUME NEW r \in RunIds, NewAttempt(r) PROVE DispatchMoves
  BY <1>0, <1>37 DEF NewAttempt, EndParked, Starting
<1>38. ASSUME ReleaseTakeover PROVE DispatchMoves
  BY <1>0, <1>38 DEF ReleaseTakeover, Starting
<1>39. ASSUME Stop PROVE DispatchMoves
  BY <1>0, <1>39 DEF Stop, Starting
<1>40. ASSUME Shutdown PROVE DispatchMoves
  BY <1>0, <1>40 DEF Shutdown, Starting
<1>41. ASSUME ProcessEnds PROVE DispatchMoves
  BY <1>0, <1>41 DEF ProcessEnds, Idle, Starting
<1>42. ASSUME UNCHANGED vars PROVE DispatchMoves
  BY <1>0, <1>42 DEF vars, Starting
<1> HIDE DEF DispatchMoves, Up, Alive, durable, volatile, history
<1> QED
  BY <1>1, <1>2, <1>3, <1>4, <1>5, <1>6, <1>7, <1>8, <1>9, <1>10, <1>11, <1>12, <1>13,
     <1>14, <1>15, <1>16, <1>17, <1>18, <1>19, <1>20, <1>21, <1>22, <1>23, <1>24, <1>25,
     <1>26, <1>27, <1>28, <1>29, <1>30, <1>31, <1>32, <1>33, <1>34, <1>35, <1>36, <1>37,
     <1>38, <1>39, <1>40, <1>41, <1>42
     DEF Next, Host, Tool, Owner, Exit

(* The follow-up run has its task; otherwise nothing changes but the task of *)
(* the caller, which worked on no run any more.                              *)
LEMMA FollowUpDriven ==
  ASSUME StepFacts, Driven, DispatchMoves, "agent" \notin Faults,
         NEW rest \in [RunIds -> {"none", "live", "cancelling", "stopped", "kick", "dying"}],
         \A r \in RunIds : rest[r] = task[r] \/ (task[r] = "kick" /\ rest[r] = "none"),
         ClaimInboxFollowUp(rest), phase = "up", UNCHANGED <<dispatch, recovered, phase>>
  PROVE  Driven'
<1> USE DEF Driven, DispatchMoves
<1>0. /\ TypeOK /\ RowsInserted
  BY DEF StepFacts
<1>1. CASE BusyRuns(runStatus) = {} /\ inbox # {}
  <2> DEFINE n == runCount + 1
  <2>1. n \in RunIds /\ n > runCount
    BY <1>0, <1>1, BoundsAssumption DEF ClaimInboxFollowUp, RunIds, TypeOK
  <2>2. runStatus' = [runStatus EXCEPT ![n] = "running"] /\ task' = [rest EXCEPT ![n] = "live"]
    BY <1>1 DEF ClaimInboxFollowUp
  <2>3. \A r \in RunIds : runStatus[r] # "running"
    BY <1>1 DEF BusyRuns, WithStatus, Busy
  <2> HIDE DEF n
  <2> QED  BY <1>0, <2>1, <2>2, <2>3 DEF TypeOK
<1>2. CASE ~(BusyRuns(runStatus) = {} /\ inbox # {})
  BY <1>0, <1>2 DEF ClaimInboxFollowUp, TypeOK
<1> QED  BY <1>1, <1>2

(* Every step keeps running runs driven. *)
LEMMA DrivenStep ==
  ASSUME TakeoverIsAlone, "agent" \notin Faults, TurnInvariant, [Next]_vars, TurnFacts, Driven
  PROVE  Driven'
<1>1000. /\ StepFacts /\ DispatchMoves
  BY StepFactsHold, DispatchStep DEF StepFacts
<1>0. /\ StepFacts /\ TurnFacts /\ Driven
      /\ runStatus \in [RunIds -> RunStatus] /\ task \in [RunIds -> {"none", "live", "cancelling", "stopped", "kick", "dying"}]
      /\ dispatch \in [RunIds -> {"none", "pending", "claimed"}]
      /\ tool \in [RunIds -> {"none", "exec", "posted", "askWait", "offered", "consentWait", "marked", "steer"}]
      /\ recovered \in [RunIds -> BOOLEAN] /\ runCount \in Nat
      /\ RowsInserted /\ TakeoverIsOwn /\ NotStarted /\ LiveTurn /\ Leftover /\ OneBusyRun
      /\ RecoveredIsQuiet /\ DyingTurn /\ BootIsAlone /\ StaysCancelled
  BY <1>1000, BoundsAssumption DEF StepFacts, TypeOK
<1>a. /\ StopTakeover(runStatus) \in [RunIds -> RunStatus]
      /\ \A q \in RunIds : StopTakeover(runStatus)[q] =
           IF runStatus[q] = "waiting_takeover" THEN "cancelled" ELSE runStatus[q]
      /\ \A r \in RunIds : runStatus[r] = "waiting_takeover" =>
           WaitingTakeover(runStatus) = {r} /\ Latest(WaitingTakeover(runStatus)) = r
  BY <1>1000 DEF StepFacts
<1>s. "takeover" \in Tools =>
        MaxStops = 0 /\ "midtool" \notin Faults /\ "shutdown" \notin Faults
  BY DEF TakeoverIsAlone
<1>m. DispatchMoves
  BY <1>1000
<1>t. task \in [RunIds -> {"none", "live", "cancelling", "stopped", "kick", "dying"}]
  BY <1>0
<1> USE DEF Driven, TurnFacts, StoppedIsOver, ParkedHasTurn, BootFinds, StartedIsBusy, NotStarted, LiveTurn,
            Leftover, RowsInserted, TakeoverIsOwn, RecoveredIsQuiet, DyingTurn, BootIsAlone, StaysCancelled,
            DispatchMoves, Up, Alive, durable, volatile, history
<1>1. ASSUME NEW p \in Posts, NEW c \in Commands, SendCommand(p, c) PROVE Driven'
  BY <1>0, <1>m, <1>1 DEF SendCommand
<1>2. ASSUME NEW p \in Posts, NEW n \in Notes, SendNote(p, n) PROVE Driven'
  BY <1>0, <1>m, <1>2 DEF SendNote
<1>3. ASSUME NEW p \in Posts, BeginReplayed(p) PROVE Driven'
  BY <1>0, <1>a, <1>m, <1>3 DEF BeginReplayed
<1>4. ASSUME NEW p \in Posts, BeginQueued(p) PROVE Driven'
  BY <1>0, <1>a, <1>m, <1>4 DEF BeginQueued
<1>5. ASSUME NEW p \in Posts, BeginCreated(p) PROVE Driven'
  <2> DEFINE n == runCount + 1
             st == Supersede(StopTakeover(runStatus))
  <2>1. /\ n \in RunIds /\ n > runCount /\ runStatus[n] = "none"
        /\ runStatus' = [st EXCEPT ![n] = "running"] /\ st \in [RunIds -> RunStatus]
    BY <1>0, <1>a, <1>5, SendTypes, BoundsAssumption DEF BeginCreated, RunIds
  <2>2. \A q \in RunIds : \/ st[q] = runStatus[q]
                          \/ runStatus[q] \in Superseded /\ st[q] = "cancelled"
    BY <1>0, <1>5, SupersedeClears DEF BeginCreated
  <2>3. /\ dispatch' = [dispatch EXCEPT ![n] = "pending"] /\ phase = "up" /\ UNCHANGED <<phase, recovered, task>>
    BY <1>5 DEF BeginCreated
  <2> HIDE DEF n, st
  <2> QED  BY <1>0, <1>m, <2>1, <2>2, <2>3
<1>6. ASSUME NEW p \in Posts, ClaimDispatch(p) PROVE Driven'
  BY <1>0, <1>m, <1>6 DEF ClaimDispatch
<1>7. ASSUME NEW p \in Posts, StartClaimedTurn(p) PROVE Driven'
  BY <1>0, <1>m, <1>7 DEF StartClaimedTurn
<1>8. ASSUME NEW p \in Posts, ResumePendingDispatch(p) PROVE Driven'
  BY <1>0, <1>m, <1>8 DEF ResumePendingDispatch
<1>9. ASSUME NEW p \in Posts, AgentFails(p) PROVE Driven'
  BY <1>0, <1>m, <1>9 DEF AgentFails
<1>10. ASSUME NEW p \in Posts, KickAfterDeny(p) PROVE Driven'
  <2> DEFINE rest == task
  <2>1. /\ ClaimInboxFollowUp(rest) /\ phase = "up"
        /\ UNCHANGED <<dispatch, recovered, phase>>
    BY <1>10 DEF KickAfterDeny
  <2>2. /\ rest \in [RunIds -> {"none", "live", "cancelling", "stopped", "kick", "dying"}]
        /\ \A q \in RunIds : rest[q] = task[q] \/ (task[q] = "kick" /\ rest[q] = "none")
    BY <1>t, <1>10 DEF KickAfterTurn
  <2> HIDE DEF rest, Driven, TurnFacts, StoppedIsOver, ParkedHasTurn, BootFinds, StartedIsBusy, NotStarted, LiveTurn,
               Leftover, RowsInserted, TakeoverIsOwn, RecoveredIsQuiet, DyingTurn, BootIsAlone,
               StaysCancelled, DispatchMoves
  <2> QED  BY <1>0, <1>m, <2>1, <2>2, FollowUpDriven
<1>11. ASSUME KickAfterBoot PROVE Driven'
  <2> DEFINE rest == task
  <2>1. /\ ClaimInboxFollowUp(rest) /\ phase = "up"
        /\ UNCHANGED <<dispatch, recovered, phase>>
    BY <1>11 DEF KickAfterBoot
  <2>2. /\ rest \in [RunIds -> {"none", "live", "cancelling", "stopped", "kick", "dying"}]
        /\ \A q \in RunIds : rest[q] = task[q] \/ (task[q] = "kick" /\ rest[q] = "none")
    BY <1>t, <1>11 DEF KickAfterTurn
  <2> HIDE DEF rest, Driven, TurnFacts, StoppedIsOver, ParkedHasTurn, BootFinds, StartedIsBusy, NotStarted, LiveTurn,
               Leftover, RowsInserted, TakeoverIsOwn, RecoveredIsQuiet, DyingTurn, BootIsAlone,
               StaysCancelled, DispatchMoves
  <2> QED  BY <1>0, <1>m, <2>1, <2>2, FollowUpDriven
<1>12. ASSUME NEW r \in RunIds, KickAfterTurn(r) PROVE Driven'
  <2> DEFINE rest == [task EXCEPT ![r] = "none"]
  <2>1. /\ ClaimInboxFollowUp(rest) /\ phase = "up"
        /\ UNCHANGED <<dispatch, recovered, phase>>
    BY <1>12 DEF KickAfterTurn
  <2>2. /\ rest \in [RunIds -> {"none", "live", "cancelling", "stopped", "kick", "dying"}]
        /\ \A q \in RunIds : rest[q] = task[q] \/ (task[q] = "kick" /\ rest[q] = "none")
    BY <1>t, <1>12 DEF KickAfterTurn
  <2> HIDE DEF rest, Driven, TurnFacts, StoppedIsOver, ParkedHasTurn, BootFinds, StartedIsBusy, NotStarted, LiveTurn,
               Leftover, RowsInserted, TakeoverIsOwn, RecoveredIsQuiet, DyingTurn, BootIsAlone,
               StaysCancelled, DispatchMoves
  <2> QED  BY <1>0, <1>m, <2>1, <2>2, FollowUpDriven
<1>13. ASSUME NEW r \in RunIds, KickFails(r) PROVE Driven'
  BY <1>0, <1>m, <1>13 DEF KickFails
<1>14. ASSUME NEW r \in RunIds, NEW o \in Outcomes, TurnEnds(r, o) PROVE Driven'
  BY <1>0, <1>m, <1>14, BoundsAssumption DEF TurnEnds, FinishTurn, SkipFinish, LeaveParkedWait, TaskUnchanged, TurnOutcomes
<1>15. ASSUME NEW r \in RunIds, TurnUnwinds(r) PROVE Driven'
  <2>1. \/ runStatus' = [runStatus EXCEPT ![r] = "cancelled"]
        \/ runStatus' = runStatus /\ runStatus[r] # "running"
    <3>1. ASSUME WaitingTakeover(runStatus) # {}, Latest(WaitingTakeover(runStatus)) = r
          PROVE  runStatus[r] = "waiting_takeover"
      <4>1. PICK w \in RunIds : runStatus[w] = "waiting_takeover"
        BY <3>1 DEF WaitingTakeover, WithStatus
      <4> QED  BY <1>a, <3>1, <4>1
    <3> QED  BY <1>15, <3>1 DEF TurnUnwinds, FinishTurn, SkipFinish, LeaveParkedWait, ParkedWait
  <2>2. task' = [task EXCEPT ![r] = "none"] /\ UNCHANGED <<dispatch, recovered, phase>>
    BY <1>15 DEF TurnUnwinds, TaskUnchanged
  <2> QED  BY <1>0, <1>m, <2>1, <2>2
<1>16. ASSUME NEW r \in RunIds, NEW o \in Outcomes, DyingTurnEnds(r, o) PROVE Driven'
  BY <1>0, <1>m, <1>16, BoundsAssumption DEF DyingTurnEnds, FinishTurn, TaskUnchanged, TurnOutcomes
<1>17. ASSUME NEW r \in RunIds, RecoverRun(r) PROVE Driven'
  BY <1>0, <1>m, <1>17 DEF RecoverRun
<1>18. ASSUME BootStarts PROVE Driven'
  BY <1>0, <1>m, <1>18 DEF BootStarts
<1>19. ASSUME BootEnds PROVE Driven'
  BY <1>0, <1>m, <1>19 DEF BootEnds
<1>20. ASSUME NEW r \in RunIds, ToolStarts(r) PROVE Driven'
  BY <1>0, <1>m, <1>20 DEF ToolStarts
<1>21. ASSUME NEW r \in RunIds, PlainTool(r) PROVE Driven'
  BY <1>0, <1>m, <1>21 DEF PlainTool
<1>22. ASSUME NEW r \in RunIds, PostOptions(r) PROVE Driven'
  BY <1>0, <1>m, <1>22 DEF PostOptions
<1>23. ASSUME NEW r \in RunIds, TakeOwnerSteer(r) PROVE Driven'
  BY <1>0, <1>m, <1>23 DEF TakeOwnerSteer
<1>24. ASSUME NEW r \in RunIds, AskPost(r) PROVE Driven'
  BY <1>0, <1>m, <1>24 DEF AskPost
<1>25. ASSUME NEW r \in RunIds, AskActivate(r) PROVE Driven'
  BY <1>0, <1>m, <1>25 DEF AskActivate, MarkWaitingInput
<1>26. ASSUME NEW r \in RunIds, AskWakes(r) PROVE Driven'
  BY <1>0, <1>m, <1>26 DEF AskWakes
<1>27. ASSUME NEW r \in RunIds, AskTimesOut(r) PROVE Driven'
  BY <1>0, <1>m, <1>27 DEF AskTimesOut, MarkRunning
<1>28. ASSUME NEW r \in RunIds, ConsentOffer(r) PROVE Driven'
  BY <1>0, <1>m, <1>28 DEF ConsentOffer
<1>29. ASSUME NEW r \in RunIds, ConsentWait(r) PROVE Driven'
  BY <1>0, <1>m, <1>29 DEF ConsentWait, MarkWaitingInput
<1>30. ASSUME NEW r \in RunIds, ConsentReturns(r) PROVE Driven'
  BY <1>0, <1>m, <1>30 DEF ConsentReturns, MarkRunning
<1>31. ASSUME NEW r \in RunIds, TakeoverMark(r) PROVE Driven'
  BY <1>0, <1>m, <1>31 DEF TakeoverMark
<1>32. ASSUME NEW r \in RunIds, TakeoverCancelTask(r) PROVE Driven'
  BY <1>0, <1>m, <1>32 DEF TakeoverCancelTask
<1>33. ASSUME NEW r \in RunIds, AnswerLive(r) PROVE Driven'
  BY <1>0, <1>m, <1>33 DEF AnswerLive, MarkRunning
<1>34. ASSUME NEW p \in Posts, NEW r \in RunIds, AnswerParked(p, r) PROVE Driven'
  BY <1>0, <1>m, <1>34 DEF AnswerParked, EndParked, ParkedQuestion
<1>35. ASSUME NEW r \in RunIds, NEW d \in {"allow", "deny"}, AnswerConsentLive(r, d)
      PROVE  Driven'
  BY <1>0, <1>m, <1>35 DEF AnswerConsentLive
<1>36. ASSUME NEW p \in Posts, NEW r \in RunIds, NEW d \in {"allow", "deny"}, AnswerConsentParked(p, r, d)
      PROVE  Driven'
  BY <1>0, <1>m, <1>36 DEF AnswerConsentParked, EndParked
<1>37. ASSUME NEW r \in RunIds, NewAttempt(r) PROVE Driven'
  BY <1>0, <1>m, <1>37 DEF NewAttempt, EndParked
<1>38. ASSUME ReleaseTakeover PROVE Driven'
  <2>1. PICK r \in RunIds : runStatus[r] = "waiting_takeover"
    BY <1>38 DEF ReleaseTakeover, WaitingTakeover, WithStatus
  <2>2. Latest(WaitingTakeover(runStatus)) = r
    BY <1>a, <2>1
  <2>3. /\ runStatus' = [runStatus EXCEPT ![r] = "running"]
        /\ task' = [task EXCEPT ![r] = IF @ = "none" THEN "live" ELSE @]
        /\ phase = "up" /\ task[r] \in {"live", "cancelling", "none"}
        /\ UNCHANGED <<dispatch, recovered, phase>>
    BY <1>0, <1>38, <2>1, <2>2 DEF ReleaseTakeover, MarkRunning
  <2> QED  BY <1>0, <1>m, <2>1, <2>3
<1>39. ASSUME Stop PROVE Driven'
  BY <1>0, <1>m, <1>39 DEF Stop, Busy
<1>40. ASSUME Shutdown PROVE Driven'
  BY <1>0, <1>m, <1>40 DEF Shutdown
<1>41. ASSUME ProcessEnds PROVE Driven'
  BY <1>0, <1>m, <1>41 DEF ProcessEnds
<1>42. ASSUME UNCHANGED vars PROVE Driven'
  BY <1>0, <1>m, <1>42 DEF vars
<1> HIDE DEF Driven, TurnFacts, StoppedIsOver, ParkedHasTurn, BootFinds, StartedIsBusy, NotStarted, LiveTurn, Leftover, RowsInserted, TakeoverIsOwn, RecoveredIsQuiet, DyingTurn, BootIsAlone, StaysCancelled, DispatchMoves, Up, Alive, durable, volatile, history
<1> QED
  BY <1>1, <1>2, <1>3, <1>4, <1>5, <1>6, <1>7, <1>8, <1>9, <1>10, <1>11, <1>12, <1>13,
     <1>14, <1>15, <1>16, <1>17, <1>18, <1>19, <1>20, <1>21, <1>22, <1>23, <1>24, <1>25,
     <1>26, <1>27, <1>28, <1>29, <1>30, <1>31, <1>32, <1>33, <1>34, <1>35, <1>36, <1>37,
     <1>38, <1>39, <1>40, <1>41, <1>42
     DEF Next, Host, Tool, Owner, Exit

(* Whoever kicks leaves no message behind without a busy run. *)
LEMMA FollowUpWatched ==
  ASSUME NEW rest, ClaimInboxFollowUp(rest)
  PROVE  inbox' = {} \/ BusyRuns(runStatus') # {}
BY DEF ClaimInboxFollowUp

(* Every step keeps the inbox watched. *)
LEMMA WatchedStep ==
  ASSUME "takeover" \notin Tools, "agent" \notin Faults, TurnInvariant, [Next]_vars, TurnFacts,
         InboxWatched
  PROVE  InboxWatched'
<1>1000. /\ StepFacts /\ DispatchMoves /\ NoTakeover
         /\ WaitingTakeover(runStatus) = {} /\ StopTakeover(runStatus) = runStatus
  BY PlainStepFacts, DispatchStep DEF StepFacts
<1>0. /\ StepFacts /\ TurnFacts /\ InboxWatched
      /\ runStatus \in [RunIds -> RunStatus] /\ task \in [RunIds -> {"none", "live", "cancelling", "stopped", "kick", "dying"}]
      /\ req \in [Posts -> Request] /\ dispatch \in [RunIds -> {"none", "pending", "claimed"}]
      /\ tool \in [RunIds -> {"none", "exec", "posted", "askWait", "offered", "consentWait", "marked", "steer"}]
      /\ recovered \in [RunIds -> BOOLEAN] /\ runCount \in Nat
      /\ RowsInserted /\ NoTakeover /\ NotStarted /\ LiveTurn /\ Leftover /\ OneBusyRun
      /\ RecoveredIsQuiet /\ DyingTurn /\ BootIsAlone /\ StaysCancelled
      /\ WaitingTakeover(runStatus) = {} /\ StopTakeover(runStatus) = runStatus
  BY <1>1000, BoundsAssumption DEF StepFacts, TypeOK
<1>m. DispatchMoves
  BY <1>1000
<1>t. task \in [RunIds -> {"none", "live", "cancelling", "stopped", "kick", "dying"}]
  BY <1>0
<1> USE DEF BusyRuns, WithStatus, Busy, InboxWatched, TurnFacts, StoppedIsOver, ParkedHasTurn, BootFinds, StartedIsBusy, NotStarted, LiveTurn,
            Leftover, RowsInserted, NoTakeover, RecoveredIsQuiet, DyingTurn, BootIsAlone, StaysCancelled,
            DispatchMoves, Up, Alive, durable, volatile, history
<1>1. ASSUME NEW p \in Posts, NEW c \in Commands, SendCommand(p, c) PROVE InboxWatched'
  BY <1>0, <1>1 DEF SendCommand, Idle
<1>2. ASSUME NEW p \in Posts, NEW n \in Notes, SendNote(p, n) PROVE InboxWatched'
  BY <1>0, <1>2 DEF SendNote
<1>3. ASSUME NEW p \in Posts, BeginReplayed(p) PROVE InboxWatched'
  BY <1>0, <1>3, MessagesAssumption DEF BeginReplayed, Idle
<1>4. ASSUME NEW p \in Posts, BeginQueued(p) PROVE InboxWatched'
  BY <1>0, <1>4 DEF BeginQueued, ActiveRun, NoRun
<1>5. ASSUME NEW p \in Posts, BeginCreated(p) PROVE InboxWatched'
  <2>1. runCount + 1 \in RunIds /\ Supersede(runStatus) \in [RunIds -> RunStatus]
    BY <1>0, <1>5, BoundsAssumption, SendTypes DEF BeginCreated, RunIds
  <2>2. runStatus'[runCount + 1] = "running"
    BY <1>0, <1>5, <2>1 DEF BeginCreated
  <2> QED  BY <2>1, <2>2
<1>6. ASSUME NEW p \in Posts, ClaimDispatch(p) PROVE InboxWatched'
  BY <1>0, <1>6 DEF ClaimDispatch, Idle
<1>7. ASSUME NEW p \in Posts, StartClaimedTurn(p) PROVE InboxWatched'
  <2>1. /\ \A q \in Posts : req[q].pc \in {"kick", "accept"} => req'[q] = req[q]
        /\ Starting(p, req[p].run) /\ inbox' \subseteq inbox
    BY <1>0, <1>7 DEF StartClaimedTurn, Starting
  <2>2. \A q \in RunIds : task[q] = "kick" => task'[q] = "kick"
    BY <1>0, <1>7, <2>1 DEF StartClaimedTurn
  <2> QED  BY <1>0, <1>7, <2>1, <2>2 DEF StartClaimedTurn
<1>8. ASSUME NEW p \in Posts, ResumePendingDispatch(p) PROVE InboxWatched'
  <2>1. /\ \A q \in Posts : req[q].pc \in {"kick", "accept"} => req'[q] = req[q]
        /\ Starting(p, req[p].run) /\ inbox' \subseteq inbox
    BY <1>0, <1>8 DEF ResumePendingDispatch, Starting
  <2>2. \A q \in RunIds : task[q] = "kick" => task'[q] = "kick"
    BY <1>0, <1>8, <2>1 DEF ResumePendingDispatch
  <2> QED  BY <1>0, <1>8, <2>1, <2>2 DEF ResumePendingDispatch
<1>9. ASSUME NEW p \in Posts, AgentFails(p) PROVE InboxWatched'
  BY <1>0, <1>9 DEF AgentFails
<1>10. ASSUME NEW p \in Posts, KickAfterDeny(p) PROVE InboxWatched'
  BY <1>0, <1>10, FollowUpWatched DEF KickAfterDeny
<1>11. ASSUME KickAfterBoot PROVE InboxWatched'
  BY <1>0, <1>11, FollowUpWatched DEF KickAfterBoot
<1>12. ASSUME NEW r \in RunIds, KickAfterTurn(r) PROVE InboxWatched'
  BY <1>0, <1>12, FollowUpWatched DEF KickAfterTurn
<1>13. ASSUME NEW r \in RunIds, KickFails(r) PROVE InboxWatched'
  BY <1>0, <1>13 DEF KickFails
<1>14. ASSUME NEW r \in RunIds, NEW o \in Outcomes, TurnEnds(r, o) PROVE InboxWatched'
  <2>1. ~LeaveParkedWait(r) /\ ~recovered[r] /\ runStatus[r] # "unknown"
    BY <1>0, <1>14 DEF TurnEnds, LeaveParkedWait
  <2>2. CASE runStatus[r] = "cancelled"
    BY <1>0, <1>14, <2>1, <2>2, BoundsAssumption
       DEF TurnEnds, FinishTurn, SkipFinish, TaskUnchanged, TurnOutcomes
  <2>3. CASE runStatus[r] # "cancelled" /\ o = "unknown"
    BY <1>0, <1>14, <2>1, <2>3 DEF TurnEnds, FinishTurn, SkipFinish
  <2>4. CASE runStatus[r] # "cancelled" /\ o # "unknown"
    <3>1. o \in {"completed", "failed"} /\ runStatus' = [runStatus EXCEPT ![r] = o]
      BY <1>0, <1>14, <2>1, <2>4, BoundsAssumption DEF TurnEnds, FinishTurn, SkipFinish, TurnOutcomes
    <3>2. task'[r] = "kick"
      BY <1>0, <1>14, <2>1, <2>4, <3>1 DEF TurnEnds
    <3> QED  BY <3>2
  <2> QED  BY <2>2, <2>3, <2>4
<1>15. ASSUME NEW r \in RunIds, TurnUnwinds(r) PROVE InboxWatched'
  <2>1. CASE phase = "up"
    <3>1. runStatus[r] = "cancelled" /\ task[r] = "stopped"
      BY <1>0, <1>15, <2>1 DEF TurnUnwinds
    <3>2. runStatus' = runStatus
      BY <1>0, <1>15, <3>1 DEF TurnUnwinds, FinishTurn, SkipFinish
    <3> QED  BY <1>0, <1>15, <3>1, <3>2 DEF TurnUnwinds, TaskUnchanged
  <2>2. CASE phase # "up"
    BY <1>15, <2>2 DEF TurnUnwinds, TaskUnchanged
  <2> QED  BY <2>1, <2>2
<1>16. ASSUME NEW r \in RunIds, NEW o \in Outcomes, DyingTurnEnds(r, o) PROVE InboxWatched'
  <2>1. recovered[r] \/ runStatus[r] = "cancelled"
    BY <1>0, <1>16 DEF DyingTurnEnds
  <2>2. runStatus' = runStatus
    BY <2>1, <1>16, BoundsAssumption DEF DyingTurnEnds, FinishTurn, SkipFinish, TurnOutcomes
  <2> QED  BY <1>0, <1>16, <2>2 DEF DyingTurnEnds, TaskUnchanged
<1>17. ASSUME NEW r \in RunIds, RecoverRun(r) PROVE InboxWatched'
  BY <1>0, <1>17 DEF RecoverRun
<1>18. ASSUME BootStarts PROVE InboxWatched'
  BY <1>0, <1>18 DEF BootStarts
<1>19. ASSUME BootEnds PROVE InboxWatched'
  BY <1>0, <1>19 DEF BootEnds
<1>20. ASSUME NEW r \in RunIds, ToolStarts(r) PROVE InboxWatched'
  BY <1>0, <1>20 DEF ToolStarts
<1>21. ASSUME NEW r \in RunIds, PlainTool(r) PROVE InboxWatched'
  BY <1>0, <1>21 DEF PlainTool
<1>22. ASSUME NEW r \in RunIds, PostOptions(r) PROVE InboxWatched'
  BY <1>0, <1>22 DEF PostOptions
<1>23. ASSUME NEW r \in RunIds, TakeOwnerSteer(r) PROVE InboxWatched'
  BY <1>0, <1>23 DEF TakeOwnerSteer
<1>24. ASSUME NEW r \in RunIds, AskPost(r) PROVE InboxWatched'
  BY <1>0, <1>24 DEF AskPost
<1>25. ASSUME NEW r \in RunIds, AskActivate(r) PROVE InboxWatched'
  BY <1>0, <1>25 DEF AskActivate, MarkWaitingInput
<1>26. ASSUME NEW r \in RunIds, AskWakes(r) PROVE InboxWatched'
  BY <1>0, <1>26 DEF AskWakes
<1>27. ASSUME NEW r \in RunIds, AskTimesOut(r) PROVE InboxWatched'
  BY <1>0, <1>27 DEF AskTimesOut, MarkRunning
<1>28. ASSUME NEW r \in RunIds, ConsentOffer(r) PROVE InboxWatched'
  BY <1>0, <1>28 DEF ConsentOffer
<1>29. ASSUME NEW r \in RunIds, ConsentWait(r) PROVE InboxWatched'
  BY <1>0, <1>29 DEF ConsentWait, MarkWaitingInput
<1>30. ASSUME NEW r \in RunIds, ConsentReturns(r) PROVE InboxWatched'
  BY <1>0, <1>30 DEF ConsentReturns, MarkRunning
<1>31. ASSUME NEW r \in RunIds, TakeoverMark(r) PROVE InboxWatched'
  BY <1>0, <1>31 DEF TakeoverMark
<1>32. ASSUME NEW r \in RunIds, TakeoverCancelTask(r) PROVE InboxWatched'
  BY <1>0, <1>32 DEF TakeoverCancelTask
<1>33. ASSUME NEW r \in RunIds, AnswerLive(r) PROVE InboxWatched'
  BY <1>0, <1>33 DEF AnswerLive, MarkRunning
<1>34. ASSUME NEW p \in Posts, NEW r \in RunIds, AnswerParked(p, r) PROVE InboxWatched'
  <2>1. req'[p].pc = "accept" /\ req'[p].msg = r /\ phase = "up"
    BY <1>0, <1>34 DEF AnswerParked, Idle
  <2> QED  BY <2>1
<1>35. ASSUME NEW r \in RunIds, NEW d \in {"allow", "deny"}, AnswerConsentLive(r, d)
      PROVE  InboxWatched'
  BY <1>0, <1>35 DEF AnswerConsentLive
<1>36. ASSUME NEW p \in Posts, NEW r \in RunIds, NEW d \in {"allow", "deny"}, AnswerConsentParked(p, r, d)
      PROVE  InboxWatched'
  <2>1. req'[p].pc = "kick" \/ (req'[p].pc = "accept" /\ req'[p].msg = r)
    BY <1>0, <1>36 DEF AnswerConsentParked, Idle
  <2> QED  BY <2>1
<1>37. ASSUME NEW r \in RunIds, NewAttempt(r) PROVE InboxWatched'
  BY <1>37 DEF NewAttempt
<1>38. ASSUME ReleaseTakeover PROVE InboxWatched'
  BY <1>0, <1>38 DEF ReleaseTakeover
<1>39. ASSUME Stop PROVE InboxWatched'
  BY <1>39 DEF Stop
<1>40. ASSUME Shutdown PROVE InboxWatched'
  BY <1>0, <1>40 DEF Shutdown
<1>41. ASSUME ProcessEnds PROVE InboxWatched'
  BY <1>0, <1>41 DEF ProcessEnds
<1>42. ASSUME UNCHANGED vars PROVE InboxWatched'
  BY <1>0, <1>42 DEF vars
<1> HIDE DEF InboxWatched, TurnFacts, StoppedIsOver, ParkedHasTurn, BootFinds, StartedIsBusy, NotStarted, LiveTurn, Leftover, RowsInserted, NoTakeover, RecoveredIsQuiet, DyingTurn, BootIsAlone, StaysCancelled, DispatchMoves, BusyRuns, WithStatus, Busy, Up, Alive, durable, volatile, history
<1> QED
  BY <1>1, <1>2, <1>3, <1>4, <1>5, <1>6, <1>7, <1>8, <1>9, <1>10, <1>11, <1>12, <1>13,
     <1>14, <1>15, <1>16, <1>17, <1>18, <1>19, <1>20, <1>21, <1>22, <1>23, <1>24, <1>25,
     <1>26, <1>27, <1>28, <1>29, <1>30, <1>31, <1>32, <1>33, <1>34, <1>35, <1>36, <1>37,
     <1>38, <1>39, <1>40, <1>41, <1>42
     DEF Next, Host, Tool, Owner, Exit

(* The follow-up takes queued commands only. *)
LEMMA FollowUpCommands ==
  ASSUME OnlyCommands, TypeOK, RowsInserted, NEW rest, ClaimInboxFollowUp(rest),
         UNCHANGED <<dispatch, recovered, ask, consentReq, tool, question>>,
         \A p \in Posts : req'[p].pc = "accept" => req'[p].msg \in Commands
  PROVE  OnlyCommands'
<1> USE DEF OnlyCommands
<1>1. CASE BusyRuns(runStatus) = {} /\ inbox # {}
  <2> DEFINE n == runCount + 1
  <2>1. n \in RunIds /\ n > runCount /\ n # NoRun
    BY <1>1, BoundsAssumption DEF ClaimInboxFollowUp, RunIds, TypeOK, NoRun
  <2>2. /\ runStatus' = [runStatus EXCEPT ![n] = "running"] /\ inbox' = {}
        /\ cmdRun' = [c \in Commands |-> IF c \in inbox THEN n ELSE cmdRun[c]]
    BY <1>1 DEF ClaimInboxFollowUp
  <2> HIDE DEF n
  <2> QED  BY <2>1, <2>2 DEF TypeOK, RowsInserted
<1>2. CASE ~(BusyRuns(runStatus) = {} /\ inbox # {})
  BY <1>2 DEF ClaimInboxFollowUp
<1> QED  BY <1>1, <1>2

(* Every step keeps it so that nothing waits and every dispatch has its command. *)
LEMMA OnlyCommandsStep ==
  ASSUME Tools \subseteq {"plain", "takeover"}, TakeoverIsAlone, Notes = {}, TurnInvariant, [Next]_vars, OnlyCommands
  PROVE  OnlyCommands'
<1>1000. StepFacts
  BY StepFactsHold
<1>0. /\ OnlyCommands /\ Tools \subseteq {"plain", "takeover"} /\ Notes = {}
      /\ runStatus \in [RunIds -> RunStatus] /\ dispatch \in [RunIds -> {"none", "pending", "claimed"}]
      /\ tool \in [RunIds -> {"none", "exec", "posted", "askWait", "offered", "consentWait", "marked", "steer"}]
      /\ cmdRun \in [Commands -> RunIds \cup {NoRun}] /\ recovered \in [RunIds -> BOOLEAN] /\ runCount \in Nat
      /\ req \in [Posts -> Request] /\ ask \in [RunIds -> {"none", "pending", "answered"}]
      /\ TypeOK /\ RowsInserted /\ TakeoverIsOwn /\ OneBusyRun
  BY <1>1000, BoundsAssumption DEF StepFacts, TypeOK
<1>a. /\ StopTakeover(runStatus) \in [RunIds -> RunStatus]
      /\ \A q \in RunIds : StopTakeover(runStatus)[q] =
           IF runStatus[q] = "waiting_takeover" THEN "cancelled" ELSE runStatus[q]
      /\ \A r \in RunIds : runStatus[r] = "waiting_takeover" =>
           WaitingTakeover(runStatus) = {r} /\ Latest(WaitingTakeover(runStatus)) = r
  BY <1>1000 DEF StepFacts
<1>s. "takeover" \in Tools =>
        MaxStops = 0 /\ "midtool" \notin Faults /\ "shutdown" \notin Faults
  BY DEF TakeoverIsAlone
<1>d. dispatch \in [RunIds -> {"none", "pending", "claimed"}]
  BY <1>0
<1>r. req \in [Posts -> Request]
  BY <1>0
<1>f. OnlyCommands /\ TypeOK /\ RowsInserted
  BY <1>0
<1> USE DEF OnlyCommands, RowsInserted, TakeoverIsOwn, Up, Alive, durable, volatile, history
<1>1. ASSUME NEW p \in Posts, NEW c \in Commands, SendCommand(p, c) PROVE OnlyCommands'
  <2>1. \A r \in RunIds : dispatch'[r] = "pending" => dispatch[r] = "pending"
    BY <1>d, <1>1 DEF SendCommand
  <2>2. \A q \in Posts : req'[q].pc = "accept" => req'[q].msg \in Commands
    <3> DEFINE x == IF cmdRun[c] = NoRun THEN [Idle EXCEPT !.pc = "accept", !.msg = c]
                  ELSE [pc |-> "resume", msg |-> c, run |-> cmdRun[c], fresh |-> FALSE]
    <3>1. req' = [req EXCEPT ![p] = x]
      BY <1>d, <1>1 DEF SendCommand
    <3>2. x.pc = "accept" => x.msg \in Commands
      BY <1>r, <1>1 DEF SendCommand, Idle, Request
    <3> HIDE DEF x
    <3> QED  BY <1>0, <3>1, <3>2
  <2>3. UNCHANGED <<cmdRun, inbox, runStatus, ask, consentReq, question, recovered, tool>>
    BY <1>0, <1>1 DEF SendCommand
  <2> QED  BY <1>0, <2>1, <2>2, <2>3
<1>2. ASSUME NEW p \in Posts, NEW n \in Notes, SendNote(p, n) PROVE OnlyCommands'
  BY <1>0, <1>2
<1>3. ASSUME NEW p \in Posts, BeginReplayed(p) PROVE OnlyCommands'
  BY <1>0, <1>a, <1>3 DEF BeginReplayed, Idle
<1>4. ASSUME NEW p \in Posts, BeginQueued(p) PROVE OnlyCommands'
  <2>1. cmdRun' = cmdRun \/ (cmdRun[req[p].msg] = NoRun /\ cmdRun' = [cmdRun EXCEPT ![req[p].msg] = ActiveRun(StopTakeover(runStatus))])
    BY <1>0, <1>4 DEF BeginQueued, RecordCommand, NewMessage
  <2>2. inbox' = inbox \/ (inbox' = inbox \cup {req[p].msg} /\ cmdRun'[req[p].msg] # NoRun)
    BY <1>0, <1>4 DEF BeginQueued, RecordCommand
  <2>3. req[p].msg \in Commands /\ req' = [req EXCEPT ![p] = Idle] /\ NoRun \notin RunIds
    BY <1>0, <1>4 DEF BeginQueued, NoRun, RunIds
  <2>4. ask' = ask
    BY <1>0, <1>4 DEF BeginQueued, AnswerPendingAsks, PendingAsks
  <2>5. /\ UNCHANGED <<dispatch, recovered, consentReq, tool, question>>
        /\ \A q \in RunIds : runStatus'[q] \in {runStatus[q], "cancelled"}
    BY <1>0, <1>a, <1>4 DEF BeginQueued
  <2>6. \A r \in RunIds : dispatch'[r] = "pending" => \E c \in Commands : cmdRun'[c] = r /\ c \notin inbox'
    <3> SUFFICES ASSUME NEW r \in RunIds, dispatch'[r] = "pending"
                 PROVE  \E c \in Commands : cmdRun'[c] = r /\ c \notin inbox'
      OBVIOUS
    <3>1. PICK c \in Commands : cmdRun[c] = r /\ c \notin inbox
      BY <1>0, <2>5
    <3>2. c # req[p].msg
      BY <1>0, <1>4, <2>3, <3>1 DEF BeginQueued, NewMessage
    <3> QED  BY <1>0, <2>1, <2>2, <2>3, <3>1, <3>2
  <2>7. \A c \in Commands : c \in inbox' => cmdRun'[c] # NoRun
    BY <1>0, <2>1, <2>2, <2>3, <2>5
  <2> QED  BY <1>0, <2>3, <2>4, <2>5, <2>6, <2>7 DEF Idle
<1>5. ASSUME NEW p \in Posts, BeginCreated(p) PROVE OnlyCommands'
  <2> DEFINE n == runCount + 1
             m == req[p].msg
             st == Supersede(StopTakeover(runStatus))
  <2>1. /\ n \in RunIds /\ n > runCount /\ ~recovered[n] /\ ask' = ask
        /\ runStatus' = [st EXCEPT ![n] = "running"] /\ st \in [RunIds -> RunStatus]
    BY <1>0, <1>a, <1>5, SendTypes, BoundsAssumption DEF BeginCreated, RunIds, AnswerPendingAsks, PendingAsks
  <2>2. \A q \in RunIds : st[q] = runStatus[q] \/ st[q] = "cancelled"
    BY <1>0, <1>5, SupersedeClears DEF BeginCreated
  <2>3. /\ m \in Commands /\ cmdRun[m] = NoRun /\ cmdRun' = [cmdRun EXCEPT ![m] = n]
        /\ req' = [req EXCEPT ![p] = [pc |-> "begun", msg |-> m, run |-> n, fresh |-> TRUE]]
        /\ dispatch' = [dispatch EXCEPT ![n] = "pending"]
        /\ UNCHANGED <<inbox, recovered, consentReq, tool, question>> /\ NoRun \notin RunIds
    BY <1>0, <1>5 DEF BeginCreated, RecordCommand, NewMessage, NoRun, RunIds
  <2> HIDE DEF n, m, st
  <2>4. \A r \in RunIds : dispatch'[r] = "pending" => \E c \in Commands : cmdRun'[c] = r /\ c \notin inbox'
    <3> SUFFICES ASSUME NEW r \in RunIds, dispatch'[r] = "pending"
                 PROVE  \E c \in Commands : cmdRun'[c] = r /\ c \notin inbox'
      OBVIOUS
    <3>1. CASE r = n
      BY <1>0, <2>3, <3>1
    <3>2. CASE r # n
      BY <1>0, <2>3, <3>2
    <3> QED  BY <3>1, <3>2
  <2>5. /\ \A c \in Commands : c \in inbox' => cmdRun'[c] # NoRun
        /\ \A q \in Posts : req'[q].pc = "accept" => req'[q].msg \in Commands
    BY <1>0, <2>1, <2>3
  <2>6. \A r \in RunIds : /\ runStatus'[r] # "waiting_input"
                          /\ recovered'[r] => runStatus'[r] # "running"
    BY <1>0, <2>1, <2>2, <2>3
  <2> QED  BY <1>0, <2>1, <2>3, <2>4, <2>5, <2>6
<1>6. ASSUME NEW p \in Posts, ClaimDispatch(p) PROVE OnlyCommands'
  <2>1. \A r \in RunIds : dispatch'[r] = "pending" => dispatch[r] = "pending"
    BY <1>d, <1>6 DEF ClaimDispatch
  <2>2. \A q \in Posts : req'[q].pc = "accept" => req'[q].msg \in Commands
    <3> DEFINE x == IF dispatch[req[p].run] = "pending" THEN [req[p] EXCEPT !.pc = "claimed"] ELSE Idle
    <3>1. req' = [req EXCEPT ![p] = x]
      BY <1>d, <1>6 DEF ClaimDispatch
    <3>2. x.pc = "accept" => x.msg \in Commands
      BY <1>r, <1>6 DEF ClaimDispatch, Idle, Request
    <3> HIDE DEF x
    <3> QED  BY <1>0, <3>1, <3>2
  <2>3. UNCHANGED <<cmdRun, inbox, runStatus, ask, consentReq, question, recovered, tool>>
    BY <1>0, <1>6 DEF ClaimDispatch
  <2> QED  BY <1>0, <2>1, <2>2, <2>3
<1>7. ASSUME NEW p \in Posts, StartClaimedTurn(p) PROVE OnlyCommands'
  BY <1>0, <1>7 DEF StartClaimedTurn, Idle
<1>8. ASSUME NEW p \in Posts, ResumePendingDispatch(p) PROVE OnlyCommands'
  BY <1>0, <1>8 DEF ResumePendingDispatch, Idle
<1>9. ASSUME NEW p \in Posts, AgentFails(p) PROVE OnlyCommands'
  BY <1>0, <1>9 DEF AgentFails, Idle
<1>10. ASSUME NEW p \in Posts, KickAfterDeny(p) PROVE OnlyCommands'
  BY <1>0, <1>f, <1>10, FollowUpCommands DEF KickAfterDeny, Idle
<1>11. ASSUME KickAfterBoot PROVE OnlyCommands'
  BY <1>0, <1>f, <1>11, FollowUpCommands DEF KickAfterBoot
<1>12. ASSUME NEW r \in RunIds, KickAfterTurn(r) PROVE OnlyCommands'
  BY <1>0, <1>f, <1>12, FollowUpCommands DEF KickAfterTurn
<1>13. ASSUME NEW r \in RunIds, KickFails(r) PROVE OnlyCommands'
  BY <1>0, <1>13 DEF KickFails
<1>14. ASSUME NEW r \in RunIds, NEW o \in Outcomes, TurnEnds(r, o) PROVE OnlyCommands'
  BY <1>0, <1>14, BoundsAssumption DEF TurnEnds, FinishTurn, TaskUnchanged, TurnOutcomes
<1>15. ASSUME NEW r \in RunIds, TurnUnwinds(r) PROVE OnlyCommands'
  BY <1>0, <1>15 DEF TurnUnwinds, FinishTurn, TaskUnchanged
<1>16. ASSUME NEW r \in RunIds, NEW o \in Outcomes, DyingTurnEnds(r, o) PROVE OnlyCommands'
  BY <1>0, <1>16, BoundsAssumption DEF DyingTurnEnds, FinishTurn, TaskUnchanged, TurnOutcomes
<1>17. ASSUME NEW r \in RunIds, RecoverRun(r) PROVE OnlyCommands'
  BY <1>0, <1>17 DEF RecoverRun, ClassifyOrphan
<1>18. ASSUME BootStarts PROVE OnlyCommands'
  BY <1>0, <1>18 DEF BootStarts
<1>19. ASSUME BootEnds PROVE OnlyCommands'
  BY <1>0, <1>19 DEF BootEnds
<1>20. ASSUME NEW r \in RunIds, ToolStarts(r) PROVE OnlyCommands'
  BY <1>0, <1>20 DEF ToolStarts
<1>21. ASSUME NEW r \in RunIds, PlainTool(r) PROVE OnlyCommands'
  BY <1>0, <1>21 DEF PlainTool
<1>22. ASSUME NEW r \in RunIds, PostOptions(r) PROVE OnlyCommands'
  BY <1>0, <1>22 DEF PostOptions
<1>23. ASSUME NEW r \in RunIds, TakeOwnerSteer(r) PROVE OnlyCommands'
  BY <1>0, <1>23 DEF TakeOwnerSteer
<1>24. ASSUME NEW r \in RunIds, AskPost(r) PROVE OnlyCommands'
  BY <1>0, <1>24 DEF AskPost
<1>25. ASSUME NEW r \in RunIds, AskActivate(r) PROVE OnlyCommands'
  BY <1>0, <1>25 DEF AskActivate
<1>26. ASSUME NEW r \in RunIds, AskWakes(r) PROVE OnlyCommands'
  BY <1>0, <1>26 DEF AskWakes
<1>27. ASSUME NEW r \in RunIds, AskTimesOut(r) PROVE OnlyCommands'
  BY <1>0, <1>27 DEF AskTimesOut, MarkRunning
<1>28. ASSUME NEW r \in RunIds, ConsentOffer(r) PROVE OnlyCommands'
  BY <1>0, <1>28 DEF ConsentOffer
<1>29. ASSUME NEW r \in RunIds, ConsentWait(r) PROVE OnlyCommands'
  BY <1>0, <1>29 DEF ConsentWait, MarkWaitingInput
<1>30. ASSUME NEW r \in RunIds, ConsentReturns(r) PROVE OnlyCommands'
  BY <1>0, <1>30 DEF ConsentReturns, MarkRunning
<1>31. ASSUME NEW r \in RunIds, TakeoverMark(r) PROVE OnlyCommands'
  BY <1>0, <1>31 DEF TakeoverMark
<1>32. ASSUME NEW r \in RunIds, TakeoverCancelTask(r) PROVE OnlyCommands'
  BY <1>0, <1>32 DEF TakeoverCancelTask
<1>33. ASSUME NEW r \in RunIds, AnswerLive(r) PROVE OnlyCommands'
  BY <1>0, <1>33 DEF AnswerLive, MarkRunning
<1>34. ASSUME NEW p \in Posts, NEW r \in RunIds, AnswerParked(p, r) PROVE OnlyCommands'
  BY <1>0, <1>34 DEF AnswerParked, EndParked, ParkedQuestion
<1>35. ASSUME NEW r \in RunIds, NEW d \in {"allow", "deny"}, AnswerConsentLive(r, d)
      PROVE  OnlyCommands'
  BY <1>0, <1>35 DEF AnswerConsentLive
<1>36. ASSUME NEW p \in Posts, NEW r \in RunIds, NEW d \in {"allow", "deny"}, AnswerConsentParked(p, r, d)
      PROVE  OnlyCommands'
  BY <1>0, <1>36 DEF AnswerConsentParked, EndParked
<1>37. ASSUME NEW r \in RunIds, NewAttempt(r) PROVE OnlyCommands'
  BY <1>0, <1>37 DEF NewAttempt, EndParked
<1>38. ASSUME ReleaseTakeover PROVE OnlyCommands'
  <2>1. PICK r \in RunIds : runStatus[r] = "waiting_takeover"
    BY <1>38 DEF ReleaseTakeover, WaitingTakeover, WithStatus
  <2>2. Latest(WaitingTakeover(runStatus)) = r /\ ~recovered[r]
    BY <1>0, <1>a, <2>1
  <2>3. /\ runStatus' = [runStatus EXCEPT ![r] = "running"]
        /\ UNCHANGED <<dispatch, recovered, ask, consentReq, question, tool, cmdRun, inbox, req>>
    BY <1>0, <1>38, <2>1, <2>2 DEF ReleaseTakeover, MarkRunning
  <2> QED  BY <1>0, <2>2, <2>3
<1>39. ASSUME Stop PROVE OnlyCommands'
  BY <1>0, <1>39 DEF Stop
<1>40. ASSUME Shutdown PROVE OnlyCommands'
  BY <1>0, <1>40 DEF Shutdown
<1>41. ASSUME ProcessEnds PROVE OnlyCommands'
  BY <1>0, <1>41 DEF ProcessEnds, Idle
<1>42. ASSUME UNCHANGED vars PROVE OnlyCommands'
  BY <1>0, <1>42 DEF vars
<1> HIDE DEF OnlyCommands, RowsInserted, TakeoverIsOwn, Up, Alive, durable, volatile, history
<1> QED
  BY <1>1, <1>2, <1>3, <1>4, <1>5, <1>6, <1>7, <1>8, <1>9, <1>10, <1>11, <1>12, <1>13,
     <1>14, <1>15, <1>16, <1>17, <1>18, <1>19, <1>20, <1>21, <1>22, <1>23, <1>24, <1>25,
     <1>26, <1>27, <1>28, <1>29, <1>30, <1>31, <1>32, <1>33, <1>34, <1>35, <1>36, <1>37,
     <1>38, <1>39, <1>40, <1>41, <1>42
     DEF Next, Host, Tool, Owner, Exit

(* Every step keeps it so that a tool executes for a live turn. *)
LEMMA ToolStep ==
  ASSUME "takeover" \notin Tools, "midtool" \notin Faults, TurnInvariant, [Next]_vars, TurnFacts,
         ToolHasTurn
  PROVE  ToolHasTurn'
<1>1000. /\ StepFacts /\ DispatchMoves /\ NoTakeover
         /\ WaitingTakeover(runStatus) = {} /\ StopTakeover(runStatus) = runStatus
  BY PlainStepFacts, DispatchStep DEF StepFacts
<1>0. /\ StepFacts /\ TurnFacts /\ ToolHasTurn
      /\ runStatus \in [RunIds -> RunStatus] /\ task \in [RunIds -> {"none", "live", "cancelling", "stopped", "kick", "dying"}]
      /\ "midtool" \notin Faults /\ stops \in Nat /\ dispatch \in [RunIds -> {"none", "pending", "claimed"}]
      /\ tool \in [RunIds -> {"none", "exec", "posted", "askWait", "offered", "consentWait", "marked", "steer"}]
      /\ recovered \in [RunIds -> BOOLEAN] /\ runCount \in Nat
      /\ RowsInserted /\ NoTakeover /\ NotStarted /\ LiveTurn /\ Leftover /\ OneBusyRun
      /\ RecoveredIsQuiet /\ DyingTurn /\ BootIsAlone /\ StaysCancelled
      /\ WaitingTakeover(runStatus) = {} /\ StopTakeover(runStatus) = runStatus
  BY <1>1000, BoundsAssumption DEF StepFacts, TypeOK
<1>m. DispatchMoves
  BY <1>1000
<1>t. task \in [RunIds -> {"none", "live", "cancelling", "stopped", "kick", "dying"}]
  BY <1>0
<1> USE DEF ToolHasTurn, TurnFacts, StoppedIsOver, ParkedHasTurn, BootFinds, StartedIsBusy, NotStarted, LiveTurn,
            Leftover, RowsInserted, NoTakeover, RecoveredIsQuiet, DyingTurn, BootIsAlone, StaysCancelled,
            DispatchMoves, Up, Alive, durable, volatile, history
<1>1. ASSUME NEW p \in Posts, NEW c \in Commands, SendCommand(p, c) PROVE ToolHasTurn'
  BY <1>0, <1>m, <1>1 DEF SendCommand
<1>2. ASSUME NEW p \in Posts, NEW n \in Notes, SendNote(p, n) PROVE ToolHasTurn'
  BY <1>0, <1>m, <1>2 DEF SendNote
<1>3. ASSUME NEW p \in Posts, BeginReplayed(p) PROVE ToolHasTurn'
  BY <1>0, <1>m, <1>3 DEF BeginReplayed
<1>4. ASSUME NEW p \in Posts, BeginQueued(p) PROVE ToolHasTurn'
  BY <1>0, <1>m, <1>4 DEF BeginQueued
<1>5. ASSUME NEW p \in Posts, BeginCreated(p) PROVE ToolHasTurn'
  <2>1. \A q \in RunIds : runStatus[q] \notin {"running", "waiting_input"}
    BY <1>0, <1>m, <1>5, SupersedeClears DEF BeginCreated, Busy, Superseded
  <2>2. \A q \in RunIds : stops = 0 => tool[q] = "none"
    <3>1. ASSUME NEW q \in RunIds, tool[q] # "none", stops = 0 PROVE FALSE
      <4>1. task[q] = "live" /\ dispatch[q] # "pending" /\ phase = "up"
        BY <1>0, <1>5, <3>1 DEF BeginCreated
      <4>2. runStatus[q] \in {"running", "waiting_input"}
        BY <1>0, <3>1, <4>1 DEF Drives
      <4> QED  BY <2>1, <4>2
    <3> QED  BY <3>1
  <2> QED  BY <1>5, <2>2 DEF BeginCreated
<1>6. ASSUME NEW p \in Posts, ClaimDispatch(p) PROVE ToolHasTurn'
  BY <1>0, <1>m, <1>6 DEF ClaimDispatch
<1>7. ASSUME NEW p \in Posts, StartClaimedTurn(p) PROVE ToolHasTurn'
  BY <1>0, <1>m, <1>7 DEF StartClaimedTurn
<1>8. ASSUME NEW p \in Posts, ResumePendingDispatch(p) PROVE ToolHasTurn'
  BY <1>0, <1>m, <1>8 DEF ResumePendingDispatch
<1>9. ASSUME NEW p \in Posts, AgentFails(p) PROVE ToolHasTurn'
  BY <1>0, <1>m, <1>9 DEF AgentFails
<1>10. ASSUME NEW p \in Posts, KickAfterDeny(p) PROVE ToolHasTurn'
  <2>1. \A q \in RunIds : task[q] = "live" => task'[q] = "live"
    BY <1>t, <1>10 DEF KickAfterDeny, ClaimInboxFollowUp
  <2> QED  BY <1>0, <1>m, <1>10, <2>1 DEF KickAfterDeny
<1>11. ASSUME KickAfterBoot PROVE ToolHasTurn'
  <2>1. \A q \in RunIds : task[q] = "live" => task'[q] = "live"
    BY <1>t, <1>11 DEF KickAfterBoot, ClaimInboxFollowUp
  <2> QED  BY <1>0, <1>m, <1>11, <2>1 DEF KickAfterBoot
<1>12. ASSUME NEW r \in RunIds, KickAfterTurn(r) PROVE ToolHasTurn'
  <2>1. \A q \in RunIds : task[q] = "live" => task'[q] = "live"
    BY <1>t, <1>12 DEF KickAfterTurn, ClaimInboxFollowUp
  <2> QED  BY <1>0, <1>m, <1>12, <2>1 DEF KickAfterTurn
<1>13. ASSUME NEW r \in RunIds, KickFails(r) PROVE ToolHasTurn'
  BY <1>0, <1>m, <1>13 DEF KickFails
<1>14. ASSUME NEW r \in RunIds, NEW o \in Outcomes, TurnEnds(r, o) PROVE ToolHasTurn'
  BY <1>0, <1>m, <1>14 DEF TurnEnds, TaskUnchanged
<1>15. ASSUME NEW r \in RunIds, TurnUnwinds(r) PROVE ToolHasTurn'
  BY <1>0, <1>m, <1>15 DEF TurnUnwinds, TaskUnchanged
<1>16. ASSUME NEW r \in RunIds, NEW o \in Outcomes, DyingTurnEnds(r, o) PROVE ToolHasTurn'
  BY <1>0, <1>m, <1>16 DEF DyingTurnEnds, TaskUnchanged
<1>17. ASSUME NEW r \in RunIds, RecoverRun(r) PROVE ToolHasTurn'
  BY <1>0, <1>m, <1>17 DEF RecoverRun
<1>18. ASSUME BootStarts PROVE ToolHasTurn'
  BY <1>0, <1>m, <1>18 DEF BootStarts
<1>19. ASSUME BootEnds PROVE ToolHasTurn'
  BY <1>0, <1>m, <1>19 DEF BootEnds
<1>20. ASSUME NEW r \in RunIds, ToolStarts(r) PROVE ToolHasTurn'
  <2>1. ASSUME stops = 0
        PROVE  \A q \in RunIds : dispatch[q] # "pending" /\ \A p \in Posts : ~Starting(p, q)
    <3>1. runStatus[r] \in {"running", "waiting_input"}
      BY <1>0, <1>m, <1>20, <2>1 DEF ToolStarts, TurnCancelled
    <3>2. \A q \in RunIds : q # r => runStatus[q] # "running"
      BY <1>0, <3>1 DEF OneBusyRun, BusyRuns, WithStatus, Busy
    <3>3. \A q \in RunIds : dispatch[q] = "pending" \/ (\E p \in Posts : Starting(p, q)) =>
            runStatus[q] = "running" /\ task[q] = "none"
      BY <1>0, <2>1
    <3> QED  BY <1>20, <3>2, <3>3 DEF ToolStarts
  <2>2. dispatch' = dispatch /\ stops' = stops /\ task' = task
    BY <1>20 DEF ToolStarts
  <2>3. \A q \in RunIds : tool'[q] # "none" => tool[q] # "none" \/ (q = r /\ task[r] = "live")
    BY <1>0, <1>m, <1>20 DEF ToolStarts
  <2>4. phase' = phase
    BY <1>20 DEF ToolStarts
  <2> QED  BY <1>0, <1>m, <2>1, <2>2, <2>3, <2>4
<1>21. ASSUME NEW r \in RunIds, PlainTool(r) PROVE ToolHasTurn'
  BY <1>0, <1>m, <1>21 DEF PlainTool
<1>22. ASSUME NEW r \in RunIds, PostOptions(r) PROVE ToolHasTurn'
  BY <1>0, <1>m, <1>22 DEF PostOptions
<1>23. ASSUME NEW r \in RunIds, TakeOwnerSteer(r) PROVE ToolHasTurn'
  BY <1>0, <1>m, <1>23 DEF TakeOwnerSteer
<1>24. ASSUME NEW r \in RunIds, AskPost(r) PROVE ToolHasTurn'
  BY <1>0, <1>m, <1>24 DEF AskPost
<1>25. ASSUME NEW r \in RunIds, AskActivate(r) PROVE ToolHasTurn'
  BY <1>0, <1>m, <1>25 DEF AskActivate, MarkWaitingInput
<1>26. ASSUME NEW r \in RunIds, AskWakes(r) PROVE ToolHasTurn'
  BY <1>0, <1>m, <1>26 DEF AskWakes
<1>27. ASSUME NEW r \in RunIds, AskTimesOut(r) PROVE ToolHasTurn'
  BY <1>0, <1>m, <1>27 DEF AskTimesOut, MarkRunning
<1>28. ASSUME NEW r \in RunIds, ConsentOffer(r) PROVE ToolHasTurn'
  BY <1>0, <1>m, <1>28 DEF ConsentOffer
<1>29. ASSUME NEW r \in RunIds, ConsentWait(r) PROVE ToolHasTurn'
  BY <1>0, <1>m, <1>29 DEF ConsentWait, MarkWaitingInput
<1>30. ASSUME NEW r \in RunIds, ConsentReturns(r) PROVE ToolHasTurn'
  BY <1>0, <1>m, <1>30 DEF ConsentReturns, MarkRunning
<1>31. ASSUME NEW r \in RunIds, TakeoverMark(r) PROVE ToolHasTurn'
  BY <1>0, <1>m, <1>31 DEF TakeoverMark
<1>32. ASSUME NEW r \in RunIds, TakeoverCancelTask(r) PROVE ToolHasTurn'
  BY <1>0, <1>m, <1>32 DEF TakeoverCancelTask
<1>33. ASSUME NEW r \in RunIds, AnswerLive(r) PROVE ToolHasTurn'
  BY <1>0, <1>m, <1>33 DEF AnswerLive, MarkRunning
<1>34. ASSUME NEW p \in Posts, NEW r \in RunIds, AnswerParked(p, r) PROVE ToolHasTurn'
  BY <1>0, <1>m, <1>34 DEF AnswerParked, EndParked, ParkedQuestion
<1>35. ASSUME NEW r \in RunIds, NEW d \in {"allow", "deny"}, AnswerConsentLive(r, d)
      PROVE  ToolHasTurn'
  BY <1>0, <1>m, <1>35 DEF AnswerConsentLive
<1>36. ASSUME NEW p \in Posts, NEW r \in RunIds, NEW d \in {"allow", "deny"}, AnswerConsentParked(p, r, d)
      PROVE  ToolHasTurn'
  BY <1>0, <1>m, <1>36 DEF AnswerConsentParked, EndParked
<1>37. ASSUME NEW r \in RunIds, NewAttempt(r) PROVE ToolHasTurn'
  BY <1>0, <1>m, <1>37 DEF NewAttempt, EndParked
<1>38. ASSUME ReleaseTakeover PROVE ToolHasTurn'
  BY <1>0, <1>m, <1>38 DEF ReleaseTakeover
<1>39. ASSUME Stop PROVE ToolHasTurn'
  BY <1>0, <1>m, <1>39 DEF Stop
<1>40. ASSUME Shutdown PROVE ToolHasTurn'
  BY <1>0, <1>m, <1>40 DEF Shutdown
<1>41. ASSUME ProcessEnds PROVE ToolHasTurn'
  BY <1>0, <1>m, <1>41 DEF ProcessEnds
<1>42. ASSUME UNCHANGED vars PROVE ToolHasTurn'
  BY <1>0, <1>m, <1>42 DEF vars
<1> HIDE DEF ToolHasTurn, TurnFacts, StoppedIsOver, ParkedHasTurn, BootFinds, StartedIsBusy, NotStarted, LiveTurn,
               Leftover, RowsInserted, NoTakeover, RecoveredIsQuiet, DyingTurn, BootIsAlone,
               StaysCancelled, DispatchMoves, Up, Alive, durable, volatile, history
<1> QED
  BY <1>1, <1>2, <1>3, <1>4, <1>5, <1>6, <1>7, <1>8, <1>9, <1>10, <1>11, <1>12, <1>13,
     <1>14, <1>15, <1>16, <1>17, <1>18, <1>19, <1>20, <1>21, <1>22, <1>23, <1>24, <1>25,
     <1>26, <1>27, <1>28, <1>29, <1>30, <1>31, <1>32, <1>33, <1>34, <1>35, <1>36, <1>37,
     <1>38, <1>39, <1>40, <1>41, <1>42
     DEF Next, Host, Tool, Owner, Exit

(* A run that is over after a restart stays over. *)
EndedStays ==
  \A r \in RunIds : recovered[r] /\ runStatus[r] \in Ended => recovered'[r] /\ runStatus'[r] \in Ended

LEMMA FollowUpEnded ==
  ASSUME TypeOK, RowsInserted, NEW rest, ClaimInboxFollowUp(rest), recovered' = recovered
  PROVE  EndedStays
<1>1. CASE BusyRuns(runStatus) = {} /\ inbox # {}
  <2> DEFINE n == runCount + 1
  <2>1. n \in RunIds /\ n > runCount /\ ~recovered[n]
    BY <1>1, BoundsAssumption DEF ClaimInboxFollowUp, RunIds, TypeOK, RowsInserted
  <2>2. runStatus' = [runStatus EXCEPT ![n] = "running"]
    BY <1>1 DEF ClaimInboxFollowUp
  <2> HIDE DEF n
  <2> QED  BY <2>1, <2>2 DEF TypeOK, EndedStays
<1>2. CASE ~(BusyRuns(runStatus) = {} /\ inbox # {})
  BY <1>2 DEF ClaimInboxFollowUp, EndedStays
<1> QED  BY <1>1, <1>2

LEMMA EndedStep ==
  ASSUME "takeover" \notin Tools, TurnInvariant, [Next]_vars
  PROVE  EndedStays
<1>1000. /\ StepFacts /\ NoTakeover
         /\ WaitingTakeover(runStatus) = {} /\ StopTakeover(runStatus) = runStatus
  BY PlainStepFacts
<1>0. /\ TypeOK /\ runStatus \in [RunIds -> RunStatus] /\ recovered \in [RunIds -> BOOLEAN]
      /\ runCount \in Nat /\ RowsInserted /\ NoTakeover /\ Leftover /\ OneBusyRun
      /\ WaitingTakeover(runStatus) = {} /\ StopTakeover(runStatus) = runStatus
  BY <1>1000, BoundsAssumption DEF StepFacts, TypeOK
<1> USE DEF EndedStays, Ended, NoTakeover, Leftover, RowsInserted, Up, Alive, durable, volatile, history
<1>1. ASSUME NEW p \in Posts, NEW c \in Commands, SendCommand(p, c) PROVE EndedStays
  BY <1>0, <1>1 DEF SendCommand
<1>2. ASSUME NEW p \in Posts, NEW n \in Notes, SendNote(p, n) PROVE EndedStays
  BY <1>0, <1>2 DEF SendNote
<1>3. ASSUME NEW p \in Posts, BeginReplayed(p) PROVE EndedStays
  BY <1>0, <1>3 DEF BeginReplayed
<1>4. ASSUME NEW p \in Posts, BeginQueued(p) PROVE EndedStays
  BY <1>0, <1>4 DEF BeginQueued
<1>5. ASSUME NEW p \in Posts, BeginCreated(p) PROVE EndedStays
  <2> DEFINE n == runCount + 1
             st == Supersede(runStatus)
  <2>1. /\ n \in RunIds /\ n > runCount /\ runStatus[n] = "none"
        /\ runStatus' = [st EXCEPT ![n] = "running"] /\ st \in [RunIds -> RunStatus]
        /\ recovered' = recovered
    BY <1>0, <1>5, SendTypes, BoundsAssumption DEF BeginCreated, RunIds
  <2>2. \A q \in RunIds : st[q] = runStatus[q] \/ st[q] = "cancelled"
    BY <1>0, <1>5, SupersedeClears DEF BeginCreated
  <2> HIDE DEF n, st
  <2> QED  BY <1>0, <2>1, <2>2
<1>6. ASSUME NEW p \in Posts, ClaimDispatch(p) PROVE EndedStays
  BY <1>0, <1>6 DEF ClaimDispatch
<1>7. ASSUME NEW p \in Posts, StartClaimedTurn(p) PROVE EndedStays
  BY <1>0, <1>7 DEF StartClaimedTurn
<1>8. ASSUME NEW p \in Posts, ResumePendingDispatch(p) PROVE EndedStays
  BY <1>0, <1>8 DEF ResumePendingDispatch
<1>9. ASSUME NEW p \in Posts, AgentFails(p) PROVE EndedStays
  BY <1>0, <1>9 DEF AgentFails
<1>10. ASSUME NEW p \in Posts, KickAfterDeny(p) PROVE EndedStays
  BY <1>0, <1>10, FollowUpEnded DEF KickAfterDeny
<1>11. ASSUME KickAfterBoot PROVE EndedStays
  BY <1>0, <1>11, FollowUpEnded DEF KickAfterBoot
<1>12. ASSUME NEW r \in RunIds, KickAfterTurn(r) PROVE EndedStays
  BY <1>0, <1>12, FollowUpEnded DEF KickAfterTurn
<1>13. ASSUME NEW r \in RunIds, KickFails(r) PROVE EndedStays
  BY <1>0, <1>13 DEF KickFails
<1>14. ASSUME NEW r \in RunIds, NEW o \in Outcomes, TurnEnds(r, o) PROVE EndedStays
  BY <1>0, <1>14, BoundsAssumption DEF TurnEnds, FinishTurn, SkipFinish, TaskUnchanged, TurnOutcomes
<1>15. ASSUME NEW r \in RunIds, TurnUnwinds(r) PROVE EndedStays
  BY <1>0, <1>15 DEF TurnUnwinds, FinishTurn, TaskUnchanged
<1>16. ASSUME NEW r \in RunIds, NEW o \in Outcomes, DyingTurnEnds(r, o) PROVE EndedStays
  BY <1>0, <1>16, BoundsAssumption DEF DyingTurnEnds, FinishTurn, SkipFinish, TaskUnchanged, TurnOutcomes
<1>17. ASSUME NEW r \in RunIds, RecoverRun(r) PROVE EndedStays
  BY <1>0, <1>17 DEF RecoverRun
<1>18. ASSUME BootStarts PROVE EndedStays
  BY <1>0, <1>18 DEF BootStarts
<1>19. ASSUME BootEnds PROVE EndedStays
  BY <1>0, <1>19 DEF BootEnds
<1>20. ASSUME NEW r \in RunIds, ToolStarts(r) PROVE EndedStays
  BY <1>0, <1>20 DEF ToolStarts
<1>21. ASSUME NEW r \in RunIds, PlainTool(r) PROVE EndedStays
  BY <1>0, <1>21 DEF PlainTool
<1>22. ASSUME NEW r \in RunIds, PostOptions(r) PROVE EndedStays
  BY <1>0, <1>22 DEF PostOptions
<1>23. ASSUME NEW r \in RunIds, TakeOwnerSteer(r) PROVE EndedStays
  BY <1>0, <1>23 DEF TakeOwnerSteer
<1>24. ASSUME NEW r \in RunIds, AskPost(r) PROVE EndedStays
  BY <1>0, <1>24 DEF AskPost
<1>25. ASSUME NEW r \in RunIds, AskActivate(r) PROVE EndedStays
  BY <1>0, <1>25 DEF AskActivate, MarkWaitingInput
<1>26. ASSUME NEW r \in RunIds, AskWakes(r) PROVE EndedStays
  BY <1>0, <1>26 DEF AskWakes
<1>27. ASSUME NEW r \in RunIds, AskTimesOut(r) PROVE EndedStays
  BY <1>0, <1>27 DEF AskTimesOut, MarkRunning
<1>28. ASSUME NEW r \in RunIds, ConsentOffer(r) PROVE EndedStays
  BY <1>0, <1>28 DEF ConsentOffer
<1>29. ASSUME NEW r \in RunIds, ConsentWait(r) PROVE EndedStays
  BY <1>0, <1>29 DEF ConsentWait, MarkWaitingInput
<1>30. ASSUME NEW r \in RunIds, ConsentReturns(r) PROVE EndedStays
  BY <1>0, <1>30 DEF ConsentReturns, MarkRunning
<1>31. ASSUME NEW r \in RunIds, TakeoverMark(r) PROVE EndedStays
  BY <1>0, <1>31 DEF TakeoverMark
<1>32. ASSUME NEW r \in RunIds, TakeoverCancelTask(r) PROVE EndedStays
  BY <1>0, <1>32 DEF TakeoverCancelTask
<1>33. ASSUME NEW r \in RunIds, AnswerLive(r) PROVE EndedStays
  BY <1>0, <1>33 DEF AnswerLive, MarkRunning
<1>34. ASSUME NEW p \in Posts, NEW r \in RunIds, AnswerParked(p, r) PROVE EndedStays
  BY <1>0, <1>34 DEF AnswerParked, EndParked, ParkedQuestion
<1>35. ASSUME NEW r \in RunIds, NEW d \in {"allow", "deny"}, AnswerConsentLive(r, d)
      PROVE  EndedStays
  BY <1>0, <1>35 DEF AnswerConsentLive
<1>36. ASSUME NEW p \in Posts, NEW r \in RunIds, NEW d \in {"allow", "deny"}, AnswerConsentParked(p, r, d)
      PROVE  EndedStays
  BY <1>0, <1>36 DEF AnswerConsentParked, EndParked
<1>37. ASSUME NEW r \in RunIds, NewAttempt(r) PROVE EndedStays
  BY <1>0, <1>37 DEF NewAttempt, EndParked
<1>38. ASSUME ReleaseTakeover PROVE EndedStays
  BY <1>0, <1>38 DEF ReleaseTakeover
<1>39. ASSUME Stop PROVE EndedStays
  BY <1>0, <1>39 DEF Stop
<1>40. ASSUME Shutdown PROVE EndedStays
  BY <1>0, <1>40 DEF Shutdown
<1>41. ASSUME ProcessEnds PROVE EndedStays
  BY <1>0, <1>41 DEF ProcessEnds
<1>42. ASSUME UNCHANGED vars PROVE EndedStays
  BY <1>0, <1>42 DEF vars
<1> HIDE DEF EndedStays, Ended, NoTakeover, Leftover, RowsInserted, Up, Alive, durable, volatile, history
<1> QED
  BY <1>1, <1>2, <1>3, <1>4, <1>5, <1>6, <1>7, <1>8, <1>9, <1>10, <1>11, <1>12, <1>13,
     <1>14, <1>15, <1>16, <1>17, <1>18, <1>19, <1>20, <1>21, <1>22, <1>23, <1>24, <1>25,
     <1>26, <1>27, <1>28, <1>29, <1>30, <1>31, <1>32, <1>33, <1>34, <1>35, <1>36, <1>37,
     <1>38, <1>39, <1>40, <1>41, <1>42
     DEF Next, Host, Tool, Owner, Exit

-----------------------------------------------------------------------------
(* What a message goes through.                                              *)

(* The run a send queues behind exists. *)
LEMMA ActiveRunInserted ==
  ASSUME TypeOK, RowsInserted, ActiveRun(runStatus) # NoRun
  PROVE  ActiveRun(runStatus) \in RunIds /\ ActiveRun(runStatus) <= runCount
<1> DEFINE a == ActiveRun(runStatus)
<1>1. a = Latest(BusyRuns(runStatus)) /\ BusyRuns(runStatus) # {}
  BY DEF ActiveRun
<1>2. a \in BusyRuns(runStatus)
  BY <1>1, BusyRunsAreRuns, LatestIn
<1>3. a \in RunIds /\ runStatus[a] # "none"
  BY <1>2 DEF BusyRuns, WithStatus, Busy
<1> QED  BY <1>3, BoundsAssumption DEF TypeOK, RowsInserted, RunIds

(* Before the first Stop a run that waits for its start is the busy one. *)
LEMMA NothingStarts ==
  ASSUME StepFacts, TurnFacts, stops = 0, BusyRuns(runStatus) = {}
  PROVE  \A q \in RunIds : dispatch[q] # "pending"
BY DEF StepFacts, TurnFacts, StartedIsBusy, NotStarted, BusyRuns, WithStatus, Busy

LEMMA NothingElseStarts ==
  ASSUME StepFacts, TurnFacts, stops = 0, ClaimedOnce, NEW p \in Posts, NEW r \in RunIds, Starting(p, r)
  PROVE  \A q \in RunIds : dispatch[q] # "pending"
<1>1. runStatus[r] = "running" /\ dispatch[r] = "claimed"
  BY DEF StepFacts, TurnFacts, StartedIsBusy, NotStarted, ClaimedOnce
<1>2. \A q \in RunIds : dispatch[q] = "pending" => runStatus[q] = "running"
  BY DEF StepFacts, TurnFacts, StartedIsBusy, NotStarted
<1> QED  BY <1>1, <1>2 DEF StepFacts, OneBusyRun, BusyRuns, WithStatus, Busy

(* Handing over the whole inbox, when no run waits for its start. *)
LEMMA InboxHanded ==
  ASSUME TypeOK, UnseenUntilHanded, NEW n \in RunIds, \A q \in RunIds : dispatch[q] # "pending",
         inbox' = {}, got' = Hand(inbox, n), UNCHANGED <<posted, cmdRun, runCount, dispatch, req>>
  PROVE  UnseenUntilHanded'
<1>1. \A k \in Msgs : got'[k] = IF k \in inbox THEN got[k] \cup {n} ELSE got[k]
  BY DEF Hand
<1>2. /\ inbox \subseteq Msgs /\ cmdRun \in [Commands -> RunIds \cup {NoRun}]
      /\ \A p \in Posts : req[p].pc \in InFlight => req[p].msg \in Msgs
  BY RequestForms DEF TypeOK, InFlight
<1>3. \A k \in inbox : got'[k] = {n} /\ k \in posted
  BY <1>1, <1>2 DEF UnseenUntilHanded
<1>4. \A k \in Msgs : k \notin inbox => got'[k] = got[k]
  BY <1>1
<1>5. \A k \in Msgs : /\ got'[k] = {} \/ \E r \in RunIds : got'[k] = {r}
                      /\ got'[k] # {} => k \in posted
  BY <1>2, <1>3, <1>4 DEF UnseenUntilHanded
<1>6. \A q \in Posts : req[q].pc \in {"claimed", "resume"} => got'[req[q].msg] = {}
  BY <1>2, <1>4 DEF UnseenUntilHanded, InFlight
<1>7. \A c \in Commands : cmdRun[c] # NoRun => dispatch[cmdRun[c]] # "pending"
  BY <1>2
<1> QED  BY <1>5, <1>6, <1>7 DEF UnseenUntilHanded

(* The follow-up takes the inbox and points the queued commands to its run. *)
LEMMA InboxTaken ==
  ASSUME TypeOK, UnseenUntilHanded, \A q \in RunIds : dispatch[q] # "pending", runCount < MaxRuns,
         runCount' = runCount + 1, inbox' = {}, got' = Hand(inbox, runCount + 1),
         cmdRun' = [c \in Commands |-> IF c \in inbox THEN runCount + 1 ELSE cmdRun[c]],
         UNCHANGED <<posted, dispatch>>, \A q \in Posts : req'[q].pc \in InFlight => req'[q] = req[q]
  PROVE  UnseenUntilHanded'
<1> DEFINE n == runCount + 1
<1>0. n \in RunIds /\ runCount \in Nat /\ n # NoRun
  BY BoundsAssumption DEF TypeOK, RunIds, NoRun
<1>1. \A k \in Msgs : got'[k] = IF k \in inbox THEN got[k] \cup {n} ELSE got[k]
  BY DEF Hand
<1>2. /\ inbox \subseteq Msgs /\ cmdRun \in [Commands -> RunIds \cup {NoRun}]
      /\ \A p \in Posts : req[p].pc \in InFlight => req[p].msg \in Msgs
  BY RequestForms DEF TypeOK, InFlight
<1>3. \A c \in Commands : cmdRun[c] \in Int /\ cmdRun[c] <= n
  BY <1>0, <1>2, BoundsAssumption DEF UnseenUntilHanded, RunIds, NoRun
<1>4. /\ \A c \in Commands : cmdRun'[c] = IF c \in inbox THEN n ELSE cmdRun[c]
      /\ runCount' = n
  OBVIOUS
<1> HIDE DEF n
<1>5. \A k \in Msgs : /\ got'[k] = {} \/ \E r \in RunIds : got'[k] = {r}
                      /\ k \in inbox' => got'[k] = {}
                      /\ k \in inbox' \/ got'[k] # {} => k \in posted'
  <2>1. \A k \in inbox : got'[k] = {n} /\ k \in posted
    BY <1>1, <1>2 DEF UnseenUntilHanded
  <2>2. \A k \in Msgs : k \notin inbox => got'[k] = got[k]
    BY <1>1
  <2> QED  BY <1>0, <1>2, <2>1, <2>2 DEF UnseenUntilHanded
<1>6. \A c \in Commands : /\ cmdRun'[c] = NoRun <=> c \notin posted'
                          /\ cmdRun'[c] <= runCount'
                          /\ cmdRun'[c] # NoRun => dispatch'[cmdRun'[c]] # "pending"
  BY <1>0, <1>2, <1>3, <1>4 DEF UnseenUntilHanded, Msgs
<1>7. \A q \in Posts :
       /\ req'[q].pc \in InFlight =>
            /\ req'[q].msg \notin inbox' /\ req'[q].msg \in posted'
            /\ req'[q].msg \in Commands => cmdRun'[req'[q].msg] = req'[q].run
       /\ req'[q].pc \in {"claimed", "resume"} => got'[req'[q].msg] = {}
  <2> SUFFICES ASSUME NEW q \in Posts, req'[q].pc \in InFlight
               PROVE  /\ req'[q].msg \notin inbox' /\ req'[q].msg \in posted'
                      /\ req'[q].msg \in Commands => cmdRun'[req'[q].msg] = req'[q].run
                      /\ req'[q].pc \in {"claimed", "resume"} => got'[req'[q].msg] = {}
    BY DEF InFlight
  <2>1. req'[q] = req[q] /\ req[q].msg \in Msgs /\ req[q].msg \notin inbox
    BY <1>2 DEF UnseenUntilHanded
  <2>2. /\ req[q].msg \in posted /\ (req[q].msg \in Commands => cmdRun[req[q].msg] = req[q].run)
        /\ req[q].pc \in {"claimed", "resume"} => got[req[q].msg] = {}
    BY <2>1 DEF UnseenUntilHanded
  <2> QED  BY <1>1, <1>4, <2>1, <2>2
<1> QED  BY <1>5, <1>6, <1>7 DEF UnseenUntilHanded

(* The steps that touch a message, its command, or a request. *)
MessagesKept == UNCHANGED <<inbox, got, posted, cmdRun, runCount, dispatch, req>>

LEMMA MessageSteps ==
  ASSUME [Next]_vars
  PROVE  \/ MessagesKept \/ ProcessEnds \/ KickAfterBoot
         \/ \E p \in Posts :
              \/ BeginReplayed(p) \/ BeginQueued(p) \/ BeginCreated(p) \/ ClaimDispatch(p)
              \/ StartClaimedTurn(p) \/ ResumePendingDispatch(p) \/ AgentFails(p) \/ KickAfterDeny(p)
              \/ \E c \in Commands : SendCommand(p, c)
              \/ \E n \in Notes : SendNote(p, n)
              \/ \E r \in RunIds : \/ AnswerParked(p, r)
                                   \/ \E d \in {"allow", "deny"} : AnswerConsentParked(p, r, d)
         \/ \E r \in RunIds : KickAfterTurn(r) \/ TakeOwnerSteer(r)
<1> USE DEF MessagesKept, durable, volatile, history
<1>1. ASSUME NEW r \in RunIds, KickFails(r) \/ TurnUnwinds(r) \/ RecoverRun(r) PROVE MessagesKept
  BY <1>1 DEF KickFails, TurnUnwinds, RecoverRun, TaskUnchanged
<1>2. ASSUME NEW r \in RunIds, NEW o \in Outcomes, TurnEnds(r, o) \/ DyingTurnEnds(r, o)
      PROVE  MessagesKept
  BY <1>2 DEF TurnEnds, DyingTurnEnds, TaskUnchanged
<1>3. ASSUME BootStarts \/ BootEnds \/ ReleaseTakeover \/ Stop \/ Shutdown PROVE MessagesKept
  BY <1>3 DEF BootStarts, BootEnds, ReleaseTakeover, Stop, Shutdown
<1>4. ASSUME NEW r \in RunIds, ToolStarts(r) \/ PlainTool(r) \/ PostOptions(r) \/ AskPost(r)
                               \/ AskActivate(r) \/ AskWakes(r) \/ AskTimesOut(r)
      PROVE  MessagesKept
  BY <1>4 DEF ToolStarts, PlainTool, PostOptions, AskPost, AskActivate, AskWakes, AskTimesOut
<1>5. ASSUME NEW r \in RunIds, ConsentOffer(r) \/ ConsentWait(r) \/ ConsentReturns(r)
                               \/ TakeoverMark(r) \/ TakeoverCancelTask(r)
      PROVE  MessagesKept
  BY <1>5 DEF ConsentOffer, ConsentWait, ConsentReturns, TakeoverMark, TakeoverCancelTask
<1>6. ASSUME NEW r \in RunIds, AnswerLive(r) \/ NewAttempt(r) PROVE MessagesKept
  BY <1>6 DEF AnswerLive, NewAttempt
<1>7. ASSUME NEW r \in RunIds, NEW d \in {"allow", "deny"}, AnswerConsentLive(r, d) PROVE MessagesKept
  BY <1>7 DEF AnswerConsentLive
<1>8. ASSUME UNCHANGED vars PROVE MessagesKept
  BY <1>8 DEF vars
<1> HIDE DEF MessagesKept, durable, volatile, history
<1> QED
  BY <1>1, <1>2, <1>3, <1>4, <1>5, <1>6, <1>7, <1>8 DEF Next, Host, Tool, Owner, Exit

(* Every step before the first Stop keeps messages unseen until they are handed. *)
LEMMA UnseenStep ==
  ASSUME "takeover" \notin Tools, TurnInvariant, [Next]_vars, TurnFacts, ToolHasTurn, stops = 0,
         UnseenUntilHanded, SentOnce
  PROVE  UnseenUntilHanded'
<1>1000. /\ StepFacts /\ NoTakeover
         /\ WaitingTakeover(runStatus) = {} /\ StopTakeover(runStatus) = runStatus
  BY PlainStepFacts
<1>0. /\ TypeOK /\ StepFacts /\ TurnFacts /\ ToolHasTurn /\ stops = 0 /\ UnseenUntilHanded /\ ClaimedOnce
      /\ req \in [Posts -> Request] /\ dispatch \in [RunIds -> {"none", "pending", "claimed"}]
      /\ cmdRun \in [Commands -> RunIds \cup {NoRun}] /\ got \in [Msgs -> SUBSET RunIds]
      /\ inbox \subseteq Msgs /\ posted \subseteq Msgs /\ runCount \in Nat
      /\ RowsInserted /\ StopTakeover(runStatus) = runStatus /\ Commands \subseteq Msgs
  BY <1>1000, BoundsAssumption DEF StepFacts, TypeOK, Msgs, TurnInvariant
<1>g. SentOnce
  OBVIOUS
<1>c. \A c \in Commands : cmdRun[c] <= runCount
  BY DEF UnseenUntilHanded
<1> USE DEF UnseenUntilHanded, SentOnce, Up, Alive, durable, volatile, history
<1>1. ASSUME NEW p \in Posts, NEW c \in Commands, SendCommand(p, c) PROVE UnseenUntilHanded'
  <2>1. CASE cmdRun[c] = NoRun
    <3> DEFINE x == [Idle EXCEPT !.pc = "accept", !.msg = c]
    <3>1. req' = [req EXCEPT ![p] = x] /\ x.pc = "accept"
      BY <1>1, <2>1 DEF SendCommand, Idle
    <3>2. UNCHANGED <<inbox, got, posted, cmdRun, runCount, dispatch>>
      BY <1>1, <2>1 DEF SendCommand
    <3> HIDE DEF x
    <3> QED  BY <1>0, <3>1, <3>2 DEF InFlight
  <2>2. CASE cmdRun[c] # NoRun
    <3> DEFINE x == [pc |-> "resume", msg |-> c, run |-> cmdRun[c], fresh |-> FALSE]
    <3>1. req' = [req EXCEPT ![p] = x] /\ x.pc = "resume" /\ x.msg = c /\ x.run = cmdRun[c]
      BY <1>1, <2>2 DEF SendCommand
    <3>2. /\ dispatch' = [dispatch EXCEPT ![cmdRun[c]] = "claimed"]
          /\ UNCHANGED <<inbox, got, posted, cmdRun, runCount>>
      BY <1>1, <2>2 DEF SendCommand
    <3>3. c \in posted /\ c \notin inbox /\ got[c] = {}
      BY <1>0, <1>1, <2>2 DEF SendCommand
    <3>4. \A d \in Commands : cmdRun[d] # NoRun /\ dispatch'[cmdRun[d]] = "pending" =>
            dispatch[cmdRun[d]] = "pending"
      BY <1>0, <3>2
    <3> HIDE DEF x
    <3> QED  BY <1>0, <3>1, <3>2, <3>3, <3>4
  <2> QED  BY <2>1, <2>2
<1>2. ASSUME NEW p \in Posts, NEW n \in Notes, SendNote(p, n) PROVE UnseenUntilHanded'
  <2> DEFINE x == [Idle EXCEPT !.pc = "accept", !.msg = n]
  <2>1. req' = [req EXCEPT ![p] = x] /\ x.pc = "accept"
    BY <1>0, <1>2 DEF SendNote, Idle, Request
  <2> HIDE DEF x
  <2>2. UNCHANGED <<inbox, got, posted, cmdRun, runCount, dispatch>>
    BY <1>2 DEF SendNote
  <2> QED  BY <1>0, <2>1, <2>2 DEF InFlight
<1>3. ASSUME NEW p \in Posts, BeginReplayed(p) PROVE UnseenUntilHanded'
  <2> DEFINE x == IF req[p].msg \in inbox THEN Idle
                  ELSE [req[p] EXCEPT !.pc = "begun", !.run = cmdRun[req[p].msg]]
  <2>1. req' = [req EXCEPT ![p] = x] /\ (\/ x.pc = "idle"
           \/ /\ x.pc = "begun" /\ x.msg = req[p].msg /\ req[p].msg \notin inbox
              /\ x.run = cmdRun[req[p].msg])
    BY <1>0, <1>3 DEF BeginReplayed, Idle, Request
  <2> HIDE DEF x
  <2>2. UNCHANGED <<inbox, got, posted, cmdRun, runCount, dispatch>>
    BY <1>3 DEF BeginReplayed
  <2>3. req[p].msg \in posted
    BY <1>0, <1>3 DEF BeginReplayed
  <2> QED  BY <1>0, <2>1, <2>2, <2>3 DEF InFlight
<1>4. ASSUME NEW p \in Posts, BeginQueued(p) PROVE UnseenUntilHanded'
  <2> DEFINE m == req[p].msg
  <2>1. /\ req' = [req EXCEPT ![p] = Idle] /\ Idle.pc = "idle" /\ UNCHANGED <<got, runCount, dispatch>>
        /\ ActiveRun(runStatus) # NoRun
    BY <1>0, <1>4 DEF BeginQueued, Idle
  <2>2. m \in Msgs /\ m \notin posted /\ m \notin inbox /\ got[m] = {}
    BY <1>0, <1>g, <1>4, RequestForms DEF BeginQueued, NewMessage
  <2>3. \A q \in Posts : req[q].pc \in InFlight => req[q].msg # m
    BY <1>0, <2>2
  <2>4. CASE UNCHANGED <<inbox, posted, cmdRun>>
    BY <1>0, <2>1, <2>4 DEF InFlight
  <2>5. CASE inbox' = inbox \cup {m} /\ posted' = posted \cup {m} /\ RecordCommand(m, ActiveRun(runStatus))
    <3>1. ActiveRun(runStatus) \in RunIds /\ ActiveRun(runStatus) <= runCount
      BY <1>0, <2>1, ActiveRunInserted
    <3>2. \A c \in Commands : cmdRun'[c] = IF c = m THEN ActiveRun(runStatus) ELSE cmdRun[c]
      BY <1>0, <2>5 DEF RecordCommand
    <3>3. NoRun \notin RunIds
      BY DEF NoRun, RunIds
    <3> HIDE DEF m
    <3>4. \A q \in Posts : req'[q].pc \in InFlight => q # p /\ req'[q] = req[q] /\ req[q].msg # m
      BY <1>0, <2>1, <2>3 DEF InFlight
    <3>5. \A c \in Commands : /\ cmdRun'[c] = NoRun <=> c \notin posted'
                              /\ cmdRun'[c] <= runCount'
                              /\ cmdRun'[c] # NoRun /\ dispatch'[cmdRun'[c]] = "pending" =>
                                   c \in inbox' \/ got'[c] = {}
      BY <1>0, <2>1, <2>5, <3>1, <3>2, <3>3
    <3>6. \A q \in Posts :
           /\ req'[q].pc \in InFlight =>
                /\ req'[q].msg \notin inbox' /\ req'[q].msg \in posted'
                /\ req'[q].msg \in Commands => cmdRun'[req'[q].msg] = req'[q].run
           /\ req'[q].pc \in {"claimed", "resume"} => got'[req'[q].msg] = {}
      BY <1>0, <2>1, <2>5, <3>2, <3>4 DEF InFlight
    <3> QED  BY <1>0, <2>1, <2>2, <2>5, <3>5, <3>6
  <2> QED  BY <1>0, <1>4, <2>4, <2>5 DEF BeginQueued
<1>5. ASSUME NEW p \in Posts, BeginCreated(p) PROVE UnseenUntilHanded'
  <2> DEFINE m == req[p].msg
             n == runCount + 1
             x == [pc |-> "begun", msg |-> m, run |-> n, fresh |-> TRUE]
  <2>1. /\ req' = [req EXCEPT ![p] = x] /\ x.pc = "begun" /\ x.msg = m /\ x.run = n
        /\ UNCHANGED <<got, inbox>> /\ posted' = posted \cup {m} /\ runCount' = n
        /\ dispatch' = [dispatch EXCEPT ![n] = "pending"] /\ RecordCommand(m, n)
    BY <1>0, <1>5 DEF BeginCreated
  <2>2. m \in Msgs /\ m \notin posted /\ m \notin inbox /\ got[m] = {}
    BY <1>0, <1>g, <1>5, RequestForms DEF BeginCreated, NewMessage
  <2>3. \A q \in Posts : req[q].pc \in InFlight => req[q].msg # m
    BY <1>0, <2>2
  <2>4. n \in RunIds /\ n \in Nat /\ n # NoRun /\ NoRun \notin RunIds
    BY <1>0, <1>5, BoundsAssumption DEF BeginCreated, RunIds, NoRun
  <2>5. \A c \in Commands : cmdRun'[c] = IF c = m THEN n ELSE cmdRun[c]
    BY <1>0, <2>1 DEF RecordCommand
  <2>6. \A c \in Commands : cmdRun[c] # n /\ cmdRun[c] \in RunIds \cup {NoRun} /\ cmdRun[c] <= n
    BY <1>0, <1>c, BoundsAssumption DEF RunIds, NoRun
  <2> HIDE DEF m, n, x
  <2>7. \A c \in Commands : /\ cmdRun'[c] = NoRun <=> c \notin posted'
                            /\ cmdRun'[c] <= runCount'
                            /\ cmdRun'[c] # NoRun /\ dispatch'[cmdRun'[c]] = "pending" =>
                                 c \in inbox' \/ got'[c] = {}
    BY <1>0, <2>1, <2>2, <2>4, <2>5, <2>6
  <2>8. \A q \in Posts :
         /\ req'[q].pc \in InFlight =>
              /\ req'[q].msg \notin inbox' /\ req'[q].msg \in posted'
              /\ req'[q].msg \in Commands => cmdRun'[req'[q].msg] = req'[q].run
         /\ req'[q].pc \in {"claimed", "resume"} => got'[req'[q].msg] = {}
    BY <1>0, <2>1, <2>2, <2>3, <2>5 DEF InFlight
  <2> QED  BY <1>0, <2>1, <2>2, <2>7, <2>8
<1>6. ASSUME NEW p \in Posts, ClaimDispatch(p) PROVE UnseenUntilHanded'
  <2>1. CASE dispatch[req[p].run] = "pending"
    <3> DEFINE x == [req[p] EXCEPT !.pc = "claimed"]
    <3>1. /\ req' = [req EXCEPT ![p] = x] /\ x.pc = "claimed" /\ x.msg = req[p].msg /\ x.run = req[p].run
          /\ req[p].pc = "begun" /\ req[p].run \in RunIds /\ req[p].msg \in Msgs
      BY <1>0, <1>6, <2>1 DEF ClaimDispatch, Request
    <3>2. /\ dispatch' = [dispatch EXCEPT ![req[p].run] = "claimed"]
          /\ UNCHANGED <<inbox, got, posted, cmdRun, runCount>>
      BY <1>6, <2>1 DEF ClaimDispatch
    <3>3. got[req[p].msg] = {}
      <4>1. CASE req[p].msg \in Commands
        BY <1>0, <2>1, <3>1, <4>1 DEF InFlight, NoRun, RunIds
      <4>2. CASE req[p].msg \notin Commands
        BY <1>0, <1>g, <3>1, <4>2 DEF InFlight
      <4> QED  BY <4>1, <4>2
    <3>4. \A d \in Commands : cmdRun[d] # NoRun /\ dispatch'[cmdRun[d]] = "pending" =>
            dispatch[cmdRun[d]] = "pending"
      BY <1>0, <3>2
    <3> HIDE DEF x
    <3> QED  BY <1>0, <3>1, <3>2, <3>3, <3>4 DEF InFlight
  <2>2. CASE dispatch[req[p].run] # "pending"
    <3>1. req' = [req EXCEPT ![p] = Idle] /\ Idle.pc = "idle" /\ UNCHANGED <<inbox, got, posted, cmdRun, runCount, dispatch>>
      BY <1>6, <2>2 DEF ClaimDispatch, Idle
    <3> QED  BY <1>0, <3>1 DEF InFlight
  <2> QED  BY <2>1, <2>2
<1>7. ASSUME NEW p \in Posts, StartClaimedTurn(p) PROVE UnseenUntilHanded'
  <2> DEFINE m == req[p].msg
             n == req[p].run
             ms == {m} \cup (IF req[p].fresh THEN inbox ELSE {})
  <2>1. /\ req' = [req EXCEPT ![p] = Idle] /\ Idle.pc = "idle" /\ UNCHANGED <<posted, cmdRun, runCount, dispatch>>
        /\ inbox' = (IF req[p].fresh THEN {} ELSE inbox) /\ got' = Hand(ms, n)
        /\ m \in Msgs /\ n \in RunIds /\ Starting(p, n)
    BY <1>0, <1>7 DEF StartClaimedTurn, Idle, Request, Starting
  <2>2. m \notin inbox /\ m \in posted /\ got[m] = {} /\ (m \in Commands => cmdRun[m] = n)
    BY <1>0, <1>7 DEF StartClaimedTurn, InFlight
  <2>3. \A q \in RunIds : dispatch[q] # "pending"
    BY <1>0, <2>1, NothingElseStarts
  <2>4. \A q \in Posts : q # p /\ req[q].pc \in {"claimed", "resume"} => req[q].msg # m
    <3> SUFFICES ASSUME NEW q \in Posts, q # p, req[q].pc \in {"claimed", "resume"}, req[q].msg = m
                 PROVE  FALSE
      OBVIOUS
    <3>1. m \notin Commands
      BY <1>0, <2>1, <2>2 DEF InFlight, Starting, ClaimedOnce
    <3> QED  BY <1>0, <1>g, <3>1 DEF InFlight
  <2>5. \A k \in Msgs : got'[k] = IF k \in ms THEN got[k] \cup {n} ELSE got[k]
    BY <2>1 DEF Hand
  <2>6. \A q \in Posts : req'[q].pc \in InFlight => q # p /\ req'[q] = req[q] /\ req[q].msg \in Msgs
    BY <1>0, <2>1, RequestForms DEF InFlight
  <2>7. ms \subseteq inbox \cup {m} /\ inbox' \subseteq inbox /\ inbox' \cap ms = {}
    BY <2>1, <2>2
  <2>8. \A k \in ms : got[k] = {} /\ k \in posted
    BY <1>0, <2>2, <2>7
  <2> HIDE DEF m, n, ms
  <2>9. \A q \in Posts :
         /\ req'[q].pc \in InFlight =>
              /\ req'[q].msg \notin inbox' /\ req'[q].msg \in posted'
              /\ req'[q].msg \in Commands => cmdRun'[req'[q].msg] = req'[q].run
         /\ req'[q].pc \in {"claimed", "resume"} => got'[req'[q].msg] = {}
    <3> SUFFICES ASSUME NEW q \in Posts, req'[q].pc \in InFlight
                 PROVE  /\ req'[q].msg \notin inbox' /\ req'[q].msg \in posted'
                        /\ req'[q].msg \in Commands => cmdRun'[req'[q].msg] = req'[q].run
                        /\ req'[q].pc \in {"claimed", "resume"} => got'[req'[q].msg] = {}
      BY DEF InFlight
    <3>1. q # p /\ req'[q] = req[q] /\ req[q].msg \in Msgs /\ req[q].msg \notin inbox
      BY <1>0, <2>6
    <3>2. req[q].pc \in {"claimed", "resume"} => req[q].msg \notin ms
      BY <2>4, <2>7, <3>1
    <3> QED  BY <1>0, <2>1, <2>5, <2>7, <3>1, <3>2
  <2>10. \A k \in Msgs : /\ got'[k] = {} \/ \E r \in RunIds : got'[k] = {r}
                         /\ k \in inbox' => got'[k] = {}
                         /\ k \in inbox' \/ got'[k] # {} => k \in posted'
    <3>1. \A k \in ms : got'[k] = {n} /\ k \in Msgs
      BY <1>0, <2>1, <2>5, <2>7, <2>8
    <3>2. \A k \in Msgs : k \notin ms => got'[k] = got[k]
      BY <2>5
    <3> QED  BY <1>0, <2>1, <2>7, <2>8, <3>1, <3>2
  <2> QED  BY <1>0, <2>1, <2>3, <2>9, <2>10
<1>8. ASSUME NEW p \in Posts, ResumePendingDispatch(p) PROVE UnseenUntilHanded'
  <2> DEFINE m == req[p].msg
             n == req[p].run
             ms == {m}
  <2>1. /\ req' = [req EXCEPT ![p] = Idle] /\ Idle.pc = "idle" /\ UNCHANGED <<posted, cmdRun, runCount, dispatch>>
        /\ inbox' = inbox /\ got' = Hand(ms, n)
        /\ m \in Msgs /\ n \in RunIds /\ Starting(p, n)
    BY <1>0, <1>8 DEF ResumePendingDispatch, Idle, Request, Starting
  <2>2. m \notin inbox /\ m \in posted /\ got[m] = {} /\ (m \in Commands => cmdRun[m] = n)
    BY <1>0, <1>8 DEF ResumePendingDispatch, InFlight
  <2>3. \A q \in RunIds : dispatch[q] # "pending"
    BY <1>0, <2>1, NothingElseStarts
  <2>4. \A q \in Posts : q # p /\ req[q].pc \in {"claimed", "resume"} => req[q].msg # m
    <3> SUFFICES ASSUME NEW q \in Posts, q # p, req[q].pc \in {"claimed", "resume"}, req[q].msg = m
                 PROVE  FALSE
      OBVIOUS
    <3>1. m \notin Commands
      BY <1>0, <2>1, <2>2 DEF InFlight, Starting, ClaimedOnce
    <3> QED  BY <1>0, <1>g, <3>1 DEF InFlight
  <2>5. \A k \in Msgs : got'[k] = IF k \in ms THEN got[k] \cup {n} ELSE got[k]
    BY <2>1 DEF Hand
  <2>6. \A q \in Posts : req'[q].pc \in InFlight => q # p /\ req'[q] = req[q] /\ req[q].msg \in Msgs
    BY <1>0, <2>1, RequestForms DEF InFlight
  <2>7. ms \subseteq inbox \cup {m} /\ inbox' \subseteq inbox /\ inbox' \cap ms = {}
    BY <2>1, <2>2
  <2>8. \A k \in ms : got[k] = {} /\ k \in posted
    BY <1>0, <2>2, <2>7
  <2> HIDE DEF m, n, ms
  <2>9. \A q \in Posts :
         /\ req'[q].pc \in InFlight =>
              /\ req'[q].msg \notin inbox' /\ req'[q].msg \in posted'
              /\ req'[q].msg \in Commands => cmdRun'[req'[q].msg] = req'[q].run
         /\ req'[q].pc \in {"claimed", "resume"} => got'[req'[q].msg] = {}
    <3> SUFFICES ASSUME NEW q \in Posts, req'[q].pc \in InFlight
                 PROVE  /\ req'[q].msg \notin inbox' /\ req'[q].msg \in posted'
                        /\ req'[q].msg \in Commands => cmdRun'[req'[q].msg] = req'[q].run
                        /\ req'[q].pc \in {"claimed", "resume"} => got'[req'[q].msg] = {}
      BY DEF InFlight
    <3>1. q # p /\ req'[q] = req[q] /\ req[q].msg \in Msgs /\ req[q].msg \notin inbox
      BY <1>0, <2>6
    <3>2. req[q].pc \in {"claimed", "resume"} => req[q].msg \notin ms
      BY <2>4, <2>7, <3>1
    <3> QED  BY <1>0, <2>1, <2>5, <2>7, <3>1, <3>2
  <2>10. \A k \in Msgs : /\ got'[k] = {} \/ \E r \in RunIds : got'[k] = {r}
                         /\ k \in inbox' => got'[k] = {}
                         /\ k \in inbox' \/ got'[k] # {} => k \in posted'
    <3>1. \A k \in ms : got'[k] = {n} /\ k \in Msgs
      BY <1>0, <2>1, <2>5, <2>7, <2>8
    <3>2. \A k \in Msgs : k \notin ms => got'[k] = got[k]
      BY <2>5
    <3> QED  BY <1>0, <2>1, <2>7, <2>8, <3>1, <3>2
  <2> QED  BY <1>0, <2>1, <2>3, <2>9, <2>10
<1>9. ASSUME NEW p \in Posts, AgentFails(p) PROVE UnseenUntilHanded'
  <2>1. req' = [req EXCEPT ![p] = Idle] /\ Idle.pc = "idle" /\ UNCHANGED <<inbox, got, posted, cmdRun, runCount, dispatch>>
    BY <1>9 DEF AgentFails, Idle
  <2> QED  BY <1>0, <2>1 DEF InFlight
<1>10. ASSUME NEW p \in Posts, KickAfterDeny(p) PROVE UnseenUntilHanded'
  <2>1. req' = [req EXCEPT ![p] = Idle] /\ Idle.pc = "idle" /\ UNCHANGED <<posted, dispatch>>
    BY <1>10 DEF KickAfterDeny, Idle
  <2>2. \A q \in Posts : req'[q].pc \in InFlight => req'[q] = req[q]
    BY <1>0, <2>1 DEF InFlight
  <2>3. CASE BusyRuns(runStatus) = {} /\ inbox # {}
    <3>1. /\ runCount' = runCount + 1 /\ runCount < MaxRuns /\ inbox' = {} /\ got' = Hand(inbox, runCount + 1)
          /\ cmdRun' = [c \in Commands |-> IF c \in inbox THEN runCount + 1 ELSE cmdRun[c]]
      BY <1>10, <2>3 DEF KickAfterDeny, ClaimInboxFollowUp
    <3>2. \A q \in RunIds : dispatch[q] # "pending"
      BY <1>0, <2>3, NothingStarts
    <3> QED  BY <1>0, <2>1, <2>2, <3>1, <3>2, InboxTaken
  <2>4. CASE ~(BusyRuns(runStatus) = {} /\ inbox # {})
    <3>1. UNCHANGED <<runCount, inbox, got, cmdRun>>
      BY <1>10, <2>4 DEF KickAfterDeny, ClaimInboxFollowUp
    <3> QED  BY <1>0, <2>1, <2>2, <3>1 DEF InFlight
  <2> QED  BY <2>3, <2>4
<1>11. ASSUME KickAfterBoot PROVE UnseenUntilHanded'
  <2>1. req' = req /\ UNCHANGED <<posted, dispatch>>
    BY <1>11 DEF KickAfterBoot, Idle
  <2>2. \A q \in Posts : req'[q].pc \in InFlight => req'[q] = req[q]
    BY <1>0, <2>1 DEF InFlight
  <2>3. CASE BusyRuns(runStatus) = {} /\ inbox # {}
    <3>1. /\ runCount' = runCount + 1 /\ runCount < MaxRuns /\ inbox' = {} /\ got' = Hand(inbox, runCount + 1)
          /\ cmdRun' = [c \in Commands |-> IF c \in inbox THEN runCount + 1 ELSE cmdRun[c]]
      BY <1>11, <2>3 DEF KickAfterBoot, ClaimInboxFollowUp
    <3>2. \A q \in RunIds : dispatch[q] # "pending"
      BY <1>0, <2>3, NothingStarts
    <3> QED  BY <1>0, <2>1, <2>2, <3>1, <3>2, InboxTaken
  <2>4. CASE ~(BusyRuns(runStatus) = {} /\ inbox # {})
    <3>1. UNCHANGED <<runCount, inbox, got, cmdRun>>
      BY <1>11, <2>4 DEF KickAfterBoot, ClaimInboxFollowUp
    <3> QED  BY <1>0, <2>1, <2>2, <3>1 DEF InFlight
  <2> QED  BY <2>3, <2>4
<1>12. ASSUME NEW r \in RunIds, KickAfterTurn(r) PROVE UnseenUntilHanded'
  <2>1. req' = req /\ UNCHANGED <<posted, dispatch>>
    BY <1>12 DEF KickAfterTurn, Idle
  <2>2. \A q \in Posts : req'[q].pc \in InFlight => req'[q] = req[q]
    BY <1>0, <2>1 DEF InFlight
  <2>3. CASE BusyRuns(runStatus) = {} /\ inbox # {}
    <3>1. /\ runCount' = runCount + 1 /\ runCount < MaxRuns /\ inbox' = {} /\ got' = Hand(inbox, runCount + 1)
          /\ cmdRun' = [c \in Commands |-> IF c \in inbox THEN runCount + 1 ELSE cmdRun[c]]
      BY <1>12, <2>3 DEF KickAfterTurn, ClaimInboxFollowUp
    <3>2. \A q \in RunIds : dispatch[q] # "pending"
      BY <1>0, <2>3, NothingStarts
    <3> QED  BY <1>0, <2>1, <2>2, <3>1, <3>2, InboxTaken
  <2>4. CASE ~(BusyRuns(runStatus) = {} /\ inbox # {})
    <3>1. UNCHANGED <<runCount, inbox, got, cmdRun>>
      BY <1>12, <2>4 DEF KickAfterTurn, ClaimInboxFollowUp
    <3> QED  BY <1>0, <2>1, <2>2, <3>1 DEF InFlight
  <2> QED  BY <2>3, <2>4
<1>13. ASSUME NEW r \in RunIds, TakeOwnerSteer(r) PROVE UnseenUntilHanded'
  <2>1. UNCHANGED <<posted, cmdRun, runCount, dispatch, req>>
    BY <1>13 DEF TakeOwnerSteer
  <2>2. CASE UNCHANGED <<inbox, got>>
    BY <1>0, <2>1, <2>2
  <2>3. CASE inbox' = {} /\ got' = Hand(inbox, r)
    <3>1. \A q \in RunIds : dispatch[q] # "pending"
      BY <1>0, <1>13 DEF TakeOwnerSteer, ToolHasTurn
    <3> QED  BY <1>0, <2>1, <2>3, <3>1, InboxHanded
  <2> QED  BY <1>13, <2>2, <2>3 DEF TakeOwnerSteer
<1>14. ASSUME NEW p \in Posts, NEW r \in RunIds, AnswerParked(p, r) PROVE UnseenUntilHanded'
  <2> DEFINE x == [Idle EXCEPT !.pc = "accept", !.msg = r]
  <2>1. req' = [req EXCEPT ![p] = x] /\ x.pc = "accept"
    BY <1>0, <1>14 DEF AnswerParked, Idle, Request
  <2> HIDE DEF x
  <2>2. UNCHANGED <<inbox, got, posted, cmdRun, runCount, dispatch>>
    BY <1>14 DEF AnswerParked
  <2> QED  BY <1>0, <2>1, <2>2 DEF InFlight
<1>15. ASSUME NEW p \in Posts, NEW r \in RunIds, NEW d \in {"allow", "deny"}, AnswerConsentParked(p, r, d)
      PROVE  UnseenUntilHanded'
  <2> DEFINE x == IF d = "allow" THEN [Idle EXCEPT !.pc = "accept", !.msg = r]
                  ELSE [Idle EXCEPT !.pc = "kick"]
  <2>1. req' = [req EXCEPT ![p] = x] /\ x.pc \in {"accept", "kick"}
    BY <1>0, <1>15 DEF AnswerConsentParked, Idle, Request
  <2> HIDE DEF x
  <2>2. UNCHANGED <<inbox, got, posted, cmdRun, runCount, dispatch>>
    BY <1>15 DEF AnswerConsentParked
  <2> QED  BY <1>0, <2>1, <2>2 DEF InFlight
<1>16. ASSUME ProcessEnds PROVE UnseenUntilHanded'
  <2>1. UNCHANGED <<inbox, got, posted, cmdRun, runCount, dispatch>> /\ \A q \in Posts : req'[q].pc = "idle"
    BY <1>16 DEF ProcessEnds, Idle
  <2> QED  BY <1>0, <2>1 DEF InFlight
<1>17. ASSUME MessagesKept PROVE UnseenUntilHanded'
  BY <1>0, <1>17 DEF MessagesKept
<1> HIDE DEF UnseenUntilHanded, SentOnce, Up, Alive, durable, volatile, history
<1> QED
  BY MessageSteps, <1>1, <1>2, <1>3, <1>4, <1>5, <1>6, <1>7, <1>8, <1>9, <1>10, <1>11, <1>12,
     <1>13, <1>14, <1>15, <1>16, <1>17

(* Continuations and notes.                                                  *)

(* A message that is not a command and is being sent is out of the inbox, and *)
(* is stored only when its request has got past the accept.                   *)
LEMMA SendingOutside ==
  ASSUME TypeOK, UnseenUntilHanded, SentOnce, NEW p \in Posts, req[p].pc \in InFlight \cup {"accept"},
         req[p].msg \notin Commands
  PROVE  /\ req[p].msg \in Msgs /\ req[p].msg \notin inbox
         /\ \A q \in Posts : req[q].msg = req[p].msg => q = p
         /\ got[req[p].msg] = {} /\ (req[p].pc = "accept" => req[p].msg \notin posted)
<1>1. req[p].msg \in Msgs
  BY RequestForms DEF TypeOK, InFlight
<1> QED  BY <1>1 DEF UnseenUntilHanded, SentOnce, InFlight

(* What a step must not touch for the requests to stay sent once. *)
LEMMA SentOnceKept ==
  ASSUME SentOnce,
         \A q \in Posts : req'[q].pc \in InFlight \cup {"accept"} /\ req'[q].msg \notin Commands =>
           /\ req[q].pc \in InFlight \cup {"accept"} /\ req'[q].msg = req[q].msg
           /\ got'[req[q].msg] = got[req[q].msg]
           /\ req'[q].pc = "accept" => req[q].pc = "accept" /\ (req[q].msg \in posted' => req[q].msg \in posted)
           /\ \A t \in Posts : req'[t].msg = req[q].msg => req[t].msg = req[q].msg
  PROVE  SentOnce'
BY DEF SentOnce

LEMMA SentOnceStep ==
  ASSUME "takeover" \notin Tools, TurnInvariant, [Next]_vars, UnseenUntilHanded, SentOnce, ContinuedIsOver
  PROVE  SentOnce'
<1>0. /\ TypeOK /\ UnseenUntilHanded /\ SentOnce /\ ContinuedIsOver
      /\ req \in [Posts -> Request] /\ Commands \subseteq Msgs
  BY DEF TypeOK, Msgs, TurnInvariant
<1>n. \A q \in Posts : req[q].pc \in InFlight \cup {"accept"} => req[q].msg \in Msgs /\ req[q].msg # NoMsg
  <2>1. NoMsg \notin RunIds
    BY BoundsAssumption DEF NoMsg, RunIds
  <2>2. NoMsg \notin Msgs
    BY <2>1, MessagesAssumption DEF Msgs
  <2> QED  BY <1>0, <2>2, RequestForms DEF InFlight
<1> USE DEF Up, durable, volatile, history
<1>1. ASSUME NEW p \in Posts, NEW c \in Commands, SendCommand(p, c) PROVE SentOnce'
  <2> DEFINE x == IF cmdRun[c] = NoRun THEN [Idle EXCEPT !.pc = "accept", !.msg = c]
                  ELSE [pc |-> "resume", msg |-> c, run |-> cmdRun[c], fresh |-> FALSE]
  <2>1. req' = [req EXCEPT ![p] = x] /\ x.msg = c /\ UNCHANGED <<got, posted>>
    BY <1>1 DEF SendCommand, Idle
  <2> HIDE DEF x
  <2> SUFFICES ASSUME NEW q \in Posts, req'[q].pc \in InFlight \cup {"accept"}, req'[q].msg \notin Commands
               PROVE  /\ req[q].pc \in InFlight \cup {"accept"} /\ req'[q].msg = req[q].msg
                      /\ got'[req[q].msg] = got[req[q].msg]
                      /\ req'[q].pc = "accept" => req[q].pc = "accept" /\ (req[q].msg \in posted' => req[q].msg \in posted)
                      /\ \A t \in Posts : req'[t].msg = req[q].msg => req[t].msg = req[q].msg
    BY <1>0, SentOnceKept
  <2> QED  BY <1>0, <2>1
<1>2. ASSUME NEW p \in Posts, NEW n \in Notes, SendNote(p, n) PROVE SentOnce'
  <2> DEFINE x == [Idle EXCEPT !.pc = "accept", !.msg = n]
  <2>1. req' = [req EXCEPT ![p] = x] /\ x.pc = "accept" /\ x.msg = n /\ UNCHANGED <<got, posted>>
    BY <1>2 DEF SendNote, Idle
  <2> HIDE DEF x
  <2>2. n \notin posted /\ got[n] = {} /\ \A q \in Posts : req[q].msg # n
    BY <1>0, <1>2, MessagesAssumption DEF SendNote, UnseenUntilHanded, Msgs
  <2> QED  BY <1>0, <2>1, <2>2 DEF SentOnce
<1>3. ASSUME NEW p \in Posts, BeginReplayed(p) PROVE SentOnce'
  <2> DEFINE x == IF req[p].msg \in inbox THEN Idle
                  ELSE [req[p] EXCEPT !.pc = "begun", !.run = cmdRun[req[p].msg]]
  <2>1. req' = [req EXCEPT ![p] = x] /\ UNCHANGED <<got, posted>> /\ x.msg \in Commands \cup {NoMsg}
        /\ (x.msg = NoMsg => x.pc = "idle")
    BY <1>0, <1>3, MessagesAssumption DEF BeginReplayed, Idle, Request
  <2> HIDE DEF x
  <2> SUFFICES ASSUME NEW q \in Posts, req'[q].pc \in InFlight \cup {"accept"}, req'[q].msg \notin Commands
               PROVE  /\ req[q].pc \in InFlight \cup {"accept"} /\ req'[q].msg = req[q].msg
                      /\ got'[req[q].msg] = got[req[q].msg]
                      /\ req'[q].pc = "accept" => req[q].pc = "accept" /\ (req[q].msg \in posted' => req[q].msg \in posted)
                      /\ \A t \in Posts : req'[t].msg = req[q].msg => req[t].msg = req[q].msg
    BY <1>0, SentOnceKept
  <2>2. q # p /\ req'[q] = req[q]
    BY <1>0, <2>1 DEF InFlight
  <2>3. req[q].msg # NoMsg
    BY <1>0, <1>n, <2>2
  <2> QED  BY <1>0, <2>1, <2>2, <2>3
<1>4. ASSUME NEW p \in Posts, BeginQueued(p) PROVE SentOnce'
  <2>1. req' = [req EXCEPT ![p] = Idle] /\ Idle.pc = "idle" /\ Idle.msg = NoMsg /\ got' = got /\ posted' \subseteq posted \cup {req[p].msg}
    BY <1>4 DEF BeginQueued, Idle
  <2>2. req[p].pc = "accept" /\ req[p].msg \in Msgs
    BY <1>0, <1>4, RequestForms DEF BeginQueued
  <2> SUFFICES ASSUME NEW q \in Posts, req'[q].pc \in InFlight \cup {"accept"}, req'[q].msg \notin Commands
               PROVE  /\ req[q].pc \in InFlight \cup {"accept"} /\ req'[q].msg = req[q].msg
                      /\ got'[req[q].msg] = got[req[q].msg]
                      /\ req'[q].pc = "accept" => req[q].pc = "accept" /\ (req[q].msg \in posted' => req[q].msg \in posted)
                      /\ \A t \in Posts : req'[t].msg = req[q].msg => req[t].msg = req[q].msg
    BY <1>0, SentOnceKept
  <2>3. q # p /\ req'[q] = req[q] /\ req[q].msg # NoMsg
    BY <1>0, <1>n, <2>1 DEF InFlight
  <2>4. req[q].msg # req[p].msg
    BY <1>0, <2>3, SendingOutside
  <2> QED  BY <1>0, <2>1, <2>3, <2>4
<1>5. ASSUME NEW p \in Posts, BeginCreated(p) PROVE SentOnce'
  <2> DEFINE x == [pc |-> "begun", msg |-> req[p].msg, run |-> runCount + 1, fresh |-> TRUE]
  <2>1. req' = [req EXCEPT ![p] = x] /\ x.pc = "begun" /\ x.msg = req[p].msg /\ got' = got
        /\ posted' = posted \cup {req[p].msg}
    BY <1>5 DEF BeginCreated
  <2> HIDE DEF x
  <2>2. req[p].pc = "accept" /\ req[p].msg \in Msgs
    BY <1>0, <1>5, RequestForms DEF BeginCreated
  <2> SUFFICES ASSUME NEW q \in Posts, req'[q].pc \in InFlight \cup {"accept"}, req'[q].msg \notin Commands
               PROVE  /\ req[q].pc \in InFlight \cup {"accept"} /\ req'[q].msg = req[q].msg
                      /\ got'[req[q].msg] = got[req[q].msg]
                      /\ req'[q].pc = "accept" => req[q].pc = "accept" /\ (req[q].msg \in posted' => req[q].msg \in posted)
                      /\ \A t \in Posts : req'[t].msg = req[q].msg => req[t].msg = req[q].msg
    BY <1>0, SentOnceKept
  <2>3. CASE q = p
    BY <1>0, <2>1, <2>2, <2>3 DEF InFlight
  <2>4. CASE q # p
    <3>1. req'[q] = req[q]
      BY <1>0, <2>1, <2>4
    <3>2. req[q].msg # req[p].msg
      BY <1>0, <2>4, <3>1, SendingOutside
    <3> QED  BY <1>0, <2>1, <2>4, <3>1, <3>2
  <2> QED  BY <2>3, <2>4
<1>6. ASSUME NEW p \in Posts, ClaimDispatch(p) PROVE SentOnce'
  <2> DEFINE x == IF dispatch[req[p].run] = "pending" THEN [req[p] EXCEPT !.pc = "claimed"] ELSE Idle
  <2>1. req' = [req EXCEPT ![p] = x] /\ UNCHANGED <<got, posted>> /\ req[p].pc = "begun"
        /\ (\/ x.pc = "claimed" /\ x.msg = req[p].msg
            \/ x.pc = "idle" /\ x.msg = NoMsg)
    BY <1>0, <1>6 DEF ClaimDispatch, Idle, Request
  <2> HIDE DEF x
  <2> SUFFICES ASSUME NEW q \in Posts, req'[q].pc \in InFlight \cup {"accept"}, req'[q].msg \notin Commands
               PROVE  /\ req[q].pc \in InFlight \cup {"accept"} /\ req'[q].msg = req[q].msg
                      /\ got'[req[q].msg] = got[req[q].msg]
                      /\ req'[q].pc = "accept" => req[q].pc = "accept" /\ (req[q].msg \in posted' => req[q].msg \in posted)
                      /\ \A t \in Posts : req'[t].msg = req[q].msg => req[t].msg = req[q].msg
    BY <1>0, SentOnceKept
  <2>2. req[q].msg # NoMsg /\ req'[q].msg = req[q].msg /\ req[q].pc \in InFlight \cup {"accept"}
        /\ (req'[q].pc = "accept" => req[q].pc = "accept")
    BY <1>0, <1>n, <2>1 DEF InFlight
  <2> QED  BY <1>0, <2>1, <2>2
<1>7. ASSUME NEW p \in Posts, StartClaimedTurn(p) PROVE SentOnce'
  <2>1. req' = [req EXCEPT ![p] = Idle] /\ Idle.pc = "idle" /\ Idle.msg = NoMsg /\ posted' = posted
    BY <1>7 DEF StartClaimedTurn, Idle
  <2>2. req[p].pc \in InFlight /\ \A k \in Msgs : k # req[p].msg /\ k \notin inbox => got'[k] = got[k]
    BY <1>7 DEF StartClaimedTurn, Hand, InFlight
  <2> SUFFICES ASSUME NEW q \in Posts, req'[q].pc \in InFlight \cup {"accept"}, req'[q].msg \notin Commands
               PROVE  /\ req[q].pc \in InFlight \cup {"accept"} /\ req'[q].msg = req[q].msg
                      /\ got'[req[q].msg] = got[req[q].msg]
                      /\ req'[q].pc = "accept" => req[q].pc = "accept" /\ (req[q].msg \in posted' => req[q].msg \in posted)
                      /\ \A t \in Posts : req'[t].msg = req[q].msg => req[t].msg = req[q].msg
    BY <1>0, SentOnceKept
  <2>3. q # p /\ req'[q] = req[q] /\ req[q].msg # NoMsg
    BY <1>0, <1>n, <2>1 DEF InFlight
  <2>4. req[q].msg # req[p].msg /\ req[q].msg \in Msgs /\ req[q].msg \notin inbox
    BY <1>0, <2>3, SendingOutside
  <2> QED  BY <1>0, <2>1, <2>2, <2>3, <2>4
<1>8. ASSUME NEW p \in Posts, ResumePendingDispatch(p) PROVE SentOnce'
  <2>1. req' = [req EXCEPT ![p] = Idle] /\ Idle.pc = "idle" /\ Idle.msg = NoMsg /\ posted' = posted
    BY <1>8 DEF ResumePendingDispatch, Idle
  <2>2. req[p].pc \in InFlight /\ \A k \in Msgs : k # req[p].msg /\ k \notin inbox => got'[k] = got[k]
    BY <1>8 DEF ResumePendingDispatch, Hand, InFlight
  <2> SUFFICES ASSUME NEW q \in Posts, req'[q].pc \in InFlight \cup {"accept"}, req'[q].msg \notin Commands
               PROVE  /\ req[q].pc \in InFlight \cup {"accept"} /\ req'[q].msg = req[q].msg
                      /\ got'[req[q].msg] = got[req[q].msg]
                      /\ req'[q].pc = "accept" => req[q].pc = "accept" /\ (req[q].msg \in posted' => req[q].msg \in posted)
                      /\ \A t \in Posts : req'[t].msg = req[q].msg => req[t].msg = req[q].msg
    BY <1>0, SentOnceKept
  <2>3. q # p /\ req'[q] = req[q] /\ req[q].msg # NoMsg
    BY <1>0, <1>n, <2>1 DEF InFlight
  <2>4. req[q].msg # req[p].msg /\ req[q].msg \in Msgs /\ req[q].msg \notin inbox
    BY <1>0, <2>3, SendingOutside
  <2> QED  BY <1>0, <2>1, <2>2, <2>3, <2>4
<1>9. ASSUME NEW p \in Posts, AgentFails(p) PROVE SentOnce'
  <2>1. req' = [req EXCEPT ![p] = Idle] /\ Idle.pc = "idle" /\ Idle.msg = NoMsg /\ UNCHANGED <<got, posted>>
    BY <1>9 DEF AgentFails, Idle
  <2> SUFFICES ASSUME NEW q \in Posts, req'[q].pc \in InFlight \cup {"accept"}, req'[q].msg \notin Commands
               PROVE  /\ req[q].pc \in InFlight \cup {"accept"} /\ req'[q].msg = req[q].msg
                      /\ got'[req[q].msg] = got[req[q].msg]
                      /\ req'[q].pc = "accept" => req[q].pc = "accept" /\ (req[q].msg \in posted' => req[q].msg \in posted)
                      /\ \A t \in Posts : req'[t].msg = req[q].msg => req[t].msg = req[q].msg
    BY <1>0, SentOnceKept
  <2>3. q # p /\ req'[q] = req[q] /\ req[q].msg # NoMsg
    BY <1>0, <1>n, <2>1 DEF InFlight
  <2> QED  BY <1>0, <2>1, <2>3
<1>10. ASSUME NEW p \in Posts, KickAfterDeny(p) PROVE SentOnce'
  <2>1. req' = [req EXCEPT ![p] = Idle] /\ Idle.pc = "idle" /\ Idle.msg = NoMsg /\ posted' = posted
    BY <1>10 DEF KickAfterDeny, Idle
  <2>2. \A k \in Msgs : k \notin inbox => got'[k] = got[k]
    BY <1>10 DEF KickAfterDeny, ClaimInboxFollowUp, Hand
  <2> SUFFICES ASSUME NEW q \in Posts, req'[q].pc \in InFlight \cup {"accept"}, req'[q].msg \notin Commands
               PROVE  /\ req[q].pc \in InFlight \cup {"accept"} /\ req'[q].msg = req[q].msg
                      /\ got'[req[q].msg] = got[req[q].msg]
                      /\ req'[q].pc = "accept" => req[q].pc = "accept" /\ (req[q].msg \in posted' => req[q].msg \in posted)
                      /\ \A t \in Posts : req'[t].msg = req[q].msg => req[t].msg = req[q].msg
    BY <1>0, SentOnceKept
  <2>3. q # p /\ req'[q] = req[q] /\ req[q].msg # NoMsg
    BY <1>0, <1>n, <2>1 DEF InFlight
  <2>4. req[q].msg \in Msgs /\ req[q].msg \notin inbox
    BY <1>0, <2>3, SendingOutside
  <2> QED  BY <1>0, <2>1, <2>2, <2>3, <2>4
<1>11. ASSUME KickAfterBoot PROVE SentOnce'
  <2>1. req' = req /\ posted' = posted
    BY <1>11 DEF KickAfterBoot
  <2>2. \A k \in Msgs : k \notin inbox => got'[k] = got[k]
    BY <1>11 DEF KickAfterBoot, ClaimInboxFollowUp, Hand
  <2> SUFFICES ASSUME NEW q \in Posts, req'[q].pc \in InFlight \cup {"accept"}, req'[q].msg \notin Commands
               PROVE  /\ req[q].pc \in InFlight \cup {"accept"} /\ req'[q].msg = req[q].msg
                      /\ got'[req[q].msg] = got[req[q].msg]
                      /\ req'[q].pc = "accept" => req[q].pc = "accept" /\ (req[q].msg \in posted' => req[q].msg \in posted)
                      /\ \A t \in Posts : req'[t].msg = req[q].msg => req[t].msg = req[q].msg
    BY <1>0, SentOnceKept
  <2>4. req[q].msg \in Msgs /\ req[q].msg \notin inbox
    BY <1>0, <2>1, SendingOutside
  <2> QED  BY <1>0, <2>1, <2>2, <2>4
<1>12. ASSUME NEW r \in RunIds, KickAfterTurn(r) PROVE SentOnce'
  <2>1. req' = req /\ posted' = posted
    BY <1>12 DEF KickAfterTurn
  <2>2. \A k \in Msgs : k \notin inbox => got'[k] = got[k]
    BY <1>12 DEF KickAfterTurn, ClaimInboxFollowUp, Hand
  <2> SUFFICES ASSUME NEW q \in Posts, req'[q].pc \in InFlight \cup {"accept"}, req'[q].msg \notin Commands
               PROVE  /\ req[q].pc \in InFlight \cup {"accept"} /\ req'[q].msg = req[q].msg
                      /\ got'[req[q].msg] = got[req[q].msg]
                      /\ req'[q].pc = "accept" => req[q].pc = "accept" /\ (req[q].msg \in posted' => req[q].msg \in posted)
                      /\ \A t \in Posts : req'[t].msg = req[q].msg => req[t].msg = req[q].msg
    BY <1>0, SentOnceKept
  <2>4. req[q].msg \in Msgs /\ req[q].msg \notin inbox
    BY <1>0, <2>1, SendingOutside
  <2> QED  BY <1>0, <2>1, <2>2, <2>4
<1>13. ASSUME NEW r \in RunIds, TakeOwnerSteer(r) PROVE SentOnce'
  <2>1. req' = req /\ posted' = posted
    BY <1>13 DEF TakeOwnerSteer
  <2>2. \A k \in Msgs : k \notin inbox => got'[k] = got[k]
    BY <1>13 DEF TakeOwnerSteer, ClaimInboxFollowUp, Hand
  <2> SUFFICES ASSUME NEW q \in Posts, req'[q].pc \in InFlight \cup {"accept"}, req'[q].msg \notin Commands
               PROVE  /\ req[q].pc \in InFlight \cup {"accept"} /\ req'[q].msg = req[q].msg
                      /\ got'[req[q].msg] = got[req[q].msg]
                      /\ req'[q].pc = "accept" => req[q].pc = "accept" /\ (req[q].msg \in posted' => req[q].msg \in posted)
                      /\ \A t \in Posts : req'[t].msg = req[q].msg => req[t].msg = req[q].msg
    BY <1>0, SentOnceKept
  <2>4. req[q].msg \in Msgs /\ req[q].msg \notin inbox
    BY <1>0, <2>1, SendingOutside
  <2> QED  BY <1>0, <2>1, <2>2, <2>4
<1>14. ASSUME NEW p \in Posts, NEW r \in RunIds, AnswerParked(p, r) PROVE SentOnce'
  <2> DEFINE x == [Idle EXCEPT !.pc = "accept", !.msg = r]
  <2>1. req' = [req EXCEPT ![p] = x] /\ x.pc = "accept" /\ x.msg = r /\ UNCHANGED <<got, posted>>
    BY <1>14 DEF AnswerParked, Idle
  <2> HIDE DEF x
  <2>2. r \notin posted /\ r \in Msgs /\ got[r] = {} /\ \A q \in Posts : req[q].msg # r
    BY <1>0, <1>14 DEF AnswerParked, ParkedQuestion, UnseenUntilHanded, ContinuedIsOver, Ended, Msgs
  <2> QED  BY <1>0, <2>1, <2>2 DEF SentOnce
<1>15. ASSUME NEW p \in Posts, NEW r \in RunIds, NEW d \in {"allow", "deny"}, AnswerConsentParked(p, r, d)
      PROVE  SentOnce'
  <2> DEFINE x == IF d = "allow" THEN [Idle EXCEPT !.pc = "accept", !.msg = r] ELSE [Idle EXCEPT !.pc = "kick"]
  <2>1. req' = [req EXCEPT ![p] = x] /\ UNCHANGED <<got, posted>>
        /\ ((x.pc = "accept" /\ x.msg = r) \/ (x.pc = "kick" /\ x.msg = NoMsg))
    BY <1>15 DEF AnswerConsentParked, Idle
  <2> HIDE DEF x
  <2>2. r \notin posted /\ r \in Msgs /\ got[r] = {} /\ \A q \in Posts : req[q].msg # r
    BY <1>0, <1>15 DEF AnswerConsentParked, UnseenUntilHanded, ContinuedIsOver, Ended, Msgs
  <2>3. \A q \in Posts : req[q].pc \in InFlight \cup {"accept"} => req[q].msg # NoMsg
    BY <1>n
  <2> QED  BY <1>0, <2>1, <2>2, <2>3 DEF SentOnce, InFlight
<1>16. ASSUME ProcessEnds PROVE SentOnce'
  <2>1. \A q \in Posts : req'[q].pc = "idle"
    BY <1>16 DEF ProcessEnds, Idle
  <2> QED  BY <2>1 DEF SentOnce, InFlight
<1>17. ASSUME MessagesKept PROVE SentOnce'
  BY <1>0, <1>17 DEF MessagesKept, SentOnce
<1> QED
  BY MessageSteps, <1>1, <1>2, <1>3, <1>4, <1>5, <1>6, <1>7, <1>8, <1>9, <1>10, <1>11, <1>12,
     <1>13, <1>14, <1>15, <1>16, <1>17

(* Who continues a run: only the answer to a question or a consent that a  *)
(* restart left behind, and it ends the run in the same step.              *)
ContinuationsAreNew ==
  \A k \in RunIds : k \in posted' \/ (\E q \in Posts : req'[q].msg = k) =>
    \/ k \in posted \/ \E q \in Posts : req[q].msg = k
    \/ recovered'[k] /\ runStatus'[k] \in Ended

LEMMA ContinuationStep ==
  ASSUME "takeover" \notin Tools, TurnInvariant, [Next]_vars, TurnFacts
  PROVE  ContinuationsAreNew
<1>0. /\ req \in [Posts -> Request] /\ runStatus \in [RunIds -> RunStatus]
      /\ recovered \in [RunIds -> BOOLEAN] /\ ParkedHasTurn /\ LiveTurn
      /\ StoppedIsOver /\ "takeover" \notin Tools
      /\ NoMsg \notin RunIds /\ (Commands \cup Notes) \cap RunIds = {}
  BY MessagesAssumption, BoundsAssumption DEF TypeOK, TurnInvariant, TurnFacts, NoMsg, RunIds
<1> USE DEF ContinuationsAreNew, Up, durable, volatile, history
<1>1. ASSUME NEW p \in Posts, NEW c \in Commands, SendCommand(p, c) PROVE ContinuationsAreNew
  <2> DEFINE x == IF cmdRun[c] = NoRun THEN [Idle EXCEPT !.pc = "accept", !.msg = c]
                  ELSE [pc |-> "resume", msg |-> c, run |-> cmdRun[c], fresh |-> FALSE]
  <2>1. req' = [req EXCEPT ![p] = x] /\ x.msg = c /\ posted' = posted /\ c \notin RunIds
    BY <1>0, <1>1 DEF SendCommand, Idle
  <2> HIDE DEF x
  <2> QED  BY <1>0, <2>1
<1>2. ASSUME NEW p \in Posts, NEW n \in Notes, SendNote(p, n) PROVE ContinuationsAreNew
  <2> DEFINE x == [Idle EXCEPT !.pc = "accept", !.msg = n]
  <2>1. req' = [req EXCEPT ![p] = x] /\ x.msg = n /\ posted' = posted /\ n \notin RunIds
    BY <1>0, <1>2 DEF SendNote, Idle
  <2> HIDE DEF x
  <2> QED  BY <1>0, <2>1
<1>3. ASSUME NEW p \in Posts, BeginReplayed(p) PROVE ContinuationsAreNew
  <2> DEFINE x == IF req[p].msg \in inbox THEN Idle
                  ELSE [req[p] EXCEPT !.pc = "begun", !.run = cmdRun[req[p].msg]]
  <2>1. req' = [req EXCEPT ![p] = x] /\ x.msg \in {req[p].msg, NoMsg} /\ posted' = posted
    BY <1>0, <1>3 DEF BeginReplayed, Idle, Request
  <2> HIDE DEF x
  <2> QED  BY <1>0, <2>1
<1>4. ASSUME NEW p \in Posts, BeginQueued(p) PROVE ContinuationsAreNew
  <2>1. req' = [req EXCEPT ![p] = Idle] /\ Idle.msg = NoMsg /\ posted' \subseteq posted \cup {req[p].msg}
    BY <1>4 DEF BeginQueued, Idle
  <2> QED  BY <1>0, <2>1
<1>5. ASSUME NEW p \in Posts, BeginCreated(p) PROVE ContinuationsAreNew
  <2> DEFINE x == [pc |-> "begun", msg |-> req[p].msg, run |-> runCount + 1, fresh |-> TRUE]
  <2>1. req' = [req EXCEPT ![p] = x] /\ x.msg = req[p].msg /\ posted' = posted \cup {req[p].msg}
    BY <1>5 DEF BeginCreated
  <2> HIDE DEF x
  <2> QED  BY <1>0, <2>1
<1>6. ASSUME NEW p \in Posts, ClaimDispatch(p) PROVE ContinuationsAreNew
  <2> DEFINE x == IF dispatch[req[p].run] = "pending" THEN [req[p] EXCEPT !.pc = "claimed"] ELSE Idle
  <2>1. req' = [req EXCEPT ![p] = x] /\ x.msg \in {req[p].msg, NoMsg} /\ posted' = posted
    BY <1>0, <1>6 DEF ClaimDispatch, Idle, Request
  <2> HIDE DEF x
  <2> QED  BY <1>0, <2>1
<1>7. ASSUME NEW p \in Posts, StartClaimedTurn(p) PROVE ContinuationsAreNew
  <2>1. req' = [req EXCEPT ![p] = Idle] /\ Idle.msg = NoMsg /\ posted' \subseteq posted
    BY <1>7 DEF StartClaimedTurn, Idle
  <2> QED  BY <1>0, <2>1
<1>8. ASSUME NEW p \in Posts, ResumePendingDispatch(p) PROVE ContinuationsAreNew
  <2>1. req' = [req EXCEPT ![p] = Idle] /\ Idle.msg = NoMsg /\ posted' \subseteq posted
    BY <1>8 DEF ResumePendingDispatch, Idle
  <2> QED  BY <1>0, <2>1
<1>9. ASSUME NEW p \in Posts, AgentFails(p) PROVE ContinuationsAreNew
  <2>1. req' = [req EXCEPT ![p] = Idle] /\ Idle.msg = NoMsg /\ posted' \subseteq posted
    BY <1>9 DEF AgentFails, Idle
  <2> QED  BY <1>0, <2>1
<1>10. ASSUME NEW p \in Posts, KickAfterDeny(p) PROVE ContinuationsAreNew
  <2>1. req' = [req EXCEPT ![p] = Idle] /\ Idle.msg = NoMsg /\ posted' \subseteq posted
    BY <1>10 DEF KickAfterDeny, Idle
  <2> QED  BY <1>0, <2>1
<1>11. ASSUME KickAfterBoot PROVE ContinuationsAreNew
  BY <1>11 DEF KickAfterBoot
<1>12. ASSUME NEW r \in RunIds, KickAfterTurn(r) PROVE ContinuationsAreNew
  BY <1>12 DEF KickAfterTurn
<1>13. ASSUME NEW r \in RunIds, TakeOwnerSteer(r) PROVE ContinuationsAreNew
  BY <1>13 DEF TakeOwnerSteer
<1>14. ASSUME NEW p \in Posts, NEW r \in RunIds, AnswerParked(p, r) PROVE ContinuationsAreNew
  <2> DEFINE x == [Idle EXCEPT !.pc = "accept", !.msg = r]
  <2>1. req' = [req EXCEPT ![p] = x] /\ x.msg = r /\ UNCHANGED <<posted, recovered>>
        /\ runStatus' = [runStatus EXCEPT ![r] = "completed"]
    BY <1>14 DEF AnswerParked, EndParked, Idle
  <2>2. recovered[r]
    BY <1>0, <1>14 DEF AnswerParked, ParkedQuestion, ParkedHasTurn, LiveTurn, StoppedIsOver
  <2> HIDE DEF x
  <2> QED  BY <1>0, <2>1, <2>2 DEF Ended
<1>15. ASSUME NEW p \in Posts, NEW r \in RunIds, NEW d \in {"allow", "deny"}, AnswerConsentParked(p, r, d)
      PROVE  ContinuationsAreNew
  <2> DEFINE x == IF d = "allow" THEN [Idle EXCEPT !.pc = "accept", !.msg = r] ELSE [Idle EXCEPT !.pc = "kick"]
  <2>1. req' = [req EXCEPT ![p] = x] /\ x.msg \in {r, NoMsg} /\ UNCHANGED <<posted, recovered>>
        /\ runStatus' = [runStatus EXCEPT ![r] = IF d = "allow" THEN "completed" ELSE "failed"]
    BY <1>15 DEF AnswerConsentParked, EndParked, Idle
  <2>2. recovered[r]
    BY <1>0, <1>15 DEF AnswerConsentParked, ParkedHasTurn, LiveTurn, StoppedIsOver
  <2> HIDE DEF x
  <2> QED  BY <1>0, <2>1, <2>2 DEF Ended
<1>16. ASSUME ProcessEnds PROVE ContinuationsAreNew
  BY <1>0, <1>16 DEF ProcessEnds, Idle
<1>17. ASSUME MessagesKept PROVE ContinuationsAreNew
  BY <1>17 DEF MessagesKept
<1> HIDE DEF ContinuationsAreNew, Up, durable, volatile, history
<1> QED
  BY MessageSteps, <1>1, <1>2, <1>3, <1>4, <1>5, <1>6, <1>7, <1>8, <1>9, <1>10, <1>11, <1>12,
     <1>13, <1>14, <1>15, <1>16, <1>17

(* stops counts the presses of Stop and nothing resets it; only _shutdown_work *)
(* makes the process stop.                                                     *)
LEMMA StopsGrow ==
  ASSUME [Next]_vars, stops \in Nat
  PROVE  /\ stops' = 0 => stops = 0
         /\ "shutdown" \notin Faults /\ phase # "stopping" => phase' # "stopping"
<1> USE DEF durable, volatile, history
<1>1. ASSUME NEW p \in Posts,
             BeginReplayed(p) \/ BeginQueued(p) \/ BeginCreated(p) \/ ClaimDispatch(p)
               \/ StartClaimedTurn(p) \/ ResumePendingDispatch(p) \/ AgentFails(p) \/ KickAfterDeny(p)
      PROVE  UNCHANGED <<stops, phase>>
  BY <1>1 DEF BeginReplayed, BeginQueued, BeginCreated, ClaimDispatch, StartClaimedTurn,
              ResumePendingDispatch, AgentFails, KickAfterDeny
<1>2. ASSUME NEW p \in Posts, NEW c \in Commands, SendCommand(p, c) PROVE UNCHANGED <<stops, phase>>
  BY <1>2 DEF SendCommand
<1>3. ASSUME NEW p \in Posts, NEW n \in Notes, SendNote(p, n) PROVE UNCHANGED <<stops, phase>>
  BY <1>3 DEF SendNote
<1>4. ASSUME NEW p \in Posts, NEW r \in RunIds, AnswerParked(p, r) PROVE UNCHANGED <<stops, phase>>
  BY <1>4 DEF AnswerParked
<1>5. ASSUME NEW p \in Posts, NEW r \in RunIds, NEW d \in {"allow", "deny"}, AnswerConsentParked(p, r, d)
      PROVE  UNCHANGED <<stops, phase>>
  BY <1>5 DEF AnswerConsentParked
<1>6. ASSUME NEW r \in RunIds, NEW d \in {"allow", "deny"}, AnswerConsentLive(r, d) PROVE UNCHANGED <<stops, phase>>
  BY <1>6 DEF AnswerConsentLive
<1>7. ASSUME NEW r \in RunIds,
             KickAfterTurn(r) \/ KickFails(r) \/ TurnUnwinds(r) \/ RecoverRun(r) \/ AnswerLive(r)
               \/ NewAttempt(r)
      PROVE  UNCHANGED <<stops, phase>>
  BY <1>7 DEF KickAfterTurn, KickFails, TurnUnwinds, RecoverRun, TaskUnchanged, AnswerLive, NewAttempt
<1>8. ASSUME NEW r \in RunIds, NEW o \in Outcomes, TurnEnds(r, o) \/ DyingTurnEnds(r, o)
      PROVE  UNCHANGED <<stops, phase>>
  BY <1>8 DEF TurnEnds, DyingTurnEnds, TaskUnchanged
<1>9. ASSUME NEW r \in RunIds, Tool(r) PROVE UNCHANGED <<stops, phase>>
  BY <1>9 DEF Tool, ToolStarts, PlainTool, PostOptions, TakeOwnerSteer, AskPost, AskActivate, AskWakes,
              AskTimesOut, ConsentOffer, ConsentWait, ConsentReturns, TakeoverMark, TakeoverCancelTask
<1>10. ASSUME KickAfterBoot \/ BootStarts \/ BootEnds \/ ReleaseTakeover \/ Shutdown \/ ProcessEnds
                \/ UNCHANGED vars
       PROVE  stops' = stops /\ (phase' = phase \/ phase' \in {"up", "down", "boot"} \/ "shutdown" \in Faults)
  BY <1>10 DEF KickAfterBoot, BootStarts, BootEnds, ReleaseTakeover, Shutdown, ProcessEnds, vars
<1>11. ASSUME Stop PROVE stops' = stops + 1 /\ phase' = phase
  BY <1>11 DEF Stop
<1> HIDE DEF durable, volatile, history
<1>12. CASE Host
  BY <1>1, <1>7, <1>8, <1>10, <1>12 DEF Host
<1>13. CASE Owner
  BY <1>2, <1>3, <1>4, <1>5, <1>6, <1>7, <1>10, <1>11, <1>13 DEF Owner
<1> QED  BY <1>9, <1>10, <1>12, <1>13 DEF Next, Exit

(* Every step keeps what is known of the messages. *)
LEMMA HandedFactsStep ==
  ASSUME "takeover" \notin Tools, TurnInvariant, [Next]_vars, TurnFacts, ToolHasTurn, HandedFacts
  PROVE  HandedFacts'
<1>1. stops' = 0 => stops = 0
  BY StopsGrow, BoundsAssumption DEF TurnInvariant, TypeOK
<1> SUFFICES ASSUME stops = 0
             PROVE  UnseenUntilHanded' /\ SentOnce' /\ ContinuedIsOver'
  BY <1>1 DEF HandedFacts
<1>2. UnseenUntilHanded /\ SentOnce /\ ContinuedIsOver
  BY DEF HandedFacts
<1>3. ContinuedIsOver'
  BY <1>2, EndedStep, ContinuationStep DEF EndedStays, ContinuationsAreNew, ContinuedIsOver
<1> QED  BY <1>2, <1>3, UnseenStep, SentOnceStep

(* What leaves the inbox is handed to the run whose task is live after the step. *)
InboxHandedLive == \A m \in inbox \ inbox' : \E r \in got'[m] : task'[r] = "live"

LEMMA InboxStep ==
  ASSUME TurnInvariant, [Next]_vars, ToolHasTurn, stops = 0, phase # "stopping"
  PROVE  InboxHandedLive
<1>0. /\ task \in [RunIds -> {"none", "live", "cancelling", "stopped", "kick", "dying"}]
      /\ req \in [Posts -> Request] /\ inbox \subseteq Msgs
  BY DEF TurnInvariant, TypeOK
<1>1. ASSUME NEW rest \in [RunIds -> {"none", "live", "cancelling", "stopped", "kick", "dying"}],
             ClaimInboxFollowUp(rest)
      PROVE  InboxHandedLive
  <2>1. CASE BusyRuns(runStatus) = {} /\ inbox # {}
    <3> DEFINE n == runCount + 1
    <3>1. n \in RunIds /\ got' = Hand(inbox, n) /\ task' = [rest EXCEPT ![n] = "live"]
      BY <1>1, <2>1, BoundsAssumption DEF ClaimInboxFollowUp, RunIds, TurnInvariant, TypeOK
    <3> HIDE DEF n
    <3> QED  BY <1>0, <3>1 DEF InboxHandedLive, Hand
  <2>2. CASE ~(BusyRuns(runStatus) = {} /\ inbox # {})
    BY <1>1, <2>2 DEF ClaimInboxFollowUp, InboxHandedLive
  <2> QED  BY <2>1, <2>2
<1>2. ASSUME NEW p \in Posts, KickAfterDeny(p) PROVE InboxHandedLive
  BY <1>0, <1>1, <1>2 DEF KickAfterDeny
<1>3. ASSUME KickAfterBoot PROVE InboxHandedLive
  BY <1>0, <1>1, <1>3 DEF KickAfterBoot
<1>4. ASSUME NEW r \in RunIds, KickAfterTurn(r) PROVE InboxHandedLive
  BY <1>0, <1>1, <1>4 DEF KickAfterTurn
<1>5. ASSUME NEW p \in Posts, StartClaimedTurn(p) PROVE InboxHandedLive
  <2> DEFINE n == req[p].run
             ms == {req[p].msg} \cup (IF req[p].fresh THEN inbox ELSE {})
  <2>1. /\ n \in RunIds /\ got' = Hand(ms, n) /\ task' = [task EXCEPT ![n] = "live"]
        /\ inbox \ inbox' \subseteq ms
    BY <1>0, <1>5, RequestForms DEF StartClaimedTurn
  <2> HIDE DEF n, ms
  <2> QED  BY <1>0, <2>1 DEF InboxHandedLive, Hand
<1>6. ASSUME NEW r \in RunIds, TakeOwnerSteer(r) PROVE InboxHandedLive
  <2>1. task[r] = "live" /\ task' = task
    BY <1>6 DEF TakeOwnerSteer, ToolHasTurn
  <2> QED  BY <1>0, <1>6, <2>1 DEF TakeOwnerSteer, InboxHandedLive, Hand
<1>7. ASSUME inbox \subseteq inbox' PROVE InboxHandedLive
  BY <1>7 DEF InboxHandedLive
<1>8. ASSUME NEW p \in Posts,
             BeginReplayed(p) \/ BeginQueued(p) \/ BeginCreated(p) \/ ClaimDispatch(p)
               \/ ResumePendingDispatch(p) \/ AgentFails(p)
      PROVE  inbox \subseteq inbox'
  BY <1>8 DEF BeginReplayed, BeginQueued, BeginCreated, ClaimDispatch, ResumePendingDispatch, AgentFails,
              durable
<1>9. ASSUME NEW p \in Posts, NEW c \in Commands, SendCommand(p, c) PROVE inbox \subseteq inbox'
  BY <1>9 DEF SendCommand
<1>10. ASSUME NEW p \in Posts, NEW n \in Notes, SendNote(p, n) PROVE inbox \subseteq inbox'
  BY <1>10 DEF SendNote, durable
<1>11. ASSUME NEW p \in Posts, NEW r \in RunIds, AnswerParked(p, r) PROVE inbox \subseteq inbox'
  BY <1>11 DEF AnswerParked
<1>12. ASSUME NEW p \in Posts, NEW r \in RunIds, NEW d \in {"allow", "deny"}, AnswerConsentParked(p, r, d)
       PROVE  inbox \subseteq inbox'
  BY <1>12 DEF AnswerConsentParked
<1>13. ASSUME MessagesKept \/ ProcessEnds PROVE inbox \subseteq inbox'
  BY <1>13 DEF MessagesKept, ProcessEnds, durable
<1> QED
  BY MessageSteps, <1>2, <1>3, <1>4, <1>5, <1>6, <1>7, <1>8, <1>9, <1>10, <1>11, <1>12, <1>13

-----------------------------------------------------------------------------
(* The results.  mark_run_waiting_takeover writes the status of a run without *)
(* looking at it: where a bot has the takeover tool, the results need that   *)
(* nothing ends its turn under that tool (TakeoverIsAlone), or, where a       *)
(* queued message is concerned, that it has no such tool.                    *)

(* The inductive invariant holds in every reachable state. *)
THEOREM InvariantHolds ==
  ASSUME TakeoverIsAlone
  PROVE  Spec => []TurnInvariant
<1>1. Init => TurnInvariant
  <2> SUFFICES ASSUME Init PROVE TurnInvariant
    OBVIOUS
  <2>1. TypeOK
    BY TypeInit
  <2>2. RowsInserted /\ TakeoverIsOwn /\ LiveTurn /\ DyingTurn /\ Leftover /\ RecoveredIsQuiet
    BY DEF Init, RowsInserted, TakeoverIsOwn, LiveTurn, DyingTurn, Leftover, RecoveredIsQuiet
  <2>3. NotStarted /\ ClaimedOnce /\ BootIsAlone
    BY DEF Init, NotStarted, ClaimedOnce, BootIsAlone, Starting, Idle
  <2>4. OneBusyRun /\ BotStatusAgrees
    BY DEF Init, OneBusyRun, BotStatusAgrees, BusyRuns, WithStatus, Busy
  <2> QED  BY <2>1, <2>2, <2>3, <2>4 DEF TurnInvariant
<1>2. TurnInvariant /\ [Next]_vars => TurnInvariant'
  BY InvariantStep
<1> QED  BY <1>1, <1>2, PTL DEF Spec

(* At most one run of the bot is busy, whatever retries, restarts, stops and *)
(* late results happen.                                                      *)
THEOREM OneBusyRunHolds ==
  ASSUME TakeoverIsAlone
  PROVE  Spec => []OneBusyRun
<1>1. TurnInvariant => OneBusyRun
  BY DEF TurnInvariant
<1> QED  BY <1>1, InvariantHolds, PTL

(* The bot is shown idle or in error only when none of its runs is busy. *)
THEOREM BotStatusHolds ==
  ASSUME TakeoverIsAlone
  PROVE  Spec => []BotStatusAgrees
<1>1. TurnInvariant => BotStatusAgrees
  BY DEF TurnInvariant
<1> QED  BY <1>1, InvariantHolds, PTL

(* A live turn waits for the owner only in a tool of its own, so an answer *)
(* that treats its wait as a leftover never ends the run under it.         *)
THEOREM LiveTurnHolds ==
  ASSUME TakeoverIsAlone
  PROVE  Spec => []LiveTurn
<1>1. TurnInvariant => LiveTurn
  BY DEF TurnInvariant
<1> QED  BY <1>1, InvariantHolds, PTL

(* Stop keeps the run cancelled: no later step takes it out of cancelled. *)
THEOREM StopIsFinalHolds ==
  ASSUME TakeoverIsAlone
  PROVE  Spec => StopIsFinal
<1>1. TurnInvariant /\ [Next]_vars => [StaysCancelled]_vars
  BY StatusStep
<1> QED  BY <1>1, InvariantHolds, PTL DEF Spec, StopIsFinal, StaysCancelled

(* A late result of the previous process never completes a recovered run. *)
THEOREM NoLateCompletionHolds ==
  ASSUME TakeoverIsAlone
  PROVE  Spec => NoLateCompletion
<1>1. TurnInvariant /\ [Next]_vars => [NotCompletedLate]_vars
  BY StatusStep
<1> QED  BY <1>1, InvariantHolds, PTL DEF Spec, NoLateCompletion, NotCompletedLate

(* The facts about who works on a run hold in every reachable state. *)
THEOREM TurnFactsHold ==
  ASSUME TakeoverIsAlone
  PROVE  Spec => []TurnFacts
<1>1. Init => TurnFacts
  BY DEF Init, TurnFacts, StoppedIsOver, ParkedHasTurn, BootFinds, StartedIsBusy
<1>2. TurnInvariant /\ [Next]_vars /\ TurnFacts => TurnFacts'
  BY TurnFactsStep
<1> QED  BY <1>1, <1>2, InvariantHolds, PTL DEF Spec

(* Until the owner first presses Stop, at most one turn task drives the bot and *)
(* its run is busy, whatever is retried and however often the host restarts.    *)
(* (After a Stop the retry of a stopped command revives its run: the run        *)
(* stop_then_retry shows it.)                                                   *)
THEOREM OneLiveTurnHolds ==
  ASSUME TakeoverIsAlone
  PROVE  Spec => [](stops = 0 => OneLiveTurn)
<1>1. TurnInvariant /\ TurnFacts => (stops = 0 => OneLiveTurn)
  <2> SUFFICES ASSUME TurnInvariant, TurnFacts, stops = 0
               PROVE  OneLiveTurn
    OBVIOUS
  <2>1. \A r \in RunIds : Drives(r) => runStatus[r] \in {"running", "waiting_input", "waiting_takeover"}
    BY DEF TurnInvariant, LiveTurn, TurnFacts, StartedIsBusy, Drives
  <2>2. \A r \in RunIds : Drives(r) => r \in BusyRuns(runStatus)
    BY <2>1 DEF BusyRuns, WithStatus, Busy
  <2> QED  BY <2>2 DEF OneLiveTurn, Drives, TurnInvariant, OneBusyRun, BusyRuns, WithStatus
<1> QED  BY <1>1, InvariantHolds, TurnFactsHold, PTL

(* Where _ensure_agent does not fail, a running run is driven. *)
THEOREM DrivenHolds ==
  ASSUME TakeoverIsAlone, "agent" \notin Faults
  PROVE  Spec => []Driven
<1>1. Init => Driven
  BY DEF Init, Driven
<1>2. TurnInvariant /\ [Next]_vars /\ TurnFacts /\ Driven => Driven'
  BY DrivenStep
<1> QED  BY <1>1, <1>2, InvariantHolds, TurnFactsHold, PTL DEF Spec

(* Where, besides, no tool waits for the owner and every message is a command, *)
(* only commands are sent.                                                     *)
THEOREM OnlyCommandsHolds ==
  ASSUME Tools \subseteq {"plain", "takeover"}, TakeoverIsAlone, Notes = {}
  PROVE  Spec => []OnlyCommands
<1>1. Init => OnlyCommands
  BY DEF Init, OnlyCommands, Idle
<1>2. TurnInvariant /\ [Next]_vars /\ OnlyCommands => OnlyCommands'
  BY OnlyCommandsStep
<1> QED  BY <1>1, <1>2, InvariantHolds, PTL DEF Spec

(* With the host up, a run in status running is being driven by a task, by a *)
(* request that is about to start it, or by the retry of its own command.    *)
THEOREM RunningHasDriverHolds ==
  ASSUME Tools \subseteq {"plain", "takeover"}, TakeoverIsAlone, Notes = {}, "agent" \notin Faults
  PROVE  Spec => []RunningHasDriver
<1>1. Driven /\ OnlyCommands => RunningHasDriver
  BY DEF Driven, OnlyCommands, RunningHasDriver, Starting
<1> QED  BY <1>1, DrivenHolds, OnlyCommandsHolds, PTL

(* A queued message waits behind a busy run, or something is on its way that *)
(* looks at the inbox, or the owner pressed Stop and has not sent since.     *)
THEOREM NoStrandedInboxHolds ==
  ASSUME "takeover" \notin Tools, "agent" \notin Faults
  PROVE  Spec => []NoStrandedInbox
<1>1. Init => InboxWatched
  BY DEF Init, InboxWatched
<1>2. TurnInvariant /\ [Next]_vars /\ TurnFacts /\ InboxWatched => InboxWatched'
  BY WatchedStep
<1>3. InboxWatched => NoStrandedInbox
  BY DEF InboxWatched, NoStrandedInbox
<1>4. TakeoverIsAlone
  BY DEF TakeoverIsAlone
<1> QED  BY <1>1, <1>2, <1>3, <1>4, InvariantHolds, TurnFactsHold, PTL DEF Spec

(* What is known of the messages holds in every reachable state, unless the *)
(* runtime ends a turn under one of its tools.                              *)
THEOREM HandedFactsHold ==
  ASSUME "takeover" \notin Tools, "midtool" \notin Faults
  PROVE  Spec => [](ToolHasTurn /\ HandedFacts)
<1>1. Init => ToolHasTurn /\ HandedFacts
  <2> SUFFICES ASSUME Init PROVE ToolHasTurn /\ HandedFacts
    OBVIOUS
  <2>1. ToolHasTurn
    BY DEF Init, ToolHasTurn
  <2>2. UnseenUntilHanded
    <3>1. NoRun <= runCount
      BY DEF Init, NoRun
    <3> QED  BY <3>1 DEF Init, UnseenUntilHanded, InFlight, Idle
  <2>3. SentOnce
    BY DEF Init, SentOnce, InFlight, Idle
  <2>4. ContinuedIsOver
    <3>1. NoMsg \notin RunIds
      BY BoundsAssumption DEF NoMsg, RunIds
    <3> QED  BY <3>1 DEF Init, ContinuedIsOver, Idle
  <2> QED  BY <2>1, <2>2, <2>3, <2>4 DEF HandedFacts
<1>2. TurnInvariant /\ [Next]_vars /\ TurnFacts /\ ToolHasTurn /\ HandedFacts => ToolHasTurn' /\ HandedFacts'
  BY ToolStep, HandedFactsStep
<1>3. TakeoverIsAlone
  BY DEF TakeoverIsAlone
<1> QED  BY <1>1, <1>2, <1>3, InvariantHolds, TurnFactsHold, PTL DEF Spec

(* Until the owner first presses Stop, no message is handed to two turns, nor *)
(* twice to one: neither by a retry, nor by a follow-up, a drain at a tool or *)
(* a restart between any two commits.                                         *)
THEOREM HandedOnceHolds ==
  ASSUME "takeover" \notin Tools, "midtool" \notin Faults
  PROVE  Spec => [](stops = 0 => HandedOnce)
<1>1. HandedFacts => (stops = 0 => HandedOnce)
  <2> SUFFICES ASSUME HandedFacts, stops = 0, NEW m \in Msgs
               PROVE  Cardinality(got[m]) <= 1
    BY DEF HandedOnce
  <2>1. got[m] = {} \/ \E r \in RunIds : got[m] = {r}
    BY DEF HandedFacts, UnseenUntilHanded
  <2>2. \A r \in RunIds : Cardinality({r}) = 1
    BY FS_Singleton
  <2> QED  BY <2>1, <2>2, FS_EmptySet
<1> QED  BY <1>1, HandedFactsHold, PTL

(* Where Stop is not pressed and the process is not asked to exit, a message *)
(* leaves the inbox only into a turn that is live.                           *)
THEOREM InboxGoesToLiveTurnHolds ==
  ASSUME "takeover" \notin Tools, "midtool" \notin Faults, "shutdown" \notin Faults, MaxStops = 0
  PROVE  Spec => InboxGoesToLiveTurn
<1>1. Init => phase # "stopping"
  BY DEF Init
<1>2. TurnInvariant => stops = 0 /\ stops \in Nat
  BY DEF TurnInvariant, TypeOK
<1>3. TurnInvariant /\ [Next]_vars /\ phase # "stopping" => (phase # "stopping")'
  BY <1>2, StopsGrow
<1>4. TurnInvariant /\ [Next]_vars /\ ToolHasTurn /\ phase # "stopping" => [InboxHandedLive]_vars
  BY <1>2, InboxStep
<1>5. TakeoverIsAlone
  BY DEF TakeoverIsAlone
<1> QED  BY <1>1, <1>3, <1>4, <1>5, InvariantHolds, HandedFactsHold, PTL
        DEF Spec, InboxGoesToLiveTurn, InboxHandedLive
=============================================================================
