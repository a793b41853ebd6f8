----------------------------- MODULE HostProofs -----------------------------
(***************************************************************************)
(* The parts of MCServices together: whichever part moves, and from any of *)
(* its initial states, the state of every part stays of its type           *)
(* (ServicesTypeOK).  A part that moves takes the steps of its own         *)
(* specification, whose types are those its theorems keep; a part that     *)
(* waits is where it was.                                                  *)
(***************************************************************************)
EXTENDS MCServices, BootProofs, BotsProofs, DataProofs, ServicesProofs, TLAPS

(***************************************************************************)
(* Types that no other property of their part needs.                       *)
(***************************************************************************)

(* Questions, cards, the handler at work and the count of exits. *)
RecoveryRest ==
  /\ question \in [Leftovers -> {"none", "pending", "answered"}]
  /\ card \in [Leftovers -> {"none", "pending", "resolved"}]
  /\ handler \in Leftovers \cup {NoLeftover}
  /\ bootExits \in 0..MaxBootExits

LEMMA RecoveryRestInit == RecoveryInit => RecoveryRest
<1> SUFFICES ASSUME RecoveryInit PROVE RecoveryRest OBVIOUS
<1>1. PICK place \in [Leftovers -> TurnPlaces] : question = [r \in Leftovers |-> place[r].question]
  BY DEF RecoveryInit
<1>2. \A t \in TurnPlaces : t.question \in {"none", "pending", "answered"} BY DEF TurnPlaces
<1>3. 0 \in 0..MaxBootExits BY RecoveryAssumption
<1> QED BY <1>1, <1>2, <1>3 DEF RecoveryInit, RecoveryRest

(* A step that answers, shows a card, ends a run or exits. *)
LEMMA RecoveryRestStep == RecoveryRest /\ [RecoveryNext]_recoveryVars => RecoveryRest'
<1> SUFFICES ASSUME RecoveryRest, [RecoveryNext]_recoveryVars PROVE RecoveryRest' OBVIOUS
<1> USE DEF RecoveryRest
<1>1. CASE RecoverOrphanedRuns \/ Serve BY <1>1 DEF RecoverOrphanedRuns, Serve
<1>2. CASE EndParkedRun BY <1>2 DEF EndParkedRun
<1>3. CASE BootExits
<2>1. bootExits' \in 0..MaxBootExits BY <1>3, RecoveryAssumption DEF BootExits
<2> QED BY <1>3, <2>1 DEF BootExits
<1>4. ASSUME NEW r \in Leftovers,
             \/ RecoverNext(r) \/ MarkRunWaitRecovered(r) \/ CloseNonContinueConsent(r)
             \/ ParkRecoveryRun(r) \/ BindCard(r) \/ StopThread(r)
      PROVE  RecoveryRest'
  BY <1>4 DEF RecoverNext, MarkRunWaitRecovered, CloseNonContinueConsent, ParkRecoveryRun,
              BindCard, StopThread
<1>5. ASSUME NEW r \in Leftovers,
             AppendCard(r) \/ ResolveRunRecovery(r) \/ AnswerQuestion(r) \/ AnswerConsent(r)
      PROVE  RecoveryRest'
  BY <1>5 DEF AppendCard, ResolveRunRecovery, AnswerQuestion, AnswerConsent
<1>6. CASE UNCHANGED recoveryVars BY <1>6 DEF recoveryVars
<1> QED BY <1>1, <1>2, <1>3, <1>4, <1>5, <1>6 DEF RecoveryNext

LEMMA RecoveryIsTyped == RecoveryInvariant /\ RecoveryRest => RecoveryTypeOK
BY DEF RecoveryInvariant, RecoveryTypes, RecoveryRest, RecoveryTypeOK, Statuses, LeftRequests,
       Waits, BootStates

LEMMA RecoveryTypesHold == RecoverySpec => []RecoveryTypeOK
BY RecoveryIsTyped, RecoveryInvariantHolds, RecoveryRestInit, RecoveryRestStep, PTL DEF RecoverySpec

(* Computers and tool threads: a thread that has read a row of a computer has *)
(* one that is still there.                                                   *)
ToolStates ==
  [pc : {"idle", "turn", "provision", "save"}, mode : {"team", "dedicated"}, row : BOOLEAN]

RosterRest ==
  /\ computers \in [HomeKeys -> {"none", "new", "ref"}]
  /\ tool \in [RosterBots -> ToolStates]
  /\ \A b \in RosterBots : tool[b].row => computers[HomeOf(b, tool[b].mode)] # "none"

(* No row of a computer goes. *)
RowsStay ==
  /\ computers' \in [HomeKeys -> {"none", "new", "ref"}]
  /\ \A h \in HomeKeys : computers[h] # "none" => computers'[h] # "none"

LEMMA RosterRestInit == RosterInit => RosterRest
BY DEF RosterInit, RosterRest, ToolStates, NoTool

(* ensure_computer makes the row that is missing. *)
LEMMA EnsureKeepsRows ==
  ASSUME RosterRest, NEW b \in RosterBots, NEW mode, EnsureComputer(b, mode)
  PROVE  RowsStay /\ computers'[HomeOf(b, mode)] # "none"
<1>1. HomeOf(b, mode) \in HomeKeys BY HomeIsKey
<1> QED BY <1>1 DEF EnsureComputer, RosterRest, RowsStay

(* A row that is saved. *)
LEMMA OneRowChanges ==
  ASSUME RosterRest, NEW h \in HomeKeys, NEW s \in {"new", "ref"},
         computers' = computers \/ computers' = [computers EXCEPT ![h] = s]
  PROVE  RowsStay
BY DEF RosterRest, RowsStay

(* A step of the tools that leaves what they have read, or has it forgotten. *)
LEMMA ToolsForget ==
  ASSUME RosterRest, RowsStay, tool' \in [RosterBots -> ToolStates],
         \A b \in RosterBots : tool'[b].row => tool[b].row /\ tool'[b].mode = tool[b].mode
  PROVE  RosterRest'
<1>1. \A b \in RosterBots : HomeOf(b, tool[b].mode) \in HomeKeys BY HomeIsKey
<1> QED BY <1>1 DEF RosterRest, RowsStay, HomeOf

(* A thread whose row is deleted finds none when it saves. *)
LEMMA DeletedAreForgotten ==
  ASSUME RosterRest, NEW homes, DeleteComputers(homes)
  PROVE  RosterRest'
<1>1. \A b \in RosterBots : HomeOf(b, tool[b].mode) \in HomeKeys BY HomeIsKey
<1>2. computers' \in [HomeKeys -> {"none", "new", "ref"}] BY DEF RosterRest, DeleteComputers
<1>3. tool' \in [RosterBots -> ToolStates]
  BY DEF RosterRest, DeleteComputers, ToolStates
<1>4. ASSUME NEW b \in RosterBots, tool'[b].row
      PROVE  computers'[HomeOf(b, tool'[b].mode)] # "none"
<2>1. HomeOf(b, tool[b].mode) \notin homes /\ tool'[b] = tool[b]
  BY <1>4 DEF DeleteComputers, RosterRest, ToolStates
<2> QED BY <1>1, <1>4, <2>1 DEF DeleteComputers, RosterRest
<1> QED BY <1>2, <1>3, <1>4 DEF RosterRest

(* One case per action. *)
LEMMA RosterRestStep == RosterTypes /\ RosterRest /\ [RosterNext]_rosterVars => RosterRest'
<1> SUFFICES ASSUME RosterTypes, RosterRest, [RosterNext]_rosterVars PROVE RosterRest' OBVIOUS
<1>0. tool \in [RosterBots -> ToolStates] /\ NoTool \in ToolStates /\ ~NoTool.row
  BY DEF RosterRest, ToolStates, NoTool
<1>1. ASSUME tool' = tool, RowsStay PROVE RosterRest' BY <1>0, <1>1, ToolsForget
<1>2. computers' = computers => RowsStay BY DEF RosterRest, RowsStay
<1>3. ASSUME NEW b \in RosterBots, NEW mode \in {"team", "dedicated"},
             CreateBot(b, mode) \/ UpdateBot(b, mode)
      PROVE  RosterRest'
  BY <1>1, <1>2, <1>3 DEF CreateBot, UpdateBot
<1>4. ASSUME NEW b \in RosterBots, AttachComputer(b) \/ RemoveReleases(b) PROVE RosterRest'
  BY <1>1, <1>4, EnsureKeepsRows DEF AttachComputer, RemoveReleases
<1>5. ASSUME NEW b \in RosterBots, ArchiveBot(b) \/ SaveSecret(b) \/ RemoveForgets(b)
      PROVE  RosterRest'
  BY <1>1, <1>2, <1>5 DEF ArchiveBot, SaveSecret, RemoveForgets
<1>6. ASSUME NEW b \in RosterBots, RemoveDestroys(b) PROVE RosterRest'
<2>1. HomeOf(b, roster[b].mode) \in HomeKeys BY HomeIsKey
<2>2. RowsStay BY <1>6, <2>1, OneRowChanges DEF RemoveDestroys
<2> QED BY <1>1, <1>6, <2>2 DEF RemoveDestroys
<1>7. ASSUME NEW b \in RosterBots, RemoveRows(b) PROVE RosterRest'
  BY <1>7, DeletedAreForgotten DEF RemoveRows
<1>8. ASSUME NEW h \in HomeKeys, ReapOrphan(h) PROVE RosterRest'
  BY <1>8, DeletedAreForgotten DEF ReapOrphan
<1>9. CASE HostBooted \/ UNCHANGED rosterVars BY <1>1, <1>2, <1>9 DEF HostBooted, rosterVars
<1>10. CASE RosterHostExits
<2>1. tool' = [b \in RosterBots |-> NoTool] /\ computers' = computers BY <1>10 DEF RosterHostExits
<2> QED BY <1>0, <1>2, <2>1, ToolsForget
<1>11. ASSUME NEW b \in RosterBots, ToolBegins(b) PROVE RosterRest'
<2> DEFINE t == [NoTool EXCEPT !.pc = "turn", !.mode = roster[b].mode]
<2>1. t \in ToolStates /\ ~t.row
<3>1. roster[b].mode \in {"team", "dedicated"} BY DEF RosterTypes
<3> QED BY <3>1 DEF NoTool, ToolStates
<2>2. tool' = [tool EXCEPT ![b] = t] /\ computers' = computers BY <1>11 DEF ToolBegins
<2> HIDE DEF t
<2> QED BY <1>0, <1>2, <2>1, <2>2, ToolsForget
<1>12. ASSUME NEW b \in RosterBots, ToolAttaches(b) PROVE RosterRest'
<2>1. RowsStay /\ computers'[HomeOf(b, tool[b].mode)] # "none"
  BY <1>12, EnsureKeepsRows DEF ToolAttaches
<2>2. tool' = [tool EXCEPT ![b].pc = "provision", ![b].row = TRUE] BY <1>12 DEF ToolAttaches
<2>3. /\ tool' \in [RosterBots -> ToolStates]
      /\ tool'[b].mode = tool[b].mode
      /\ \A u \in RosterBots \ {b} : tool'[u] = tool[u]
  BY <1>0, <2>2 DEF ToolStates
<2>4. ASSUME NEW u \in RosterBots, tool'[u].row PROVE computers'[HomeOf(u, tool'[u].mode)] # "none"
<3>1. CASE u = b BY <2>1, <2>3, <3>1
<3>2. CASE u # b
<4>1. HomeOf(u, tool[u].mode) \in HomeKeys BY HomeIsKey
<4> QED BY <2>1, <2>3, <2>4, <3>2, <4>1 DEF RosterRest, RowsStay
<3> QED BY <3>1, <3>2
<2> QED BY <2>1, <2>3, <2>4 DEF RosterRest, RowsStay
<1>13. ASSUME NEW b \in RosterBots, ToolProvisions(b) PROVE RosterRest'
<2>1. tool' = [tool EXCEPT ![b].pc = "save"] /\ computers' = computers BY <1>13 DEF ToolProvisions
<2>2. /\ tool' \in [RosterBots -> ToolStates]
      /\ \A u \in RosterBots : tool'[u].row = tool[u].row /\ tool'[u].mode = tool[u].mode
  BY <1>0, <2>1 DEF ToolStates
<2> QED BY <1>2, <2>1, <2>2, ToolsForget
<1>14. ASSUME NEW b \in RosterBots, ToolSaves(b) \/ ToolProvisionFails(b) PROVE RosterRest'
<2>1. HomeOf(b, tool[b].mode) \in HomeKeys BY HomeIsKey
<2>2. RowsStay BY <1>14, <2>1, OneRowChanges DEF ToolSaves, ToolProvisionFails
<2>3. tool' = [tool EXCEPT ![b].pc = "turn", ![b].row = FALSE]
  BY <1>14 DEF ToolSaves, ToolProvisionFails
<2>4. /\ tool' \in [RosterBots -> ToolStates] /\ ~tool'[b].row
      /\ \A u \in RosterBots \ {b} : tool'[u] = tool[u]
  BY <1>0, <2>3 DEF ToolStates
<2> QED BY <2>2, <2>4, ToolsForget
<1>15. ASSUME NEW b \in RosterBots, ToolEnds(b) PROVE RosterRest'
<2>1. tool' = [tool EXCEPT ![b] = NoTool] /\ computers' = computers BY <1>15 DEF ToolEnds
<2> QED BY <1>0, <1>2, <2>1, ToolsForget
<1> QED BY <1>3, <1>4, <1>5, <1>6, <1>7, <1>8, <1>9, <1>10, <1>11, <1>12, <1>13, <1>14, <1>15
        DEF RosterNext

LEMMA RosterIsTyped == RosterTypes /\ RosterRest => RosterTypeOK
BY DEF RosterTypes, RosterRest, RosterTypeOK

LEMMA RosterTypesHold == RosterSpec => []RosterTypeOK
<1>1. RosterInvariant => RosterTypes BY DEF RosterInvariant
<1> QED BY <1>1, RosterIsTyped, RosterInvariantHolds, RosterRestInit, RosterRestStep, PTL DEF RosterSpec

(* A request that replaces or starts a container has found it among them. *)
DesktopsRest == \A c \in Creators : creator[c].boxes <= Len(boxes)

LEMMA DesktopsRestInit == DesktopsInit => DesktopsRest
<1> SUFFICES ASSUME DesktopsInit PROVE DesktopsRest OBVIOUS
<1>1. Len(boxes) \in Nat
<2>1. DesktopsInvariant BY DesktopsInitOK
<2> QED BY <2>1 DEF DesktopsInvariant, DesktopTypes
<1> QED BY <1>1 DEF DesktopsInit, DesktopsRest, NoCreate

(* Containers do not get fewer. *)
LEMMA RequestsFind ==
  ASSUME DesktopTypes, DesktopsRest, Len(boxes') \in Nat, Len(boxes) <= Len(boxes'),
         \A c \in Creators : \/ creator'[c].boxes = creator[c].boxes
                             \/ creator'[c].boxes \in 0..Len(boxes')
  PROVE  DesktopsRest'
<1>1. \A c \in Creators : creator[c].boxes \in Nat BY DEF DesktopTypes, CreatorStates
<1>2. Len(boxes) \in Nat BY DEF DesktopTypes
<1> QED BY <1>1, <1>2 DEF DesktopsRest

(* Only find_by_name and the create call give a request another container. *)
LEMMA DesktopsRestStep == DesktopTypes /\ DesktopsRest /\ [DesktopsNext]_desktopVars => DesktopsRest'
<1> SUFFICES ASSUME DesktopTypes, DesktopsRest, [DesktopsNext]_desktopVars PROVE DesktopsRest'
  OBVIOUS
<1>0. /\ creator \in [Creators -> CreatorStates] /\ NoCreate.boxes = 0
      /\ DOMAIN boxes = 1..Len(boxes) /\ Len(boxes) \in Nat /\ boxes \in Seq(BoxStates)
  BY DEF DesktopTypes, NoCreate
<1> DEFINE RequestMoves(c) ==
         (\E pc : CreatorGoes(c, pc)) \/ CreatorFails(c) \/ creator' = creator
<1>1. ASSUME NEW c \in Creators, RequestMoves(c), DOMAIN boxes' = DOMAIN boxes, Len(boxes') = Len(boxes)
      PROVE  DesktopsRest'
<2>1. \A d \in Creators : creator'[d].boxes \in {creator[d].boxes, 0}
<3>1. ASSUME NEW pc, CreatorGoes(c, pc)
      PROVE  \A d \in Creators : creator'[d].boxes \in {creator[d].boxes, 0}
  BY <1>0, <3>1 DEF CreatorGoes, CreatorStates
<3>2. CASE CreatorFails(c) BY <1>0, <3>2 DEF CreatorFails
<3> QED BY <1>1, <3>1, <3>2
<2> QED BY <1>0, <1>1, <2>1, RequestsFind
<1>2. ASSUME NEW c \in Creators, NEW h \in Homes, FindByName(c, h) PROVE DesktopsRest'
<2>1. \E b \in 0..Len(boxes) : \E pc :
        creator' = [creator EXCEPT ![c] = [pc |-> pc, home |-> h, boxes |-> b]]
<3>1. 0 \in 0..Len(boxes) /\ Present(h) \subseteq 0..Len(boxes) BY <1>0 DEF Present
<3>2. CASE creator' = [creator EXCEPT ![c] = [pc |-> "network", home |-> h, boxes |-> 0]]
  BY <3>1, <3>2
<3>3. ASSUME NEW b \in Present(h), NEW pc,
             creator' = [creator EXCEPT ![c] = [pc |-> pc, home |-> h, boxes |-> b]]
      PROVE  \E d \in 0..Len(boxes) : \E to :
               creator' = [creator EXCEPT ![c] = [pc |-> to, home |-> h, boxes |-> d]]
  BY <3>1, <3>3
<3> QED BY <1>2, <3>2, <3>3 DEF FindByName
<2>2. boxes' = boxes BY <1>2 DEF FindByName
<2>3. \A d \in Creators : creator'[d].boxes = creator[d].boxes \/ creator'[d].boxes \in 0..Len(boxes')
<3>1. PICK b \in 0..Len(boxes) : \E pc :
        creator' = [creator EXCEPT ![c] = [pc |-> pc, home |-> h, boxes |-> b]]
  BY <2>1
<3> QED BY <1>0, <2>2, <3>1
<2> QED BY <1>0, <2>2, <2>3, RequestsFind
<1>3. ASSUME NEW c \in Creators, RemoveReplaced(c) PROVE DesktopsRest'
<2>1. DOMAIN boxes' = DOMAIN boxes /\ RequestMoves(c) BY <1>3 DEF RemoveReplaced
<2>2. Len(boxes') = Len(boxes)
<3>1. boxes' = [b \in 1..Len(boxes) |-> boxes'[b]] BY <1>0, <1>3 DEF RemoveReplaced
<3> QED BY <1>0, <3>1
<2> QED BY <1>1, <2>1, <2>2
<1>4. ASSUME NEW c \in Creators,
             LookUpNetwork(c) \/ DeleteNetwork(c) \/ MakeNetwork(c) \/ LookAgain(c)
      PROVE  DesktopsRest'
<2>1. boxes' = boxes /\ RequestMoves(c) BY <1>4 DEF LookUpNetwork, DeleteNetwork, MakeNetwork, LookAgain
<2> QED BY <1>1, <2>1
<1>5. ASSUME NEW c \in Creators, CreateContainer(c) PROVE DesktopsRest'
<2> DEFINE h == creator[c].home
<2>1. CASE Present(h) # {}
<3>1. boxes' = boxes /\ RequestMoves(c) BY <1>5, <2>1 DEF CreateContainer
<3> QED BY <1>1, <3>1
<2>2. CASE Present(h) = {}
<3>1. /\ boxes' = Append(boxes, NewDesktop(h))
      /\ creator' = [creator EXCEPT ![c] = [pc |-> "start", home |-> h, boxes |-> Len(boxes) + 1]]
  BY <1>5, <2>2 DEF CreateContainer
<3>2. Len(boxes') = Len(boxes) + 1 BY <1>0, <3>1
<3>3. \A d \in Creators : creator'[d].boxes = creator[d].boxes \/ creator'[d].boxes \in 0..Len(boxes')
  BY <1>0, <3>1, <3>2
<3> QED BY <1>0, <3>2, <3>3, RequestsFind
<2> QED BY <2>1, <2>2
<1>6. ASSUME NEW c \in Creators, StartContainer(c) PROVE DesktopsRest'
<2>1. DOMAIN boxes' = DOMAIN boxes /\ Len(boxes') = Len(boxes) BY <1>0, <1>6 DEF StartContainer
<2> QED BY <1>1, <1>6, <2>1 DEF StartContainer
<1>7. ASSUME NEW b \in DOMAIN boxes, StopContainer(b) \/ RemoveContainer(b) PROVE DesktopsRest'
<2>1. Len(boxes') = Len(boxes) /\ creator' = creator BY <1>0, <1>7 DEF StopContainer, RemoveContainer
<2> QED BY <1>0, <2>1, RequestsFind
<1>8. CASE Reboot
<2>1. creator' = [c \in Creators |-> NoCreate] BY <1>8 DEF Reboot
<2>2. Len(boxes') = Len(boxes)
<3>1. boxes' = [b \in 1..Len(boxes) |-> boxes'[b]] BY <1>0, <1>8 DEF Reboot
<3> QED BY <1>0, <3>1
<2> QED BY <1>0, <2>1, <2>2, RequestsFind
<1>9. CASE UNCHANGED desktopVars BY <1>9 DEF desktopVars, DesktopsRest
<1> QED BY <1>2, <1>3, <1>4, <1>5, <1>6, <1>7, <1>8, <1>9 DEF DesktopsNext

LEMMA DesktopsAreTyped == DesktopTypes /\ DesktopsRest => DesktopsTypeOK
<1> SUFFICES ASSUME DesktopTypes, DesktopsRest PROVE DesktopsTypeOK OBVIOUS
<1>1. \A b \in DOMAIN boxes : boxes[b] \in BoxStates BY DEF DesktopTypes
<1>2. \A c \in Creators : creator[c].boxes \in 0..Len(boxes)
<2>1. \A c \in Creators : creator[c].boxes \in Nat BY DEF DesktopTypes, CreatorStates
<2>2. Len(boxes) \in Nat BY DEF DesktopTypes
<2> QED BY <2>1, <2>2 DEF DesktopsRest
<1>3. net \in {"none", "open", "isolated"} BY DEF DesktopTypes
<1> QED BY <1>1, <1>2, <1>3 DEF DesktopsTypeOK, BoxStates

LEMMA DesktopsTypesHold == DesktopsSpec => []DesktopsTypeOK
<1>1. DesktopsInvariant => DesktopTypes BY DEF DesktopsInvariant
<1> QED BY <1>1, DesktopsAreTyped, DesktopsInvariantHolds, DesktopsRestInit, DesktopsRestStep, PTL
        DEF DesktopsSpec

(* The chats, the inbox and the notes, and what the upload at work is about. *)
Copies == {Empty} \cup [by : UploadBots, size : Sizes]

UploadsRest ==
  /\ chats \subseteq UploadBots
  /\ inbox \in [Places -> Copies]
  /\ notes \in Seq({0} \cup Places) /\ Len(notes) = Len(artifacts)
  /\ ingest.pc \in {"row", "place", "note"} =>
       ingest.bot \in UploadBots /\ ingest.art \in DOMAIN artifacts

LEMMA UploadsRestInit == UploadsInit => UploadsRest
BY DEF UploadsInit, UploadsRest, Copies, NoIngest

(* A step of the handler about the artifact it has, or one that ends it. *)
LEMMA HandlerKeepsRest ==
  ASSUME UploadsInvariant, UploadsRest,
         chats' \subseteq UploadBots, inbox' \in [Places -> Copies],
         notes' \in Seq({0} \cup Places), Len(notes') = Len(notes),
         DOMAIN artifacts' = DOMAIN artifacts, artifacts' \in Seq(ArtifactRows),
         \/ ingest'.pc \notin {"row", "place", "note"}
         \/ /\ ingest.pc \in {"row", "place", "note"}
            /\ ingest'.bot = ingest.bot /\ ingest'.art = ingest.art
         \/ ingest' = ingest
  PROVE  UploadsRest'
<1>1. artifacts \in Seq(ArtifactRows) BY DEF UploadsInvariant
<1>2. Len(artifacts') = Len(artifacts) BY <1>1
<1> QED BY <1>2 DEF UploadsRest

(* One case per action. *)
LEMMA UploadsRestStep ==
  UploadsInvariant /\ UploadsInvariant' /\ UploadsRest /\ [UploadsNext]_uploadVars => UploadsRest'
<1> SUFFICES ASSUME UploadsInvariant, UploadsInvariant', UploadsRest, [UploadsNext]_uploadVars
             PROVE  UploadsRest'
  OBVIOUS
<1>0. /\ artifacts \in Seq(ArtifactRows) /\ artifacts' \in Seq(ArtifactRows)
      /\ ingest \in IngestStates
      /\ chats \subseteq UploadBots /\ inbox \in [Places -> Copies]
      /\ notes \in Seq({0} \cup Places) /\ Len(notes) = Len(artifacts)
      /\ NoIngest.pc = "idle" /\ Empty \in Copies /\ Len(notes) \in Nat
      /\ \A b \in UploadBots, size \in Sizes : [by |-> b, size |-> size] \in Copies
  BY DEF UploadsInvariant, UploadsRest, NoIngest, Copies
<1>1. ASSUME NEW b \in UploadBots, NEW size \in Sizes, NEW copy \in BOOLEAN,
             WriteArtifact(b, size, copy)
      PROVE  UploadsRest'
<2> DEFINE new == [bot |-> b, size |-> size, file |-> TRUE, row |-> FALSE]
<2>1. /\ artifacts' = Append(artifacts, new) /\ notes' = Append(notes, 0)
      /\ chats' = chats /\ inbox' = inbox
  BY <1>1 DEF WriteArtifact
<2> HIDE DEF new
<2>2. Len(artifacts') = Len(artifacts) + 1 /\ Len(artifacts) + 1 \in DOMAIN artifacts'
  BY <1>0, <2>1
<2>3. notes' \in Seq({0} \cup Places) /\ Len(notes') = Len(notes) + 1 BY <1>0, <2>1
<2>4. ingest'.bot = b /\ ingest'.art = Len(artifacts) + 1 BY <1>1 DEF WriteArtifact, NoIngest
<2> QED BY <1>0, <2>1, <2>2, <2>3, <2>4 DEF UploadsRest
<1>2. CASE SaveArtifact
<2>1. /\ ingest.pc = "row" /\ UNCHANGED <<chats, inbox, notes>>
      /\ ingest' = NoIngest \/ IngestGoes("place")
      /\ artifacts' = artifacts \/ artifacts' = [artifacts EXCEPT ![ingest.art].row = TRUE]
  BY <1>2 DEF SaveArtifact, At
<2>2. \/ ingest'.pc = "idle"
      \/ ingest'.bot = ingest.bot /\ ingest'.art = ingest.art
  BY <1>0, <2>1 DEF IngestGoes, IngestStates
<2>3. DOMAIN artifacts' = DOMAIN artifacts BY <2>1
<2> QED BY <1>0, <2>1, <2>2, <2>3, HandlerKeepsRest
<1>3. ASSUME NEW b \in UploadBots, NEW a \in DOMAIN artifacts, LoadExisting(b, a)
      PROVE  UploadsRest'
<2>1. /\ UNCHANGED <<chats, artifacts, inbox, notes>> /\ ingest'.bot = b /\ ingest'.art = a
  BY <1>3 DEF LoadExisting, NoIngest
<2> QED BY <1>0, <2>1 DEF UploadsRest
<1>4. CASE PlaceInInbox
<2>1. PICK p \in Places :
        /\ inbox' = [inbox EXCEPT ![p] = [by |-> ingest.bot, size |-> artifacts[ingest.art].size]]
        /\ ingest' = [ingest EXCEPT !.pc = "note", !.place = p]
        /\ ingest.pc = "place" /\ UNCHANGED <<chats, artifacts, notes>>
  BY <1>4 DEF PlaceInInbox, UniqueInboxPath, At
<2>2. ingest.bot \in UploadBots /\ artifacts[ingest.art] \in ArtifactRows
  BY <1>0, <2>1 DEF UploadsRest
<2>3. inbox' \in [Places -> Copies] BY <1>0, <2>1, <2>2 DEF ArtifactRows
<2>4. ingest'.bot = ingest.bot /\ ingest'.art = ingest.art BY <1>0, <2>1 DEF IngestStates
<2> QED BY <1>0, <2>1, <2>3, <2>4, HandlerKeepsRest
<1>5. CASE RememberInboxCopy
<2>1. /\ ingest.pc = "note" /\ ingest' = NoIngest /\ UNCHANGED <<chats, artifacts, inbox>>
      /\ notes' = [notes EXCEPT ![ingest.art] = ingest.place]
  BY <1>5 DEF RememberInboxCopy, At
<2>2. notes' \in Seq({0} \cup Places) /\ Len(notes') = Len(notes)
<3> DEFINE place == ingest.place
           to == {0} \cup Places
<3>1. place \in to BY <1>0 DEF IngestStates
<3>2. notes \in Seq(to) /\ notes' = [notes EXCEPT ![ingest.art] = place] BY <1>0, <2>1
<3> HIDE DEF place, to
<3>3. notes \in [1..Len(notes) -> to] /\ Len(notes) \in Nat BY <3>2
<3>4. notes' \in [1..Len(notes) -> to] BY <3>1, <3>2, <3>3
<3>5. notes' \in Seq(to) /\ Len(notes') = Len(notes) BY <3>3, <3>4
<3> QED BY <3>5 DEF to
<2> QED BY <1>0, <2>1, <2>2, HandlerKeepsRest
<1>6. ASSUME NEW b \in UploadBots, NEW size \in Sizes, ReadOwnerFile(b, size) PROVE UploadsRest'
<2>1. /\ inbox' = [inbox EXCEPT ![1] = [by |-> b, size |-> size]]
      /\ UNCHANGED <<chats, artifacts, notes, ingest>>
  BY <1>6 DEF ReadOwnerFile
<2>2. inbox' \in [Places -> Copies] BY <1>0, <2>1
<2> QED BY <1>0, <2>1, <2>2, HandlerKeepsRest
<1>7. ASSUME NEW b \in UploadBots, RemoveInboxCopies(b) PROVE UploadsRest'
<2>1. /\ UNCHANGED <<chats, artifacts, notes>> /\ ingest'.pc = "release"
      /\ inbox' = inbox \/ \E gone \in {Noted(b) \cup Listed(b)} :
                             inbox' = [p \in Places |-> IF p \in gone THEN Empty ELSE inbox[p]]
  BY <1>7 DEF RemoveInboxCopies, NoIngest
<2>2. inbox' \in [Places -> Copies] BY <1>0, <2>1
<2> QED BY <1>0, <2>1, <2>2, HandlerKeepsRest
<1>8. CASE ReleaseHome
<2>1. /\ UNCHANGED <<chats, artifacts, notes>> /\ IngestGoes("rows")
      /\ inbox' = inbox \/ inbox' = [p \in Places |-> Empty]
  BY <1>8 DEF ReleaseHome
<2>2. inbox' \in [Places -> Copies] BY <1>0, <2>1
<2>3. ingest'.pc = "rows" BY <1>0, <2>1 DEF IngestGoes, IngestStates
<2> QED BY <1>0, <2>1, <2>2, <2>3, HandlerKeepsRest
<1>9. CASE DeleteRows
<2>1. /\ UNCHANGED <<inbox, notes>> /\ IngestGoes("files") /\ chats' \subseteq chats
      /\ DOMAIN artifacts' = DOMAIN artifacts
  BY <1>9 DEF DeleteRows
<2>2. ingest'.pc = "files" BY <1>0, <2>1 DEF IngestGoes, IngestStates
<2> QED BY <1>0, <2>1, <2>2, HandlerKeepsRest
<1>10. CASE RemoveArtifacts
<2>1. /\ UNCHANGED <<inbox, chats>> /\ ingest' = NoIngest /\ DOMAIN artifacts' = DOMAIN artifacts
      /\ notes' = [a \in DOMAIN artifacts |-> IF artifacts[a].bot = ingest.bot THEN 0 ELSE notes[a]]
  BY <1>10 DEF RemoveArtifacts
<2>2. notes' \in Seq({0} \cup Places) /\ Len(notes') = Len(notes)
<3>1. DOMAIN artifacts = 1..Len(notes) BY <1>0
<3>2. notes' \in [1..Len(notes) -> {0} \cup Places] BY <1>0, <2>1, <3>1
<3> QED BY <1>0, <3>2
<2> QED BY <1>0, <2>1, <2>2, HandlerKeepsRest
<1>11. CASE UploadsExit \/ UNCHANGED uploadVars
<2>1. UNCHANGED <<chats, artifacts, inbox, notes>> /\ (ingest' = NoIngest \/ ingest' = ingest)
  BY <1>11 DEF UploadsExit, uploadVars
<2> QED BY <1>0, <2>1, HandlerKeepsRest
<1> QED BY <1>1, <1>2, <1>3, <1>4, <1>5, <1>6, <1>7, <1>8, <1>9, <1>10, <1>11 DEF UploadsNext

LEMMA UploadsAreTyped == UploadsInvariant /\ UploadsRest => UploadsTypeOK
<1> SUFFICES ASSUME UploadsInvariant, UploadsRest PROVE UploadsTypeOK OBVIOUS
<1>1. artifacts \in Seq(ArtifactRows) BY DEF UploadsInvariant
<1>2. /\ notes \in Seq({0} \cup Places) /\ Len(notes) = Len(artifacts)
      /\ chats \subseteq UploadBots /\ inbox \in [Places -> Copies]
  BY DEF UploadsRest
<1>3. DOMAIN notes = DOMAIN artifacts BY <1>1, <1>2
<1>4. \A a \in DOMAIN artifacts : artifacts[a] \in ArtifactRows BY <1>1
<1>5. \A a \in DOMAIN notes : notes[a] \in {0} \cup Places BY <1>2
<1> QED BY <1>2, <1>3, <1>4, <1>5 DEF UploadsTypeOK, ArtifactRows, Copies

LEMMA UploadsTypesHold == UploadsSpec => []UploadsTypeOK
BY UploadsAreTyped, UploadsInvariantHolds, UploadsRestInit, UploadsRestStep, PTL DEF UploadsSpec

(***************************************************************************)
(* One part moves.                                                         *)
(***************************************************************************)

(* The part that moves takes its own steps, the others none. *)
LEMMA OnePartMoves ==
  ASSUME [ServicesNext]_servicesVars
  PROVE  /\ part' = part
         /\ IF part = "events" THEN [EventsNext]_eventVars ELSE UNCHANGED eventVars
         /\ IF part = "migrations" THEN [MigrationsNext]_migVars ELSE UNCHANGED migVars
         /\ IF part = "access" THEN [AccessNext]_accessVars ELSE UNCHANGED accessVars
         /\ IF part = "credentials" THEN [CredentialsNext]_credVars ELSE UNCHANGED credVars
         /\ IF part = "memory" THEN [MemoryNext]_memVars ELSE UNCHANGED memVars
         /\ IF part = "recovery" THEN [RecoveryNext]_recoveryVars ELSE UNCHANGED recoveryVars
         /\ IF part = "bridge" THEN [BridgeNext]_bridgeVars ELSE UNCHANGED bridgeVars
         /\ IF part = "contexts" THEN [ContextsNext]_ctxVars ELSE UNCHANGED ctxVars
         /\ IF part = "connections" THEN [ConnectionsNext]_connectionVars ELSE UNCHANGED connectionVars
         /\ IF part = "desktops" THEN [DesktopsNext]_desktopVars ELSE UNCHANGED desktopVars
         /\ IF part = "search" THEN [SearchNext]_searchVars ELSE UNCHANGED searchVars
         /\ IF part = "roster" THEN [RosterNext]_rosterVars ELSE UNCHANGED rosterVars
         /\ IF part = "sql" THEN [SqlSplitNext]_sqlVars ELSE UNCHANGED sqlVars
         /\ IF part = "uploads" THEN [UploadsNext]_uploadVars ELSE UNCHANGED uploadVars
BY DEF ServicesNext, servicesVars
(* A part that waits is in one of its initial states. *)
LEMMA PartsStart ==
  ASSUME ServicesInit
  PROVE  /\ EventsInit /\ MigrationsInit /\ AccessInit /\ CredentialsInit /\ MemoryInit
         /\ RecoveryInit /\ BridgeInit /\ ContextsInit /\ ConnectionsInit /\ DesktopsInit
         /\ SearchInit /\ RosterInit /\ SqlSplitInit /\ UploadsInit
<1>1. /\ EventsInit /\ AccessInit /\ MemoryInit /\ BridgeInit /\ ContextsInit
      /\ ConnectionsInit /\ RosterInit /\ UploadsInit
  BY DEF ServicesInit
<1>2. MigrationsInit
<2>1. CASE part = "migrations" BY <2>1 DEF ServicesInit
<2>2. CASE part # "migrations"
<3>1. [f \in Files |-> "none"] = [f \in Files |-> IF f <= 0 THEN "" ELSE "none"] BY DEF Files
<3>2. 0 \in 0..MaxFiles BY MigrationsAssumption
<3>3. schema \in {[f \in Files |-> IF f <= k THEN "" ELSE "none"] : k \in 0..MaxFiles}
<4>1. schema = [f \in Files |-> "none"] BY <2>2 DEF ServicesInit, Files
<4> QED BY <3>1, <3>2, <4>1
<3>4. mig = [p \in Boots |-> NotBooted] /\ migLock = "free" /\ migExits = 0
  BY <2>2 DEF ServicesInit
<3> QED BY <3>3, <3>4 DEF MigrationsInit
<2> QED BY <2>1, <2>2
<1>3. CredentialsInit BY DEF ServicesInit, CredentialsInit
<1>4. RecoveryInit
<2>1. CASE part = "recovery" BY <2>1 DEF ServicesInit
<2>2. CASE part # "recovery"
<3> DEFINE t == [left |-> "running", request |-> NoRequest, question |-> "none"]
           place == [r \in Leftovers |-> t]
<3>1. t \in TurnPlaces BY DEF TurnPlaces
<3>2. place \in [Leftovers -> TurnPlaces] BY <3>1
<3>3. /\ left = [r \in Leftovers |-> place[r].left]
      /\ request = [r \in Leftovers |-> place[r].request]
      /\ question = [r \in Leftovers |-> place[r].question]
  BY <2>2 DEF ServicesInit
<3>4. /\ wait = [r \in Leftovers |-> NoWait] /\ card = [r \in Leftovers |-> "none"]
      /\ boot = Down /\ handler = NoLeftover /\ bootExits = 0
  BY <2>2 DEF ServicesInit
<3> QED BY <3>2, <3>3, <3>4 DEF RecoveryInit
<2> QED BY <2>1, <2>2
<1>5. DesktopsInit BY DEF ServicesInit, DesktopsInit
<1>6. SearchInit BY DEF ServicesInit, SearchInit, Exists
<1>7. SqlSplitInit
<2>1. CASE part = "sql" BY <2>1 DEF ServicesInit
<2>2. CASE part # "sql"
<3>1. <<>> \in SqlFiles
<4>1. <<>> \in SeqOf(SqlTokens, MaxTokens)
<5>1. <<>> \in [1..0 -> SqlTokens] /\ 0 \in 0..MaxTokens BY SqlSplitAssumption
<5> QED BY <5>1 DEF SeqOf
<4>2. Len(<<>>) = 0 /\ 1..(0 - 1) = {} OBVIOUS
<4> QED BY <4>1, <4>2 DEF SqlFiles
<3> QED BY <2>2, <3>1 DEF ServicesInit, SqlSplitInit
<2> QED BY <2>1, <2>2
<1> QED BY <1>1, <1>2, <1>3, <1>4, <1>5, <1>6, <1>7

(***************************************************************************)
(* The types of every part.  While it moves they are those its theorem     *)
(* keeps, because it takes the steps of its specification from one of its  *)
(* initial states; while it waits nothing changes them.                    *)
(***************************************************************************)

LEMMA EventsPart == ServicesSpec => []EventsTypeOK
<1> DEFINE here == part = "events"
<1>1. ServicesInit => EventsInit BY PartsStart
<1>2. [ServicesNext]_servicesVars => (here' <=> here) /\ (here => [EventsNext]_eventVars)
  BY OnePartMoves
<1>3. EventsTypeOK /\ ~here /\ [ServicesNext]_servicesVars => EventsTypeOK'
  BY OnePartMoves DEF eventVars, EventsTypeOK, Visible
<1>4. EventsInit => EventsTypeOK BY StreamInvInit DEF StreamInv
<1> HIDE DEF here
<1> QED BY <1>1, <1>2, <1>3, <1>4, FeedFactsHold, PTL
        DEF ServicesSpec, EventsSpec

LEMMA MigrationsPart == ServicesSpec => []MigrationsTypeOK
<1> DEFINE here == part = "migrations"
<1>1. ServicesInit => MigrationsInit BY PartsStart
<1>2. [ServicesNext]_servicesVars => (here' <=> here) /\ (here => [MigrationsNext]_migVars)
  BY OnePartMoves
<1>3. MigrationsTypeOK /\ ~here /\ [ServicesNext]_servicesVars => MigrationsTypeOK'
  BY OnePartMoves DEF migVars, MigrationsTypeOK
<1>4. MigrationsInit => MigrationsTypeOK BY MigrationsInitOK DEF MigrationsInvariant
<1>5. MigrationsInvariant => MigrationsTypeOK BY DEF MigrationsInvariant
<1> HIDE DEF here
<1> QED BY <1>1, <1>2, <1>3, <1>4, <1>5, MigrationsInvariantHolds, PTL
        DEF ServicesSpec, MigrationsSpec

LEMMA AccessPart == ServicesSpec => []AccessTypeOK
<1> DEFINE here == part = "access"
<1>1. ServicesInit => AccessInit BY PartsStart
<1>2. [ServicesNext]_servicesVars => (here' <=> here) /\ (here => [AccessNext]_accessVars)
  BY OnePartMoves
<1>3. AccessTypeOK /\ ~here /\ [ServicesNext]_servicesVars => AccessTypeOK'
  BY OnePartMoves DEF accessVars, AccessTypeOK
<1>4. AccessInit => AccessTypeOK BY AccessInitOK DEF AccessInvariant
<1>5. AccessInvariant => AccessTypeOK BY DEF AccessInvariant
<1> HIDE DEF here
<1> QED BY <1>1, <1>2, <1>3, <1>4, <1>5, AccessInvariantHolds, PTL
        DEF ServicesSpec, AccessSpec

LEMMA CredentialsPart == ServicesSpec => []CredentialsTypeOK
<1> DEFINE here == part = "credentials"
<1>1. ServicesInit => CredentialsInit BY PartsStart
<1>2. [ServicesNext]_servicesVars => (here' <=> here) /\ (here => [CredentialsNext]_credVars)
  BY OnePartMoves
<1>3. CredentialsTypeOK /\ ~here /\ [ServicesNext]_servicesVars => CredentialsTypeOK'
  BY OnePartMoves DEF credVars, CredentialsTypeOK
<1>4. CredentialsInit => CredentialsTypeOK BY CredentialsStart DEF CredInv
<1> HIDE DEF here
<1> QED BY <1>1, <1>2, <1>3, <1>4, CredentialFactsHold, PTL
        DEF ServicesSpec, CredentialsSpec

LEMMA MemoryPart == ServicesSpec => []MemoryTypeOK
<1> DEFINE here == part = "memory"
<1>1. ServicesInit => MemoryInit BY PartsStart
<1>2. [ServicesNext]_servicesVars => (here' <=> here) /\ (here => [MemoryNext]_memVars)
  BY OnePartMoves
<1>3. MemoryTypeOK /\ ~here /\ [ServicesNext]_servicesVars => MemoryTypeOK'
  BY OnePartMoves DEF memVars, MemoryTypeOK
<1>4. MemoryInit => MemoryTypeOK BY MemoryInitHolds DEF MemInv
<1> HIDE DEF here
<1> QED BY <1>1, <1>2, <1>3, <1>4, MemoryFactsHold, PTL
        DEF ServicesSpec, MemorySpec

LEMMA RecoveryPart == ServicesSpec => []RecoveryTypeOK
<1> DEFINE here == part = "recovery"
<1>1. ServicesInit => RecoveryInit BY PartsStart
<1>2. [ServicesNext]_servicesVars => (here' <=> here) /\ (here => [RecoveryNext]_recoveryVars)
  BY OnePartMoves
<1>3. RecoveryTypeOK /\ ~here /\ [ServicesNext]_servicesVars => RecoveryTypeOK'
  BY OnePartMoves DEF recoveryVars, RecoveryTypeOK
<1>4. RecoveryInit => RecoveryTypeOK BY RecoveryInitOK, RecoveryRestInit, RecoveryIsTyped
<1> HIDE DEF here
<1> QED BY <1>1, <1>2, <1>3, <1>4, RecoveryTypesHold, PTL
        DEF ServicesSpec, RecoverySpec

LEMMA BridgePart == ServicesSpec => []BridgeTypeOK
<1> DEFINE here == part = "bridge"
<1>1. ServicesInit => BridgeInit BY PartsStart
<1>2. [ServicesNext]_servicesVars => (here' <=> here) /\ (here => [BridgeNext]_bridgeVars)
  BY OnePartMoves
<1>3. BridgeTypeOK /\ ~here /\ [ServicesNext]_servicesVars => BridgeTypeOK'
  BY OnePartMoves DEF bridgeVars, BridgeTypeOK
<1>4. BridgeInit => BridgeTypeOK BY BridgeStart DEF BridgeInv
<1> HIDE DEF here
<1> QED BY <1>1, <1>2, <1>3, <1>4, BridgeFactsHold, PTL
        DEF ServicesSpec, BridgeSpec

LEMMA ContextsPart == ServicesSpec => []ContextsTypeOK
<1> DEFINE here == part = "contexts"
<1>1. ServicesInit => ContextsInit BY PartsStart
<1>2. [ServicesNext]_servicesVars => (here' <=> here) /\ (here => [ContextsNext]_ctxVars)
  BY OnePartMoves
<1>3. ContextsTypeOK /\ ~here /\ [ServicesNext]_servicesVars => ContextsTypeOK'
  BY OnePartMoves DEF ctxVars, ContextsTypeOK
<1>4. ContextsInit => ContextsTypeOK BY ContextsStart DEF ContextInv
<1> HIDE DEF here
<1> QED BY <1>1, <1>2, <1>3, <1>4, ContextFactsHold, PTL
        DEF ServicesSpec, ContextsSpec

LEMMA ConnectionsPart == ServicesSpec => []ConnectionsTypeOK
<1> DEFINE here == part = "connections"
<1>1. ServicesInit => ConnectionsInit BY PartsStart
<1>2. [ServicesNext]_servicesVars => (here' <=> here) /\ (here => [ConnectionsNext]_connectionVars)
  BY OnePartMoves
<1>3. ConnectionsTypeOK /\ ~here /\ [ServicesNext]_servicesVars => ConnectionsTypeOK'
  BY OnePartMoves DEF connectionVars, ConnectionsTypeOK
<1>4. ConnectionsInit => ConnectionsTypeOK BY ConnectionsStart DEF LinkInv
<1> HIDE DEF here
<1> QED BY <1>1, <1>2, <1>3, <1>4, LinkFactsHold, PTL
        DEF ServicesSpec, ConnectionsSpec

LEMMA DesktopsPart == ServicesSpec => []DesktopsTypeOK
<1> DEFINE here == part = "desktops"
<1>1. ServicesInit => DesktopsInit BY PartsStart
<1>2. [ServicesNext]_servicesVars => (here' <=> here) /\ (here => [DesktopsNext]_desktopVars)
  BY OnePartMoves
<1>3. DesktopsTypeOK /\ ~here /\ [ServicesNext]_servicesVars => DesktopsTypeOK'
  BY OnePartMoves DEF desktopVars, DesktopsTypeOK
<1>4. DesktopsInit => DesktopsTypeOK BY DesktopsInitOK, DesktopsRestInit, DesktopsAreTyped DEF DesktopsInvariant
<1> HIDE DEF here
<1> QED BY <1>1, <1>2, <1>3, <1>4, DesktopsTypesHold, PTL
        DEF ServicesSpec, DesktopsSpec

LEMMA SearchPart == ServicesSpec => []SearchTypeOK
<1> DEFINE here == part = "search"
<1>1. ServicesInit => SearchInit BY PartsStart
<1>2. [ServicesNext]_servicesVars => (here' <=> here) /\ (here => [SearchNext]_searchVars)
  BY OnePartMoves
<1>3. SearchTypeOK /\ ~here /\ [ServicesNext]_servicesVars => SearchTypeOK'
  BY OnePartMoves DEF searchVars, SearchTypeOK
<1>4. SearchInit => SearchTypeOK BY SearchInitHolds DEF SearchInv
<1> HIDE DEF here
<1> QED BY <1>1, <1>2, <1>3, <1>4, RebuildFactsHold, PTL
        DEF ServicesSpec, SearchSpec

LEMMA RosterPart == ServicesSpec => []RosterTypeOK
<1> DEFINE here == part = "roster"
<1>1. ServicesInit => RosterInit BY PartsStart
<1>2. [ServicesNext]_servicesVars => (here' <=> here) /\ (here => [RosterNext]_rosterVars)
  BY OnePartMoves
<1>3. RosterTypeOK /\ ~here /\ [ServicesNext]_servicesVars => RosterTypeOK'
  BY OnePartMoves DEF rosterVars, RosterTypeOK
<1>4. RosterInit => RosterTypeOK BY RosterInitOK, RosterRestInit, RosterIsTyped DEF RosterInvariant
<1> HIDE DEF here
<1> QED BY <1>1, <1>2, <1>3, <1>4, RosterTypesHold, PTL
        DEF ServicesSpec, RosterSpec

LEMMA SqlSplitPart == ServicesSpec => []SqlSplitTypeOK
<1> DEFINE here == part = "sql"
<1>1. ServicesInit => SqlSplitInit BY PartsStart
<1>2. [ServicesNext]_servicesVars => (here' <=> here) /\ (here => [SqlSplitNext]_sqlVars)
  BY OnePartMoves
<1>3. SqlSplitTypeOK /\ ~here /\ [ServicesNext]_servicesVars => SqlSplitTypeOK'
  BY OnePartMoves DEF sqlVars, SqlSplitTypeOK, Text
<1>4. SqlSplitInit => SqlSplitTypeOK BY SqlInit, SqlConcludes
<1> HIDE DEF here
<1> QED BY <1>1, <1>2, <1>3, <1>4, SplitsAsMeantHolds, PTL
        DEF ServicesSpec, SqlSplitSpec

LEMMA UploadsPart == ServicesSpec => []UploadsTypeOK
<1> DEFINE here == part = "uploads"
<1>1. ServicesInit => UploadsInit BY PartsStart
<1>2. [ServicesNext]_servicesVars => (here' <=> here) /\ (here => [UploadsNext]_uploadVars)
  BY OnePartMoves
<1>3. UploadsTypeOK /\ ~here /\ [ServicesNext]_servicesVars => UploadsTypeOK'
  BY OnePartMoves DEF uploadVars, UploadsTypeOK
<1>4. UploadsInit => UploadsTypeOK BY UploadsInitOK, UploadsRestInit, UploadsAreTyped
<1> HIDE DEF here
<1> QED BY <1>1, <1>2, <1>3, <1>4, UploadsTypesHold, PTL
        DEF ServicesSpec, UploadsSpec

(* ServicesTypeOK: whichever part moves, the state of every part is of its *)
(* type.                                                                   *)
THEOREM ServicesTypesHold == ServicesSpec => []ServicesTypeOK
BY EventsPart, MigrationsPart, AccessPart, CredentialsPart, MemoryPart, RecoveryPart, BridgePart,
   ContextsPart, ConnectionsPart, DesktopsPart, SearchPart, RosterPart, SqlSplitPart, UploadsPart,
   PTL DEF ServicesTypeOK
=============================================================================
