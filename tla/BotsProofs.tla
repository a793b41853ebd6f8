--------------------------- MODULE BotsProofs ---------------------------
(***************************************************************************)
(* What a bot has, for any bots, desktops, files and bounds: its home and  *)
(* secrets, its desktop, the artifacts of its chat.  Who may speak to it:  *)
(* the devices, and the log of what they changed.                          *)
(***************************************************************************)
EXTENDS Roster, Desktops, Uploads, Access, SequenceTheorems, TLAPS

(***************************************************************************)
(* Bots, modes and homes.                                                  *)
(*                                                                         *)
(* For any bots and bounds: a home is wiped under nobody who was on its    *)
(* computer when remove_bot counted (OthersKeepHome), and a deleted bot    *)
(* leaves no secret (DeletedLeavesNoSecret).  What the handler has found   *)
(* in one transaction stays true until it acts on it, because only tool    *)
(* threads come in between and all they do is attach their own bot.        *)
(***************************************************************************)

RosterTypes ==
  /\ roster \in [RosterBots -> [state : {"none", "live", "archived", "deleted"},
                                mode : {"team", "dedicated"}, computer : HomeKeys \cup {"none"}]]
  /\ files \in [HomeKeys -> BOOLEAN] /\ secret \in [RosterBots -> BOOLEAN]
  /\ host.bot \in RosterBots \cup {"none"}
  /\ host.pc \in {"release", "destroy", "rows"} => host.bot \in RosterBots

(* What remove_bot knows of the broker and of the other users. *)
RemoveKnows ==
  /\ host.pc \in {"release", "destroy", "rows"} => ~secret[host.bot]
  /\ host.pc = "destroy" =>
       Users(HomeOf(host.bot, roster[host.bot].mode)) \subseteq since \cup {host.bot}

RosterInvariant == RosterTypes /\ RemoveKnows /\ DeletedLeavesNoSecret

BotRecord == [state : {"none", "live", "archived", "deleted"},
              mode : {"team", "dedicated"}, computer : HomeKeys \cup {"none"}]

(* The homes of the two modes are homes. *)
LEMMA HomeIsKey ==
  ASSUME NEW b \in RosterBots, NEW mode
  PROVE  HomeOf(b, mode) \in HomeKeys
BY DEF HomeOf, HomeKeys

(* ensure_computer moves the bot it is called for, and no other; states    *)
(* and modes stay.                                                         *)
LEMMA EnsureMovesOne ==
  ASSUME RosterTypes, NEW b \in RosterBots, NEW mode, EnsureComputer(b, mode)
  PROVE  /\ roster' \in [RosterBots -> BotRecord]
         /\ \A u \in RosterBots : roster'[u].state = roster[u].state /\ roster'[u].mode = roster[u].mode
         /\ \A u \in RosterBots \ {b} : roster'[u].computer = roster[u].computer
<1>1. roster \in [RosterBots -> BotRecord]
  BY DEF RosterTypes, BotRecord
<1>2. HomeOf(b, mode) \in HomeKeys
  BY HomeIsKey
<1>3. CASE HasRow(b)
  <2>1. roster' = [roster EXCEPT ![b].computer = HomeOf(b, mode)]
    BY <1>3 DEF EnsureComputer
  <2> QED
    BY <1>1, <1>2, <2>1 DEF BotRecord
<1>4. CASE ~HasRow(b)
  BY <1>1, <1>4 DEF EnsureComputer
<1> QED
  BY <1>3, <1>4

LEMMA RosterInitOK == RosterInit => RosterInvariant
BY DEF RosterInit, RosterInvariant, RosterTypes, RemoveKnows, DeletedLeavesNoSecret, Idle, HomeKeys

(* Handlers that start when the host is idle, or end there, leave remove_bot *)
(* nothing to know.                                                         *)
LEMMA RosterStepOK == RosterInvariant /\ [RosterNext]_rosterVars => RosterInvariant'
<1> SUFFICES ASSUME RosterInvariant, [RosterNext]_rosterVars PROVE RosterInvariant'
  OBVIOUS
<1>0. RosterTypes /\ RemoveKnows /\ DeletedLeavesNoSecret
  BY DEF RosterInvariant
<1>t. roster \in [RosterBots -> BotRecord]
  BY <1>0 DEF RosterTypes, BotRecord
<1> USE DEF HostAt, HostGoes, Idle
<1>1. ASSUME NEW b \in RosterBots, NEW mode \in {"team", "dedicated"}, CreateBot(b, mode)
      PROVE  RosterInvariant'
  <2>1. roster' \in [RosterBots -> BotRecord]
    BY <1>t, <1>1 DEF CreateBot, BotRecord
  <2>2. \A u \in RosterBots : roster'[u].state = "deleted" => roster[u].state = "deleted"
    BY <1>t, <1>1 DEF CreateBot
  <2> QED
    BY <1>0, <1>1, <2>1, <2>2
       DEF CreateBot, RosterInvariant, RosterTypes, BotRecord, RemoveKnows, DeletedLeavesNoSecret
<1>2. ASSUME NEW b \in RosterBots, NEW mode \in {"team", "dedicated"}, UpdateBot(b, mode)
      PROVE  RosterInvariant'
  <2>1. roster' \in [RosterBots -> BotRecord]
    BY <1>t, <1>2 DEF UpdateBot, BotRecord
  <2>2. \A u \in RosterBots : roster'[u].state = roster[u].state
    BY <1>t, <1>2 DEF UpdateBot, BotRecord
  <2> QED
    BY <1>0, <1>2, <2>1, <2>2
       DEF UpdateBot, RosterInvariant, RosterTypes, BotRecord, RemoveKnows, DeletedLeavesNoSecret
<1>3. ASSUME NEW b \in RosterBots, AttachComputer(b) PROVE RosterInvariant'
  <2>1. /\ roster' \in [RosterBots -> BotRecord]
        /\ \A u \in RosterBots : roster'[u].state = roster[u].state
    BY <1>0, <1>3, EnsureMovesOne DEF AttachComputer
  <2> QED
    BY <1>0, <1>3, <2>1
       DEF AttachComputer, RosterInvariant, RosterTypes, BotRecord, RemoveKnows, DeletedLeavesNoSecret
<1>4. ASSUME NEW b \in RosterBots, ArchiveBot(b) PROVE RosterInvariant'
  <2>1. roster' \in [RosterBots -> BotRecord]
    BY <1>t, <1>4 DEF ArchiveBot, BotRecord
  <2>2. \A u \in RosterBots : roster'[u].state = "deleted" => roster[u].state = "deleted"
    BY <1>t, <1>4 DEF ArchiveBot, BotRecord
  <2> QED
    BY <1>0, <1>4, <2>1, <2>2
       DEF ArchiveBot, RosterInvariant, RosterTypes, BotRecord, RemoveKnows, DeletedLeavesNoSecret
<1>5. ASSUME NEW b \in RosterBots, SaveSecret(b) PROVE RosterInvariant'
  BY <1>0, <1>5 DEF SaveSecret, HasRow, RosterInvariant, RosterTypes, RemoveKnows, DeletedLeavesNoSecret
<1>6. ASSUME NEW b \in RosterBots, RemoveForgets(b) PROVE RosterInvariant'
  BY <1>0, <1>6
     DEF RemoveForgets, AfterForget, HasRow, RosterInvariant, RosterTypes, RemoveKnows,
         DeletedLeavesNoSecret
<1>7. ASSUME NEW b \in RosterBots, RemoveReleases(b) PROVE RosterInvariant'
  <2>0. PICK h \in HomeKeys : h = HomeOf(b, roster[b].mode)
    BY HomeIsKey
  <2>1. /\ roster' \in [RosterBots -> BotRecord]
        /\ \A u \in RosterBots : roster'[u].state = roster[u].state /\ roster'[u].mode = roster[u].mode
        /\ \A u \in RosterBots \ {b} : roster'[u].computer = roster[u].computer
    BY <1>0, <1>7, EnsureMovesOne DEF RemoveReleases
  <2>2. host'.pc = "destroy" => Users(h) \subseteq {b}
    BY <1>7, <2>0 DEF RemoveReleases, OtherUsers
  <2>3. host'.bot = b /\ HomeOf(b, roster'[b].mode) = h
    BY <1>7, <2>0, <2>1 DEF RemoveReleases
  <2>4. Users(h)' \subseteq Users(h) \cup {b}
    BY <2>1 DEF Users, HasRow
  <2>5. ~secret'[b] /\ secret' = secret
    BY <1>0, <1>7 DEF RemoveReleases, RemoveKnows
  <2>6. RemoveKnows'
    BY <2>2, <2>3, <2>4, <2>5 DEF RemoveKnows
  <2>7. files' = files
    BY <1>7 DEF RemoveReleases
  <2> QED
    BY <1>0, <2>1, <2>3, <2>5, <2>6, <2>7
       DEF RosterInvariant, RosterTypes, BotRecord, DeletedLeavesNoSecret
<1>8. ASSUME NEW b \in RosterBots, RemoveDestroys(b) PROVE RosterInvariant'
  BY <1>0, <1>8
     DEF RemoveDestroys, DestroyBox, RosterInvariant, RosterTypes, RemoveKnows,
         DeletedLeavesNoSecret
<1>9. ASSUME NEW b \in RosterBots, RemoveRows(b) PROVE RosterInvariant'
  <2>1. roster' \in [RosterBots -> BotRecord]
    BY <1>t, <1>9 DEF RemoveRows, BotRecord
  <2>2. \A u \in RosterBots \ {b} : roster'[u].state = roster[u].state
    BY <1>t, <1>9 DEF RemoveRows
  <2>3. ~secret[b]
    BY <1>0, <1>9 DEF RemoveRows, RemoveKnows
  <2> QED
    BY <1>0, <1>9, <2>1, <2>2, <2>3
       DEF RemoveRows, RosterInvariant, RosterTypes, BotRecord, RemoveKnows, DeletedLeavesNoSecret
<1>10. ASSUME NEW b \in RosterBots, ToolAttaches(b) PROVE RosterInvariant'
  <2>1. /\ roster' \in [RosterBots -> BotRecord]
        /\ \A u \in RosterBots : roster'[u].state = roster[u].state /\ roster'[u].mode = roster[u].mode
        /\ \A u \in RosterBots \ {b} : roster'[u].computer = roster[u].computer
    BY <1>0, <1>10, EnsureMovesOne DEF ToolAttaches
  <2>2. host' = host /\ secret' = secret /\ files' = files /\ since' = since \cup {b}
    BY <1>10 DEF ToolAttaches
  <2>3. \A h \in HomeKeys : Users(h)' \subseteq Users(h) \cup {b}
    BY <2>1 DEF Users, HasRow
  <2>4. host.pc = "destroy" =>
          /\ roster'[host.bot].mode = roster[host.bot].mode
          /\ HomeOf(host.bot, roster[host.bot].mode) \in HomeKeys
    BY <1>0, <2>1, HomeIsKey DEF RosterTypes
  <2>5. RemoveKnows'
    BY <1>0, <2>2, <2>3, <2>4 DEF RemoveKnows
  <2> QED
    BY <1>0, <2>1, <2>2, <2>5 DEF RosterInvariant, RosterTypes, BotRecord, DeletedLeavesNoSecret
<1>11. ASSUME NEW b \in RosterBots,
              ToolBegins(b) \/ ToolProvisions(b) \/ ToolSaves(b) \/ ToolProvisionFails(b) \/ ToolEnds(b)
       PROVE  RosterInvariant'
  <2>1. UNCHANGED <<roster, host, secret, since>> /\ files' \in [HomeKeys -> BOOLEAN]
    BY <1>0, <1>11
       DEF ToolBegins, ToolProvisions, ToolSaves, ToolProvisionFails, ToolEnds, RosterTypes
  <2> QED
    BY <1>0, <2>1
       DEF RosterInvariant, RosterTypes, RemoveKnows, DeletedLeavesNoSecret, Users, HasRow
<1>12. ASSUME NEW h \in HomeKeys, ReapOrphan(h) PROVE RosterInvariant'
  BY <1>0, <1>12
     DEF ReapOrphan, DestroyBox, RosterInvariant, RosterTypes, RemoveKnows, DeletedLeavesNoSecret, Users, HasRow
<1>13. CASE RosterHostExits \/ HostBooted
  BY <1>0, <1>13
     DEF RosterHostExits, HostBooted, RosterInvariant, RosterTypes, RemoveKnows, DeletedLeavesNoSecret
<1>14. CASE UNCHANGED rosterVars
  BY <1>0, <1>14
     DEF rosterVars, RosterInvariant, RosterTypes, RemoveKnows, DeletedLeavesNoSecret, Users, HasRow
<1> QED
  BY <1>1, <1>2, <1>3, <1>4, <1>5, <1>6, <1>7, <1>8, <1>9, <1>10, <1>11, <1>12, <1>13, <1>14
     DEF RosterNext

(* Only remove_bot and the reaping of orphans wipe a home. *)
LEMMA WipeStep ==
  ASSUME RosterInvariant, [RosterNext]_rosterVars,
         NEW h \in HomeKeys, files[h], ~files'[h]
  PROVE  Users(h) \subseteq since \cup {host.bot}
<1>1. ASSUME NEW b \in RosterBots, RemoveDestroys(b) PROVE Users(h) \subseteq since \cup {host.bot}
  <2>1. h = HomeOf(b, roster[b].mode)
    BY <1>1 DEF RemoveDestroys, DestroyBox, RosterInvariant, RosterTypes
  <2> QED
    BY <1>1, <2>1 DEF RemoveDestroys, HostAt, RosterInvariant, RemoveKnows
<1>2. ASSUME NEW g \in HomeKeys, ReapOrphan(g) PROVE Users(h) \subseteq since \cup {host.bot}
  <2>1. h = g
    BY <1>2 DEF ReapOrphan, DestroyBox, RosterInvariant, RosterTypes
  <2> QED
    BY <1>2, <2>1 DEF ReapOrphan
<1>3. ASSUME NEW b \in RosterBots, ToolProvisions(b) PROVE FALSE
  BY <1>3 DEF ToolProvisions, RosterInvariant, RosterTypes
<1> QED
  BY <1>1, <1>2, <1>3
     DEF RosterNext, rosterVars, CreateBot, UpdateBot, AttachComputer, ArchiveBot, SaveSecret,
         RemoveForgets, RemoveReleases, RemoveRows, ToolBegins, ToolAttaches, ToolSaves,
         ToolProvisionFails, ToolEnds, RosterHostExits, HostBooted

(* The invariant holds in every reachable state. *)
THEOREM RosterInvariantHolds == RosterSpec => []RosterInvariant
BY RosterInitOK, RosterStepOK, PTL DEF RosterSpec

(* A bot whose deletion went through leaves no secret with the broker. *)
THEOREM DeletedLeavesNoSecretHolds == RosterSpec => []DeletedLeavesNoSecret
<1>1. RosterInvariant => DeletedLeavesNoSecret
  BY DEF RosterInvariant
<1> QED
  BY <1>1, RosterInvariantHolds, PTL

(* No home is wiped under a bot that was on it when its users were counted. *)
THEOREM OthersKeepHomeHolds == RosterSpec => OthersKeepHome
<1>1. RosterInvariant /\ [RosterNext]_rosterVars =>
        [\A h \in HomeKeys : files[h] /\ ~files'[h] => Users(h) \subseteq since \cup {host.bot}]_rosterVars
  BY WipeStep
<1> QED
  BY <1>1, RosterInvariantHolds, PTL DEF RosterSpec, OthersKeepHome

(***************************************************************************)
(* The desktops.                                                           *)
(*                                                                         *)
(* For any homes, requests and bounds: a desktop of this release runs only *)
(* on a network that isolates (IsolatedDesktops).  A request that lost a   *)
(* race may delete the good network, but no step of this release makes one *)
(* that does not isolate, and none of its desktops exists before some      *)
(* request has seen a network that isolates.                               *)
(***************************************************************************)

BoxStates ==
  [home : Homes, current : BOOLEAN, state : {"created", "running", "exited", "gone"},
   net : {"none", "open", "isolated"}]
CreatorStates ==
  [pc : {"idle", "start", "remove", "network", "create", "make", "unmake", "again"},
   home : Homes \cup {"none"}, boxes : Nat]

DesktopTypes ==
  /\ boxes \in Seq(BoxStates)
  /\ net \in {"none", "open", "isolated"}
  /\ creator \in [Creators -> CreatorStates]
  /\ \A c \in Creators : creator[c].pc # "idle" => creator[c].home \in Homes

(* Once a request may create a desktop, or one of this release is there,   *)
(* there is no network that does not isolate.                              *)
OpenIsGone ==
  /\ \A c \in Creators : creator[c].pc = "create" => net # "open"
  /\ \A b \in DOMAIN boxes : boxes[b].current => net # "open"

DesktopsInvariant == DesktopTypes /\ OpenIsGone /\ IsolatedDesktops

(* What a step changes of a container's record. *)
LEMMA StateChanges ==
  ASSUME NEW r \in BoxStates, NEW s \in {"running", "exited", "gone"}
  PROVE  /\ [r EXCEPT !.state = s] \in BoxStates
         /\ [r EXCEPT !.state = s].current = r.current
         /\ [r EXCEPT !.state = s].net = r.net
         /\ [r EXCEPT !.state = s].state = s
BY DEF BoxStates

(* The same for a container that is started. *)
LEMMA Starts ==
  ASSUME NEW r \in BoxStates, NEW n \in {"none", "open", "isolated"}
  PROVE  /\ StartedOn(n, r) \in BoxStates
         /\ StartedOn(n, r).current = r.current /\ StartedOn(n, r).net = n
BY DEF BoxStates, StartedOn

(* A step that only stops or removes desktops. *)
LEMMA BoxesOnlyStop ==
  ASSUME DesktopsInvariant, DOMAIN boxes' = DOMAIN boxes,
         \A b \in DOMAIN boxes :
           \/ boxes'[b] = boxes[b]
           \/ \E s \in {"exited", "gone"} : boxes'[b] = [boxes[b] EXCEPT !.state = s],
         boxes' \in [DOMAIN boxes -> BoxStates], net' = net
  PROVE  /\ boxes' \in Seq(BoxStates)
         /\ \A b \in DOMAIN boxes' : boxes'[b].current => net' # "open"
         /\ IsolatedDesktops'
<1>1. boxes \in Seq(BoxStates) /\ DOMAIN boxes = 1..Len(boxes) /\ Len(boxes) \in Nat
  BY DEF DesktopsInvariant, DesktopTypes
<1>2. boxes' \in Seq(BoxStates)
  BY <1>1
<1>3. \A b \in DOMAIN boxes :
        /\ boxes'[b].current = boxes[b].current /\ boxes'[b].net = boxes[b].net
        /\ boxes'[b].state = "running" => boxes[b].state = "running"
  <2> SUFFICES ASSUME NEW b \in DOMAIN boxes
               PROVE  /\ boxes'[b].current = boxes[b].current /\ boxes'[b].net = boxes[b].net
                      /\ boxes'[b].state = "running" => boxes[b].state = "running"
    OBVIOUS
  <2>1. boxes[b] \in BoxStates
    BY <1>1
  <2>2. ASSUME NEW s \in {"exited", "gone"}, boxes'[b] = [boxes[b] EXCEPT !.state = s]
        PROVE  /\ boxes'[b].current = boxes[b].current /\ boxes'[b].net = boxes[b].net
               /\ boxes'[b].state # "running"
    BY <2>1, <2>2 DEF BoxStates
  <2> QED
    BY <2>2
<1> QED
  BY <1>2, <1>3 DEF DesktopsInvariant, OpenIsGone, IsolatedDesktops

(* An older release left at most a desktop of its own. *)
LEMMA DesktopsInitOK == DesktopsInit => DesktopsInvariant
<1> SUFFICES ASSUME DesktopsInit PROVE DesktopsInvariant
  OBVIOUS
<1>1. NoCreate \in CreatorStates /\ NoCreate.pc = "idle"
  BY DEF NoCreate, CreatorStates
<1>2. creator \in [Creators -> CreatorStates] /\ \A c \in Creators : creator[c].pc = "idle"
  BY <1>1 DEF DesktopsInit
<1>3. boxes \in Seq(BoxStates) /\ \A b \in DOMAIN boxes : ~boxes[b].current
  <2>1. CASE boxes = <<>>
    BY <2>1
  <2>2. CASE boxes # <<>>
    <3>1. PICK h \in Homes, s \in {"exited", "running"} :
            boxes = <<[home |-> h, current |-> FALSE, state |-> s, net |-> net]>>
      BY <2>2 DEF DesktopsInit
    <3>2. [home |-> h, current |-> FALSE, state |-> s, net |-> net] \in BoxStates
      BY DEF BoxStates, DesktopsInit
    <3> QED
      BY <3>1, <3>2
  <2> QED
    BY <2>1, <2>2
<1> QED
  BY <1>2, <1>3
     DEF DesktopsInit, DesktopsInvariant, DesktopTypes, OpenIsGone, IsolatedDesktops

(* One case per action: the request's own step, then what it leaves alone. *)
LEMMA DesktopsStepOK == DesktopsInvariant /\ [DesktopsNext]_desktopVars => DesktopsInvariant'
<1> SUFFICES ASSUME DesktopsInvariant, [DesktopsNext]_desktopVars PROVE DesktopsInvariant'
  OBVIOUS
<1>0. /\ DesktopTypes /\ OpenIsGone /\ IsolatedDesktops
      /\ boxes \in Seq(BoxStates) /\ creator \in [Creators -> CreatorStates]
      /\ DOMAIN boxes = 1..Len(boxes) /\ Len(boxes) \in Nat
      /\ NoCreate \in CreatorStates /\ NoCreate.pc = "idle"
  BY DEF DesktopsInvariant, DesktopTypes, NoCreate, CreatorStates
<1> USE DEF CreatorAt, CreatorGoes, CreatorFails
<1>1. ASSUME NEW c \in Creators, NEW h \in Homes, FindByName(c, h) PROVE DesktopsInvariant'
  <2>1. PICK r \in CreatorStates : /\ r.home \in Homes /\ r.pc \in {"network", "start", "remove"}
                              /\ creator' = [creator EXCEPT ![c] = r]
    <3>1. CASE Present(h) = {} /\ creator' = [creator EXCEPT ![c] = [pc |-> "network", home |-> h, boxes |-> 0]]
      <4>1. [pc |-> "network", home |-> h, boxes |-> 0] \in CreatorStates
        BY DEF CreatorStates
      <4> QED
        BY <3>1, <4>1
    <3>2. ASSUME NEW b \in Present(h), NEW pc \in {"start", "remove"},
                 creator' = [creator EXCEPT ![c] = [pc |-> pc, home |-> h, boxes |-> b]]
          PROVE  \E r \in CreatorStates : /\ r.home \in Homes /\ r.pc \in {"network", "start", "remove"}
                                     /\ creator' = [creator EXCEPT ![c] = r]
      <4>1. [pc |-> pc, home |-> h, boxes |-> b] \in CreatorStates
        BY <1>0 DEF CreatorStates, Present
      <4> QED
        BY <3>2, <4>1
    <3> QED
      BY <1>1, <3>1, <3>2 DEF FindByName
  <2>2. UNCHANGED <<boxes, net>>
    BY <1>1 DEF FindByName
  <2> QED
    BY <1>0, <2>1, <2>2 DEF DesktopsInvariant, DesktopTypes, OpenIsGone, IsolatedDesktops
<1>2. ASSUME NEW c \in Creators, RemoveReplaced(c) PROVE DesktopsInvariant'
  <2>1. /\ DOMAIN boxes' = DOMAIN boxes /\ net' = net
        /\ \A b \in DOMAIN boxes :
             boxes'[b] = IF b \in Replaced(c) THEN [boxes[b] EXCEPT !.state = "gone"] ELSE boxes[b]
    BY <1>2 DEF RemoveReplaced
  <2>2. boxes' \in [DOMAIN boxes -> BoxStates]
    <3>1. \A b \in DOMAIN boxes : boxes[b] \in BoxStates
      BY <1>0
    <3>2. \A b \in DOMAIN boxes : boxes[b] \in BoxStates /\ [boxes[b] EXCEPT !.state = "gone"] \in BoxStates
      BY <3>1, StateChanges
    <3> QED
      BY <1>2, <3>2 DEF RemoveReplaced
  <2>3. /\ boxes' \in Seq(BoxStates) /\ IsolatedDesktops'
        /\ \A b \in DOMAIN boxes' : boxes'[b].current => net' # "open"
    BY <2>1, <2>2, BoxesOnlyStop
  <2>4. creator' \in [Creators -> CreatorStates] /\ \A d \in Creators :
          creator'[d].home = creator[d].home /\ (creator'[d].pc \in {"idle", "create"} => creator'[d] = creator[d])
    BY <1>0, <1>2 DEF RemoveReplaced, CreatorStates
  <2>5. creator[c].home \in Homes
    BY <1>0, <1>2 DEF RemoveReplaced, DesktopTypes
  <2> QED
    BY <1>0, <1>2, <2>1, <2>3, <2>4, <2>5 DEF DesktopsInvariant, DesktopTypes, OpenIsGone, RemoveReplaced
<1>3. ASSUME NEW c \in Creators,
             LookUpNetwork(c) \/ DeleteNetwork(c) \/ MakeNetwork(c) \/ LookAgain(c)
      PROVE  DesktopsInvariant'
  <2>1. creator[c].pc # "idle" /\ boxes' = boxes
    BY <1>3 DEF LookUpNetwork, DeleteNetwork, MakeNetwork, LookAgain
  <2>2. creator[c].home \in Homes
    BY <1>0, <2>1 DEF DesktopTypes
  <2>3. /\ net' \in {"none", "isolated"} \/ net' = net
        /\ net = "isolated" => net' # "open"
        /\ net = "none" => net' # "open"
    BY <1>3 DEF LookUpNetwork, DeleteNetwork, MakeNetwork, LookAgain
  <2>4. PICK pc \in {"create", "make", "unmake", "again", "idle"} :
          /\ creator' = [creator EXCEPT ![c].pc = pc] \/ creator' = [creator EXCEPT ![c] = NoCreate]
          /\ pc = "create" => net' = "isolated"
    BY <1>3 DEF LookUpNetwork, DeleteNetwork, MakeNetwork, LookAgain, BridgeIccOff
  <2>5. /\ creator' \in [Creators -> CreatorStates]
        /\ \A d \in Creators \ {c} : creator'[d] = creator[d]
        /\ creator'[c].pc = "create" => net' = "isolated"
        /\ creator'[c].home = creator[c].home \/ creator'[c].pc = "idle"
    BY <1>0, <2>4 DEF CreatorStates
  <2>6. DesktopTypes'
    BY <1>0, <2>1, <2>2, <2>3, <2>5 DEF DesktopTypes
  <2>7. OpenIsGone'
    BY <1>0, <2>1, <2>3, <2>5 DEF OpenIsGone, DesktopTypes
  <2> QED
    BY <1>0, <2>1, <2>6, <2>7 DEF DesktopsInvariant, IsolatedDesktops
<1>4. ASSUME NEW c \in Creators, CreateContainer(c) PROVE DesktopsInvariant'
  <2>1. creator[c].home \in Homes /\ net # "open" /\ net' = net
    BY <1>0, <1>4 DEF CreateContainer, DesktopTypes, OpenIsGone
  <2>2. CASE boxes' = boxes
    <3>1. creator' = [creator EXCEPT ![c] = NoCreate]
      <4>1. NewDesktop(creator[c].home) \in BoxStates
        BY <2>1 DEF NewDesktop, BoxStates
      <4>2. Len(Append(boxes, NewDesktop(creator[c].home))) = Len(boxes) + 1
        BY <1>0, <4>1
      <4>3. Len(boxes) # Len(boxes) + 1
        <5>1. Len(boxes) \in Nat
          BY <1>0
        <5> QED
          BY <5>1
      <4>4. boxes # Append(boxes, NewDesktop(creator[c].home))
        BY <4>2, <4>3
      <4> QED
        BY <1>4, <2>2, <4>4 DEF CreateContainer
    <3>2. /\ creator' \in [Creators -> CreatorStates]
          /\ \A d \in Creators : creator'[d] = creator[d] \/ creator'[d].pc = "idle"
      BY <1>0, <3>1
    <3> QED
      BY <1>0, <2>1, <2>2, <3>2 DEF DesktopsInvariant, DesktopTypes, OpenIsGone, IsolatedDesktops
  <2>3. CASE boxes' # boxes
    <3>1. /\ boxes' = Append(boxes, NewDesktop(creator[c].home))
          /\ creator' = [creator EXCEPT ![c] = [pc |-> "start", home |-> creator[c].home,
                                                boxes |-> Len(boxes) + 1]]
      BY <1>4, <2>3 DEF CreateContainer
    <3>2. NewDesktop(creator[c].home) \in BoxStates
      BY <2>1 DEF NewDesktop, BoxStates
    <3>3. /\ boxes' \in Seq(BoxStates) /\ DOMAIN boxes' = 1..(Len(boxes) + 1)
          /\ \A b \in DOMAIN boxes : boxes'[b] = boxes[b]
          /\ boxes'[Len(boxes) + 1].state = "created"
      BY <1>0, <3>1, <3>2 DEF NewDesktop
    <3>4. /\ creator' \in [Creators -> CreatorStates]
          /\ \A d \in Creators : creator'[d].home = creator[d].home
          /\ \A d \in Creators : d # c => creator'[d] = creator[d]
      <4>1. [pc |-> "start", home |-> creator[c].home, boxes |-> Len(boxes) + 1] \in CreatorStates
        BY <1>0, <2>1 DEF CreatorStates
      <4> QED
        BY <1>0, <3>1, <4>1
    <3>5. DesktopTypes'
      BY <1>0, <2>1, <3>3, <3>4 DEF DesktopTypes
    <3>6. OpenIsGone'
      BY <2>1 DEF OpenIsGone
    <3>7. \A b \in DOMAIN boxes' : b \in DOMAIN boxes \/ b = Len(boxes) + 1
      BY <1>0, <3>3
    <3> QED
      BY <1>0, <3>3, <3>5, <3>6, <3>7 DEF DesktopsInvariant, IsolatedDesktops
  <2> QED
    BY <2>2, <2>3
<1>5. ASSUME NEW c \in Creators, StartContainer(c) PROVE DesktopsInvariant'
  <2> DEFINE b == creator[c].boxes
  <2>1. creator' = [creator EXCEPT ![c] = NoCreate] /\ net' = net
    BY <1>5 DEF StartContainer
  <2>2. /\ creator' \in [Creators -> CreatorStates]
        /\ \A d \in Creators : creator'[d] = creator[d] \/ creator'[d].pc = "idle"
    BY <1>0, <2>1
  <2>3. CASE boxes' = boxes
    BY <1>0, <2>1, <2>2, <2>3 DEF DesktopsInvariant, DesktopTypes, OpenIsGone, IsolatedDesktops
  <2>4. CASE boxes' # boxes
    <3>1. boxes' = [boxes EXCEPT ![b] = StartedOn(net, boxes[b])] /\ net # "none"
      BY <1>5, <2>4 DEF StartContainer
    <3>2. /\ DOMAIN boxes' = DOMAIN boxes
          /\ \A k \in DOMAIN boxes : k # b => boxes'[k] = boxes[k]
      BY <1>0, <3>1
    <3>3. b \in DOMAIN boxes =>
            /\ boxes[b] \in BoxStates /\ boxes'[b] \in BoxStates
            /\ boxes'[b].current = boxes[b].current /\ boxes'[b].net = net
      <4>1. b \in DOMAIN boxes =>
              boxes[b] \in BoxStates /\ boxes'[b] = StartedOn(net, boxes[b])
        BY <1>0, <3>1
      <4>2. net \in {"none", "open", "isolated"}
        BY <1>0 DEF DesktopTypes
      <4> QED
        BY <4>1, <4>2, Starts
    <3>4. boxes' \in [DOMAIN boxes -> BoxStates]
      <4>1. \A k \in DOMAIN boxes : boxes'[k] \in BoxStates
        BY <1>0, <3>2, <3>3
      <4> QED
        BY <1>0, <3>1, <3>2, <4>1
    <3>5. boxes' \in Seq(BoxStates)
      BY <1>0, <3>4
    <3>6. \A k \in DOMAIN boxes' : boxes'[k].current => net' # "open"
      BY <1>0, <2>1, <3>2, <3>3 DEF OpenIsGone
    <3>7. IsolatedDesktops'
      BY <1>0, <2>1, <3>1, <3>2, <3>3, <3>6 DEF IsolatedDesktops, DesktopTypes
    <3> QED
      BY <1>0, <2>1, <2>2, <3>5, <3>6, <3>7 DEF DesktopsInvariant, DesktopTypes, OpenIsGone
  <2> QED
    BY <2>3, <2>4
<1>6. ASSUME NEW b \in DOMAIN boxes, StopContainer(b) \/ RemoveContainer(b) PROVE DesktopsInvariant'
  <2>1. PICK s \in {"exited", "gone"} : boxes' = [boxes EXCEPT ![b].state = s]
    BY <1>6 DEF StopContainer, RemoveContainer
  <2>2. UNCHANGED <<creator, net>>
    BY <1>6 DEF StopContainer, RemoveContainer
  <2>3. /\ DOMAIN boxes' = DOMAIN boxes
        /\ \A k \in DOMAIN boxes : boxes'[k] = IF k = b THEN [boxes[b] EXCEPT !.state = s] ELSE boxes[k]
    BY <1>0, <2>1
  <2>4. \A k \in DOMAIN boxes : boxes[k] \in BoxStates /\ [boxes[b] EXCEPT !.state = s] \in BoxStates
    <3>1. \A k \in DOMAIN boxes : boxes[k] \in BoxStates
      BY <1>0
    <3> QED
      BY <1>6, <3>1, StateChanges
  <2>5. boxes' \in [DOMAIN boxes -> BoxStates]
    BY <1>0, <2>1, <2>3, <2>4
  <2>6. /\ boxes' \in Seq(BoxStates) /\ IsolatedDesktops'
        /\ \A k \in DOMAIN boxes' : boxes'[k].current => net' # "open"
    BY <2>2, <2>3, <2>5, BoxesOnlyStop
  <2> QED
    BY <1>0, <2>2, <2>6 DEF DesktopsInvariant, DesktopTypes, OpenIsGone
<1>7. CASE Reboot
  <2>1. /\ DOMAIN boxes' = DOMAIN boxes /\ net' = net
        /\ \A b \in DOMAIN boxes :
             boxes'[b] = IF boxes[b].state = "running" THEN [boxes[b] EXCEPT !.state = "exited"]
                         ELSE boxes[b]
    BY <1>7 DEF Reboot
  <2>2. \A b \in DOMAIN boxes : boxes[b] \in BoxStates /\ [boxes[b] EXCEPT !.state = "exited"] \in BoxStates
    <3>1. \A b \in DOMAIN boxes : boxes[b] \in BoxStates
      BY <1>0
    <3> QED
      BY <3>1, StateChanges
  <2>3. boxes' \in [DOMAIN boxes -> BoxStates]
    BY <1>7, <2>2 DEF Reboot
  <2>4. /\ boxes' \in Seq(BoxStates) /\ IsolatedDesktops'
        /\ \A b \in DOMAIN boxes' : boxes'[b].current => net' # "open"
    BY <2>1, <2>3, BoxesOnlyStop
  <2>5. creator' \in [Creators -> CreatorStates] /\ \A c \in Creators : creator'[c].pc = "idle"
    BY <1>0, <1>7 DEF Reboot
  <2> QED
    BY <1>0, <2>1, <2>4, <2>5 DEF DesktopsInvariant, DesktopTypes, OpenIsGone
<1>8. CASE UNCHANGED desktopVars
  BY <1>0, <1>8 DEF desktopVars, DesktopsInvariant, DesktopTypes, OpenIsGone, IsolatedDesktops
<1> QED
  BY <1>1, <1>2, <1>3, <1>4, <1>5, <1>6, <1>7, <1>8 DEF DesktopsNext

(* The invariant holds in every reachable state. *)
THEOREM DesktopsInvariantHolds == DesktopsSpec => []DesktopsInvariant
BY DesktopsInitOK, DesktopsStepOK, PTL DEF DesktopsSpec

(* No desktop of this release ever runs on a network that lets desktops    *)
(* talk to each other.                                                     *)
THEOREM IsolatedDesktopsHolds == DesktopsSpec => []IsolatedDesktops
<1>1. DesktopsInvariant => IsolatedDesktops
  BY DEF DesktopsInvariant
<1> QED
  BY <1>1, DesktopsInvariantHolds, PTL

(* What a request is about to remove is an outdated desktop, and stays one. *)
ReplacedIsOld ==
  \A c \in Creators : creator[c].pc = "remove" =>
    creator[c].boxes \in DOMAIN boxes /\ ~boxes[creator[c].boxes].current

LEMMA BoxesStayWhatTheyAre ==
  ASSUME DesktopsInvariant, [DesktopsNext]_desktopVars
  PROVE  \A b \in DOMAIN boxes : b \in DOMAIN boxes' /\ boxes'[b].current = boxes[b].current
<1>0. /\ DOMAIN boxes = 1..Len(boxes) /\ Len(boxes) \in Nat
      /\ \A b \in DOMAIN boxes : boxes[b] \in BoxStates
      /\ boxes \in Seq(BoxStates) /\ net \in {"none", "open", "isolated"}
  BY DEF DesktopsInvariant, DesktopTypes
<1> DEFINE Stay == \A b \in DOMAIN boxes : b \in DOMAIN boxes' /\ boxes'[b].current = boxes[b].current
<1>1. ASSUME boxes' = boxes PROVE Stay
  BY <1>1
<1>2. ASSUME DOMAIN boxes' = DOMAIN boxes,
             \A b \in DOMAIN boxes : \/ boxes'[b] = boxes[b]
                                     \/ \E s \in {"running", "exited", "gone"} : boxes'[b] = [boxes[b] EXCEPT !.state = s]
                                     \/ boxes'[b] = StartedOn(net, boxes[b])
      PROVE  Stay
  <2> SUFFICES ASSUME NEW b \in DOMAIN boxes PROVE boxes'[b].current = boxes[b].current
    BY <1>2
  <2>1. boxes[b] \in BoxStates BY <1>0
  <2>2. \A s \in {"running", "exited", "gone"} : [boxes[b] EXCEPT !.state = s].current = boxes[b].current
    BY <2>1, StateChanges
  <2>3. StartedOn(net, boxes[b]).current = boxes[b].current BY <1>0, <2>1, Starts
  <2>4. \/ boxes'[b] = boxes[b]
        \/ \E s \in {"running", "exited", "gone"} : boxes'[b] = [boxes[b] EXCEPT !.state = s]
        \/ boxes'[b] = StartedOn(net, boxes[b])
    BY <1>2
  <2> QED BY <2>2, <2>3, <2>4
<1>3. ASSUME NEW c \in Creators, CreateContainer(c) PROVE Stay
  <2>1. boxes' = boxes \/ boxes' = Append(boxes, NewDesktop(creator[c].home))
    BY <1>3 DEF CreateContainer
  <2> QED BY <1>0, <1>1, <2>1
<1>4. ASSUME NEW c \in Creators, StartContainer(c) PROVE Stay
  <2> DEFINE b == creator[c].boxes
  <2>1. boxes' = boxes \/ boxes' = [boxes EXCEPT ![b] = StartedOn(net, boxes[b])]
    BY <1>4 DEF StartContainer
  <2> HIDE DEF b
  <2> QED BY <1>1, <1>2, <2>1
<1>5. ASSUME NEW c \in Creators, RemoveReplaced(c) PROVE Stay
  BY <1>2, <1>5 DEF RemoveReplaced
<1>6. ASSUME NEW b \in DOMAIN boxes, StopContainer(b) \/ RemoveContainer(b) PROVE Stay
  <2>1. \E s \in {"exited", "gone"} : boxes' = [boxes EXCEPT ![b].state = s]
    BY <1>6 DEF StopContainer, RemoveContainer
  <2> QED BY <1>2, <2>1
<1>7. ASSUME Reboot PROVE Stay
  BY <1>2, <1>7 DEF Reboot
<1>8. ASSUME NEW c \in Creators,
             \/ \E h \in Homes : FindByName(c, h)
             \/ LookUpNetwork(c) \/ DeleteNetwork(c) \/ MakeNetwork(c) \/ LookAgain(c)
      PROVE  Stay
  BY <1>1, <1>8 DEF FindByName, LookUpNetwork, DeleteNetwork, MakeNetwork, LookAgain
<1>9. ASSUME UNCHANGED desktopVars PROVE Stay BY <1>1, <1>9 DEF desktopVars
<1> HIDE DEF Stay
<1>10. ASSUME DesktopsNext PROVE Stay BY <1>3, <1>4, <1>5, <1>6, <1>7, <1>8, <1>10 DEF DesktopsNext
<1>11. Stay BY <1>9, <1>10
<1> QED BY <1>11 DEF Stay

(* A request that is about to remove has just found what it removes, or waits. *)
LEMMA WhoRemoves ==
  ASSUME DesktopsInvariant, [DesktopsNext]_desktopVars, NEW c \in Creators, creator'[c].pc = "remove"
  PROVE  \/ creator'[c] = creator[c]
         \/ creator'[c].boxes \in DOMAIN boxes /\ ~boxes[creator'[c].boxes].current
<1>0. /\ creator \in [Creators -> CreatorStates] /\ NoCreate.pc = "idle"
      /\ \A d \in Creators : creator[d] \in CreatorStates
  BY DEF DesktopsInvariant, DesktopTypes, NoCreate
<1> DEFINE Found == \/ creator'[c] = creator[c]
                    \/ creator'[c].boxes \in DOMAIN boxes /\ ~boxes[creator'[c].boxes].current
<1> USE DEF CreatorAt, CreatorGoes, CreatorFails
<1>1. ASSUME NEW d \in Creators, NEW r, r.pc # "remove", creator' = [creator EXCEPT ![d] = r]
      PROVE  Found
  BY <1>0, <1>1
<1>2. ASSUME NEW d \in Creators, NEW pc, pc # "remove", creator' = [creator EXCEPT ![d].pc = pc]
      PROVE  Found
  <2>1. CASE d = c
    <3>1. creator[c] \in CreatorStates BY <1>0
    <3>2. creator'[c].pc = pc BY <1>0, <1>2, <2>1, <3>1 DEF CreatorStates
    <3> QED BY <1>2, <3>2
  <2>2. CASE d # c BY <1>0, <1>2, <2>2
  <2> QED BY <2>1, <2>2
<1>3. ASSUME NEW d \in Creators, NEW h \in Homes, FindByName(d, h) PROVE Found
  <2>1. CASE creator' = [creator EXCEPT ![d] = [pc |-> "network", home |-> h, boxes |-> 0]]
    <3>1. [pc |-> "network", home |-> h, boxes |-> 0].pc # "remove" OBVIOUS
    <3> QED BY <1>1, <2>1, <3>1
  <2>2. ASSUME NEW b \in Present(h),
               creator' = [creator EXCEPT ![d] = [pc |-> IF boxes[b].current THEN "start" ELSE "remove",
                                                  home |-> h, boxes |-> b]]
        PROVE  Found
    <3>1. b \in DOMAIN boxes BY DEF Present
    <3> QED BY <1>0, <2>2, <3>1
  <2> QED BY <1>3, <2>1, <2>2 DEF FindByName
<1>4. ASSUME NEW d \in Creators, RemoveReplaced(d) PROVE Found
  BY <1>2, <1>4 DEF RemoveReplaced
<1>5. ASSUME NEW d \in Creators, LookUpNetwork(d) \/ DeleteNetwork(d) \/ MakeNetwork(d) \/ LookAgain(d)
      PROVE  Found
  <2>1. \/ creator' = [creator EXCEPT ![d] = NoCreate]
        \/ \E pc \in {"create", "make", "unmake", "again"} : creator' = [creator EXCEPT ![d].pc = pc]
    BY <1>5 DEF LookUpNetwork, DeleteNetwork, MakeNetwork, LookAgain
  <2> QED BY <1>0, <1>1, <1>2, <2>1
<1>6. ASSUME NEW d \in Creators, CreateContainer(d) \/ StartContainer(d) PROVE Found
  <2> DEFINE r == [pc |-> "start", home |-> creator[d].home, boxes |-> Len(boxes) + 1]
  <2>1. creator' = [creator EXCEPT ![d] = NoCreate] \/ creator' = [creator EXCEPT ![d] = r]
    BY <1>6 DEF CreateContainer, StartContainer
  <2>2. r.pc # "remove" OBVIOUS
  <2> HIDE DEF r
  <2> QED BY <1>0, <1>1, <2>1, <2>2
<1>7. ASSUME \E b \in DOMAIN boxes : StopContainer(b) \/ RemoveContainer(b) PROVE Found
  BY <1>7 DEF StopContainer, RemoveContainer
<1>8. ~Reboot BY <1>0 DEF Reboot
<1>9. ASSUME UNCHANGED desktopVars PROVE Found BY <1>9 DEF desktopVars
<1> HIDE DEF Found
<1>10. ASSUME DesktopsNext PROVE Found BY <1>3, <1>4, <1>5, <1>6, <1>7, <1>8, <1>10 DEF DesktopsNext
<1>11. Found BY <1>9, <1>10
<1> QED BY <1>11 DEF Found

LEMMA ReplacedStaysOld ==
  DesktopsInvariant /\ ReplacedIsOld /\ [DesktopsNext]_desktopVars => ReplacedIsOld'
<1> SUFFICES ASSUME DesktopsInvariant, ReplacedIsOld, [DesktopsNext]_desktopVars,
                    NEW c \in Creators, creator'[c].pc = "remove"
             PROVE  creator'[c].boxes \in DOMAIN boxes' /\ ~boxes'[creator'[c].boxes].current
  BY DEF ReplacedIsOld
<1>1. creator'[c].boxes \in DOMAIN boxes /\ ~boxes[creator'[c].boxes].current
  BY WhoRemoves DEF ReplacedIsOld
<1> QED BY <1>1, BoxesStayWhatTheyAre

(* A request removes what it found outdated, whatever a parallel request has *)
(* made under the same name since: the desktops of this release stay.        *)
THEOREM ReplaceSparesCurrentHolds == DesktopsSpec => ReplaceSparesCurrent
<1>1. DesktopsInit => ReplacedIsOld
  BY DEF DesktopsInit, ReplacedIsOld, NoCreate
<1>2. DesktopsInvariant /\ ReplacedIsOld /\ [DesktopsNext]_desktopVars =>
        [\A c \in Creators : CreatorAt(c, "remove") =>
           \/ creator'[c] = creator[c] \/ creator'[c] = NoCreate
           \/ \A b \in DOMAIN boxes : boxes[b].current => boxes'[b].state = boxes[b].state]_desktopVars
  <2> SUFFICES ASSUME DesktopsInvariant, ReplacedIsOld, DesktopsNext, NEW c \in Creators, CreatorAt(c, "remove")
               PROVE  \/ creator'[c] = creator[c] \/ creator'[c] = NoCreate
                      \/ \A b \in DOMAIN boxes : boxes[b].current => boxes'[b].state = boxes[b].state
    OBVIOUS
  <2>0. creator \in [Creators -> CreatorStates] BY DEF DesktopsInvariant, DesktopTypes
  <2>1. CASE RemoveReplaced(c)
    <3>1. creator[c].boxes \in DOMAIN boxes /\ ~boxes[creator[c].boxes].current
      BY DEF ReplacedIsOld, CreatorAt
    <3>2. \A b \in DOMAIN boxes : boxes[b].current => boxes'[b] = boxes[b]
      BY <2>1, <3>1 DEF RemoveReplaced, Replaced
    <3> QED BY <3>2
  <2>2. ASSUME NEW d \in Creators,
               \/ \E h \in Homes : FindByName(d, h)
               \/ LookUpNetwork(d) \/ DeleteNetwork(d) \/ MakeNetwork(d) \/ LookAgain(d)
               \/ CreateContainer(d) \/ StartContainer(d)
        PROVE  creator'[c] = creator[c]
    <3>1. c # d
      BY <2>2 DEF CreatorAt, FindByName, LookUpNetwork, DeleteNetwork, MakeNetwork, LookAgain, CreateContainer,
                  StartContainer
    <3>2. \E r : creator' = [creator EXCEPT ![d] = r]
      <4>1. \/ \E r : creator' = [creator EXCEPT ![d] = r]
            \/ \E pc \in {"create", "make", "unmake", "again"} : creator' = [creator EXCEPT ![d].pc = pc]
        BY <2>2 DEF CreatorGoes, CreatorFails, FindByName, LookUpNetwork, DeleteNetwork, MakeNetwork, LookAgain,
                    CreateContainer, StartContainer
      <4> QED BY <4>1
    <3> QED BY <2>0, <3>1, <3>2
  <2>3. ASSUME NEW d \in Creators \ {c}, RemoveReplaced(d) PROVE creator'[c] = creator[c]
    BY <2>0, <2>3 DEF RemoveReplaced, CreatorGoes
  <2>4. ASSUME \E b \in DOMAIN boxes : StopContainer(b) \/ RemoveContainer(b) PROVE creator'[c] = creator[c]
    BY <2>4 DEF StopContainer, RemoveContainer
  <2>5. ASSUME Reboot PROVE creator'[c] = NoCreate
    BY <2>5 DEF Reboot
  <2> QED BY <2>1, <2>2, <2>3, <2>4, <2>5 DEF DesktopsNext
<1> QED
  BY <1>1, <1>2, DesktopsInvariantHolds, ReplacedStaysOld, PTL DEF DesktopsSpec, ReplaceSparesCurrent

(***************************************************************************)
(* The artifacts.                                                          *)
(*                                                                         *)
(* For any bots, files and bounds: an artifact the chat lists has its file *)
(* (ListedHasFile).  What a handler did before its next step still holds   *)
(* there, because the handlers of the loop do not overlap: the file is     *)
(* there when its row is saved, and the rows of a deleted chat are gone    *)
(* before its files are.                                                   *)
(***************************************************************************)

ArtifactRows ==
  [bot : UploadBots, size : Sizes, file : BOOLEAN, row : BOOLEAN]
IngestStates ==
  [pc : {"idle", "row", "place", "note", "release", "rows", "files"},
   bot : UploadBots \cup {"none"}, art : Nat, copy : BOOLEAN, place : {0} \cup Places]

(* What the handler in flight relies on. *)
FileBeforeRow ==
  At("row") => ingest.art \in DOMAIN artifacts /\ artifacts[ingest.art].file
RowsBeforeFiles ==
  At("files") => \A a \in DOMAIN artifacts : artifacts[a].bot = ingest.bot => ~artifacts[a].row

UploadsInvariant ==
  /\ artifacts \in Seq(ArtifactRows) /\ ingest \in IngestStates
  /\ FileBeforeRow /\ RowsBeforeFiles
  /\ ListedHasFile

(* A sequence that is changed where it stands is one of the same length. *)
LEMMA ChangedInPlace ==
  ASSUME NEW s \in Seq(ArtifactRows), NEW t, t \in [DOMAIN s -> ArtifactRows]
  PROVE  t \in Seq(ArtifactRows) /\ DOMAIN t = DOMAIN s
<1>1. DOMAIN s = 1..Len(s) /\ Len(s) \in Nat
  OBVIOUS
<1> QED
  BY <1>1, SeqDef

(* An artifact whose row, or whose file, comes or goes. *)
LEMMA OneFieldOnly ==
  ASSUME NEW x \in ArtifactRows, NEW v \in BOOLEAN
  PROVE  /\ [x EXCEPT !.row = v] \in ArtifactRows /\ [x EXCEPT !.file = v] \in ArtifactRows
         /\ [x EXCEPT !.row = v].bot = x.bot /\ [x EXCEPT !.file = v].bot = x.bot
         /\ [x EXCEPT !.row = v].file = x.file /\ [x EXCEPT !.file = v].row = x.row
         /\ [x EXCEPT !.row = v].row = v /\ [x EXCEPT !.file = v].file = v
BY DEF ArtifactRows

(* Initially there is nothing. *)
LEMMA UploadsInitOK == UploadsInit => UploadsInvariant
BY DEF UploadsInit, UploadsInvariant, ArtifactRows, IngestStates, NoIngest, FileBeforeRow, RowsBeforeFiles,
       ListedHasFile, At

(* A step that leaves the artifacts alone and goes where nothing is relied upon. *)
LEMMA HandlerMoves ==
  ASSUME UploadsInvariant, artifacts' = artifacts, ingest' \in IngestStates,
         ingest' = ingest \/ ingest'.pc \notin {"row", "files"}
  PROVE  UploadsInvariant'
<1>1. CASE ingest' = ingest
  BY <1>1 DEF UploadsInvariant, FileBeforeRow, RowsBeforeFiles, ListedHasFile, At
<1>2. CASE ingest'.pc \notin {"row", "files"}
  BY <1>2 DEF UploadsInvariant, FileBeforeRow, RowsBeforeFiles, ListedHasFile, At
<1> QED
  BY <1>1, <1>2

(* Every action keeps the invariant. *)
LEMMA UploadsStepOK == UploadsInvariant /\ [UploadsNext]_uploadVars => UploadsInvariant'
<1> SUFFICES ASSUME UploadsInvariant, [UploadsNext]_uploadVars PROVE UploadsInvariant'
  OBVIOUS
<1>0. artifacts \in Seq(ArtifactRows) /\ ingest \in IngestStates /\ NoIngest \in IngestStates
  BY DEF UploadsInvariant, IngestStates, NoIngest
<1>1. ASSUME NEW b \in UploadBots, NEW size \in Sizes, NEW copy \in BOOLEAN,
             WriteArtifact(b, size, copy)
      PROVE  UploadsInvariant'
  <2> DEFINE new == [bot |-> b, size |-> size, file |-> TRUE, row |-> FALSE]
  <2>1. new \in ArtifactRows
    BY DEF ArtifactRows
  <2>2. artifacts' = Append(artifacts, new)
    BY <1>1 DEF WriteArtifact
  <2> HIDE DEF new
  <2>3. /\ artifacts' \in Seq(ArtifactRows) /\ DOMAIN artifacts' = 1..(Len(artifacts) + 1)
        /\ \A a \in DOMAIN artifacts : artifacts'[a] = artifacts[a]
        /\ artifacts'[Len(artifacts) + 1] = new
    BY <1>0, <2>1, <2>2
  <2>4. /\ ingest' = [pc |-> "row", bot |-> b, art |-> Len(artifacts) + 1, copy |-> copy, place |-> 0]
        /\ ingest' \in IngestStates
    <3>1. Len(artifacts) + 1 \in Nat
      BY <1>0
    <3>2. ingest' = [pc |-> "row", bot |-> b, art |-> Len(artifacts) + 1, copy |-> copy, place |-> 0]
      BY <1>1 DEF WriteArtifact, NoIngest
    <3> QED
      BY <3>1, <3>2 DEF IngestStates
  <2>5. \A a \in DOMAIN artifacts' : a \in DOMAIN artifacts \/ a = Len(artifacts) + 1
    BY <1>0, <2>3
  <2>6. Len(artifacts) + 1 \in DOMAIN artifacts' /\ new.file
    BY <1>0, <2>3 DEF new
  <2> QED
    BY <2>3, <2>4, <2>5, <2>6 DEF UploadsInvariant, FileBeforeRow, RowsBeforeFiles, ListedHasFile, At
<1>2. ASSUME SaveArtifact PROVE UploadsInvariant'
  <2>1. ingest' \in IngestStates /\ ingest'.pc \in {"place", "idle"}
    BY <1>0, <1>2 DEF SaveArtifact, IngestGoes, NoIngest, IngestStates
  <2>2. CASE artifacts' = artifacts
    BY <1>0, <2>1, <2>2, HandlerMoves
  <2>3. CASE artifacts' = [artifacts EXCEPT ![ingest.art].row = TRUE]
    <3>1. ingest.art \in DOMAIN artifacts /\ artifacts[ingest.art].file
      BY <1>2 DEF SaveArtifact, UploadsInvariant, FileBeforeRow
    <3>2. /\ artifacts' \in Seq(ArtifactRows) /\ DOMAIN artifacts' = DOMAIN artifacts
          /\ \A a \in DOMAIN artifacts : a # ingest.art => artifacts'[a] = artifacts[a]
          /\ artifacts'[ingest.art].file
      <4>1. artifacts \in [DOMAIN artifacts -> ArtifactRows] /\ artifacts[ingest.art] \in ArtifactRows
        BY <1>0, <3>1
      <4> DEFINE saved == [artifacts[ingest.art] EXCEPT !.row = TRUE]
      <4>2. saved \in ArtifactRows /\ saved.file = artifacts[ingest.art].file
        BY <4>1, OneFieldOnly
      <4>3. artifacts' = [artifacts EXCEPT ![ingest.art] = saved]
        BY <2>3
      <4> HIDE DEF saved
      <4>4. artifacts' \in [DOMAIN artifacts -> ArtifactRows]
        BY <4>1, <4>2, <4>3
      <4>5. artifacts' \in Seq(ArtifactRows) /\ DOMAIN artifacts' = DOMAIN artifacts
        BY <1>0, <4>4, ChangedInPlace
      <4> QED
        BY <3>1, <4>1, <4>2, <4>3, <4>5
    <3> QED
      BY <1>0, <2>1, <3>2 DEF NoIngest, UploadsInvariant, FileBeforeRow, RowsBeforeFiles,
                              ListedHasFile, At
  <2> QED
    BY <1>2, <2>2, <2>3 DEF SaveArtifact
<1>3. ASSUME NEW b \in UploadBots, NEW a \in DOMAIN artifacts, LoadExisting(b, a)
      PROVE  UploadsInvariant'
  <2>1. a \in Nat
    BY <1>0
  <2>2. ingest' \in IngestStates /\ ingest'.pc = "place" /\ artifacts' = artifacts
    BY <1>3, <2>1 DEF LoadExisting, NoIngest, IngestStates
  <2> QED
    BY <2>2, HandlerMoves
<1>4. ASSUME PlaceInInbox \/ RememberInboxCopy \/ ReleaseHome \/ UploadsExit PROVE UploadsInvariant'
  <2>1. artifacts' = artifacts /\ ingest' \in IngestStates /\ ingest'.pc \in {"note", "idle", "rows"}
    BY <1>0, <1>4 DEF PlaceInInbox, UniqueInboxPath, RememberInboxCopy, ReleaseHome, UploadsExit,
                      IngestGoes, NoIngest, IngestStates
  <2> QED
    BY <2>1, HandlerMoves
<1>5. ASSUME NEW b \in UploadBots, RemoveInboxCopies(b) PROVE UploadsInvariant'
  <2>1. artifacts' = artifacts /\ ingest' \in IngestStates /\ ingest'.pc = "release"
    BY <1>0, <1>5 DEF RemoveInboxCopies, NoIngest, IngestStates
  <2> QED
    BY <2>1, HandlerMoves
<1>6. ASSUME NEW b \in UploadBots, NEW size \in Sizes, ReadOwnerFile(b, size)
      PROVE  UploadsInvariant'
  BY <1>0, <1>6, HandlerMoves DEF ReadOwnerFile
<1>7. ASSUME DeleteRows PROVE UploadsInvariant'
  <2>1. ingest' \in IngestStates /\ ingest'.pc = "files" /\ ingest'.bot = ingest.bot
    BY <1>0, <1>7 DEF DeleteRows, IngestGoes, IngestStates
  <2>2. /\ artifacts' \in Seq(ArtifactRows) /\ DOMAIN artifacts' = DOMAIN artifacts
        /\ \A a \in DOMAIN artifacts :
             /\ artifacts'[a].bot = artifacts[a].bot /\ artifacts'[a].file = artifacts[a].file
             /\ artifacts'[a].row <=> artifacts[a].row /\ artifacts[a].bot # ingest.bot
    <3>1. \A a \in DOMAIN artifacts : artifacts[a] \in ArtifactRows
      BY <1>0
    <3>2. artifacts' \in [DOMAIN artifacts -> ArtifactRows]
      BY <1>7, <3>1, OneFieldOnly DEF DeleteRows
    <3>3. artifacts' \in Seq(ArtifactRows) /\ DOMAIN artifacts' = DOMAIN artifacts
      BY <1>0, <3>2, ChangedInPlace
    <3>4. ASSUME NEW a \in DOMAIN artifacts
          PROVE  /\ artifacts'[a].bot = artifacts[a].bot /\ artifacts'[a].file = artifacts[a].file
                 /\ artifacts'[a].row <=> artifacts[a].row /\ artifacts[a].bot # ingest.bot
      BY <1>7, <3>1, OneFieldOnly DEF DeleteRows
    <3> QED
      BY <3>3, <3>4
  <2> QED
    BY <2>1, <2>2 DEF UploadsInvariant, FileBeforeRow, RowsBeforeFiles, ListedHasFile, At
<1>8. ASSUME RemoveArtifacts PROVE UploadsInvariant'
  <2>1. ingest' = NoIngest
    BY <1>8 DEF RemoveArtifacts
  <2>2. /\ artifacts' \in Seq(ArtifactRows) /\ DOMAIN artifacts' = DOMAIN artifacts
        /\ \A a \in DOMAIN artifacts :
             /\ artifacts'[a].row <=> artifacts[a].row
             /\ artifacts[a].bot # ingest.bot => artifacts'[a].file = artifacts[a].file
    <3>1. \A a \in DOMAIN artifacts : artifacts[a] \in ArtifactRows
      BY <1>0
    <3>2. artifacts' \in [DOMAIN artifacts -> ArtifactRows]
      BY <1>8, <3>1, OneFieldOnly DEF RemoveArtifacts
    <3>3. artifacts' \in Seq(ArtifactRows) /\ DOMAIN artifacts' = DOMAIN artifacts
      BY <1>0, <3>2, ChangedInPlace
    <3>4. ASSUME NEW a \in DOMAIN artifacts
          PROVE  /\ artifacts'[a].row <=> artifacts[a].row
                 /\ artifacts[a].bot # ingest.bot => artifacts'[a].file = artifacts[a].file
      <4>1. artifacts[a] \in ArtifactRows
        BY <3>1
      <4>2. CASE artifacts[a].bot = ingest.bot
        <5>1. artifacts'[a] = [artifacts[a] EXCEPT !.file = FALSE]
          BY <1>8, <4>2 DEF RemoveArtifacts
        <5> QED
          BY <4>1, <4>2, <5>1, OneFieldOnly
      <4>3. CASE artifacts[a].bot # ingest.bot
        BY <1>8, <4>3 DEF RemoveArtifacts
      <4> QED
        BY <4>2, <4>3
    <3> QED
      BY <3>3, <3>4
  <2>3. \A a \in DOMAIN artifacts : artifacts[a].bot = ingest.bot => ~artifacts[a].row
    BY <1>8 DEF RemoveArtifacts, UploadsInvariant, RowsBeforeFiles
  <2> QED
    BY <1>0, <2>1, <2>2, <2>3 DEF NoIngest, UploadsInvariant, FileBeforeRow, RowsBeforeFiles,
                                  ListedHasFile, At
<1>9. CASE UNCHANGED uploadVars
  BY <1>0, <1>9, HandlerMoves DEF uploadVars
<1> QED
  BY <1>1, <1>2, <1>3, <1>4, <1>5, <1>6, <1>7, <1>8, <1>9 DEF UploadsNext

----------------------------------------------------------------------------
(* The handler's files and rows are in the order it relies on, whatever exits. *)
THEOREM UploadsInvariantHolds == UploadsSpec => []UploadsInvariant
BY UploadsInitOK, UploadsStepOK, PTL DEF UploadsSpec

(* ListedHasFile: what the chat lists can be downloaded, over any exits of an
   upload or a deletion (ingest_uploads, remove_bot). *)
THEOREM ListedHasFileHolds == UploadsSpec => []ListedHasFile
<1>1. UploadsInvariant => ListedHasFile
  BY DEF UploadsInvariant
<1> QED
  BY <1>1, UploadsInvariantHolds, PTL

(***************************************************************************)
(* Devices, pairing codes and the audit log.                               *)
(*                                                                         *)
(* For any devices, codes and limits: the audit log is complete and its    *)
(* chain verifies (AuditComplete), and a pairing code stands behind one    *)
(* device (CodePairsOnce).  The advisory lock makes the record a writer    *)
(* has inserted the next one of the table until that writer commits.       *)
(***************************************************************************)

LastHash == IF Len(audit) = 0 THEN Genesis ELSE audit[Len(audit)].hash

(* The record continues the log as it is. *)
Fits(rec, what) ==
  /\ rec.seq = Len(audit) + 1 /\ rec.what = what
  /\ rec.prev = LastHash
  /\ rec.hash = Hash(rec.seq, rec.what, rec.prev)

(* The lock is held from the append until the commit, and what was         *)
(* inserted under it still fits.                                           *)
Serial(w) ==
  /\ tx[w].at \in {"locked", "inserted"} <=> auditLock = w
  /\ tx[w].at = "inserted" => Fits(tx[w].rec, tx[w].what)

(* Devices are changed by the loop only, and are still as the change in    *)
(* flight found them.                                                      *)
FreshChange(w) ==
  tx[w].at # "idle" =>
    /\ w = "thread" => tx[w].what.kind = "automation.updated"
    /\ tx[w].what.kind = "device.create" =>
         tx[w].what.of \in Devices /\ dev[tx[w].what.of] = "none"
    /\ tx[w].what.kind = "device.revoke" =>
         tx[w].what.of \in Devices /\ dev[tx[w].what.of] = "active"

(* The code of a device, and the one just consumed, are used up; they are  *)
(* not the same.                                                           *)
CodesSpent ==
  /\ pairing \in Codes => code[pairing] = "used"
  /\ \A d \in Devices : madeBy[d] \in Codes => code[madeBy[d]] = "used" /\ madeBy[d] # pairing

AccessInvariant ==
  /\ AccessTypeOK
  /\ \A w \in Writers : Serial(w)
  /\ \A w \in Writers : FreshChange(w)
  /\ CodesSpent
  /\ CodePairsOnce
  /\ AuditComplete

(* The records and transactions the steps build are of their types. *)
LEMMA RecordTypes ==
  /\ NoChange \in Changes /\ Genesis \in Hashes /\ NoRecord \in AuditRecords
  /\ NoTx \in Transactions
<1>1. NoChange \in Changes
  BY DEF NoChange, Changes, ChangeKinds
<1>2. Genesis \in Hashes
  BY DEF Genesis, Hashes
<1>3. NoRecord \in AuditRecords
  BY <1>1, <1>2 DEF NoRecord, AuditRecords
<1>4. NoTx \in Transactions
  BY <1>1, <1>3 DEF NoTx, Transactions
<1> QED
  BY <1>1, <1>2, <1>3, <1>4

(* Hashes stay hashes. *)
LEMMA HashType ==
  ASSUME NEW n \in Nat, NEW what \in Changes, NEW prev \in Hashes
  PROVE  Hash(n, what, prev) \in Hashes
BY DEF Hash, Hashes

(* The hash the next record continues. *)
LEMMA LastHashType ==
  ASSUME audit \in Seq(AuditRecords)
  PROVE  LastHash \in Hashes
<1>1. CASE Len(audit) = 0
  BY <1>1, RecordTypes DEF LastHash
<1>2. CASE Len(audit) # 0
  <2>1. audit[Len(audit)] \in AuditRecords
    BY <1>2
  <2> QED
    BY <1>2, <2>1 DEF LastHash, AuditRecords
<1> QED
  BY <1>1, <1>2

(* No device, no code, no record at the start. *)
LEMMA AccessInitOK == AccessInit => AccessInvariant
<1> SUFFICES ASSUME AccessInit PROVE AccessInvariant
  OBVIOUS
<1>1. AccessTypeOK
  <2>1. tx \in [Writers -> Transactions]
    BY RecordTypes DEF AccessInit
  <2>2. hits \in 0..PairLimit /\ exits \in 0..MaxExits
    BY AccessAssumption DEF AccessInit
  <2> QED
    BY <2>1, <2>2 DEF AccessInit, AccessTypeOK
<1>2. \A w \in Writers : Serial(w) /\ FreshChange(w)
  BY DEF AccessInit, Serial, FreshChange, NoTx, Writers
<1>3. CodesSpent /\ CodePairsOnce
  BY AccessAssumption DEF AccessInit, CodesSpent, CodePairsOnce
<1>4. AuditComplete
  BY DEF AccessInit, AuditComplete, ChainVerifies, Unrecorded
<1> QED
  BY <1>1, <1>2, <1>3, <1>4 DEF AccessInvariant

(* A step that leaves the log and the devices alone. *)
LEMMA LogUnchanged ==
  ASSUME UNCHANGED <<audit, dev, conflicts>>, AuditComplete
  PROVE  AuditComplete'
BY DEF AuditComplete, ChainVerifies, Unrecorded, RecordedOnce

(* A transaction that a step leaves alone, with the log and its claim on the lock. *)
LEMMA SerialUnchanged ==
  ASSUME UNCHANGED audit, NEW w \in Writers, Serial(w), tx'[w] = tx[w],
         auditLock' = w <=> auditLock = w
  PROVE  Serial(w)'
BY DEF Serial, Fits, LastHash

(* The same for the devices its change has found. *)
LEMMA FreshUnchanged ==
  ASSUME UNCHANGED dev, NEW w \in Writers, FreshChange(w), tx'[w] = tx[w]
  PROVE  FreshChange(w)'
BY DEF FreshChange

(* The same for the codes. *)
LEMMA CodesUnchanged ==
  ASSUME UNCHANGED <<code, pairing, madeBy>>, CodesSpent, CodePairsOnce
  PROVE  CodesSpent' /\ CodePairsOnce'
BY DEF CodesSpent, CodePairsOnce

(* The requests about codes, and the limiter. *)
LEMMA CodeSteps ==
  ASSUME AccessInvariant,
         \/ \E c \in Codes : CreatePairingCode(c) \/ CodeExpires(c) \/ Pair(c)
         \/ WindowPasses \/ CreateFails
  PROVE  AccessInvariant'
<1>0. /\ AccessTypeOK /\ CodesSpent /\ CodePairsOnce /\ AuditComplete
      /\ \A w \in Writers : Serial(w) /\ FreshChange(w)
  BY DEF AccessInvariant
<1>1. UNCHANGED <<dev, madeBy, tx, auditLock, audit, conflicts, exits>>
  BY DEF CreatePairingCode, CodeExpires, Pair, WindowPasses, CreateFails
<1>2. AuditComplete' /\ \A w \in Writers : Serial(w)' /\ FreshChange(w)'
  BY <1>0, <1>1, LogUnchanged, SerialUnchanged, FreshUnchanged
<1>3. /\ code' \in [Codes -> {"none", "open", "used", "expired"}]
      /\ pairing' \in Codes \cup {"none"}
  BY <1>0 DEF AccessTypeOK, CreatePairingCode, CodeExpires, Pair, WindowPasses, CreateFails
<1>4. hits' \in 0..PairLimit
  <2>1. hits \in 0..PairLimit /\ PairLimit \in Nat
    BY <1>0, AccessAssumption DEF AccessTypeOK
  <2>2. hits' = hits \/ (hits > 0 /\ hits' = hits - 1) \/ (hits < PairLimit /\ hits' = hits + 1)
    BY DEF CreatePairingCode, CodeExpires, Pair, Allow, WindowPasses, CreateFails
  <2> QED
    BY <2>1, <2>2
<1>5. AccessTypeOK'
  BY <1>0, <1>1, <1>3, <1>4 DEF AccessTypeOK
<1>6. \A d \in Codes : code[d] = "used" => code'[d] = "used"
  BY <1>0 DEF AccessTypeOK, CreatePairingCode, CodeExpires, Pair, Consumable, WindowPasses, CreateFails
<1>7. \/ pairing' \in {pairing, "none"}
      \/ pairing' \in Codes /\ code[pairing'] = "open" /\ code'[pairing'] = "used"
  BY <1>0 DEF AccessTypeOK, CreatePairingCode, CodeExpires, Pair, Consumable, WindowPasses, CreateFails
<1>8. CodePairsOnce'
  BY <1>0, <1>1 DEF CodePairsOnce
<1>9. "none" \notin Codes
  BY AccessAssumption
<1>10. CodesSpent'
  BY <1>0, <1>1, <1>6, <1>7, <1>9 DEF CodesSpent
<1> QED
  BY <1>2, <1>5, <1>8, <1>10 DEF AccessInvariant

(* A writer changes its rows: the device is as the handler has read it. *)
LEMMA ChangeSteps ==
  ASSUME AccessInvariant,
         \/ \E d \in Devices : CreateDevice(d) \/ RevokeDevice(d)
         \/ SaveGrant \/ UpdateRoutine
  PROVE  AccessInvariant'
<1>0. /\ AccessTypeOK /\ CodesSpent /\ CodePairsOnce /\ AuditComplete
      /\ \A w \in Writers : Serial(w) /\ FreshChange(w)
  BY DEF AccessInvariant
<1>1. UNCHANGED <<code, dev, madeBy, hits, pairing, auditLock, audit, conflicts, exits>>
  BY DEF CreateDevice, RevokeDevice, SaveGrant, UpdateRoutine, Change
<1>2. PICK w \in Writers, what \in Changes :
        /\ tx[w].at = "idle"
        /\ tx' = [tx EXCEPT ![w] = [at |-> "changed", what |-> what, rec |-> NoRecord]]
        /\ w = "thread" => what.kind = "automation.updated"
        /\ what.kind = "device.create" => what.of \in Devices /\ dev[what.of] = "none"
        /\ what.kind = "device.revoke" => what.of \in Devices /\ dev[what.of] = "active"
  <2>1. CASE \E d \in Devices : CreateDevice(d)
    <3>1. PICK d \in Devices : CreateDevice(d)
      BY <2>1
    <3>2. [kind |-> "device.create", of |-> d] \in Changes
      BY DEF Changes, ChangeKinds
    <3>3. "loop" \in Writers
      BY DEF Writers
    <3> QED
      BY <3>1, <3>2, <3>3 DEF CreateDevice, Change
  <2>2. CASE \E d \in Devices : RevokeDevice(d)
    <3>1. PICK d \in Devices : RevokeDevice(d)
      BY <2>2
    <3>2. [kind |-> "device.revoke", of |-> d] \in Changes
      BY DEF Changes, ChangeKinds
    <3>3. "loop" \in Writers
      BY DEF Writers
    <3> QED
      BY <3>1, <3>2, <3>3 DEF RevokeDevice, Change
  <2>3. CASE SaveGrant
    <3>1. [kind |-> "grant.change", of |-> "none"] \in Changes /\ "loop" \in Writers
      BY DEF Changes, ChangeKinds, Writers
    <3> QED
      BY <2>3, <3>1 DEF SaveGrant, Change
  <2>4. CASE UpdateRoutine
    <3>1. [kind |-> "automation.updated", of |-> "none"] \in Changes /\ "thread" \in Writers
      BY DEF Changes, ChangeKinds, Writers
    <3> QED
      BY <2>4, <3>1 DEF UpdateRoutine, Change
  <2> QED
    BY <2>1, <2>2, <2>3, <2>4
<1>3. tx \in [Writers -> Transactions]
  BY <1>0 DEF AccessTypeOK
<1>4. /\ tx'[w].at = "changed" /\ tx'[w].what = what
      /\ \A v \in Writers \ {w} : tx'[v] = tx[v]
      /\ tx' \in [Writers -> Transactions]
  BY <1>2, <1>3, RecordTypes DEF Transactions
<1>5. AccessTypeOK'
  BY <1>0, <1>1, <1>4 DEF AccessTypeOK
<1>6. \A v \in Writers : Serial(v)'
  <2>1. Serial(w)'
    BY <1>0, <1>1, <1>2, <1>4 DEF Serial
  <2> QED
    BY <1>0, <1>1, <1>4, <2>1, SerialUnchanged
<1>7. \A v \in Writers : FreshChange(v)'
  <2>1. FreshChange(w)'
    BY <1>1, <1>2, <1>4 DEF FreshChange
  <2> QED
    BY <1>0, <1>1, <1>4, <2>1, FreshUnchanged
<1> QED
  BY <1>0, <1>1, <1>5, <1>6, <1>7, CodesUnchanged, LogUnchanged DEF AccessInvariant

(* The append takes the lock, and writes the record that continues the log. *)
LEMMA AppendSteps ==
  ASSUME AccessInvariant, NEW w \in Writers, AuditLocks(w) \/ AuditInserts(w)
  PROVE  AccessInvariant'
<1>0. /\ AccessTypeOK /\ CodesSpent /\ CodePairsOnce /\ AuditComplete
      /\ \A v \in Writers : Serial(v) /\ FreshChange(v)
      /\ w # "free"
  BY DEF AccessInvariant, Writers
<1>1. UNCHANGED <<code, dev, madeBy, hits, pairing, audit, conflicts, exits>>
  BY DEF AuditLocks, AuditInserts
<1>2. tx \in [Writers -> Transactions] /\ audit \in Seq(AuditRecords)
      /\ auditLock \in Writers \cup {"free"}
  BY <1>0 DEF AccessTypeOK
<1>3. tx[w] \in Transactions /\ tx[w].what \in Changes
  BY <1>2 DEF Transactions
<1>4. \A v \in Writers \ {w} : tx'[v] = tx[v]
  BY <1>2 DEF AuditLocks, AuditInserts
<1>5. tx'[w].what = tx[w].what /\ tx[w].at # "idle" /\ tx'[w].at # "idle"
  BY <1>2, <1>3 DEF AuditLocks, AuditInserts, Transactions
<1>6. tx' \in [Writers -> Transactions] /\ Serial(w)'
  <2>1. CASE AuditLocks(w)
    <3>1. tx'[w].at = "locked" /\ auditLock' = w
      BY <1>2, <1>3, <2>1 DEF AuditLocks, Transactions
    <3>2. tx' \in [Writers -> Transactions]
      BY <1>2, <1>3, <2>1 DEF AuditLocks, Transactions
    <3> QED
      BY <3>1, <3>2 DEF Serial
  <2>2. CASE AuditInserts(w)
    <3> DEFINE rec == [seq |-> Len(audit) + 1, what |-> tx[w].what, prev |-> LastHash,
                       hash |-> Hash(Len(audit) + 1, tx[w].what, LastHash)]
    <3>1. LastHash \in Hashes /\ Len(audit) + 1 \in Nat
      BY <1>2, LastHashType
    <3>2. Hash(Len(audit) + 1, tx[w].what, LastHash) \in Hashes
      BY <1>3, <3>1, HashType
    <3>3. rec \in AuditRecords
      BY <1>3, <3>1, <3>2 DEF AuditRecords
    <3>4. tx' = [tx EXCEPT ![w].at = "inserted", ![w].rec = rec]
      BY <2>2 DEF AuditInserts, LastHash
    <3>5. auditLock' = auditLock /\ tx[w].at = "locked"
      BY <2>2 DEF AuditInserts
    <3>6. tx'[w].at = "inserted" /\ tx'[w].rec = rec
      BY <1>2, <1>3, <3>4 DEF Transactions
    <3>7. tx' \in [Writers -> Transactions]
      BY <1>2, <1>3, <3>3, <3>4 DEF Transactions
    <3>8. /\ tx'[w].rec.seq = Len(audit') + 1 /\ tx'[w].rec.what = tx'[w].what
          /\ tx'[w].rec.prev = LastHash'
          /\ tx'[w].rec.hash = Hash(tx'[w].rec.seq, tx'[w].rec.what, tx'[w].rec.prev)
      BY <1>1, <1>5, <3>6 DEF LastHash
    <3>9. auditLock = w
      BY <1>0, <3>5 DEF Serial
    <3>10. Serial(w)'
      BY <3>5, <3>6, <3>8, <3>9 DEF Serial, Fits, Hash
    <3> QED
      BY <3>7, <3>10
  <2> QED
    BY <2>1, <2>2
<1>7. auditLock' \in {auditLock, w} /\ auditLock \in {w, "free"}
  BY <1>0 DEF AuditLocks, AuditInserts, Serial
<1>8. AccessTypeOK'
  BY <1>0, <1>1, <1>2, <1>6, <1>7 DEF AccessTypeOK
<1>9. ASSUME NEW v \in Writers \ {w} PROVE Serial(v)'
  <2>1. v # "free"
    BY DEF Writers
  <2> QED
    BY <1>0, <1>1, <1>4, <1>7, <2>1, SerialUnchanged
<1>10. \A v \in Writers : FreshChange(v)'
  <2>1. FreshChange(w)'
    BY <1>0, <1>1, <1>5 DEF FreshChange
  <2> QED
    BY <1>0, <1>1, <1>4, <2>1, FreshUnchanged
<1> QED
  BY <1>0, <1>1, <1>6, <1>8, <1>9, <1>10, CodesUnchanged, LogUnchanged DEF AccessInvariant

(* A log that is extended by a fitting record verifies, has what it had,   *)
(* and the new record's change once more.                                  *)
LEMMA ChainGrows ==
  ASSUME audit \in Seq(AuditRecords), NEW rec \in AuditRecords, Fits(rec, rec.what),
         audit' = Append(audit, rec), ChainVerifies
  PROVE  /\ ChainVerifies'
         /\ Len(audit') = Len(audit) + 1 /\ audit'[Len(audit) + 1] = rec
         /\ \A i \in 1..Len(audit) : audit'[i] = audit[i]
<1>1. /\ Len(audit) \in Nat /\ Len(audit') = Len(audit) + 1
      /\ audit'[Len(audit) + 1] = rec
      /\ \A i \in 1..Len(audit) : audit'[i] = audit[i]
  OBVIOUS
<1>2. SUFFICES ASSUME NEW i \in 1..Len(audit')
               PROVE  /\ audit'[i].seq = i
                      /\ audit'[i].prev = (IF i = 1 THEN Genesis ELSE audit'[i - 1].hash)
                      /\ audit'[i].hash = Hash(audit'[i].seq, audit'[i].what, audit'[i].prev)
  BY <1>1 DEF ChainVerifies
<1>3. CASE i = Len(audit) + 1
  <2>1. i = 1 <=> Len(audit) = 0
    BY <1>1, <1>3
  <2>2. Len(audit) # 0 => audit'[i - 1] = audit[Len(audit)]
    BY <1>1, <1>3
  <2> QED
    BY <1>1, <1>3, <2>1, <2>2 DEF Fits, LastHash
<1>4. CASE i \in 1..Len(audit)
  <2>1. audit'[i] = audit[i] /\ (i # 1 => audit'[i - 1] = audit[i - 1])
    BY <1>1, <1>4
  <2> QED
    BY <1>4, <2>1 DEF ChainVerifies
<1> QED
  BY <1>1, <1>2, <1>3, <1>4

(* Commit: the change and its record, together. *)
LEMMA CommitStep ==
  ASSUME AccessInvariant, NEW w \in Writers, AuditCommits(w)
  PROVE  AccessInvariant'
<1> DEFINE what == tx[w].what
           rec == tx[w].rec
           d == what.of
<1>0. /\ AccessTypeOK /\ CodesSpent /\ CodePairsOnce /\ AuditComplete
      /\ \A v \in Writers : Serial(v) /\ FreshChange(v)
      /\ w # "free"
  BY DEF AccessInvariant, Writers
<1>1. /\ tx \in [Writers -> Transactions] /\ audit \in Seq(AuditRecords)
      /\ auditLock \in Writers \cup {"free"}
      /\ dev \in [Devices -> {"none", "active", "revoked"}]
      /\ madeBy \in [Devices -> Codes \cup {"none", "token"}]
      /\ pairing \in Codes \cup {"none"}
  BY <1>0 DEF AccessTypeOK
<1>2. what \in Changes /\ rec \in AuditRecords /\ what.kind \in ChangeKinds
  BY <1>1 DEF Transactions, Changes
<1>3. tx[w].at = "inserted" /\ auditLock = w /\ Fits(rec, what) /\ rec.what = what
  BY <1>0 DEF AuditCommits, Serial, Fits
<1>4. rec.seq = Len(audit) + 1
  BY <1>3 DEF Fits
<1>5. /\ audit' = Append(audit, rec) /\ dev' = DevicesAfter(what)
      /\ UNCHANGED <<conflicts, code, hits, exits>>
      /\ madeBy' = IF what.kind = "device.create"
                     THEN [madeBy EXCEPT ![d] = IF pairing = "none" THEN "token" ELSE pairing]
                     ELSE madeBy
      /\ tx' = [tx EXCEPT ![w] = NoTx]
      /\ auditLock' = "free"
      /\ pairing' = IF w = "loop" THEN "none" ELSE pairing
  BY <1>3, <1>4 DEF AuditCommits
<1>6. /\ w = "thread" => what.kind = "automation.updated"
      /\ what.kind = "device.create" => d \in Devices /\ dev[d] = "none"
      /\ what.kind = "device.revoke" => d \in Devices /\ dev[d] = "active"
  BY <1>0, <1>3 DEF FreshChange
<1>7. AccessTypeOK'
  <2>1. tx' \in [Writers -> Transactions] /\ audit' \in Seq(AuditRecords)
    BY <1>1, <1>2, <1>5, RecordTypes
  <2>2. dev' \in [Devices -> {"none", "active", "revoked"}]
    BY <1>1, <1>5, <1>6 DEF DevicesAfter
  <2>3. madeBy' \in [Devices -> Codes \cup {"none", "token"}] /\ pairing' \in Codes \cup {"none"}
    BY <1>1, <1>5, <1>6
  <2> QED
    BY <1>0, <1>5, <2>1, <2>2, <2>3 DEF AccessTypeOK
<1>8. \A v \in Writers : Serial(v)'
  <2>1. Serial(w)'
    BY <1>0, <1>1, <1>5 DEF Serial, NoTx
  <2>2. ASSUME NEW v \in Writers \ {w} PROVE Serial(v)'
    <3>1. tx'[v] = tx[v] /\ v # "free" /\ tx[v].at \notin {"locked", "inserted"}
      BY <1>0, <1>1, <1>3, <1>5 DEF Serial, Writers
    <3> QED
      BY <1>5, <3>1 DEF Serial
  <2> QED
    BY <2>1, <2>2
<1>9. \A v \in Writers : FreshChange(v)'
  <2>1. FreshChange(w)'
    BY <1>1, <1>5 DEF FreshChange, NoTx
  <2>2. ASSUME NEW v \in Writers \ {w} PROVE FreshChange(v)'
    <3>1. tx'[v] = tx[v]
      BY <1>1, <1>5
    <3>2. CASE v = "thread"
      BY <1>0, <3>1, <3>2 DEF FreshChange
    <3>3. CASE v = "loop"
      <4>1. w = "thread"
        BY <3>3 DEF Writers
      <4>2. dev' = dev
        BY <1>5, <1>6, <4>1 DEF DevicesAfter
      <4> QED
        BY <1>0, <3>1, <4>2, FreshUnchanged
    <3> QED
      BY <3>2, <3>3 DEF Writers
  <2> QED
    BY <2>1, <2>2
<1>10. CodesSpent' /\ CodePairsOnce'
  <2>1. Codes \cap {"none", "token"} = {}
    BY AccessAssumption
  <2>2. CASE what.kind = "device.create"
    <3>1. w = "loop" /\ pairing' = "none" /\ d \in Devices
      BY <1>5, <1>6, <2>2 DEF Writers
    <3>2. madeBy'[d] \in Codes => madeBy'[d] = pairing
      BY <1>1, <1>5, <2>1, <2>2, <3>1
    <3>3. \A e \in Devices \ {d} : madeBy'[e] = madeBy[e]
      BY <1>1, <1>5, <2>2
    <3>4. \A e \in Devices \ {d} : madeBy[e] \in Codes => madeBy[e] # pairing
      BY <1>0 DEF CodesSpent
    <3>5. CodesSpent'
      BY <1>0, <1>5, <2>1, <3>1, <3>2, <3>3 DEF CodesSpent
    <3>6. CodePairsOnce'
      BY <1>0, <3>2, <3>3, <3>4 DEF CodePairsOnce
    <3> QED
      BY <3>5, <3>6
  <2>3. CASE what.kind # "device.create"
    BY <1>0, <1>5, <2>1, <2>3 DEF CodesSpent, CodePairsOnce
  <2> QED
    BY <2>2, <2>3
<1>11. AuditComplete'
  <2>1. conflicts' = {} /\ ChainVerifies
    BY <1>0, <1>5 DEF AuditComplete
  <2>2. /\ ChainVerifies'
        /\ Len(audit) \in Nat
        /\ Len(audit') = Len(audit) + 1 /\ audit'[Len(audit) + 1] = rec
        /\ \A i \in 1..Len(audit) : audit'[i] = audit[i]
    BY <1>1, <1>2, <1>3, <1>5, <2>1, ChainGrows
  <2>3. ASSUME NEW kind, NEW e, ~(what.kind = kind /\ what.of = e)
        PROVE  /\ Unrecorded(kind, e) => Unrecorded(kind, e)'
               /\ RecordedOnce(kind, e) => RecordedOnce(kind, e)'
    <3>1. \A i \in 1..Len(audit') :
            audit'[i].what.kind = kind /\ audit'[i].what.of = e
              => i \in 1..Len(audit) /\ audit'[i] = audit[i]
      BY <1>3, <2>2, <2>3
    <3>2. 1..Len(audit) \subseteq 1..Len(audit')
      BY <2>2
    <3> QED
      BY <2>2, <3>1, <3>2 DEF Unrecorded, RecordedOnce
  <2>4. ASSUME NEW kind, NEW e, what.kind = kind, what.of = e, Unrecorded(kind, e)
        PROVE  RecordedOnce(kind, e)'
    <3>1. Len(audit) + 1 \in 1..Len(audit')
      BY <2>2
    <3>2. audit'[Len(audit) + 1].what.kind = kind /\ audit'[Len(audit) + 1].what.of = e
      BY <1>3, <2>2, <2>4
    <3>3. \A j \in 1..Len(audit') : j = Len(audit) + 1 \/ j \in 1..Len(audit)
      BY <2>2
    <3>4. \A j \in 1..Len(audit') :
            audit'[j].what.kind = kind /\ audit'[j].what.of = e => j = Len(audit) + 1
      BY <2>2, <2>4, <3>3 DEF Unrecorded
    <3> QED
      BY <3>1, <3>2, <3>4 DEF RecordedOnce
  <2>5. SUFFICES ASSUME NEW e \in Devices
                 PROVE  /\ IF dev'[e] = "none" THEN Unrecorded("device.create", e)'
                                               ELSE RecordedOnce("device.create", e)'
                        /\ IF dev'[e] = "revoked" THEN RecordedOnce("device.revoke", e)'
                                                  ELSE Unrecorded("device.revoke", e)'
    BY <2>1, <2>2 DEF AuditComplete
  <2>6. /\ IF dev[e] = "none" THEN Unrecorded("device.create", e)
                              ELSE RecordedOnce("device.create", e)
        /\ IF dev[e] = "revoked" THEN RecordedOnce("device.revoke", e)
                                 ELSE Unrecorded("device.revoke", e)
    BY <1>0 DEF AuditComplete
  <2>7. CASE what.kind = "device.create" /\ e = d
    <3>1. dev[e] = "none" /\ dev'[e] = "active"
      BY <1>1, <1>5, <1>6, <2>7 DEF DevicesAfter
    <3> QED
      BY <2>3, <2>4, <2>6, <2>7, <3>1
  <2>8. CASE what.kind = "device.revoke" /\ e = d
    <3>1. dev[e] = "active" /\ dev'[e] = "revoked"
      BY <1>1, <1>5, <1>6, <2>8 DEF DevicesAfter
    <3> QED
      BY <2>3, <2>4, <2>6, <2>8, <3>1
  <2>9. CASE ~(what.kind \in {"device.create", "device.revoke"} /\ e = d)
    <3>1. dev'[e] = dev[e]
      BY <1>1, <1>5, <2>9 DEF DevicesAfter
    <3> QED
      BY <2>3, <2>6, <2>9, <3>1
  <2> QED
    BY <2>7, <2>8, <2>9
<1> QED
  BY <1>7, <1>8, <1>9, <1>10, <1>11 DEF AccessInvariant

(* Transactions roll back: what was not committed is in no table. *)
LEMMA ExitStep ==
  ASSUME AccessInvariant, HostExits
  PROVE  AccessInvariant'
<1>0. AccessTypeOK /\ CodesSpent /\ CodePairsOnce /\ AuditComplete
  BY DEF AccessInvariant
<1>1. AccessTypeOK'
  <2>1. exits' \in 0..MaxExits /\ hits' \in 0..PairLimit
    BY <1>0, AccessAssumption DEF AccessTypeOK, HostExits
  <2>2. tx' \in [Writers -> Transactions]
    BY RecordTypes DEF HostExits
  <2> QED
    BY <1>0, <2>1, <2>2 DEF AccessTypeOK, HostExits
<1>2. \A v \in Writers : Serial(v)' /\ FreshChange(v)'
  BY DEF HostExits, Serial, FreshChange, NoTx, Writers
<1>3. CodesSpent' /\ CodePairsOnce'
  BY <1>0, AccessAssumption DEF HostExits, CodesSpent, CodePairsOnce
<1>4. AuditComplete'
  BY <1>0, LogUnchanged DEF HostExits
<1> QED
  BY <1>1, <1>2, <1>3, <1>4 DEF AccessInvariant

(* Every step keeps the invariant: by the kinds of steps above. *)
LEMMA AccessStepOK == AccessInvariant /\ [AccessNext]_accessVars => AccessInvariant'
<1> SUFFICES ASSUME AccessInvariant, [AccessNext]_accessVars PROVE AccessInvariant'
  OBVIOUS
<1>1. CASE \/ \E c \in Codes : CreatePairingCode(c) \/ CodeExpires(c) \/ Pair(c)
           \/ WindowPasses \/ CreateFails
  BY <1>1, CodeSteps
<1>2. CASE \/ \E d \in Devices : CreateDevice(d) \/ RevokeDevice(d)
           \/ SaveGrant \/ UpdateRoutine
  BY <1>2, ChangeSteps
<1>3. CASE \E w \in Writers : AuditLocks(w) \/ AuditInserts(w)
  BY <1>3, AppendSteps
<1>4. CASE \E w \in Writers : AuditCommits(w)
  BY <1>4, CommitStep
<1>5. CASE HostExits
  BY <1>5, ExitStep
<1>6. CASE UNCHANGED accessVars
  <2>1. AccessTypeOK' /\ \A w \in Writers : Serial(w)' /\ FreshChange(w)'
    BY <1>6 DEF AccessInvariant, AccessTypeOK, Serial, Fits, LastHash, FreshChange, accessVars
  <2> QED
    BY <1>6, <2>1, CodesUnchanged, LogUnchanged DEF AccessInvariant, accessVars
<1> QED
  BY <1>1, <1>2, <1>3, <1>4, <1>5, <1>6 DEF AccessNext

(* The invariant holds in every reachable state. *)
THEOREM AccessInvariantHolds == AccessSpec => []AccessInvariant
<1>1. AccessInit => AccessInvariant
  BY AccessInitOK
<1>2. AccessInvariant /\ [AccessNext]_accessVars => AccessInvariant'
  BY AccessStepOK
<1> QED
  BY <1>1, <1>2, PTL DEF AccessSpec

(* The audit log says what happened to every device, and its chain         *)
(* verifies, whoever writes at the same time and whenever the host exits.  *)
THEOREM AuditCompleteHolds == AccessSpec => []AuditComplete
<1>1. AccessInvariant => AuditComplete
  BY DEF AccessInvariant
<1> QED
  BY <1>1, AccessInvariantHolds, PTL

(* A pairing code makes one device, over retries, failures and exits. *)
THEOREM CodePairsOnceHolds == AccessSpec => []CodePairsOnce
<1>1. AccessInvariant => CodePairsOnce
  BY DEF AccessInvariant
<1> QED
  BY <1>1, AccessInvariantHolds, PTL
=============================================================================
