------------------------------- MODULE Roster -------------------------------
(***************************************************************************)
(* The bots and what hangs on them: the Team computer they share or one of *)
(* their own, the home on the host's disk, the desktop container, the      *)
(* secrets in the broker.                                                  *)
(*                                                                         *)
(* The host's handlers run one at a time on the event loop; every          *)
(* transaction and every call to another process is a step of them, so     *)
(* that the host may exit in between.  Tool threads run beside them with   *)
(* the bot as it was when their turn began.                                *)
(***************************************************************************)
EXTENDS Integers, FiniteSets

CONSTANTS
  RosterBots,
  MaxTools,        \* bound: tool threads at a time
  MaxDisturbances  \* bound: changes of mode and exits of the host

ASSUME RosterAssumption ==
  MaxTools \in Nat /\ MaxDisturbances \in Nat /\ "team" \notin RosterBots

VARIABLES
  roster,     \* bots: [state, mode, computer], the computer by its home
  computers,  \* per home its row: "none", "new", or "ref" when it knows a container
  desktop,    \* per home, whether the supervisor has a container for it
  files,      \* per home, whether there is anything on disk
  secret,     \* per bot, whether the broker holds secrets of it
  host,       \* the handler at work: [pc, bot]
  tool,       \* per bot its tool thread: [pc, mode, row], the row it read, if that is still there
  since,      \* bots a tool has attached since remove_bot counted
  disturbed   \* changes of mode and exits of the host so far

rosterVars == <<roster, computers, desktop, files, secret, host, tool, since, disturbed>>

HomeKeys == RosterBots \cup {"team"}
HomeOf(b, mode) == IF mode = "dedicated" THEN b ELSE "team"
Idle == [pc |-> "idle", bot |-> "none"]
NoTool == [pc |-> "idle", mode |-> "team", row |-> FALSE]

RosterInit ==
  /\ roster = [b \in RosterBots |-> [state |-> "none", mode |-> "team", computer |-> "none"]]
  /\ computers = [h \in HomeKeys |-> "none"]
  /\ desktop = [h \in HomeKeys |-> FALSE] /\ files = [h \in HomeKeys |-> FALSE]
  /\ secret = [b \in RosterBots |-> FALSE]
  /\ host = Idle /\ tool = [b \in RosterBots |-> NoTool]
  /\ since = {} /\ disturbed = 0

HasRow(b) == roster[b].state \in {"live", "archived"}
Users(h) == {b \in RosterBots : HasRow(b) /\ roster[b].computer = h}
HostAt(pc, b) == host = [pc |-> pc, bot |-> b]
HostGoes(pc, b) == host' = [pc |-> pc, bot |-> b]

(* Rows have new ids each time: one that is deleted is never found again. *)
DeleteComputers(homes) ==
  /\ computers' = [h \in HomeKeys |-> IF h \in homes THEN "none" ELSE computers[h]]
  /\ tool' = [b \in RosterBots |-> IF HomeOf(b, tool[b].mode) \in homes
                                   THEN [tool[b] EXCEPT !.row = FALSE] ELSE tool[b]]

(* ensure_computer: the row of the mode's home, made when it is missing, and
   the bot on it, when the bot has a row. *)
EnsureComputer(b, mode) ==
  LET h == HomeOf(b, mode)
  IN /\ computers' = IF computers[h] = "none" THEN [computers EXCEPT ![h] = "new"] ELSE computers
     /\ roster' = IF HasRow(b) THEN [roster EXCEPT ![b].computer = h] ELSE roster

----------------------------------------------------------------------------
(* create_bot, and a change of mode by PATCH or in the computer panel: the
   bot's row first, its computer in a transaction of its own. *)
CreateBot(b, mode) ==
  /\ host.pc = "idle" /\ roster[b].state = "none"
  /\ roster' = [roster EXCEPT ![b] = [state |-> "live", mode |-> mode, computer |-> "none"]]
  /\ HostGoes("attach", b)
  /\ UNCHANGED <<computers, desktop, files, secret, tool, since, disturbed>>

UpdateBot(b, mode) ==
  /\ host.pc = "idle" /\ HasRow(b) /\ mode # roster[b].mode
  /\ disturbed < MaxDisturbances /\ disturbed' = disturbed + 1
  /\ roster' = [roster EXCEPT ![b].mode = mode]
  /\ HostGoes("attach", b)
  /\ UNCHANGED <<computers, desktop, files, secret, tool, since>>

AttachComputer(b) ==
  /\ HostAt("attach", b)
  /\ EnsureComputer(b, roster[b].mode)
  /\ host' = Idle
  /\ UNCHANGED <<desktop, files, secret, tool, since, disturbed>>

ArchiveBot(b) ==
  /\ host.pc = "idle" /\ HasRow(b)
  /\ roster' = [roster EXCEPT ![b].state = IF @ = "live" THEN "archived" ELSE "live"]
  /\ UNCHANGED <<computers, desktop, files, secret, host, tool, since, disturbed>>

SaveSecret(b) ==
  /\ host.pc = "idle" /\ HasRow(b) /\ ~secret[b]
  /\ secret' = [secret EXCEPT ![b] = TRUE]
  /\ UNCHANGED <<roster, computers, desktop, files, host, tool, since, disturbed>>

----------------------------------------------------------------------------
(* remove_bot.  A broker that does not answer ends it, whatever the broker
   did; the turns are cancelled, which does not wait for their tool threads. *)
AfterForget(b, answered) == IF answered THEN [pc |-> "release", bot |-> b] ELSE Idle

RemoveForgets(b) ==
  /\ host.pc = "idle" /\ HasRow(b)
  /\ \E answered, forgotten \in BOOLEAN :
       /\ answered => forgotten
       /\ secret' = IF forgotten THEN [secret EXCEPT ![b] = FALSE] ELSE secret
       /\ host' = AfterForget(b, answered)
  /\ UNCHANGED <<roster, computers, desktop, files, tool, since, disturbed>>

(* Mutant: archived bots do not count. *)
OtherUsersLive(h, b) == {u \in Users(h) : roster[u].state = "live"} \ {b}

(* other_bots_using_computer: archived ones too. *)
OtherUsers(h, b) == Users(h) \ {b}

(* release_for_deleted_bot: the computer is looked up, and its users are
   counted. *)
RemoveReleases(b) ==
  /\ HostAt("release", b)
  /\ EnsureComputer(b, roster[b].mode)
  /\ HostGoes(IF OtherUsers(HomeOf(b, roster[b].mode), b) = {} THEN "destroy" ELSE "rows", b)
  /\ since' = {}
  /\ UNCHANGED <<desktop, files, secret, tool, disturbed>>

(* _destroy_box: the container, if the row knows it, then the home.  A
   supervisor that fails is logged. *)
DropDesktop(h) ==
  \/ UNCHANGED desktop
  \/ computers[h] = "ref" /\ desktop[h] /\ desktop' = [desktop EXCEPT ![h] = FALSE]

DestroyBox(h) == DropDesktop(h) /\ files' = [files EXCEPT ![h] = FALSE]

RemoveDestroys(b) ==
  LET h == HomeOf(b, roster[b].mode)
  IN /\ HostAt("destroy", b)
     /\ \/ DestroyBox(h) /\ computers' = [computers EXCEPT ![h] = "new"]
        \/ DropDesktop(h) /\ UNCHANGED <<files, computers>>
     /\ HostGoes("rows", b)
     /\ UNCHANGED <<roster, secret, tool, since, disturbed>>

(* delete_bot: with the bot's row go the rows of all computers nobody is on. *)
RemoveRows(b) ==
  /\ HostAt("rows", b)
  /\ roster' = [roster EXCEPT ![b].state = "deleted", ![b].computer = "none"]
  /\ DeleteComputers({h \in HomeKeys : Users(h) \subseteq {b}})
  /\ host' = Idle
  /\ UNCHANGED <<desktop, files, secret, since, disturbed>>

----------------------------------------------------------------------------
(* A tool thread boots the computer of its bot and works in its home: it
   looks the computer up, has it provisioned, which may fail, and saves the
   row, if the row is still there. *)
ToolBegins(b) ==
  /\ host.pc # "boot" /\ roster[b].state = "live" /\ tool[b].pc = "idle"
  /\ Cardinality({u \in RosterBots : tool[u].pc # "idle"}) < MaxTools
  /\ tool' = [tool EXCEPT ![b] = [NoTool EXCEPT !.pc = "turn", !.mode = roster[b].mode]]
  /\ UNCHANGED <<roster, computers, desktop, files, secret, host, since, disturbed>>

ToolAttaches(b) ==
  /\ tool[b].pc = "turn"
  /\ EnsureComputer(b, tool[b].mode)
  /\ tool' = [tool EXCEPT ![b].pc = "provision", ![b].row = TRUE]
  /\ since' = since \cup {b}
  /\ UNCHANGED <<desktop, files, secret, host, disturbed>>

ToolProvisions(b) ==
  LET h == HomeOf(b, tool[b].mode)
  IN /\ tool[b].pc = "provision"
     /\ desktop' = [desktop EXCEPT ![h] = TRUE]
     /\ files' = [files EXCEPT ![h] = TRUE]
     /\ tool' = [tool EXCEPT ![b].pc = "save"]
     /\ UNCHANGED <<roster, computers, secret, host, since, disturbed>>

ToolSaves(b) ==
  LET h == HomeOf(b, tool[b].mode)
  IN /\ tool[b].pc = "save"
     /\ computers' = IF tool[b].row THEN [computers EXCEPT ![h] = "ref"] ELSE computers
     /\ tool' = [tool EXCEPT ![b].pc = "turn", ![b].row = FALSE]
     /\ UNCHANGED <<roster, desktop, files, secret, host, since, disturbed>>

ToolProvisionFails(b) ==
  LET h == HomeOf(b, tool[b].mode)
  IN /\ tool[b].pc = "provision"
     /\ computers' = IF tool[b].row THEN [computers EXCEPT ![h] = "new"] ELSE computers
     /\ tool' = [tool EXCEPT ![b].pc = "turn", ![b].row = FALSE]
     /\ UNCHANGED <<roster, desktop, files, secret, host, since, disturbed>>

ToolEnds(b) ==
  /\ tool[b].pc = "turn"
  /\ tool' = [tool EXCEPT ![b] = NoTool]
  /\ UNCHANGED <<roster, computers, desktop, files, secret, host, since, disturbed>>

----------------------------------------------------------------------------
RosterHostExits ==
  /\ disturbed < MaxDisturbances /\ disturbed' = disturbed + 1
  /\ HostGoes("boot", "none") /\ tool' = [b \in RosterBots |-> NoTool]
  /\ UNCHANGED <<roster, computers, desktop, files, secret, since>>

(* reap_orphan_computers: the computers no bot is on are destroyed, with
   their homes. *)
ReapOrphan(h) ==
  /\ host.pc = "boot" /\ computers[h] # "none" /\ Users(h) = {}
  /\ DestroyBox(h)
  /\ DeleteComputers({h})
  /\ UNCHANGED <<roster, secret, host, since, disturbed>>

HostBooted ==
  /\ host.pc = "boot" /\ host' = Idle
  /\ UNCHANGED <<roster, computers, desktop, files, secret, tool, since, disturbed>>

RosterNext ==
  \/ \E b \in RosterBots :
       \/ \E mode \in {"team", "dedicated"} : CreateBot(b, mode) \/ UpdateBot(b, mode)
       \/ AttachComputer(b) \/ ArchiveBot(b) \/ SaveSecret(b)
       \/ RemoveForgets(b) \/ RemoveReleases(b) \/ RemoveDestroys(b) \/ RemoveRows(b)
       \/ ToolBegins(b) \/ ToolAttaches(b) \/ ToolProvisions(b) \/ ToolSaves(b)
       \/ ToolProvisionFails(b) \/ ToolEnds(b)
  \/ \E h \in HomeKeys : ReapOrphan(h)
  \/ RosterHostExits \/ HostBooted

RosterSpec == RosterInit /\ [][RosterNext]_rosterVars

----------------------------------------------------------------------------
RosterTypeOK ==
  /\ roster \in [RosterBots -> [state : {"none", "live", "archived", "deleted"},
                                mode : {"team", "dedicated"}, computer : HomeKeys \cup {"none"}]]
  /\ computers \in [HomeKeys -> {"none", "new", "ref"}]
  /\ host.bot \in RosterBots \cup {"none"}
  /\ \A b \in RosterBots : tool[b].row => computers[HomeOf(b, tool[b].mode)] # "none"

(* A bot whose deletion went through leaves no secret behind, although the
   broker may fail to answer and the host may exit in the middle. *)
DeletedLeavesNoSecret ==
  \A b \in RosterBots : roster[b].state = "deleted" => ~secret[b]

(* A home is wiped only when no other bot, archived ones included, is on its
   computer, but for one whose tool call came after remove_bot had counted. *)
OthersKeepHome ==
  [][\A h \in HomeKeys : files[h] /\ ~files'[h] => Users(h) \subseteq since \cup {host.bot}]_rosterVars

(* README: rebooting the host does not wipe a home.  Of a dedicated home this
   is not so once its bot has moved to the Team computer. *)
RestartKeepsHomes ==
  [][host.pc = "boot" => \A b \in RosterBots : HasRow(b) /\ files[b] => files'[b]]_rosterVars
=============================================================================
