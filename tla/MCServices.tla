----------------------------- MODULE MCServices -----------------------------
(***************************************************************************)
(* The parts of the host that share no state with the turns and none with  *)
(* one another, in one run: a behaviour takes the steps of one part, the   *)
(* others stay where they are.  A part that has several initial states has *)
(* one of them while another part moves.                                   *)
(***************************************************************************)
EXTENDS Events, Migrations, Access, Credentials, Memory, Recovery, Bridge,
        Contexts, Connections, Desktops, Search, Roster, SqlSplit, Uploads, TLC

CONSTANTS
  Parts,           \* the parts that move
  m1, m2, k1, k2   \* what the sets of the parts are made of

VARIABLE part    \* the one that does

servicesVars ==
  <<part, eventVars, migVars, accessVars, credVars, memVars, recoveryVars,
    bridgeVars, ctxVars, connectionVars, desktopVars, searchVars,
    rosterVars, sqlVars, uploadVars>>

ServicesInit ==
  /\ part \in Parts
  /\ EventsInit
  /\ part # "events" => client.mode = "seq"
  /\ \/ part = "migrations" /\ MigrationsInit
     \/ part # "migrations"
        /\ mig = [p \in Boots |-> NotBooted] /\ migLock = "free"
        /\ schema = [f \in 1..MaxFiles |-> "none"] /\ migExits = 0
  /\ AccessInit
  /\ \/ part = "credentials" /\ CredentialsInit
     \/ part # "credentials"
        /\ legacy = [p \in Providers |-> "none"] /\ vault = NoRows /\ move = NoMove
        /\ api = FALSE /\ cmd = NoCmd /\ paste = [p \in Providers |-> "none"]
        /\ saves = 0 /\ meant = legacy /\ credExits = 0
  /\ MemoryInit
  /\ \/ part = "recovery" /\ RecoveryInit
     \/ part # "recovery"
        /\ left = [r \in Leftovers |-> "running"]
        /\ request = [r \in Leftovers |-> NoRequest]
        /\ question = [r \in Leftovers |-> "none"] /\ wait = [r \in Leftovers |-> NoWait]
        /\ card = [r \in Leftovers |-> "none"] /\ boot = Down
        /\ handler = NoLeftover /\ bootExits = 0
  /\ BridgeInit
  /\ ContextsInit
  /\ ConnectionsInit
  /\ \/ part = "desktops" /\ DesktopsInit
     \/ part # "desktops"
        /\ net = "none" /\ boxes = <<>> /\ creator = [c \in Creators |-> NoCreate]
        /\ reboots = 0
  /\ \/ part = "search" /\ SearchInit
     \/ part # "search"
        /\ rows = [s \in Sources |-> NoResource] /\ found = [s \in Sources |-> Missing]
        /\ rebuild = [state |-> "queued", at |-> "bots", after |-> 0, owner |-> "none",
                      attempts |-> 0]
        /\ chunk = [w \in Indexers |-> NotRebuilding] /\ edits = 0
  /\ RosterInit
  /\ \/ part = "sql" /\ SqlSplitInit
     \/ part # "sql"
        /\ tokens = <<>> /\ pos = 1 /\ bufStart = 1 /\ emitted = <<>>
        /\ lexer = [state |-> "code", depth |-> 0, tag |-> <<>>]
  /\ UploadsInit

ServicesNext ==
  \/ /\ part = "events" /\ EventsNext
     /\ UNCHANGED <<part, migVars, accessVars, credVars, memVars, recoveryVars, bridgeVars,
                    ctxVars, connectionVars, desktopVars, searchVars, rosterVars, sqlVars,
                    uploadVars>>
  \/ /\ part = "migrations" /\ MigrationsNext
     /\ UNCHANGED <<part, eventVars, accessVars, credVars, memVars, recoveryVars, bridgeVars,
                    ctxVars, connectionVars, desktopVars, searchVars, rosterVars, sqlVars,
                    uploadVars>>
  \/ /\ part = "access" /\ AccessNext
     /\ UNCHANGED <<part, eventVars, migVars, credVars, memVars, recoveryVars, bridgeVars,
                    ctxVars, connectionVars, desktopVars, searchVars, rosterVars, sqlVars,
                    uploadVars>>
  \/ /\ part = "credentials" /\ CredentialsNext
     /\ UNCHANGED <<part, eventVars, migVars, accessVars, memVars, recoveryVars, bridgeVars,
                    ctxVars, connectionVars, desktopVars, searchVars, rosterVars, sqlVars,
                    uploadVars>>
  \/ /\ part = "memory" /\ MemoryNext
     /\ UNCHANGED <<part, eventVars, migVars, accessVars, credVars, recoveryVars, bridgeVars,
                    ctxVars, connectionVars, desktopVars, searchVars, rosterVars, sqlVars,
                    uploadVars>>
  \/ /\ part = "recovery" /\ RecoveryNext
     /\ UNCHANGED <<part, eventVars, migVars, accessVars, credVars, memVars, bridgeVars, ctxVars,
                    connectionVars, desktopVars, searchVars, rosterVars, sqlVars, uploadVars>>
  \/ /\ part = "bridge" /\ BridgeNext
     /\ UNCHANGED <<part, eventVars, migVars, accessVars, credVars, memVars, recoveryVars,
                    ctxVars, connectionVars, desktopVars, searchVars, rosterVars, sqlVars,
                    uploadVars>>
  \/ /\ part = "contexts" /\ ContextsNext
     /\ UNCHANGED <<part, eventVars, migVars, accessVars, credVars, memVars, recoveryVars,
                    bridgeVars, connectionVars, desktopVars, searchVars, rosterVars, sqlVars,
                    uploadVars>>
  \/ /\ part = "connections" /\ ConnectionsNext
     /\ UNCHANGED <<part, eventVars, migVars, accessVars, credVars, memVars, recoveryVars,
                    bridgeVars, ctxVars, desktopVars, searchVars, rosterVars, sqlVars, uploadVars>>
  \/ /\ part = "desktops" /\ DesktopsNext
     /\ UNCHANGED <<part, eventVars, migVars, accessVars, credVars, memVars, recoveryVars,
                    bridgeVars, ctxVars, connectionVars, searchVars, rosterVars, sqlVars,
                    uploadVars>>
  \/ /\ part = "search" /\ SearchNext
     /\ UNCHANGED <<part, eventVars, migVars, accessVars, credVars, memVars, recoveryVars,
                    bridgeVars, ctxVars, connectionVars, desktopVars, rosterVars, sqlVars,
                    uploadVars>>
  \/ /\ part = "roster" /\ RosterNext
     /\ UNCHANGED <<part, eventVars, migVars, accessVars, credVars, memVars, recoveryVars,
                    bridgeVars, ctxVars, connectionVars, desktopVars, searchVars, sqlVars,
                    uploadVars>>
  \/ /\ part = "sql" /\ SqlSplitNext
     /\ UNCHANGED <<part, eventVars, migVars, accessVars, credVars, memVars, recoveryVars,
                    bridgeVars, ctxVars, connectionVars, desktopVars, searchVars, rosterVars,
                    uploadVars>>
  \/ /\ part = "uploads" /\ UploadsNext
     /\ UNCHANGED <<part, eventVars, migVars, accessVars, credVars, memVars, recoveryVars,
                    bridgeVars, ctxVars, connectionVars, desktopVars, searchVars, rosterVars,
                    sqlVars>>

ServicesSpec == ServicesInit /\ [][ServicesNext]_servicesVars

(* The state of every part is of its type. *)
ServicesTypeOK ==
  /\ EventsTypeOK /\ MigrationsTypeOK /\ AccessTypeOK
  /\ CredentialsTypeOK /\ MemoryTypeOK /\ RecoveryTypeOK
  /\ BridgeTypeOK /\ ContextsTypeOK /\ ConnectionsTypeOK
  /\ DesktopsTypeOK /\ SearchTypeOK /\ RosterTypeOK
  /\ SqlSplitTypeOK /\ UploadsTypeOK

ServicesSym == Permutations({m1, m2}) \cup Permutations({k1, k2})
=============================================================================
