---------------------------- MODULE Connections ----------------------------
(***************************************************************************)
(* The owner's connections to apps: one row each, with a link at the       *)
(* remote broker that holds the login.                                     *)
(*                                                                         *)
(* The panel's handlers run one at a time on the event loop, the bots'     *)
(* connect_app in tool threads; each looks in the database, calls the      *)
(* broker and writes what it found out, a step each.                       *)
(***************************************************************************)
EXTENDS Integers, Sequences, FiniteSets

CONSTANTS Apps, NoAuthApps, MaxConnections, MaxLinks

ASSUME ConnectionsAssumption ==
  NoAuthApps \subseteq Apps /\ MaxConnections \in Nat /\ MaxLinks \in Nat

VARIABLES
  hasKey,   \* connection_key has a row
  conns,    \* connections: [app, status, link]; "deleted" is no row
  links,    \* the broker's links: "pending" until the owner signs in
  linking   \* what the panel and the tool thread are doing

connectionVars == <<hasKey, conns, links, linking>>

LinkCallers == {"panel", "tool"}
NotLinking == [pc |-> "idle", app |-> "none", row |-> 0, link |-> 0, status |-> "none"]
NoLink == 0   \* "none_" + slug, of an app without a login

ConnectionsInit ==
  /\ hasKey = FALSE /\ conns = <<>> /\ links = <<>>
  /\ linking = [c \in LinkCallers |-> NotLinking]

LiveFor(app) ==
  {i \in DOMAIN conns : conns[i].app = app /\ conns[i].status \in {"pending", "connected"}}
LinksOn(c, pc) == linking[c].pc = pc
LinkingGoes(c, rec) == linking' = [linking EXCEPT ![c] = rec]
LinkingEnds(c) == LinkingGoes(c, NotLinking)

----------------------------------------------------------------------------
(* The key: pasted (over an older one, whose rows stay), or removed with
   every row.  What the broker holds is not told. *)
SaveConnectionKey ==
  /\ LinksOn("panel", "idle") /\ ~hasKey
  /\ hasKey' = TRUE
  /\ UNCHANGED <<conns, links, linking>>

ClearConnectionKey ==
  /\ LinksOn("panel", "idle") /\ hasKey
  /\ hasKey' = FALSE
  /\ conns' = [i \in DOMAIN conns |-> [conns[i] EXCEPT !.status = "deleted"]]
  /\ UNCHANGED <<links, linking>>

----------------------------------------------------------------------------
(* The panel's begin and a bot's connect_app: an app with a live row is
   refused. *)
StartLink(c, app) ==
  /\ LinksOn(c, "idle") /\ hasKey /\ LiveFor(app) = {}
  /\ LinkingGoes(c, [NotLinking EXCEPT !.pc = "begin", !.app = app])
  /\ UNCHANGED <<hasKey, conns, links>>

BeginConnection(app) == StartLink("panel", app)
ConnectApp(app) == StartLink("tool", app)

(* The broker's begin: no login needed, a new link to sign in on, or an
   error. *)
BrokerBegin(c) ==
  /\ LinksOn(c, "begin")
  /\ \/ /\ linking[c].app \in NoAuthApps
        /\ LinkingGoes(c, [linking[c] EXCEPT !.pc = "insert", !.status = "connected"])
        /\ UNCHANGED links
     \/ /\ linking[c].app \notin NoAuthApps /\ Len(links) < MaxLinks
        /\ links' = Append(links, "pending")
        /\ LinkingGoes(c, [linking[c] EXCEPT !.pc = "insert", !.status = "pending",
                                             !.link = Len(links) + 1])
     \/ LinkingEnds(c) /\ UNCHANGED links
  /\ UNCHANGED <<hasKey, conns>>

(* Mutant: no unique index. *)
IndexDropped(app, row) == TRUE

(* connections_active_provider: a row may be live while no other row of its
   app is. *)
IndexAllows(app, row) == LiveFor(app) \subseteq {row}

(* The row, unless somebody else's came first: then the call fails, and the
   link it made has no row. *)
InsertConnection(c) ==
  /\ LinksOn(c, "insert") /\ Len(conns) < MaxConnections
  /\ conns' = IF IndexAllows(linking[c].app, Len(conns) + 1)
              THEN Append(conns, [app |-> linking[c].app, status |-> linking[c].status,
                                  link |-> linking[c].link])
              ELSE conns
  /\ LinkingEnds(c)
  /\ UNCHANGED <<hasKey, links>>

----------------------------------------------------------------------------
(* The owner signs in at the app. *)
Authorize(l) ==
  /\ links[l] = "pending"
  /\ links' = [links EXCEPT ![l] = "active"]
  /\ UNCHANGED <<hasKey, conns, linking>>

(* complete_connection, of a row in any status. *)
CompleteConnection(i) ==
  /\ LinksOn("panel", "idle") /\ hasKey /\ conns[i].status # "deleted"
  /\ LinkingGoes("panel", [NotLinking EXCEPT !.pc = "complete", !.app = conns[i].app,
                                             !.row = i, !.link = conns[i].link])
  /\ UNCHANGED <<hasKey, conns, links>>

(* The broker's complete: connected once the owner has signed in, or where no
   login is needed; pending before, and after a revocation. *)
BrokerComplete ==
  LET l == linking["panel"].link
      status == IF l = NoLink \/ links[l] = "active" THEN "connected" ELSE "pending"
  IN /\ LinksOn("panel", "complete")
     /\ \/ LinkingGoes("panel", [linking["panel"] EXCEPT !.pc = "update", !.status = status])
        \/ LinkingEnds("panel")
     /\ UNCHANGED <<hasKey, conns, links>>

RevokeConnection(i) ==
  /\ LinksOn("panel", "idle") /\ hasKey /\ conns[i].status # "deleted"
  /\ LinkingGoes("panel", [NotLinking EXCEPT !.pc = "revoke", !.app = conns[i].app,
                                             !.row = i, !.link = conns[i].link])
  /\ UNCHANGED <<hasKey, conns, links>>

(* The broker's revoke, whose failure nobody looks at. *)
BrokerRevoke ==
  LET l == linking["panel"].link
  IN /\ LinksOn("panel", "revoke")
     /\ links' \in {links} \cup (IF l = NoLink THEN {} ELSE {[links EXCEPT ![l] = "revoked"]})
     /\ LinkingGoes("panel", [linking["panel"] EXCEPT !.pc = "update", !.status = "revoked"])
     /\ UNCHANGED <<hasKey, conns>>

(* update_connection by id: whatever the row's status was, unless the index
   refuses. *)
UpdateConnection ==
  LET i == linking["panel"].row
      status == linking["panel"].status
  IN /\ LinksOn("panel", "update")
     /\ conns' = IF status = "revoked" \/ IndexAllows(conns[i].app, i)
                 THEN [conns EXCEPT ![i].status = status] ELSE conns
     /\ LinkingEnds("panel")
     /\ UNCHANGED <<hasKey, links>>

(* The process exits in the middle of the calls. *)
ConnectionsExit ==
  /\ \E c \in LinkCallers : ~LinksOn(c, "idle")
  /\ linking' = [c \in LinkCallers |-> NotLinking]
  /\ UNCHANGED <<hasKey, conns, links>>

ConnectionsNext ==
  \/ SaveConnectionKey \/ ClearConnectionKey
  \/ \E app \in Apps : BeginConnection(app) \/ ConnectApp(app)
  \/ \E c \in LinkCallers : BrokerBegin(c) \/ InsertConnection(c)
  \/ \E l \in DOMAIN links : Authorize(l)
  \/ \E i \in DOMAIN conns : CompleteConnection(i) \/ RevokeConnection(i)
  \/ BrokerComplete \/ BrokerRevoke \/ UpdateConnection
  \/ ConnectionsExit

ConnectionsSpec == ConnectionsInit /\ [][ConnectionsNext]_connectionVars

----------------------------------------------------------------------------
ConnectionsTypeOK ==
  /\ hasKey \in BOOLEAN
  /\ conns \in Seq([app : Apps, status : {"pending", "connected", "revoked", "deleted"},
                    link : Nat])
  /\ \A i \in DOMAIN conns : conns[i].link <= Len(links)
  /\ links \in Seq({"pending", "active", "revoked"})
  /\ linking \in [LinkCallers ->
       [pc : {"idle", "begin", "insert", "complete", "revoke", "update"},
        app : Apps \cup {"none"}, row : Nat, link : Nat,
        status : {"none", "pending", "connected", "revoked"}]]

(* Why: whoever is past its check has an app, a status to write, a link the
   broker knows and, for a row it read, that row still. *)
LinkFacts ==
  \A c \in LinkCallers :
    /\ ~LinksOn(c, "idle") => linking[c].app \in Apps
    /\ linking[c].link <= Len(links)
    /\ linking[c].pc \in {"insert", "update"} => linking[c].status # "none"
    /\ linking[c].pc \in {"complete", "revoke", "update"} =>
         linking[c].row \in DOMAIN conns /\ conns[linking[c].row].app = linking[c].app

(* An app has one live connection, so that a tool's name leads to one login
   (connection_for_tool), although the panel and a bot connect the same app at
   once and Finish is pressed on a row that was revoked and replaced. *)
OneLinkPerApp == \A app \in Apps : Cardinality(LiveFor(app)) <= 1
=============================================================================
