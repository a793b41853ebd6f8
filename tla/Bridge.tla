------------------------------- MODULE Bridge -------------------------------
(***************************************************************************)
(* The Cursor bridge: the SDK process all turns of the host share, and its *)
(* replacement after a dead wait.                                          *)
(*                                                                         *)
(* A turn is inside the bridge between _enter_bridge and _leave_bridge; a  *)
(* turn whose wait died leaves, and either replaces the client when nobody *)
(* is inside or, when another turn has replaced it since, joins the new    *)
(* one.  The steps are what the event loop runs between two awaits.  Stop  *)
(* cancels a turn's task in any of its awaits; what the handlers of        *)
(* CancelledError leave behind is part of the model.                       *)
(***************************************************************************)
EXTENDS Integers, FiniteSets

CONSTANTS
  Streams,       \* turns, one stream each
  RecycleAfter   \* CURSOR_AUTH_RECYCLE_AFTER

ASSUME BridgeAssumption == IsFiniteSet(Streams) /\ RecycleAfter \in Nat \ {0}

VARIABLES
  users,      \* _bridge_users
  pending,    \* _bridge_restart_pending
  epoch,      \* _bridge_epoch
  sdk,     \* the SDK process: "open" or "closed"
  cached,     \* the sessions in _agents
  authFails,  \* _auth_fails
  sends,     \* per turn what stream() does
  closing     \* aclose at shutdown

bridgeVars == <<users, pending, epoch, sdk, cached, authFails, sends, closing>>

NewStream == [pc |-> "entering", epoch |-> 0, why |-> "none", restarted |-> FALSE, forced |-> FALSE]

BridgeInit ==
  /\ users = 0 /\ pending = FALSE /\ epoch = 0 /\ sdk = "open"
  /\ cached = {} /\ authFails = 0
  /\ sends = [t \in Streams |-> NewStream]
  /\ closing = "no"

InBridge == {"session", "sending", "release", "leaving"}
Inside == {t \in Streams : sends[t].pc \in InBridge \cup {"rejoin"}}

StreamAt(t, pc) == sends[t].pc = pc
StreamGoes(t, pc) == sends' = [sends EXCEPT ![t].pc = pc]

----------------------------------------------------------------------------
(* _enter_bridge waits while a restart is pending. *)
EnterBridge(t) ==
  /\ StreamAt(t, "entering") /\ ~pending
  /\ users' = users + 1
  /\ sends' = [sends EXCEPT ![t].pc = "session", ![t].epoch = epoch]
  /\ UNCHANGED <<pending, epoch, sdk, cached, authFails, closing>>

(* _ensure_session: the session in _agents, or one resumed or created by the
   client; the client may refuse. *)
EnsureSession(t) ==
  /\ StreamAt(t, "session")
  /\ \/ t \in cached /\ StreamGoes(t, "sending") /\ UNCHANGED cached
     \/ t \notin cached /\ sdk = "open" /\ StreamGoes(t, "sending") /\ cached' = cached \cup {t}
     \/ t \notin cached /\ StreamGoes(t, "leaving") /\ UNCHANGED cached
  /\ UNCHANGED <<users, pending, epoch, sdk, authFails, closing>>

(* The send is refused because a run is active: once more, with force. *)
AgentBusy(t) ==
  /\ StreamAt(t, "sending") /\ sdk = "open"
  /\ IF sends[t].forced THEN StreamGoes(t, "leaving")
     ELSE sends' = [sends EXCEPT ![t].forced = TRUE]
  /\ UNCHANGED <<users, pending, epoch, sdk, cached, authFails, closing>>

(* note_auth_failures: what an attempt that was not refused ends with. *)
NoteAuthFailures(outcome) ==
  CASE outcome = "completed" -> 0
    [] outcome = "dead" -> 0
    [] outcome = "auth" -> authFails + 1
    [] OTHER -> authFails
Recycles(outcome) == outcome = "dead" \/ (outcome = "auth" /\ authFails + 1 >= RecycleAfter)

(* An attempt: completed, failed, dead (an instant wait with nothing streamed),
   an instant authentication error, or an error of the SDK.  Dead and auth
   recycle the bridge once per stream; dead also sends again. *)
Attempt(t, outcome) ==
  LET recycle == Recycles(outcome) /\ ~sends[t].restarted
  IN /\ StreamAt(t, "sending") /\ (sdk = "closed" => outcome = "raised")
     /\ authFails' = IF outcome = "raised" THEN authFails ELSE NoteAuthFailures(outcome)
     /\ sends' = [sends EXCEPT ![t].pc = IF recycle THEN "release" ELSE "leaving",
                                 ![t].why = IF recycle THEN outcome ELSE "none"]
     /\ UNCHANGED <<users, pending, epoch, sdk, cached, closing>>

(* _release_cursor_run, then _leave_bridge: the turn waits outside. *)
ReleaseRun(t) ==
  /\ StreamAt(t, "release")
  /\ users' = users - 1
  /\ StreamGoes(t, "restart")
  /\ UNCHANGED <<pending, epoch, sdk, cached, authFails, closing>>

(* The end of stream(): the finally clause leaves the bridge. *)
LeaveBridge(t) ==
  /\ StreamAt(t, "leaving")
  /\ users' = users - 1
  /\ StreamGoes(t, "done")
  /\ UNCHANGED <<pending, epoch, sdk, cached, authFails, closing>>

----------------------------------------------------------------------------
(* _restart_bridge. *)

(* The turn's client is still the current one: it has to be replaced here. *)
SameClient(t) == sends[t].epoch = epoch

OwnRestart(t) ==
  /\ StreamAt(t, "restart") /\ ~pending /\ SameClient(t)
  /\ pending' = TRUE
  /\ StreamGoes(t, "drain")
  /\ UNCHANGED <<users, epoch, sdk, cached, authFails, closing>>

(* Another turn replaced it: join the new client, whatever is pending there.
   The loop wakes this turn before the turns on the new client get as far as
   their own dead wait. *)
JoinRestarted(t) ==
  /\ StreamAt(t, "restart") /\ ~SameClient(t)
  /\ users' = users + 1
  /\ sends' = [sends EXCEPT ![t].pc = "rejoin", ![t].epoch = epoch]
  /\ UNCHANGED <<pending, epoch, sdk, cached, authFails, closing>>

Woken == {t \in Streams : StreamAt(t, "restart") /\ ~SameClient(t)}

Rejoin(t) ==
  /\ StreamAt(t, "rejoin")
  /\ \/ /\ t \in cached \/ sdk = "open"
        /\ cached' = cached \cup {t}
        /\ sends' = [sends EXCEPT ![t].restarted = TRUE,
                        ![t].pc = IF sends[t].why = "dead" THEN "sending" ELSE "leaving"]
        /\ UNCHANGED users
     \/ /\ t \notin cached
        /\ users' = users - 1 /\ StreamGoes(t, "done") /\ UNCHANGED cached
  /\ UNCHANGED <<pending, epoch, sdk, authFails, closing>>

(* Nobody is inside any more. *)
DrainedEarly(t) == StreamAt(t, "drain")

Drained(t) == StreamAt(t, "drain") /\ users = 0

CloseOld(t) ==
  /\ Drained(t) /\ Woken = {}
  /\ cached' = {} /\ sdk' = "closed"
  /\ StreamGoes(t, "launch")
  /\ UNCHANGED <<users, pending, epoch, authFails, closing>>

(* The new client and the session on it. *)
LaunchBridge(t) ==
  /\ StreamAt(t, "launch")
  /\ sdk' = "open" /\ cached' = cached \cup {t}
  /\ StreamGoes(t, "reopen")
  /\ UNCHANGED <<users, pending, epoch, authFails, closing>>

(* The launcher or the session fails: the restart is given up, and the client
   is the closed one or a new one that no epoch counts. *)
LaunchFails(t) ==
  /\ StreamAt(t, "launch")
  /\ sdk' \in {"open", "closed"}
  /\ pending' = FALSE
  /\ StreamGoes(t, "done")
  /\ UNCHANGED <<users, epoch, cached, authFails, closing>>

Reopen(t) ==
  /\ StreamAt(t, "reopen")
  /\ epoch' = epoch + 1 /\ users' = users + 1
  /\ pending' = FALSE /\ authFails' = 0
  /\ sends' = [sends EXCEPT ![t].epoch = epoch + 1, ![t].restarted = TRUE,
                  ![t].pc = IF sends[t].why = "dead" THEN "sending" ELSE "leaving"]
  /\ UNCHANGED <<sdk, cached, closing>>

----------------------------------------------------------------------------
(* Stop cancels the task in an await.  Inside the bridge the finally clause
   leaves it; the handlers in _restart_bridge catch Exception, which a
   cancellation is not, so that a pending restart stays pending and a joined
   turn stays counted. *)
CancelStream(t) ==
  /\ sends[t].pc \notin {"leaving", "done"}
  /\ StreamGoes(t, IF sends[t].pc \in InBridge THEN "leaving" ELSE "done")
  /\ UNCHANGED <<users, pending, epoch, sdk, cached, authFails, closing>>

(* aclose at shutdown takes the place of a restart. *)
CloseBegins ==
  /\ closing = "no" /\ ~pending
  /\ closing' = "drain" /\ pending' = TRUE
  /\ UNCHANGED <<users, epoch, sdk, cached, authFails, sends>>

CloseClient ==
  /\ closing = "drain" /\ users = 0
  /\ closing' = "closed" /\ pending' = FALSE /\ cached' = {} /\ sdk' = "closed"
  /\ UNCHANGED <<users, epoch, authFails, sends>>

BridgeNext ==
  \/ \E t \in Streams :
       \/ EnterBridge(t) \/ EnsureSession(t) \/ AgentBusy(t)
       \/ \E outcome \in {"completed", "failed", "dead", "auth", "raised"} : Attempt(t, outcome)
       \/ ReleaseRun(t) \/ LeaveBridge(t)
       \/ OwnRestart(t) \/ JoinRestarted(t) \/ Rejoin(t)
       \/ CloseOld(t) \/ LaunchBridge(t) \/ LaunchFails(t) \/ Reopen(t)
       \/ CancelStream(t)
  \/ CloseBegins \/ CloseClient

BridgeSpec == BridgeInit /\ [][BridgeNext]_bridgeVars

----------------------------------------------------------------------------
BridgeTypeOK ==
  /\ users \in 0..Cardinality(Streams) /\ pending \in BOOLEAN /\ epoch \in Nat
  /\ sdk \in {"open", "closed"} /\ cached \subseteq Streams
  /\ authFails \in Nat /\ closing \in {"no", "drain", "closed"}
  /\ sends \in [Streams ->
       [pc : InBridge \cup {"entering", "restart", "drain", "launch", "reopen", "rejoin", "done"},
        epoch : Nat, why : {"none", "dead", "auth"}, restarted : BOOLEAN, forced : BOOLEAN]]

(* Why: one turn at a time restarts the bridge, and not while it is shut down;
   nobody is inside, or about to join, from the close of the old client on; and
   the count of the turns inside is never too low, though the turns that were
   stopped while they joined are still in it. *)
Counted == {t \in Streams : sends[t].pc \in InBridge \cup {"rejoin", "done"}}
Restarting == {t \in Streams : sends[t].pc \in {"drain", "launch", "reopen"}}
BridgeFacts ==
  /\ \A t \in Restarting : pending /\ closing # "drain" /\ Restarting = {t}
  /\ closing = "drain" => pending
  /\ \A t \in Streams : sends[t].pc \in {"launch", "reopen"} => Inside = {} /\ Woken = {}
  /\ Cardinality(Inside) <= users /\ users <= Cardinality(Counted)

(* "Replace the SDK process after active turns drain": between the moment the
   old client is closed and the new one is counted no other turn is inside the
   bridge, whichever turns died, were stopped or arrived meanwhile
   (_bridge_users, _restart_bridge). *)
SwapIsAlone ==
  \A t \in Streams : sends[t].pc \in {"launch", "reopen"} => Inside = {}

=============================================================================
