----------------------------- MODULE Credentials -----------------------------
(***************************************************************************)
(* The saved credentials of one bot: the broker's vault, the migrator that *)
(* moves the files of an older release into it, and a command that runs    *)
(* with them in a container of its own after the owner has allowed it.     *)
(*                                                                         *)
(* The broker serves each request in a thread, with one lock around the    *)
(* database; the owner's window, a message with a token in it and the tool *)
(* of a turn all reach it over HTTP.                                       *)
(***************************************************************************)
EXTENDS Integers, FiniteSets

CONSTANTS
  Providers,      \* github, pypi, a name of the owner
  Secrets,        \* tokens
  RemoveTries,    \* attempts to remove the container
  MaxSaves,       \* bound: writes to the vault
  MaxCredExits    \* bound: exits of the migrator, the broker or the supervisor

ASSUME CredentialsAssumption ==
  /\ RemoveTries \in Nat \ {0} /\ MaxSaves \in Nat /\ MaxCredExits \in Nat
  /\ "none" \notin Secrets

VARIABLES
  vault,     \* the row of each provider: its secret and when it was saved
  legacy,    \* data/credentials of the older release
  move,      \* the migrator: where it is, its file, what it has found
  api,       \* compose has started the host
  cmd,       \* run_credential_scoped_command and its container
  paste,     \* tokens of the message that is being sent, not yet saved
  saves,
  meant,     \* what the owner last saved, "none" when forgotten
  credExits

credVars == <<vault, legacy, move, api, cmd, paste, saves, meant, credExits>>

NoRow == [secret |-> "none", at |-> 0]
Saved == {p \in Providers : vault[p] # NoRow}
NoRows == [p \in Providers |-> NoRow]
NoMove == [at |-> "off", file |-> "none", state |-> "none", failed |-> FALSE]
NoCmd == [at |-> "idle", approved |-> NoRows, env |-> NoRows, ok |-> FALSE, box |-> "none", tries |-> 0]

Running == {"material", "created", "started", "ended"}

VaultRow == {NoRow} \cup [secret : Secrets, at : 1..MaxSaves]

(* Rows, files, the migrator and the command are of their types. *)
CredentialsTypeOK ==
  /\ vault \in [Providers -> VaultRow]
  /\ legacy \in [Providers -> Secrets \cup {"none"}]
  /\ move \in [at : {"off", "file", "found", "confirmed", "done"},
               file : Providers \cup {"none"}, state : {"none", "missing", "same", "different"},
               failed : BOOLEAN]
  /\ api \in BOOLEAN
  /\ cmd \in [at : {"idle", "asked", "allowed", "checked", "cleanup", "answered"} \cup Running,
              approved : [Providers -> VaultRow], env : [Providers -> VaultRow], ok : BOOLEAN,
              box : {"none", "created", "running", "exited"}, tries : 0..RemoveTries]
  /\ paste \in [Providers -> Secrets \cup {"none"}]
  /\ meant \in [Providers -> Secrets \cup {"none"}]
  /\ saves \in 0..MaxSaves /\ credExits \in 0..MaxCredExits

CredentialsInit ==
  /\ vault = NoRows
  /\ legacy \in [Providers -> Secrets \cup {"none"}]
  /\ move = NoMove
  /\ api = FALSE
  /\ cmd = NoCmd
  /\ paste = [p \in Providers |-> "none"]
  /\ saves = 0
  /\ meant = legacy
  /\ credExits = 0

(***************************************************************************)
(* migrate_legacy_credentials, one file after the other.                   *)
(***************************************************************************)

MigratorStartsOver ==
  /\ ~api /\ move.at = "off"
  /\ move' = [NoMove EXCEPT !.at = "file"]
  /\ UNCHANGED <<vault, legacy, api, cmd, paste, saves, meant, credExits>>

StateOf(p) ==
  IF vault[p] = NoRow THEN "missing"
  ELSE IF vault[p].secret = legacy[p] THEN "same" ELSE "different"

(* secret_state of the next file. *)
MigratorReads(p) ==
  /\ move.at = "file" /\ legacy[p] # "none"
  /\ move' = [move EXCEPT !.at = "found", !.file = p, !.state = StateOf(p)]
  /\ UNCHANGED <<vault, legacy, api, cmd, paste, saves, meant, credExits>>

(* The file cannot be read or removed: the run goes on to fail. *)
MigratorFails(p) ==
  /\ move.at = "file" /\ legacy[p] # "none"
  /\ move' = [move EXCEPT !.at = "done", !.failed = TRUE]
  /\ UNCHANGED <<vault, legacy, api, cmd, paste, saves, meant, credExits>>

(* A mutant: the file's token is stored whatever the vault holds. *)
PutOverExisting ==
  /\ move.at = "found" /\ saves < MaxSaves
  /\ vault' = [vault EXCEPT ![move.file] = [secret |-> legacy[move.file], at |-> saves + 1]]
  /\ saves' = saves + 1
  /\ move' = [move EXCEPT !.at = "confirmed"]
  /\ UNCHANGED <<legacy, api, cmd, paste, meant, credExits>>

(* put_if_missing, which commits, and confirm_secret. *)
PutIfMissing ==
  /\ move.at = "found"
  /\ \/ /\ move.state = "missing" /\ saves < MaxSaves
        /\ vault' = [vault EXCEPT ![move.file] = [secret |-> legacy[move.file], at |-> saves + 1]]
        /\ saves' = saves + 1
     \/ /\ move.state # "missing"
        /\ UNCHANGED <<vault, saves>>
  /\ move' = [move EXCEPT !.at = "confirmed"]
  /\ UNCHANGED <<legacy, api, cmd, paste, meant, credExits>>

(* source.unlink *)
MigratorUnlinks ==
  /\ move.at = "confirmed"
  /\ legacy' = [legacy EXCEPT ![move.file] = "none"]
  /\ move' = [move EXCEPT !.at = "file", !.file = "none", !.state = "none"]
  /\ UNCHANGED <<vault, api, cmd, paste, saves, meant, credExits>>

MigratorEnds ==
  /\ move.at = "file" /\ \A p \in Providers : legacy[p] = "none"
  /\ move' = [move EXCEPT !.at = "done"]
  /\ UNCHANGED <<vault, legacy, api, cmd, paste, saves, meant, credExits>>

(* service_completed_successfully starts the broker and the host; a failure starts it again. *)
ComposeGoesOn ==
  /\ move.at = "done"
  /\ api' = ~move.failed
  /\ move' = NoMove
  /\ UNCHANGED <<vault, legacy, cmd, paste, saves, meant, credExits>>

(* The stack stops, and a backup of data/credentials may be put back before it starts. *)
StackStops(p, s) ==
  /\ api /\ credExits < MaxCredExits
  /\ credExits' = credExits + 1
  /\ api' = FALSE /\ cmd' = NoCmd
  /\ paste' = [q \in Providers |-> "none"]
  /\ legacy' = IF vault[p] # NoRow THEN [legacy EXCEPT ![p] = s] ELSE legacy
  /\ UNCHANGED <<vault, move, saves, meant>>

MigratorDies ==
  /\ move.at \notin {"off", "done"} /\ credExits < MaxCredExits
  /\ credExits' = credExits + 1
  /\ move' = NoMove
  /\ UNCHANGED <<vault, legacy, api, cmd, paste, saves, meant>>

(***************************************************************************)
(* The owner saves and forgets.                                            *)
(***************************************************************************)

Put(p, s) ==
  /\ api /\ saves < MaxSaves
  /\ vault' = [vault EXCEPT ![p] = [secret |-> s, at |-> saves + 1]]
  /\ saves' = saves + 1
  /\ meant' = [meant EXCEPT ![p] = s]

SaveBotCredential(p, s) == Put(p, s) /\ UNCHANGED <<legacy, move, api, cmd, paste, credExits>>

ForgetBotCredential(p) ==
  /\ api /\ p \in Saved
  /\ vault' = [vault EXCEPT ![p] = NoRow]
  /\ meant' = [meant EXCEPT ![p] = "none"]
  /\ UNCHANGED <<legacy, move, api, cmd, paste, saves, credExits>>

(* delete_bot has the broker forget the bot before the bot's rows go. *)
ForgetBot ==
  /\ api /\ Saved # {}
  /\ vault' = NoRows
  /\ meant' = [p \in Providers |-> "none"]
  /\ UNCHANGED <<legacy, move, api, cmd, paste, saves, credExits>>

(* apply_chat_credentials finds tokens in a message and saves them one by one; when the *)
(* broker fails, the message is refused and those already saved stay.                   *)
PasteInChat(found) ==
  /\ api /\ \A p \in Providers : paste[p] = "none"
  /\ \E p \in Providers : found[p] # "none"
  /\ paste' = found
  /\ UNCHANGED <<vault, legacy, move, api, cmd, saves, meant, credExits>>

PasteSaves(p) ==
  /\ paste[p] # "none"
  /\ Put(p, paste[p])
  /\ paste' = [paste EXCEPT ![p] = "none"]
  /\ UNCHANGED <<legacy, move, api, cmd, credExits>>

(* The broker is not there, or its answer is an error or none in time. *)
PasteFails ==
  /\ \E p \in Providers : paste[p] # "none"
  /\ paste' = [p \in Providers |-> "none"]
  /\ UNCHANGED <<vault, legacy, move, api, cmd, saves, meant, credExits>>

(***************************************************************************)
(* run_credential_scoped_command.                                          *)
(***************************************************************************)

Cmd(new) ==
  /\ cmd' = new
  /\ UNCHANGED <<vault, legacy, move, api, paste, saves, meant, credExits>>

(* list_for_bot, then the card that names what the command would use. *)
AskOwner ==
  /\ api /\ cmd.at \in {"idle", "answered"} /\ Saved # {}
  /\ Cmd([NoCmd EXCEPT !.at = "asked", !.approved = vault])

OwnerAnswers(allow) ==
  /\ cmd.at = "asked"
  /\ Cmd([cmd EXCEPT !.at = IF allow THEN "allowed" ELSE "answered"])

(* What a snapshot compares: the provider and when it was saved, to the microsecond. *)
Metadata(rows) == [p \in Providers |-> rows[p].at]

(* The tool lists the rows again after the wait. *)
Recheck ==
  /\ cmd.at = "allowed"
  /\ Cmd([cmd EXCEPT !.at = IF Metadata(vault) = Metadata(cmd.approved) THEN "checked" ELSE "answered"])

(* A mutant: the broker takes whatever is saved now. *)
SnapshotIgnored == TRUE

SnapshotMatches == Metadata(vault) = Metadata(cmd.approved)

(* The broker's execute handler takes the material, the comparison and the secrets under *)
(* one lock, or answers that the approval is stale.                                       *)
ExecutionMaterial ==
  /\ cmd.at = "checked"
  /\ Cmd(IF SnapshotMatches
           THEN [cmd EXCEPT !.at = "material", !.env = vault]
           ELSE [cmd EXCEPT !.at = "answered"])

(* The supervisor answers without a container: the request or its spec is refused. *)
SupervisorRefuses ==
  /\ cmd.at = "material"
  /\ Cmd([cmd EXCEPT !.at = "answered"])

(* The home and the spec, with the material as its environment, then                      *)
(* run_credential_container: create, start, wait, stop, logs - or an exception - then the *)
(* attempts to remove.                                                                    *)
RunnerCreates ==
  /\ cmd.at = "material"
  /\ Cmd([cmd EXCEPT !.at = "created", !.box = "created"])

RunnerStarts(works) ==
  /\ cmd.at = "created"
  /\ Cmd(IF works THEN [cmd EXCEPT !.at = "started", !.box = "running"]
                  ELSE [cmd EXCEPT !.at = "cleanup"])

RunnerEnds(ok) ==
  /\ cmd.at = "started"
  /\ Cmd([cmd EXCEPT !.at = "ended", !.box = "exited", !.ok = ok])

(* Docker fails at wait, stop or logs: the container may still run. *)
RunnerLost ==
  /\ cmd.at \in {"started", "ended"}
  /\ Cmd([cmd EXCEPT !.at = "cleanup", !.ok = FALSE])

RunnerLogs ==
  /\ cmd.at = "ended"
  /\ Cmd([cmd EXCEPT !.at = "cleanup"])

RunnerRemoves(works) ==
  /\ cmd.at = "cleanup"
  /\ Cmd(CASE works -> [cmd EXCEPT !.at = "answered", !.box = "none"]
           [] ~works /\ cmd.tries + 1 < RemoveTries -> [cmd EXCEPT !.tries = @ + 1]
           [] OTHER -> [cmd EXCEPT !.at = "answered", !.ok = FALSE])

(* The supervisor or the broker exits, or the client's time is up: the tool is told that *)
(* the broker is unavailable, whatever becomes of the container.                         *)
ExecutionLost ==
  /\ cmd.at \in Running \cup {"cleanup"} /\ credExits < MaxCredExits
  /\ credExits' = credExits + 1
  /\ cmd' = [cmd EXCEPT !.at = "answered", !.ok = FALSE]
  /\ UNCHANGED <<vault, legacy, move, api, paste, saves, meant>>

CredentialsNext ==
  \/ MigratorStartsOver \/ PutIfMissing \/ MigratorUnlinks \/ MigratorEnds \/ ComposeGoesOn \/ MigratorDies
  \/ \E p \in Providers : MigratorReads(p) \/ MigratorFails(p) \/ ForgetBotCredential(p) \/ PasteSaves(p)
  \/ \E p \in Providers, s \in Secrets : StackStops(p, s) \/ SaveBotCredential(p, s)
  \/ ForgetBot \/ PasteFails
  \/ \E found \in [Providers -> Secrets \cup {"none"}] : PasteInChat(found)
  \/ AskOwner \/ Recheck \/ ExecutionMaterial \/ SupervisorRefuses \/ RunnerCreates
  \/ RunnerLost \/ RunnerLogs \/ ExecutionLost
  \/ \E yes \in BOOLEAN :
       OwnerAnswers(yes) \/ RunnerStarts(yes) \/ RunnerEnds(yes) \/ RunnerRemoves(yes)

CredentialsSpec == CredentialsInit /\ [][CredentialsNext]_credVars

(***************************************************************************)
(* Properties.                                                             *)
(***************************************************************************)

(* Why the first: a row and the row the owner was shown with the same time are one row,
   for every save has a later one; and only a command whose container ended is reported
   to have worked. *)
CommandFacts ==
  /\ \A p \in Providers : vault[p].at <= saves /\ cmd.approved[p].at <= saves
  /\ \A p \in Providers : cmd.approved[p].at = vault[p].at => cmd.approved[p] = vault[p]
  /\ cmd.at \in Running => cmd.env = cmd.approved
  /\ cmd.ok => cmd.at \in {"ended", "cleanup", "answered"}
  /\ cmd.at = "answered" /\ cmd.ok => cmd.box = "none"

(* Why the second: the host is up only when the files are gone, so that the migrator
   never meets a save; and it removes a file only once the vault has a row. *)
VaultFacts ==
  /\ \A p \in Providers : IF vault[p] = NoRow THEN legacy[p] = meant[p]
                          ELSE vault[p].secret = meant[p]
  /\ move.at # "off" => ~api
  /\ api \/ (move.at = "done" /\ ~move.failed) => \A p \in Providers : legacy[p] = "none"
  /\ move.at \in {"found", "confirmed"} => move.file \in Providers /\ legacy[move.file] # "none"
  /\ move.at = "found" => move.state = StateOf(move.file)
  /\ move.at = "confirmed" => vault[move.file] # NoRow

(* "saved credentials changed; run the command again for fresh approval": however saves,  *)
(* forgets and pasted tokens fall between the card, the answer and the broker's reading,  *)
(* a container runs with exactly the tokens that the owner was shown, and a command that  *)
(* is reported to have worked has left no container behind.                               *)
RunsWithApproved ==
  /\ cmd.at \in Running => cmd.env = cmd.approved
  /\ cmd.at = "answered" /\ cmd.ok => cmd.box = "none"

(* README: "Re-running never overwrites a broker value": over exits, failures and reruns   *)
(* of the migrator, and over old files put back, the token the owner last saved is in the  *)
(* vault or, until it has been moved, in the old files, and a forgotten one stays away.    *)
OwnerKeepsSecret ==
  \A p \in Providers :
    \/ vault[p].secret = meant[p]
    \/ vault[p] = NoRow /\ legacy[p] = meant[p]
==============================================================================
