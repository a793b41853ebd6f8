----------------------------- MODULE Migrations -----------------------------
(***************************************************************************)
(* apply_migrations: the host, the worker and the command line each bring  *)
(* the database to the files of their release before they serve, under one *)
(* session lock, and may exit at any statement.                            *)
(***************************************************************************)
EXTENDS Integers

CONSTANTS
  MaxFiles,    \* migration files
  MaxMigExits  \* bound: exits of a process

ASSUME MigrationsAssumption == MaxFiles \in Nat \ {0} /\ MaxMigExits \in Nat

Boots == {"host", "worker"}
Files == 1..MaxFiles
Digests == {"old", "new"}

VARIABLES
  mig,       \* apply_migrations of each process
  migLock,   \* the holder of MIGRATION_LOCK_KEY, or "free"
  schema,    \* schema_migrations: the checksum of a file, "" before checksums, "none"
  migExits

migVars == <<mig, migLock, schema, migExits>>

NotBooted == [at |-> "off", recorded |-> [f \in Files |-> "none"], next |-> 1, release |-> "old"]

(* The processes, the lock and the table are of their types. *)
MigrationsTypeOK ==
  /\ mig \in [Boots -> [at : {"off", "waiting", "locked", "files", "applying", "done", "failed"},
                        recorded : [Files -> Digests \cup {"", "none"}],
                        next : 1..MaxFiles + 1, release : Digests]]
  /\ migLock \in Boots \cup {"free"}
  /\ schema \in [Files -> Digests \cup {"", "none"}]
  /\ migExits \in 0..MaxMigExits

(* A database of an earlier release has some of the files, without their checksums. *)
MigrationsInit ==
  /\ mig = [p \in Boots |-> NotBooted]
  /\ migLock = "free"
  /\ schema \in {[f \in Files |-> IF f <= k THEN "" ELSE "none"] : k \in 0..MaxFiles}
  /\ migExits = 0

(* The first file may have been rewritten in the release the process runs. *)
Digest(p, f) == IF f = 1 THEN mig[p].release ELSE "old"

MigratorStarts(p, release) ==
  /\ mig[p].at = "off"
  /\ mig' = [mig EXCEPT ![p] = [NotBooted EXCEPT !.at = "waiting", !.release = release]]
  /\ UNCHANGED <<migLock, schema, migExits>>

(* A mutant: the files are applied without the session lock. *)
MigrateUnlocked(p) ==
  /\ mig[p].at = "waiting"
  /\ mig' = [mig EXCEPT ![p].at = "locked"]
  /\ UNCHANGED <<migLock, schema, migExits>>

(* pg_advisory_lock *)
MigrateLocks(p) ==
  /\ mig[p].at = "waiting" /\ migLock = "free"
  /\ migLock' = p
  /\ mig' = [mig EXCEPT ![p].at = "locked"]
  /\ UNCHANGED <<schema, migExits>>

(* The rows are read once, under the lock. *)
MigrateReads(p) ==
  /\ mig[p].at = "locked"
  /\ mig' = [mig EXCEPT ![p].at = "files", ![p].recorded = schema]
  /\ UNCHANGED <<migLock, schema, migExits>>

Unlocked(p) == IF migLock = p THEN "free" ELSE migLock

(* The next file: recorded with another checksum, without one, with this one, or not at all. *)
MigrateFile(p) ==
  LET f == mig[p].next
      found == mig[p].recorded[f]
  IN
  /\ mig[p].at = "files" /\ f <= MaxFiles
  /\ \/ /\ found \in Digests \ {Digest(p, f)}
        /\ mig' = [mig EXCEPT ![p].at = "failed"]
        /\ migLock' = Unlocked(p)
        /\ UNCHANGED schema
     \/ /\ found = ""
        /\ schema' = [schema EXCEPT ![f] = Digest(p, f)]
        /\ mig' = [mig EXCEPT ![p].next = @ + 1]
        /\ UNCHANGED migLock
     \/ /\ found = Digest(p, f)
        /\ mig' = [mig EXCEPT ![p].next = @ + 1]
        /\ UNCHANGED <<migLock, schema>>
     \/ /\ found = "none"
        /\ mig' = [mig EXCEPT ![p].at = "applying"]
        /\ UNCHANGED <<migLock, schema>>
  /\ UNCHANGED migExits

(* The file's statements and its row commit together; a row that is there already fails. *)
MigrateCommits(p) ==
  LET f == mig[p].next IN
  /\ mig[p].at = "applying"
  /\ IF schema[f] = "none"
       THEN /\ schema' = [schema EXCEPT ![f] = Digest(p, f)]
            /\ mig' = [mig EXCEPT ![p].at = "files", ![p].next = @ + 1]
            /\ UNCHANGED migLock
       ELSE /\ mig' = [mig EXCEPT ![p].at = "failed"]
            /\ migLock' = Unlocked(p)
            /\ UNCHANGED schema
  /\ UNCHANGED migExits

MigrateEnds(p) ==
  /\ mig[p].at = "files" /\ mig[p].next > MaxFiles
  /\ mig' = [mig EXCEPT ![p].at = "done"]
  /\ migLock' = Unlocked(p)
  /\ UNCHANGED <<schema, migExits>>

(* The process exits: its transaction rolls back and its session lock is released. *)
MigratorExits(p) ==
  /\ migExits < MaxMigExits /\ mig[p].at # "off"
  /\ migExits' = migExits + 1
  /\ mig' = [mig EXCEPT ![p] = NotBooted]
  /\ migLock' = Unlocked(p)
  /\ UNCHANGED schema

MigrationsNext ==
  \E p \in Boots :
    \/ \E release \in Digests : MigratorStarts(p, release)
    \/ MigrateLocks(p) \/ MigrateReads(p) \/ MigrateFile(p) \/ MigrateCommits(p) \/ MigrateEnds(p)
    \/ MigratorExits(p)

MigrationsSpec == MigrationsInit /\ [][MigrationsNext]_migVars

(* THREAT-MODEL: "Host and worker migrate on boot under pg_advisory_lock; applied files  *)
(* store sha256 and a rewritten historical file fails the run": whoever starts first and *)
(* whoever exits half-way, apply_migrations fails only for a rewritten file, and where   *)
(* it succeeds every file is in with the checksum of that process's release.             *)
BootsAgree ==
  \A p \in Boots :
    /\ mig[p].at = "failed" => \E f \in Files : schema[f] \in Digests \ {Digest(p, f)}
    /\ mig[p].at = "done" => \A f \in Files : schema[f] = Digest(p, f)
=============================================================================
