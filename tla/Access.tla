------------------------------- MODULE Access -------------------------------
(***************************************************************************)
(* The pairing codes and devices of the owner, and the hash-chained audit  *)
(* log that records every change of a device, a grant, a consent or a      *)
(* routine.                                                                *)
(*                                                                         *)
(* A transaction is seen statement by statement where another process or   *)
(* thread can come in between: the change, the audit lock, the insert, the *)
(* commit.  The handlers of the loop do not await, so they follow one      *)
(* another; a tool thread edits routines beside them.                      *)
(***************************************************************************)
EXTENDS Integers, Sequences, FiniteSets

CONSTANTS
  Devices,     \* device ids that may be created
  Codes,       \* pairing codes that may be minted
  PairLimit,   \* PAIRING_ATTEMPT_LIMIT
  MaxAudits,   \* bound: records in the audit table
  MaxExits     \* bound: exits of the host

ASSUME AccessAssumption ==
  /\ PairLimit \in Nat \ {0} /\ MaxAudits \in Nat /\ MaxExits \in Nat
  /\ Codes \cap {"none", "token"} = {} /\ "none" \notin Devices

Writers == {"loop", "thread"}

(* An audited change: its kind, and the device if it is one of a device. *)
ChangeKinds == {"device.create", "device.revoke", "automation.updated", "grant.change"}
Changes == [kind : ChangeKinds, of : Devices \cup {"none"}]

VARIABLES
  code,       \* device_pairing_codes
  dev,        \* devices
  madeBy,     \* the code a device was paired with, "token" for the host token
  hits,       \* wrong codes of the last window
  pairing,    \* the code the loop has consumed and not yet used
  tx,         \* the audited transaction of each writer
  auditLock,  \* the holder of AUDIT_LOCK_KEY, or "free"
  audit,      \* the audit table
  conflicts,  \* audited changes that failed with a UniqueViolation
  exits

accessVars == <<code, dev, madeBy, hits, pairing, tx, auditLock, audit, conflicts, exits>>

Genesis == <<>>

(* compute_audit_hash: as if no two records had the same hash. *)
Hash(seq, what, prev) == Append(prev, <<seq, what>>)

Hashes == Seq(Nat \X Changes)
AuditRecords == [seq : Nat, what : Changes, prev : Hashes, hash : Hashes]

NoChange == [kind |-> "grant.change", of |-> "none"]
NoRecord == [seq |-> 0, what |-> NoChange, prev |-> Genesis, hash |-> Genesis]
NoTx == [at |-> "idle", what |-> NoChange, rec |-> NoRecord]

Transactions ==
  [at : {"idle", "changed", "locked", "inserted"}, what : Changes, rec : AuditRecords]

(* Codes, devices, transactions and audit records are of their types. *)
AccessTypeOK ==
  /\ code \in [Codes -> {"none", "open", "used", "expired"}]
  /\ dev \in [Devices -> {"none", "active", "revoked"}]
  /\ madeBy \in [Devices -> Codes \cup {"none", "token"}]
  /\ hits \in 0..PairLimit
  /\ pairing \in Codes \cup {"none"}
  /\ tx \in [Writers -> Transactions]
  /\ auditLock \in Writers \cup {"free"}
  /\ audit \in Seq(AuditRecords)
  /\ conflicts \subseteq Changes
  /\ exits \in 0..MaxExits

AccessInit ==
  /\ code = [c \in Codes |-> "none"]
  /\ dev = [d \in Devices |-> "none"]
  /\ madeBy = [d \in Devices |-> "none"]
  /\ hits = 0
  /\ pairing = "none"
  /\ tx = [w \in Writers |-> NoTx]
  /\ auditLock = "free"
  /\ audit = <<>>
  /\ conflicts = {}
  /\ exits = 0

(***************************************************************************)
(* Pairing.  The loop serves one request at a time.                        *)
(***************************************************************************)

LoopFree == tx["loop"].at = "idle" /\ pairing = "none"

(* The command line mints a code in a process of its own. *)
CreatePairingCode(c) ==
  /\ code[c] = "none"
  /\ code' = [code EXCEPT ![c] = "open"]
  /\ UNCHANGED <<dev, madeBy, hits, pairing, tx, auditLock, audit, conflicts, exits>>

CodeExpires(c) ==
  /\ code[c] = "open"
  /\ code' = [code EXCEPT ![c] = "expired"]
  /\ UNCHANGED <<dev, madeBy, hits, pairing, tx, auditLock, audit, conflicts, exits>>

(* The oldest stamp leaves the sliding window. *)
WindowPasses ==
  /\ hits > 0
  /\ hits' = hits - 1
  /\ UNCHANGED <<code, dev, madeBy, pairing, tx, auditLock, audit, conflicts, exits>>

Consumable(c) == code[c] = "open"

(* A mutant: the limiter lets one guess too many through. *)
AllowOneMore == hits <= PairLimit

(* pairing_attempts.allow *)
Allow == hits < PairLimit

(* create_device and page_pair: the limiter, then consume_pairing_code, which commits. *)
Pair(c) ==
  /\ LoopFree /\ Allow
  /\ IF Consumable(c)
       THEN /\ code' = [code EXCEPT ![c] = "used"]
            /\ pairing' = c
            /\ UNCHANGED hits
       ELSE /\ hits' = hits + 1
            /\ UNCHANGED <<code, pairing>>
  /\ UNCHANGED <<dev, madeBy, tx, auditLock, audit, conflicts, exits>>

(* Postgres is gone between the two transactions: 503, and the code is spent. *)
CreateFails ==
  /\ pairing # "none" /\ tx["loop"].at = "idle"
  /\ pairing' = "none"
  /\ UNCHANGED <<code, dev, madeBy, hits, tx, auditLock, audit, conflicts, exits>>

(***************************************************************************)
(* Audited transactions: the change, the lock, the insert, the commit.     *)
(***************************************************************************)

Change(w, what) ==
  /\ tx[w].at = "idle"
  /\ Len(audit) + Cardinality({v \in Writers : tx[v].at # "idle"}) < MaxAudits
  /\ tx' = [tx EXCEPT ![w] = [at |-> "changed", what |-> what, rec |-> NoRecord]]
  /\ UNCHANGED <<code, dev, madeBy, hits, pairing, auditLock, audit, conflicts, exits>>

(* create_device, after a code or for the host token. *)
CreateDevice(d) ==
  /\ LoopFree \/ pairing # "none"
  /\ dev[d] = "none"
  /\ Change("loop", [kind |-> "device.create", of |-> d])

(* revoke_device changes and records nothing when the device is revoked already. *)
RevokeDevice(d) ==
  /\ LoopFree /\ dev[d] = "active"
  /\ Change("loop", [kind |-> "device.revoke", of |-> d])

(* save_consent_grant and answer_consent_request. *)
SaveGrant == LoopFree /\ Change("loop", [kind |-> "grant.change", of |-> "none"])

(* update_routine, from a tool. *)
UpdateRoutine == Change("thread", [kind |-> "automation.updated", of |-> "none"])

(* A mutant: the append does not take the advisory lock. *)
AuditUnlocked(w) ==
  /\ tx[w].at = "changed"
  /\ tx' = [tx EXCEPT ![w].at = "locked"]
  /\ UNCHANGED <<code, dev, madeBy, hits, pairing, auditLock, audit, conflicts, exits>>

(* pg_advisory_xact_lock *)
AuditLocks(w) ==
  /\ tx[w].at = "changed" /\ auditLock = "free"
  /\ auditLock' = w
  /\ tx' = [tx EXCEPT ![w].at = "locked"]
  /\ UNCHANGED <<code, dev, madeBy, hits, pairing, audit, conflicts, exits>>

(* The last record that has committed gives the next seq and the previous hash. *)
AuditInserts(w) ==
  LET n == Len(audit)
      prev == IF n = 0 THEN Genesis ELSE audit[n].hash
  IN
  /\ tx[w].at = "locked"
  /\ tx' = [tx EXCEPT ![w].at = "inserted",
                      ![w].rec = [seq |-> n + 1, what |-> tx[w].what, prev |-> prev,
                                  hash |-> Hash(n + 1, tx[w].what, prev)]]
  /\ UNCHANGED <<code, dev, madeBy, hits, pairing, auditLock, audit, conflicts, exits>>

DevicesAfter(what) ==
  CASE what.kind = "device.create" -> [dev EXCEPT ![what.of] = "active"]
    [] what.kind = "device.revoke" -> [dev EXCEPT ![what.of] = "revoked"]
    [] OTHER -> dev

(* The change and its record commit together; seq is the primary key of the table. *)
AuditCommits(w) ==
  LET what == tx[w].what
      ok == tx[w].rec.seq = Len(audit) + 1
  IN
  /\ tx[w].at = "inserted"
  /\ IF ok
       THEN /\ audit' = Append(audit, tx[w].rec)
            /\ dev' = DevicesAfter(what)
            /\ madeBy' = IF what.kind = "device.create"
                           THEN [madeBy EXCEPT ![what.of] = IF pairing = "none" THEN "token" ELSE pairing]
                           ELSE madeBy
            /\ UNCHANGED conflicts
       ELSE /\ conflicts' = conflicts \cup {what}
            /\ UNCHANGED <<audit, dev, madeBy>>
  /\ tx' = [tx EXCEPT ![w] = NoTx]
  /\ pairing' = IF w = "loop" THEN "none" ELSE pairing
  /\ auditLock' = IF auditLock = w THEN "free" ELSE auditLock
  /\ UNCHANGED <<code, hits, exits>>

(* The host exits: its transactions roll back, its locks and its limiter are gone. *)
HostExits ==
  /\ exits < MaxExits
  /\ exits' = exits + 1
  /\ tx' = [w \in Writers |-> NoTx]
  /\ auditLock' = "free" /\ pairing' = "none" /\ hits' = 0
  /\ UNCHANGED <<code, dev, madeBy, audit, conflicts>>

AccessNext ==
  \/ \E c \in Codes : CreatePairingCode(c) \/ CodeExpires(c) \/ Pair(c)
  \/ \E d \in Devices : CreateDevice(d) \/ RevokeDevice(d)
  \/ WindowPasses \/ HostExits \/ CreateFails \/ SaveGrant \/ UpdateRoutine
  \/ \E w \in Writers : AuditLocks(w) \/ AuditInserts(w) \/ AuditCommits(w)

AccessSpec == AccessInit /\ [][AccessNext]_accessVars

(***************************************************************************)
(* Properties.                                                             *)
(***************************************************************************)

(* verify_audit_chain *)
ChainVerifies ==
  \A i \in 1..Len(audit) :
    /\ audit[i].seq = i
    /\ audit[i].prev = IF i = 1 THEN Genesis ELSE audit[i - 1].hash
    /\ audit[i].hash = Hash(audit[i].seq, audit[i].what, audit[i].prev)

(* The log has no record of a device's creation or revocation; it has one. *)
Unrecorded(kind, d) ==
  \A i \in 1..Len(audit) : ~(audit[i].what.kind = kind /\ audit[i].what.of = d)

RecordedOnce(kind, d) ==
  \E i \in 1..Len(audit) :
    /\ audit[i].what.kind = kind /\ audit[i].what.of = d
    /\ \A j \in 1..Len(audit) : audit[j].what.kind = kind /\ audit[j].what.of = d => j = i

(* THREAT-MODEL: "atomic transactional append with advisory locking": writers of the loop *)
(* and of tool threads never fail each other, the chain verifies whenever it is read, and *)
(* a device is created or revoked exactly when the log says so, once.                     *)
AuditComplete ==
  /\ conflicts = {}
  /\ ChainVerifies
  /\ \A d \in Devices :
       /\ IF dev[d] = "none" THEN Unrecorded("device.create", d)
                             ELSE RecordedOnce("device.create", d)
       /\ IF dev[d] = "revoked" THEN RecordedOnce("device.revoke", d)
                                ELSE Unrecorded("device.revoke", d)

(* README: a pairing code is good for "15 minutes, one use": over retries of a request    *)
(* whose answer was lost, failures between consume and create, and exits of the host, one *)
(* code never stands behind two devices.                                                  *)
CodePairsOnce ==
  \A d, e \in Devices : madeBy[d] \in Codes /\ madeBy[d] = madeBy[e] => d = e
=============================================================================
