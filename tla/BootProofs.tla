--------------------------- MODULE BootProofs ---------------------------
(***************************************************************************)
(* What a start of the host relies on, for any migration files, leftover   *)
(* runs and exits: the migrations, the statements their files are cut      *)
(* into, and the recovery of what the last process left.                   *)
(***************************************************************************)
EXTENDS Migrations, Recovery, SqlSplit, SequenceTheorems, WellFoundedInduction, TLAPS

(***************************************************************************)
(* The migrations.                                                         *)
(*                                                                         *)
(* For any number of migration files and of exits: the processes that boot *)
(* at the same time agree on the database (BootsAgree).  The session lock  *)
(* keeps the rows a process has read true while it works, and a recorded   *)
(* checksum is never replaced, so what held when a process ended holds     *)
(* ever after.                                                             *)
(***************************************************************************)

MigRecord ==
  [at : {"off", "waiting", "locked", "files", "applying", "done", "failed"},
   recorded : [Files -> Digests \cup {"", "none"}],
   next : 1..MaxFiles + 1, release : Digests]

(* A process at work has the lock; files before its next one carry its     *)
(* release's checksum; of the others it knows the rows as they are.        *)
WorkOf(p) ==
  /\ mig[p].at \in {"locked", "files", "applying"} <=> migLock = p
  /\ mig[p].at \in {"files", "applying"} =>
       /\ \A g \in Files : g < mig[p].next => schema[g] = Digest(p, g)
       /\ \A g \in Files : g >= mig[p].next => mig[p].recorded[g] = schema[g]
  /\ mig[p].at = "applying" => mig[p].next \in Files /\ schema[mig[p].next] = "none"
  /\ mig[p].at \in {"off", "waiting", "locked"} => mig[p].next = 1

(* The verdict of a process that has ended (BootsAgree). *)
Verdict(p) ==
  /\ mig[p].at = "failed" => \E f \in Files : schema[f] \in Digests \ {Digest(p, f)}
  /\ mig[p].at = "done" => \A f \in Files : schema[f] = Digest(p, f)

MigrationsInvariant ==
  MigrationsTypeOK /\ \A p \in Boots : WorkOf(p) /\ Verdict(p)

LEMMA TypeFacts ==
  ASSUME MigrationsTypeOK
  PROVE  /\ mig \in [Boots -> MigRecord]
         /\ schema \in [Files -> Digests \cup {"", "none"}]
         /\ \A p \in Boots, f \in Files : Digest(p, f) \in Digests
BY DEF MigrationsTypeOK, MigRecord, Digest, Digests

(* A process that a step leaves where it is keeps its part of the          *)
(* invariant, when the step keeps recorded checksums and, if that process  *)
(* has the lock, all of the table.                                         *)
LEMMA OthersKept ==
  ASSUME MigrationsTypeOK, NEW q \in Boots, WorkOf(q), Verdict(q),
         mig'[q] = mig[q],
         migLock' = q <=> migLock = q,
         migLock = q => schema' = schema,
         \A f \in Files : schema[f] \in Digests => schema'[f] = schema[f]
  PROVE  WorkOf(q)' /\ Verdict(q)'
<1>1. \A f \in Files : Digest(q, f)' = Digest(q, f) /\ Digest(q, f) \in Digests
  BY TypeFacts DEF Digest
<1>2. WorkOf(q)'
  BY <1>1 DEF WorkOf
<1>3. Verdict(q)'
  BY <1>1 DEF Verdict
<1> QED
  BY <1>2, <1>3

(* A step of one process that writes the table only under its lock, and no *)
(* recorded checksum, keeps the invariant if it keeps that process's part. *)
LEMMA OneMoves ==
  ASSUME MigrationsInvariant, NEW p \in Boots,
         mig' \in [Boots -> MigRecord],
         schema' \in [Files -> Digests \cup {"", "none"}],
         migExits' = migExits,
         migLock = p, migLock' \in {p, "free"},
         \A q \in Boots \ {p} : mig'[q] = mig[q],
         \A f \in Files : schema[f] \in Digests => schema'[f] = schema[f],
         WorkOf(p)', Verdict(p)'
  PROVE  MigrationsInvariant'
<1>1. MigrationsTypeOK'
  BY DEF MigrationsInvariant, MigrationsTypeOK, MigRecord
<1>2. ASSUME NEW q \in Boots \ {p} PROVE WorkOf(q)' /\ Verdict(q)'
  <2>1. q # "free"
    BY DEF Boots
  <2> QED
    BY <2>1, OthersKept DEF MigrationsInvariant
<1> QED
  BY <1>1, <1>2 DEF MigrationsInvariant

(* In the initial states no process works, and none has a verdict. *)
LEMMA MigrationsInitOK == MigrationsInit => MigrationsInvariant
<1> SUFFICES ASSUME MigrationsInit PROVE MigrationsInvariant
  OBVIOUS
<1>1. MigrationsTypeOK
  <2>1. NotBooted \in MigRecord
    BY MigrationsAssumption DEF NotBooted, MigRecord, Digests
  <2>2. schema \in [Files -> Digests \cup {"", "none"}]
    BY DEF MigrationsInit
  <2>3. mig \in [Boots -> MigRecord]
    BY <2>1 DEF MigrationsInit
  <2>4. migLock = "free" /\ migExits = 0
    BY DEF MigrationsInit
  <2>5. migLock \in Boots \cup {"free"}
    BY <2>4
  <2>6. migExits \in 0..MaxMigExits
    BY <2>4, MigrationsAssumption
  <2> QED
    BY <2>2, <2>3, <2>5, <2>6 DEF MigrationsTypeOK, MigRecord
<1>2. \A p \in Boots : WorkOf(p) /\ Verdict(p)
  BY DEF MigrationsInit, NotBooted, WorkOf, Verdict, Boots
<1> QED
  BY <1>1, <1>2 DEF MigrationsInvariant

(* Every step keeps the types, the knowledge of the processes at work and  *)
(* the verdicts: one case per action, for the process that acts and for    *)
(* the others.                                                             *)
LEMMA MigrationsStepOK == MigrationsInvariant /\ [MigrationsNext]_migVars => MigrationsInvariant'
<1> SUFFICES ASSUME MigrationsInvariant, [MigrationsNext]_migVars PROVE MigrationsInvariant'
  OBVIOUS
<1>0. MigrationsTypeOK /\ \A q \in Boots : WorkOf(q) /\ Verdict(q)
  BY DEF MigrationsInvariant
<1>a. /\ mig \in [Boots -> MigRecord]
      /\ schema \in [Files -> Digests \cup {"", "none"}]
      /\ \A p \in Boots, f \in Files : Digest(p, f) \in Digests
  BY <1>0, TypeFacts
<1>b. migLock \in Boots \cup {"free"} /\ migExits \in 0..MaxMigExits
  BY <1>0 DEF MigrationsTypeOK
<1>c. \A q \in Boots : q # "free"
  BY DEF Boots
<1>d. \A f \in Files : f \in Nat /\ ~(f < 1)
  BY MigrationsAssumption DEF Files
<1>e. \A q \in Boots : mig[q].next \in Nat /\ mig[q].next >= 1
  <2>1. \A q \in Boots : mig[q].next \in 1..MaxFiles + 1
    BY <1>a DEF MigRecord
  <2> QED
    BY <2>1, MigrationsAssumption
<1>f. /\ NotBooted \in MigRecord
      /\ \A r \in Digests : [NotBooted EXCEPT !.at = "waiting", !.release = r] \in MigRecord
  <2>1. 1 \in 1..MaxFiles + 1
    BY MigrationsAssumption
  <2> QED
    BY <2>1 DEF NotBooted, MigRecord, Digests
<1>1. ASSUME NEW p \in Boots, NEW release \in Digests, MigratorStarts(p, release)
      PROVE  MigrationsInvariant'
  <2>1. /\ mig[p].at = "off" /\ migLock' = migLock /\ schema' = schema
        /\ mig'[p].at = "waiting" /\ mig'[p].next = 1
    BY <1>a, <1>1 DEF MigratorStarts, MigRecord, NotBooted
  <2>2. \A q \in Boots \ {p} : mig'[q] = mig[q]
    BY <1>a, <1>1 DEF MigratorStarts
  <2>3. MigrationsTypeOK'
    <3>1. mig' \in [Boots -> MigRecord]
      BY <1>a, <1>f, <1>1 DEF MigratorStarts
    <3> QED
      BY <3>1, <1>a, <1>b, <1>1, MigrationsAssumption
      DEF MigratorStarts, MigrationsTypeOK, MigRecord
  <2>4. WorkOf(p)' /\ Verdict(p)'
    BY <1>0, <1>a, <1>c, <1>d, <2>1 DEF WorkOf, Verdict
  <2>5. ASSUME NEW q \in Boots \ {p} PROVE WorkOf(q)' /\ Verdict(q)'
    BY <1>0, <1>a, <1>c, <2>1, <2>2, OthersKept DEF WorkOf
  <2> QED
    BY <2>3, <2>4, <2>5 DEF MigrationsInvariant
<1>2. ASSUME NEW p \in Boots, MigrateLocks(p)
      PROVE  MigrationsInvariant'
  <2>1. /\ mig'[p].at = "locked" /\ migLock = "free" /\ migLock' = p /\ schema' = schema
        /\ mig'[p].next = mig[p].next /\ mig[p].at = "waiting"
    BY <1>a, <1>2 DEF MigrateLocks, MigRecord
  <2>2. \A q \in Boots \ {p} : mig'[q] = mig[q]
    BY <1>a, <1>2 DEF MigrateLocks, MigRecord
  <2>3. MigrationsTypeOK'
    BY <1>0, <1>a, <1>b, <1>2, MigrationsAssumption
    DEF MigrateLocks, MigrationsTypeOK, MigRecord
  <2>4. WorkOf(p)' /\ Verdict(p)'
    BY <1>0, <1>a, <1>c, <1>d, <2>1 DEF WorkOf, Verdict
  <2>5. ASSUME NEW q \in Boots \ {p} PROVE WorkOf(q)' /\ Verdict(q)'
    BY <1>0, <1>c, <2>1, <2>2, OthersKept
  <2> QED
    BY <2>3, <2>4, <2>5 DEF MigrationsInvariant
<1>3. ASSUME NEW p \in Boots, MigrateReads(p)
      PROVE  MigrationsInvariant'
  <2>1. /\ mig[p].at = "locked" /\ migLock' = migLock /\ schema' = schema
        /\ mig'[p].at = "files" /\ mig'[p].recorded = schema
        /\ mig'[p].next = mig[p].next /\ mig'[p].release = mig[p].release
    BY <1>a, <1>3 DEF MigrateReads, MigRecord
  <2>2. \A q \in Boots \ {p} : mig'[q] = mig[q]
    BY <1>a, <1>3 DEF MigrateReads, MigRecord
  <2>3. MigrationsTypeOK'
    BY <1>0, <1>a, <1>b, <1>3, MigrationsAssumption
    DEF MigrateReads, MigrationsTypeOK, MigRecord
  <2>4. WorkOf(p)' /\ Verdict(p)'
    BY <1>0, <1>a, <1>c, <1>d, <2>1 DEF WorkOf, Verdict
  <2>5. ASSUME NEW q \in Boots \ {p} PROVE WorkOf(q)' /\ Verdict(q)'
    BY <1>0, <1>c, <2>1, <2>2, OthersKept
  <2> QED
    BY <2>3, <2>4, <2>5 DEF MigrationsInvariant
<1>4. ASSUME NEW p \in Boots, MigrateFile(p)
      PROVE  MigrationsInvariant'
  <2> DEFINE f == mig[p].next
             known == mig[p].recorded[f]
  <2>1. /\ mig[p].at = "files" /\ f \in Files /\ migExits' = migExits
        /\ f + 1 \in 1..MaxFiles + 1
    <3>1. mig[p].at = "files" /\ f <= MaxFiles /\ migExits' = migExits
      BY <1>4 DEF MigrateFile
    <3> QED
      BY <3>1, <1>e, MigrationsAssumption DEF Files
  <2>2. migLock = p /\ known = schema[f]
    BY <1>0, <1>d, <2>1 DEF WorkOf
  <2>3. \A g \in Files : g < f + 1 <=> g < f \/ g = f
    BY <1>d, <2>1
  <2>4. CASE known \in Digests \ {Digest(p, f)}
    <3>1. /\ mig' = [mig EXCEPT ![p].at = "failed"]
          /\ migLock' = "free" /\ schema' = schema
      BY <1>4, <2>1, <2>2, <2>4 DEF MigrateFile, Unlocked, Digests
    <3>2. mig' \in [Boots -> MigRecord] /\ mig'[p].at = "failed"
          /\ Digest(p, f)' = Digest(p, f)
      BY <1>a, <3>1 DEF MigRecord, Digest
    <3>3. WorkOf(p)' /\ Verdict(p)'
      BY <1>c, <2>1, <2>2, <2>4, <3>1, <3>2 DEF WorkOf, Verdict
    <3> QED
      BY <1>a, <2>1, <2>2, <3>1, <3>2, <3>3, OneMoves
  <2>5. CASE known \in {"", Digest(p, f)}
    <3>1. /\ mig' = [mig EXCEPT ![p].next = f + 1] /\ migLock' = p
          /\ schema' = IF known = "" THEN [schema EXCEPT ![f] = Digest(p, f)] ELSE schema
      BY <1>4, <1>a, <2>1, <2>2, <2>5 DEF MigrateFile, Digests
    <3>2. /\ mig' \in [Boots -> MigRecord] /\ mig'[p].at = "files" /\ mig'[p].next = f + 1
          /\ mig'[p].recorded = mig[p].recorded
      BY <1>a, <2>1, <3>1 DEF MigRecord
    <3>3. \A g \in Files : Digest(p, g)' = Digest(p, g)
      BY <1>a, <3>1 DEF MigRecord, Digest
    <3>4. schema' \in [Files -> Digests \cup {"", "none"}] /\ schema'[f] = Digest(p, f)
          /\ \A g \in Files \ {f} : schema'[g] = schema[g]
      BY <1>a, <2>1, <2>2, <2>5, <3>1 DEF Digests
    <3>5. \A g \in Files : g >= f + 1 => g >= f /\ g # f
      BY <1>d, <1>e
    <3>6. WorkOf(p)' /\ Verdict(p)'
      <4>1. \A g \in Files : g < f => schema[g] = Digest(p, g)
        BY <1>0, <2>1 DEF WorkOf
      <4>2. \A g \in Files : g >= f => mig[p].recorded[g] = schema[g]
        BY <1>0, <2>1 DEF WorkOf
      <4>3. \A g \in Files : g < mig'[p].next => schema'[g] = Digest(p, g)'
        BY <4>1, <2>3, <3>2, <3>3, <3>4
      <4>4. \A g \in Files : g >= mig'[p].next => mig'[p].recorded[g] = schema'[g]
        BY <4>2, <3>5, <3>2, <3>4
      <4> QED
        BY <4>3, <4>4, <3>1, <3>2 DEF WorkOf, Verdict
    <3> QED
      BY <1>a, <2>1, <2>2, <3>1, <3>2, <3>4, <3>6, OneMoves DEF Digests
  <2>6. CASE known = "none"
    <3>1. /\ mig' = [mig EXCEPT ![p].at = "applying"] /\ migLock' = p
          /\ schema' = schema
      BY <1>4, <1>a, <2>1, <2>2, <2>6 DEF MigrateFile, Digests
    <3>2. /\ mig' \in [Boots -> MigRecord] /\ mig'[p].at = "applying" /\ mig'[p].next = f
          /\ mig'[p].recorded = mig[p].recorded
      BY <1>a, <2>1, <3>1 DEF MigRecord
    <3>3. \A g \in Files : Digest(p, g)' = Digest(p, g)
      BY <1>a, <3>1 DEF MigRecord, Digest
    <3>4. WorkOf(p)' /\ Verdict(p)'
      <4>1. \A g \in Files : g < f => schema[g] = Digest(p, g)
        BY <1>0, <2>1 DEF WorkOf
      <4>2. \A g \in Files : g >= f => mig[p].recorded[g] = schema[g]
        BY <1>0, <2>1 DEF WorkOf
      <4>3. \A g \in Files : g < mig'[p].next => schema'[g] = Digest(p, g)'
        BY <4>1, <3>1, <3>2, <3>3
      <4>4. \A g \in Files : g >= mig'[p].next => mig'[p].recorded[g] = schema'[g]
        BY <4>2, <3>1, <3>2
      <4>5. mig'[p].next \in Files /\ schema'[mig'[p].next] = "none"
        BY <2>1, <2>2, <2>6, <3>1, <3>2
      <4> QED
        BY <4>3, <4>4, <4>5, <3>1, <3>2 DEF WorkOf, Verdict
    <3> QED
      BY <1>a, <2>1, <2>2, <3>1, <3>2, <3>4, OneMoves
  <2>7. known \in Digests \cup {"", "none"}
    BY <1>a, <2>1, <2>2
  <2> QED
    BY <2>4, <2>5, <2>6, <2>7
<1>5. ASSUME NEW p \in Boots, MigrateCommits(p)
      PROVE  MigrationsInvariant'
  <2> DEFINE f == mig[p].next
  <2>1. /\ mig[p].at = "applying" /\ f \in Files /\ migExits' = migExits
        /\ f + 1 \in 1..MaxFiles + 1
    <3>1. mig[p].at = "applying" /\ migExits' = migExits
      BY <1>5 DEF MigrateCommits
    <3>2. f \in Files
      BY <1>0, <3>1 DEF WorkOf
    <3> QED
      BY <3>1, <3>2, <1>e, MigrationsAssumption DEF Files
  <2>2. migLock = p /\ schema[f] = "none"
    BY <1>0, <1>e, <2>1 DEF WorkOf
  <2>3. /\ schema' = [schema EXCEPT ![f] = Digest(p, f)] /\ migLock' = p
        /\ mig' = [mig EXCEPT ![p].at = "files", ![p].next = f + 1]
    BY <1>5, <1>a, <2>2 DEF MigrateCommits
  <2>4. /\ mig' \in [Boots -> MigRecord]
        /\ mig'[p].at = "files" /\ mig'[p].next = f + 1
        /\ mig'[p].recorded = mig[p].recorded
    BY <1>a, <2>1, <2>3 DEF MigRecord
  <2>5. \A g \in Files : Digest(p, g)' = Digest(p, g)
    BY <1>a, <2>3 DEF MigRecord, Digest
  <2>6. /\ schema' \in [Files -> Digests \cup {"", "none"}] /\ schema'[f] = Digest(p, f)
        /\ \A g \in Files \ {f} : schema'[g] = schema[g]
    BY <1>a, <2>1, <2>3
  <2>7. \A g \in Files : /\ g < f + 1 <=> g < f \/ g = f
                         /\ g >= f + 1 => g >= f /\ g # f
    BY <1>d, <1>e
  <2>8. WorkOf(p)' /\ Verdict(p)'
    <3>1. \A g \in Files : g < f => schema[g] = Digest(p, g)
      BY <1>0, <2>1 DEF WorkOf
    <3>2. \A g \in Files : g >= f => mig[p].recorded[g] = schema[g]
      BY <1>0, <2>1 DEF WorkOf
    <3>3. \A g \in Files : g < mig'[p].next => schema'[g] = Digest(p, g)'
      BY <3>1, <2>7, <2>4, <2>5, <2>6
    <3>4. \A g \in Files : g >= mig'[p].next => mig'[p].recorded[g] = schema'[g]
      BY <3>2, <2>7, <2>4, <2>6
    <3> QED
      BY <3>3, <3>4, <2>3, <2>4 DEF WorkOf, Verdict
  <2> QED
    BY <1>a, <2>1, <2>2, <2>3, <2>4, <2>6, <2>8, OneMoves DEF Digests
<1>6. ASSUME NEW p \in Boots, MigrateEnds(p)
      PROVE  MigrationsInvariant'
  <2>1. /\ mig[p].at = "files" /\ mig[p].next > MaxFiles /\ schema' = schema
        /\ mig'[p].at = "done" /\ migLock' = Unlocked(p)
        /\ \A f \in Files : Digest(p, f)' = Digest(p, f)
    BY <1>a, <1>6 DEF MigrateEnds, MigRecord, Digest
  <2>2. \A q \in Boots \ {p} : mig'[q] = mig[q]
    BY <1>a, <1>6 DEF MigrateEnds
  <2>3. MigrationsTypeOK'
    BY <1>0, <1>a, <1>b, <1>6, MigrationsAssumption
    DEF MigrateEnds, Unlocked, MigrationsTypeOK, MigRecord
  <2>4. WorkOf(p)' /\ Verdict(p)'
    <3>1. \A g \in Files : g < mig[p].next
      BY <1>e, <2>1, MigrationsAssumption DEF Files
    <3> QED
      BY <1>0, <1>a, <1>c, <2>1, <3>1 DEF WorkOf, Verdict, Unlocked
  <2>5. ASSUME NEW q \in Boots \ {p} PROVE WorkOf(q)' /\ Verdict(q)'
    BY <1>0, <1>a, <1>c, <2>1, <2>2, OthersKept DEF WorkOf, Unlocked
  <2> QED
    BY <2>3, <2>4, <2>5 DEF MigrationsInvariant
<1>7. ASSUME NEW p \in Boots, MigratorExits(p)
      PROVE  MigrationsInvariant'
  <2>1. /\ schema' = schema /\ migLock' = Unlocked(p)
        /\ mig'[p].at = "off" /\ mig'[p].next = 1
    BY <1>a, <1>7 DEF MigratorExits, MigRecord, NotBooted
  <2>2. \A q \in Boots \ {p} : mig'[q] = mig[q]
    BY <1>a, <1>7 DEF MigratorExits
  <2>3. MigrationsTypeOK'
    <3>1. mig' \in [Boots -> MigRecord]
      BY <1>a, <1>f, <1>7 DEF MigratorExits
    <3>2. migExits' \in 0..MaxMigExits
      BY <1>b, <1>7, MigrationsAssumption DEF MigratorExits
    <3>3. migLock' \in Boots \cup {"free"} /\ schema' = schema
      BY <1>b, <1>7 DEF MigratorExits, Unlocked
    <3> QED
      BY <3>1, <3>2, <3>3, <1>a DEF MigrationsTypeOK, MigRecord
  <2>4. WorkOf(p)' /\ Verdict(p)'
    BY <1>0, <1>a, <1>c, <1>d, <2>1 DEF WorkOf, Verdict, Unlocked
  <2>5. ASSUME NEW q \in Boots \ {p} PROVE WorkOf(q)' /\ Verdict(q)'
    BY <1>0, <1>a, <1>c, <2>1, <2>2, OthersKept DEF WorkOf, Unlocked
  <2> QED
    BY <2>3, <2>4, <2>5 DEF MigrationsInvariant
<1>8. CASE UNCHANGED migVars
  <2>1. MigrationsTypeOK'
    BY <1>0, <1>8 DEF migVars, MigrationsTypeOK
  <2>2. \A q \in Boots : WorkOf(q)' /\ Verdict(q)'
    BY <1>0, <1>8, OthersKept DEF migVars
  <2> QED
    BY <2>1, <2>2 DEF MigrationsInvariant
<1> QED
  BY <1>1, <1>2, <1>3, <1>4, <1>5, <1>6, <1>7, <1>8 DEF MigrationsNext

(* Every reachable state satisfies the invariant. *)
THEOREM MigrationsInvariantHolds == MigrationsSpec => []MigrationsInvariant
BY MigrationsInitOK, MigrationsStepOK, PTL DEF MigrationsSpec

(* Whoever starts first and whoever exits half-way: apply_migrations fails *)
(* only for a rewritten file, and where it succeeds the database stays as  *)
(* that process's release wants it.                                        *)
THEOREM BootsAgreeHolds == MigrationsSpec => []BootsAgree
<1>1. MigrationsInvariant => BootsAgree
  BY DEF MigrationsInvariant, Verdict, BootsAgree
<1> QED
  BY <1>1, MigrationsInvariantHolds, PTL

(***************************************************************************)
(* The recovery.                                                           *)
(*                                                                         *)
(* For any leftover runs and any number of exits: once the host serves, no *)
(* job of the last process is open (JobsStayClosed).  A job is closed      *)
(* before its request is, and its request before the run leaves the        *)
(* statuses a boot looks at, so whatever a boot cut short left open, the   *)
(* next one finds again.                                                   *)
(***************************************************************************)

LeftRequests ==
  [status : {"none", "pending", "once", "deny"},
   job : {"none", "queued", "acknowledged", "failed"}]
Statuses == {"running", "waiting_input", "waiting_takeover", "waiting_recovery", "ended"}
Orphaned == {"running", "waiting_input"}
Waits == [path : {"none", "continue", "check", "new_attempt"},
          bound : {"none", "ask", "card"}, recovered : BOOLEAN]
BootStates ==
  [at : {"down", "next", "bound", "closing", "denying", "parking", "parked", "carded",
   "serving"},
   run : Leftovers \cup {NoLeftover}, todo : SUBSET Leftovers]

RecoveryTypes ==
  /\ left \in [Leftovers -> Statuses]
  /\ request \in [Leftovers -> LeftRequests]
  /\ wait \in [Leftovers -> Waits]
  /\ boot \in BootStates

JobOpen(r) == request[r].job \in {"queued", "acknowledged"}

(* A boot finds an open job by its run and closes it by its request. *)
OpenIsFound == \A r \in Leftovers : JobOpen(r) => request[r].status = "pending" /\ left[r] \in Orphaned

(* An open job is still to do, or is the one at hand and not yet past its close. *)
OpenIsAhead ==
  boot.at # "down" =>
    \A r \in Leftovers : JobOpen(r) => r \in boot.todo \/ (r = boot.run /\ boot.at \in {"bound", "closing"})

NotKept == boot.at = "bound" => \A r \in Leftovers : r = boot.run /\ JobOpen(r) => ~KeepsParked(r)
AtHandIsTaken == boot.at \notin {"down", "next", "serving"} => boot.run \notin boot.todo
NothingToDo == boot.at = "serving" => boot.todo = {}
HandlerServes == handler # NoLeftover => boot.at = "serving"

RecoveryInvariant ==
  /\ RecoveryTypes
  /\ OpenIsFound /\ OpenIsAhead /\ NotKept
  /\ AtHandIsTaken /\ NothingToDo /\ HandlerServes

(* Once the host serves there is no open job. *)
LEMMA ServingIsClosed == RecoveryInvariant => JobsStayClosed
BY DEF RecoveryInvariant, JobsStayClosed, OpenIsAhead, NothingToDo, JobOpen

(* The last process leaves open jobs only behind pending requests. *)
LEMMA RecoveryInitOK == RecoveryInit => RecoveryInvariant
<1> SUFFICES ASSUME RecoveryInit PROVE RecoveryInvariant
  OBVIOUS
<1>1. PICK place \in [Leftovers -> TurnPlaces] :
        /\ left = [r \in Leftovers |-> place[r].left]
        /\ request = [r \in Leftovers |-> place[r].request]
  BY DEF RecoveryInit
<1>2. \A t \in TurnPlaces :
        /\ t.left \in Statuses /\ t.request \in LeftRequests
        /\ t.request.job \in {"queued", "acknowledged"} => t.request.status = "pending" /\ t.left \in Orphaned
  BY DEF TurnPlaces, Statuses, LeftRequests, Orphaned, Asks, NoRequest
<1>3. \A r \in Leftovers : place[r] \in TurnPlaces
  BY <1>1
<1>4. RecoveryTypes
  BY <1>1, <1>2, <1>3 DEF RecoveryInit, RecoveryTypes, Waits, BootStates, NoWait, Down
<1>5. OpenIsFound
  BY <1>1, <1>2, <1>3 DEF OpenIsFound, JobOpen
<1> QED
  BY <1>4, <1>5 DEF RecoveryInit, RecoveryInvariant, OpenIsAhead, NotKept, AtHandIsTaken, NothingToDo,
                    HandlerServes, Down

(* The steps that keep every request, the runs and the host's place. *)
LEMMA BootMoves ==
  ASSUME RecoveryInvariant, NEW at, boot' = [boot EXCEPT !.at = at],
         at \in {"next", "closing", "parking", "parked", "carded"},
         boot.at \in {"bound", "parking", "parked", "carded"},
         boot.at = "bound" => at = "closing" \/ (\A r \in Leftovers : r = boot.run => ~JobOpen(r)),
         request' = request, handler' = handler,
         left' \in [Leftovers -> Statuses], wait' \in [Leftovers -> Waits],
         \A r \in Leftovers : left'[r] = left[r] \/ ~JobOpen(r)
  PROVE  RecoveryInvariant'
<1>1. /\ boot' \in BootStates
      /\ boot'.at = at /\ boot'.run = boot.run /\ boot'.todo = boot.todo
  BY DEF RecoveryInvariant, RecoveryTypes, BootStates
<1>2. RecoveryTypes'
  BY <1>1 DEF RecoveryInvariant, RecoveryTypes
<1>3. \A r \in Leftovers : JobOpen(r)' <=> JobOpen(r)
  BY DEF JobOpen
<1>4. OpenIsFound'
  BY <1>3 DEF RecoveryInvariant, OpenIsFound
<1>5. OpenIsAhead'
  BY <1>1, <1>3 DEF RecoveryInvariant, OpenIsAhead
<1> QED
  BY <1>1, <1>2, <1>4, <1>5 DEF RecoveryInvariant, NotKept, AtHandIsTaken, NothingToDo, HandlerServes

(* The path of a run with an open job is to close it. *)
LEMMA OpenIsNotKept ==
  ASSUME RecoveryInvariant, NEW r \in Leftovers, JobOpen(r)
  PROVE  PathOf(r) \in {"check", "new_attempt"}
BY DEF RecoveryInvariant, OpenIsFound, JobOpen, Orphaned, PathOf

(* A request whose job changes. *)
LEMMA JobSteps ==
  ASSUME NEW x \in LeftRequests, NEW j \in {"none", "queued", "acknowledged", "failed"}
  PROVE  [x EXCEPT !.job = j] \in LeftRequests /\ [x EXCEPT !.job = j].job = j
BY DEF LeftRequests

(* The same for its status. *)
LEMMA AnswerSteps ==
  ASSUME NEW x \in LeftRequests, NEW s \in {"none", "pending", "once", "deny"}
  PROVE  [x EXCEPT !.status = s] \in LeftRequests /\ [x EXCEPT !.status = s].job = x.job
BY DEF LeftRequests

(* Every action keeps the invariant. *)
LEMMA RecoveryStepOK == RecoveryInvariant /\ [RecoveryNext]_recoveryVars => RecoveryInvariant'
<1> SUFFICES ASSUME RecoveryInvariant, [RecoveryNext]_recoveryVars PROVE RecoveryInvariant'
  OBVIOUS
<1>0. /\ left \in [Leftovers -> Statuses] /\ request \in [Leftovers -> LeftRequests]
      /\ wait \in [Leftovers -> Waits] /\ boot \in BootStates
  BY DEF RecoveryInvariant, RecoveryTypes
<1>1. ASSUME RecoverOrphanedRuns PROVE RecoveryInvariant'
  <2>1. boot' = [at |-> "next", run |-> NoLeftover,
                 todo |-> {r \in Leftovers : left[r] \in {"running", "waiting_input", "waiting_takeover"}}]
    BY <1>1 DEF RecoverOrphanedRuns, Down
  <2>2. left' = left /\ request' = request /\ wait' = wait /\ handler' = handler /\ boot.at = "down"
    BY <1>1 DEF RecoverOrphanedRuns
  <2>3. RecoveryTypes'
    BY <1>0, <2>1, <2>2 DEF RecoveryTypes, BootStates
  <2> QED
    BY <1>0, <2>1, <2>2, <2>3 DEF RecoveryInvariant, OpenIsFound, OpenIsAhead, NotKept, AtHandIsTaken, NothingToDo,
                                  HandlerServes, JobOpen, Orphaned
<1>2. ASSUME NEW r \in Leftovers, RecoverNext(r) PROVE RecoveryInvariant'
  <2>1. /\ boot' = [at |-> "bound", run |-> r, todo |-> boot.todo \ {r}] /\ boot.at = "next"
        /\ left' = left /\ request' = request /\ handler' = handler
    BY <1>2 DEF RecoverNext
  <2>2. PathOf(r) \in {"continue", "check", "new_attempt"}
    BY DEF PathOf
  <2>3. wait' \in [Leftovers -> Waits] /\ wait'[r].path = PathOf(r)
    BY <1>0, <1>2, <2>2 DEF RecoverNext, BindRunWait, Waits
  <2>4. RecoveryTypes'
    BY <1>0, <2>1, <2>3 DEF RecoveryTypes, BootStates
  <2>5. ~(JobOpen(r) /\ wait'[r].path = "continue")
    BY <2>3, OpenIsNotKept
  <2> QED
    BY <1>0, <2>1, <2>4, <2>5 DEF RecoveryInvariant, OpenIsFound, OpenIsAhead, NotKept, AtHandIsTaken, NothingToDo,
                                  HandlerServes, JobOpen, KeepsParked
<1>3. ASSUME NEW r \in Leftovers, MarkRunWaitRecovered(r) PROVE RecoveryInvariant'
  <2>1. PICK at \in {"next", "closing", "parking"} :
          /\ boot' = [boot EXCEPT !.at = at]
          /\ at = "next" => KeepsParked(r)
          /\ at = "parking" => request[r].status # "pending"
    BY <1>3 DEF MarkRunWaitRecovered, To
  <2>2. /\ boot.at = "bound" /\ boot.run = r /\ left' = left /\ request' = request
        /\ handler' = handler /\ wait' \in [Leftovers -> Waits]
    BY <1>0, <1>3 DEF MarkRunWaitRecovered, Waits
  <2>3. at = "closing" \/ ~JobOpen(r)
    BY <2>1, <2>2 DEF RecoveryInvariant, NotKept, OpenIsFound
  <2> QED
    BY <1>0, <2>1, <2>2, <2>3, BootMoves
<1>4. ASSUME NEW r \in Leftovers, CloseNonContinueConsent(r) PROVE RecoveryInvariant'
  <2>1. /\ boot.run = r /\ left' = left /\ wait' = wait /\ handler' = handler
        /\ boot.at \in {"closing", "denying"}
        /\ boot' \in BootStates /\ boot'.run = boot.run /\ boot'.todo = boot.todo
        /\ boot'.at = IF boot.at = "closing" THEN "denying" ELSE "parking"
    BY <1>0, <1>4 DEF CloseNonContinueConsent, To, BootStates
  <2>2. request[r] \in LeftRequests
    BY <1>0
  <2>3. PICK x \in LeftRequests :
          /\ request' = [request EXCEPT ![r] = x]
          /\ x.job \notin {"queued", "acknowledged"}
    <3>1. CASE boot.at = "closing"
      <4> DEFINE j == IF request[r].job \in {"queued", "acknowledged"} THEN "failed" ELSE request[r].job
      <4>1. j \in {"none", "failed"}
        BY <2>2 DEF LeftRequests
      <4>2. request' = [request EXCEPT ![r] = [request[r] EXCEPT !.job = j]]
        BY <1>4, <3>1 DEF CloseNonContinueConsent, JobFails
      <4> HIDE DEF j
      <4>3. [request[r] EXCEPT !.job = j] \in LeftRequests /\ [request[r] EXCEPT !.job = j].job = j
        BY <2>2, <4>1, JobSteps
      <4> QED
        BY <4>1, <4>2, <4>3
    <3>2. CASE boot.at = "denying"
      <4> DEFINE s == IF request[r].status = "pending" THEN "deny" ELSE request[r].status
      <4>1. s \in {"none", "pending", "once", "deny"}
        BY <2>2 DEF LeftRequests
      <4>2. request' = [request EXCEPT ![r] = [request[r] EXCEPT !.status = s]]
        BY <1>4, <3>2 DEF CloseNonContinueConsent, Denied
      <4> HIDE DEF s
      <4>3. /\ [request[r] EXCEPT !.status = s] \in LeftRequests
            /\ [request[r] EXCEPT !.status = s].job = request[r].job
        BY <2>2, <4>1, AnswerSteps
      <4>4. ~JobOpen(r)
        BY <2>1, <3>2 DEF RecoveryInvariant, OpenIsAhead, AtHandIsTaken
      <4> QED
        BY <4>2, <4>3, <4>4 DEF JobOpen
    <3> QED
      BY <2>1, <3>1, <3>2
  <2>4. /\ request' \in [Leftovers -> LeftRequests] /\ ~JobOpen(r)'
        /\ \A q \in Leftovers : q # r => request'[q] = request[q]
    BY <1>0, <2>3 DEF JobOpen
  <2>5. \A q \in Leftovers : q # r => (JobOpen(q)' <=> JobOpen(q))
    BY <2>4 DEF JobOpen
  <2>6. RecoveryTypes'
    BY <1>0, <2>1, <2>4 DEF RecoveryTypes
  <2>7. OpenIsFound'
    BY <2>1, <2>4, <2>5 DEF RecoveryInvariant, OpenIsFound
  <2>8. OpenIsAhead'
    BY <2>1, <2>4, <2>5 DEF RecoveryInvariant, OpenIsAhead
  <2> QED
    BY <2>1, <2>6, <2>7, <2>8 DEF RecoveryInvariant, NotKept, AtHandIsTaken, NothingToDo, HandlerServes
<1>5. ASSUME NEW r \in Leftovers, ParkRecoveryRun(r) \/ AppendCard(r) \/ BindCard(r)
      PROVE  RecoveryInvariant'
  <2>1. PICK at \in {"parked", "carded", "next"} : boot' = [boot EXCEPT !.at = at]
    BY <1>5 DEF ParkRecoveryRun, AppendCard, BindCard, To
  <2>2. /\ boot.at \in {"parking", "parked", "carded"} /\ boot.run = r
        /\ request' = request /\ handler' = handler
        /\ left' = left \/ left' = [left EXCEPT ![r] = "waiting_recovery"]
        /\ wait' = wait \/ BindRunWait(r, wait[r].path, "card")
    BY <1>5 DEF ParkRecoveryRun, AppendCard, BindCard
  <2>3. wait' \in [Leftovers -> Waits]
    BY <1>0, <2>2 DEF BindRunWait, Waits
  <2>4. left' \in [Leftovers -> Statuses] /\ \A q \in Leftovers : q # r => left'[q] = left[q]
    BY <1>0, <2>2 DEF Statuses
  <2>5. ~JobOpen(r)
    BY <2>2 DEF RecoveryInvariant, OpenIsAhead, AtHandIsTaken
  <2> QED
    BY <2>1, <2>2, <2>3, <2>4, <2>5, BootMoves
<1>6. ASSUME Serve \/ BootExits PROVE RecoveryInvariant'
  <2>1. left' = left /\ request' = request /\ wait' = wait
    BY <1>6 DEF Serve, BootExits
  <2>2. \/ /\ boot' = [at |-> "serving", run |-> NoLeftover, todo |-> {}] /\ handler' = handler
           /\ boot.at = "next" /\ boot.todo = {}
        \/ boot' = [at |-> "down", run |-> NoLeftover, todo |-> {}] /\ handler' = NoLeftover
    BY <1>6 DEF Serve, BootExits, Down
  <2>3. RecoveryTypes'
    BY <1>0, <2>1, <2>2 DEF RecoveryTypes, BootStates
  <2> QED
    BY <1>0, <2>1, <2>2, <2>3 DEF RecoveryInvariant, OpenIsFound, OpenIsAhead, NotKept, AtHandIsTaken,
                                  NothingToDo, HandlerServes, JobOpen
<1>7. ASSUME NEW r \in Leftovers,
             ResolveRunRecovery(r) \/ AnswerQuestion(r) \/ AnswerConsent(r) \/ StopThread(r) \/ EndParkedRun
      PROVE  RecoveryInvariant'
  <2>1. boot.at = "serving" /\ boot' = boot /\ wait' = wait
    BY <1>7 DEF ResolveRunRecovery, AnswerQuestion, AnswerConsent, StopThread, EndParkedRun, Serving,
                RecoveryInvariant, HandlerServes
  <2>2. left' \in [Leftovers -> Statuses]
    BY <1>0, <1>7 DEF ResolveRunRecovery, AnswerQuestion, AnswerConsent, StopThread, EndParkedRun,
                      Statuses
  <2>3. request' \in [Leftovers -> LeftRequests] /\ \A q \in Leftovers : request'[q].job = request[q].job
    <3>1. CASE request' = request
      BY <1>0, <3>1
    <3>2. ASSUME NEW decision \in {"once", "deny"}, request' = [request EXCEPT ![r].status = decision]
          PROVE  request' \in [Leftovers -> LeftRequests] /\ \A q \in Leftovers : request'[q].job = request[q].job
      <4>1. request[r] \in LeftRequests
        BY <1>0
      <4> DEFINE x == [request[r] EXCEPT !.status = decision]
      <4>2. x \in LeftRequests /\ x.job = request[r].job
        BY <4>1, AnswerSteps
      <4>3. request' = [request EXCEPT ![r] = x]
        BY <3>2
      <4> HIDE DEF x
      <4> QED
        BY <1>0, <4>2, <4>3
    <3> QED
      BY <1>7, <3>1, <3>2 DEF ResolveRunRecovery, AnswerQuestion, AnswerConsent, StopThread, EndParkedRun
  <2>4. \A q \in Leftovers : ~JobOpen(q) /\ ~JobOpen(q)'
    BY <2>1, <2>3 DEF RecoveryInvariant, OpenIsAhead, NothingToDo, JobOpen
  <2>5. RecoveryTypes'
    BY <1>0, <2>1, <2>2, <2>3 DEF RecoveryTypes
  <2> QED
    BY <2>1, <2>4, <2>5 DEF RecoveryInvariant, OpenIsFound, OpenIsAhead, NotKept, AtHandIsTaken,
                            NothingToDo, HandlerServes
<1>8. ASSUME EndParkedRun, Leftovers = {} PROVE RecoveryInvariant'
  <2>1. boot' = boot /\ wait' = wait /\ request' = request /\ left' = [left EXCEPT ![handler] = "ended"]
        /\ handler' = NoLeftover
    BY <1>8 DEF EndParkedRun
  <2>2. RecoveryTypes'
    BY <1>0, <1>8, <2>1 DEF RecoveryTypes
  <2> QED
    BY <1>8, <2>1, <2>2 DEF RecoveryInvariant, OpenIsFound, OpenIsAhead, NotKept, AtHandIsTaken,
                            NothingToDo, HandlerServes
<1>9. CASE UNCHANGED recoveryVars
  BY <1>9 DEF recoveryVars, RecoveryInvariant, RecoveryTypes, OpenIsFound, OpenIsAhead, NotKept,
              AtHandIsTaken, NothingToDo, HandlerServes, JobOpen, KeepsParked
<1> QED
  BY <1>1, <1>2, <1>3, <1>4, <1>5, <1>6, <1>7, <1>8, <1>9 DEF RecoveryNext

----------------------------------------------------------------------------
(* What a boot relies on when it is cut short at any commit. *)
THEOREM RecoveryInvariantHolds == RecoverySpec => []RecoveryInvariant
BY RecoveryInitOK, RecoveryStepOK, PTL DEF RecoverySpec

(* JobsStayClosed: queued owner jobs are not replayed (recover_orphaned_runs,
   _close_non_continue_consent), over any number of exits while booting. *)
THEOREM JobsStayClosedHolds == RecoverySpec => []JobsStayClosed
BY RecoveryInvariantHolds, ServingIsClosed, PTL


(***************************************************************************)
(* The statements of a migration file.                                     *)
(*                                                                         *)
(* For a file of any number of tokens: what the splitter emits is what the *)
(* file says (SplitsAsMeant).  The splitter is always at some character of *)
(* one token, in the state that token and that character determine         *)
(* (InToken), and what it has emitted and buffered by the token's start is *)
(* what the tokens before it say (Collected).  Tokens follow each other    *)
(* in the text at offsets, and what _only_trivia makes of a statement is   *)
(* found token by token.  Facts about sequences of any length rest on      *)
(* CountUp, an induction over a set of numbers.                            *)
(***************************************************************************)

(* Counting up: a set that has 0 and with k - 1 also k has all of 0..n. *)
LEMMA CountUp ==
  ASSUME NEW n \in Nat, NEW S, 0 \in S, \A k \in 1..n : k - 1 \in S => k \in S
  PROVE  \A k \in 0..n : k \in S
<1> DEFINE T == {k \in 0..n : k \notin S}
<1>0. T \subseteq Nat /\ \A k : k \in T <=> k \in 0..n /\ k \notin S
  OBVIOUS
<1> HIDE DEF T
<1>1. SUFFICES ASSUME T # {} PROVE FALSE
  BY <1>0
<1>2. PICK x \in T : \A y \in T : ~(<<y, x>> \in OpToRel(<, Nat))
  BY <1>0, <1>1, NatLessThanWellFounded, WFMin
<1>3. x \in 0..n /\ x # 0
  BY <1>0
<1>4. x \in 1..n /\ x - 1 \in 0..n /\ x - 1 \in Nat /\ x \in Nat /\ x - 1 < x
  BY <1>3
<1>5. x - 1 \in T
  BY <1>0, <1>4
<1>6. <<x - 1, x>> \in OpToRel(<, Nat)
  BY <1>4 DEF OpToRel
<1> QED  BY <1>2, <1>5, <1>6

(* A value for 0, and one for k from that for k - 1, make a function. *)
CountsWith(n, V, a, G) == n \in Nat /\ a \in V /\ G \in [V \X (1..n) -> V]
Counts(f, n, V, a, G) ==
  f \in [0..n -> V] /\ f[0] = a /\ \A k \in 1..n : f[k] = G[<<f[k - 1], k>>]

LEMMA CountingFunction ==
  ASSUME NEW n, NEW V, NEW a, NEW G, CountsWith(n, V, a, G)
  PROVE  \E f : Counts(f, n, V, a, G)
<1> USE DEF CountsWith
<1> DEFINE Upto(m) == \E f \in [0..m -> V] :
                        f[0] = a /\ \A k \in 1..m : f[k] = G[<<f[k - 1], k>>]
           S == {m \in 0..n : Upto(m)}
<1>1. 0 \in S
  <2> DEFINE g == [i \in 0..0 |-> a]
  <2>1. g \in [0..0 -> V] /\ g[0] = a
    OBVIOUS
  <2>2. \A k \in 1..0 : g[k] = G[<<g[k - 1], k>>]
    OBVIOUS
  <2>3. Upto(0)
    <3> HIDE DEF g
    <3> QED  BY <2>1, <2>2
  <2>4. 0 \in 0..n
    OBVIOUS
  <2> HIDE DEF Upto
  <2> QED  BY <2>3, <2>4
<1>2. ASSUME NEW m \in 1..n, m - 1 \in S PROVE m \in S
  <2>0. Upto(m - 1)
    <3> HIDE DEF Upto
    <3> QED  BY <1>2
  <2>1. PICK f \in [0..(m - 1) -> V] :
          f[0] = a /\ \A k \in 1..(m - 1) : f[k] = G[<<f[k - 1], k>>]
    BY <2>0
  <2> DEFINE v == G[<<f[m - 1], m>>]
  <2> DEFINE g == [i \in 0..m |-> IF i = m THEN v ELSE f[i]]
  <2>2. v \in V
    <3>1. <<f[m - 1], m>> \in V \X (1..n)
      OBVIOUS
    <3> QED  BY <3>1
  <2>3. g \in [0..m -> V]
    <3> HIDE DEF v
    <3> QED  BY <2>2
  <2>4. g[0] = a
    BY <2>1
  <2>5. ASSUME NEW k \in 1..m PROVE g[k] = G[<<g[k - 1], k>>]
    <3>1. k - 1 \in 0..m /\ k - 1 # m /\ k \in 0..m
      OBVIOUS
    <3>2. g[k - 1] = f[k - 1]
      BY <3>1
    <3>3. CASE k = m
      BY <3>1, <3>2, <3>3
    <3>4. CASE k # m
      <4>1. k \in 1..(m - 1)
        BY <3>4
      <4>2. g[k] = f[k]
        BY <3>1, <3>4
      <4> QED  BY <2>1, <3>2, <4>1, <4>2
    <3> QED  BY <3>3, <3>4
  <2>6. Upto(m)
    <3> HIDE DEF g
    <3> QED  BY <2>3, <2>4, <2>5
  <2> HIDE DEF Upto
  <2> QED  BY <2>6
<1>3. n \in S
  <2> HIDE DEF S
  <2> QED  BY <1>1, <1>2, CountUp
<1>4. Upto(n)
  <2> HIDE DEF Upto
  <2> QED  BY <1>3
<1> QED  BY <1>4 DEF Counts

(* FlattenSeq, as its definition says, goes through a sequence of sequences. *)
LEMMA FlatAsFunction ==
  ASSUME NEW C, NEW s \in Seq(Seq(C)), Len(s) # 0
  PROVE  \E f \in [1..Len(s) -> Seq(C)] :
           /\ f[1] = s[1] /\ \A k \in 2..Len(s) : f[k] = f[k - 1] \o s[k]
           /\ FlattenSeq(s) = f[Len(s)]
<1> DEFINE n == Len(s)
           G == [p \in Seq(C) \X (1..n) |-> p[1] \o s[p[2]]]
           body(f) == [i \in 1..n |-> IF i = 1 THEN s[i] ELSE f[i - 1] \o s[i]]
           flat == CHOOSE f : f = body(f)
<1>0. n \in Nat \ {0} /\ \A i \in 1..n : s[i] \in Seq(C)
  BY ElementOfSeq, LenProperties
<1>1. PICK f \in [0..n -> Seq(C)] : f[0] = <<>> /\ \A k \in 1..n : f[k] = f[k - 1] \o s[k]
  <2>1. \A v \in Seq(C), k \in 1..n : v \o s[k] \in Seq(C)
    BY <1>0, ConcatProperties
  <2>2. G \in [Seq(C) \X (1..n) -> Seq(C)]
    <3> HIDE DEF n
    <3> QED  BY <2>1
  <2>3. \A v \in Seq(C), k \in 1..n : G[<<v, k>>] = v \o s[k]
    <3> HIDE DEF n
    <3> QED  OBVIOUS
  <2>4. <<>> \in Seq(C)
    BY EmptySeq
  <2> HIDE DEF G, n
  <2>5. PICK f \in [0..n -> Seq(C)] : f[0] = <<>> /\ \A k \in 1..n : f[k] = G[<<f[k - 1], k>>]
    <3>1. CountsWith(n, Seq(C), <<>>, G)
      BY <1>0, <2>2, <2>4 DEF CountsWith
    <3>2. PICK f : Counts(f, n, Seq(C), <<>>, G)
      BY <3>1, CountingFunction
    <3> QED  BY <3>2 DEF Counts
  <2>6. ASSUME NEW k \in 1..n PROVE f[k] = f[k - 1] \o s[k]
    <3>1. f[k - 1] \in Seq(C)
      BY <1>0
    <3> QED  BY <2>3, <2>5, <3>1
  <2> QED  BY <2>5, <2>6
<1> DEFINE h == [i \in 1..n |-> f[i]]
<1>3. h = body(h)
  <2>1. ASSUME NEW i \in 1..n PROVE h[i] = IF i = 1 THEN s[i] ELSE h[i - 1] \o s[i]
    <3> HIDE DEF n
    <3>1. CASE i = 1
      <4>1. f[1] = <<>> \o s[1]
        <5>0. f[i] = f[i - 1] \o s[i]
          BY <1>1
        <5>1. f[i] = f[i - 1] \o s[i] /\ i - 1 = 0
          BY <5>0, <3>1
        <5> QED  BY <1>1, <3>1, <5>1
      <4>2. f[1] = s[1]
        BY <1>0, <4>1, <3>1, ConcatEmptySeq
      <4> QED  BY <3>1, <4>2
    <3>2. CASE i # 1
      <4>1. i - 1 \in 1..n
        BY <1>0, <3>2
      <4> QED  BY <1>1, <3>2, <4>1
    <3> QED  BY <3>1, <3>2
  <2> HIDE DEF n
  <2> QED  BY <2>1
<1>4. flat = body(flat)
  <2> HIDE DEF body, h
  <2> QED  BY <1>3
<1>5. FlattenSeq(s) = flat[n]
  BY <1>0 DEF FlattenSeq
<1> HIDE DEF flat, n
<1>6. \A i \in 1..n : flat[i] = IF i = 1 THEN s[i] ELSE flat[i - 1] \o s[i]
  BY <1>4
<1>7. \A i \in 1..n : flat[i] \in Seq(C)
  <2> DEFINE S == {k \in 0..n : k # 0 => flat[k] \in Seq(C)}
  <2>1. ASSUME NEW k \in 1..n, k - 1 \in S PROVE k \in S
    <3>1. CASE k = 1
      <4>1. flat[k] = s[k] /\ s[k] \in Seq(C) /\ k \in 0..n
        BY <1>0, <1>6, <3>1
      <4> QED  BY <4>1
    <3>2. CASE k # 1
      <4>1. k - 1 \in 0..n /\ flat[k - 1] \in Seq(C)
        BY <1>0, <2>1, <3>2
      <4>2. flat[k] = flat[k - 1] \o s[k] /\ s[k] \in Seq(C)
        BY <1>0, <1>6, <3>2
      <4>3. flat[k] \in Seq(C)
        BY <4>1, <4>2, ConcatProperties
      <4> QED  BY <4>3
    <3> QED  BY <3>1, <3>2
  <2>2. 0 \in S
    BY <1>0
  <2>3. \A k \in 0..n : k \in S
    <3> HIDE DEF S
    <3> QED  BY <1>0, <2>1, <2>2, CountUp
  <2> QED  BY <2>3
<1>8. flat \in [1..n -> Seq(C)]
  <2>1. flat = [i \in 1..n |-> flat[i]]
    BY <1>4
  <2> QED  BY <1>7, <2>1
<1>9. flat[1] = s[1] /\ \A k \in 2..n : flat[k] = flat[k - 1] \o s[k]
  <2>1. 1 \in 1..n /\ \A k \in 2..n : k \in 1..n /\ k # 1
    BY <1>0
  <2> QED  BY <1>6, <2>1
<1>10. FlattenSeq(s) = flat[n] /\ flat \in [1..n -> Seq(C)]
  BY <1>5, <1>8
<1> QED  BY <1>9, <1>10 DEF n

(* The text of sequences over C is one. *)
LEMMA FlatType ==
  ASSUME NEW C, NEW s \in Seq(Seq(C))
  PROVE  FlattenSeq(s) \in Seq(C)
<1>1. CASE Len(s) = 0
  <2>1. s = <<>>
    BY <1>1, EmptySeq
  <2>2. FlattenSeq(s) = <<>>
    BY <1>1, <2>1 DEF FlattenSeq
  <2> QED  BY <2>2, EmptySeq
<1>2. CASE Len(s) # 0
  <2>1. PICK f \in [1..Len(s) -> Seq(C)] : FlattenSeq(s) = f[Len(s)]
    BY <1>2, FlatAsFunction
  <2>2. Len(s) \in 1..Len(s)
    BY <1>2, LenProperties
  <2> QED  BY <2>1, <2>2
<1> QED  BY <1>1, <1>2

(* One more sequence in the sequence goes to the end of the text. *)
LEMMA FlatAppend ==
  ASSUME NEW C, NEW s \in Seq(Seq(C)), NEW t \in Seq(C)
  PROVE  FlattenSeq(Append(s, t)) = FlattenSeq(s) \o t
<1> DEFINE u == Append(s, t)
           n == Len(s)
<1>1. /\ u \in Seq(Seq(C)) /\ n \in Nat /\ Len(u) = n + 1 /\ u[n + 1] = t
      /\ \A i \in 1..n : u[i] = s[i]
  BY AppendProperties, LenProperties
<1>2. PICK g \in [1..(n + 1) -> Seq(C)] :
        /\ g[1] = u[1] /\ \A k \in 2..(n + 1) : g[k] = g[k - 1] \o u[k]
        /\ FlattenSeq(u) = g[n + 1]
  <2>1. Len(u) # 0
    BY <1>1
  <2> HIDE DEF u
  <2>2. PICK g \in [1..Len(u) -> Seq(C)] :
          /\ g[1] = u[1] /\ \A k \in 2..Len(u) : g[k] = g[k - 1] \o u[k]
          /\ FlattenSeq(u) = g[Len(u)]
    BY <1>1, <2>1, FlatAsFunction
  <2>3. Len(u) = n + 1
    BY <1>1
  <2> HIDE DEF n
  <2> QED  BY <2>2, <2>3
<1>3. CASE n = 0
  <2>1. s = <<>>
    BY <1>3, EmptySeq
  <2>2. FlattenSeq(s) = <<>>
    BY <1>3, <2>1 DEF FlattenSeq
  <2>3. g[n + 1] = t
    BY <1>1, <1>2, <1>3
  <2> QED  BY <1>2, <2>2, <2>3, ConcatEmptySeq
<1>4. CASE n # 0
  <2>1. PICK f \in [1..n -> Seq(C)] :
          /\ f[1] = s[1] /\ \A k \in 2..n : f[k] = f[k - 1] \o s[k]
          /\ FlattenSeq(s) = f[n]
    BY <1>4, FlatAsFunction
  <2> DEFINE S == {k \in 0..n : k # 0 => g[k] = f[k]}
  <2>2. 0 \in S
    BY <1>1
  <2>3. ASSUME NEW k \in 1..n, k - 1 \in S PROVE k \in S
    <3> HIDE DEF u, n
    <3>1. CASE k = 1
      <4>1. g[k] = f[k]
        BY <1>1, <1>2, <1>4, <2>1, <3>1
      <4> QED  BY <1>1, <4>1
    <3>2. CASE k # 1
      <4>1. g[k - 1] = f[k - 1]
        BY <1>1, <2>3, <3>2
      <4>2. k \in 2..(n + 1) /\ k \in 2..n
        BY <1>1, <3>2
      <4>3. g[k] = g[k - 1] \o u[k] /\ f[k] = f[k - 1] \o s[k] /\ u[k] = s[k]
        BY <1>1, <1>2, <2>1, <4>2
      <4>4. g[k] = f[k]
        BY <4>1, <4>3
      <4> QED  BY <1>1, <4>4
    <3> QED  BY <3>1, <3>2
  <2>4. n \in S
    <3> HIDE DEF S
    <3>1. \A k \in 0..n : k \in S
      BY <1>1, <2>2, <2>3, CountUp
    <3> QED  BY <1>1, <3>1
  <2> HIDE DEF u
  <2>5. g[n] = f[n]
    BY <1>4, <2>4
  <2>6. g[n + 1] = g[n] \o t
    <3>1. n + 1 \in 2..(n + 1) /\ (n + 1) - 1 = n
      BY <1>1, <1>4
    <3> HIDE DEF n
    <3> QED  BY <1>1, <1>2, <3>1
  <2> QED  BY <1>2, <2>1, <2>5, <2>6 DEF u
<1> QED  BY <1>3, <1>4

(* The text of the first k tokens of T. *)
Before(T, k) == FlattenSeq(SubSeq(T, 1, k))

(* The text grows by one token at a time. *)
LEMMA BeforeGrows ==
  ASSUME NEW C, NEW T \in Seq(Seq(C))
  PROVE  /\ Before(T, 0) = <<>> /\ Before(T, Len(T)) = FlattenSeq(T)
         /\ \A k \in 0..Len(T) : Before(T, k) \in Seq(C)
         /\ \A k \in 1..Len(T) : Before(T, k) = Before(T, k - 1) \o T[k]
<1>0. Len(T) \in Nat /\ T \in [1..Len(T) -> Seq(C)]
  BY LenProperties
<1>1. ASSUME NEW k \in 0..Len(T) PROVE SubSeq(T, 1, k) \in Seq(Seq(C))
  <2>1. \A i \in 1..k : T[i] \in Seq(C)
    BY <1>0
  <2> QED  BY <2>1, SubSeqProperties
<1>2. Before(T, 0) = <<>>
  <2>1. SubSeq(T, 1, 0) = <<>>
    BY SubSeqEmpty
  <2>2. Len(<<>>) = 0
    BY EmptySeq
  <2> QED  BY <2>1, <2>2 DEF Before, FlattenSeq
<1>3. Before(T, Len(T)) = FlattenSeq(T)
  BY SubSeqFull DEF Before
<1>4. ASSUME NEW k \in 1..Len(T) PROVE Before(T, k) = Before(T, k - 1) \o T[k]
  <2>1. SubSeq(T, 1, k) = SubSeq(T, 1, k - 1) \o <<T[k]>>
    <3>1. 1 \in 1..Len(T)
      BY <1>0
    <3> QED  BY <3>1, SubSeqRecursiveSecond
  <2>2. SubSeq(T, 1, k - 1) \in Seq(Seq(C)) /\ T[k] \in Seq(C)
    <3>1. k - 1 \in 0..Len(T)
      BY <1>0
    <3> QED  BY <1>0, <1>1, <3>1
  <2>3. SubSeq(T, 1, k) = Append(SubSeq(T, 1, k - 1), T[k])
    BY <2>1, <2>2, AppendIsConcat
  <2> QED  BY <2>2, <2>3, FlatAppend DEF Before
<1>5. ASSUME NEW k \in 0..Len(T) PROVE Before(T, k) \in Seq(C)
  BY <1>1, FlatType DEF Before
<1> QED  BY <1>2, <1>3, <1>4, <1>5

(* Where the characters of two texts stand when joined. *)
LEMMA Joined ==
  ASSUME NEW C, NEW s \in Seq(C), NEW t \in Seq(C)
  PROVE  /\ Len(s) \in Nat /\ Len(t) \in Nat /\ Len(s \o t) = Len(s) + Len(t)
         /\ \A j \in 1..Len(s) : (s \o t)[j] = s[j]
         /\ \A j \in 1..Len(t) : (s \o t)[Len(s) + j] = t[j]
<1>1. Len(s) \in Nat /\ Len(t) \in Nat
  BY LenProperties
<1>2. /\ Len(s \o t) = Len(s) + Len(t)
      /\ \A i \in 1..(Len(s) + Len(t)) :
           (s \o t)[i] = IF i <= Len(s) THEN s[i] ELSE t[i - Len(s)]
  BY ConcatProperties
<1>3. ASSUME NEW j \in 1..Len(t) PROVE (s \o t)[Len(s) + j] = t[j]
  <2>1. /\ Len(s) + j \in 1..(Len(s) + Len(t)) /\ ~(Len(s) + j <= Len(s))
        /\ (Len(s) + j) - Len(s) = j
    BY <1>1
  <2> QED  BY <1>2, <2>1
<1>4. ASSUME NEW j \in 1..Len(s) PROVE (s \o t)[j] = s[j]
  <2>1. j \in 1..(Len(s) + Len(t)) /\ j <= Len(s)
    BY <1>1
  <2> QED  BY <1>2, <2>1
<1> QED  BY <1>1, <1>2, <1>3, <1>4

(* Where a token stands in the text, and what stands there. *)
LEMMA TokenInText ==
  ASSUME NEW C, NEW T \in Seq(Seq(C))
  PROVE  /\ FlattenSeq(T) \in Seq(C) /\ Len(Before(T, 0)) = 0
         /\ Len(FlattenSeq(T)) = Len(Before(T, Len(T)))
         /\ \A k \in 0..Len(T) : Len(Before(T, k)) \in 0..Len(FlattenSeq(T))
         /\ \A k \in 1..Len(T) : /\ Len(Before(T, k)) = Len(Before(T, k - 1)) + Len(T[k])
                                 /\ \A j \in 1..Len(T[k]) :
                                      FlattenSeq(T)[Len(Before(T, k - 1)) + j] = T[k][j]
<1> DEFINE N == Len(T)
           B(k) == Before(T, k)
           x == FlattenSeq(T)
<1>0. /\ N \in Nat /\ T \in [1..N -> Seq(C)] /\ B(0) = <<>> /\ B(N) = x
      /\ \A k \in 0..N : B(k) \in Seq(C)
      /\ \A k \in 1..N : B(k) = B(k - 1) \o T[k]
  BY BeforeGrows, LenProperties
<1>1. Len(B(0)) = 0 /\ x \in Seq(C) /\ \A k \in 0..N : Len(B(k)) \in Nat
  <2> HIDE DEF N, B, x
  <2>1. N \in 0..N
    BY <1>0
  <2> QED  BY <1>0, <2>1, EmptySeq, LenProperties
<1>2. ASSUME NEW k \in 1..N
      PROVE  /\ Len(B(k)) = Len(B(k - 1)) + Len(T[k]) /\ Len(T[k]) \in Nat
             /\ \A j \in 1..Len(B(k - 1)) : B(k)[j] = B(k - 1)[j]
             /\ \A j \in 1..Len(T[k]) : B(k)[Len(B(k - 1)) + j] = T[k][j]
  <2> HIDE DEF N, B, x
  <2>1. k - 1 \in 0..N
    BY <1>0
  <2>2. B(k) = B(k - 1) \o T[k] /\ B(k - 1) \in Seq(C) /\ T[k] \in Seq(C)
    BY <1>0, <2>1
  <2> HIDE DEF B
  <2> QED  BY <2>2, Joined
<1> DEFINE Same(k) == /\ Len(B(k)) <= Len(x)
                      /\ \A j \in 1..Len(B(k)) : x[j] = B(k)[j]
           S == {m \in 0..N : Same(N - m)}
<1>3. \A k \in 0..N : Same(k)
  <2>1. 0 \in S
    <3>1. Same(N - 0)
      BY <1>0, <1>1
    <3> QED  BY <1>0, <3>1
  <2>a. ASSUME NEW k \in 1..N, Same(k) PROVE Same(k - 1)
    <3> DEFINE a == Len(B(k - 1))  b == Len(B(k))  c == Len(T[k])  n == Len(x)
    <3>1. k - 1 \in 0..N
      BY <1>0
    <3>2. b = a + c /\ c \in Nat /\ a \in Nat /\ \A j \in 1..a : B(k)[j] = B(k - 1)[j]
      BY <1>1, <1>2, <3>1
    <3>3. n \in Nat /\ b <= n /\ \A j \in 1..b : x[j] = B(k)[j]
      BY <1>1, <2>a, LenProperties
    <3> HIDE DEF a, b, c, n, N, x, B
    <3>4. a <= n /\ \A j \in 1..a : j \in 1..b
      BY <3>2, <3>3
    <3>5. \A j \in 1..a : x[j] = B(k - 1)[j]
      BY <3>2, <3>3, <3>4
    <3> QED  BY <3>4, <3>5 DEF a, n
  <2>2. ASSUME NEW m \in 1..N, m - 1 \in S PROVE m \in S
    <3>1. N - (m - 1) \in 1..N /\ (N - (m - 1)) - 1 = N - m /\ m \in 0..N
      BY <1>0
    <3> HIDE DEF Same, N
    <3>2. Same((N - (m - 1)) - 1)
      BY <2>2, <2>a, <3>1
    <3> QED  BY <3>1, <3>2
  <2>3. \A m \in 0..N : m \in S
    <3> HIDE DEF S
    <3> QED  BY <1>0, <2>1, <2>2, CountUp
  <2>4. ASSUME NEW k \in 0..N PROVE Same(k)
    <3>1. N - k \in 0..N /\ N - (N - k) = k
      BY <1>0
    <3> HIDE DEF Same, N
    <3> QED  BY <2>3, <3>1
  <2> QED  BY <2>4
<1>4. ASSUME NEW k \in 1..N, NEW j \in 1..Len(T[k]) PROVE x[Len(B(k - 1)) + j] = T[k][j]
  <2> HIDE DEF N, B, x
  <2>1. k \in 0..N /\ k - 1 \in 0..N
    BY <1>0
  <2>2. /\ Len(B(k)) = Len(B(k - 1)) + Len(T[k]) /\ Len(T[k]) \in Nat /\ Len(B(k - 1)) \in Nat
        /\ B(k)[Len(B(k - 1)) + j] = T[k][j]
    BY <1>1, <1>2, <2>1
  <2>3. Len(B(k - 1)) + j \in 1..Len(B(k))
    BY <2>2
  <2>4. \A i \in 1..Len(B(k)) : x[i] = B(k)[i]
    BY <1>3, <2>1
  <2> QED  BY <2>2, <2>3, <2>4
<1>5. \A k \in 0..N : Len(B(k)) \in 0..Len(x)
  <2>1. Len(x) \in Nat
    BY <1>1, LenProperties
  <2> HIDE DEF N, B, x
  <2> QED  BY <1>1, <1>3, <2>1
<1>6. \A k \in 1..N : Len(B(k)) = Len(B(k - 1)) + Len(T[k])
  <2> HIDE DEF N, B, x
  <2> QED  BY <1>2
<1> HIDE DEF x, B, N
<1>7. Len(x) = Len(B(N))
  BY <1>0
<1> QED  BY <1>1, <1>4, <1>5, <1>6, <1>7 DEF x, B, N

(* The characters a file may have. *)
Chars == {Space, "x", "E", "$", "1", "-", "/", Semi, "'", "\\", DoubleQuote, "\n", "*"}

(* The tokens are texts of them. *)
LEMMA TokensAreText == SqlTokens \subseteq Seq(Chars)
<1>1. /\ <<"x">> \in Seq(Chars) /\ <<"x", "E">> \in Seq(Chars) /\ <<"$", "1">> \in Seq(Chars)
      /\ <<"-">> \in Seq(Chars) /\ <<"/">> \in Seq(Chars) /\ <<Space>> \in Seq(Chars)
      /\ <<Semi>> \in Seq(Chars)
  BY DEF Chars
<1>2. Spaces \cup Words \cup Parameters \cup Operators \cup {Semicolon} \subseteq Seq(Chars)
  BY <1>1 DEF Spaces, Words, Parameters, Operators, Semicolon
<1>3. Strings \subseteq Seq(Chars)
  <2>1. /\ <<"'", "'">> \in Seq(Chars) /\ <<"'", Semi, "'">> \in Seq(Chars)
        /\ <<"'", "\\", "'">> \in Seq(Chars) /\ <<"'", "'", "'", Semi, "'">> \in Seq(Chars)
    BY DEF Chars
  <2> QED  BY <2>1 DEF Strings
<1>4. EStrings \subseteq Seq(Chars)
  <2>1. /\ <<"E", "'", "\\", "'", Semi, "'">> \in Seq(Chars)
        /\ <<"E", "'", "'", "'", Semi, "'">> \in Seq(Chars)
    BY DEF Chars
  <2> QED  BY <2>1 DEF EStrings
<1>5. Names \subseteq Seq(Chars)
  <2>1. /\ <<DoubleQuote, Semi, DoubleQuote>> \in Seq(Chars)
        /\ <<DoubleQuote, DoubleQuote, DoubleQuote, Semi, DoubleQuote>> \in Seq(Chars)
    BY DEF Chars
  <2> QED  BY <2>1 DEF Names
<1>6. LineComments \cup BlockComments \subseteq Seq(Chars)
  <2>1. /\ <<"-", "-", Semi, "\n">> \in Seq(Chars) /\ <<"-", "-", "'", "\n">> \in Seq(Chars)
        /\ <<"/", "*", "'", "*", "/">> \in Seq(Chars)
        /\ <<"/", "*", "/", "*", "*", "/", Semi, "*", "/">> \in Seq(Chars)
    BY DEF Chars
  <2> QED  BY <2>1 DEF LineComments, BlockComments
<1>7. Bodies \subseteq Seq(Chars)
  <2>1. /\ <<"$", "$", Semi, "$", "$">> \in Seq(Chars) /\ <<"$", "$", "'", "$", "$">> \in Seq(Chars)
        /\ <<"$", "x", "$", "$", "$", Semi, "$", "x", "$">> \in Seq(Chars)
    BY DEF Chars
  <2> QED  BY <2>1 DEF Bodies
<1> QED  BY <1>2, <1>3, <1>4, <1>5, <1>6, <1>7 DEF SqlTokens

-----------------------------------------------------------------------------
(* The splitter's step, by the state it is in. *)
LEMMA LineStep ==
  ASSUME pos <= Len(Text), SqlSplitNext, lexer.state = "line", pos \in Nat
  PROVE  Goto(1, IF Ch(pos) = "\n" THEN "code" ELSE "line")
<1> QED  BY DEF SqlSplitNext, InLine, InBlock, InQuoted, InDollar, CodeOpens, CodeCuts,
                CodeGoesOn, FileEnds, In

(* In a block comment. *)
LEMMA BlockStep ==
  ASSUME pos <= Len(Text), SqlSplitNext, lexer.state = "block", pos \in Nat
  PROVE  InBlock
<1> QED  BY DEF SqlSplitNext, InLine, InQuoted, InDollar, CodeOpens, CodeCuts,
                CodeGoesOn, FileEnds, In

(* In a dollar-quoted body. *)
LEMMA DollarStep ==
  ASSUME pos <= Len(Text), SqlSplitNext, lexer.state = "dollar", pos \in Nat
  PROVE  InDollar
<1> QED  BY DEF SqlSplitNext, InLine, InBlock, InQuoted, CodeOpens, CodeCuts,
                CodeGoesOn, FileEnds, In

(* In a string, and in an E string. *)
LEMMA QuoteStep ==
  ASSUME pos <= Len(Text), SqlSplitNext, lexer.state \in {"squote", "estring"}, pos \in Nat
  PROVE  /\ lexer.state = "estring" /\ Ch(pos) = "\\" => Goto(2, lexer.state)
         /\ Ch(pos) = "'" /\ Ch(pos + 1) = "'" => Goto(2, lexer.state)
         /\ Ch(pos) = "'" /\ Ch(pos + 1) # "'" => Goto(1, "code")
         /\ Ch(pos) # "'" /\ (lexer.state = "estring" => Ch(pos) # "\\") => Goto(1, lexer.state)
<1>1. InQuoted
  BY DEF SqlSplitNext, InLine, InBlock, InDollar, CodeOpens, CodeCuts, CodeGoesOn, FileEnds, In
<1>2. PICK q \in {"'", DoubleQuote} :
    /\ (q = DoubleQuote) <=> (lexer.state = "dquote")
    /\ \/ lexer.state = "estring" /\ Ch(pos) = "\\" /\ Stay(2)
       \/ TwoAt(pos, q, q) /\ Stay(2)
       \/ Ch(pos) = q /\ Ch(pos + 1) # q /\ Goto(1, "code")
       \/ Ch(pos) # q /\ (lexer.state = "estring" => Ch(pos) # "\\") /\ Stay(1)
  BY <1>1 DEF InQuoted
<1>3. q = "'"
  BY <1>2
<1> HIDE DEF Goto
<1> QED  BY <1>2, <1>3 DEF Stay, TwoAt

(* In a quoted name. *)
LEMMA NameStep ==
  ASSUME pos <= Len(Text), SqlSplitNext, lexer.state = "dquote", pos \in Nat
  PROVE  /\ Ch(pos) = DoubleQuote /\ Ch(pos + 1) = DoubleQuote => Goto(2, lexer.state)
         /\ Ch(pos) = DoubleQuote /\ Ch(pos + 1) # DoubleQuote => Goto(1, "code")
         /\ Ch(pos) # DoubleQuote => Goto(1, lexer.state)
<1>1. InQuoted
  BY DEF SqlSplitNext, InLine, InBlock, InDollar, CodeOpens, CodeCuts, CodeGoesOn, FileEnds, In
<1>2. PICK q \in {"'", DoubleQuote} :
    /\ (q = DoubleQuote) <=> (lexer.state = "dquote")
    /\ \/ lexer.state = "estring" /\ Ch(pos) = "\\" /\ Stay(2)
       \/ TwoAt(pos, q, q) /\ Stay(2)
       \/ Ch(pos) = q /\ Ch(pos + 1) # q /\ Goto(1, "code")
       \/ Ch(pos) # q /\ (lexer.state = "estring" => Ch(pos) # "\\") /\ Stay(1)
  BY <1>1 DEF InQuoted
<1>3. q = DoubleQuote
  BY <1>2
<1> QED  BY <1>2, <1>3 DEF Stay, TwoAt

(* In code a character opens something, cuts, or is passed. *)
LEMMA CodeStep ==
  ASSUME pos <= Len(Text), SqlSplitNext, lexer.state = "code", pos \in Nat
  PROVE  /\ Ch(pos) = "-" /\ Ch(pos + 1) = "-" => Goto(2, "line")
         /\ Ch(pos) = "/" /\ Ch(pos + 1) = "*" => Goto(2, "block")
         /\ Ch(pos) = "'" => Goto(1, IF IsEStringStart(pos) THEN "estring" ELSE "squote")
         /\ Ch(pos) = DoubleQuote => Goto(1, "dquote")
         /\ Ch(pos) = "$" /\ DollarOpen(pos) # <<>> =>
              /\ pos' = pos + Len(DollarOpen(pos))
              /\ lexer' = [state |-> "dollar", depth |-> 0, tag |-> DollarOpen(pos)]
              /\ UNCHANGED <<tokens, bufStart, emitted>>
         /\ Ch(pos) = "$" /\ DollarOpen(pos) = <<>> => Goto(1, "code")
         /\ Ch(pos) = Semi => CodeCuts
         /\ Ch(pos) \notin {"'", DoubleQuote, Semi, "-", "/", "$"} => Goto(1, "code")
         /\ Ch(pos) = "-" /\ Ch(pos + 1) # "-" => Goto(1, "code")
         /\ Ch(pos) = "/" /\ Ch(pos + 1) # "*" => Goto(1, "code")
<1>0. CodeOpens \/ CodeCuts \/ CodeGoesOn
  BY DEF SqlSplitNext, InLine, InBlock, InQuoted, InDollar, FileEnds, In
<1>1. Ch(pos) # "$" => DollarOpen(pos) = <<>>
  BY DEF DollarOpen
<1>2. CASE CodeOpens
  BY <1>1, <1>2 DEF CodeOpens, TwoAt, Semi, DoubleQuote
<1>3. CASE CodeCuts
  BY <1>3 DEF CodeCuts, Semi, DoubleQuote
<1>4. CASE CodeGoesOn
  BY <1>1, <1>4 DEF CodeGoesOn, TwoAt, Semi, DoubleQuote, Stay
<1> QED  BY <1>0, <1>2, <1>3, <1>4

(* The dollar quote at k, by its first characters. *)
LEMMA DollarNone ==
  ASSUME NEW k \in Nat, Ch(k) # "$" \/ Ch(k + 1) \notin Letters \cup {"$"}
  PROVE  DollarOpen(k) = <<>>
BY DEF DollarOpen

(* A tag without a name. *)
LEMMA DollarPlain ==
  ASSUME NEW k \in 1..Len(Text), Len(Text) \in Nat, Text \in Seq(Chars),
         k + 1 <= Len(Text), Ch(k) = "$", Ch(k + 1) = "$"
  PROVE  DollarOpen(k) = <<"$", "$">>
<1> DEFINE ends == {j \in (k + 1)..Len(Text) :
                      Ch(j) = "$" /\ \A i \in (k + 1)..(j - 1) : Ch(i) \in Alnum}
<1>1. k + 1 \in ends
  OBVIOUS
<1>2. \A j \in ends : j = k + 1
  <2>1. ASSUME NEW j \in ends, j # k + 1 PROVE FALSE
    <3>1. k + 1 \in (k + 1)..(j - 1)
      BY <2>1
    <3> QED  BY <2>1, <3>1 DEF Alnum, Letters
  <2> QED  BY <2>1
<1> HIDE DEF ends
<1>3. (CHOOSE j \in ends : TRUE) = k + 1
  BY <1>1, <1>2
<1>4. DollarOpen(k) = SubSeq(Text, k, k + 1)
  BY <1>1, <1>3 DEF DollarOpen, ends
<1>5. Text[k] = "$" /\ Text[k + 1] = "$" /\ \A i \in k..(k + 1) : Text[i] \in Chars
  BY ElementOfSeq DEF Ch
<1>6. /\ SubSeq(Text, k, k + 1) \in Seq(Chars) /\ Len(SubSeq(Text, k, k + 1)) = 2
      /\ \A i \in 1..2 : SubSeq(Text, k, k + 1)[i] = Text[k + i - 1]
  <2> DEFINE n == k + 1
  <2>1. k \in Int /\ n \in Int /\ k <= n /\ n - k + 1 = 2
    OBVIOUS
  <2>2. \A i \in k..n : Text[i] \in Chars
    BY <1>5
  <2> HIDE DEF Text, n
  <2>3. /\ SubSeq(Text, k, n) \in Seq(Chars) /\ Len(SubSeq(Text, k, n)) = n - k + 1
        /\ \A i \in 1..(n - k + 1) : SubSeq(Text, k, n)[i] = Text[k + i - 1]
    BY <2>1, <2>2, SubSeqProperties
  <2>4. /\ SubSeq(Text, k, n) \in Seq(Chars) /\ Len(SubSeq(Text, k, n)) = 2
        /\ \A i \in 1..2 : SubSeq(Text, k, n)[i] = Text[k + i - 1]
    BY <2>1, <2>3
  <2> QED  BY <2>4 DEF n
<1>7. <<"$", "$">> \in Seq(Chars)
  BY DEF Chars
<1> HIDE DEF Text
<1>8. \A i \in 1..2 : SubSeq(Text, k, k + 1)[i] = <<"$", "$">>[i]
  BY <1>5, <1>6
<1>9. SubSeq(Text, k, k + 1) = <<"$", "$">>
  BY <1>6, <1>7, <1>8, SeqEqual
<1> QED  BY <1>4, <1>9

(* A tag that is a name. *)
LEMMA DollarNamed ==
  ASSUME NEW k \in 1..Len(Text), Len(Text) \in Nat, Text \in Seq(Chars),
         k + 2 <= Len(Text), Ch(k) = "$", Ch(k + 1) = "x", Ch(k + 2) = "$"
  PROVE  DollarOpen(k) = <<"$", "x", "$">>
<1> DEFINE ends == {j \in (k + 1)..Len(Text) :
                      Ch(j) = "$" /\ \A i \in (k + 1)..(j - 1) : Ch(i) \in Alnum}
<1>1. k + 2 \in ends
  BY DEF Alnum, Letters
<1>2. \A j \in ends : j = k + 2
  <2>1. ASSUME NEW j \in ends, j # k + 2 PROVE FALSE
    <3>1. j # k + 1
      OBVIOUS
    <3>2. k + 2 \in (k + 1)..(j - 1)
      BY <2>1, <3>1
    <3> QED  BY <2>1, <3>2 DEF Alnum, Letters
  <2> QED  BY <2>1
<1> HIDE DEF ends
<1>3. (CHOOSE j \in ends : TRUE) = k + 2
  BY <1>1, <1>2
<1>4. DollarOpen(k) = SubSeq(Text, k, k + 2)
  BY <1>1, <1>3 DEF DollarOpen, ends, Letters
<1>5. /\ Text[k] = "$" /\ Text[k + 1] = "x" /\ Text[k + 2] = "$"
      /\ \A i \in k..(k + 2) : Text[i] \in Chars
  BY ElementOfSeq DEF Ch
<1>6. /\ SubSeq(Text, k, k + 2) \in Seq(Chars) /\ Len(SubSeq(Text, k, k + 2)) = 3
      /\ \A i \in 1..3 : SubSeq(Text, k, k + 2)[i] = Text[k + i - 1]
  <2> DEFINE n == k + 2
  <2>1. k \in Int /\ n \in Int /\ k <= n /\ n - k + 1 = 3
    OBVIOUS
  <2>2. \A i \in k..n : Text[i] \in Chars
    BY <1>5
  <2> HIDE DEF Text, n
  <2>3. /\ SubSeq(Text, k, n) \in Seq(Chars) /\ Len(SubSeq(Text, k, n)) = n - k + 1
        /\ \A i \in 1..(n - k + 1) : SubSeq(Text, k, n)[i] = Text[k + i - 1]
    BY <2>1, <2>2, SubSeqProperties
  <2>4. /\ SubSeq(Text, k, n) \in Seq(Chars) /\ Len(SubSeq(Text, k, n)) = 3
        /\ \A i \in 1..3 : SubSeq(Text, k, n)[i] = Text[k + i - 1]
    BY <2>1, <2>3
  <2> QED  BY <2>4 DEF n
<1>7. <<"$", "x", "$">> \in Seq(Chars)
  BY DEF Chars
<1> HIDE DEF Text
<1>8. \A i \in 1..3 : SubSeq(Text, k, k + 2)[i] = <<"$", "x", "$">>[i]
  BY <1>5, <1>6
<1>9. SubSeq(Text, k, k + 2) = <<"$", "x", "$">>
  BY <1>6, <1>7, <1>8, SeqEqual
<1> QED  BY <1>4, <1>9

-----------------------------------------------------------------------------
(* One token.  It stands after the first o characters, before nxt. *)
Shows(o, t, nxt) ==
  /\ o \in Nat /\ Len(t) \in Nat /\ Len(Text) \in Nat /\ o + Len(t) <= Len(Text)
  /\ \A j \in 1..Len(t) : Ch(o + j) = t[j]
  /\ Ch(o + Len(t) + 1) = nxt /\ Text \in Seq(Chars)

(* The lexer, and what it is in code and in a body. *)
Lexer(state, depth, tag) == [state |-> state, depth |-> depth, tag |-> tag]
Code == Lexer("code", 0, <<>>)
Tag(t) == IF t[2] = "$" THEN <<"$", "$">> ELSE <<"$", "x", "$">>

(* The splitter stops after j characters of t, in which state. *)
InToken(t, j) ==
  \/ j = 0 /\ lexer = Code
  \/ t \in Words \cup Parameters \cup EStrings /\ j = 1 /\ Len(t) > 1 /\ lexer = Code
  \/ t \in Strings /\ j \in (IF Len(t) = 5 THEN {1, 3, 4} ELSE 1..(Len(t) - 1))
     /\ lexer = Lexer("squote", 0, <<>>)
  \/ t \in EStrings /\ j \in {2, 4, 5} /\ lexer = Lexer("estring", 0, <<>>)
  \/ t \in Names /\ j \in (IF Len(t) = 5 THEN {1, 3, 4} ELSE {1, 2})
     /\ lexer = Lexer("dquote", 0, <<>>)
  \/ t \in LineComments /\ j \in {2, 3} /\ lexer = Lexer("line", 0, <<>>)
  \/ t \in BlockComments /\ j \in (IF Len(t) = 9 THEN {2, 4, 6, 7} ELSE {2, 3})
     /\ lexer = Lexer("block", IF j = 4 THEN 2 ELSE 1, <<>>)
  \/ t \in Bodies /\ j \in (IF Len(t) = 9 THEN {3, 4, 5, 6} ELSE {2, 3})
     /\ lexer = Lexer("dollar", 0, Tag(t))

(* The splitter goes on in the token at o, or has passed it. *)
Advances(o, t) ==
  /\ UNCHANGED <<tokens, bufStart, emitted>>
  /\ \/ \E i \in 1..(Len(t) - 1) : pos' = o + i + 1 /\ InToken(t, i)'
     \/ pos' = o + Len(t) + 1 /\ lexer' = Code

(* Block comments and bodies are of five or nine characters. *)
LEMMA FiveOrNine ==
  ASSUME NEW n, n = 5 \/ n = 9
  PROVE  n \in Nat /\ n >= 1 /\ 0 \in 0..(n - 1) /\ 0 + 1 < n
<1>1. CASE n = 5
  BY <1>1
<1>2. CASE n = 9
  BY <1>2
<1> QED  BY <1>1, <1>2

(* What the tokens look like. *)
LEMMA StringLook ==
  ASSUME NEW t \in Strings
  PROVE  /\ Len(t) \in {2, 3, 5} /\ t[1] = "'" /\ t[Len(t)] = "'"
         /\ Len(t) = 3 => t[2] # "'"
         /\ Len(t) = 5 => t[2] = "'" /\ t[3] = "'" /\ t[4] = Semi
<1>1. CASE t = <<"'", "'">>
  BY <1>1
<1>2. CASE t = <<"'", Semi, "'">>
  BY <1>2 DEF Semi
<1>3. CASE t = <<"'", "\\", "'">>
  BY <1>3
<1>4. CASE t = <<"'", "'", "'", Semi, "'">>
  BY <1>4
<1> QED  BY <1>1, <1>2, <1>3, <1>4 DEF Strings

LEMMA EStringLook ==
  ASSUME NEW t \in EStrings
  PROVE  /\ Len(t) = 6 /\ t[1] = "E" /\ t[2] = "'" /\ t[3] \in {"\\", "'"} /\ t[4] = "'"
         /\ t[5] = Semi /\ t[6] = "'"
<1>1. CASE t = <<"E", "'", "\\", "'", Semi, "'">>
  BY <1>1
<1>2. CASE t = <<"E", "'", "'", "'", Semi, "'">>
  BY <1>2
<1> QED  BY <1>1, <1>2 DEF EStrings

LEMMA NameLook ==
  ASSUME NEW t \in Names
  PROVE  /\ Len(t) \in {3, 5} /\ t[1] = DoubleQuote /\ t[Len(t)] = DoubleQuote
         /\ Len(t) = 3 => t[2] = Semi
         /\ Len(t) = 5 => t[2] = DoubleQuote /\ t[3] = DoubleQuote /\ t[4] = Semi
<1>1. CASE t = <<DoubleQuote, Semi, DoubleQuote>>
  BY <1>1
<1>2. CASE t = <<DoubleQuote, DoubleQuote, DoubleQuote, Semi, DoubleQuote>>
  BY <1>2
<1> QED  BY <1>1, <1>2 DEF Names

LEMMA LineLook ==
  ASSUME NEW t \in LineComments
  PROVE  Len(t) = 4 /\ t[1] = "-" /\ t[2] = "-" /\ t[3] \in {Semi, "'"} /\ t[4] = "\n"
<1>1. CASE t = <<"-", "-", Semi, "\n">>
  BY <1>1
<1>2. CASE t = <<"-", "-", "'", "\n">>
  BY <1>2
<1> QED  BY <1>1, <1>2 DEF LineComments

LEMMA BlockLook ==
  ASSUME NEW t \in BlockComments
  PROVE  /\ Len(t) \in {5, 9} /\ t[1] = "/" /\ t[2] = "*"
         /\ Len(t) = 5 => t[3] = "'" /\ t[4] = "*" /\ t[5] = "/"
         /\ Len(t) = 9 => /\ t[3] = "/" /\ t[4] = "*" /\ t[5] = "*" /\ t[6] = "/"
                         /\ t[7] = Semi /\ t[8] = "*" /\ t[9] = "/"
<1>1. CASE t = <<"/", "*", "'", "*", "/">>
  BY <1>1
<1>2. CASE t = <<"/", "*", "/", "*", "*", "/", Semi, "*", "/">>
  BY <1>2
<1> QED  BY <1>1, <1>2 DEF BlockComments

LEMMA BodyLook ==
  ASSUME NEW t \in Bodies
  PROVE  /\ Len(t) \in {5, 9} /\ t[1] = "$"
         /\ Len(t) = 5 => /\ t[2] = "$" /\ t[3] \in {Semi, "'"} /\ t[4] = "$" /\ t[5] = "$"
         /\ Len(t) = 9 => /\ t[2] = "x" /\ t[3] = "$" /\ t[4] = "$" /\ t[5] = "$"
                         /\ t[6] = Semi /\ t[7] = "$" /\ t[8] = "x" /\ t[9] = "$"
<1>1. CASE t = <<"$", "$", Semi, "$", "$">>
  BY <1>1
<1>2. CASE t = <<"$", "$", "'", "$", "$">>
  BY <1>2
<1>3. CASE t = <<"$", "x", "$", "$", "$", Semi, "$", "x", "$">>
  BY <1>3
<1> QED  BY <1>1, <1>2, <1>3 DEF Bodies

LEMMA ShortLook ==
  /\ \A t \in Words : Len(t) \in {1, 2} /\ t[1] = "x" /\ (Len(t) = 2 => t[2] = "E")
  /\ \A t \in Parameters : Len(t) = 2 /\ t[1] = "$" /\ t[2] = "1"
  /\ \A t \in Operators : Len(t) = 1 /\ t[1] \in {"-", "/"}
  /\ \A t \in Spaces : Len(t) = 1 /\ t[1] = Space
  /\ Len(Semicolon) = 1 /\ Semicolon[1] = Semi
BY DEF Words, Parameters, Operators, Spaces, Semicolon

(* What the splitter sees after j characters of the token. *)
LEMMA Here ==
  ASSUME NEW o, NEW t, NEW nxt, Shows(o, t, nxt),
         NEW j \in 0..(Len(t) - 1), pos = o + j + 1
  PROVE  /\ o \in Nat /\ pos \in 1..Len(Text) /\ pos \in Nat /\ pos <= Len(Text)
         /\ Len(Text) \in Nat /\ Text \in Seq(Chars) /\ Len(t) \in Nat
         /\ Ch(pos) = t[j + 1]
         /\ j + 1 < Len(t) => Ch(pos + 1) = t[j + 2] /\ pos + 1 <= Len(Text)
         /\ j + 2 < Len(t) => Ch(pos + 2) = t[j + 3] /\ pos + 2 <= Len(Text)
         /\ j + 1 = Len(t) => Ch(pos + 1) = nxt
<1>1. /\ o \in Nat /\ Len(t) \in Nat /\ Len(Text) \in Nat /\ o + Len(t) <= Len(Text)
      /\ Text \in Seq(Chars)
  BY DEF Shows
<1> HIDE DEF Text
<1>2. pos \in 1..Len(Text) /\ pos \in Nat /\ pos <= Len(Text)
  BY <1>1
<1>3. Ch(pos) = t[j + 1]
  <2>1. pos = o + (j + 1) /\ j + 1 \in 1..Len(t)
    BY <1>1
  <2> QED  BY <2>1 DEF Shows
<1>4. ASSUME j + 1 < Len(t) PROVE Ch(pos + 1) = t[j + 2] /\ pos + 1 <= Len(Text)
  <2>1. pos + 1 = o + (j + 2) /\ j + 2 \in 1..Len(t) /\ pos + 1 <= Len(Text)
    BY <1>1, <1>4
  <2> QED  BY <2>1 DEF Shows
<1>5. ASSUME j + 2 < Len(t) PROVE Ch(pos + 2) = t[j + 3] /\ pos + 2 <= Len(Text)
  <2>1. pos + 2 = o + (j + 3) /\ j + 3 \in 1..Len(t) /\ pos + 2 <= Len(Text)
    BY <1>1, <1>5
  <2> QED  BY <2>1 DEF Shows
<1>6. ASSUME j + 1 = Len(t) PROVE Ch(pos + 1) = nxt
  <2>1. pos + 1 = o + Len(t) + 1
    BY <1>1, <1>6
  <2> QED  BY <2>1 DEF Shows
<1> QED  BY <1>1, <1>2, <1>3, <1>4, <1>5, <1>6

(* A step of n characters that stays in the token, or leaves it. *)
LEMMA StaysIn ==
  ASSUME NEW o \in Nat, NEW t, Len(t) \in Nat, NEW j \in Nat, pos = o + j + 1, NEW n \in Nat,
         NEW state, Goto(n, state), j + n \in 1..(Len(t) - 1),
         lexer' = Lexer(state, IF state = "block" THEN 1 ELSE 0, <<>>) => InToken(t, j + n)'
  PROVE  Advances(o, t)
<1>1. /\ pos' = o + (j + n) + 1 /\ UNCHANGED <<tokens, bufStart, emitted>>
      /\ lexer' = Lexer(state, IF state = "block" THEN 1 ELSE 0, <<>>)
  BY DEF Goto, Lexer
<1>2. InToken(t, j + n)'
  BY <1>1
<1> HIDE DEF InToken
<1> QED  BY <1>1, <1>2 DEF Advances

(* A step that ends the token. *)
LEMMA Leaves ==
  ASSUME NEW o \in Nat, NEW t, Len(t) \in Nat, NEW j \in Nat, pos = o + j + 1, NEW n \in Nat,
         Goto(n, "code"), j + n = Len(t)
  PROVE  Advances(o, t)
BY DEF Goto, Lexer, Code, Advances

(* From inside a token of each kind, a step goes on in it or leaves it. *)
LEMMA InString ==
  ASSUME NEW o, NEW t \in Strings, NEW nxt, Shows(o, t, nxt), nxt # "'",
         NEW j \in (IF Len(t) = 5 THEN {1, 3, 4} ELSE 1..(Len(t) - 1)),
         pos = o + j + 1, lexer = Lexer("squote", 0, <<>>), SqlSplitNext
  PROVE  Advances(o, t)
<1>1. j \in 0..(Len(t) - 1) /\ j \in Nat /\ Len(t) \in {2, 3, 5}
  <2>1. Len(t) \in {2, 3, 5}
    BY StringLook
  <2>2. CASE Len(t) = 5
    BY <2>2
  <2>3. CASE Len(t) # 5
    BY <2>1, <2>3
  <2> QED  BY <2>1, <2>2, <2>3
<1>2. /\ o \in Nat /\ pos \in Nat /\ pos <= Len(Text) /\ Ch(pos) = t[j + 1]
      /\ j + 1 < Len(t) => Ch(pos + 1) = t[j + 2]
      /\ j + 1 = Len(t) => Ch(pos + 1) = nxt
  BY <1>1, Here
<1>3. lexer.state = "squote"
  BY DEF Lexer
<1>4. CASE j + 1 = Len(t)
  <2>1. Goto(1, "code")
    BY <1>2, <1>3, <1>4, StringLook, QuoteStep
  <2> QED  BY <1>1, <1>2, <1>4, <2>1, Leaves
<1>5. CASE j + 1 # Len(t) /\ ~(Len(t) = 5 /\ j = 1)
  <2>1. t[j + 1] # "'" /\ j + 1 < Len(t)
    BY <1>1, <1>5, StringLook DEF Semi
  <2>2. Goto(1, "squote")
    BY <1>2, <1>3, <2>1, QuoteStep
  <2>3. j + 1 \in 1..(Len(t) - 1) /\ j + 1 \in (IF Len(t) = 5 THEN {1, 3, 4} ELSE 1..(Len(t) - 1))
    <3>1. CASE Len(t) = 5
      BY <1>5, <3>1
    <3>2. CASE Len(t) # 5
      BY <1>1, <1>5, <3>2
    <3> QED  BY <3>1, <3>2
  <2>4. lexer' = Lexer("squote", 0, <<>>) => InToken(t, j + 1)'
    BY <2>3 DEF InToken
  <2> QED  BY <1>1, <1>2, <2>2, <2>3, <2>4, StaysIn
<1>6. CASE Len(t) = 5 /\ j = 1
  <2>1. Goto(2, "squote")
    BY <1>2, <1>3, <1>6, StringLook, QuoteStep
  <2>2. lexer' = Lexer("squote", 0, <<>>) => InToken(t, j + 2)'
    BY <1>6 DEF InToken
  <2>3. j + 2 \in 1..(Len(t) - 1)
    BY <1>6
  <2> QED  BY <1>1, <1>2, <2>1, <2>2, <2>3, StaysIn
<1> QED  BY <1>4, <1>5, <1>6

LEMMA InName ==
  ASSUME NEW o, NEW t \in Names, NEW nxt, Shows(o, t, nxt), nxt # DoubleQuote,
         NEW j \in (IF Len(t) = 5 THEN {1, 3, 4} ELSE {1, 2}),
         pos = o + j + 1, lexer = Lexer("dquote", 0, <<>>), SqlSplitNext
  PROVE  Advances(o, t)
<1>1. j \in 0..(Len(t) - 1) /\ j \in Nat /\ Len(t) \in {3, 5}
  <2>1. Len(t) \in {3, 5}
    BY NameLook
  <2>2. CASE Len(t) = 5
    BY <2>2
  <2>3. CASE Len(t) = 3
    BY <2>3
  <2> QED  BY <2>1, <2>2, <2>3
<1>2. /\ o \in Nat /\ pos \in Nat /\ pos <= Len(Text) /\ Ch(pos) = t[j + 1]
      /\ j + 1 < Len(t) => Ch(pos + 1) = t[j + 2]
      /\ j + 1 = Len(t) => Ch(pos + 1) = nxt
  BY <1>1, Here
<1>3. lexer.state = "dquote"
  BY DEF Lexer
<1>4. CASE j + 1 = Len(t)
  <2>1. Goto(1, "code")
    BY <1>2, <1>3, <1>4, NameLook, NameStep
  <2> QED  BY <1>1, <1>2, <1>4, <2>1, Leaves
<1>5. CASE j + 1 # Len(t) /\ ~(Len(t) = 5 /\ j = 1)
  <2>1. t[j + 1] # DoubleQuote /\ j + 1 < Len(t)
    BY <1>1, <1>5, NameLook DEF Semi, DoubleQuote
  <2>2. Goto(1, "dquote")
    BY <1>2, <1>3, <2>1, NameStep
  <2>3. j + 1 \in 1..(Len(t) - 1) /\ j + 1 \in (IF Len(t) = 5 THEN {1, 3, 4} ELSE {1, 2})
    <3>1. CASE Len(t) = 5
      BY <1>5, <3>1
    <3>2. CASE Len(t) = 3
      BY <1>5, <3>2
    <3> QED  BY <1>1, <3>1, <3>2
  <2>4. lexer' = Lexer("dquote", 0, <<>>) => InToken(t, j + 1)'
    BY <2>3 DEF InToken
  <2> QED  BY <1>1, <1>2, <2>2, <2>3, <2>4, StaysIn
<1>6. CASE Len(t) = 5 /\ j = 1
  <2>1. Goto(2, "dquote")
    BY <1>2, <1>3, <1>6, NameLook, NameStep
  <2>2. lexer' = Lexer("dquote", 0, <<>>) => InToken(t, j + 2)'
    BY <1>6 DEF InToken
  <2>3. j + 2 \in 1..(Len(t) - 1)
    BY <1>6
  <2> QED  BY <1>1, <1>2, <2>1, <2>2, <2>3, StaysIn
<1> QED  BY <1>4, <1>5, <1>6

LEMMA InEString ==
  ASSUME NEW o, NEW t \in EStrings, NEW nxt, Shows(o, t, nxt), nxt # "'",
         NEW j \in {2, 4, 5},
         pos = o + j + 1, lexer = Lexer("estring", 0, <<>>), SqlSplitNext
  PROVE  Advances(o, t)
<1>1. j \in 0..(Len(t) - 1) /\ j \in Nat /\ Len(t) = 6 /\ Len(t) \in Nat
  BY EStringLook
<1>2. /\ o \in Nat /\ pos \in Nat /\ pos <= Len(Text) /\ Ch(pos) = t[j + 1]
      /\ j + 1 < Len(t) => Ch(pos + 1) = t[j + 2]
      /\ j + 1 = Len(t) => Ch(pos + 1) = nxt
  <2>1. j \in 0..(Len(t) - 1)
    BY <1>1
  <2> QED  BY <2>1, Here
<1>3. lexer.state = "estring"
  BY DEF Lexer
<1>4. CASE j = 5
  <2>1. Goto(1, "code")
    BY <1>1, <1>2, <1>3, <1>4, EStringLook, QuoteStep
  <2>2. j + 1 = Len(t)
    BY <1>1, <1>4
  <2> QED  BY <1>1, <1>2, <2>1, <2>2, Leaves
<1>5. CASE j = 4
  <2>1. Goto(1, "estring")
    BY <1>1, <1>2, <1>3, <1>5, EStringLook, QuoteStep DEF Semi
  <2>2. lexer' = Lexer("estring", 0, <<>>) => InToken(t, j + 1)'
    BY <1>5 DEF InToken
  <2>3. j + 1 \in 1..(Len(t) - 1)
    BY <1>1, <1>5
  <2> QED  BY <1>1, <1>2, <2>1, <2>2, <2>3, StaysIn
<1>6. CASE j = 2
  <2>1. Goto(2, "estring")
    BY <1>1, <1>2, <1>3, <1>6, EStringLook, QuoteStep
  <2>2. lexer' = Lexer("estring", 0, <<>>) => InToken(t, j + 2)'
    BY <1>6 DEF InToken
  <2>3. j + 2 \in 1..(Len(t) - 1)
    BY <1>1, <1>6
  <2> QED  BY <1>1, <1>2, <2>1, <2>2, <2>3, StaysIn
<1> QED  BY <1>4, <1>5, <1>6

LEMMA InLineComment ==
  ASSUME NEW o, NEW t \in LineComments, NEW nxt, Shows(o, t, nxt),
         NEW j \in {2, 3},
         pos = o + j + 1, lexer = Lexer("line", 0, <<>>), SqlSplitNext
  PROVE  Advances(o, t)
<1>1. j \in 0..(Len(t) - 1) /\ j \in Nat /\ Len(t) = 4 /\ Len(t) \in Nat
  BY LineLook
<1>2. o \in Nat /\ pos \in Nat /\ pos <= Len(Text) /\ Ch(pos) = t[j + 1]
  BY <1>1, Here
<1>3. lexer.state = "line"
  BY DEF Lexer
<1>4. CASE j = 3
  <2>1. Goto(1, "code")
    BY <1>1, <1>2, <1>3, <1>4, LineLook, LineStep
  <2>2. j + 1 = Len(t)
    BY <1>1, <1>4
  <2> QED  BY <1>1, <1>2, <2>1, <2>2, Leaves
<1>5. CASE j = 2
  <2>1. Goto(1, "line")
    BY <1>1, <1>2, <1>3, <1>5, LineLook, LineStep DEF Semi
  <2>2. lexer' = Lexer("line", 0, <<>>) => InToken(t, j + 1)'
    BY <1>5 DEF InToken
  <2>3. j + 1 \in 1..(Len(t) - 1)
    BY <1>1, <1>5
  <2> QED  BY <1>1, <1>2, <2>1, <2>2, <2>3, StaysIn
<1> QED  BY <1>4, <1>5

(* A step of n characters that stays in the token and keeps what is emitted. *)
LEMMA MovesIn ==
  ASSUME NEW o \in Nat, NEW t, Len(t) \in Nat, NEW j \in Nat, pos = o + j + 1, NEW n \in Nat,
         pos' = pos + n, UNCHANGED <<tokens, bufStart, emitted>>,
         j + n \in 1..(Len(t) - 1), InToken(t, j + n)'
  PROVE  Advances(o, t)
<1> HIDE DEF InToken
<1>1. pos' = o + (j + n) + 1
  OBVIOUS
<1> QED  BY <1>1 DEF Advances

LEMMA InBlockComment ==
  ASSUME NEW o, NEW t \in BlockComments, NEW nxt, Shows(o, t, nxt),
         NEW j \in (IF Len(t) = 9 THEN {2, 4, 6, 7} ELSE {2, 3}),
         pos = o + j + 1, lexer = Lexer("block", IF j = 4 THEN 2 ELSE 1, <<>>), SqlSplitNext
  PROVE  Advances(o, t)
<1>l. Len(t) \in {5, 9}
  BY BlockLook
<1>1. j \in 0..(Len(t) - 1) /\ j \in Nat /\ Len(t) \in Nat
  <2>1. CASE Len(t) = 9
    BY <2>1
  <2>2. CASE Len(t) = 5
    BY <2>2
  <2> QED  BY <1>l, <2>1, <2>2
<1>2. /\ o \in Nat /\ pos \in Nat /\ pos <= Len(Text) /\ Ch(pos) = t[j + 1]
      /\ j + 1 < Len(t) => Ch(pos + 1) = t[j + 2]
  BY <1>1, Here
<1>3. lexer.state = "block" /\ lexer.depth = IF j = 4 THEN 2 ELSE 1
  BY DEF Lexer
<1>4. InBlock
  BY <1>2, <1>3, BlockStep
<1>5. CASE j + 2 = Len(t)
  <2>1. Ch(pos) = "*" /\ Ch(pos + 1) = "/" /\ lexer.depth = 1
    <3>1. CASE Len(t) = 9
      BY <1>2, <1>3, <1>5, <3>1, BlockLook
    <3>2. CASE Len(t) = 5
      BY <1>2, <1>3, <1>5, <3>2, BlockLook
    <3> QED  BY <1>l, <3>1, <3>2
  <2>2. Goto(2, "code")
    <3> HIDE DEF Goto
    <3> QED  BY <1>4, <2>1 DEF InBlock, TwoAt
  <2> QED  BY <1>1, <1>2, <1>5, <2>2, Leaves
<1>6. CASE (j = 2 /\ Len(t) = 5) \/ j = 6
  <2>1. Ch(pos) \notin {"*", "/"}
    BY <1>1, <1>2, <1>l, <1>6, BlockLook DEF Semi
  <2>2. /\ pos' = pos + 1 /\ lexer' = Lexer("block", 1, <<>>)
       /\ UNCHANGED <<tokens, bufStart, emitted>>
    BY <1>4, <1>6, <2>1 DEF InBlock, TwoAt
  <2>3. InToken(t, j + 1)' /\ j + 1 \in 1..(Len(t) - 1)
    <3>1. CASE j = 6
      <4>1. Len(t) = 9
        BY <1>1, <1>l, <3>1
      <4> QED  BY <2>2, <3>1, <4>1 DEF InToken
    <3>2. CASE j = 2 /\ Len(t) = 5
      BY <2>2, <3>2 DEF InToken
    <3> QED  BY <1>6, <3>1, <3>2
  <2> QED  BY <1>1, <1>2, <2>2, <2>3, MovesIn
<1>7. CASE j = 2 /\ Len(t) = 9
  <2>1. Ch(pos) = "/" /\ Ch(pos + 1) = "*"
    BY <1>2, <1>7, BlockLook
  <2>2. /\ pos' = pos + 2 /\ lexer' = Lexer("block", 2, <<>>)
       /\ UNCHANGED <<tokens, bufStart, emitted>>
    BY <1>4, <1>7, <2>1 DEF InBlock, TwoAt, Deeper, Lexer
  <2>3. InToken(t, j + 2)' /\ j + 2 \in 1..(Len(t) - 1)
    BY <1>7, <2>2 DEF InToken
  <2> QED  BY <1>1, <1>2, <2>2, <2>3, MovesIn
<1>8. CASE j = 4
  <2>0. Len(t) = 9
    BY <1>1, <1>l, <1>8
  <2>1. Ch(pos) = "*" /\ Ch(pos + 1) = "/"
    BY <1>2, <1>8, <2>0, BlockLook
  <2>2. /\ pos' = pos + 2 /\ lexer' = Lexer("block", 1, <<>>)
       /\ UNCHANGED <<tokens, bufStart, emitted>>
    BY <1>4, <1>8, <2>1 DEF InBlock, TwoAt, Lexer
  <2>3. InToken(t, j + 2)' /\ j + 2 \in 1..(Len(t) - 1)
    BY <1>8, <2>0, <2>2 DEF InToken
  <2> QED  BY <1>1, <1>2, <2>2, <2>3, MovesIn
<1>9. (j + 2 = Len(t)) \/ ((j = 2 /\ Len(t) = 5) \/ j = 6) \/ (j = 2 /\ Len(t) = 9) \/ j = 4
  <2>1. CASE Len(t) = 9
    BY <2>1
  <2>2. CASE Len(t) = 5
    BY <2>2
  <2> QED  BY <1>l, <2>1, <2>2
<1> QED  BY <1>5, <1>6, <1>7, <1>8, <1>9

LEMMA InBody ==
  ASSUME NEW o, NEW t \in Bodies, NEW nxt, Shows(o, t, nxt),
         NEW j \in (IF Len(t) = 9 THEN {3, 4, 5, 6} ELSE {2, 3}),
         pos = o + j + 1, lexer = Lexer("dollar", 0, Tag(t)), SqlSplitNext
  PROVE  Advances(o, t)
<1>l. Len(t) \in {5, 9}
  BY BodyLook
<1>1. j \in 0..(Len(t) - 1) /\ j \in Nat /\ Len(t) \in Nat
  <2>1. CASE Len(t) = 9
    BY <2>1
  <2>2. CASE Len(t) = 5
    BY <2>2
  <2> QED  BY <1>l, <2>1, <2>2
<1>2. /\ o \in Nat /\ pos \in Nat /\ pos \in 1..Len(Text) /\ pos <= Len(Text) /\ Ch(pos) = t[j + 1]
      /\ j + 1 < Len(t) => Ch(pos + 1) = t[j + 2] /\ pos + 1 <= Len(Text)
      /\ j + 2 < Len(t) => Ch(pos + 2) = t[j + 3] /\ pos + 2 <= Len(Text)
      /\ Len(Text) \in Nat /\ Text \in Seq(Chars)
  BY <1>1, Here
<1>3. lexer.state = "dollar" /\ lexer.tag = Tag(t)
  BY DEF Lexer
<1>4. InDollar
  BY <1>2, <1>3, DollarStep
<1>5. CASE DollarOpen(pos) = Tag(t) /\ j + Len(Tag(t)) = Len(t)
  <2>1. Goto(Len(Tag(t)), "code") /\ Len(Tag(t)) \in Nat
    <3> HIDE DEF Goto
    <3>1. Len(Tag(t)) \in Nat
      BY DEF Tag
    <3>2. Goto(Len(lexer.tag), "code")
      BY <1>3, <1>4, <1>5 DEF InDollar
    <3> QED  BY <1>3, <3>1, <3>2
  <2> QED  BY <1>1, <1>2, <1>5, <2>1, Leaves
<1>6. CASE DollarOpen(pos) # Tag(t) /\ j + 1 \in (IF Len(t) = 9 THEN {4, 5, 6} ELSE {3})
  <2>1. /\ pos' = pos + 1 /\ lexer' = Lexer("dollar", 0, Tag(t))
        /\ UNCHANGED <<tokens, bufStart, emitted>>
    <3> HIDE DEF Goto
    <3> QED  BY <1>3, <1>4, <1>6 DEF InDollar
  <2>2. j + 1 \in (IF Len(t) = 9 THEN {3, 4, 5, 6} ELSE {2, 3}) /\ j + 1 \in 1..(Len(t) - 1)
    <3>1. CASE Len(t) = 9
      BY <1>6, <3>1
    <3>2. CASE Len(t) = 5
      BY <1>6, <3>2
    <3> QED  BY <1>l, <3>1, <3>2
  <2>3. InToken(t, j + 1)'
    BY <2>1, <2>2 DEF InToken
  <2> QED  BY <1>1, <1>2, <2>1, <2>2, <2>3, MovesIn
<1>7. <<"$", "$">> # <<>> /\ <<"$", "x", "$">> # <<>> /\ <<"$", "x", "$">> # <<"$", "$">>
      /\ Len(<<"$", "$">>) = 2 /\ Len(<<"$", "x", "$">>) = 3
  OBVIOUS
<1>8. CASE Len(t) = 5
  <2>1. Tag(t) = <<"$", "$">>
    BY <1>8, BodyLook DEF Tag
  <2>2. CASE j = 2
    <3>1. DollarOpen(pos) = <<>>
      BY <1>2, <1>8, <2>2, BodyLook, DollarNone DEF Semi
    <3> QED  BY <1>6, <1>7, <1>8, <2>1, <2>2, <3>1
  <2>3. CASE j = 3
    <3>1. DollarOpen(pos) = <<"$", "$">>
      BY <1>2, <1>8, <2>3, BodyLook, DollarPlain
    <3> QED  BY <1>5, <1>7, <1>8, <2>1, <2>3, <3>1
  <2> QED  BY <1>8, <2>2, <2>3
<1>9. CASE Len(t) = 9
  <2>1. Tag(t) = <<"$", "x", "$">>
    BY <1>9, BodyLook DEF Tag
  <2>2. CASE j = 3
    <3>1. DollarOpen(pos) = <<"$", "$">>
      BY <1>2, <1>9, <2>2, BodyLook, DollarPlain
    <3> QED  BY <1>6, <1>7, <1>9, <2>1, <2>2, <3>1
  <2>3. CASE j \in {4, 5}
    <3>1. DollarOpen(pos) = <<>>
      <4>1. Ch(pos) # "$" \/ Ch(pos + 1) \notin Letters \cup {"$"}
        BY <1>2, <1>9, <2>3, BodyLook DEF Semi, Letters
      <4> QED  BY <1>2, <4>1, DollarNone
    <3>2. DollarOpen(pos) # Tag(t)
      BY <1>7, <2>1, <3>1
    <3>3. j + 1 \in {4, 5, 6}
      BY <2>3
    <3>4. j + 1 \in (IF Len(t) = 9 THEN {4, 5, 6} ELSE {3})
      BY <1>9, <3>3
    <3> QED  BY <1>6, <3>2, <3>4
  <2>4. CASE j = 6
    <3>1. DollarOpen(pos) = <<"$", "x", "$">>
      BY <1>2, <1>9, <2>4, BodyLook, DollarNamed
    <3> QED  BY <1>5, <1>7, <1>9, <2>1, <2>4, <3>1
  <2> QED  BY <1>9, <2>2, <2>3, <2>4
<1> QED  BY <1>l, <1>8, <1>9

(* What stands around a token and matters to it. *)
Apart(o, t, nxt) ==
  /\ t \in Operators => (t[1] = "-" => nxt # "-") /\ (t[1] = "/" => nxt # "*")
  /\ t \in Strings \cup EStrings => nxt # "'"
  /\ t \in Names => nxt # DoubleQuote
  /\ t \in Strings => ~IsEStringStart(o + 1)
  /\ t \in EStrings => IsEStringStart(o + 2)

(* From its first character, a step goes on in a token of each kind or leaves it. *)
LEMMA PassesShort ==
  ASSUME NEW o, NEW t \in Spaces \cup Words \cup Parameters \cup Operators, NEW nxt,
         Shows(o, t, nxt), Apart(o, t, nxt),
         NEW j \in {0, 1}, InToken(t, j), pos = o + j + 1, SqlSplitNext
  PROVE  Advances(o, t)
<1>1. /\ (Len(t) = 1 \/ Len(t) = 2) /\ t[1] \in {Space, "x", "$", "-", "/"}
      /\ Len(t) = 2 => t[1] \in {"x", "$"} /\ t[2] \in {"E", "1"}
      /\ t[1] = "$" => Len(t) = 2 /\ t[2] = "1"
      /\ t[1] \in {"-", "/"} => Len(t) = 1 /\ t \in Operators
      /\ Len(t) = 2 => t \in Words \cup Parameters
  BY ShortLook DEF Space
<1>2. lexer = Code /\ j \in 0..(Len(t) - 1) /\ Len(t) \in Nat
  <2>1. t \notin Strings /\ t \notin EStrings /\ t \notin Names /\ t \notin LineComments
    <3>1. t[1] # "'" /\ t[1] # DoubleQuote
      BY <1>1 DEF Space, DoubleQuote
    <3>2. Len(t) # 4 /\ Len(t) # 6
      <4>1. Len(t) = 1 \/ Len(t) = 2
        BY <1>1
      <4> QED  BY <4>1
    <3> QED  BY <3>1, <3>2, StringLook, EStringLook, NameLook, LineLook
  <2>2. t \notin BlockComments /\ t \notin Bodies
    BY <1>1, BlockLook, BodyLook
  <2> QED  BY <1>1, <2>1, <2>2 DEF InToken
<1>3. /\ o \in Nat /\ pos \in Nat /\ pos <= Len(Text) /\ Ch(pos) = t[j + 1]
      /\ j + 1 < Len(t) => Ch(pos + 1) = t[j + 2]
      /\ j + 1 = Len(t) => Ch(pos + 1) = nxt
  BY <1>2, Here
<1>4. lexer.state = "code"
  BY <1>2 DEF Code, Lexer
<1>5. Goto(1, "code")
  <2>1. CASE t[j + 1] \in {Space, "x", "E", "1"}
    BY <1>3, <1>4, <2>1, CodeStep DEF Space, DoubleQuote, Semi
  <2>2. CASE t[j + 1] = "$"
    <3>1. j = 0 /\ Len(t) = 2 /\ t[2] = "1"
      <4>1. j # 1
        <5>1. SUFFICES ASSUME j = 1 PROVE FALSE
          OBVIOUS
        <5>2. Len(t) = 2
          BY <1>1, <1>2, <5>1
        <5>3. t[2] = "$"
          BY <2>2, <5>1
        <5> QED  BY <1>1, <5>2, <5>3
      <4>2. j = 0 /\ t[1] = "$"
        BY <2>2, <4>1
      <4> QED  BY <1>1, <4>2
    <3>2. Ch(pos) = "$" /\ Ch(pos + 1) = "1"
      BY <1>3, <2>2, <3>1
    <3>3. DollarOpen(pos) = <<>>
      BY <1>3, <3>2, DollarNone DEF Letters
    <3> QED  BY <1>3, <1>4, <3>2, <3>3, CodeStep
  <2>3. CASE t[j + 1] \in {"-", "/"}
    <3>1. j = 0 /\ Len(t) = 1 /\ t \in Operators
      <4>1. j # 1
        <5>1. SUFFICES ASSUME j = 1 PROVE FALSE
          OBVIOUS
        <5>2. Len(t) = 2
          BY <1>1, <1>2, <5>1
        <5>3. t[2] \in {"-", "/"}
          BY <2>3, <5>1
        <5> QED  BY <1>1, <5>2, <5>3
      <4>2. j = 0 /\ t[1] \in {"-", "/"}
        BY <2>3, <4>1
      <4> QED  BY <1>1, <4>2
    <3>2. /\ Ch(pos) = "-" => Ch(pos + 1) # "-"
          /\ Ch(pos) = "/" => Ch(pos + 1) # "*"
      BY <1>3, <3>1 DEF Apart
    <3>3. Ch(pos) \in {"-", "/"}
      BY <1>3, <2>3
    <3> QED  BY <1>3, <1>4, <3>2, <3>3, CodeStep
  <2>4. t[j + 1] \in {Space, "x", "E", "1", "$", "-", "/"}
    <3>1. CASE j = 0
      BY <1>1, <3>1
    <3>2. CASE j = 1
      <4>1. Len(t) = 2
        BY <1>1, <1>2, <3>2
      <4> QED  BY <1>1, <3>2, <4>1
    <3> QED  BY <3>1, <3>2
  <2> QED  BY <2>1, <2>2, <2>3, <2>4
<1>6. CASE j + 1 = Len(t)
  BY <1>2, <1>3, <1>5, <1>6, Leaves
<1>7. CASE j + 1 # Len(t)
  <2>1. j = 0 /\ Len(t) = 2
    <3>1. CASE Len(t) = 1
      BY <1>2, <1>7, <3>1
    <3>2. CASE Len(t) = 2
      BY <1>7, <3>2
    <3> QED  BY <1>1, <3>1, <3>2
  <2>2. lexer' = Lexer("code", 0, <<>>) => InToken(t, j + 1)'
    BY <1>1, <2>1 DEF InToken, Code
  <2>3. j + 1 \in 1..(Len(t) - 1)
    BY <2>1
  <2> QED  BY <1>2, <1>3, <1>5, <2>2, <2>3, StaysIn
<1> QED  BY <1>6, <1>7

LEMMA OpensString ==
  ASSUME NEW o, NEW t \in Strings, NEW nxt, Shows(o, t, nxt), Apart(o, t, nxt),
         lexer = Code, pos = o + 1, SqlSplitNext
  PROVE  Advances(o, t)
<1>0. Len(t) = 2 \/ Len(t) = 3 \/ Len(t) = 5
  BY StringLook
<1>1. (Len(t) = 2 \/ Len(t) = 3 \/ Len(t) = 5) /\ t[1] = "'" /\ Len(t) \in Nat
  BY StringLook
<1>2. o \in Nat /\ pos \in Nat /\ pos <= Len(Text) /\ Ch(pos) = "'"
  <2>1. 0 \in 0..(Len(t) - 1) /\ pos = o + 0 + 1
    <3>1. o \in Nat
      BY DEF Shows
    <3>2. 0 \in 0..(Len(t) - 1)
      BY <1>0
    <3> QED  BY <3>1, <3>2
  <2>2. o \in Nat /\ pos \in Nat /\ pos <= Len(Text) /\ Ch(pos) = t[0 + 1]
    BY <2>1, Here
  <2> QED  BY <1>1, <2>2
<1>3. Goto(1, "squote")
  <2>1. ~IsEStringStart(pos)
    BY DEF Apart
  <2>2. lexer.state = "code"
    BY DEF Code, Lexer
  <2> QED  BY <1>2, <2>1, <2>2, CodeStep
<1>4. lexer' = Lexer("squote", IF "squote" = "block" THEN 1 ELSE 0, <<>>) => InToken(t, 0 + 1)'
  BY <1>1 DEF InToken
<1>5. 0 + 1 \in 1..(Len(t) - 1) /\ pos = o + 0 + 1
  <2>1. 0 + 1 \in 1..(Len(t) - 1)
    BY <1>0
  <2> QED  BY <1>2, <2>1
<1>6. Len(t) \in Nat /\ 0 \in Nat /\ 1 \in Nat
  BY <1>0
<1> HIDE DEF InToken, Goto
<1> QED  BY <1>2, <1>3, <1>4, <1>5, <1>6, StaysIn

LEMMA OpensName ==
  ASSUME NEW o, NEW t \in Names, NEW nxt, Shows(o, t, nxt),
         lexer = Code, pos = o + 1, SqlSplitNext
  PROVE  Advances(o, t)
<1>0. Len(t) = 3 \/ Len(t) = 5
  BY NameLook
<1>1. (Len(t) = 3 \/ Len(t) = 5) /\ t[1] = DoubleQuote /\ Len(t) \in Nat
  BY NameLook
<1>2. o \in Nat /\ pos \in Nat /\ pos <= Len(Text) /\ Ch(pos) = DoubleQuote
  <2>1. 0 \in 0..(Len(t) - 1) /\ pos = o + 0 + 1
    <3>1. o \in Nat
      BY DEF Shows
    <3>2. 0 \in 0..(Len(t) - 1)
      BY <1>0
    <3> QED  BY <3>1, <3>2
  <2>2. o \in Nat /\ pos \in Nat /\ pos <= Len(Text) /\ Ch(pos) = t[0 + 1]
    BY <2>1, Here
  <2> QED  BY <1>1, <2>2
<1>3. Goto(1, "dquote")
  <2>2. lexer.state = "code"
    BY DEF Code, Lexer
  <2> QED  BY <1>2, <2>2, CodeStep
<1>4. lexer' = Lexer("dquote", IF "dquote" = "block" THEN 1 ELSE 0, <<>>) => InToken(t, 0 + 1)'
  BY <1>1 DEF InToken
<1>5. 0 + 1 \in 1..(Len(t) - 1) /\ pos = o + 0 + 1
  <2>1. 0 + 1 \in 1..(Len(t) - 1)
    BY <1>0
  <2> QED  BY <1>2, <2>1
<1> QED  BY <1>1, <1>2, <1>3, <1>4, <1>5, StaysIn

LEMMA OpensEString ==
  ASSUME NEW o, NEW t \in EStrings, NEW nxt, Shows(o, t, nxt), Apart(o, t, nxt),
         lexer = Code, NEW j \in {0, 1}, pos = o + j + 1, SqlSplitNext
  PROVE  Advances(o, t)
<1>1. Len(t) = 6 /\ t[1] = "E" /\ t[2] = "'" /\ j \in 0..(Len(t) - 1) /\ Len(t) \in Nat
  BY EStringLook
<1>2. /\ o \in Nat /\ pos \in Nat /\ pos <= Len(Text) /\ Ch(pos) = t[j + 1]
  <2>1. j \in 0..(Len(t) - 1)
    BY <1>1
  <2> QED  BY <2>1, Here
<1>3. lexer.state = "code"
  BY DEF Code, Lexer
<1>4. CASE j = 0
  <2>1. Goto(1, "code")
    BY <1>1, <1>2, <1>3, <1>4, CodeStep DEF Semi, DoubleQuote
  <2>2. lexer' = Lexer("code", 0, <<>>) => InToken(t, j + 1)'
    BY <1>1, <1>4 DEF InToken, Code
  <2>3. j + 1 \in 1..(Len(t) - 1)
    BY <1>1, <1>4
  <2> QED  BY <1>1, <1>2, <2>1, <2>2, <2>3, StaysIn
<1>5. CASE j = 1
  <2>1. IsEStringStart(pos) /\ Ch(pos) = "'"
    <3>1. pos = o + 2
      BY <1>2, <1>5
    <3> QED  BY <1>1, <1>2, <1>5, <3>1 DEF Apart
  <2>2. Goto(1, "estring")
    BY <1>2, <1>3, <2>1, CodeStep
  <2>3. lexer' = Lexer("estring", 0, <<>>) => InToken(t, j + 1)'
    BY <1>5 DEF InToken
  <2>4. j + 1 \in 1..(Len(t) - 1)
    BY <1>1, <1>5
  <2> QED  BY <1>1, <1>2, <2>2, <2>3, <2>4, StaysIn
<1> QED  BY <1>4, <1>5

LEMMA OpensLine ==
  ASSUME NEW o, NEW t \in LineComments, NEW nxt, Shows(o, t, nxt),
         lexer = Code, pos = o + 1, SqlSplitNext
  PROVE  Advances(o, t)
<1>0. Len(t) = 4
  BY LineLook
<1>1. Len(t) = 4 /\ t[1] = "-" /\ t[2] = "-" /\ Len(t) \in Nat
  BY LineLook
<1>2. o \in Nat /\ pos \in Nat /\ pos <= Len(Text) /\ Ch(pos) = "-" /\ Ch(pos + 1) = "-"
  <2>1. 0 \in 0..(Len(t) - 1) /\ pos = o + 0 + 1 /\ 0 + 1 < Len(t)
    <3>1. o \in Nat
      BY DEF Shows
    <3>2. 0 \in 0..(Len(t) - 1) /\ 0 + 1 < Len(t)
      BY <1>0
    <3> QED  BY <3>1, <3>2
  <2>2. /\ o \in Nat /\ pos \in Nat /\ pos <= Len(Text) /\ Ch(pos) = t[0 + 1]
        /\ Ch(pos + 1) = t[0 + 2]
    BY <2>1, Here
  <2> QED  BY <1>1, <2>2
<1>3. Goto(2, "line")
  <2>2. lexer.state = "code"
    BY DEF Code, Lexer
  <2> QED  BY <1>2, <2>2, CodeStep
<1>4. lexer' = Lexer("line", IF "line" = "block" THEN 1 ELSE 0, <<>>) => InToken(t, 0 + 2)'
  BY <1>1 DEF InToken
<1>5. 0 + 2 \in 1..(Len(t) - 1) /\ pos = o + 0 + 1
  <2>1. 0 + 2 \in 1..(Len(t) - 1)
    BY <1>0
  <2> QED  BY <1>2, <2>1
<1> QED  BY <1>1, <1>2, <1>3, <1>4, <1>5, StaysIn

LEMMA OpensBlock ==
  ASSUME NEW o, NEW t \in BlockComments, NEW nxt, Shows(o, t, nxt),
         lexer = Code, pos = o + 1, SqlSplitNext
  PROVE  Advances(o, t)
<1>0. Len(t) = 5 \/ Len(t) = 9
  BY BlockLook
<1>1. (Len(t) = 5 \/ Len(t) = 9) /\ t[1] = "/" /\ t[2] = "*" /\ Len(t) \in Nat
  BY BlockLook
<1>2. o \in Nat /\ pos \in Nat /\ pos <= Len(Text) /\ Ch(pos) = "/" /\ Ch(pos + 1) = "*"
  <2>1. 0 \in 0..(Len(t) - 1) /\ pos = o + 0 + 1 /\ 0 + 1 < Len(t)
    <3>1. o \in Nat
      BY DEF Shows
    <3>2. 0 \in 0..(Len(t) - 1) /\ 0 + 1 < Len(t)
      BY <1>0, FiveOrNine
    <3> QED  BY <3>1, <3>2
  <2>2. /\ o \in Nat /\ pos \in Nat /\ pos <= Len(Text) /\ Ch(pos) = t[0 + 1]
        /\ Ch(pos + 1) = t[0 + 2]
    BY <2>1, Here
  <2> QED  BY <1>1, <2>2
<1>3. Goto(2, "block")
  <2>2. lexer.state = "code"
    BY DEF Code, Lexer
  <2> QED  BY <1>2, <2>2, CodeStep
<1>4. lexer' = Lexer("block", IF "block" = "block" THEN 1 ELSE 0, <<>>) => InToken(t, 0 + 2)'
  BY <1>1 DEF InToken
<1>5. 0 + 2 \in 1..(Len(t) - 1) /\ pos = o + 0 + 1
  <2>1. 0 + 2 \in 1..(Len(t) - 1)
    BY <1>0
  <2> QED  BY <1>2, <2>1
<1> QED  BY <1>1, <1>2, <1>3, <1>4, <1>5, StaysIn

LEMMA OpensBody ==
  ASSUME NEW o, NEW t \in Bodies, NEW nxt, Shows(o, t, nxt),
         lexer = Code, pos = o + 1, SqlSplitNext
  PROVE  Advances(o, t)
<1>0. Len(t) = 5 \/ Len(t) = 9
  BY BodyLook
<1>1. (Len(t) = 5 \/ Len(t) = 9) /\ Len(t) \in Nat
  BY BodyLook
<1>2. /\ o \in Nat /\ pos \in Nat /\ pos \in 1..Len(Text) /\ pos <= Len(Text) /\ Ch(pos) = t[1]
      /\ Ch(pos + 1) = t[2] /\ pos + 1 <= Len(Text)
      /\ Ch(pos + 2) = t[3] /\ pos + 2 <= Len(Text)
      /\ Len(Text) \in Nat /\ Text \in Seq(Chars)
  <2>1. 0 \in 0..(Len(t) - 1) /\ pos = o + 0 + 1 /\ 0 + 1 < Len(t) /\ 0 + 2 < Len(t)
    <3>1. o \in Nat
      BY DEF Shows
    <3>2. 0 \in 0..(Len(t) - 1) /\ 0 + 1 < Len(t) /\ 0 + 2 < Len(t)
      <4>1. CASE Len(t) = 5
        BY <4>1
      <4>2. CASE Len(t) = 9
        BY <4>2
      <4> QED  BY <1>0, <4>1, <4>2
    <3> QED  BY <3>1, <3>2
  <2>2. /\ o \in Nat /\ pos \in Nat /\ pos \in 1..Len(Text) /\ pos <= Len(Text)
        /\ Ch(pos) = t[0 + 1]
        /\ Ch(pos + 1) = t[0 + 2] /\ pos + 1 <= Len(Text)
        /\ Ch(pos + 2) = t[0 + 3] /\ pos + 2 <= Len(Text)
        /\ Len(Text) \in Nat /\ Text \in Seq(Chars)
    BY <2>1, Here
  <2> HIDE DEF Text
  <2> QED  BY <2>2
<1>3. DollarOpen(pos) = Tag(t) /\ Ch(pos) = "$"
  <2>1. CASE Len(t) = 5
    <3>1. t[1] = "$" /\ t[2] = "$"
      BY <2>1, BodyLook
    <3>2. DollarOpen(pos) = <<"$", "$">>
      BY <1>2, <3>1, DollarPlain
    <3> QED  BY <1>2, <3>1, <3>2 DEF Tag
  <2>2. CASE Len(t) = 9
    <3>1. t[1] = "$" /\ t[2] = "x" /\ t[3] = "$"
      BY <2>2, BodyLook
    <3>2. DollarOpen(pos) = <<"$", "x", "$">>
      BY <1>2, <3>1, DollarNamed
    <3> QED  BY <1>2, <3>1, <3>2 DEF Tag
  <2> QED  BY <1>1, <2>1, <2>2
<1>4. /\ Tag(t) # <<>> /\ Len(Tag(t)) = IF Len(t) = 9 THEN 3 ELSE 2
  <2>1. /\ <<"$", "$">> # <<>> /\ <<"$", "x", "$">> # <<>>
        /\ Len(<<"$", "$">>) = 2 /\ Len(<<"$", "x", "$">>) = 3
    OBVIOUS
  <2>2. CASE Len(t) = 5
    BY <2>1, <2>2, BodyLook DEF Tag
  <2>3. CASE Len(t) = 9
    BY <2>1, <2>3, BodyLook DEF Tag
  <2> QED  BY <1>1, <2>2, <2>3
<1>5. /\ pos' = pos + Len(Tag(t)) /\ lexer' = Lexer("dollar", 0, Tag(t))
      /\ UNCHANGED <<tokens, bufStart, emitted>>
  <2>1. lexer.state = "code"
    BY DEF Code, Lexer
  <2> HIDE DEF Text, Goto
  <2> QED  BY <1>2, <1>3, <1>4, <2>1, CodeStep DEF Lexer
<1>6. CASE Len(t) = 5
  <2>1. InToken(t, 0 + 2)'
    BY <1>5, <1>6 DEF InToken
  <2>2. pos' = pos + 2 /\ 0 + 2 \in 1..(Len(t) - 1) /\ pos = o + 0 + 1
    BY <1>2, <1>4, <1>5, <1>6
  <2> QED  BY <1>1, <1>2, <1>5, <2>1, <2>2, MovesIn
<1>7. CASE Len(t) = 9
  <2>1. InToken(t, 0 + 3)'
    BY <1>5, <1>7 DEF InToken
  <2>2. pos' = pos + 3 /\ 0 + 3 \in 1..(Len(t) - 1) /\ pos = o + 0 + 1
    BY <1>2, <1>4, <1>5, <1>7
  <2> QED  BY <1>1, <1>2, <1>5, <2>1, <2>2, MovesIn
<1> QED  BY <1>1, <1>6, <1>7

(* A step takes the splitter on in the token, wherever in it it stands. *)
LEMMA TokenStep ==
  ASSUME NEW o, NEW t \in SqlTokens, t # Semicolon, NEW nxt, Shows(o, t, nxt), Apart(o, t, nxt),
         NEW j, InToken(t, j), pos = o + j + 1, SqlSplitNext
  PROVE  Advances(o, t)
<1>s. o \in Nat
  BY DEF Shows
<1>1. CASE j = 0 /\ lexer = Code
  <2>0. pos = o + 1
    BY <1>s, <1>1
  <2>1. CASE t \in Spaces \cup Words \cup Parameters \cup Operators
    BY <1>1, <2>1, PassesShort DEF InToken
  <2>2. CASE t \in Strings
    BY <1>1, <2>0, <2>2, OpensString
  <2>3. CASE t \in EStrings
    BY <1>1, <2>3, OpensEString
  <2>4. CASE t \in Names
    BY <1>1, <2>0, <2>4, OpensName
  <2>5. CASE t \in LineComments
    BY <1>1, <2>0, <2>5, OpensLine
  <2>6. CASE t \in BlockComments
    BY <1>1, <2>0, <2>6, OpensBlock
  <2>7. CASE t \in Bodies
    BY <1>1, <2>0, <2>7, OpensBody
  <2> QED  BY <2>1, <2>2, <2>3, <2>4, <2>5, <2>6, <2>7 DEF SqlTokens
<1>2. CASE t \in Words \cup Parameters \cup EStrings /\ j = 1 /\ Len(t) > 1 /\ lexer = Code
  <2>1. CASE t \in EStrings
    BY <1>2, <2>1, OpensEString
  <2>2. CASE t \in Words \cup Parameters
    <3>1. t \in Spaces \cup Words \cup Parameters \cup Operators
      BY <2>2
    <3>2. j \in {0, 1}
      BY <1>2
    <3> QED  BY <3>1, <3>2, PassesShort
  <2> QED  BY <1>2, <2>1, <2>2
<1>3. CASE /\ t \in Strings /\ j \in (IF Len(t) = 5 THEN {1, 3, 4} ELSE 1..(Len(t) - 1))
           /\ lexer = Lexer("squote", 0, <<>>)
  <2>1. nxt # "'"
    BY <1>3 DEF Apart
  <2> QED  BY <1>3, <2>1, InString
<1>4. CASE t \in EStrings /\ j \in {2, 4, 5} /\ lexer = Lexer("estring", 0, <<>>)
  <2>1. nxt # "'"
    BY <1>4 DEF Apart
  <2> QED  BY <1>4, <2>1, InEString
<1>5. CASE /\ t \in Names /\ j \in (IF Len(t) = 5 THEN {1, 3, 4} ELSE {1, 2})
           /\ lexer = Lexer("dquote", 0, <<>>)
  <2>1. nxt # DoubleQuote
    BY <1>5 DEF Apart
  <2> QED  BY <1>5, <2>1, InName
<1>6. CASE t \in LineComments /\ j \in {2, 3} /\ lexer = Lexer("line", 0, <<>>)
  BY <1>6, InLineComment
<1>7. CASE /\ t \in BlockComments /\ j \in (IF Len(t) = 9 THEN {2, 4, 6, 7} ELSE {2, 3})
           /\ lexer = Lexer("block", IF j = 4 THEN 2 ELSE 1, <<>>)
  BY <1>7, InBlockComment
<1>8. CASE /\ t \in Bodies /\ j \in (IF Len(t) = 9 THEN {3, 4, 5, 6} ELSE {2, 3})
           /\ lexer = Lexer("dollar", 0, Tag(t))
  BY <1>8, InBody
<1> QED  BY <1>1, <1>2, <1>3, <1>4, <1>5, <1>6, <1>7, <1>8 DEF InToken

-----------------------------------------------------------------------------
(* What tokens begin and end with. *)
LEMMA Firsts ==
  ASSUME NEW u \in SqlTokens
  PROVE  /\ Len(u) \in Nat /\ Len(u) >= 1 /\ u[1] # "*" /\ u[1] # ""
         /\ u[1] = "'" => u \in Strings
         /\ u[1] = DoubleQuote => u \in Names
         /\ u[1] = "-" => u \in Operators \cup LineComments
<1>1. CASE u \in Words
  <2>1. Len(u) = 1 \/ Len(u) = 2
    BY <1>1, ShortLook
  <2>2. Len(u) \in Nat /\ Len(u) >= 1
    BY <2>1
  <2>3. u[1] = "x"
    BY <1>1, ShortLook
  <2> QED  BY <1>1, <2>2, <2>3 DEF DoubleQuote, Space, Semi
<1>2. CASE u \in Parameters
  <2>1. Len(u) = 2
    BY <1>2, ShortLook
  <2>2. Len(u) \in Nat /\ Len(u) >= 1
    BY <2>1
  <2>3. u[1] = "$"
    BY <1>2, ShortLook
  <2> QED  BY <1>2, <2>2, <2>3 DEF DoubleQuote, Space, Semi
<1>3. CASE u \in Operators
  <2>1. Len(u) = 1
    BY <1>3, ShortLook
  <2>2. Len(u) \in Nat /\ Len(u) >= 1
    BY <2>1
  <2>3. u[1] = "-" \/ u[1] = "/"
    BY <1>3, ShortLook
  <2> QED  BY <1>3, <2>2, <2>3 DEF DoubleQuote, Space, Semi
<1>4. CASE u \in Spaces
  <2>1. Len(u) = 1
    BY <1>4, ShortLook
  <2>2. Len(u) \in Nat /\ Len(u) >= 1
    BY <2>1
  <2>3. u[1] = Space
    BY <1>4, ShortLook
  <2> QED  BY <1>4, <2>2, <2>3 DEF DoubleQuote, Space, Semi
<1>5. CASE u = Semicolon
  <2>1. Len(u) = 1
    BY <1>5, ShortLook
  <2>2. Len(u) \in Nat /\ Len(u) >= 1
    BY <2>1
  <2>3. u[1] = Semi
    BY <1>5, ShortLook
  <2> QED  BY <1>5, <2>2, <2>3 DEF DoubleQuote, Space, Semi
<1>6. CASE u \in Strings
  <2>1. Len(u) = 2 \/ Len(u) = 3 \/ Len(u) = 5
    BY <1>6, StringLook
  <2>2. Len(u) \in Nat /\ Len(u) >= 1
    BY <2>1
  <2>3. u[1] = "'"
    BY <1>6, StringLook
  <2> QED  BY <1>6, <2>2, <2>3 DEF DoubleQuote, Space, Semi
<1>7. CASE u \in EStrings
  <2>1. Len(u) = 6
    BY <1>7, EStringLook
  <2>2. Len(u) \in Nat /\ Len(u) >= 1
    BY <2>1
  <2>3. u[1] = "E"
    BY <1>7, EStringLook
  <2> QED  BY <1>7, <2>2, <2>3 DEF DoubleQuote, Space, Semi
<1>8. CASE u \in Names
  <2>1. Len(u) = 3 \/ Len(u) = 5
    BY <1>8, NameLook
  <2>2. Len(u) \in Nat /\ Len(u) >= 1
    BY <2>1
  <2>3. u[1] = DoubleQuote
    BY <1>8, NameLook
  <2> QED  BY <1>8, <2>2, <2>3 DEF DoubleQuote, Space, Semi
<1>9. CASE u \in LineComments
  <2>1. Len(u) = 4
    BY <1>9, LineLook
  <2>2. Len(u) \in Nat /\ Len(u) >= 1
    BY <2>1
  <2>3. u[1] = "-"
    BY <1>9, LineLook
  <2> QED  BY <1>9, <2>2, <2>3 DEF DoubleQuote, Space, Semi
<1>10. CASE u \in BlockComments
  <2>1. Len(u) = 5 \/ Len(u) = 9
    BY <1>10, BlockLook
  <2>2. Len(u) \in Nat /\ Len(u) >= 1
    BY <2>1, FiveOrNine
  <2>3. u[1] = "/"
    BY <1>10, BlockLook
  <2> QED  BY <1>10, <2>2, <2>3 DEF DoubleQuote, Space, Semi
<1>11. CASE u \in Bodies
  <2>1. Len(u) = 5 \/ Len(u) = 9
    BY <1>11, BodyLook
  <2>2. Len(u) \in Nat /\ Len(u) >= 1
    BY <2>1, FiveOrNine
  <2>3. u[1] = "$"
    BY <1>11, BodyLook
  <2> QED  BY <1>11, <2>2, <2>3 DEF DoubleQuote, Space, Semi
<1> QED  BY <1>1, <1>2, <1>3, <1>4, <1>5, <1>6, <1>7, <1>8, <1>9, <1>10, <1>11 DEF SqlTokens

(* Only a word or a parameter ends as a name may go on. *)
LEMMA Lasts ==
  ASSUME NEW u \in SqlTokens
  PROVE  /\ u[Len(u)] \in Alnum => u \in Words \cup Parameters
         /\ u[Len(u)] = "E" => Len(u) = 2 /\ u[1] = "x"
<1> USE DEF Alnum, Letters
<1>1. CASE u \in Words
  BY <1>1, ShortLook
<1>2. CASE u \in Parameters
  BY <1>2, ShortLook
<1>3. CASE u \in Operators \cup Spaces
  BY <1>3, ShortLook DEF Space
<1>4. CASE u = Semicolon
  BY <1>4, ShortLook DEF Semi
<1>5. CASE u \in Strings
  BY <1>5, StringLook
<1>6. CASE u \in EStrings
  BY <1>6, EStringLook
<1>7. CASE u \in Names
  BY <1>7, NameLook DEF DoubleQuote
<1>8. CASE u \in LineComments
  BY <1>8, LineLook
<1>9. CASE u \in BlockComments
  <2>1. u[Len(u)] = "/"
    BY <1>9, BlockLook
  <2> QED  BY <2>1
<1>10. CASE u \in Bodies
  <2>1. u[Len(u)] = "$"
    BY <1>10, BodyLook
  <2> QED  BY <2>1
<1> QED  BY <1>1, <1>2, <1>3, <1>4, <1>5, <1>6, <1>7, <1>8, <1>9, <1>10 DEF SqlTokens

(* The files the splitter reads, of any length. *)
Unmerged(T) == T \in Seq(SqlTokens) /\ \A k \in 1..(Len(T) - 1) : ~Merge(T[k], T[k + 1])
OffsetOf(k) == Len(Before(tokens, k - 1))
Nxt(k) == IF k < Len(tokens) THEN tokens[k + 1][1] ELSE ""

(* The tokens share out the text. *)
LEMMA Offsets ==
  ASSUME tokens \in Seq(SqlTokens)
  PROVE  /\ Text \in Seq(Chars) /\ Len(Text) \in Nat /\ OffsetOf(1) = 0 /\ Len(tokens) \in Nat
         /\ Len(Text) = OffsetOf(Len(tokens) + 1)
         /\ \A k \in 1..(Len(tokens) + 1) : OffsetOf(k) \in Nat /\ OffsetOf(k) <= Len(Text)
         /\ \A k \in 1..Len(tokens) :
              /\ tokens[k] \in SqlTokens /\ Len(tokens[k]) \in Nat /\ Len(tokens[k]) >= 1
              /\ OffsetOf(k + 1) = OffsetOf(k) + Len(tokens[k])
              /\ \A j \in 1..Len(tokens[k]) : Ch(OffsetOf(k) + j) = tokens[k][j]
<1>1. tokens \in Seq(Seq(Chars)) /\ Len(tokens) \in Nat
  <2>1. tokens \in [1..Len(tokens) -> SqlTokens] /\ Len(tokens) \in Nat
    BY LenProperties
  <2>2. \A i \in 1..Len(tokens) : tokens[i] \in Seq(Chars)
    BY <2>1, TokensAreText
  <2> QED  BY <2>1, <2>2, IsASeq
<1>2. \A k \in 1..Len(tokens) : tokens[k] \in SqlTokens
  BY ElementOfSeq
<1>3. \A k \in 1..Len(tokens) : Len(tokens[k]) \in Nat /\ Len(tokens[k]) >= 1
  BY <1>2, Firsts
<1>4. /\ Text \in Seq(Chars) /\ Len(Before(tokens, 0)) = 0
      /\ Len(Text) = Len(Before(tokens, Len(tokens)))
      /\ \A k \in 0..Len(tokens) : Len(Before(tokens, k)) \in 0..Len(Text)
      /\ \A k \in 1..Len(tokens) :
           /\ Len(Before(tokens, k)) = Len(Before(tokens, k - 1)) + Len(tokens[k])
           /\ \A j \in 1..Len(tokens[k]) : Text[Len(Before(tokens, k - 1)) + j] = tokens[k][j]
  BY <1>1, TokenInText DEF Text
<1> HIDE DEF Text
<1>5. Len(Text) \in Nat
  BY <1>4, LenProperties
<1>6. OffsetOf(1) = 0
  <2>1. 1 - 1 = 0
    OBVIOUS
  <2> QED  BY <1>4, <2>1 DEF OffsetOf
<1>7. Len(Text) = OffsetOf(Len(tokens) + 1)
  <2>1. (Len(tokens) + 1) - 1 = Len(tokens)
    BY <1>1
  <2> QED  BY <1>4, <2>1 DEF OffsetOf
<1>8. ASSUME NEW k \in 1..(Len(tokens) + 1) PROVE OffsetOf(k) \in Nat /\ OffsetOf(k) <= Len(Text)
  <2>1. k - 1 \in 0..Len(tokens)
    BY <1>1
  <2>2. OffsetOf(k) \in 0..Len(Text)
    BY <1>4, <2>1 DEF OffsetOf
  <2> QED  BY <1>5, <2>2
<1>9. ASSUME NEW k \in 1..Len(tokens) PROVE OffsetOf(k + 1) = OffsetOf(k) + Len(tokens[k])
  <2>1. (k + 1) - 1 = k
    BY <1>1
  <2> QED  BY <1>4, <2>1 DEF OffsetOf
<1>10. ASSUME NEW k \in 1..Len(tokens), NEW j \in 1..Len(tokens[k])
       PROVE  Ch(OffsetOf(k) + j) = tokens[k][j]
  <2>1. Text[OffsetOf(k) + j] = tokens[k][j]
    BY <1>4 DEF OffsetOf
  <2>2. k \in 1..(Len(tokens) + 1) /\ k + 1 \in 1..(Len(tokens) + 1)
    BY <1>1
  <2>3. OffsetOf(k) \in Nat /\ OffsetOf(k + 1) <= Len(Text) /\ OffsetOf(k + 1) = OffsetOf(k) + Len(tokens[k])
    BY <1>8, <1>9, <2>2
  <2>4. OffsetOf(k) + j \in 1..Len(Text)
    BY <1>3, <1>5, <2>3
  <2> QED  BY <2>1, <2>4 DEF Ch
<1> QED  BY <1>1, <1>2, <1>3, <1>4, <1>5, <1>6, <1>7, <1>8, <1>9, <1>10

(* The k-th token is shown at its offset, before the first character of the next. *)
LEMMA ShowsToken ==
  ASSUME tokens \in Seq(SqlTokens), NEW k \in 1..Len(tokens)
  PROVE  Shows(OffsetOf(k), tokens[k], Nxt(k))
<1> DEFINE o == OffsetOf(k)  t == tokens[k]
<1>1. /\ Text \in Seq(Chars) /\ Len(Text) \in Nat /\ Len(tokens) \in Nat
      /\ k \in 1..(Len(tokens) + 1) /\ k + 1 \in 1..(Len(tokens) + 1)
  BY Offsets
<1>2. /\ o \in Nat /\ Len(t) \in Nat /\ OffsetOf(k + 1) = o + Len(t) /\ OffsetOf(k + 1) <= Len(Text)
      /\ OffsetOf(k + 1) \in Nat /\ \A j \in 1..Len(t) : Ch(o + j) = t[j]
  BY <1>1, Offsets
<1>3. Ch(o + Len(t) + 1) = Nxt(k)
  <2>1. CASE k < Len(tokens)
    <3>1. k + 1 \in 1..Len(tokens)
      BY <1>1, <2>1
    <3>2. 1 \in 1..Len(tokens[k + 1]) /\ \A j \in 1..Len(tokens[k + 1]) :
             Ch(OffsetOf(k + 1) + j) = tokens[k + 1][j]
      BY <3>1, Offsets
    <3>3. Ch(OffsetOf(k + 1) + 1) = tokens[k + 1][1]
      BY <3>2
    <3> QED  BY <1>2, <2>1, <3>3 DEF Nxt
  <2>2. CASE ~(k < Len(tokens))
    <3>1. k = Len(tokens)
      BY <1>1, <2>2
    <3>2. OffsetOf(k + 1) = Len(Text)
      BY <3>1, Offsets
    <3>3. o + Len(t) + 1 \notin 1..Len(Text)
      BY <1>1, <1>2, <3>2
    <3>4. Ch(o + Len(t) + 1) = ""
      BY <3>3 DEF Ch
    <3> QED  BY <2>2, <3>4 DEF Nxt
  <2> QED  BY <2>1, <2>2
<1> HIDE DEF o, t, Text
<1>4. o + Len(t) <= Len(Text)
  BY <1>2
<1>5. Shows(o, t, Nxt(k))
  BY <1>1, <1>2, <1>3, <1>4 DEF Shows
<1> QED  BY <1>5 DEF o, t

(* Tokens that do not merge are apart. *)
LEMMA ApartToken ==
  ASSUME Unmerged(tokens), NEW k \in 1..Len(tokens)
  PROVE  Apart(OffsetOf(k), tokens[k], Nxt(k))
<1> DEFINE o == OffsetOf(k)  t == tokens[k]  nxt == Nxt(k)
<1>1. tokens \in Seq(SqlTokens) /\ \A i \in 1..(Len(tokens) - 1) : ~Merge(tokens[i], tokens[i + 1])
  BY DEF Unmerged
<1>2. /\ Len(tokens) \in Nat /\ Len(Text) \in Nat
      /\ \A i \in 1..Len(tokens) :
              /\ tokens[i] \in SqlTokens /\ Len(tokens[i]) \in Nat /\ Len(tokens[i]) >= 1
              /\ OffsetOf(i + 1) = OffsetOf(i) + Len(tokens[i])
              /\ \A j \in 1..Len(tokens[i]) : Ch(OffsetOf(i) + j) = tokens[i][j]
  BY <1>1, Offsets
<1>3. /\ t \in Operators => (t[1] = "-" => nxt # "-") /\ (t[1] = "/" => nxt # "*")
      /\ t \in Strings \cup EStrings => nxt # "'"
      /\ t \in Names => nxt # DoubleQuote
  <2>1. CASE k < Len(tokens)
    <3> DEFINE u == tokens[k + 1]
    <3>1. u \in SqlTokens /\ ~Merge(t, u) /\ nxt = u[1]
      <4>1. k \in 1..(Len(tokens) - 1) /\ k + 1 \in 1..Len(tokens)
        BY <1>2, <2>1
      <4> QED  BY <1>1, <1>2, <2>1, <4>1 DEF Nxt
    <3> HIDE DEF u, t, nxt
    <3>2. /\ u[1] # "*" /\ (u[1] = "'" => u \in Strings) /\ (u[1] = DoubleQuote => u \in Names)
          /\ (u[1] = "-" => u \in Operators \cup LineComments)
      BY <3>1, Firsts
    <3> QED  BY <3>1, <3>2 DEF Merge
  <2>2. CASE ~(k < Len(tokens))
    <3>1. nxt = ""
      BY <2>2 DEF Nxt
    <3> HIDE DEF nxt
    <3> QED  BY <3>1 DEF DoubleQuote
  <2> QED  BY <2>1, <2>2
<1>4. ASSUME k # 1
      PROVE  \E p \in SqlTokens : /\ ~Merge(p, t) /\ Len(p) \in Nat /\ Len(p) >= 1
                                  /\ o = OffsetOf(k - 1) + Len(p) /\ OffsetOf(k - 1) \in Nat
                                  /\ \A j \in 1..Len(p) : Ch(OffsetOf(k - 1) + j) = p[j]
  <2>1. k - 1 \in 1..Len(tokens) /\ k - 1 \in 1..(Len(tokens) - 1) /\ (k - 1) + 1 = k
    BY <1>2, <1>4
  <2>2. ~Merge(tokens[k - 1], t)
    BY <1>1, <2>1
  <2>3. k - 1 \in 1..(Len(tokens) + 1)
    BY <1>2, <2>1
  <2>4. OffsetOf(k - 1) \in Nat
    BY <1>1, <2>3, Offsets
  <2>5. OffsetOf(k) = OffsetOf(k - 1) + Len(tokens[k - 1])
    BY <1>2, <2>1
  <2> QED  BY <1>2, <2>1, <2>2, <2>4, <2>5
<1>5. o \in Nat
  <2>1. k \in 1..(Len(tokens) + 1)
    BY <1>2
  <2> QED  BY <1>1, <2>1, Offsets
<1>6. k = 1 => Ch(o) = ""
  <2>1. k = 1 => o = 0
    BY <1>1, Offsets
  <2>2. 0 \notin 1..Len(Text)
    OBVIOUS
  <2> QED  BY <2>1, <2>2 DEF Ch
<1>7. ASSUME t \in Strings PROVE ~IsEStringStart(o + 1)
  <2>1. SUFFICES ASSUME Ch(o) = "E", Ch(o - 1) \notin Alnum PROVE FALSE
    <3>1. (o + 1) - 1 = o /\ (o + 1) - 2 = o - 1
      BY <1>5
    <3> QED  BY <3>1 DEF IsEStringStart
  <2>2. k # 1
    BY <1>6, <2>1
  <2>3. PICK p \in SqlTokens : /\ ~Merge(p, t) /\ Len(p) \in Nat /\ Len(p) >= 1
                               /\ o = OffsetOf(k - 1) + Len(p) /\ OffsetOf(k - 1) \in Nat
                               /\ \A j \in 1..Len(p) : Ch(OffsetOf(k - 1) + j) = p[j]
    BY <1>4, <2>2
  <2>4. Len(p) \in 1..Len(p)
    BY <2>3
  <2>5. p[Len(p)] = "E"
    BY <2>1, <2>3, <2>4
  <2>6. Len(p) = 2 /\ p[1] = "x"
    BY <2>5, Lasts
  <2>7. o - 1 = OffsetOf(k - 1) + 1 /\ 1 \in 1..Len(p)
    BY <2>3, <2>6
  <2>8. Ch(o - 1) = "x"
    BY <2>3, <2>6, <2>7
  <2> QED  BY <2>1, <2>8 DEF Alnum, Letters
<1>8. ASSUME t \in EStrings PROVE IsEStringStart(o + 2)
  <2>1. (o + 2) - 1 = o + 1 /\ (o + 2) - 2 = o
    BY <1>5
  <2>2. Ch(o + 1) = "E"
    <3>1. 1 \in 1..Len(t)
      BY <1>2
    <3>2. Ch(o + 1) = t[1]
      BY <1>2, <3>1
    <3>3. t[1] = "E"
      BY <1>8, EStringLook
    <3> QED  BY <3>2, <3>3
  <2>3. Ch(o) \notin Alnum
    <3>1. CASE k = 1
      BY <1>6, <3>1 DEF Alnum, Letters
    <3>2. CASE k # 1
      <4>3. PICK p \in SqlTokens : /\ ~Merge(p, t) /\ Len(p) \in Nat /\ Len(p) >= 1
                                   /\ o = OffsetOf(k - 1) + Len(p) /\ OffsetOf(k - 1) \in Nat
                                   /\ \A j \in 1..Len(p) : Ch(OffsetOf(k - 1) + j) = p[j]
        BY <1>4, <3>2
      <4>4. Len(p) \in 1..Len(p)
        BY <4>3
      <4>5. Ch(o) = p[Len(p)]
        BY <4>3, <4>4
      <4>6. p \notin Words \cup Parameters
        BY <1>8, <4>3 DEF Merge
      <4> QED  BY <4>5, <4>6, Lasts
    <3> QED  BY <3>1, <3>2
  <2> QED  BY <2>1, <2>2, <2>3 DEF IsEStringStart
<1> HIDE DEF o, t, nxt
<1>9. Apart(o, t, nxt)
  BY <1>3, <1>7, <1>8 DEF Apart
<1> QED  BY <1>9 DEF o, t, nxt

-----------------------------------------------------------------------------
(* What _only_trivia makes of a text. *)
(* The states of the reading, and a reading R of s. *)
ReadStates == [state : {"code", "line", "block", "text"}, depth : Int, skip : {0, 1}]
Following(s, k) == IF k < Len(s) THEN s[k + 1] ELSE ""
Reading(R, s) ==
  /\ R \in [0..Len(s) -> ReadStates] /\ R[0] = Fresh
  /\ \A k \in 1..Len(s) : R[k] = Reads(R[k - 1], s[k], Following(s, k))

(* A state of the reading. *)
Mode(state, depth, skip) == [state |-> state, depth |-> depth, skip |-> skip]

(* A mode with another state. *)
LEMMA ModeExcept ==
  ASSUME NEW st \in {"code", "line", "block", "text"}, NEW d \in Int, NEW a \in {0, 1}, NEW x
  PROVE  [Mode(st, d, a) EXCEPT !.state = x] = Mode(x, d, a)
BY DEF Mode

(* The second character of a sign is skipped. *)
LEMMA ReadsAhead ==
  ASSUME NEW st \in {"code", "line", "block", "text"}, NEW d \in Int, NEW ch, NEW nxt
  PROVE  Reads(Mode(st, d, 1), ch, nxt) = Mode(st, d, 0)
<1>1. Mode(st, d, 1).skip = 1
  BY DEF Mode
<1>2. [Mode(st, d, 1) EXCEPT !.skip = 0] = Mode(st, d, 0)
  BY DEF Mode
<1> QED  BY <1>1, <1>2 DEF Reads

(* What a character does to each mode. *)
LEMMA ReadsAs ==
  ASSUME NEW d \in Int, NEW ch, NEW nxt
  PROVE  /\ ch \in Blank => Reads(Mode("code", d, 0), ch, nxt) = Mode("code", d, 0)
         /\ ch = "-" /\ nxt = "-" => Reads(Mode("code", d, 0), ch, nxt) = Mode("line", 0, 1)
         /\ ch = "/" /\ nxt = "*" => Reads(Mode("code", d, 0), ch, nxt) = Mode("block", 1, 1)
         /\ ch \notin Blank /\ ~(ch = "-" /\ nxt = "-") /\ ~(ch = "/" /\ nxt = "*")
              => Reads(Mode("code", d, 0), ch, nxt) = Mode("text", d, 0)
         /\ ch = "\n" => Reads(Mode("line", d, 0), ch, nxt) = Mode("code", d, 0)
         /\ ch # "\n" => Reads(Mode("line", d, 0), ch, nxt) = Mode("line", d, 0)
         /\ ch = "/" /\ nxt = "*"
              => Reads(Mode("block", d, 0), ch, nxt) = Mode("block", d + 1, 1)
         /\ ch = "*" /\ nxt = "/" /\ d = 1
              => Reads(Mode("block", d, 0), ch, nxt) = Mode("code", d - 1, 1)
         /\ ch = "*" /\ nxt = "/" /\ d # 1
              => Reads(Mode("block", d, 0), ch, nxt) = Mode("block", d - 1, 1)
         /\ ~(ch = "/" /\ nxt = "*") /\ ~(ch = "*" /\ nxt = "/")
              => Reads(Mode("block", d, 0), ch, nxt) = Mode("block", d, 0)
         /\ Reads(Mode("text", d, 0), ch, nxt) = Mode("text", d, 0)
<1>1. ASSUME NEW st, NEW a \in {0, 1}
      PROVE  /\ Mode(st, d, a).state = st /\ Mode(st, d, a).depth = d /\ Mode(st, d, a).skip = a
  BY DEF Mode
<1>3. Mode("code", d, 0).skip = 0 /\ Mode("code", d, 0).state = "code"
  BY <1>1
<1>4. /\ ch \in Blank => Reads(Mode("code", d, 0), ch, nxt) = Mode("code", d, 0)
      /\ ch = "-" /\ nxt = "-" => Reads(Mode("code", d, 0), ch, nxt) = Mode("line", 0, 1)
      /\ ch = "/" /\ nxt = "*" => Reads(Mode("code", d, 0), ch, nxt) = Mode("block", 1, 1)
  <2>1. /\ [state |-> "line", depth |-> 0, skip |-> 1] = Mode("line", 0, 1)
        /\ [state |-> "block", depth |-> 1, skip |-> 1] = Mode("block", 1, 1)
    BY DEF Mode
  <2>2. "-" \notin Blank /\ "/" \notin Blank
    BY DEF Blank, Space
  <2> QED  BY <1>3, <2>1, <2>2 DEF Reads
<1>5. ch \notin Blank /\ ~(ch = "-" /\ nxt = "-") /\ ~(ch = "/" /\ nxt = "*")
              => Reads(Mode("code", d, 0), ch, nxt) = Mode("text", d, 0)
  BY <1>3, ModeExcept DEF Reads
<1>6. Mode("line", d, 0).skip = 0 /\ Mode("line", d, 0).state = "line"
  BY <1>1
<1>7. /\ ch = "\n" => Reads(Mode("line", d, 0), ch, nxt) = Mode("code", d, 0)
      /\ ch # "\n" => Reads(Mode("line", d, 0), ch, nxt) = Mode("line", d, 0)
  BY <1>6, ModeExcept DEF Reads
<1>8. /\ Mode("block", d, 0).skip = 0 /\ Mode("block", d, 0).state = "block"
      /\ Mode("block", d, 0).depth = d
  BY <1>1
<1>9. /\ ch = "/" /\ nxt = "*"
            => Reads(Mode("block", d, 0), ch, nxt) = Mode("block", d + 1, 1)
      /\ ch = "*" /\ nxt = "/" /\ d = 1
            => Reads(Mode("block", d, 0), ch, nxt) = Mode("code", d - 1, 1)
      /\ ch = "*" /\ nxt = "/" /\ d # 1
            => Reads(Mode("block", d, 0), ch, nxt) = Mode("block", d - 1, 1)
  <2>1. \A st, dep : [state |-> st, depth |-> dep, skip |-> 1] = Mode(st, dep, 1)
    BY DEF Mode
  <2> QED  BY <1>8, <2>1 DEF Reads, Deeper
<1>10. ~(ch = "/" /\ nxt = "*") /\ ~(ch = "*" /\ nxt = "/")
         => Reads(Mode("block", d, 0), ch, nxt) = Mode("block", d, 0)
  BY <1>8 DEF Reads
<1>11. Mode("text", d, 0).skip = 0 /\ Mode("text", d, 0).state = "text"
  BY <1>1
<1>12. Reads(Mode("text", d, 0), ch, nxt) = Mode("text", d, 0)
  BY <1>11 DEF Reads
<1> QED  BY <1>4, <1>5, <1>7, <1>9, <1>10, <1>12

(* The modes are the states of the reading. *)
LEMMA ModeType ==
  /\ \A st \in {"code", "line", "block", "text"}, d \in Int, a \in {0, 1} :
        Mode(st, d, a) \in ReadStates
  /\ \A r \in ReadStates : /\ r = Mode(r.state, r.depth, r.skip)
                           /\ r.state \in {"code", "line", "block", "text"}
                           /\ r.depth \in Int /\ r.skip \in {0, 1}
BY DEF Mode, ReadStates

(* A reading stays in its states. *)
LEMMA ReadsType ==
  ASSUME NEW r \in ReadStates, NEW ch, NEW nxt
  PROVE  Reads(r, ch, nxt) \in ReadStates
<1>1. PICK st \in {"code", "line", "block", "text"}, d \in Int, a \in {0, 1} : r = Mode(st, d, a)
  BY ModeType
<1>2. d + 1 \in Int /\ d - 1 \in Int
  OBVIOUS
<1>3. \A st2 \in {"code", "line", "block", "text"}, d2 \in Int, a2 \in {0, 1} :
        Mode(st2, d2, a2) \in ReadStates
  BY ModeType
<1>4. Reads(Mode(st, d, 1), ch, nxt) \in ReadStates
  <2>1. Reads(Mode(st, d, 1), ch, nxt) = Mode(st, d, 0)
    BY ReadsAhead
  <2> QED  BY <1>3, <2>1
<1>5. Reads(Mode("code", d, 0), ch, nxt) \in ReadStates
  <2>1. Mode("code", d, 0) \in ReadStates /\ Mode("text", d, 0) \in ReadStates
    BY <1>3
  <2>2. Mode("line", 0, 1) \in ReadStates
    BY <1>3
  <2>3. Mode("block", 1, 1) \in ReadStates
    BY <1>3
  <2> QED  BY <2>1, <2>2, <2>3, ReadsAs
<1>6. Reads(Mode("line", d, 0), ch, nxt) \in ReadStates
  <2>1. Mode("code", d, 0) \in ReadStates /\ Mode("line", d, 0) \in ReadStates
    BY <1>3
  <2> QED  BY <2>1, ReadsAs
<1>7. Reads(Mode("block", d, 0), ch, nxt) \in ReadStates
  <2>1. Mode("block", d + 1, 1) \in ReadStates /\ Mode("block", d, 0) \in ReadStates
    BY <1>2, <1>3
  <2>2. Mode("code", d - 1, 1) \in ReadStates /\ Mode("block", d - 1, 1) \in ReadStates
    BY <1>2, <1>3
  <2>3. CASE ch = "/" /\ nxt = "*"
    BY <2>1, <2>3, ReadsAs
  <2>4. CASE ch = "*" /\ nxt = "/"
    BY <2>2, <2>4, ReadsAs
  <2>5. CASE ~(ch = "/" /\ nxt = "*") /\ ~(ch = "*" /\ nxt = "/")
    BY <2>1, <2>5, ReadsAs
  <2> QED  BY <2>3, <2>4, <2>5
<1>8. Reads(Mode("text", d, 0), ch, nxt) \in ReadStates
  <2>1. Mode("text", d, 0) \in ReadStates
    BY <1>3
  <2> QED  BY <2>1, ReadsAs
<1> QED  BY <1>1, <1>4, <1>5, <1>6, <1>7, <1>8

(* The reading of a text, and that OnlyTrivia asks for its end. *)
LEMMA ReadingExists ==
  ASSUME NEW s, Len(s) \in Nat
  PROVE  /\ \E R : Reading(R, s)
         /\ \A R : Reading(R, s) => (OnlyTrivia(s) <=> R[Len(s)].state # "text")
<1> DEFINE n == Len(s)
           G == [p \in ReadStates \X (1..n) |-> Reads(p[1], s[p[2]], Following(s, p[2]))]
<1>1. Fresh \in ReadStates
  BY DEF Fresh, ReadStates
<1>2. G \in [ReadStates \X (1..n) -> ReadStates]
  <2>1. ASSUME NEW p \in ReadStates \X (1..n)
        PROVE  Reads(p[1], s[p[2]], Following(s, p[2])) \in ReadStates
    BY ReadsType
  <2> QED  BY <2>1
<1>3. \A r \in ReadStates, k \in 1..n : G[<<r, k>>] = Reads(r, s[k], Following(s, k))
  OBVIOUS
<1> HIDE DEF G, n
<1>4. PICK R : Counts(R, n, ReadStates, Fresh, G)
  <2>1. CountsWith(n, ReadStates, Fresh, G)
    BY <1>1, <1>2 DEF CountsWith, n
  <2> QED  BY <2>1, CountingFunction
<1>5. Reading(R, s)
  <2>1. R \in [0..n -> ReadStates] /\ R[0] = Fresh /\ \A k \in 1..n : R[k] = G[<<R[k - 1], k>>]
    BY <1>4 DEF Counts
  <2>2. ASSUME NEW k \in 1..n PROVE R[k] = Reads(R[k - 1], s[k], Following(s, k))
    <3>1. k - 1 \in 0..n
      BY DEF n
    <3>2. R[k - 1] \in ReadStates
      BY <2>1, <3>1
    <3> QED  BY <1>3, <2>1, <3>2
  <2> QED  BY <2>1, <2>2 DEF Reading, n
<1>6. ASSUME NEW Q, Reading(Q, s) PROVE OnlyTrivia(s) <=> Q[n].state # "text"
  <2> DEFINE body(f) ==
        [k \in 0..n |-> IF k = 0 THEN Fresh ELSE Reads(f[k - 1], s[k], Following(s, k))]
             read == CHOOSE f : f = body(f)
  <2>1. Q \in [0..n -> ReadStates] /\ Q[0] = Fresh
        /\ \A k \in 1..n : Q[k] = Reads(Q[k - 1], s[k], Following(s, k))
    BY <1>6 DEF Reading, n
  <2>2. Q = body(Q)
    <3>1. Q = [k \in 0..n |-> Q[k]]
      BY <2>1
    <3>2. ASSUME NEW k \in 0..n
          PROVE  Q[k] = IF k = 0 THEN Fresh ELSE Reads(Q[k - 1], s[k], Following(s, k))
      <4>1. k = 0 \/ k \in 1..n
        BY DEF n
      <4> QED  BY <2>1, <4>1
    <3> QED  BY <3>1, <3>2
  <2>3. read = body(read)
    <3> HIDE DEF body
    <3> QED  BY <2>2
  <2>4. OnlyTrivia(s) <=> read[n].state # "text"
    BY DEF OnlyTrivia, Following, n
  <2> HIDE DEF read
  <2>5. \A k \in 0..n : read[k] = IF k = 0 THEN Fresh ELSE Reads(read[k - 1], s[k], Following(s, k))
    BY <2>3
  <2> DEFINE S == {k \in 0..n : read[k] = Q[k]}
  <2>6. 0 \in S
    BY <2>1, <2>5 DEF n
  <2>7. ASSUME NEW k \in 1..n, k - 1 \in S PROVE k \in S
    <3>1. k \in 0..n /\ k # 0
      BY DEF n
    <3>2. read[k] = Reads(read[k - 1], s[k], Following(s, k))
      BY <2>5, <3>1
    <3> QED  BY <2>1, <2>7, <3>1, <3>2
  <2>8. n \in S
    <3> HIDE DEF S
    <3>1. \A k \in 0..n : k \in S
      BY <2>6, <2>7, CountUp DEF n
    <3>2. n \in 0..n
      BY DEF n
    <3> QED  BY <3>1, <3>2
  <2> QED  BY <2>4, <2>8
<1> QED  BY <1>5, <1>6 DEF n

(* A blank does not decide, nor does what follows a character unless it
   makes two of them a sign. *)
LEMMA BlankKeeps ==
  ASSUME NEW r \in ReadStates, NEW ch \in Blank, NEW nxt
  PROVE  /\ Reads(r, ch, nxt) \in ReadStates
         /\ Reads(r, ch, nxt).state = "text" <=> r.state = "text"
         /\ r = Fresh => Reads(r, ch, nxt) = Fresh
<1>1. PICK st \in {"code", "line", "block", "text"}, d \in Int, a \in {0, 1} : r = Mode(st, d, a)
  BY ModeType
<1>2. \A st2, d2, a2 : Mode(st2, d2, a2).state = st2
  BY DEF Mode
<1>3. ch # "-" /\ ch # "/" /\ ch # "*"
  BY DEF Blank, Space
<1>4. Reads(Mode(st, d, 1), ch, nxt) = Mode(st, d, 0)
  BY ReadsAhead
<1>5. /\ Reads(Mode("code", d, 0), ch, nxt) = Mode("code", d, 0)
      /\ Reads(Mode("line", d, 0), ch, nxt) \in {Mode("code", d, 0), Mode("line", d, 0)}
      /\ Reads(Mode("block", d, 0), ch, nxt) = Mode("block", d, 0)
      /\ Reads(Mode("text", d, 0), ch, nxt) = Mode("text", d, 0)
  BY <1>3, ReadsAs
<1>6. Reads(r, ch, nxt).state = "text" <=> r.state = "text"
  <2>1. CASE a = 1
    BY <1>1, <1>2, <1>4, <2>1
  <2>2. CASE a = 0 /\ st = "code"
    BY <1>1, <1>2, <1>5, <2>2
  <2>3. CASE a = 0 /\ st = "line"
    BY <1>1, <1>2, <1>5, <2>3
  <2>4. CASE a = 0 /\ st = "block"
    BY <1>1, <1>2, <1>5, <2>4
  <2>5. CASE a = 0 /\ st = "text"
    BY <1>1, <1>2, <1>5, <2>5
  <2> QED  BY <2>1, <2>2, <2>3, <2>4, <2>5
<1>7. Reads(Fresh, ch, nxt) = Fresh
  <2>1. Fresh = Mode("code", 0, 0)
    BY DEF Fresh, Mode
  <2>2. Reads(Mode("code", 0, 0), ch, nxt) = Mode("code", 0, 0)
    BY ReadsAs
  <2> QED  BY <2>1, <2>2
<1> QED  BY <1>6, <1>7, ReadsType

(* Two characters that begin no sign are the same to the reading. *)
LEMMA AfterwardsBlank ==
  ASSUME NEW r \in ReadStates, NEW ch, NEW n1, NEW n2,
         n1 \notin {"-", "*", "/"}, n2 \notin {"-", "*", "/"}
  PROVE  Reads(r, ch, n1) = Reads(r, ch, n2)
<1>1. PICK st \in {"code", "line", "block", "text"}, d \in Int, a \in {0, 1} : r = Mode(st, d, a)
  BY ModeType
<1>2. n1 # "-" /\ n1 # "*" /\ n1 # "/" /\ n2 # "-" /\ n2 # "*" /\ n2 # "/"
  OBVIOUS
<1>3. Reads(Mode(st, d, 1), ch, n1) = Reads(Mode(st, d, 1), ch, n2)
  BY ReadsAhead
<1>4. Reads(Mode("code", d, 0), ch, n1) = Reads(Mode("code", d, 0), ch, n2)
  BY <1>2, ReadsAs
<1>5. Reads(Mode("line", d, 0), ch, n1) = Reads(Mode("line", d, 0), ch, n2)
  BY <1>2, ReadsAs
<1>6. Reads(Mode("block", d, 0), ch, n1) = Reads(Mode("block", d, 0), ch, n2)
  BY <1>2, ReadsAs
<1>7. Reads(Mode("text", d, 0), ch, n1) = Reads(Mode("text", d, 0), ch, n2)
  BY ReadsAs
<1> QED  BY <1>1, <1>3, <1>4, <1>5, <1>6, <1>7

(* The least and the greatest of some numbers up to n. *)
LEMMA Extremes ==
  ASSUME NEW n \in Nat, NEW S, S \subseteq 1..n, S # {}
  PROVE  Min(S) \in S /\ Max(S) \in S /\ \A k \in S : Min(S) <= k /\ k <= Max(S)
<1>1. \E x \in S : \A y \in S : x <= y
  <2>1. S \subseteq Nat
    OBVIOUS
  <2>2. PICK x \in S : \A y \in S : ~(<<y, x>> \in OpToRel(<, Nat))
    BY <2>1, NatLessThanWellFounded, WFMin
  <2>3. \A y \in S : ~(y < x)
    BY <2>1, <2>2 DEF OpToRel
  <2> QED  BY <2>1, <2>3
<1>2. \E x \in S : \A y \in S : x >= y
  <2> DEFINE D == {n - k : k \in S}
  <2>1. D \subseteq Nat
    OBVIOUS
  <2>2. D # {}
    OBVIOUS
  <2>3. PICK z \in D : \A y \in D : ~(<<y, z>> \in OpToRel(<, Nat))
    <3> HIDE DEF D
    <3> QED  BY <2>1, <2>2, NatLessThanWellFounded, WFMin
  <2>4. \A y \in D : ~(y < z)
    <3> HIDE DEF D
    <3> QED  BY <2>1, <2>3 DEF OpToRel
  <2>5. PICK x \in S : z = n - x
    OBVIOUS
  <2>6. ASSUME NEW y \in S PROVE x >= y
    <3>1. ~(n - y < n - x) /\ x \in Nat /\ y \in Nat
      BY <2>4, <2>5
    <3> QED  BY <3>1
  <2> QED  BY <2>6
<1> QED  BY <1>1, <1>2 DEF Min, Max

(* Blanks around a text do not matter. *)
LEMMA StripReads ==
  ASSUME NEW x \in Seq(Chars)
  PROVE  /\ Strip(x) = <<>> => OnlyTrivia(Strip(x))
         /\ OnlyTrivia(Strip(x)) <=> OnlyTrivia(x)
<1> DEFINE n == Len(x)
           inked == {k \in 1..n : x[k] \notin Blank}
<1>1. n \in Nat
  BY LenProperties
<1>2. PICK R : Reading(R, x)
  BY <1>1, ReadingExists
<1>3. /\ R \in [0..n -> ReadStates] /\ R[0] = Fresh
      /\ \A k \in 1..n : R[k] = Reads(R[k - 1], x[k], Following(x, k))
  BY <1>2 DEF Reading
<1>4. OnlyTrivia(x) <=> R[n].state # "text"
  BY <1>1, <1>2, ReadingExists
<1>5. OnlyTrivia(<<>>)
  <2>1. Len(<<>>) = 0 /\ Len(<<>>) \in Nat
    BY EmptySeq
  <2>2. PICK Q : Reading(Q, <<>>)
    BY <2>1, ReadingExists
  <2>3. Q[0] = Fresh /\ (OnlyTrivia(<<>>) <=> Q[0].state # "text")
    <3>1. OnlyTrivia(<<>>) <=> Q[Len(<<>>)].state # "text"
      BY <2>1, <2>2, ReadingExists
    <3> QED  BY <2>1, <2>2, <3>1 DEF Reading
  <2> QED  BY <2>3 DEF Fresh
<1> HIDE DEF n, inked
<1>6. ASSUME NEW c \in 0..n, \A k \in 1..c : x[k] \in Blank PROVE R[c] = Fresh
  <2> DEFINE S == {k \in 0..c : R[k] = Fresh}
  <2>1. 0 \in S
    BY <1>1, <1>3
  <2>2. ASSUME NEW k \in 1..c, k - 1 \in S PROVE k \in S
    <3>1. k \in 1..n /\ k - 1 \in 0..n /\ k \in 0..c
      BY <1>1
    <3>2. R[k - 1] \in ReadStates /\ R[k - 1] = Fresh /\ x[k] \in Blank
      BY <1>3, <1>6, <2>2, <3>1
    <3>3. R[k] = Fresh
      BY <1>3, <3>1, <3>2, BlankKeeps
    <3> QED  BY <3>1, <3>3
  <2>3. c \in Nat /\ c \in 0..c
    BY <1>1
  <2>4. \A k \in 0..c : k \in S
    <3> HIDE DEF S
    <3> QED  BY <2>1, <2>2, <2>3, CountUp
  <2> QED  BY <2>3, <2>4
<1>7. CASE inked = {}
  <2>1. Strip(x) = <<>>
    BY <1>7 DEF Strip, inked, n
  <2>2. R[n] = Fresh
    <3>1. n \in 0..n /\ \A k \in 1..n : x[k] \in Blank
      BY <1>1, <1>7 DEF inked
    <3> QED  BY <1>6, <3>1
  <2> QED  BY <1>4, <1>5, <2>1, <2>2 DEF Fresh
<1>8. CASE inked # {}
  <2> DEFINE a == Min(inked)  b == Max(inked)  m == b - a + 1  y == SubSeq(x, a, b)
             Q == [k \in 0..m |-> R[a - 1 + k]]
  <2>1. a \in inked /\ b \in inked /\ \A k \in inked : a <= k /\ k <= b
    <3>1. inked \subseteq 1..n
      BY DEF inked
    <3> QED  BY <1>1, <1>8, <3>1, Extremes
  <2>2. Strip(x) = y
    BY <1>8 DEF Strip, inked, n
  <2> HIDE DEF a, b
  <2>3. a \in 1..n /\ b \in 1..n /\ a <= b /\ a \in Nat /\ b \in Nat /\ b <= n
    BY <1>1, <2>1 DEF inked
  <2>4. m \in Nat /\ m >= 1
    BY <2>3
  <2>5. Len(y) = m /\ \A k \in 1..m : y[k] = x[a + k - 1]
    <3>1. \A i \in a..b : x[i] \in Chars
      <4>1. \A i \in a..b : i \in 1..n
        BY <1>1, <2>3
      <4> QED  BY <4>1, ElementOfSeq DEF n
    <3>2. Len(y) = IF a <= b THEN b - a + 1 ELSE 0
      BY <2>3, <3>1, SubSeqProperties
    <3>3. \A i \in 1..(b - a + 1) : y[i] = x[a + i - 1]
      BY <2>3, <3>1, SubSeqProperties
    <3> QED  BY <2>3, <3>2, <3>3
  <2> HIDE DEF m, y
  <2>6. Q \in [0..m -> ReadStates]
    <3>1. ASSUME NEW k \in 0..m PROVE R[a - 1 + k] \in ReadStates
      <4>1. a - 1 + k \in 0..n
        BY <1>1, <2>3, <2>4 DEF m
      <4> QED  BY <1>3, <4>1
    <3> QED  BY <3>1
  <2>7. Q[0] = Fresh
    <3>1. a - 1 \in 0..n /\ a - 1 + 0 = a - 1 /\ 0 \in 0..m
      BY <1>1, <2>3, <2>4
    <3>2. ASSUME NEW k \in 1..(a - 1) PROVE x[k] \in Blank
      <4>1. k \in 1..n /\ ~(a <= k)
        BY <1>1, <2>3
      <4> QED  BY <2>1, <4>1 DEF inked
    <3>3. R[a - 1] = Fresh
      BY <1>6, <3>1, <3>2
    <3> QED  BY <3>1, <3>3
  <2>8. ASSUME NEW k \in 1..m PROVE Q[k] = Reads(Q[k - 1], y[k], Following(y, k))
    <3> DEFINE c == a - 1 + k
    <3>1. /\ c \in 1..n /\ c - 1 \in 0..n /\ c = a + k - 1 /\ k \in 0..m /\ k - 1 \in 0..m
          /\ a - 1 + (k - 1) = c - 1 /\ c <= b /\ k \in Nat /\ m \in Nat /\ c \in Nat
      BY <1>1, <2>3, <2>4 DEF m
    <3>2. Q[k] = R[c] /\ Q[k - 1] = R[c - 1] /\ y[k] = x[c]
      BY <2>5, <3>1
    <3>3. R[c] = Reads(R[c - 1], x[c], Following(x, c)) /\ R[c - 1] \in ReadStates
      BY <1>3, <3>1
    <3>4. CASE k < m
      <4>1. c < n /\ k + 1 \in 1..m /\ a + (k + 1) - 1 = c + 1
        BY <1>1, <2>3, <3>1, <3>4 DEF m
      <4>2. y[k + 1] = x[c + 1]
        BY <2>5, <4>1
      <4>3. Following(y, k) = Following(x, c)
        BY <2>5, <3>4, <4>1, <4>2 DEF Following, n
      <4> HIDE DEF Q, c
      <4> QED  BY <3>2, <3>3, <4>3
    <3>5. CASE ~(k < m)
      <4>1. k = m /\ c = b
        BY <2>3, <3>1, <3>5 DEF m
      <4>2. Following(y, k) = ""
        BY <2>5, <3>5 DEF Following
      <4>3. Following(x, c) \in Blank \cup {""}
        <5>1. CASE c < n
          <6>1. c + 1 \in 1..n /\ ~(c + 1 <= b)
            BY <1>1, <3>1, <4>1, <5>1
          <6>2. x[c + 1] \in Blank
            BY <2>1, <6>1 DEF inked
          <6> QED  BY <5>1, <6>2 DEF Following, n
        <5>2. CASE ~(c < n)
          BY <5>2 DEF Following, n
        <5> QED  BY <5>1, <5>2
      <4>4. Following(x, c) \notin {"-", "*", "/"} /\ Following(y, k) \notin {"-", "*", "/"}
        BY <4>2, <4>3 DEF Blank, Space
      <4> HIDE DEF Q, c
      <4>5. Reads(R[c - 1], x[c], Following(x, c)) = Reads(R[c - 1], x[c], Following(y, k))
        BY <3>3, <4>4, AfterwardsBlank
      <4> QED  BY <3>2, <3>3, <4>5
    <3> QED  BY <3>4, <3>5
  <2>9. OnlyTrivia(y) <=> R[b].state # "text"
    <3>1. Reading(Q, y)
      <4> HIDE DEF Q
      <4> QED  BY <2>5, <2>6, <2>7, <2>8 DEF Reading
    <3>2. Len(y) \in Nat
      BY <2>4, <2>5
    <3>3. OnlyTrivia(y) <=> Q[m].state # "text"
      <4> HIDE DEF Q
      <4> QED  BY <2>5, <3>1, <3>2, ReadingExists
    <3>4. Q[m] = R[b]
      <4>1. m \in 0..m /\ a - 1 + m = b
        BY <2>3, <2>4 DEF m
      <4> QED  BY <4>1
    <3> QED  BY <3>3, <3>4
  <2>10. R[n].state = "text" <=> R[b].state = "text"
    <3> DEFINE S == {k \in 0..(n - b) : R[b + k].state = "text" <=> R[b].state = "text"}
    <3>0. n - b \in Nat /\ b + 0 = b /\ 0 \in 0..(n - b) /\ b + (n - b) = n /\ n - b \in 0..(n - b)
      BY <1>1, <2>3
    <3>1. 0 \in S
      BY <3>0
    <3>2. ASSUME NEW k \in 1..(n - b), k - 1 \in S PROVE k \in S
      <4>1. /\ b + k \in 1..n /\ (b + k) - 1 \in 0..n /\ b + (k - 1) = (b + k) - 1
            /\ ~(b + k <= b) /\ k \in 0..(n - b)
        BY <1>1, <2>3
      <4>2. x[b + k] \in Blank
        BY <2>1, <4>1 DEF inked
      <4>3. /\ R[b + k] = Reads(R[(b + k) - 1], x[b + k], Following(x, b + k))
            /\ R[(b + k) - 1] \in ReadStates
        BY <1>3, <4>1
      <4>4. R[b + k].state = "text" <=> R[(b + k) - 1].state = "text"
        BY <4>2, <4>3, BlankKeeps
      <4>5. R[b + (k - 1)].state = "text" <=> R[b].state = "text"
        BY <3>2
      <4>6. R[b + k].state = "text" <=> R[b].state = "text"
        BY <4>1, <4>4, <4>5
      <4> QED  BY <4>1, <4>6
    <3>3. n - b \in S
      <4> HIDE DEF S
      <4>1. \A k \in 0..(n - b) : k \in S
        BY <3>0, <3>1, <3>2, CountUp
      <4> QED  BY <3>0, <4>1
    <3>4. R[b + (n - b)].state = "text" <=> R[b].state = "text"
      BY <3>3
    <3> QED  BY <3>0, <3>4
  <2>11. y # <<>>
    BY <2>4, <2>5, EmptySeq
  <2> QED  BY <1>4, <2>2, <2>9, <2>10, <2>11
<1> QED  BY <1>7, <1>8

(* The reading of one token after o characters. *)
Along(R, o, t, nxt) ==
  \A j \in 1..Len(t) : R[o + j] = Reads(R[o + j - 1], t[j], IF j < Len(t) THEN t[j + 1] ELSE nxt)

(* A blank or a comment leaves the reading as it began. *)
LEMMA TriviaReads ==
  ASSUME NEW R, NEW o \in Nat, NEW t \in Trivia, NEW nxt, Along(R, o, t, nxt), R[o] = Fresh
  PROVE  R[o + Len(t)] = Fresh
<1>0. Fresh = Mode("code", 0, 0) /\ Space \in Blank
  BY DEF Fresh, Mode, Blank
<1>1. CASE t \in Spaces
  <2>1. Len(t) = 1 /\ t[1] = Space
    BY <1>1, ShortLook
  <2>2. R[o + 1] = Reads(R[o], Space, nxt)
    <3>1. 1 \in 1..Len(t) /\ o + 1 - 1 = o /\ ~(1 < Len(t))
      BY <2>1
    <3> QED  BY <2>1, <3>1 DEF Along
  <2> QED  BY <1>0, <2>1, <2>2, ReadsAs
<1>2. CASE t \in LineComments
  <2>1. Len(t) = 4 /\ t[1] = "-" /\ t[2] = "-" /\ t[3] # "\n" /\ t[4] = "\n"
    BY <1>2, LineLook DEF Semi
  <2>2. /\ R[o + 1] = Reads(R[o], t[1], t[2]) /\ R[o + 2] = Reads(R[o + 1], t[2], t[3])
        /\ R[o + 3] = Reads(R[o + 2], t[3], t[4]) /\ R[o + 4] = Reads(R[o + 3], t[4], nxt)
    <3>1. /\ 1 \in 1..Len(t) /\ 2 \in 1..Len(t) /\ 3 \in 1..Len(t) /\ 4 \in 1..Len(t)
          /\ 1 < Len(t) /\ 2 < Len(t) /\ 3 < Len(t) /\ ~(4 < Len(t))
      BY <2>1
    <3>2. /\ o + 1 - 1 = o /\ o + 2 - 1 = o + 1 /\ o + 3 - 1 = o + 2 /\ o + 4 - 1 = o + 3
          /\ 1 + 1 = 2 /\ 2 + 1 = 3 /\ 3 + 1 = 4
      OBVIOUS
    <3> QED  BY <3>1, <3>2 DEF Along
  <2>3. R[o + 1] = Mode("line", 0, 1)
    BY <1>0, <2>1, <2>2, ReadsAs
  <2>4. R[o + 2] = Mode("line", 0, 0)
    BY <2>2, <2>3, ReadsAhead
  <2>5. R[o + 3] = Mode("line", 0, 0)
    BY <2>1, <2>2, <2>4, ReadsAs
  <2>6. R[o + 4] = Mode("code", 0, 0)
    BY <2>1, <2>2, <2>5, ReadsAs
  <2> QED  BY <1>0, <2>1, <2>6
<1>3. CASE t \in BlockComments /\ Len(t) = 5
  <2>1. Len(t) = 5 /\ t[1] = "/" /\ t[2] = "*" /\ t[3] = "'" /\ t[4] = "*" /\ t[5] = "/"
    BY <1>3, BlockLook
  <2>2. /\ R[o + 1] = Reads(R[o], t[1], t[2]) /\ R[o + 2] = Reads(R[o + 1], t[2], t[3])
        /\ R[o + 3] = Reads(R[o + 2], t[3], t[4]) /\ R[o + 4] = Reads(R[o + 3], t[4], t[5])
        /\ R[o + 5] = Reads(R[o + 4], t[5], nxt)
    <3>1. /\ 1 \in 1..Len(t) /\ 2 \in 1..Len(t) /\ 3 \in 1..Len(t) /\ 4 \in 1..Len(t)
          /\ 5 \in 1..Len(t)
          /\ 1 < Len(t) /\ 2 < Len(t) /\ 3 < Len(t) /\ 4 < Len(t) /\ ~(5 < Len(t))
      BY <2>1
    <3>2. /\ o + 1 - 1 = o /\ o + 2 - 1 = o + 1 /\ o + 3 - 1 = o + 2 /\ o + 4 - 1 = o + 3
          /\ o + 5 - 1 = o + 4 /\ 1 + 1 = 2 /\ 2 + 1 = 3 /\ 3 + 1 = 4 /\ 4 + 1 = 5
      OBVIOUS
    <3> QED  BY <3>1, <3>2 DEF Along
  <2>3. R[o + 1] = Mode("block", 1, 1)
    BY <1>0, <2>1, <2>2, ReadsAs
  <2>4. R[o + 2] = Mode("block", 1, 0)
    BY <2>2, <2>3, ReadsAhead
  <2>5. R[o + 3] = Mode("block", 1, 0)
    BY <2>1, <2>2, <2>4, ReadsAs
  <2>6. R[o + 4] = Mode("code", 0, 1)
    <3>1. Reads(Mode("block", 1, 0), "*", "/") = Mode("code", 1 - 1, 1)
      BY ReadsAs
    <3> QED  BY <2>1, <2>2, <2>5, <3>1
  <2>7. R[o + 5] = Mode("code", 0, 0)
    BY <2>2, <2>6, ReadsAhead
  <2> QED  BY <1>0, <2>1, <2>7
<1>4. CASE t \in BlockComments /\ Len(t) = 9
  <2>1. /\ Len(t) = 9 /\ t[1] = "/" /\ t[2] = "*" /\ t[3] = "/" /\ t[4] = "*" /\ t[5] = "*"
        /\ t[6] = "/" /\ t[7] = Semi /\ t[8] = "*" /\ t[9] = "/"
    BY <1>4, BlockLook
  <2>2. /\ R[o + 1] = Reads(R[o], t[1], t[2]) /\ R[o + 2] = Reads(R[o + 1], t[2], t[3])
        /\ R[o + 3] = Reads(R[o + 2], t[3], t[4]) /\ R[o + 4] = Reads(R[o + 3], t[4], t[5])
        /\ R[o + 5] = Reads(R[o + 4], t[5], t[6])
    <3>1. /\ 1 \in 1..Len(t) /\ 2 \in 1..Len(t) /\ 3 \in 1..Len(t) /\ 4 \in 1..Len(t)
          /\ 5 \in 1..Len(t)
          /\ 1 < Len(t) /\ 2 < Len(t) /\ 3 < Len(t) /\ 4 < Len(t) /\ 5 < Len(t)
      BY <2>1
    <3>2. /\ o + 1 - 1 = o /\ o + 2 - 1 = o + 1 /\ o + 3 - 1 = o + 2 /\ o + 4 - 1 = o + 3
          /\ o + 5 - 1 = o + 4 /\ 1 + 1 = 2 /\ 2 + 1 = 3 /\ 3 + 1 = 4 /\ 4 + 1 = 5 /\ 5 + 1 = 6
      OBVIOUS
    <3> QED  BY <3>1, <3>2 DEF Along
  <2>3. /\ R[o + 6] = Reads(R[o + 5], t[6], t[7]) /\ R[o + 7] = Reads(R[o + 6], t[7], t[8])
        /\ R[o + 8] = Reads(R[o + 7], t[8], t[9]) /\ R[o + 9] = Reads(R[o + 8], t[9], nxt)
    <3>1. /\ 6 \in 1..Len(t) /\ 7 \in 1..Len(t) /\ 8 \in 1..Len(t) /\ 9 \in 1..Len(t)
          /\ 6 < Len(t) /\ 7 < Len(t) /\ 8 < Len(t) /\ ~(9 < Len(t))
      BY <2>1
    <3>2. /\ o + 6 - 1 = o + 5 /\ o + 7 - 1 = o + 6 /\ o + 8 - 1 = o + 7 /\ o + 9 - 1 = o + 8
          /\ 6 + 1 = 7 /\ 7 + 1 = 8 /\ 8 + 1 = 9
      OBVIOUS
    <3> QED  BY <3>1, <3>2 DEF Along
  <2>4. R[o + 1] = Mode("block", 1, 1)
    BY <1>0, <2>1, <2>2, ReadsAs
  <2>5. R[o + 2] = Mode("block", 1, 0)
    BY <2>2, <2>4, ReadsAhead
  <2>6. R[o + 3] = Mode("block", 2, 1)
    <3>1. Reads(Mode("block", 1, 0), "/", "*") = Mode("block", 1 + 1, 1)
      BY ReadsAs
    <3> QED  BY <2>1, <2>2, <2>5, <3>1
  <2>7. R[o + 4] = Mode("block", 2, 0)
    BY <2>2, <2>6, ReadsAhead
  <2>8. R[o + 5] = Mode("block", 1, 1)
    <3>1. Reads(Mode("block", 2, 0), "*", "/") = Mode("block", 2 - 1, 1)
      BY ReadsAs
    <3> QED  BY <2>1, <2>2, <2>7, <3>1
  <2>9. R[o + 6] = Mode("block", 1, 0)
    BY <2>3, <2>8, ReadsAhead
  <2>10. R[o + 7] = Mode("block", 1, 0)
    BY <2>1, <2>3, <2>9, ReadsAs DEF Semi
  <2>11. R[o + 8] = Mode("code", 0, 1)
    <3>1. Reads(Mode("block", 1, 0), "*", "/") = Mode("code", 1 - 1, 1)
      BY ReadsAs
    <3> QED  BY <2>1, <2>3, <2>10, <3>1
  <2>12. R[o + 9] = Mode("code", 0, 0)
    BY <2>3, <2>11, ReadsAhead
  <2> QED  BY <1>0, <2>1, <2>12
<1>5. t \in BlockComments => Len(t) = 5 \/ Len(t) = 9
  BY BlockLook
<1> QED  BY <1>1, <1>2, <1>3, <1>4, <1>5 DEF Trivia

(* Any other token makes it text. *)
LEMMA InkReads ==
  ASSUME NEW R, NEW o \in Nat, NEW t \in SqlTokens, t \notin Trivia, NEW nxt,
         Along(R, o, t, nxt), R[o] = Fresh,
         t \in Operators => (t[1] = "-" => nxt # "-") /\ (t[1] = "/" => nxt # "*")
  PROVE  R[o + 1].state = "text"
<1>0. Fresh = Mode("code", 0, 0) /\ Mode("text", 0, 0).state = "text"
  BY DEF Fresh, Mode
<1> DEFINE two == IF 1 < Len(t) THEN t[2] ELSE nxt
<1>1. R[o + 1] = Reads(Fresh, t[1], two)
  <2>1. 1 \in 1..Len(t) /\ o + 1 - 1 = o /\ 1 + 1 = 2
    <3>1. Len(t) \in Nat /\ Len(t) >= 1
      BY Firsts
    <3> QED  BY <3>1
  <2> QED  BY <2>1 DEF Along
<1> HIDE DEF two
<1>2. ASSUME t[1] \notin Blank, t[1] = "-" => two # "-", t[1] = "/" => two # "*"
      PROVE  R[o + 1].state = "text"
  <2>1. Reads(Mode("code", 0, 0), t[1], two) = Mode("text", 0, 0)
    BY <1>2, ReadsAs
  <2> QED  BY <1>0, <1>1, <2>1
<1>3. ASSUME t[1] \notin {"-", "/", Space, "\n"} PROVE R[o + 1].state = "text"
  <2>1. t[1] \notin Blank /\ t[1] # "-" /\ t[1] # "/"
    BY <1>3 DEF Blank
  <2> QED  BY <1>2, <2>1
<1>4. CASE t \in Words \cup Parameters
  <2>1. t[1] \notin {"-", "/", Space, "\n"}
    BY <1>4, ShortLook DEF Space
  <2> QED  BY <1>3, <2>1
<1>5. CASE t \in Operators
  <2>1. Len(t) = 1 /\ (t[1] = "-" \/ t[1] = "/")
    BY <1>5, ShortLook
  <2>2. two = nxt
    BY <2>1 DEF two
  <2>3. t[1] \notin Blank
    BY <2>1 DEF Blank, Space
  <2> QED  BY <1>2, <1>5, <2>2, <2>3
<1>6. CASE t = Semicolon
  <2>1. t[1] \notin {"-", "/", Space, "\n"}
    BY <1>6, ShortLook DEF Space, Semi
  <2> QED  BY <1>3, <2>1
<1>7. CASE t \in Strings
  <2>1. t[1] \notin {"-", "/", Space, "\n"}
    BY <1>7, StringLook DEF Space
  <2> QED  BY <1>3, <2>1
<1>8. CASE t \in EStrings
  <2>1. t[1] \notin {"-", "/", Space, "\n"}
    BY <1>8, EStringLook DEF Space
  <2> QED  BY <1>3, <2>1
<1>9. CASE t \in Names
  <2>1. t[1] \notin {"-", "/", Space, "\n"}
    BY <1>9, NameLook DEF Space, DoubleQuote
  <2> QED  BY <1>3, <2>1
<1>10. CASE t \in Bodies
  <2>1. t[1] \notin {"-", "/", Space, "\n"}
    BY <1>10, BodyLook DEF Space
  <2> QED  BY <1>3, <2>1
<1> QED  BY <1>4, <1>5, <1>6, <1>7, <1>8, <1>9, <1>10 DEF SqlTokens, Trivia

(* Text it stays. *)
LEMMA TextStays ==
  ASSUME NEW r \in ReadStates, r.state = "text", NEW ch, NEW nxt
  PROVE  Reads(r, ch, nxt).state = "text"
<1>1. PICK d \in Int, a \in {0, 1} : r = Mode("text", d, a)
  BY ModeType
<1>2. Mode("text", d, 0).state = "text"
  BY DEF Mode
<1>3. CASE a = 1
  BY <1>1, <1>2, <1>3, ReadsAhead
<1>4. CASE a = 0
  BY <1>1, <1>2, <1>4, ReadsAs
<1> QED  BY <1>3, <1>4

(* A statement is all blanks and comments when its tokens are. *)
LEMMA TokensTrivia ==
  ASSUME NEW T, Unmerged(T)
  PROVE  OnlyTrivia(FlattenSeq(T)) <=> ~Says(T)
<1> DEFINE x == FlattenSeq(T)  n == Len(x)  N == Len(T)  o(k) == Len(Before(T, k))
           nxt(k) == IF k < N THEN T[k + 1][1] ELSE ""
<1>1. T \in Seq(SqlTokens) /\ N \in Nat /\ T \in [1..N -> SqlTokens]
  BY LenProperties DEF Unmerged
<1>2. T \in Seq(Seq(Chars))
  <2>1. \A i \in 1..N : T[i] \in Seq(Chars)
    BY <1>1, TokensAreText
  <2> QED  BY <1>1, <2>1, IsASeq
<1>3. /\ x \in Seq(Chars) /\ n \in Nat /\ o(0) = 0 /\ n = o(N)
      /\ \A k \in 0..N : o(k) \in Nat /\ o(k) <= n
      /\ \A k \in 1..N : /\ o(k) = o(k - 1) + Len(T[k])
                         /\ \A j \in 1..Len(T[k]) : x[o(k - 1) + j] = T[k][j]
  <2>1. /\ x \in Seq(Chars) /\ o(0) = 0 /\ n = o(N) /\ \A k \in 0..N : o(k) \in 0..n
        /\ \A k \in 1..N : /\ o(k) = o(k - 1) + Len(T[k])
                           /\ \A j \in 1..Len(T[k]) : x[o(k - 1) + j] = T[k][j]
    BY <1>2, TokenInText
  <2>2. n \in Nat
    BY <2>1, LenProperties
  <2> HIDE DEF x, n, N, o
  <2> QED  BY <2>1, <2>2
<1>4. \A k \in 1..N : T[k] \in SqlTokens /\ Len(T[k]) \in Nat /\ Len(T[k]) >= 1
  BY <1>1, Firsts
<1>5. PICK R : Reading(R, x)
  BY <1>3, ReadingExists
<1>6. OnlyTrivia(x) <=> R[n].state # "text"
  BY <1>3, <1>5, ReadingExists
<1>7. /\ R \in [0..n -> ReadStates] /\ R[0] = Fresh
      /\ \A k \in 1..n : R[k] = Reads(R[k - 1], x[k], Following(x, k))
  BY <1>5 DEF Reading
<1>8. \A k \in 1..(N - 1) : ~Merge(T[k], T[k + 1])
  BY DEF Unmerged
<1> DEFINE says == \E i \in 1..N : T[i] \notin Trivia
<1>9. Says(T) <=> says
  <2>1. DOMAIN T = 1..N
    BY <1>1
  <2> QED  BY <2>1 DEF Says
<1>10. n = Len(x)
  OBVIOUS
<1> HIDE DEF x, n, N, o, says
<1>11. ASSUME NEW k \in 1..N PROVE Along(R, o(k - 1), T[k], nxt(k))
  <2>1. /\ k - 1 \in 0..N /\ k \in 0..N /\ o(k - 1) \in Nat /\ o(k) \in Nat /\ o(k) <= n
        /\ o(k) = o(k - 1) + Len(T[k]) /\ Len(T[k]) \in Nat /\ Len(T[k]) >= 1
    <3>1. k - 1 \in 0..N /\ k \in 0..N
      BY <1>1
    <3> QED  BY <1>3, <1>4, <3>1
  <2> SUFFICES ASSUME NEW j \in 1..Len(T[k])
               PROVE  R[o(k - 1) + j] = Reads(R[o(k - 1) + j - 1], T[k][j],
                                              IF j < Len(T[k]) THEN T[k][j + 1] ELSE nxt(k))
    BY DEF Along
  <2>2. o(k - 1) + j \in 1..n
    BY <1>3, <2>1
  <2>3. R[o(k - 1) + j] = Reads(R[o(k - 1) + j - 1], x[o(k - 1) + j], Following(x, o(k - 1) + j))
    <3> DEFINE c == o(k - 1) + j
    <3>1. c \in 1..n
      BY <2>2
    <3> HIDE DEF c
    <3>2. R[c] = Reads(R[c - 1], x[c], Following(x, c))
      BY <1>7, <3>1
    <3> QED  BY <2>1, <3>2 DEF c
  <2>4. x[o(k - 1) + j] = T[k][j]
    BY <1>3
  <2>5. Following(x, o(k - 1) + j) = IF j < Len(T[k]) THEN T[k][j + 1] ELSE nxt(k)
    <3>1. CASE j < Len(T[k])
      <4>1. o(k - 1) + j < n /\ j + 1 \in 1..Len(T[k]) /\ (o(k - 1) + j) + 1 = o(k - 1) + (j + 1)
        BY <1>3, <2>1, <3>1
      <4>2. x[o(k - 1) + (j + 1)] = T[k][j + 1]
        BY <1>3, <4>1
      <4> QED  BY <1>10, <3>1, <4>1, <4>2 DEF Following
    <3>2. CASE ~(j < Len(T[k])) /\ k < N
      <4>1. k + 1 \in 1..N /\ k + 1 \in 0..N /\ (k + 1) - 1 = k /\ j = Len(T[k])
        BY <1>1, <2>1, <3>2
      <4>2. /\ o(k + 1) = o(k) + Len(T[k + 1]) /\ o(k + 1) <= n /\ Len(T[k + 1]) \in Nat
            /\ Len(T[k + 1]) >= 1
        BY <1>3, <1>4, <4>1
      <4>3. 1 \in 1..Len(T[k + 1]) /\ o(k) < n
        BY <1>3, <2>1, <4>2
      <4>4. x[o(k) + 1] = T[k + 1][1]
        BY <1>3, <4>1, <4>3
      <4>5. o(k - 1) + j = o(k)
        BY <2>1, <4>1
      <4> QED  BY <1>10, <3>2, <4>3, <4>4, <4>5 DEF Following
    <3>3. CASE ~(j < Len(T[k])) /\ ~(k < N)
      <4>1. k = N /\ j = Len(T[k])
        BY <1>1, <2>1, <3>3
      <4>2. o(k - 1) + j = n
        BY <1>3, <2>1, <4>1
      <4>3. Following(x, o(k - 1) + j) = ""
        <5>1. ~(n < n)
          BY <1>3
        <5>2. Following(x, n) = ""
          BY <1>10, <5>1 DEF Following
        <5> QED  BY <4>2, <5>2
      <4>4. nxt(k) = ""
        BY <3>3
      <4> QED  BY <3>3, <4>3, <4>4
    <3> QED  BY <3>1, <3>2, <3>3
  <2> QED  BY <2>3, <2>4, <2>5
<1>12. ASSUME NEW c \in 0..N, \A i \in 1..c : T[i] \in Trivia PROVE R[o(c)] = Fresh
  <2> DEFINE S == {k \in 0..c : R[o(k)] = Fresh}
  <2>1. 0 \in S
    BY <1>1, <1>3, <1>7
  <2>2. ASSUME NEW k \in 1..c, k - 1 \in S PROVE k \in S
    <3>1. k \in 1..N /\ k - 1 \in 0..N /\ k \in 0..c
      BY <1>1
    <3>2. R[o(k - 1)] = Fresh /\ T[k] \in Trivia /\ o(k - 1) \in Nat
      BY <1>3, <1>12, <2>2, <3>1
    <3>3. R[o(k - 1) + Len(T[k])] = Fresh
      BY <1>11, <3>1, <3>2, TriviaReads
    <3>4. R[o(k)] = Fresh
      BY <1>3, <3>1, <3>3
    <3> QED  BY <3>1, <3>4
  <2>3. c \in Nat /\ c \in 0..c
    BY <1>1
  <2>4. \A k \in 0..c : k \in S
    <3> HIDE DEF S
    <3> QED  BY <2>1, <2>2, <2>3, CountUp
  <2> QED  BY <2>3, <2>4
<1>13. CASE ~says
  <2>1. N \in 0..N /\ \A i \in 1..N : T[i] \in Trivia
    BY <1>1, <1>13 DEF says
  <2>2. R[o(N)] = Fresh
    BY <1>12, <2>1
  <2>3. R[n].state = "code"
    BY <1>3, <2>2 DEF Fresh
  <2> QED  BY <1>6, <1>9, <1>13, <2>3 DEF x
<1>14. CASE says
  <2> DEFINE ink == {i \in 1..N : T[i] \notin Trivia}
  <2>1. PICK i \in 1..N : T[i] \notin Trivia /\ \A k \in 1..N : k < i => T[k] \in Trivia
    <3>1. ink \subseteq 1..N /\ ink # {}
      BY <1>14 DEF says
    <3>2. \A k : k \in ink <=> k \in 1..N /\ T[k] \notin Trivia
      OBVIOUS
    <3> HIDE DEF ink
    <3>3. Min(ink) \in ink /\ \A k \in ink : Min(ink) <= k
      BY <1>1, <3>1, Extremes
    <3>4. \A k \in 1..N : k < Min(ink) => k \notin ink
      <4>1. Min(ink) \in 1..N
        BY <3>1, <3>3
      <4> QED  BY <1>1, <3>3, <4>1
    <3> QED  BY <3>2, <3>3, <3>4
  <2>2. i - 1 \in 0..N /\ i \in 0..N /\ \A k \in 1..(i - 1) : k \in 1..N /\ k < i
    BY <1>1
  <2>3. R[o(i - 1)] = Fresh
    BY <1>12, <2>1, <2>2
  <2>4. ASSUME T[i] \in Operators
        PROVE  (T[i][1] = "-" => nxt(i) # "-") /\ (T[i][1] = "/" => nxt(i) # "*")
    <3>1. CASE i < N
      <4> DEFINE u == T[i + 1]
      <4>1. i \in 1..(N - 1) /\ i + 1 \in 1..N
        BY <1>1, <3>1
      <4>2. u \in SqlTokens /\ ~Merge(T[i], u) /\ nxt(i) = u[1]
        BY <1>4, <1>8, <3>1, <4>1
      <4> HIDE DEF u, nxt
      <4>3. u[1] # "*" /\ (u[1] = "-" => u \in Operators \cup LineComments)
        BY <4>2, Firsts
      <4> QED  BY <2>4, <4>2, <4>3 DEF Merge
    <3>2. CASE ~(i < N)
      BY <3>2
    <3> QED  BY <3>1, <3>2
  <2>5. R[o(i - 1) + 1].state = "text"
    <3>1. T[i] \in SqlTokens /\ o(i - 1) \in Nat /\ Along(R, o(i - 1), T[i], nxt(i))
      BY <1>3, <1>4, <1>11, <2>2
    <3> HIDE DEF nxt
    <3> QED  BY <2>1, <2>3, <2>4, <3>1, InkReads
  <2> DEFINE c == o(i - 1) + 1
  <2>6. c \in 1..n
    <3>1. o(i) <= n /\ o(i) = o(i - 1) + Len(T[i]) /\ Len(T[i]) \in Nat /\ Len(T[i]) >= 1
      BY <1>3, <1>4, <2>2
    <3>2. o(i - 1) \in Nat
      BY <1>3, <2>2
    <3> QED  BY <1>3, <3>1, <3>2
  <2>7. R[c].state = "text"
    BY <2>5
  <2> HIDE DEF c
  <2> DEFINE S == {k \in 0..(n - c) : R[c + k].state = "text"}
  <2>8. n - c \in Nat /\ c + 0 = c /\ 0 \in 0..(n - c) /\ c + (n - c) = n /\ n - c \in 0..(n - c)
    BY <1>3, <2>6
  <2>9. 0 \in S
    BY <2>7, <2>8
  <2>10. ASSUME NEW k \in 1..(n - c), k - 1 \in S PROVE k \in S
    <3>1. /\ c + k \in 1..n /\ (c + k) - 1 \in 0..n /\ c + (k - 1) = (c + k) - 1 /\ k \in 0..(n - c)
      BY <1>3, <2>6
    <3>2. R[c + (k - 1)].state = "text"
      BY <2>10
    <3>3. R[(c + k) - 1] \in ReadStates /\ R[(c + k) - 1].state = "text"
      BY <1>7, <3>1, <3>2
    <3>4. R[c + k].state = "text"
      BY <1>7, <3>1, <3>3, TextStays
    <3> QED  BY <3>1, <3>4
  <2>11. n - c \in S
    <3> HIDE DEF S
    <3>1. \A k \in 0..(n - c) : k \in S
      BY <2>8, <2>9, <2>10, CountUp
    <3> QED  BY <2>8, <3>1
  <2>12. R[c + (n - c)].state = "text"
    BY <2>11
  <2>13. R[n].state = "text"
    BY <2>8, <2>12
  <2> QED  BY <1>6, <1>9, <1>14, <2>13 DEF x
<1> QED  BY <1>13, <1>14

(* So the splitter leaves out just the statements that say nothing. *)
LEMMA ClosedText ==
  ASSUME NEW T, Unmerged(T)
  PROVE  LET text == Strip(FlattenSeq(T)) IN (text = <<>> \/ OnlyTrivia(text)) <=> ~Says(T)
<1>1. FlattenSeq(T) \in Seq(Chars)
  <2>1. T \in Seq(SqlTokens) /\ Len(T) \in Nat /\ T \in [1..Len(T) -> SqlTokens]
    BY LenProperties DEF Unmerged
  <2>2. \A i \in 1..Len(T) : T[i] \in Seq(Chars)
    BY <2>1, TokensAreText
  <2>3. T \in Seq(Seq(Chars))
    BY <2>1, <2>2, IsASeq
  <2> QED  BY <2>3, FlatType
<1> QED  BY <1>1, StripReads, TokensTrivia

-----------------------------------------------------------------------------
(* What the file says, token after token. *)
Halves == [done : Seq(Seq(Chars)), part : Seq(SqlTokens)]
ReadOn(r, k) ==
  IF tokens[k] = Semicolon THEN [done |-> Closed(r), part |-> <<>>]
  ELSE [done |-> r.done, part |-> Append(r.part, tokens[k])]

(* Strip and Closed give texts. *)
LEMMA StripType ==
  ASSUME NEW x \in Seq(Chars)
  PROVE  Strip(x) \in Seq(Chars)
<1> DEFINE inked == {k \in 1..Len(x) : x[k] \notin Blank}
<1>1. Len(x) \in Nat /\ inked \subseteq 1..Len(x)
  BY LenProperties
<1>2. CASE inked = {}
  BY <1>2, EmptySeq DEF Strip
<1>3. CASE inked # {}
  <2> HIDE DEF inked
  <2>1. Min(inked) \in 1..Len(x) /\ Max(inked) \in 1..Len(x)
    BY <1>1, <1>3, Extremes
  <2>2. \A i \in Min(inked)..Max(inked) : x[i] \in Chars
    <3>1. \A i \in Min(inked)..Max(inked) : i \in 1..Len(x)
      BY <1>1, <2>1
    <3> QED  BY <3>1, ElementOfSeq
  <2>3. SubSeq(x, Min(inked), Max(inked)) \in Seq(Chars)
    BY <2>1, <2>2, SubSeqProperties
  <2> QED  BY <1>3, <2>3 DEF Strip, inked
<1> QED  BY <1>2, <1>3

LEMMA ClosedType ==
  ASSUME NEW r \in Halves
  PROVE  Closed(r) \in Seq(Seq(Chars))
<1>1. r.done \in Seq(Seq(Chars)) /\ r.part \in Seq(SqlTokens)
  BY DEF Halves
<1>2. r.part \in Seq(Seq(Chars))
  <2>1. Len(r.part) \in Nat /\ r.part \in [1..Len(r.part) -> SqlTokens]
    BY <1>1, LenProperties
  <2>2. \A i \in 1..Len(r.part) : r.part[i] \in Seq(Chars)
    BY <2>1, TokensAreText
  <2> QED  BY <2>1, <2>2, IsASeq
<1>3. Strip(FlattenSeq(r.part)) \in Seq(Chars)
  BY <1>2, FlatType, StripType
<1> QED  BY <1>1, <1>3, AppendProperties DEF Closed

(* Read, token after token. *)
LEMMA ReadFacts ==
  ASSUME tokens \in Seq(SqlTokens)
  PROVE  /\ Read[0] = [done |-> <<>>, part |-> <<>>]
         /\ \A k \in 0..Len(tokens) : Read[k] \in Halves
         /\ \A k \in 1..Len(tokens) : Read[k] = ReadOn(Read[k - 1], k)
<1> DEFINE n == Len(tokens)
           zero == [done |-> <<>>, part |-> <<>>]
           G == [p \in Halves \X (1..n) |-> ReadOn(p[1], p[2])]
           body(f) == [k \in 0..n |-> IF k = 0 THEN zero
                         ELSE IF tokens[k] = Semicolon
                         THEN [done |-> Closed(f[k - 1]), part |-> <<>>]
                         ELSE [f[k - 1] EXCEPT !.part = Append(@, tokens[k])]]
           read == CHOOSE f : f = body(f)
<1>1. n \in Nat /\ \A k \in 1..n : tokens[k] \in SqlTokens
  BY LenProperties, ElementOfSeq
<1>2. zero \in Halves
  <2>1. <<>> \in Seq(Seq(Chars)) /\ <<>> \in Seq(SqlTokens)
    BY EmptySeq
  <2> QED  BY <2>1 DEF Halves
<1> HIDE DEF n
<1>3. ASSUME NEW r \in Halves, NEW k \in 1..n PROVE ReadOn(r, k) \in Halves
  <2>1. Closed(r) \in Seq(Seq(Chars))
    BY ClosedType
  <2>2. r.done \in Seq(Seq(Chars)) /\ r.part \in Seq(SqlTokens)
    BY DEF Halves
  <2>3. Append(r.part, tokens[k]) \in Seq(SqlTokens)
    BY <1>1, <2>2, AppendProperties
  <2>4. <<>> \in Seq(SqlTokens)
    BY EmptySeq
  <2> QED  BY <2>1, <2>2, <2>3, <2>4 DEF ReadOn, Halves
<1>4. G \in [Halves \X (1..n) -> Halves]
  <2>1. ASSUME NEW p \in Halves \X (1..n) PROVE ReadOn(p[1], p[2]) \in Halves
    <3>1. p[1] \in Halves /\ p[2] \in 1..n
      OBVIOUS
    <3> QED  BY <1>3, <3>1
  <2> QED  BY <2>1
<1>5. \A r \in Halves, k \in 1..n : G[<<r, k>>] = ReadOn(r, k)
  OBVIOUS
<1> HIDE DEF G, zero
<1>6. PICK f : Counts(f, n, Halves, zero, G)
  <2>1. CountsWith(n, Halves, zero, G)
    BY <1>1, <1>2, <1>4 DEF CountsWith
  <2> QED  BY <2>1, CountingFunction
<1>7. f \in [0..n -> Halves] /\ f[0] = zero /\ \A k \in 1..n : f[k] = ReadOn(f[k - 1], k)
  <2>1. f \in [0..n -> Halves] /\ f[0] = zero /\ \A k \in 1..n : f[k] = G[<<f[k - 1], k>>]
    BY <1>6 DEF Counts
  <2>2. ASSUME NEW k \in 1..n PROVE f[k] = ReadOn(f[k - 1], k)
    <3>1. k - 1 \in 0..n
      BY <1>1
    <3>2. f[k - 1] \in Halves
      BY <2>1, <3>1
    <3> QED  BY <1>5, <2>1, <3>2
  <2> QED  BY <2>1, <2>2
<1>8. ASSUME NEW r \in Halves, NEW t \in SqlTokens
      PROVE  [r EXCEPT !.part = Append(@, t)] = [done |-> r.done, part |-> Append(r.part, t)]
  <2> DEFINE u == Append(r.part, t)
  <2>1. /\ r = [done |-> r.done, part |-> r.part]
        /\ r.done \in Seq(Seq(Chars)) /\ r.part \in Seq(SqlTokens)
    BY DEF Halves
  <2>2. u \in Seq(SqlTokens)
    BY <2>1, AppendProperties
  <2> HIDE DEF u
  <2>3. [r EXCEPT !.part = u] = [done |-> r.done, part |-> u]
    BY <2>1, <2>2
  <2> QED  BY <2>3 DEF u
<1>9. f = body(f)
  <2>1. f = [k \in 0..n |-> f[k]]
    BY <1>7
  <2>2. ASSUME NEW k \in 0..n
        PROVE  f[k] = IF k = 0 THEN zero
                      ELSE IF tokens[k] = Semicolon
                      THEN [done |-> Closed(f[k - 1]), part |-> <<>>]
                      ELSE [f[k - 1] EXCEPT !.part = Append(@, tokens[k])]
    <3>1. CASE k = 0
      BY <1>7, <3>1
    <3>2. CASE k # 0
      <4>1. k \in 1..n /\ k - 1 \in 0..n
        BY <1>1, <3>2
      <4>2. f[k] = ReadOn(f[k - 1], k) /\ f[k - 1] \in Halves
        BY <1>7, <4>1
      <4>3. [f[k - 1] EXCEPT !.part = Append(@, tokens[k])]
              = [done |-> f[k - 1].done, part |-> Append(f[k - 1].part, tokens[k])]
        BY <1>1, <1>8, <4>1, <4>2
      <4> QED  BY <3>2, <4>2, <4>3 DEF ReadOn
    <3> QED  BY <3>1, <3>2
  <2> QED  BY <2>1, <2>2
<1>10. read = body(read)
  <2> HIDE DEF body
  <2> QED  BY <1>9
<1>11. Read = read
  BY DEF Read, n, zero
<1> HIDE DEF read
<1>12. \A k \in 0..n : read[k] = IF k = 0 THEN zero
                         ELSE IF tokens[k] = Semicolon
                         THEN [done |-> Closed(read[k - 1]), part |-> <<>>]
                         ELSE [read[k - 1] EXCEPT !.part = Append(@, tokens[k])]
  BY <1>10
<1> DEFINE S == {k \in 0..n : read[k] = f[k]}
<1>13. 0 \in S
  BY <1>1, <1>7, <1>12
<1>14. ASSUME NEW k \in 1..n, k - 1 \in S PROVE k \in S
  <2>1. k \in 0..n /\ k # 0 /\ k - 1 \in 0..n
    BY <1>1
  <2>2. read[k - 1] = f[k - 1] /\ f[k - 1] \in Halves
    BY <1>7, <1>14, <2>1
  <2>3. read[k] = IF tokens[k] = Semicolon THEN [done |-> Closed(read[k - 1]), part |-> <<>>]
                  ELSE [read[k - 1] EXCEPT !.part = Append(@, tokens[k])]
    BY <1>12, <2>1
  <2>4. [f[k - 1] EXCEPT !.part = Append(@, tokens[k])]
          = [done |-> f[k - 1].done, part |-> Append(f[k - 1].part, tokens[k])]
    BY <1>1, <1>8, <2>2
  <2>5. read[k] = ReadOn(f[k - 1], k)
    BY <2>2, <2>3, <2>4 DEF ReadOn
  <2> QED  BY <1>7, <2>1, <2>5
<1>15. \A k \in 0..n : read[k] = f[k]
  <2>1. \A k \in 0..n : k \in S
    <3> HIDE DEF S
    <3> QED  BY <1>1, <1>13, <1>14, CountUp
  <2> QED  BY <2>1
<1>16. ASSUME NEW k \in 1..n PROVE read[k] = ReadOn(read[k - 1], k)
  <2>1. k \in 0..n /\ k - 1 \in 0..n
    BY <1>1
  <2> QED  BY <1>7, <1>15, <2>1
<1>17. 0 \in 0..n
  BY <1>1
<1> HIDE DEF body, S
<1>18. /\ Read[0] = zero /\ \A k \in 0..n : Read[k] \in Halves
       /\ \A k \in 1..n : Read[k] = ReadOn(Read[k - 1], k)
  BY <1>7, <1>11, <1>15, <1>16, <1>17
<1> QED  BY <1>18 DEF n, zero

(* The statement under way is a piece of the file. *)
LEMMA PartUnmerged ==
  ASSUME Unmerged(tokens)
  PROVE  \A k \in 0..Len(tokens) : Unmerged(Read[k].part)
<1> DEFINE n == Len(tokens)
           Piece(k) == LET p == Read[k].part
                       IN Unmerged(p) /\ (p # <<>> => k # 0 /\ p[Len(p)] = tokens[k])
           S == {k \in 0..n : Piece(k)}
<1>1. /\ tokens \in Seq(SqlTokens) /\ n \in Nat /\ \A k \in 1..n : tokens[k] \in SqlTokens
      /\ \A k \in 1..(n - 1) : ~Merge(tokens[k], tokens[k + 1])
  BY LenProperties, ElementOfSeq DEF Unmerged
<1>2. /\ Read[0] = [done |-> <<>>, part |-> <<>>] /\ \A k \in 0..n : Read[k] \in Halves
      /\ \A k \in 1..n : Read[k] = ReadOn(Read[k - 1], k)
  BY <1>1, ReadFacts
<1>3. Unmerged(<<>>)
  <2>1. <<>> \in Seq(SqlTokens) /\ Len(<<>>) = 0
    BY EmptySeq
  <2> QED  BY <2>1 DEF Unmerged
<1> HIDE DEF n
<1>4. 0 \in S
  <2>1. Read[0].part = <<>> /\ 0 \in 0..n
    BY <1>1, <1>2
  <2> QED  BY <1>3, <2>1
<1>5. ASSUME NEW k \in 1..n, k - 1 \in S PROVE k \in S
  <2> DEFINE p == Read[k - 1].part
  <2>1. k - 1 \in 0..n /\ k \in 0..n /\ k # 0 /\ tokens[k] \in SqlTokens
    BY <1>1
  <2>2. Piece(k - 1) /\ Read[k] = ReadOn(Read[k - 1], k)
    BY <1>2, <1>5
  <2>3. CASE tokens[k] = Semicolon
    <3>1. Read[k].part = <<>>
      BY <2>2, <2>3 DEF ReadOn
    <3> QED  BY <1>3, <2>1, <3>1
  <2>4. CASE tokens[k] # Semicolon
    <3> DEFINE q == Append(p, tokens[k])
    <3>1. Read[k].part = q
      BY <2>2, <2>4 DEF ReadOn
    <3>2. /\ p \in Seq(SqlTokens) /\ Unmerged(p)
          /\ (p # <<>> => k - 1 # 0 /\ p[Len(p)] = tokens[k - 1])
      BY <2>2 DEF Unmerged
    <3> HIDE DEF p
    <3>3. /\ q \in Seq(SqlTokens) /\ Len(q) = Len(p) + 1 /\ Len(p) \in Nat
          /\ q[Len(p) + 1] = tokens[k]
          /\ \A i \in 1..Len(p) : q[i] = p[i]
      BY <2>1, <3>2, AppendProperties, LenProperties
    <3> HIDE DEF q
    <3>4. ASSUME NEW i \in 1..(Len(q) - 1) PROVE ~Merge(q[i], q[i + 1])
      <4>1. CASE i = Len(p)
        <5>1. p # <<>>
          BY <3>3, <4>1, EmptySeq
        <5>2. q[i] = tokens[k - 1] /\ q[i + 1] = tokens[k] /\ k - 1 # 0
          BY <3>2, <3>3, <4>1, <5>1
        <5>3. k - 1 \in 1..(n - 1) /\ (k - 1) + 1 = k
          BY <1>1, <5>2
        <5>4. ~Merge(tokens[k - 1], tokens[k])
          BY <1>1, <5>3
        <5> QED  BY <5>2, <5>4
      <4>2. CASE i # Len(p)
        <5>1. i \in 1..(Len(p) - 1) /\ i \in 1..Len(p) /\ i + 1 \in 1..Len(p)
          BY <3>3, <4>2
        <5>2. ~Merge(p[i], p[i + 1])
          BY <3>2, <5>1 DEF Unmerged
        <5> QED  BY <3>3, <5>1, <5>2
      <4> QED  BY <4>1, <4>2
    <3>5. Unmerged(q)
      BY <3>3, <3>4 DEF Unmerged
    <3>6. q[Len(q)] = tokens[k]
      BY <3>3
    <3> QED  BY <2>1, <3>1, <3>5, <3>6
  <2> QED  BY <2>3, <2>4
<1>6. \A k \in 0..n : k \in S
  <2> HIDE DEF S
  <2> QED  BY <1>1, <1>4, <1>5, CountUp
<1> QED  BY <1>6 DEF n

-----------------------------------------------------------------------------
(* k tokens are read: what is emitted, and what the buffer holds. *)
Collected(k) ==
  /\ emitted = Read[k].done /\ bufStart \in 1..(OffsetOf(k + 1) + 1)
  /\ SubSeq(Text, bufStart, OffsetOf(k + 1)) = FlattenSeq(Read[k].part)

(* The inductive invariant: the splitter is inside a token, or at the end. *)
SqlInv ==
  /\ Unmerged(tokens)
  /\ \/ \E k \in 1..Len(tokens) : \E j \in 0..(Len(tokens[k]) - 1) :
          pos = OffsetOf(k) + j + 1 /\ InToken(tokens[k], j) /\ Collected(k - 1)
     \/ pos = Len(Text) + 1 /\ lexer = Code /\ Collected(Len(tokens))
     \/ pos = Len(Text) + 2 /\ lexer = Code /\ bufStart = pos /\ emitted = Meant

(* The tokens of a statement are texts. *)
LEMMA PartText ==
  ASSUME tokens \in Seq(SqlTokens), NEW k \in 0..Len(tokens)
  PROVE  Read[k].part \in Seq(Seq(Chars)) /\ Read[k].part \in Seq(SqlTokens)
<1>1. Read[k].part \in Seq(SqlTokens)
  BY ReadFacts DEF Halves
<1>2. Len(Read[k].part) \in Nat /\ Read[k].part \in [1..Len(Read[k].part) -> SqlTokens]
  BY <1>1, LenProperties
<1>3. \A i \in 1..Len(Read[k].part) : Read[k].part[i] \in Seq(Chars)
  BY <1>2, TokensAreText
<1> QED  BY <1>1, <1>2, <1>3, IsASeq

(* One more token, not a semicolon, goes to the buffer. *)
LEMMA CollectedOn ==
  ASSUME Unmerged(tokens), NEW k \in 1..Len(tokens), tokens[k] # Semicolon, Collected(k - 1)
  PROVE  Collected(k)
<1> DEFINE a == OffsetOf(k)  b == OffsetOf(k + 1)  t == tokens[k]  p == Read[k - 1].part
<1>0. tokens \in Seq(SqlTokens) /\ Len(tokens) \in Nat
  BY LenProperties DEF Unmerged
<1>1. k - 1 \in 0..Len(tokens) /\ k \in 1..(Len(tokens) + 1) /\ k + 1 \in 1..(Len(tokens) + 1)
      /\ (k - 1) + 1 = k
  BY <1>0
<1>2. /\ Read[k] = ReadOn(Read[k - 1], k) /\ p \in Seq(Seq(Chars)) /\ t \in Seq(Chars)
  BY <1>0, <1>1, ReadFacts, PartText, Offsets, TokensAreText
<1>3. Read[k].done = Read[k - 1].done /\ Read[k].part = Append(p, t)
  BY <1>2 DEF ReadOn
<1>4. /\ a \in Nat /\ b \in Nat /\ b = a + Len(t) /\ Len(t) \in Nat /\ Len(t) >= 1 /\ b <= Len(Text)
      /\ Text \in Seq(Chars) /\ Len(Text) \in Nat /\ \A j \in 1..Len(t) : Ch(a + j) = t[j]
  BY <1>0, <1>1, Offsets
<1>5. /\ emitted = Read[k - 1].done /\ bufStart \in 1..(a + 1)
      /\ SubSeq(Text, bufStart, a) = FlattenSeq(p)
  BY <1>1 DEF Collected
<1>6. FlattenSeq(Append(p, t)) = FlattenSeq(p) \o t
  BY <1>2, FlatAppend
<1> HIDE DEF Text, a, b, t, p
<1>7. SubSeq(Text, bufStart, b) = SubSeq(Text, bufStart, a) \o t
  <2> DEFINE s == bufStart  u == SubSeq(Text, s, a)  v == SubSeq(Text, s, b)
  <2>1. s \in Nat /\ s >= 1 /\ s <= a + 1 /\ s \in Int /\ a \in Int /\ b \in Int /\ a <= b
    BY <1>4, <1>5
  <2>2. \A i \in s..b : i \in 1..Len(Text) /\ Text[i] \in Chars
    <3>1. \A i \in s..b : i \in 1..Len(Text)
      BY <1>4, <2>1
    <3> QED  BY <1>4, <3>1, ElementOfSeq
  <2>3. /\ v \in Seq(Chars) /\ Len(v) = IF s <= b THEN b - s + 1 ELSE 0
        /\ \A i \in 1..(b - s + 1) : v[i] = Text[s + i - 1]
    <3> HIDE DEF s
    <3> QED  BY <2>1, <2>2, SubSeqProperties
  <2>4. /\ u \in Seq(Chars) /\ Len(u) = IF s <= a THEN a - s + 1 ELSE 0
        /\ \A i \in 1..(a - s + 1) : u[i] = Text[s + i - 1]
    <3>1. \A i \in s..a : Text[i] \in Chars
      <4>1. \A i \in s..a : i \in s..b
        BY <2>1
      <4> QED  BY <2>2, <4>1
    <3> HIDE DEF s
    <3> QED  BY <2>1, <3>1, SubSeqProperties
  <2> HIDE DEF u, v, s
  <2>5. Len(u) = a - s + 1 /\ Len(v) = b - s + 1 /\ Len(u) \in Nat /\ Len(v) \in Nat
    BY <1>4, <2>1, <2>3, <2>4
  <2>6. /\ u \o t \in Seq(Chars) /\ Len(u \o t) = Len(u) + Len(t)
        /\ \A j \in 1..Len(u) : (u \o t)[j] = u[j]
        /\ \A j \in 1..Len(t) : (u \o t)[Len(u) + j] = t[j]
    <3>1. u \in Seq(Chars) /\ t \in Seq(Chars)
      BY <1>2, <2>4 DEF t
    <3>2. u \o t \in Seq(Chars)
      BY <3>1, ConcatProperties
    <3> QED  BY <3>1, <3>2, Joined
  <2>7. Len(v) = Len(u \o t)
    <3>1. b - s + 1 = (a - s + 1) + Len(t)
      BY <1>4, <2>1
    <3> QED  BY <2>5, <2>6, <3>1
  <2>8. ASSUME NEW i \in 1..Len(v) PROVE v[i] = (u \o t)[i]
    <3>1. v[i] = Text[s + i - 1]
      BY <2>3, <2>5
    <3>2. CASE i <= Len(u)
      <4>1. i \in 1..Len(u) /\ i \in 1..(a - s + 1)
        BY <2>5, <3>2
      <4> QED  BY <2>4, <2>6, <3>1, <4>1
    <3>3. CASE ~(i <= Len(u))
      <4> DEFINE j == i - Len(u)
      <4>1. j \in 1..Len(t) /\ Len(u) + j = i /\ s + i - 1 = a + j /\ a + j \in 1..Len(Text)
        BY <1>4, <2>1, <2>5, <3>3
      <4> HIDE DEF j
      <4>2. Text[a + j] = t[j]
        BY <1>4, <4>1 DEF Ch
      <4>3. (u \o t)[Len(u) + j] = t[j]
        BY <2>6, <4>1
      <4> QED  BY <3>1, <4>1, <4>2, <4>3
    <3> QED  BY <3>2, <3>3
  <2>9. v = u \o t
    BY <2>3, <2>6, <2>7, <2>8, SeqEqual
  <2> QED  BY <2>9 DEF u, v, s
<1>8. bufStart \in 1..(b + 1)
  BY <1>4, <1>5
<1>9. SubSeq(Text, bufStart, b) = FlattenSeq(Append(p, t))
  BY <1>5, <1>6, <1>7
<1> QED  BY <1>3, <1>5, <1>8, <1>9 DEF Collected, b

(* What Emit makes of the buffer after k tokens. *)
LEMMA Emits ==
  ASSUME Unmerged(tokens), NEW k \in 0..Len(tokens), Collected(k), pos = OffsetOf(k + 1) + 1, Emit
  PROVE  emitted' = Closed(Read[k])
<1> DEFINE p == Read[k].part  text == Strip(FlattenSeq(p))
<1>1. Unmerged(p)
  BY PartUnmerged
<1>2. (text = <<>> \/ OnlyTrivia(text)) <=> ~Says(p)
  BY <1>1, ClosedText
<1>3. OffsetOf(k + 1) \in Nat
  <2>1. tokens \in Seq(SqlTokens) /\ Len(tokens) \in Nat
    BY LenProperties DEF Unmerged
  <2>2. k + 1 \in 1..(Len(tokens) + 1)
    BY <2>1
  <2> QED  BY <2>1, <2>2, Offsets
<1>4. pos - 1 = OffsetOf(k + 1)
  BY <1>3
<1>5. SubSeq(Text, bufStart, pos - 1) = FlattenSeq(p)
  BY <1>4 DEF Collected
<1>6. emitted' = IF text = <<>> \/ OnlyTrivia(text) THEN emitted ELSE Append(emitted, text)
  BY <1>5 DEF Emit
<1>7. Closed(Read[k]) = IF Says(p) THEN Append(Read[k].done, text) ELSE Read[k].done
  BY DEF Closed
<1>8. emitted = Read[k].done
  BY DEF Collected
<1> HIDE DEF p, text
<1> QED  BY <1>2, <1>6, <1>7, <1>8

(* A step that keeps the tokens keeps all that is said of them. *)
LEMMA SameText ==
  ASSUME tokens' = tokens
  PROVE  /\ Text' = Text /\ Read' = Read /\ Meant' = Meant /\ \A k : OffsetOf(k)' = OffsetOf(k)
<1>1. Text' = Text
  BY DEF Text
<1>2. Read' = Read
  BY DEF Read
<1>3. Meant' = Meant
  BY <1>2 DEF Meant
<1>4. \A k : OffsetOf(k)' = OffsetOf(k)
  BY DEF OffsetOf
<1> QED  BY <1>1, <1>2, <1>3, <1>4

(* A step that keeps what is collected. *)
LEMMA SameCollected ==
  ASSUME UNCHANGED <<tokens, bufStart, emitted>>, NEW k, Collected(k)
  PROVE  Collected(k)'
<1>1. tokens' = tokens /\ bufStart' = bufStart /\ emitted' = emitted
  OBVIOUS
<1>2. Text' = Text /\ Read' = Read /\ OffsetOf(k + 1)' = OffsetOf(k + 1)
  BY <1>1, SameText
<1> HIDE DEF Text, Read, OffsetOf
<1> QED  BY <1>1, <1>2 DEF Collected

(* After k tokens the next one is to be read, or the file ends. *)
LEMMA Boundary ==
  ASSUME Unmerged(tokens), NEW k \in 0..Len(tokens), Collected(k), pos = OffsetOf(k + 1) + 1,
         lexer = Code
  PROVE  SqlInv
<1>1. tokens \in Seq(SqlTokens) /\ Len(tokens) \in Nat
  BY LenProperties DEF Unmerged
<1>2. CASE k = Len(tokens)
  <2>1. pos = Len(Text) + 1
    BY <1>1, <1>2, Offsets
  <2> QED  BY <1>2, <2>1 DEF SqlInv
<1>3. CASE k # Len(tokens)
  <2>1. k + 1 \in 1..Len(tokens) /\ k + 1 \in 1..(Len(tokens) + 1) /\ (k + 1) - 1 = k
    BY <1>1, <1>3
  <2>2. OffsetOf(k + 1) \in Nat /\ Len(tokens[k + 1]) \in Nat /\ Len(tokens[k + 1]) >= 1
    BY <1>1, <2>1, Offsets
  <2>3. 0 \in 0..(Len(tokens[k + 1]) - 1) /\ pos = OffsetOf(k + 1) + 0 + 1
    BY <2>2
  <2>4. InToken(tokens[k + 1], 0)
    BY DEF InToken
  <2>5. Collected((k + 1) - 1)
    BY <2>1
  <2> HIDE DEF InToken, Collected
  <2> QED  BY <2>1, <2>3, <2>4, <2>5 DEF SqlInv
<1> QED  BY <1>2, <1>3

(* The first state is at the first boundary. *)
LEMMA SqlInit ==
  ASSUME SqlSplitInit
  PROVE  SqlInv
<1>1. tokens \in SqlFiles /\ pos = 1 /\ bufStart = 1 /\ emitted = <<>> /\ lexer = Code
  BY DEF SqlSplitInit, Code, Lexer
<1>2. Unmerged(tokens)
  <2>1. /\ tokens \in SeqOf(SqlTokens, MaxTokens)
        /\ \A k \in 1..(Len(tokens) - 1) : ~Merge(tokens[k], tokens[k + 1])
    BY <1>1 DEF SqlFiles
  <2>2. PICK n \in 0..MaxTokens : tokens \in [1..n -> SqlTokens]
    BY <2>1 DEF SeqOf
  <2>3. tokens \in Seq(SqlTokens)
    BY <2>2, SqlSplitAssumption
  <2> QED  BY <2>1, <2>3 DEF Unmerged
<1>3. tokens \in Seq(SqlTokens) /\ Len(tokens) \in Nat
  BY <1>2, LenProperties DEF Unmerged
<1>4. Read[0] = [done |-> <<>>, part |-> <<>>] /\ OffsetOf(1) = 0 /\ 0 + 1 = 1
  BY <1>3, ReadFacts, Offsets
<1>5. Collected(0)
  <2>1. SubSeq(Text, 1, 0) = <<>>
    BY SubSeqEmpty
  <2>2. FlattenSeq(<<>>) = <<>>
    <3>1. Len(<<>>) = 0
      BY EmptySeq
    <3> QED  BY <3>1 DEF FlattenSeq
  <2>3. bufStart \in 1..(0 + 1)
    BY <1>1
  <2>4. Read[0].done = <<>> /\ Read[0].part = <<>>
    BY <1>4
  <2> HIDE DEF Text, OffsetOf, Read
  <2> QED  BY <1>1, <1>4, <2>1, <2>2, <2>3, <2>4 DEF Collected
<1>6. 0 \in 0..Len(tokens) /\ pos = OffsetOf(0 + 1) + 1
  BY <1>1, <1>3, <1>4
<1> QED  BY <1>1, <1>2, <1>5, <1>6, Boundary

(* Where a token ends. *)
AtBoundary ==
  Unmerged(tokens) /\ lexer = Code /\ \E k \in 0..Len(tokens) : Collected(k) /\ pos = OffsetOf(k + 1) + 1

(* A boundary reached by a step. *)
LEMMA BoundaryNext == AtBoundary' => SqlInv'
<1>1. AtBoundary => SqlInv
  BY Boundary DEF AtBoundary
<1> QED  BY <1>1, PTL

(* Every step keeps the invariant. *)
LEMMA SqlStep ==
  ASSUME SqlInv, [SqlSplitNext]_sqlVars
  PROVE  SqlInv'
<1>0. /\ Unmerged(tokens) /\ tokens \in Seq(SqlTokens) /\ Len(tokens) \in Nat
      /\ Len(Text) \in Nat /\ Len(Text) = OffsetOf(Len(tokens) + 1)
  BY LenProperties, Offsets DEF SqlInv, Unmerged
<1>1. CASE UNCHANGED sqlVars
  <2>1. /\ tokens' = tokens /\ pos' = pos /\ lexer' = lexer
        /\ bufStart' = bufStart /\ emitted' = emitted
    BY <1>1 DEF sqlVars
  <2>2. Text' = Text /\ Meant' = Meant /\ \A k : OffsetOf(k)' = OffsetOf(k)
    BY <2>1, SameText
  <2>3. \A k : Collected(k) => Collected(k)'
    BY <2>1, SameCollected
  <2>4. \A k, j : InToken(tokens[k], j) => InToken(tokens[k], j)'
    BY <2>1 DEF InToken
  <2> HIDE DEF Text, Meant, OffsetOf, Collected, InToken
  <2>5. CASE \E k \in 1..Len(tokens) : \E j \in 0..(Len(tokens[k]) - 1) :
               pos = OffsetOf(k) + j + 1 /\ InToken(tokens[k], j) /\ Collected(k - 1)
    <3>1. \E k \in 1..Len(tokens) : \E j \in 0..(Len(tokens[k]) - 1) :
             pos' = OffsetOf(k)' + j + 1 /\ InToken(tokens[k], j)' /\ Collected(k - 1)'
      BY <2>1, <2>2, <2>3, <2>4, <2>5
    <3> QED  BY <1>0, <2>1, <3>1 DEF SqlInv
  <2>6. CASE pos = Len(Text) + 1 /\ lexer = Code /\ Collected(Len(tokens))
    BY <1>0, <2>1, <2>2, <2>3, <2>6 DEF SqlInv, Code
  <2>7. CASE pos = Len(Text) + 2 /\ lexer = Code /\ bufStart = pos /\ emitted = Meant
    BY <1>0, <2>1, <2>2, <2>7 DEF SqlInv, Code
  <2> QED  BY <2>5, <2>6, <2>7 DEF SqlInv
<1>2. CASE SqlSplitNext
  <2>1. CASE \E k \in 1..Len(tokens) : \E j \in 0..(Len(tokens[k]) - 1) :
               pos = OffsetOf(k) + j + 1 /\ InToken(tokens[k], j) /\ Collected(k - 1)
    <3> PICK k, j : /\ k \in 1..Len(tokens) /\ j \in 0..(Len(tokens[k]) - 1)
                    /\ pos = OffsetOf(k) + j + 1 /\ InToken(tokens[k], j) /\ Collected(k - 1)
      BY <2>1
    <3>0. PICK t, o, nxt : t = tokens[k] /\ o = OffsetOf(k) /\ nxt = Nxt(k)
      OBVIOUS
    <3>1. Shows(o, t, nxt) /\ Apart(o, t, nxt) /\ t \in SqlTokens
      BY <1>0, <3>0, ShowsToken, ApartToken, Offsets
    <3>2. /\ k \in 1..(Len(tokens) + 1) /\ k + 1 \in 1..(Len(tokens) + 1) /\ k \in 0..Len(tokens)
          /\ k - 1 \in 0..Len(tokens) /\ (k - 1) + 1 = k
      BY <1>0
    <3>3. /\ o \in Nat /\ OffsetOf(k + 1) = o + Len(t) /\ OffsetOf(k + 1) \in Nat /\ Len(t) \in Nat
          /\ Len(t) >= 1 /\ OffsetOf(k + 1) <= Len(Text)
      BY <1>0, <3>0, <3>2, Offsets
    <3>4. CASE t # Semicolon
      <4>1. Advances(o, t)
        <5>1. pos = o + j + 1 /\ InToken(t, j)
          BY <3>0
        <5> QED  BY <1>2, <3>1, <3>4, <5>1, TokenStep
      <4>2. UNCHANGED <<tokens, bufStart, emitted>>
        BY <4>1 DEF Advances
      <4>3. tokens' = tokens /\ \A i : OffsetOf(i)' = OffsetOf(i)
        BY <4>2, SameText
      <4>4. CASE \E i \in 1..(Len(t) - 1) : pos' = o + i + 1 /\ InToken(t, i)'
        <5> PICK i \in 1..(Len(t) - 1) : pos' = o + i + 1 /\ InToken(t, i)'
          BY <4>4
        <5>0. tokens'[k] = t /\ OffsetOf(k)' = o
          BY <3>0, <4>3
        <5>1. i \in 0..(Len(tokens'[k]) - 1) /\ pos' = OffsetOf(k)' + i + 1
          BY <3>3, <5>0
        <5>4. InToken(tokens[k], i)'
          BY <5>0 DEF InToken
        <5>2. Collected(k - 1)'
          BY <4>2, SameCollected
        <5>3. Unmerged(tokens)' /\ k \in 1..Len(tokens')
          BY <1>0, <4>3
        <5> HIDE DEF InToken, Collected
        <5>5. (\E m \in 1..Len(tokens) : \E l \in 0..(Len(tokens[m]) - 1) :
                 pos = OffsetOf(m) + l + 1 /\ InToken(tokens[m], l) /\ Collected(m - 1))'
          BY <5>1, <5>2, <5>3, <5>4
        <5> QED  BY <5>3, <5>5 DEF SqlInv
      <4>5. CASE pos' = o + Len(t) + 1 /\ lexer' = Code
        <5>1. Collected(k)
          BY <1>0, <3>0, <3>4, CollectedOn
        <5>2. Collected(k)'
          BY <4>2, <5>1, SameCollected
        <5>3. pos' = OffsetOf(k + 1)' + 1 /\ k \in 0..Len(tokens')
          BY <3>0, <3>2, <3>3, <4>3, <4>5
        <5>4. Unmerged(tokens)'
          BY <1>0, <4>3
        <5> HIDE DEF Collected
        <5>5. AtBoundary'
          BY <4>5, <5>2, <5>3, <5>4 DEF AtBoundary, Code
        <5> QED  BY <5>5, BoundaryNext
      <4> QED  BY <4>1, <4>4, <4>5 DEF Advances
    <3>5. CASE t = Semicolon
      <4>1. Len(t) = 1 /\ t[1] = Semi /\ j = 0
        <5>1. Len(t) = 1 /\ t[1] = Semi
          BY <3>5, ShortLook
        <5> QED  BY <3>0, <5>1
      <4>2. lexer = Code
        <5>1. t \notin Strings /\ t \notin EStrings /\ t \notin Names
          BY <4>1, StringLook, EStringLook, NameLook
        <5>2. t \notin LineComments /\ t \notin BlockComments /\ t \notin Bodies
          BY <4>1, LineLook, BlockLook, BodyLook
        <5>3. InToken(t, j)
          BY <3>0
        <5> QED  BY <4>1, <5>1, <5>2, <5>3 DEF InToken
      <4>3. Ch(pos) = Semi /\ pos \in Nat /\ pos <= Len(Text) /\ pos = o + 1
        <5>1. 1 \in 1..Len(tokens[k])
          BY <3>0, <4>1
        <5>2. Ch(o + 1) = t[1]
          BY <1>0, <3>0, <5>1, Offsets
        <5>3. pos = o + 1
          BY <3>0, <3>3, <4>1
        <5> QED  BY <3>3, <4>1, <5>2, <5>3
      <4>4. CodeCuts
        BY <1>2, <4>2, <4>3, CodeStep DEF Code, Lexer
      <4>5. Emit /\ pos' = pos + 1 /\ bufStart' = pos + 1 /\ tokens' = tokens /\ lexer' = lexer
        BY <4>4 DEF CodeCuts
      <4>6. emitted' = Closed(Read[k - 1])
        BY <1>0, <3>0, <3>2, <4>3, <4>5, Emits
      <4>7. Read[k].done = Closed(Read[k - 1]) /\ Read[k].part = <<>>
        <5>1. Read[k] = ReadOn(Read[k - 1], k)
          BY <1>0, ReadFacts
        <5>2. tokens[k] = Semicolon
          BY <3>0, <3>5
        <5> QED  BY <5>1, <5>2 DEF ReadOn
      <4>8. Text' = Text /\ Read' = Read /\ \A i : OffsetOf(i)' = OffsetOf(i)
        BY <4>5, SameText
      <4>9. pos' = OffsetOf(k + 1) + 1 /\ bufStart' = OffsetOf(k + 1) + 1
        BY <3>3, <4>1, <4>3, <4>5
      <4>10. SubSeq(Text, OffsetOf(k + 1) + 1, OffsetOf(k + 1)) = <<>> /\ FlattenSeq(<<>>) = <<>>
        <5>1. Len(<<>>) = 0
          BY EmptySeq
        <5>2. OffsetOf(k + 1) + 1 \in Int /\ OffsetOf(k + 1) \in Int /\ OffsetOf(k + 1) < OffsetOf(k + 1) + 1
          BY <3>3
        <5> QED  BY <5>1, <5>2, SubSeqEmpty DEF FlattenSeq
      <4>11. Collected(k)'
        <5>1. OffsetOf(k + 1) + 1 \in 1..(OffsetOf(k + 1) + 1)
          BY <3>3
        <5> HIDE DEF Text, Read, OffsetOf
        <5> QED  BY <4>6, <4>7, <4>8, <4>9, <4>10, <5>1 DEF Collected
      <4>12. AtBoundary'
        <5>1. k \in 0..Len(tokens') /\ pos' = OffsetOf(k + 1)' + 1 /\ lexer' = Code /\ Unmerged(tokens)'
          BY <1>0, <3>2, <4>2, <4>5, <4>8, <4>9
        <5> HIDE DEF Collected
        <5> QED  BY <4>11, <5>1 DEF AtBoundary, Code
      <4> QED  BY <4>12, BoundaryNext
    <3> QED  BY <3>4, <3>5
  <2>2. CASE pos = Len(Text) + 1 /\ lexer = Code /\ Collected(Len(tokens))
    <3>1. FileEnds
      <4>1. ~(pos <= Len(Text))
        BY <1>0, <2>2
      <4> HIDE DEF Text
      <4> QED  BY <1>2, <4>1 DEF SqlSplitNext, InLine, InBlock, InQuoted, InDollar, CodeOpens,
                                 CodeCuts, CodeGoesOn, In
    <3>2. Emit /\ pos' = pos + 1 /\ bufStart' = pos + 1 /\ tokens' = tokens /\ lexer' = lexer
      BY <3>1 DEF FileEnds
    <3>3. Len(tokens) \in 0..Len(tokens) /\ pos = OffsetOf(Len(tokens) + 1) + 1
      BY <1>0, <2>2
    <3>4. emitted' = Closed(Read[Len(tokens)])
      BY <1>0, <2>2, <3>2, <3>3, Emits
    <3>5. Text' = Text /\ Meant' = Meant
      BY <3>2, SameText
    <3>6. emitted' = Meant'
      BY <3>4, <3>5 DEF Meant
    <3>7. pos' = Len(Text') + 2 /\ bufStart' = pos' /\ lexer' = Code /\ Unmerged(tokens)'
      BY <1>0, <2>2, <3>2, <3>5
    <3> HIDE DEF Text, Meant
    <3> QED  BY <3>6, <3>7 DEF SqlInv, Code
  <2>3. CASE pos = Len(Text) + 2 /\ lexer = Code /\ bufStart = pos /\ emitted = Meant
    <3>1. ~(pos <= Len(Text)) /\ pos # Len(Text) + 1
      BY <1>0, <2>3
    <3> HIDE DEF Text
    <3> QED  BY <1>2, <3>1 DEF SqlSplitNext, InLine, InBlock, InQuoted, InDollar, CodeOpens,
                               CodeCuts, CodeGoesOn, In, FileEnds
  <2> QED  BY <2>1, <2>2, <2>3 DEF SqlInv
<1> QED  BY <1>1, <1>2

(* At the end, what is emitted is what is meant. *)
LEMMA SqlConcludes ==
  ASSUME SqlInv
  PROVE  SplitsAsMeant /\ SqlSplitTypeOK
<1>0. /\ Unmerged(tokens) /\ tokens \in Seq(SqlTokens) /\ Len(tokens) \in Nat
      /\ Len(Text) \in Nat /\ Len(Text) = OffsetOf(Len(tokens) + 1)
  BY LenProperties, Offsets DEF SqlInv, Unmerged
<1>1. CASE \E k \in 1..Len(tokens) : \E j \in 0..(Len(tokens[k]) - 1) :
             pos = OffsetOf(k) + j + 1 /\ InToken(tokens[k], j) /\ Collected(k - 1)
  <2> PICK k, j : /\ k \in 1..Len(tokens) /\ j \in 0..(Len(tokens[k]) - 1)
                  /\ pos = OffsetOf(k) + j + 1 /\ InToken(tokens[k], j) /\ Collected(k - 1)
    BY <1>1
  <2>1. k \in 1..(Len(tokens) + 1) /\ k + 1 \in 1..(Len(tokens) + 1) /\ (k - 1) + 1 = k
    BY <1>0
  <2>2. /\ OffsetOf(k) \in Nat /\ OffsetOf(k + 1) = OffsetOf(k) + Len(tokens[k]) /\ OffsetOf(k + 1) <= Len(Text)
        /\ Len(tokens[k]) \in Nat /\ OffsetOf(k + 1) \in Nat
    BY <1>0, <2>1, Offsets
  <2>3. pos \in 1..Len(Text)
    BY <1>0, <2>2
  <2>4. bufStart \in 1..pos
    <3>1. bufStart \in 1..(OffsetOf(k) + 1)
      BY <2>1 DEF Collected
    <3> QED  BY <2>2, <3>1
  <2>5. lexer.state \in {"code", "line", "block", "squote", "estring", "dquote", "dollar"}
    BY DEF InToken, Code, Lexer
  <2> HIDE DEF Text
  <2> QED  BY <1>0, <2>3, <2>4, <2>5 DEF SplitsAsMeant, SqlSplitTypeOK
<1>2. CASE pos = Len(Text) + 1 /\ lexer = Code /\ Collected(Len(tokens))
  <2>1. bufStart \in 1..(OffsetOf(Len(tokens) + 1) + 1) /\ lexer.state = "code"
    BY <1>2 DEF Collected, Code, Lexer
  <2> HIDE DEF Text
  <2> QED  BY <1>0, <1>2, <2>1 DEF SplitsAsMeant, SqlSplitTypeOK
<1>3. CASE pos = Len(Text) + 2 /\ lexer = Code /\ bufStart = pos /\ emitted = Meant
  <2>1. lexer.state = "code"
    BY <1>3 DEF Code, Lexer
  <2> HIDE DEF Text, Meant
  <2> QED  BY <1>0, <1>3, <2>1 DEF SplitsAsMeant, SqlSplitTypeOK
<1> QED  BY <1>1, <1>2, <1>3 DEF SqlInv

(* Whatever a migration file says, of any length, the statements that run are
   the ones it says (split_sql_statements). *)
THEOREM SplitsAsMeantHolds == SqlSplitSpec => [](SplitsAsMeant /\ SqlSplitTypeOK)
<1>1. SqlSplitInit => SqlInv
  BY SqlInit
<1>2. SqlInv /\ [SqlSplitNext]_sqlVars => SqlInv'
  BY SqlStep
<1>3. SqlInv => SplitsAsMeant /\ SqlSplitTypeOK
  BY SqlConcludes
<1> QED  BY <1>1, <1>2, <1>3, PTL DEF SqlSplitSpec
=============================================================================
