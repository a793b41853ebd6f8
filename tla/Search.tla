------------------------------- MODULE Search -------------------------------
(***************************************************************************)
(* The search index: a document per bot, message, memory note and          *)
(* artifact, written in the transaction that writes its row, and the       *)
(* search.rebuild job that indexes what was there before the index.        *)
(*                                                                         *)
(* A chunk of the rebuild is a transaction that first selects its rows and *)
(* then writes their documents: what commits in between is not seen, and a *)
(* step here is one of those two.  A worker that loses its lease goes on   *)
(* with its own copy of the job's payload.                                 *)
(***************************************************************************)
EXTENDS Integers, FiniteSets, FiniteSetsExt

CONSTANTS BotIds, MessageIds, MemoryIds, ArtifactIds, Indexers, BatchSize, MaxAttempts,
          MaxEdits, MaxClaims

ASSUME SearchAssumption ==
  /\ BotIds \cup MessageIds \cup MemoryIds \cup ArtifactIds \subseteq Nat \ {0}
  /\ IsFiniteSet(BotIds \cup MessageIds \cup MemoryIds \cup ArtifactIds)
  /\ BatchSize \in Nat \ {0} /\ MaxAttempts \in Nat
  /\ MaxEdits \in Nat /\ MaxClaims \in Nat   \* bounds of the model

VARIABLES
  rows,      \* per source: "none" or the resource it belongs to
  found,     \* per source its document: [state, of]
  rebuild,   \* the job: [state, at, after, owner, attempts]
  chunk,     \* per worker: [pc, at, after, read], its copy of the payload and what it selected
  edits      \* commits of the host so far

searchVars == <<rows, found, rebuild, chunk, edits>>

(* The phases, in the order of _REBUILD_PHASES; "done" comes after them. *)
NextPhase ==
  [bots |-> "messages", messages |-> "memory", memory |-> "artifacts", artifacts |-> "done",
   done |-> "done"]
Ids == [bots |-> BotIds, messages |-> MessageIds, memory |-> MemoryIds, artifacts |-> ArtifactIds]
Sources == UNION {{p} \X Ids[p] : p \in DOMAIN Ids}

Workspace == 0
NoResource == -1
Missing == [state |-> "missing", of |-> NoResource]
Live(r) == [state |-> "live", of |-> r]

Exists(s) == rows[s] # NoResource
Authorized == {Workspace} \cup {b \in BotIds : Exists(<<"bots", b>>)}

(* The rows of an older release are not indexed; a bot is its own resource,
   a note is a bot's or the workspace's. *)
Resources(s) ==
  CASE s[1] = "bots" -> {s[2]}
    [] s[1] = "memory" -> BotIds \cup {Workspace}
    [] OTHER -> BotIds

NotRebuilding == [pc |-> "idle", at |-> "bots", after |-> 0, read |-> {}]

SearchInit ==
  /\ rows \in [Sources -> BotIds \cup {Workspace, NoResource}]
  /\ \A s \in Sources :
       Exists(s) => rows[s] \in Resources(s) \cap Authorized
  /\ found = [s \in Sources |-> Missing]
  /\ rebuild = [state |-> "queued", at |-> "bots", after |-> 0, owner |-> "none", attempts |-> 0]
  /\ chunk = [w \in Indexers |-> NotRebuilding]
  /\ edits = 0

Commit == edits < MaxEdits /\ edits' = edits + 1

----------------------------------------------------------------------------
(* The host's transactions. *)
IndexRow(s, r) == found' = [found EXCEPT ![s] = Live(r)]

AddRow(s, r) ==
  /\ Commit /\ ~Exists(s)
  /\ r \in IF s[1] = "bots" THEN Resources(s) ELSE Resources(s) \cap Authorized
  /\ rows' = [rows EXCEPT ![s] = r]
  /\ IndexRow(s, r)
  /\ UNCHANGED <<rebuild, chunk>>

Tombstone(d) == IF d.state = "live" THEN [d EXCEPT !.state = "dead"] ELSE d

DeleteNote(s) ==
  /\ Commit /\ s[1] = "memory" /\ Exists(s)
  /\ rows' = [rows EXCEPT ![s] = NoResource]
  /\ found' = [found EXCEPT ![s] = Tombstone(@)]
  /\ UNCHANGED <<rebuild, chunk>>

(* delete_bot: every document of the bot is buried, and every row of it goes,
   but for the notes of the owner's that are kept for the workspace. *)
DeleteBot(b, kept) ==
  /\ Commit /\ b \in Authorized
  /\ kept \subseteq {s \in Sources : s[1] = "memory" /\ rows[s] = b}
  /\ rows' = [s \in Sources |-> IF s \in kept THEN Workspace
                                ELSE IF rows[s] = b THEN NoResource ELSE rows[s]]
  /\ found' = [s \in Sources |-> IF found[s].of = b THEN Tombstone(found[s]) ELSE found[s]]
  /\ UNCHANGED <<rebuild, chunk>>

----------------------------------------------------------------------------
(* The worker claims the job, also one whose lease ran out. *)
ClaimRebuild(w) ==
  /\ chunk[w].pc = "idle" /\ rebuild.attempts < MaxClaims
  /\ rebuild.state \in {"queued", "running"}
  /\ rebuild' = [rebuild EXCEPT !.state = "running", !.owner = w, !.attempts = @ + 1]
  /\ chunk' = [chunk EXCEPT ![w] = [pc |-> "select", at |-> rebuild.at, after |-> rebuild.after,
                                    read |-> {}]]
  /\ UNCHANGED <<rows, found, edits>>

(* The next batch of the phase, by id. *)
Ahead(w) == {s \in Sources : s[1] = chunk[w].at /\ s[2] > chunk[w].after /\ Exists(s)}
Batch(w) == {s \in Ahead(w) : Cardinality({t \in Ahead(w) : t[2] < s[2]}) < BatchSize}

SelectChunk(w) ==
  /\ chunk[w].pc = "select"
  /\ chunk' = [chunk EXCEPT ![w].pc = "index", ![w].read = {<<s, rows[s]>> : s \in Batch(w)}]
  /\ UNCHANGED <<rows, found, rebuild, edits>>

(* Mutant: a full batch ends the phase. *)
PhaseGoesOnShort(n) == n > BatchSize

(* A full batch may have more behind it; a short one ends the phase. *)
PhaseGoesOn(n) == n >= BatchSize

(* What was selected is written, over whatever is there now. *)
IndexChunk(w) ==
  LET read == chunk[w].read
      goesOn == PhaseGoesOn(Cardinality(read))
  IN /\ chunk[w].pc = "index"
     /\ found' = [s \in Sources |-> IF \E r \in read : r[1] = s
                                    THEN Live((CHOOSE r \in read : r[1] = s)[2]) ELSE found[s]]
     /\ chunk' = [chunk EXCEPT ![w] =
          [pc |-> "save", at |-> IF goesOn THEN @.at ELSE NextPhase[@.at],
           after |-> IF goesOn THEN Max({r[1][2] : r \in read}) ELSE 0, read |-> {}]]
     /\ UNCHANGED <<rows, rebuild, edits>>

(* update_job_payload, for the one who holds the lease; then the next chunk,
   or the acknowledgement, which does not ask who holds it.  After 40 chunks
   the worker stops and leaves the job to be claimed again. *)
SavePayload(w) ==
  LET held == rebuild.state = "running" /\ rebuild.owner = w
      done == chunk[w].at = "done"
  IN /\ chunk[w].pc = "save"
     /\ rebuild' = IF held THEN [rebuild EXCEPT !.at = chunk[w].at, !.after = chunk[w].after] ELSE rebuild
     /\ \/ chunk' = [chunk EXCEPT ![w].pc = IF done THEN "ack" ELSE "select"]
        \/ ~done /\ chunk' = [chunk EXCEPT ![w] = NotRebuilding]
     /\ UNCHANGED <<rows, found, edits>>

AckRebuild(w) ==
  /\ chunk[w].pc = "ack"
  /\ rebuild' = IF rebuild.state = "running" THEN [rebuild EXCEPT !.state = "succeeded", !.owner = "none"]
                ELSE rebuild
  /\ chunk' = [chunk EXCEPT ![w] = NotRebuilding]
  /\ UNCHANGED <<rows, found, edits>>

(* A failed chunk is rolled back; the job is queued again, or dead after its
   last attempt, in whatever state it is by then. *)
RebuildFails(w) ==
  /\ chunk[w].pc \in {"select", "index"}
  /\ rebuild' = [rebuild EXCEPT !.state = IF rebuild.attempts >= MaxAttempts THEN "dead" ELSE "queued",
                                !.owner = "none"]
  /\ chunk' = [chunk EXCEPT ![w] = NotRebuilding]
  /\ UNCHANGED <<rows, found, edits>>

IndexerDies(w) ==
  /\ chunk[w].pc # "idle"
  /\ chunk' = [chunk EXCEPT ![w] = NotRebuilding]
  /\ UNCHANGED <<rows, found, rebuild, edits>>

SearchNext ==
  \/ \E s \in Sources :
       \/ \E r \in BotIds \cup {Workspace} : AddRow(s, r)
       \/ DeleteNote(s)
  \/ \E b \in BotIds : \E kept \in SUBSET {s \in Sources : s[1] = "memory"} : DeleteBot(b, kept)
  \/ \E w \in Indexers :
       \/ ClaimRebuild(w) \/ SelectChunk(w) \/ IndexChunk(w) \/ SavePayload(w) \/ AckRebuild(w)
       \/ RebuildFails(w) \/ IndexerDies(w)

SearchSpec == SearchInit /\ [][SearchNext]_searchVars

----------------------------------------------------------------------------
SearchTypeOK ==
  /\ rows \in [Sources -> BotIds \cup {Workspace, NoResource}]
  /\ found \in [Sources -> [state : {"missing", "live", "dead"},
                            of : BotIds \cup {Workspace, NoResource}]]
  /\ rebuild \in [state : {"queued", "running", "succeeded", "dead"}, at : DOMAIN NextPhase,
                  after : Nat, owner : Indexers \cup {"none"}, attempts : 0..MaxClaims]
  /\ chunk \in [Indexers ->
       [pc : {"idle", "select", "index", "save", "ack"}, at : DOMAIN NextPhase, after : Nat,
        read : SUBSET (Sources \X (BotIds \cup {Workspace, NoResource}))]]
  /\ edits \in 0..MaxEdits

(* A source that a rebuild at this place of its payload has left behind. *)
PhaseOrder == [bots |-> 1, messages |-> 2, memory |-> 3, artifacts |-> 4, done |-> 5]
LeftBehind(s, at, after) ==
  PhaseOrder[s[1]] < PhaseOrder[at] \/ (s[1] = at /\ s[2] <= after)

InIndex(s) == Exists(s) => found[s].state # "missing"

(* A selected chunk holds the sources ahead of its payload, up to its last one
   when it is full; what it does not hold has been indexed by now. *)
ChunkCovers(c) ==
  \A s \in Sources :
    s[1] = c.at =>
      \/ InIndex(s)
      \/ \E r \in c.read : r[1] = s
      \/ Cardinality(c.read) >= BatchSize /\ \A r \in c.read : r[1][2] < s[2]

(* Why: the job's payload and every worker's copy of it have left behind only
   what is in the index, and a row stays in the index once it is there; a worker
   that acknowledges is through, whether or not it still holds the lease. *)
RebuildFacts ==
  /\ rebuild.state = "succeeded" => \A s \in Sources : InIndex(s)
  /\ \A s \in Sources : LeftBehind(s, rebuild.at, rebuild.after) => InIndex(s)
  /\ \A w \in Indexers :
       /\ chunk[w].pc # "idle" =>
            \A s \in Sources : LeftBehind(s, chunk[w].at, chunk[w].after) => InIndex(s)
       /\ chunk[w].pc = "ack" => chunk[w].at = "done"
       /\ chunk[w].pc = "index" =>
            /\ ChunkCovers(chunk[w])
            /\ IsFiniteSet(chunk[w].read)
            /\ \A r \in chunk[w].read : r[1][1] = chunk[w].at

(* Once the rebuild has succeeded every row of the history has been indexed,
   although rows come and go while it runs, workers die or lose their lease in
   the middle, and one that lost it may acknowledge the job. *)
IndexComplete ==
  rebuild.state = "succeeded" => \A s \in Sources : Exists(s) => found[s].state # "missing"
=============================================================================
