------------------------------ MODULE Uploads -------------------------------
(***************************************************************************)
(* Files the owner attaches: the host keeps each as an artifact, a row and *)
(* a file of its own, and copies it into inbox/ of the bot's home, which   *)
(* the bots of the Team computer share.  All files here bear one name, so  *)
(* that a copy is placed at the name itself, at name-2, and so on.         *)
(*                                                                         *)
(* ingest_uploads and remove_bot run to their end on the event loop; the   *)
(* process may exit between their steps, and a tool thread may write.      *)
(***************************************************************************)
EXTENDS Integers, Sequences

CONSTANTS UploadBots, Sizes, MaxArtifacts, MaxCopies, MaxUploadExits

ASSUME UploadsAssumption == MaxArtifacts \in Nat /\ MaxCopies \in Nat \ {0} /\ MaxUploadExits \in Nat

VARIABLES
  chats,      \* bots that have not been deleted
  artifacts,  \* by id: [bot, size, file, row]
  inbox,      \* by place: whose copy, of which size
  notes,      \* per artifact the place its .inbox note names, 0 without one
  ingest,     \* the handler at work: [pc, bot, art, copy, place]
  uploadExits

uploadVars == <<chats, artifacts, inbox, notes, ingest, uploadExits>>

Places == 1..MaxCopies
Empty == [by |-> "none", size |-> 0]
NoIngest == [pc |-> "idle", bot |-> "none", art |-> 0, copy |-> FALSE, place |-> 0]

UploadsInit ==
  /\ chats = UploadBots /\ artifacts = <<>> /\ notes = <<>>
  /\ inbox = [p \in Places |-> Empty]
  /\ ingest = NoIngest /\ uploadExits = 0

At(pc) == ingest.pc = pc
IngestGoes(pc) == ingest' = [ingest EXCEPT !.pc = pc]

----------------------------------------------------------------------------
(* Mutant of WriteArtifact: the row before the file. *)
RowFirst(b, size, copy) ==
  /\ At("idle") /\ b \in chats /\ Len(artifacts) < MaxArtifacts
  /\ artifacts' = Append(artifacts, [bot |-> b, size |-> size, file |-> FALSE, row |-> TRUE])
  /\ notes' = Append(notes, 0)
  /\ ingest' = [NoIngest EXCEPT !.pc = "row", !.bot = b, !.art = Len(artifacts) + 1,
                                !.copy = copy]
  /\ UNCHANGED <<chats, inbox, uploadExits>>

(* A new file, sent with a message or only uploaded: stored.write_bytes. *)
WriteArtifact(b, size, copy) ==
  /\ At("idle") /\ b \in chats /\ Len(artifacts) < MaxArtifacts
  /\ artifacts' = Append(artifacts, [bot |-> b, size |-> size, file |-> TRUE, row |-> FALSE])
  /\ notes' = Append(notes, 0)
  /\ ingest' = [NoIngest EXCEPT !.pc = "row", !.bot = b, !.art = Len(artifacts) + 1,
                                !.copy = copy]
  /\ UNCHANGED <<chats, inbox, uploadExits>>

(* save_artifact; the database may be unavailable. *)
SaveArtifact ==
  /\ At("row")
  /\ \/ /\ artifacts' = [artifacts EXCEPT ![ingest.art].row = TRUE]
        /\ IF ingest.copy THEN IngestGoes("place") ELSE ingest' = NoIngest
     \/ UNCHANGED artifacts /\ ingest' = NoIngest
  /\ UNCHANGED <<chats, inbox, notes, uploadExits>>

(* An artifact of this bot sent once more. *)
LoadExisting(b, a) ==
  /\ At("idle") /\ b \in chats
  /\ artifacts[a].bot = b /\ artifacts[a].row /\ artifacts[a].file
  /\ ingest' = [NoIngest EXCEPT !.pc = "place", !.bot = b, !.art = a]
  /\ UNCHANGED <<chats, artifacts, inbox, notes, uploadExits>>

(* unique_inbox_path: the first name that is free.  Bound: MaxCopies names. *)
UniqueInboxPath == {p \in Places : inbox[p] = Empty /\ \A q \in 1..(p - 1) : inbox[q] # Empty}

PlaceInInbox ==
  \E p \in UniqueInboxPath :
    /\ At("place")
    /\ inbox' = [inbox EXCEPT ![p] = [by |-> ingest.bot, size |-> artifacts[ingest.art].size]]
    /\ ingest' = [ingest EXCEPT !.pc = "note", !.place = p]
    /\ UNCHANGED <<chats, artifacts, notes, uploadExits>>

(* remember_inbox_copy: one note per artifact, written over. *)
RememberInboxCopy ==
  /\ At("note")
  /\ notes' = [notes EXCEPT ![ingest.art] = ingest.place]
  /\ ingest' = NoIngest
  /\ UNCHANGED <<chats, artifacts, inbox, uploadExits>>

(* read_owner_file in a tool thread writes to the name, whatever is there. *)
ReadOwnerFile(b, size) ==
  /\ b \in chats /\ inbox[1] # [by |-> b, size |-> size]
  /\ inbox' = [inbox EXCEPT ![1] = [by |-> b, size |-> size]]
  /\ UNCHANGED <<chats, artifacts, notes, ingest, uploadExits>>

----------------------------------------------------------------------------
(* remove_bot: the copies that notes name, and what stands at the name of a
   listed artifact with that artifact's size; then the computer; the rows; the
   artifacts' directory.  An error in the first two is logged. *)
Noted(b) == {notes[a] : a \in {k \in DOMAIN artifacts : artifacts[k].bot = b}} \ {0}
Listed(b) ==
  IF \E a \in DOMAIN artifacts :
       artifacts[a].bot = b /\ artifacts[a].row /\ artifacts[a].size = inbox[1].size
  THEN {1} ELSE {}

RemoveInboxCopies(b) ==
  /\ At("idle") /\ b \in chats
  /\ \/ inbox' = [p \in Places |-> IF p \in Noted(b) \cup Listed(b) THEN Empty ELSE inbox[p]]
     \/ UNCHANGED inbox
  /\ ingest' = [NoIngest EXCEPT !.pc = "release", !.bot = b]
  /\ UNCHANGED <<chats, artifacts, notes, uploadExits>>

(* The Team home goes with its last bot. *)
ReleaseHome ==
  /\ At("release")
  /\ inbox' = IF chats = {ingest.bot} THEN [p \in Places |-> Empty] ELSE inbox
  /\ IngestGoes("rows")
  /\ UNCHANGED <<chats, artifacts, notes, uploadExits>>

(* delete_bot: the artifacts' rows go with the bot's. *)
DeleteRows ==
  /\ At("rows")
  /\ chats' = chats \ {ingest.bot}
  /\ artifacts' = [a \in DOMAIN artifacts |->
                     IF artifacts[a].bot = ingest.bot THEN [artifacts[a] EXCEPT !.row = FALSE]
                     ELSE artifacts[a]]
  /\ IngestGoes("files")
  /\ UNCHANGED <<inbox, notes, uploadExits>>

RemoveArtifacts ==
  /\ At("files")
  /\ artifacts' = [a \in DOMAIN artifacts |->
                     IF artifacts[a].bot = ingest.bot THEN [artifacts[a] EXCEPT !.file = FALSE]
                     ELSE artifacts[a]]
  /\ notes' = [a \in DOMAIN artifacts |-> IF artifacts[a].bot = ingest.bot THEN 0 ELSE notes[a]]
  /\ ingest' = NoIngest
  /\ UNCHANGED <<chats, inbox, uploadExits>>

(* The process exits in the middle of a handler. *)
UploadsExit ==
  /\ ~At("idle") /\ uploadExits < MaxUploadExits
  /\ uploadExits' = uploadExits + 1
  /\ ingest' = NoIngest
  /\ UNCHANGED <<chats, artifacts, inbox, notes>>

UploadsNext ==
  \/ \E b \in UploadBots :
       \/ \E size \in Sizes : ReadOwnerFile(b, size) \/ \E copy \in BOOLEAN : WriteArtifact(b, size, copy)
       \/ \E a \in DOMAIN artifacts : LoadExisting(b, a)
       \/ RemoveInboxCopies(b)
  \/ SaveArtifact \/ PlaceInInbox \/ RememberInboxCopy
  \/ ReleaseHome \/ DeleteRows \/ RemoveArtifacts \/ UploadsExit

UploadsSpec == UploadsInit /\ [][UploadsNext]_uploadVars

----------------------------------------------------------------------------
UploadsTypeOK ==
  /\ chats \subseteq UploadBots
  /\ \A a \in DOMAIN artifacts : artifacts[a] \in
       [bot : UploadBots, size : Sizes, file : BOOLEAN, row : BOOLEAN]
  /\ inbox \in [Places -> {Empty} \cup [by : UploadBots, size : Sizes]]
  /\ DOMAIN notes = DOMAIN artifacts /\ \A a \in DOMAIN notes : notes[a] \in {0} \cup Places

(* What the chat lists can be downloaded: no artifact's row is without its
   file, although the process may exit between any two steps of an upload, of
   a message with files, or of a chat's deletion. *)
ListedHasFile == \A a \in DOMAIN artifacts : artifacts[a].row => artifacts[a].file

(* README: "Deleting the chat removes that chat's inbox copies; a shared Team
   home and other bots' files stay." *)
OthersFilesStay ==
  [][\A b \in UploadBots, p \in Places :
       At("idle") /\ ingest'.pc = "release" /\ inbox[p].by = b /\ ingest'.bot # b
         => inbox'[p] = inbox[p]]_uploadVars
=============================================================================
