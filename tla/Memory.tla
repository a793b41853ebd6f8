------------------------------- MODULE Memory -------------------------------
(***************************************************************************)
(* The memory book: what the bots remember about the owner.                *)
(*                                                                         *)
(* A note is a row of memory_documents (what the panel lists, with its     *)
(* revisions) and a row of memory_entries (what a turn's context is built  *)
(* from); MemoryHub keeps a copy of the entry's text in the memory         *)
(* gateway, best effort.  Every database call is a transaction of its own  *)
(* and one step here, so that the tool thread of a running turn ("tool"),  *)
(* a panel request ("panel") and the extraction after a turn ("turn")      *)
(* interleave inside capture, _revise, forget and index_document; the last *)
(* two share the event loop, which only the wait for the rewriting model   *)
(* gives up.                                                               *)
(*                                                                         *)
(* A text is the set of the facts it holds.  The facts of Typed replace    *)
(* one another (facts_contradict: name, city, time zone); the facts of     *)
(* Rules are lines of the section "bans", whose notes are not merged.      *)
(***************************************************************************)
EXTENDS Integers, Sequences, FiniteSets

CONSTANTS Facts, Typed, Rules, MaxDocs, MaxRevisions, MaxCalls, MaxMemExits

ASSUME MemoryAssumption ==
  /\ Typed \subseteq Facts /\ Rules \subseteq Facts
  /\ MaxDocs \in Nat /\ MaxRevisions \in Nat \ {0}
  /\ MaxCalls \in Nat /\ MaxMemExits \in Nat

VARIABLES
  docs,       \* memory_documents: [content, revision, kept], deleted when ~kept
  history,    \* memory_revisions: per document its [revision, content] rows
  entries,    \* memory_entries: [doc, slot, text, live]
  index,      \* the gateway's copy: per entry its text, {} when it has none
  call,       \* what each caller is doing
  bodies,     \* MemoryHub._bodies of the running turn
  forgotten,  \* the notes whose forget returned
  calls,      \* calls begun, at most MaxCalls
  memExits

memVars == <<docs, history, entries, index, call, bodies, forgotten, calls, memExits>>

MemCallers == {"tool", "panel", "turn"}
OnLoop == {"panel", "turn"}
Texts == SUBSET Facts
Quiet == [pc |-> "idle", op |-> "none", fact |-> {}, doc |-> 0, entry |-> 0,
          base |-> 0, todo |-> {}]

MemoryInit ==
  /\ docs = <<>> /\ history = <<>> /\ entries = <<>> /\ index = <<>>
  /\ call = [c \in MemCallers |-> Quiet]
  /\ bodies = {} /\ forgotten = {} /\ calls = 0 /\ memExits = 0

Slot(text) == IF text \subseteq Rules THEN "bans" ELSE "identity"

(* facts_contradict and scripted_rewrite: the incoming fact replaces the
   facts of its kind and joins the others. *)
Clash(text, incoming) ==
  \E old \in text \cap Typed, new \in incoming \cap Typed : old # new
Rewrite(text, incoming) ==
  {f \in text : ~Clash({f}, incoming)} \cup incoming

LiveEntries == {e \in DOMAIN entries : entries[e].live}
BySlot(slot) == {e \in LiveEntries : entries[e].slot = slot}
ByDocument(d) == {e \in LiveEntries : entries[e].doc = d}
Newest(found) == CHOOSE e \in found : \A x \in found : x <= e

(* _same_memory_fact: what is said is said already, whatever the words. *)
SameFact(text, fact) == fact \subseteq text

(* context_for_turn: the books, which are the live entries and the documents
   that have none (_orphan_documents).  The gateway only adds work notes. *)
ContextForTurn ==
  {[doc |-> entries[e].doc, text |-> entries[e].text] : e \in LiveEntries} \cup
  {[doc |-> d, text |-> docs[d].content] :
     d \in {k \in DOMAIN docs : docs[k].kept /\ ByDocument(k) = {}}}

(* The caller may take its next step: the loop runs one handler at a time. *)
Turn(c) ==
  c \in OnLoop => \A o \in OnLoop \ {c} : call[o].pc \in {"idle", "awaiting"}

CallAt(c, pc) == Turn(c) /\ call[c].pc = pc
Begins(c, rec) ==
  /\ call[c].pc = "idle" /\ Turn(c)
  /\ calls < MaxCalls /\ calls' = calls + 1
  /\ call' = [call EXCEPT ![c] = rec]
Goes(c, rec) == call' = [call EXCEPT ![c] = rec]
Moves(c, pc) == Goes(c, [call[c] EXCEPT !.pc = pc])
Raises(c) == Goes(c, Quiet)

(* A capture that ended: the extraction after a turn goes on to rewrite. *)
Returns(c) ==
  IF call[c].op = "extract" THEN Goes(c, [Quiet EXCEPT !.pc = "section", !.op = "rewrite",
                                                   !.fact = call[c].fact])
  ELSE Goes(c, Quiet)

(* _mark_capture: the run's facts, which a second capture returns on. *)
Marked(c) == IF call[c].op \in {"remember", "extract"}
             THEN bodies' = bodies \cup call[c].fact ELSE UNCHANGED bodies

----------------------------------------------------------------------------
(* The callers. *)

(* _exec_remember in the turn's tool thread, and extract_after_turn when the
   turn completed: capture, up to its first look at what is saved. *)
Capture(c, f) ==
  /\ c \in {"tool", "turn"}
  /\ Begins(c, [Quiet EXCEPT !.pc = IF f \in bodies THEN "captured" ELSE "same",
                           !.op = IF c = "tool" THEN "remember" ELSE "extract",
                           !.fact = {f}])
  /\ UNCHANGED <<docs, history, entries, index, bodies, forgotten, memExits>>

(* A fact the run has already saved: nothing but the mark. *)
AlreadyCaptured(c) ==
  /\ CallAt(c, "captured")
  /\ Marked(c) /\ Returns(c)
  /\ UNCHANGED <<docs, history, entries, index, forgotten, calls, memExits>>

(* list_live_memory_entries: a note that says it already is enough, unless the
   rewrite of that note would drop a fact of the same kind. *)
LookSame(c) ==
  LET same == {e \in LiveEntries : SameFact(entries[e].text, call[c].fact)}
      e == Newest(same)
  IN /\ CallAt(c, "same")
     /\ \/ /\ same = {} /\ Moves(c, "slot") /\ UNCHANGED bodies
        \/ /\ same # {} /\ Rewrite(entries[e].text, call[c].fact) = entries[e].text
           /\ Marked(c) /\ Returns(c)
        \/ /\ same # {} /\ Rewrite(entries[e].text, call[c].fact) # entries[e].text
           /\ Goes(c, [call[c] EXCEPT !.pc = "revision", !.entry = e,
                         !.doc = entries[e].doc,
                         !.todo = Rewrite(entries[e].text, call[c].fact)])
           /\ UNCHANGED bodies
     /\ UNCHANGED <<docs, history, entries, index, forgotten, calls, memExits>>

(* find_live_memory_entry_by_slot: the section's note is rewritten with the
   fact; a section without one, or "bans" without a clash, gets a new note. *)
LookSlot(c) ==
  LET found == BySlot(Slot(call[c].fact))
      e == Newest(found)
      merges == found # {} /\ (Clash(entries[e].text, call[c].fact) \/ Slot(call[c].fact) # "bans")
      merged == Rewrite(entries[e].text, call[c].fact)
  IN /\ CallAt(c, "slot")
     /\ \/ /\ merges /\ merged # entries[e].text
           /\ Goes(c, [call[c] EXCEPT !.pc = "revision", !.entry = e,
                         !.doc = entries[e].doc, !.todo = merged])
           /\ UNCHANGED bodies
        \/ merges /\ merged = entries[e].text /\ Marked(c) /\ Returns(c)
        \/ /\ ~merges /\ UNCHANGED bodies
           /\ Goes(c, [call[c] EXCEPT !.pc = "create", !.todo = call[c].fact])
     /\ UNCHANGED <<docs, history, entries, index, forgotten, calls, memExits>>

(* The panel writes a note, edits one or deletes one. *)
PanelCreates(f) ==
  /\ Begins("panel", [Quiet EXCEPT !.pc = "create", !.op = "note", !.fact = {f}, !.todo = {f}])
  /\ UNCHANGED <<docs, history, entries, index, bodies, forgotten, memExits>>

PanelEdits(d, f) ==
  /\ Begins("panel", [Quiet EXCEPT !.pc = "revision", !.op = "edit", !.doc = d, !.todo = {f}])
  /\ UNCHANGED <<docs, history, entries, index, bodies, forgotten, memExits>>

(* remove_document reads the note's entry before it deletes. *)
PanelDeletes(d) ==
  /\ Begins("panel", [Quiet EXCEPT !.pc = "delete", !.op = "delete", !.doc = d,
                      !.entry = IF ByDocument(d) = {} THEN 0 ELSE Newest(ByDocument(d))])
  /\ UNCHANGED <<docs, history, entries, index, bodies, forgotten, memExits>>

(* forget: the live notes that match, then each in turn. *)
Forget(c, f) ==
  /\ c \in {"tool", "turn"}
  /\ Begins(c, [Quiet EXCEPT !.pc = "supersede", !.op = "forget", !.fact = {f},
                !.todo = {e \in LiveEntries : f \in entries[e].text}])
  /\ UNCHANGED <<docs, history, entries, index, bodies, forgotten, memExits>>

----------------------------------------------------------------------------
(* The database calls. *)

(* create_memory: the document and its first revision. *)
CreateDocument(c) ==
  /\ CallAt(c, "create") /\ Len(docs) < MaxDocs
  /\ docs' = Append(docs, [content |-> call[c].todo, revision |-> 1, kept |-> TRUE])
  /\ history' = Append(history, <<[revision |-> 1, content |-> call[c].todo]>>)
  /\ Goes(c, [call[c] EXCEPT !.pc = "attach", !.doc = Len(docs) + 1])
  /\ UNCHANGED <<entries, index, bodies, forgotten, calls, memExits>>

(* The entry of the document, by create_memory_entry or attach_memory_entry.
   The foreign key refuses it when the document is gone. *)
AttachEntry(c) ==
  /\ CallAt(c, "attach")
  /\ \/ /\ docs[call[c].doc].kept
        /\ entries' = Append(entries, [doc |-> call[c].doc, slot |-> Slot(call[c].todo),
                                       text |-> call[c].todo, live |-> TRUE])
        /\ index' = Append(index, {})
        /\ Goes(c, [call[c] EXCEPT !.pc = "capture", !.entry = Len(entries) + 1])
     \/ /\ ~docs[call[c].doc].kept /\ Raises(c) /\ UNCHANGED <<entries, index>>
  /\ UNCHANGED <<docs, history, bodies, forgotten, calls, memExits>>

(* update_memory reads the revision it will follow. *)
ReadRevision(c) ==
  LET d == call[c].doc
  IN /\ CallAt(c, "revision")
     /\ \/ docs[d].kept /\ Goes(c, [call[c] EXCEPT !.pc = "update", !.base = docs[d].revision])
        \/ ~docs[d].kept /\ call[c].op = "edit" /\ Raises(c)
        \/ ~docs[d].kept /\ call[c].op # "edit" /\ Moves(c, "refind")
     /\ UNCHANGED <<docs, history, entries, index, bodies, forgotten, calls, memExits>>

(* UNIQUE (document_id, revision), and the revision's foreign key. *)
RevisionTaken(d, n) == docs[d].kept

RevisionFree(d, n) == docs[d].kept /\ \A i \in DOMAIN history[d] : history[d][i].revision # n

(* The content and the new revision in one transaction, which fails when
   somebody else wrote that revision or deleted the document. *)
UpdateDocument(c) ==
  LET d == call[c].doc
      n == call[c].base + 1
  IN /\ CallAt(c, "update") /\ n <= MaxRevisions
     /\ \/ /\ RevisionFree(d, n)
           /\ docs' = [docs EXCEPT ![d].content = call[c].todo, ![d].revision = n]
           /\ history' = [history EXCEPT ![d] =
                            Append(@, [revision |-> n, content |-> call[c].todo])]
           /\ Moves(c, "linked")
        \/ ~RevisionFree(d, n) /\ Raises(c) /\ UNCHANGED <<docs, history>>
     /\ UNCHANGED <<entries, index, bodies, forgotten, calls, memExits>>

(* The document's live entry gets the text too. *)
UpdateLinked(c) ==
  LET linked == ByDocument(call[c].doc)
  IN /\ CallAt(c, "linked")
     /\ entries' = IF linked = {} THEN entries
                   ELSE [entries EXCEPT ![Newest(linked)].text = call[c].todo]
     /\ Moves(c, "refind")
     /\ UNCHANGED <<docs, history, index, bodies, forgotten, calls, memExits>>

(* _revise looks the entry up again.  Where there is none, it writes the row
   it started from, which may be superseded by now. *)
Refind(c) ==
  LET linked == ByDocument(call[c].doc)
  IN /\ CallAt(c, "refind") /\ call[c].op # "edit"
     /\ \/ /\ linked # {}
           /\ Goes(c, [call[c] EXCEPT !.pc = "capture", !.entry = Newest(linked)])
           /\ UNCHANGED entries
        \/ /\ linked = {}
           /\ entries' = [entries EXCEPT ![call[c].entry].text = call[c].todo]
           /\ Moves(c, "capture")
     /\ UNCHANGED <<docs, history, index, bodies, forgotten, calls, memExits>>

(* index_document after the panel's edit: the note's entry gets the text, and
   a note without one an entry. *)
IndexDocument(c) ==
  LET linked == ByDocument(call[c].doc)
  IN /\ CallAt(c, "refind") /\ call[c].op = "edit"
     /\ \/ /\ linked # {}
           /\ Goes(c, [call[c] EXCEPT !.pc = "capture", !.entry = Newest(linked)])
           /\ entries' = [entries EXCEPT ![Newest(linked)].text = call[c].todo]
        \/ linked = {} /\ Moves(c, "attach") /\ UNCHANGED entries
     /\ UNCHANGED <<docs, history, index, bodies, forgotten, calls, memExits>>

(* The gateway's process keeps one text per entry, or is unavailable. *)
Indexed(e, text) == index' \in {index, [index EXCEPT ![e] = text]}

(* gateway.capture: the entry's text, unless the gateway is unavailable. *)
GatewayCapture(c) ==
  LET e == call[c].entry
  IN /\ CallAt(c, "capture")
     /\ Indexed(e, entries[e].text)
     /\ Marked(c) /\ Returns(c)
     /\ UNCHANGED <<docs, history, entries, forgotten, calls, memExits>>

(* supersede_memory_entry, first transaction: a row somebody else ended is
   skipped, and its gateway copy deleted all the same. *)
Supersede(c) ==
  \E e \in call[c].todo :
    /\ CallAt(c, "supersede")
    /\ entries' = [entries EXCEPT ![e].live = FALSE]
    /\ Goes(c, [call[c] EXCEPT !.pc = IF entries[e].live THEN "delete" ELSE "ended",
                               !.entry = e, !.doc = entries[e].doc])
    /\ UNCHANGED <<docs, history, index, bodies, forgotten, calls, memExits>>

ForgetEnds(c) ==
  /\ CallAt(c, "supersede") /\ call[c].todo = {}
  /\ IF c = "turn" THEN Goes(c, [Quiet EXCEPT !.pc = "section", !.op = "rewrite"]) ELSE Raises(c)
  /\ UNCHANGED <<docs, history, entries, index, bodies, forgotten, calls, memExits>>

DeleteSkipped(c) ==
  /\ CallAt(c, "delete")
  /\ Moves(c, "unindex")
  /\ UNCHANGED <<docs, history, entries, index, bodies, forgotten, calls, memExits>>

(* delete_memory: the document's live entries and the document. *)
DeleteDocument(c) ==
  LET d == call[c].doc
  IN /\ CallAt(c, "delete")
     /\ entries' = [e \in DOMAIN entries |->
                      IF entries[e].doc = d THEN [entries[e] EXCEPT !.live = FALSE] ELSE entries[e]]
     /\ docs' = [docs EXCEPT ![d].kept = FALSE]
     /\ Moves(c, "unindex")
     /\ UNCHANGED <<history, index, bodies, forgotten, calls, memExits>>

(* gateway.delete, and forget goes on to its next note. *)
GatewayDelete(c) ==
  LET e == call[c].entry
  IN /\ CallAt(c, "unindex") \/ CallAt(c, "ended")
     /\ index' \in {index} \cup (IF e = 0 THEN {} ELSE {[index EXCEPT ![e] = {}]})
     /\ forgotten' = IF call[c].pc = "unindex" THEN forgotten \cup {call[c].doc} ELSE forgotten
     /\ IF call[c].op = "forget"
        THEN Goes(c, [call[c] EXCEPT !.pc = "supersede", !.todo = @ \ {e}])
        ELSE Goes(c, Quiet)
     /\ UNCHANGED <<docs, history, entries, bodies, calls, memExits>>

----------------------------------------------------------------------------
(* revise_after_turn: the section's note as it is now goes to the model; the
   answer is written over whatever the note says when it comes. *)
ReadSection ==
  \E slot \in {"bans", "identity"} :
    /\ CallAt("turn", "section") /\ BySlot(slot) # {}
    /\ Goes("turn", [call["turn"] EXCEPT !.pc = "awaiting", !.entry = Newest(BySlot(slot)),
                       !.doc = entries[Newest(BySlot(slot))].doc,
                       !.todo = entries[Newest(BySlot(slot))].text])
    /\ UNCHANGED <<docs, history, entries, index, bodies, forgotten, calls, memExits>>

NoRewrite ==
  /\ CallAt("turn", "section") \/ CallAt("turn", "awaiting")
  /\ Goes("turn", Quiet)
  /\ UNCHANGED <<docs, history, entries, index, bodies, forgotten, calls, memExits>>

Rewritten(text) ==
  /\ CallAt("turn", "awaiting") /\ text \notin {{}, call["turn"].todo}
  /\ Goes("turn", [call["turn"] EXCEPT !.pc = "revision", !.todo = text])
  /\ UNCHANGED <<docs, history, entries, index, bodies, forgotten, calls, memExits>>

(* The next run of the bot has no captured facts yet. *)
NextRun ==
  /\ call["tool"].pc = "idle" /\ call["turn"].pc = "idle" /\ bodies # {}
  /\ bodies' = {}
  /\ UNCHANGED <<docs, history, entries, index, call, forgotten, calls, memExits>>

(* The process exits: the calls are lost where they are. *)
MemoryExits ==
  /\ memExits < MaxMemExits
  /\ memExits' = memExits + 1
  /\ call' = [c \in MemCallers |-> Quiet]
  /\ bodies' = {}
  /\ UNCHANGED <<docs, history, entries, index, forgotten, calls>>

MemoryNext ==
  \/ \E c \in MemCallers :
       \/ \E f \in Facts : Capture(c, f) \/ Forget(c, f)
       \/ AlreadyCaptured(c) \/ LookSame(c) \/ LookSlot(c)
       \/ CreateDocument(c) \/ AttachEntry(c)
       \/ ReadRevision(c) \/ UpdateDocument(c) \/ UpdateLinked(c) \/ Refind(c) \/ IndexDocument(c)
       \/ GatewayCapture(c) \/ Supersede(c) \/ ForgetEnds(c)
       \/ DeleteDocument(c) \/ GatewayDelete(c)
  \/ \E f \in Facts : PanelCreates(f) \/ \E d \in DOMAIN docs : PanelEdits(d, f)
  \/ \E d \in DOMAIN docs : PanelDeletes(d)
  \/ ReadSection \/ NoRewrite \/ \E text \in Texts : Rewritten(text)
  \/ NextRun \/ MemoryExits

MemorySpec == MemoryInit /\ [][MemoryNext]_memVars

----------------------------------------------------------------------------
MemoryTypeOK ==
  /\ docs \in Seq([content : Texts, revision : 1..MaxRevisions, kept : BOOLEAN])
  /\ history \in Seq(Seq([revision : Nat, content : Texts])) /\ Len(history) = Len(docs)
  /\ entries \in Seq([doc : Nat, slot : {"bans", "identity"}, text : Texts, live : BOOLEAN])
  /\ \A e \in DOMAIN entries : entries[e].doc \in DOMAIN docs
  /\ index \in Seq(Texts) /\ Len(index) = Len(entries)
  /\ call \in [MemCallers ->
       [pc : {"idle", "captured", "same", "slot", "revision", "update", "linked", "refind",
              "create", "attach", "capture", "supersede", "delete", "unindex", "ended",
              "section", "awaiting"},
        op : {"none", "remember", "extract", "note", "edit", "delete", "forget", "rewrite"},
        fact : Texts, doc : Nat, entry : Nat, base : Nat,
        todo : Texts \cup SUBSET Nat]]
  /\ bodies \in Texts /\ forgotten \subseteq DOMAIN docs
  /\ calls \in 0..MaxCalls /\ memExits \in 0..MaxMemExits

(* What a caller has found and still relies on: its document, the text it will
   write or the entries it will end, the revision it follows; a document it has
   deleted stays deleted. *)
CallFits(x) ==
  /\ x.pc \in {"revision", "update", "linked", "refind", "attach", "delete", "unindex", "awaiting"}
       => x.doc \in DOMAIN docs
  /\ x.pc \in {"revision", "update", "linked", "refind", "create", "attach"} => x.todo \in Texts
  /\ x.pc = "supersede" => x.op = "forget"
  /\ x.op = "forget" => /\ x.todo \subseteq DOMAIN entries
                        /\ x.pc \in {"supersede", "delete", "unindex", "ended"}
  /\ x.pc = "update" => x.base \in 1..docs[x.doc].revision
  /\ x.pc = "unindex" => ~docs[x.doc].kept

(* Why: a live entry has its document (the foreign key, and the delete that
   takes both), so that a note that is gone is gone from the books. *)
BookFacts ==
  /\ \A c \in MemCallers : CallFits(call[c])
  /\ \A e \in LiveEntries : docs[entries[e].doc].kept
  /\ \A d \in forgotten : ~docs[d].kept

(* A note's revisions are numbered 1, 2, ... without a gap or a repetition and
   the note says what the last of them says: of a tool thread, a panel edit and
   a turn's rewrite that all read the same revision, one commits and the others
   fail, whatever order their transactions take (UNIQUE (document_id, revision)
   of memory_revisions, which update_memory inserts into). *)
RevisionHistory ==
  \A d \in DOMAIN docs :
    /\ \A i \in DOMAIN history[d] : history[d][i].revision = i
    /\ docs[d].revision = Len(history[d])
    /\ docs[d].content = history[d][Len(history[d])].content

(* A note that a forget or a deletion finished with is out of the owner's
   books for good, whichever caller was in the middle of rewriting it:
   context_for_turn shows it to no later turn, as an entry or as a document
   left behind without one. *)
ForgottenLeavesBooks ==
  \A shown \in ContextForTurn : shown.doc \notin forgotten
=============================================================================
