----------------------------- MODULE DataProofs -----------------------------
(***************************************************************************)
(* For any notes, sources, events and clients: every revision of a memory  *)
(* note can be found as it was, and what is forgotten leaves the books; a  *)
(* search rebuild that has ended leaves no row out of the index; and the   *)
(* reader of a thread gets what Feed promises, across broken streams and   *)
(* exits of the host.                                                      *)
(*                                                                         *)
(* Each part has an inductive invariant (its types and its ...Facts), one  *)
(* lemma per group of actions that they keep it, and theorems about the    *)
(* specification of the part.                                              *)
(***************************************************************************)
EXTENDS Memory, Search, Events, FiniteSetTheorems, SequenceTheorems, WellFoundedInduction, TLAPS

(***************************************************************************)
(* The memory book.                                                        *)
(***************************************************************************)

DocState == [content : Texts, revision : 1..MaxRevisions, kept : BOOLEAN]
RevisionRow == [revision : Nat, content : Texts]
EntryState == [doc : Nat, slot : {"bans", "identity"}, text : Texts, live : BOOLEAN]
CallState ==
  [pc : {"idle", "captured", "same", "slot", "revision", "update", "linked", "refind",
         "create", "attach", "capture", "supersede", "delete", "unindex", "ended",
         "section", "awaiting"},
   op : {"none", "remember", "extract", "note", "edit", "delete", "forget", "rewrite"},
   fact : Texts, doc : Nat, entry : Nat, base : Nat, todo : Texts \cup SUBSET Nat]

MemInv == MemoryTypeOK /\ BookFacts /\ RevisionHistory

(* CallFits, of the documents and entries a step leaves. *)
FitsIn(x, ds, es) ==
  /\ x.pc \in {"revision", "update", "linked", "refind", "attach", "delete", "unindex", "awaiting"}
       => x.doc \in DOMAIN ds
  /\ x.pc \in {"revision", "update", "linked", "refind", "create", "attach"} => x.todo \in Texts
  /\ x.pc = "supersede" => x.op = "forget"
  /\ x.op = "forget" => /\ x.todo \subseteq DOMAIN es
                        /\ x.pc \in {"supersede", "delete", "unindex", "ended"}
  /\ x.pc = "update" => x.base \in 1..ds[x.doc].revision
  /\ x.pc = "unindex" => ~ds[x.doc].kept

(* The parts of the state, one at a time. *)
LEMMA MemTypes ==
  ASSUME MemInv
  PROVE  /\ docs \in Seq(DocState) /\ Len(docs) \in Nat
         /\ history \in Seq(Seq(RevisionRow)) /\ DOMAIN history = DOMAIN docs
         /\ Len(history) = Len(docs)
         /\ entries \in Seq(EntryState) /\ Len(entries) \in Nat
         /\ index \in Seq(Texts) /\ DOMAIN index = DOMAIN entries
         /\ Len(index) = Len(entries)
         /\ call \in [MemCallers -> CallState]
         /\ bodies \in Texts /\ forgotten \subseteq DOMAIN docs
         /\ calls \in 0..MaxCalls /\ memExits \in 0..MaxMemExits
         /\ DOMAIN docs \subseteq Nat \ {0} /\ DOMAIN entries \subseteq Nat \ {0}
<1>1. /\ docs \in Seq(DocState) /\ history \in Seq(Seq(RevisionRow)) /\ entries \in Seq(EntryState)
      /\ index \in Seq(Texts) /\ Len(history) = Len(docs) /\ Len(index) = Len(entries)
      /\ call \in [MemCallers -> CallState]
      /\ bodies \in Texts /\ forgotten \subseteq DOMAIN docs
      /\ calls \in 0..MaxCalls /\ memExits \in 0..MaxMemExits
  BY DEF MemInv, MemoryTypeOK, DocState, RevisionRow, EntryState, CallState
<1> QED BY <1>1

LEMMA RowTypes ==
  ASSUME MemInv
  PROVE  /\ \A d \in DOMAIN docs : docs[d] \in DocState /\ d \in Nat /\ d # 0
         /\ \A d \in DOMAIN docs : history[d] \in Seq(RevisionRow)
         /\ \A e \in DOMAIN entries : /\ entries[e] \in EntryState /\ e \in Nat /\ e # 0
                                      /\ entries[e].doc \in DOMAIN docs /\ entries[e].text \in Texts
                                      /\ index[e] \in Texts
<1>1. /\ \A d \in DOMAIN docs : docs[d] \in DocState /\ d \in Nat /\ d # 0
      /\ \A d \in DOMAIN docs : history[d] \in Seq(RevisionRow)
      /\ \A e \in DOMAIN entries : entries[e] \in EntryState /\ e \in Nat /\ e # 0 /\ index[e] \in Texts
  BY MemTypes
<1>2. \A e \in DOMAIN entries : entries[e].doc \in DOMAIN docs BY DEF MemInv, MemoryTypeOK
<1> QED BY <1>1, <1>2 DEF EntryState

(* The newest of some entries is one of them: what is as far below the last
   entry as any. *)
LEMMA NewestIsMember ==
  ASSUME MemInv, NEW S, S \subseteq DOMAIN entries, S # {}
  PROVE  Newest(S) \in S
<1>1. Len(entries) \in Nat /\ DOMAIN entries = 1..Len(entries) BY MemTypes
<1> DEFINE below == {Len(entries) - e : e \in S}
<1>2. below \subseteq Nat /\ below # {} BY <1>1
<1>3. PICK m \in below : \A k \in below : ~(<<k, m>> \in OpToRel(<, Nat))
  BY <1>2, NatLessThanWellFounded, WFMin
<1>4. PICK e \in S : m = Len(entries) - e BY <1>3
<1>5. ASSUME NEW x \in S PROVE x <= e
<2>1. Len(entries) - x \in below OBVIOUS
<2>2. ~(Len(entries) - x < Len(entries) - e)
  BY <1>2, <1>3, <1>4, <2>1 DEF OpToRel
<2>3. x \in Nat /\ e \in Nat BY <1>1
<2> QED BY <1>1, <2>2, <2>3
<1> QED BY <1>5 DEF Newest

LEMMA LiveAreEntries ==
  /\ LiveEntries \subseteq DOMAIN entries
  /\ \A slot : BySlot(slot) \subseteq DOMAIN entries
  /\ \A d : ByDocument(d) \subseteq DOMAIN entries /\ \A e \in ByDocument(d) : entries[e].doc = d
BY DEF LiveEntries, BySlot, ByDocument

LEMMA RewriteIsText ==
  ASSUME NEW text \in Texts, NEW fact \in Texts
  PROVE  Rewrite(text, fact) \in Texts
BY DEF Rewrite, Texts

LEMMA QuietCall ==
  /\ Quiet \in CallState /\ Quiet.pc = "idle" /\ Quiet.op = "none"
  /\ Quiet.fact = {} /\ Quiet.todo = {} /\ Quiet.doc = 0 /\ Quiet.entry = 0 /\ Quiet.base = 0
BY DEF Quiet, CallState, Texts

(* One caller goes on, and everything it may write is as it was but the copy in
   the gateway. *)
LEMMA CallerMoves ==
  ASSUME MemInv, NEW c \in MemCallers, NEW x \in CallState, CallFits(x),
         call' = [call EXCEPT ![c] = x], UNCHANGED <<docs, history, entries>>,
         index' \in Seq(Texts), Len(index') = Len(index), bodies' \in Texts,
         forgotten' \subseteq DOMAIN docs, \A d \in forgotten' : ~docs[d].kept,
         calls' \in 0..MaxCalls, memExits' = memExits
  PROVE  MemInv'
<1>1. call' \in [MemCallers -> CallState] /\ \A d \in MemCallers : call'[d] \in {x, call[d]}
  BY MemTypes
<1>2. MemoryTypeOK' BY <1>1 DEF MemInv, MemoryTypeOK, CallState
<1>3. \A d \in MemCallers : CallFits(call'[d]) BY <1>1 DEF MemInv, BookFacts
<1>4. \A d \in MemCallers : CallFits(call[d])' BY <1>3 DEF CallFits
<1>5. BookFacts' BY <1>4 DEF MemInv, BookFacts, LiveEntries
<1>6. RevisionHistory' BY DEF MemInv, RevisionHistory
<1> QED BY <1>2, <1>5, <1>6 DEF MemInv

(* The same when nothing but the caller and the run's facts change. *)
LEMMA CallerAlone ==
  ASSUME MemInv, NEW c \in MemCallers, NEW x \in CallState, CallFits(x),
         call' = [call EXCEPT ![c] = x],
         UNCHANGED <<docs, history, entries, index, forgotten, memExits>>,
         bodies' \in Texts, calls' \in 0..MaxCalls
  PROVE  MemInv'
<1>1. /\ index' \in Seq(Texts) /\ Len(index') = Len(index) /\ forgotten' \subseteq DOMAIN docs
      /\ \A d \in forgotten' : ~docs[d].kept
  BY MemTypes DEF MemInv, BookFacts
<1> QED BY <1>1, CallerMoves

(* A capture that ends. *)
LEMMA CaptureEnds ==
  ASSUME MemInv, NEW c \in MemCallers, Returns(c), Marked(c)
  PROVE  /\ bodies' \in Texts
         /\ \E x \in CallState : CallFits(x) /\ call' = [call EXCEPT ![c] = x]
<1>1. call[c] \in CallState /\ bodies \in Texts BY MemTypes
<1>2. bodies' \in Texts BY <1>1 DEF Marked, CallState, Texts
<1> DEFINE y == [Quiet EXCEPT !.pc = "section", !.op = "rewrite", !.fact = call[c].fact]
<1>3. y \in CallState /\ y.pc = "section" /\ y.op = "rewrite" BY <1>1, QuietCall DEF CallState
<1>4. CallFits(y) BY <1>3 DEF CallFits
<1>5. CallFits(Quiet) BY QuietCall DEF CallFits
<1>6. call' = [call EXCEPT ![c] = y] \/ call' = [call EXCEPT ![c] = Quiet]
  BY DEF Returns, Goes
<1> HIDE DEF y
<1> QED BY <1>2, <1>3, <1>4, <1>5, <1>6, QuietCall

(* The calls begin. *)
LEMMA BeginningSteps ==
  ASSUME MemInv, NEW c \in MemCallers, NEW f \in Facts, Capture(c, f) \/ Forget(c, f)
  PROVE  MemInv'
<1>1. calls \in 0..MaxCalls /\ MaxCalls \in Nat /\ bodies \in Texts
  BY MemTypes, MemoryAssumption
<1>2. /\ UNCHANGED <<docs, history, entries, index, bodies, forgotten, memExits>>
      /\ calls < MaxCalls /\ calls' = calls + 1
  BY DEF Capture, Forget, Begins
<1>3. calls' \in 0..MaxCalls BY <1>1, <1>2
<1>4. {f} \in Texts BY DEF Texts
<1>5. CASE Capture(c, f)
<2>1. PICK pc \in {"captured", "same"}, op \in {"remember", "extract"} :
        call' = [call EXCEPT ![c] = [Quiet EXCEPT !.pc = pc, !.op = op, !.fact = {f}]]
  BY <1>5 DEF Capture, Begins
<2> DEFINE x == [Quiet EXCEPT !.pc = pc, !.op = op, !.fact = {f}]
<2>2. x \in CallState /\ x.pc = pc /\ x.op = op BY <1>4, QuietCall DEF CallState
<2>3. CallFits(x) BY <2>2 DEF CallFits
<2>4. call' = [call EXCEPT ![c] = x] BY <2>1
<2> HIDE DEF x
<2> QED BY <1>1, <1>2, <1>3, <2>2, <2>3, <2>4, CallerAlone
<1>6. CASE Forget(c, f)
<2> DEFINE ends == {e \in LiveEntries : f \in entries[e].text}
           x == [Quiet EXCEPT !.pc = "supersede", !.op = "forget", !.fact = {f}, !.todo = ends]
<2>1. ends \subseteq DOMAIN entries /\ ends \in SUBSET Nat BY MemTypes, LiveAreEntries
<2>2. call' = [call EXCEPT ![c] = x] BY <1>6 DEF Forget, Begins
<2> HIDE DEF ends
<2>3. x \in CallState /\ x.pc = "supersede" /\ x.op = "forget" /\ x.todo = ends
  BY <1>4, <2>1, QuietCall DEF CallState
<2>4. CallFits(x) BY <2>1, <2>3 DEF CallFits
<2> HIDE DEF x
<2> QED BY <1>1, <1>2, <1>3, <2>2, <2>3, <2>4, CallerAlone
<1> QED BY <1>5, <1>6

LEMMA PanelBegins ==
  ASSUME MemInv, NEW x \in CallState, CallFits(x), Begins("panel", x),
         UNCHANGED <<docs, history, entries, index, bodies, forgotten, memExits>>
  PROVE  MemInv'
<1>1. calls \in 0..MaxCalls /\ MaxCalls \in Nat /\ bodies \in Texts
  BY MemTypes, MemoryAssumption
<1>2. calls' \in 0..MaxCalls BY <1>1 DEF Begins
<1>3. "panel" \in MemCallers BY DEF MemCallers
<1> QED BY <1>1, <1>2, <1>3, CallerAlone DEF Begins

LEMMA PanelSteps ==
  ASSUME MemInv, NEW f \in Facts
  PROVE  /\ PanelCreates(f) => MemInv'
         /\ \A d \in DOMAIN docs : PanelEdits(d, f) => MemInv'
<1>1. {f} \in Texts BY DEF Texts
<1>2. ASSUME PanelCreates(f) PROVE MemInv'
<2> DEFINE x == [Quiet EXCEPT !.pc = "create", !.op = "note", !.fact = {f}, !.todo = {f}]
<2>1. x \in CallState /\ x.pc = "create" /\ x.op = "note" /\ x.todo = {f}
  BY <1>1, QuietCall DEF CallState
<2>2. CallFits(x) BY <1>1, <2>1 DEF CallFits
<2>3. /\ Begins("panel", x)
      /\ UNCHANGED <<docs, history, entries, index, bodies, forgotten, memExits>>
  BY <1>2 DEF PanelCreates
<2> HIDE DEF x
<2> QED BY <2>1, <2>2, <2>3, PanelBegins
<1>3. ASSUME NEW d \in DOMAIN docs, PanelEdits(d, f) PROVE MemInv'
<2> DEFINE x == [Quiet EXCEPT !.pc = "revision", !.op = "edit", !.doc = d, !.todo = {f}]
<2>1. d \in Nat BY RowTypes
<2>2. x \in CallState /\ x.pc = "revision" /\ x.op = "edit" /\ x.todo = {f} /\ x.doc = d
  BY <1>1, <2>1, QuietCall DEF CallState
<2>3. CallFits(x) BY <1>1, <2>2 DEF CallFits
<2>4. /\ Begins("panel", x)
      /\ UNCHANGED <<docs, history, entries, index, bodies, forgotten, memExits>>
  BY <1>3 DEF PanelEdits
<2> HIDE DEF x
<2> QED BY <2>2, <2>3, <2>4, PanelBegins
<1> QED BY <1>2, <1>3

LEMMA PanelDeletesStep ==
  ASSUME MemInv, NEW d \in DOMAIN docs, PanelDeletes(d)
  PROVE  MemInv'
<1> DEFINE entry == IF ByDocument(d) = {} THEN 0 ELSE Newest(ByDocument(d))
           x == [Quiet EXCEPT !.pc = "delete", !.op = "delete", !.doc = d, !.entry = entry]
<1>1. /\ Begins("panel", x)
      /\ UNCHANGED <<docs, history, entries, index, bodies, forgotten, memExits>>
  BY DEF PanelDeletes
<1>2. entry \in Nat /\ d \in Nat BY NewestIsMember, LiveAreEntries, RowTypes
<1> HIDE DEF entry
<1>3. x \in CallState /\ x.pc = "delete" /\ x.op = "delete" /\ x.doc = d
  BY <1>2, QuietCall DEF CallState
<1>4. CallFits(x) BY <1>3 DEF CallFits
<1> HIDE DEF x
<1> QED BY <1>1, <1>3, <1>4, PanelBegins

(* The looks of a capture. *)
LEMMA LookSteps ==
  ASSUME MemInv, NEW c \in MemCallers, AlreadyCaptured(c) \/ LookSame(c) \/ LookSlot(c)
  PROVE  MemInv'
<1>1. /\ call[c] \in CallState /\ bodies \in Texts /\ calls \in 0..MaxCalls
      /\ call[c].fact \in Texts
  BY MemTypes DEF CallState
<1>2. UNCHANGED <<docs, history, entries, index, forgotten, calls, memExits>>
  BY DEF AlreadyCaptured, LookSame, LookSlot
<1>3. CASE Marked(c) /\ Returns(c) BY <1>1, <1>2, <1>3, CaptureEnds, CallerAlone
<1>4. ASSUME NEW S, S \subseteq DOMAIN entries, S # {}, UNCHANGED bodies,
             Goes(c, [call[c] EXCEPT !.pc = "revision", !.entry = Newest(S),
                        !.doc = entries[Newest(S)].doc,
                        !.todo = Rewrite(entries[Newest(S)].text, call[c].fact)]),
             call[c].pc \in {"same", "slot"}, call[c].op # "forget"
      PROVE  MemInv'
<2> DEFINE e == Newest(S)
           text == Rewrite(entries[e].text, call[c].fact)
           x == [call[c] EXCEPT !.pc = "revision", !.entry = e, !.doc = entries[e].doc,
                                !.todo = text]
<2>1. e \in DOMAIN entries BY <1>4, NewestIsMember
<2>2. /\ e \in Nat /\ entries[e].doc \in DOMAIN docs /\ entries[e].text \in Texts
      /\ entries[e].doc \in Nat
  BY <2>1, RowTypes
<2>3. text \in Texts BY <1>1, <2>2, RewriteIsText
<2>4. call' = [call EXCEPT ![c] = x] BY <1>4 DEF Goes
<2> HIDE DEF e, text
<2>5. x \in CallState /\ x.pc = "revision" /\ x.todo = text /\ x.doc = entries[e].doc
      /\ x.op = call[c].op
  BY <1>1, <2>2, <2>3 DEF CallState
<2>6. CallFits(x) BY <1>4, <2>2, <2>3, <2>5 DEF CallFits
<2> HIDE DEF x
<2> QED BY <1>1, <1>2, <1>4, <2>4, <2>5, <2>6, CallerAlone
<1>5. ASSUME NEW pc \in {"slot", "create"}, NEW todo, todo \in Texts \cup {call[c].todo},
             pc = "create" => todo \in Texts, UNCHANGED bodies,
             Goes(c, [call[c] EXCEPT !.pc = pc, !.todo = todo]), call[c].op # "forget"
      PROVE  MemInv'
<2> DEFINE x == [call[c] EXCEPT !.pc = pc, !.todo = todo]
<2>1. x \in CallState /\ x.pc = pc /\ x.todo = todo /\ x.op = call[c].op
  BY <1>1, <1>5 DEF CallState
<2>2. CallFits(x) BY <1>5, <2>1 DEF CallFits
<2>3. call' = [call EXCEPT ![c] = x] BY <1>5 DEF Goes
<2> HIDE DEF x
<2> QED BY <1>1, <1>2, <1>5, <2>1, <2>2, <2>3, CallerAlone
<1>6. CallFits(call[c]) BY DEF MemInv, BookFacts
<1>7. CASE AlreadyCaptured(c) BY <1>3, <1>7 DEF AlreadyCaptured
<1>8. CASE LookSame(c)
<2> DEFINE same == {e \in LiveEntries : SameFact(entries[e].text, call[c].fact)}
<2>1. same \subseteq DOMAIN entries BY LiveAreEntries
<2>2. call[c].pc = "same" /\ call[c].op # "forget" BY <1>6, <1>8 DEF LookSame, CallAt, CallFits
<2>3. CASE same = {} /\ Moves(c, "slot") /\ UNCHANGED bodies
<3>1. [call[c] EXCEPT !.pc = "slot"] = [call[c] EXCEPT !.pc = "slot", !.todo = call[c].todo]
  BY <1>1 DEF CallState
<3>2. Goes(c, [call[c] EXCEPT !.pc = "slot", !.todo = call[c].todo])
  BY <2>3, <3>1 DEF Moves
<3> QED BY <1>5, <2>2, <2>3, <3>2
<2>4. CASE same # {} /\ UNCHANGED bodies
           /\ Goes(c, [call[c] EXCEPT !.pc = "revision", !.entry = Newest(same),
                         !.doc = entries[Newest(same)].doc,
                         !.todo = Rewrite(entries[Newest(same)].text, call[c].fact)])
<3> HIDE DEF same
<3> QED BY <1>4, <2>1, <2>2, <2>4
<2> QED BY <1>3, <1>8, <2>3, <2>4 DEF LookSame
<1>9. CASE LookSlot(c)
<2> DEFINE bySlot == BySlot(Slot(call[c].fact))
           merges == bySlot # {} /\ (Clash(entries[Newest(bySlot)].text, call[c].fact)
                                     \/ Slot(call[c].fact) # "bans")
<2>1. bySlot \subseteq DOMAIN entries BY LiveAreEntries
<2>2. call[c].pc = "slot" /\ call[c].op # "forget" BY <1>6, <1>9 DEF LookSlot, CallAt, CallFits
<2>3. CASE merges /\ UNCHANGED bodies
           /\ Goes(c, [call[c] EXCEPT !.pc = "revision", !.entry = Newest(bySlot),
                         !.doc = entries[Newest(bySlot)].doc,
                         !.todo = Rewrite(entries[Newest(bySlot)].text, call[c].fact)])
<3>1. bySlot # {} BY <2>3
<3> HIDE DEF bySlot, merges
<3> QED BY <1>4, <2>1, <2>2, <2>3, <3>1
<2>4. CASE UNCHANGED bodies
           /\ Goes(c, [call[c] EXCEPT !.pc = "create", !.todo = call[c].fact])
  BY <1>1, <1>5, <2>2, <2>4
<2> QED BY <1>3, <1>9, <2>3, <2>4 DEF LookSlot
<1> QED BY <1>7, <1>8, <1>9

(* The steps after which a caller goes on with what it has. *)
LEMMA GoingOn ==
  ASSUME MemInv, NEW c \in MemCallers, NEW x \in CallState, CallFits(x), Goes(c, x),
         UNCHANGED <<docs, history, entries, index, bodies, forgotten, calls, memExits>>
  PROVE  MemInv'
BY CallerAlone, MemTypes DEF Goes

LEMMA ReadRevisionStep ==
  ASSUME MemInv, NEW c \in MemCallers, ReadRevision(c)
  PROVE  MemInv'
<1>1. call[c] \in CallState /\ CallFits(call[c]) BY MemTypes DEF MemInv, BookFacts
<1>2. /\ call[c].pc = "revision"
      /\ UNCHANGED <<docs, history, entries, index, bodies, forgotten, calls, memExits>>
  BY DEF ReadRevision, CallAt
<1>3. call[c].doc \in DOMAIN docs /\ call[c].todo \in Texts /\ call[c].op # "forget"
  BY <1>1, <1>2 DEF CallFits
<1>4. CASE Goes(c, [call[c] EXCEPT !.pc = "update", !.base = docs[call[c].doc].revision])
<2> DEFINE x == [call[c] EXCEPT !.pc = "update", !.base = docs[call[c].doc].revision]
<2>1. /\ docs[call[c].doc].revision \in 1..MaxRevisions /\ MaxRevisions \in Nat
      /\ docs[call[c].doc].revision \in Nat
  BY <1>3, RowTypes, MemoryAssumption DEF DocState
<2>2. x \in CallState /\ x.pc = "update" /\ x.base = docs[call[c].doc].revision
      /\ x.doc = call[c].doc /\ x.todo = call[c].todo /\ x.op = call[c].op
  BY <1>1, <2>1 DEF CallState
<2>3. CallFits(x) BY <1>3, <2>1, <2>2 DEF CallFits
<2>4. Goes(c, x) BY <1>4
<2> HIDE DEF x
<2> QED BY <1>2, <2>2, <2>3, <2>4, GoingOn
<1>5. CASE Raises(c)
  BY <1>2, <1>5, QuietCall, GoingOn DEF Raises, CallFits
<1>6. CASE Moves(c, "refind")
<2> DEFINE x == [call[c] EXCEPT !.pc = "refind"]
<2>1. x \in CallState /\ x.pc = "refind" /\ x.doc = call[c].doc /\ x.todo = call[c].todo
      /\ x.op = call[c].op
  BY <1>1 DEF CallState
<2>2. CallFits(x) BY <1>3, <2>1 DEF CallFits
<2>3. Goes(c, x) BY <1>6 DEF Moves
<2> HIDE DEF x
<2> QED BY <1>2, <2>1, <2>2, <2>3, GoingOn
<1> QED BY <1>4, <1>5, <1>6 DEF ReadRevision

LEMMA ForgetEndsStep ==
  ASSUME MemInv, NEW c \in MemCallers, ForgetEnds(c)
  PROVE  MemInv'
<1>1. UNCHANGED <<docs, history, entries, index, bodies, forgotten, calls, memExits>>
  BY DEF ForgetEnds
<1> DEFINE x == [Quiet EXCEPT !.pc = "section", !.op = "rewrite"]
<1>2. x \in CallState /\ x.pc = "section" /\ x.op = "rewrite" BY QuietCall DEF CallState
<1>3. CallFits(x) BY <1>2 DEF CallFits
<1>4. Goes(c, x) \/ Goes(c, Quiet) BY DEF ForgetEnds, Raises
<1>5. CallFits(Quiet) BY QuietCall DEF CallFits
<1> HIDE DEF x
<1> QED BY <1>1, <1>2, <1>3, <1>4, <1>5, QuietCall, GoingOn

LEMMA SectionSteps ==
  ASSUME MemInv, ReadSection \/ NoRewrite \/ \E text \in Texts : Rewritten(text)
  PROVE  MemInv'
<1>1. "turn" \in MemCallers BY DEF MemCallers
<1>2. call["turn"] \in CallState /\ CallFits(call["turn"])
  BY <1>1, MemTypes DEF MemInv, BookFacts
<1>3. UNCHANGED <<docs, history, entries, index, bodies, forgotten, calls, memExits>>
  BY DEF ReadSection, NoRewrite, Rewritten
<1>4. CASE NoRewrite
<2>1. CallFits(Quiet) BY QuietCall DEF CallFits
<2> QED BY <1>1, <1>3, <1>4, <2>1, QuietCall, GoingOn DEF NoRewrite
<1>5. ASSUME NEW slot, BySlot(slot) # {}, call["turn"].pc = "section",
             Goes("turn", [call["turn"] EXCEPT !.pc = "awaiting", !.entry = Newest(BySlot(slot)),
                             !.doc = entries[Newest(BySlot(slot))].doc,
                             !.todo = entries[Newest(BySlot(slot))].text])
      PROVE  MemInv'
<2> DEFINE e == Newest(BySlot(slot))
           x == [call["turn"] EXCEPT !.pc = "awaiting", !.entry = e, !.doc = entries[e].doc,
                                     !.todo = entries[e].text]
<2>1. e \in DOMAIN entries BY <1>5, NewestIsMember, LiveAreEntries
<2>2. /\ e \in Nat /\ entries[e].doc \in DOMAIN docs /\ entries[e].text \in Texts
      /\ entries[e].doc \in Nat
  BY <2>1, RowTypes
<2>3. Goes("turn", x) BY <1>5
<2> HIDE DEF e
<2>4. x \in CallState /\ x.pc = "awaiting" /\ x.doc = entries[e].doc /\ x.op = call["turn"].op
  BY <1>2, <2>2 DEF CallState
<2>5. CallFits(x) BY <1>2, <1>5, <2>2, <2>4 DEF CallFits
<2> HIDE DEF x
<2> QED BY <1>1, <1>3, <2>3, <2>4, <2>5, GoingOn
<1>6. ASSUME NEW text \in Texts, Rewritten(text) PROVE MemInv'
<2> DEFINE x == [call["turn"] EXCEPT !.pc = "revision", !.todo = text]
<2>1. x \in CallState /\ x.pc = "revision" /\ x.todo = text /\ x.doc = call["turn"].doc
      /\ x.op = call["turn"].op
  BY <1>2 DEF CallState
<2>2. call["turn"].pc = "awaiting" BY <1>6 DEF Rewritten, CallAt
<2>3. CallFits(x) BY <1>2, <2>1, <2>2 DEF CallFits
<2>4. Goes("turn", x) BY <1>6 DEF Rewritten
<2> HIDE DEF x
<2> QED BY <1>1, <1>3, <2>1, <2>3, <2>4, GoingOn
<1>7. CASE ReadSection BY <1>5, <1>7 DEF ReadSection, CallAt
<1> QED BY <1>4, <1>6, <1>7

LEMMA RunAndExitSteps ==
  ASSUME MemInv, NextRun \/ MemoryExits
  PROVE  MemInv'
<1>1. /\ UNCHANGED <<docs, history, entries, index, forgotten, calls>> /\ bodies' = {}
      /\ call' = call \/ call' = [c \in MemCallers |-> Quiet]
      /\ memExits' = memExits \/ (memExits < MaxMemExits /\ memExits' = memExits + 1)
  BY DEF NextRun, MemoryExits
<1>2. memExits' \in 0..MaxMemExits BY <1>1, MemTypes, MemoryAssumption
<1>3. call' \in [MemCallers -> CallState]
  BY <1>1, MemTypes, QuietCall
<1>4. CallFits(Quiet) BY QuietCall DEF CallFits
<1>5. \A c \in MemCallers : CallFits(call'[c]) BY <1>1, <1>4 DEF MemInv, BookFacts
<1>6. \A c \in MemCallers : CallFits(call[c])' BY <1>1, <1>5 DEF CallFits
<1>7. {} \in Texts BY DEF Texts
<1>8. MemoryTypeOK' BY <1>1, <1>2, <1>3, <1>7 DEF MemInv, MemoryTypeOK, CallState
<1>9. BookFacts' BY <1>1, <1>6 DEF MemInv, BookFacts, LiveEntries
<1>10. RevisionHistory' BY <1>1 DEF MemInv, RevisionHistory
<1> QED BY <1>8, <1>9, <1>10 DEF MemInv

(* A step that writes documents or entries: what it has to keep. *)
LEMMA BooksChange ==
  ASSUME MemInv, NEW c \in MemCallers, NEW x \in CallState, FitsIn(x, docs', entries'),
         call' = [call EXCEPT ![c] = x], UNCHANGED <<bodies, forgotten, calls, memExits>>,
         docs' \in Seq(DocState), history' \in Seq(Seq(RevisionRow)), Len(history') = Len(docs'),
         entries' \in Seq(EntryState), \A e \in DOMAIN entries' : entries'[e].doc \in DOMAIN docs',
         index' \in Seq(Texts), Len(index') = Len(entries'),
         DOMAIN docs \subseteq DOMAIN docs', DOMAIN entries \subseteq DOMAIN entries',
         \A d \in DOMAIN docs : /\ docs[d].revision <= docs'[d].revision
                                /\ ~docs[d].kept => ~docs'[d].kept,
         \A e \in DOMAIN entries' : entries'[e].live => docs'[entries'[e].doc].kept,
         RevisionHistory'
  PROVE  MemInv'
<1>1. call' \in [MemCallers -> CallState] /\ \A d \in MemCallers : call'[d] \in {x, call[d]}
  BY MemTypes
<1>2. forgotten \subseteq DOMAIN docs' BY MemTypes
<1>3. MemoryTypeOK'
  BY <1>1, <1>2 DEF MemInv, MemoryTypeOK, CallState, DocState, RevisionRow, EntryState
<1>4. \A d \in DOMAIN docs' : docs'[d].revision \in Nat
<2>1. \A d \in DOMAIN docs' : docs'[d] \in DocState OBVIOUS
<2>2. MaxRevisions \in Nat BY MemoryAssumption
<2> QED BY <2>1, <2>2 DEF DocState
<1>5. ASSUME NEW d \in MemCallers PROVE CallFits(call[d])'
<2>1. CASE call'[d] = x BY <2>1 DEF CallFits, FitsIn
<2>2. CASE call'[d] = call[d]
<3>1. call[d] \in CallState /\ CallFits(call[d]) BY MemTypes DEF MemInv, BookFacts
<3>2. /\ DOMAIN docs \subseteq DOMAIN docs' /\ DOMAIN entries \subseteq DOMAIN entries'
      /\ \A k \in DOMAIN docs : /\ docs'[k].revision \in Nat
                                /\ docs[k].revision <= docs'[k].revision
                                /\ ~docs[k].kept => ~docs'[k].kept
  BY <1>4
<3>3. \A k \in DOMAIN docs : docs[k].revision \in Nat BY RowTypes, MemoryAssumption DEF DocState
<3>4. call[d].base \in Nat BY <3>1 DEF CallState
<3> QED BY <2>2, <3>1, <3>2, <3>3, <3>4 DEF CallFits
<2> QED BY <1>1, <2>1, <2>2
<1>6. BookFacts' BY <1>2, <1>5, MemTypes DEF MemInv, BookFacts, LiveEntries
<1> QED BY <1>3, <1>6 DEF MemInv

(* The same when no document changes and no entry comes or dies. *)
LEMMA EntriesChange ==
  ASSUME MemInv, NEW c \in MemCallers, NEW x \in CallState, CallFits(x),
         call' = [call EXCEPT ![c] = x],
         UNCHANGED <<docs, history, index, bodies, forgotten, calls, memExits>>,
         entries' \in Seq(EntryState), Len(entries') = Len(entries),
         \A e \in DOMAIN entries : /\ entries'[e].doc = entries[e].doc
                                   /\ entries'[e].live => entries[e].live
  PROVE  MemInv'
<1>1. DOMAIN entries' = DOMAIN entries BY MemTypes
<1>2. \A e \in DOMAIN entries' : entries'[e].doc \in DOMAIN docs'
  BY <1>1, RowTypes
<1>3. \A e \in DOMAIN entries' : entries'[e].live => docs'[entries'[e].doc].kept
  BY <1>1 DEF MemInv, BookFacts, LiveEntries
<1>4. \A d \in DOMAIN docs : docs[d].revision <= docs'[d].revision /\ (~docs[d].kept => ~docs'[d].kept)
  BY RowTypes, MemoryAssumption DEF DocState
<1>5. FitsIn(x, docs', entries') BY <1>1 DEF CallFits, FitsIn
<1>6. RevisionHistory' BY DEF MemInv, RevisionHistory
<1> QED BY <1>1, <1>2, <1>3, <1>4, <1>5, <1>6, MemTypes, BooksChange

(* An entry gets another text. *)
LEMMA TextWritten ==
  ASSUME MemInv, NEW e, NEW text \in Texts, entries' = [entries EXCEPT ![e].text = text]
  PROVE  /\ entries' \in Seq(EntryState) /\ Len(entries') = Len(entries)
         /\ \A k \in DOMAIN entries : /\ entries'[k].doc = entries[k].doc
                                       /\ entries'[k].live = entries[k].live
<1>1. \A k \in DOMAIN entries : entries[k] \in EntryState BY RowTypes
<1>2. \A k \in DOMAIN entries : [entries[k] EXCEPT !.text = text] \in EntryState
  BY <1>1 DEF EntryState
<1>3. \A k \in DOMAIN entries : entries'[k] = entries[k]
                               \/ entries'[k] = [entries[k] EXCEPT !.text = text]
  BY MemTypes
<1>4. entries' \in Seq(EntryState) /\ Len(entries') = Len(entries)
<2>1. entries \in Seq(EntryState) BY MemTypes
<2>2. CASE e \in DOMAIN entries
<3>1. entries' = [entries EXCEPT ![e] = [entries[e] EXCEPT !.text = text]] OBVIOUS
<3> QED BY <1>2, <2>1, <2>2, <3>1
<2>3. CASE e \notin DOMAIN entries
<3>1. entries' = entries BY <2>1, <2>3
<3> QED BY <2>1, <3>1
<2> QED BY <2>2, <2>3
<1>5. \A k \in DOMAIN entries : /\ [entries[k] EXCEPT !.text = text].doc = entries[k].doc
                                /\ [entries[k] EXCEPT !.text = text].live = entries[k].live
  BY <1>1 DEF EntryState
<1> QED BY <1>3, <1>4, <1>5

(* update_memory's second and third transactions and what _revise and
   index_document do after them. *)
LEMMA LinkedSteps ==
  ASSUME MemInv, NEW c \in MemCallers, UpdateLinked(c) \/ Refind(c) \/ IndexDocument(c)
  PROVE  MemInv'
<1>1. call[c] \in CallState /\ CallFits(call[c]) BY MemTypes DEF MemInv, BookFacts
<1>2. /\ call[c].pc \in {"linked", "refind"}
      /\ UNCHANGED <<docs, history, index, bodies, forgotten, calls, memExits>>
  BY DEF UpdateLinked, Refind, IndexDocument, CallAt
<1>3. call[c].doc \in DOMAIN docs /\ call[c].todo \in Texts /\ call[c].op # "forget"
  BY <1>1, <1>2 DEF CallFits
<1> DEFINE linked == ByDocument(call[c].doc)
           Written(e) == entries' = [entries EXCEPT ![e].text = call[c].todo]
<1>4. entries' = entries \/ \E e : Written(e)
  BY DEF UpdateLinked, Refind, IndexDocument
<1>5. /\ entries' \in Seq(EntryState) /\ Len(entries') = Len(entries)
      /\ \A e \in DOMAIN entries : entries'[e].doc = entries[e].doc
                                  /\ (entries'[e].live => entries[e].live)
  BY <1>3, <1>4, TextWritten, MemTypes
<1>6. \/ \E pc \in {"refind", "capture", "attach"} : Moves(c, pc)
      \/ linked # {} /\ Goes(c, [call[c] EXCEPT !.pc = "capture", !.entry = Newest(linked)])
  BY DEF UpdateLinked, Refind, IndexDocument
<1>7. ASSUME NEW pc \in {"refind", "capture", "attach"}, Moves(c, pc) PROVE MemInv'
<2> DEFINE x == [call[c] EXCEPT !.pc = pc]
<2>1. x \in CallState /\ x.pc = pc /\ x.doc = call[c].doc /\ x.todo = call[c].todo
      /\ x.op = call[c].op
  BY <1>1 DEF CallState
<2>2. CallFits(x) BY <1>3, <2>1 DEF CallFits
<2>3. call' = [call EXCEPT ![c] = x] BY <1>7 DEF Moves, Goes
<2> HIDE DEF x
<2> QED BY <1>2, <1>5, <2>1, <2>2, <2>3, EntriesChange
<1>8. CASE linked # {} /\ Goes(c, [call[c] EXCEPT !.pc = "capture", !.entry = Newest(linked)])
<2> DEFINE e == Newest(linked)
           x == [call[c] EXCEPT !.pc = "capture", !.entry = e]
<2>1. e \in Nat BY <1>8, NewestIsMember, LiveAreEntries, RowTypes
<2>2. call' = [call EXCEPT ![c] = x] BY <1>8 DEF Goes
<2> HIDE DEF e
<2>3. x \in CallState /\ x.pc = "capture" /\ x.op = call[c].op BY <1>1, <2>1 DEF CallState
<2>4. CallFits(x) BY <1>3, <2>3 DEF CallFits
<2> HIDE DEF x
<2> QED BY <1>2, <1>5, <2>2, <2>3, <2>4, EntriesChange
<1> QED BY <1>6, <1>7, <1>8

LEMMA GatewayCaptureStep ==
  ASSUME MemInv, NEW c \in MemCallers, GatewayCapture(c)
  PROVE  MemInv'
<1>1. UNCHANGED <<docs, history, entries, forgotten, calls, memExits>> BY DEF GatewayCapture
<1> DEFINE e == call[c].entry
<1>2. index' = index \/ index' = [index EXCEPT ![e] = entries[e].text]
  BY DEF GatewayCapture, Indexed
<1>3. index \in Seq(Texts) /\ DOMAIN index = DOMAIN entries BY MemTypes
<1>4. index' \in Seq(Texts) /\ Len(index') = Len(index)
<2>1. CASE e \in DOMAIN entries
<3>1. entries[e].text \in Texts BY <2>1, RowTypes
<3> QED BY <1>2, <1>3, <2>1, <3>1
<2>2. CASE e \notin DOMAIN entries
<3>1. index' = index BY <1>2, <1>3, <2>2
<3> QED BY <1>3, <3>1
<2> QED BY <2>1, <2>2
<1>5. bodies' \in Texts /\ \E x \in CallState : CallFits(x) /\ call' = [call EXCEPT ![c] = x]
  BY CaptureEnds DEF GatewayCapture
<1>6. /\ \A d \in forgotten' : ~docs[d].kept
      /\ forgotten' \subseteq DOMAIN docs /\ calls' \in 0..MaxCalls
  BY <1>1, MemTypes DEF MemInv, BookFacts
<1> QED BY <1>1, <1>4, <1>5, <1>6, CallerMoves

(* supersede_memory_entry ends its entry, whoever wrote it since. *)
LEMMA SupersedeStep ==
  ASSUME MemInv, NEW c \in MemCallers, Supersede(c)
  PROVE  MemInv'
<1>1. call[c] \in CallState /\ CallFits(call[c]) BY MemTypes DEF MemInv, BookFacts
<1>2. PICK e \in call[c].todo :
        /\ call[c].pc = "supersede"
        /\ entries' = [entries EXCEPT ![e].live = FALSE]
        /\ Goes(c, [call[c] EXCEPT !.pc = IF entries[e].live THEN "delete" ELSE "ended",
                                   !.entry = e, !.doc = entries[e].doc])
        /\ UNCHANGED <<docs, history, index, bodies, forgotten, calls, memExits>>
  BY DEF Supersede, CallAt
<1>3. call[c].op = "forget" /\ call[c].todo \subseteq DOMAIN entries
  BY <1>1, <1>2 DEF CallFits
<1>4. e \in DOMAIN entries /\ e \in Nat /\ entries[e].doc \in DOMAIN docs
      /\ entries[e] \in EntryState /\ entries[e].doc \in Nat
  BY <1>2, <1>3, RowTypes
<1> DEFINE row == [entries[e] EXCEPT !.live = FALSE]
           pc == IF entries[e].live THEN "delete" ELSE "ended"
           x == [call[c] EXCEPT !.pc = pc, !.entry = e, !.doc = entries[e].doc]
<1>5. row \in EntryState /\ row.doc = entries[e].doc /\ row.live = FALSE
  BY <1>4 DEF EntryState
<1>6. pc \in {"delete", "ended"} OBVIOUS
<1>7. entries' = [entries EXCEPT ![e] = row] /\ call' = [call EXCEPT ![c] = x]
  BY <1>2 DEF Goes
<1> HIDE DEF row, pc
<1>8. entries' \in Seq(EntryState) /\ Len(entries') = Len(entries)
  BY <1>4, <1>5, <1>7, MemTypes
<1>9. \A k \in DOMAIN entries : entries'[k].doc = entries[k].doc
                               /\ (entries'[k].live => entries[k].live)
  BY <1>4, <1>5, <1>7, MemTypes
<1>10. x \in CallState /\ x.pc = pc /\ x.doc = entries[e].doc /\ x.op = call[c].op
       /\ x.todo = call[c].todo
  BY <1>1, <1>4, <1>6 DEF CallState
<1>11. CallFits(x) BY <1>3, <1>4, <1>6, <1>10 DEF CallFits
<1> HIDE DEF x
<1> QED BY <1>2, <1>7, <1>8, <1>9, <1>10, <1>11, EntriesChange

LEMMA GatewayDeleteStep ==
  ASSUME MemInv, NEW c \in MemCallers, GatewayDelete(c)
  PROVE  MemInv'
<1>1. call[c] \in CallState /\ CallFits(call[c]) BY MemTypes DEF MemInv, BookFacts
<1> DEFINE e == call[c].entry
<1>2. /\ call[c].pc \in {"unindex", "ended"}
      /\ UNCHANGED <<docs, history, entries, bodies, calls, memExits>>
      /\ index' = index \/ index' = [index EXCEPT ![e] = {}]
      /\ forgotten' = IF call[c].pc = "unindex" THEN forgotten \cup {call[c].doc} ELSE forgotten
  BY DEF GatewayDelete, CallAt
<1>3. index' \in Seq(Texts) /\ Len(index') = Len(index)
<2>1. index \in Seq(Texts) /\ {} \in Texts BY MemTypes DEF Texts
<2>2. CASE e \in DOMAIN index
<3>1. index' = index \/ index' = [index EXCEPT ![e] = {}] BY <1>2
<3> HIDE DEF e
<3>2. CASE index' = index BY <2>1, <3>2
<3>3. CASE index' = [index EXCEPT ![e] = {}] BY <2>1, <2>2, <3>3
<3> QED BY <3>1, <3>2, <3>3
<2>3. CASE e \notin DOMAIN index
<3>1. index' = index BY <1>2, <2>1, <2>3
<3> QED BY <2>1, <3>1
<2> QED BY <2>2, <2>3
<1>4. /\ forgotten \subseteq DOMAIN docs /\ \A d \in forgotten : ~docs[d].kept
  BY MemTypes DEF MemInv, BookFacts
<1>5. call[c].pc = "unindex" => /\ call[c].doc \in DOMAIN docs
                               /\ ~docs[call[c].doc].kept
  BY <1>1 DEF CallFits
<1>6. forgotten' \subseteq DOMAIN docs /\ \A d \in forgotten' : ~docs[d].kept
  BY <1>2, <1>4, <1>5
<1>7. CASE /\ call[c].op = "forget"
           /\ Goes(c, [call[c] EXCEPT !.pc = "supersede", !.todo = call[c].todo \ {e}])
<2> DEFINE todo == call[c].todo \ {e}
           x == [call[c] EXCEPT !.pc = "supersede", !.todo = todo]
<2>1. call[c].todo \subseteq DOMAIN entries BY <1>1, <1>7 DEF CallFits
<2>2. todo \subseteq DOMAIN entries /\ todo \in SUBSET Nat BY <2>1, MemTypes
<2>3. call' = [call EXCEPT ![c] = x] BY <1>7 DEF Goes
<2> HIDE DEF todo
<2>4. x \in CallState /\ x.pc = "supersede" /\ x.op = call[c].op /\ x.todo = todo
  BY <1>1, <2>2 DEF CallState
<2>5. CallFits(x) BY <1>7, <2>2, <2>4 DEF CallFits
<2> HIDE DEF x
<2> QED BY <1>2, <1>3, <1>6, <2>3, <2>4, <2>5, MemTypes, CallerMoves
<1>8. CASE Goes(c, Quiet)
<2>1. CallFits(Quiet) BY QuietCall DEF CallFits
<2> QED BY <1>2, <1>3, <1>6, <1>8, <2>1, QuietCall, MemTypes, CallerMoves DEF Goes
<1> QED BY <1>7, <1>8 DEF GatewayDelete

(* create_memory: the new document is the last one, with its first revision. *)
LEMMA CreateDocumentStep ==
  ASSUME MemInv, NEW c \in MemCallers, CreateDocument(c)
  PROVE  MemInv'
<1>1. call[c] \in CallState /\ CallFits(call[c]) BY MemTypes DEF MemInv, BookFacts
<1> DEFINE todo == call[c].todo
           doc == [content |-> todo, revision |-> 1, kept |-> TRUE]
           first == [revision |-> 1, content |-> todo]
           n == Len(docs) + 1
           x == [call[c] EXCEPT !.pc = "attach", !.doc = n]
<1>2. /\ call[c].pc = "create" /\ docs' = Append(docs, doc) /\ history' = Append(history, <<first>>)
      /\ call' = [call EXCEPT ![c] = x]
      /\ UNCHANGED <<entries, index, bodies, forgotten, calls, memExits>>
  BY DEF CreateDocument, CallAt, Goes
<1>3. todo \in Texts /\ call[c].op # "forget" BY <1>1, <1>2 DEF CallFits
<1>4. n \in Nat BY MemTypes
<1>5. 1 \in 1..MaxRevisions BY MemoryAssumption
<1> HIDE DEF todo
<1>6. doc \in DocState /\ doc.revision = 1 /\ doc.content = todo /\ doc.kept = TRUE
  BY <1>3, <1>5 DEF DocState
<1>7. first \in RevisionRow /\ first.revision = 1 /\ first.content = todo
  BY <1>3 DEF RevisionRow
<1>8. x \in CallState /\ x.pc = "attach" /\ x.doc = n /\ x.todo = call[c].todo /\ x.op = call[c].op
  BY <1>1, <1>4 DEF CallState
<1> HIDE DEF doc, first, x
<1>9. /\ docs' \in Seq(DocState) /\ Len(docs') = n /\ DOMAIN docs' = 1..n
      /\ docs'[n] = doc /\ \A d \in DOMAIN docs : docs'[d] = docs[d]
      /\ DOMAIN docs' = DOMAIN docs \cup {n} /\ n \notin DOMAIN docs
  BY <1>2, <1>6, MemTypes
<1>10. <<first>> \in Seq(RevisionRow) /\ Len(<<first>>) = 1 /\ DOMAIN <<first>> = {1}
       /\ <<first>>[1] = first
  BY <1>7
<1> DEFINE revs == <<first>>
<1> HIDE DEF revs
<1>11. revs \in Seq(RevisionRow) /\ Len(revs) = 1 /\ DOMAIN revs = {1} /\ revs[1] = first
  BY <1>10 DEF revs
<1>12. history' = Append(history, revs) BY <1>2 DEF revs
<1>13. /\ history' \in Seq(Seq(RevisionRow)) /\ Len(history') = n
       /\ history'[n] = revs /\ \A d \in DOMAIN docs : history'[d] = history[d]
  BY <1>11, <1>12, MemTypes
<1>14. \A d \in DOMAIN docs : docs[d].revision <= docs'[d].revision /\ (~docs[d].kept => ~docs'[d].kept)
  BY <1>9, RowTypes, MemoryAssumption DEF DocState
<1>15. FitsIn(x, docs', entries') BY <1>3, <1>8, <1>9 DEF FitsIn, todo
<1>16. \A e \in DOMAIN entries' : entries'[e].doc \in DOMAIN docs'
  BY <1>2, <1>9, RowTypes
<1>17. \A e \in DOMAIN entries' : entries'[e].live => docs'[entries'[e].doc].kept
  BY <1>2, <1>9, RowTypes DEF MemInv, BookFacts, LiveEntries
<1>18. RevisionHistory'
<2>1. ASSUME NEW d \in DOMAIN docs PROVE
        /\ \A i \in DOMAIN history'[d] : history'[d][i].revision = i
        /\ docs'[d].revision = Len(history'[d])
        /\ docs'[d].content = history'[d][Len(history'[d])].content
  BY <1>9, <1>13 DEF MemInv, RevisionHistory
<2>2. /\ \A i \in DOMAIN history'[n] : history'[n][i].revision = i
      /\ docs'[n].revision = Len(history'[n])
      /\ docs'[n].content = history'[n][Len(history'[n])].content
  BY <1>6, <1>7, <1>9, <1>11, <1>13
<2> HIDE DEF n
<2> QED BY <1>9, <2>1, <2>2 DEF RevisionHistory
<1> QED BY <1>2, <1>8, <1>9, <1>13, <1>14, <1>15, <1>16, <1>17, <1>18, MemTypes, BooksChange

(* The entry of a document, which the foreign key keeps to documents that are
   still there. *)
LEMMA AttachEntryStep ==
  ASSUME MemInv, NEW c \in MemCallers, AttachEntry(c)
  PROVE  MemInv'
<1>1. call[c] \in CallState /\ CallFits(call[c]) BY MemTypes DEF MemInv, BookFacts
<1>2. call[c].pc = "attach" /\ UNCHANGED <<docs, history, bodies, forgotten, calls, memExits>>
  BY DEF AttachEntry, CallAt
<1>3. call[c].doc \in DOMAIN docs /\ call[c].doc \in Nat /\ call[c].todo \in Texts
      /\ call[c].op # "forget"
  BY <1>1, <1>2, RowTypes DEF CallFits
<1>4. CASE Raises(c) /\ UNCHANGED <<entries, index>>
<2>1. CallFits(Quiet) BY QuietCall DEF CallFits
<2> QED BY <1>2, <1>4, <2>1, QuietCall, GoingOn DEF Raises
<1> DEFINE row == [doc |-> call[c].doc, slot |-> Slot(call[c].todo),
                   text |-> call[c].todo, live |-> TRUE]
           n == Len(entries) + 1
           x == [call[c] EXCEPT !.pc = "capture", !.entry = n]
<1>5. CASE /\ docs[call[c].doc].kept /\ entries' = Append(entries, row)
           /\ index' = Append(index, {}) /\ call' = [call EXCEPT ![c] = x]
<2>1. Slot(call[c].todo) \in {"bans", "identity"} BY DEF Slot
<2>2. row \in EntryState /\ row.doc = call[c].doc BY <1>3, <2>1 DEF EntryState
<2>3. n \in Nat /\ {} \in Texts BY MemTypes DEF Texts
<2>4. x \in CallState /\ x.pc = "capture" /\ x.op = call[c].op BY <1>1, <2>3 DEF CallState
<2>5. entries' = Append(entries, row) /\ index' = Append(index, {})
      /\ call' = [call EXCEPT ![c] = x] /\ docs[call[c].doc].kept
  BY <1>5
<2> HIDE DEF row, x
<2>6. /\ entries' \in Seq(EntryState) /\ Len(entries') = n /\ entries'[n] = row
      /\ \A e \in DOMAIN entries : entries'[e] = entries[e]
      /\ DOMAIN entries' = DOMAIN entries \cup {n}
  BY <2>2, <2>5, MemTypes
<2>7. index' \in Seq(Texts) /\ Len(index') = n BY <2>3, <2>5, MemTypes
<2>8. FitsIn(x, docs', entries') BY <1>3, <2>4 DEF FitsIn
<2>9. \A d \in DOMAIN docs : docs[d].revision <= docs'[d].revision /\ (~docs[d].kept => ~docs'[d].kept)
  BY <1>2, RowTypes, MemoryAssumption DEF DocState
<2>10. \A e \in DOMAIN entries' : entries'[e].doc \in DOMAIN docs'
<3>1. \A e \in DOMAIN entries : entries'[e].doc \in DOMAIN docs' BY <1>2, <2>6, RowTypes
<3>2. entries'[n].doc \in DOMAIN docs' BY <1>2, <1>3, <2>2, <2>6
<3> QED BY <2>6, <3>1, <3>2
<2>11. \A e \in DOMAIN entries' : entries'[e].live => docs'[entries'[e].doc].kept
<3>1. \A e \in DOMAIN entries : entries'[e].live => docs'[entries'[e].doc].kept
  BY <1>2, <2>6 DEF MemInv, BookFacts, LiveEntries
<3>2. docs'[entries'[n].doc].kept BY <1>2, <2>2, <2>5, <2>6
<3> QED BY <2>6, <3>1, <3>2
<2>12. RevisionHistory' BY <1>2 DEF MemInv, RevisionHistory
<2> QED BY <1>2, <2>4, <2>5, <2>6, <2>7, <2>8, <2>9, <2>10, <2>11, <2>12, MemTypes, BooksChange
<1> QED BY <1>4, <1>5 DEF AttachEntry, Goes

(* The revision it adds follows the last one: the one it read is a revision of
   the document, and a number that is free beyond it can only be the next. *)
LEMMA UpdateDocumentStep ==
  ASSUME MemInv, NEW c \in MemCallers, UpdateDocument(c)
  PROVE  MemInv'
<1>1. call[c] \in CallState /\ CallFits(call[c]) BY MemTypes DEF MemInv, BookFacts
<1> DEFINE d == call[c].doc
           n == call[c].base + 1
           todo == call[c].todo
<1>2. /\ call[c].pc = "update" /\ n <= MaxRevisions
      /\ UNCHANGED <<entries, index, bodies, forgotten, calls, memExits>>
  BY DEF UpdateDocument, CallAt
<1>3. d \in DOMAIN docs /\ d \in Nat /\ todo \in Texts /\ call[c].op # "forget"
      /\ call[c].base \in 1..docs[d].revision
  BY <1>1, <1>2, RowTypes DEF CallFits
<1>4. CASE Raises(c) /\ UNCHANGED <<docs, history>>
<2>1. CallFits(Quiet) BY QuietCall DEF CallFits
<2> QED BY <1>2, <1>4, <2>1, QuietCall, GoingOn DEF Raises
<1> DEFINE doc == [docs[d] EXCEPT !.content = todo, !.revision = n]
           row == [revision |-> n, content |-> todo]
           revs == Append(history[d], row)
           x == [call[c] EXCEPT !.pc = "linked"]
<1>5. CASE RevisionFree(d, n) /\ Moves(c, "linked")
           /\ docs' = [docs EXCEPT ![d].content = todo, ![d].revision = n]
           /\ history' = [history EXCEPT ![d] = revs]
<2>1. /\ docs[d] \in DocState /\ docs[d].revision \in Nat /\ history[d] \in Seq(RevisionRow)
      /\ Len(history[d]) \in Nat /\ DOMAIN history[d] = 1..Len(history[d])
      /\ MaxRevisions \in Nat
  BY <1>3, RowTypes, MemoryAssumption DEF DocState
<2>2. n \in Nat /\ n > 1 /\ n <= Len(history[d]) + 1 /\ n \in 1..MaxRevisions
      /\ Len(history[d]) >= 1
<3>1. docs[d].revision = Len(history[d]) BY <1>3 DEF MemInv, RevisionHistory
<3> QED BY <1>2, <1>3, <2>1, <3>1
<2>3. n = Len(history[d]) + 1
<3>1. \A i \in DOMAIN history[d] : i # n
  BY <1>3, <1>5 DEF RevisionFree, MemInv, RevisionHistory
<3>2. n \notin 1..Len(history[d]) BY <2>1, <3>1
<3> HIDE DEF n
<3> QED BY <2>1, <2>2, <3>2
<2>4. docs' = [docs EXCEPT ![d] = doc]
<3>1. docs \in Seq(DocState) BY MemTypes
<3> QED BY <1>3, <1>5, <3>1
<2> HIDE DEF n
<2>5. doc \in DocState /\ doc.revision = n /\ doc.content = todo /\ doc.kept = docs[d].kept
  BY <1>3, <2>1, <2>2 DEF DocState
<2>6. row \in RevisionRow /\ row.revision = n /\ row.content = todo
  BY <1>3, <2>2 DEF RevisionRow
<2>7. x \in CallState /\ x.pc = "linked" /\ x.doc = d /\ x.todo = todo /\ x.op = call[c].op
  BY <1>1 DEF CallState
<2>8. call' = [call EXCEPT ![c] = x] /\ history' = [history EXCEPT ![d] = revs]
  BY <1>5 DEF Moves, Goes
<2> HIDE DEF d, todo, doc, row, x
<2>9. /\ revs \in Seq(RevisionRow) /\ Len(revs) = n /\ revs[n] = row
      /\ \A i \in DOMAIN history[d] : revs[i] = history[d][i]
      /\ DOMAIN revs = DOMAIN history[d] \cup {n}
  BY <2>1, <2>3, <2>6
<2> HIDE DEF revs
<2>10. /\ docs' \in Seq(DocState) /\ Len(docs') = Len(docs) /\ DOMAIN docs' = DOMAIN docs
       /\ docs'[d] = doc /\ \A k \in DOMAIN docs : k # d => docs'[k] = docs[k]
  BY <1>3, <2>4, <2>5, MemTypes
<2>11. /\ history' \in Seq(Seq(RevisionRow)) /\ Len(history') = Len(docs')
       /\ history'[d] = revs /\ \A k \in DOMAIN docs : k # d => history'[k] = history[k]
  BY <1>3, <2>8, <2>9, <2>10, MemTypes
<2>12. /\ \A i \in DOMAIN revs : revs[i].revision = i
  BY <1>3, <2>6, <2>9 DEF MemInv, RevisionHistory
<2>13. RevisionHistory'
<3>1. ASSUME NEW k \in DOMAIN docs PROVE
        /\ \A i \in DOMAIN history'[k] : history'[k][i].revision = i
        /\ docs'[k].revision = Len(history'[k])
        /\ docs'[k].content = history'[k][Len(history'[k])].content
<4>1. CASE k = d BY <2>5, <2>6, <2>9, <2>10, <2>11, <2>12, <4>1
<4>2. CASE k # d BY <2>10, <2>11, <4>2 DEF MemInv, RevisionHistory
<4> QED BY <4>1, <4>2
<3> QED BY <2>10, <3>1 DEF RevisionHistory
<2>14. \A k \in DOMAIN docs : docs[k].revision <= docs'[k].revision /\ (~docs[k].kept => ~docs'[k].kept)
<3>1. \A k \in DOMAIN docs : docs[k].revision \in Nat
  BY RowTypes, MemoryAssumption DEF DocState
<3>2. docs[d].revision <= docs'[d].revision
<4>1. docs[d].revision = Len(history[d]) BY <1>3 DEF MemInv, RevisionHistory, d
<4> QED BY <2>1, <2>3, <2>5, <2>10, <4>1
<3> QED BY <2>5, <2>10, <3>1, <3>2
<2>15. FitsIn(x, docs', entries') BY <1>3, <2>7, <2>10 DEF FitsIn, d, todo
<2>16. \A e \in DOMAIN entries' : entries'[e].doc \in DOMAIN docs'
  BY <1>2, <2>10, RowTypes
<2>17. \A e \in DOMAIN entries' : entries'[e].live => docs'[entries'[e].doc].kept
<3>1. \A k \in DOMAIN docs : docs'[k].kept = docs[k].kept BY <2>5, <2>10
<3> QED BY <1>2, <3>1, RowTypes DEF MemInv, BookFacts, LiveEntries
<2> QED BY <1>2, <2>7, <2>8, <2>10, <2>11, <2>13, <2>14, <2>15, <2>16, <2>17, MemTypes, BooksChange
<1> QED BY <1>4, <1>5 DEF UpdateDocument

(* delete_memory ends the document's entries with it. *)
LEMMA DeleteDocumentStep ==
  ASSUME MemInv, NEW c \in MemCallers, DeleteDocument(c)
  PROVE  MemInv'
<1>1. call[c] \in CallState /\ CallFits(call[c]) BY MemTypes DEF MemInv, BookFacts
<1> DEFINE d == call[c].doc
           Ended(e) == [entries[e] EXCEPT !.live = FALSE]
           doc == [docs[d] EXCEPT !.kept = FALSE]
           x == [call[c] EXCEPT !.pc = "unindex"]
<1>2. /\ call[c].pc = "delete"
      /\ entries' = [e \in DOMAIN entries |-> IF entries[e].doc = d THEN Ended(e) ELSE entries[e]]
      /\ docs' = [docs EXCEPT ![d].kept = FALSE]
      /\ Moves(c, "unindex")
      /\ UNCHANGED <<history, index, bodies, forgotten, calls, memExits>>
  BY DEF DeleteDocument, CallAt
<1>3. d \in DOMAIN docs /\ docs[d] \in DocState BY <1>1, <1>2, RowTypes DEF CallFits
<1>4. /\ doc \in DocState /\ doc.kept = FALSE /\ doc.revision = docs[d].revision
      /\ doc.content = docs[d].content
  BY <1>3 DEF DocState
<1>5. docs' = [docs EXCEPT ![d] = doc]
<2>1. docs \in Seq(DocState) BY MemTypes
<2> QED BY <1>2, <1>3, <2>1
<1>6. x \in CallState /\ x.pc = "unindex" /\ x.doc = d /\ x.op = call[c].op /\ x.todo = call[c].todo
  BY <1>1 DEF CallState
<1>7. call' = [call EXCEPT ![c] = x] BY <1>2 DEF Moves, Goes
<1>8. \A e \in DOMAIN entries : /\ Ended(e) \in EntryState /\ Ended(e).doc = entries[e].doc
                               /\ Ended(e).live = FALSE
  BY RowTypes DEF EntryState
<1> HIDE DEF d, doc, x, Ended
<1>9. /\ docs' \in Seq(DocState) /\ Len(docs') = Len(docs) /\ DOMAIN docs' = DOMAIN docs
      /\ docs'[d] = doc /\ \A k \in DOMAIN docs : k # d => docs'[k] = docs[k]
  BY <1>3, <1>4, <1>5, MemTypes
<1>10. /\ DOMAIN entries' = DOMAIN entries
       /\ \A e \in DOMAIN entries : entries'[e] = IF entries[e].doc = d THEN Ended(e) ELSE entries[e]
  BY <1>2
<1>11. \A e \in DOMAIN entries : entries'[e] \in EntryState /\ entries'[e].doc = entries[e].doc
  BY <1>8, <1>10, RowTypes
<1>12. entries' \in Seq(EntryState) /\ Len(entries') = Len(entries)
<2>1. Len(entries) \in Nat /\ DOMAIN entries = 1..Len(entries) BY MemTypes
<2>2. entries' = [e \in 1..Len(entries) |-> entries'[e]] BY <1>2, <2>1
<2>3. \A e \in 1..Len(entries) : entries'[e] \in EntryState BY <1>11, <2>1
<2> QED BY <2>1, <2>2, <2>3
<1>13. \A e \in DOMAIN entries' : entries'[e].doc \in DOMAIN docs'
  BY <1>9, <1>10, <1>11, RowTypes
<1>14. \A e \in DOMAIN entries' : entries'[e].live => docs'[entries'[e].doc].kept
<2>1. \A e \in DOMAIN entries : entries[e].live => docs[entries[e].doc].kept
  BY DEF MemInv, BookFacts, LiveEntries
<2>2. ASSUME NEW e \in DOMAIN entries, entries'[e].live PROVE docs'[entries'[e].doc].kept
<3>1. entries[e].doc \in DOMAIN docs BY RowTypes
<3>2. entries[e].doc # d BY <1>8, <1>10, <2>2
<3>3. entries'[e] = entries[e] BY <1>10, <3>2
<3>4. docs'[entries[e].doc] = docs[entries[e].doc] BY <1>9, <3>1, <3>2
<3> QED BY <2>1, <2>2, <3>3, <3>4
<2> QED BY <1>10, <2>2
<1>15. \A k \in DOMAIN docs : docs'[k].revision = docs[k].revision /\ docs'[k].content = docs[k].content
                             /\ (~docs[k].kept => ~docs'[k].kept)
  BY <1>4, <1>9
<1>16. \A k \in DOMAIN docs : docs[k].revision <= docs'[k].revision /\ (~docs[k].kept => ~docs'[k].kept)
<2>1. \A k \in DOMAIN docs : docs[k].revision \in Nat
  BY RowTypes, MemoryAssumption DEF DocState
<2> QED BY <1>15, <2>1
<1>17. RevisionHistory' BY <1>2, <1>9, <1>15 DEF MemInv, RevisionHistory
<1>18. FitsIn(x, docs', entries')
<2>1. docs'[d].kept = FALSE BY <1>4, <1>9
<2>2. call[c].op = "forget" => call[c].todo \subseteq DOMAIN entries' BY <1>1, <1>10 DEF CallFits
<2> QED BY <1>3, <1>6, <1>9, <2>1, <2>2 DEF FitsIn
<1>19. /\ UNCHANGED <<bodies, forgotten, calls, memExits>>
       /\ history' \in Seq(Seq(RevisionRow)) /\ Len(history') = Len(docs')
       /\ index' \in Seq(Texts) /\ Len(index') = Len(entries')
       /\ DOMAIN docs \subseteq DOMAIN docs' /\ DOMAIN entries \subseteq DOMAIN entries'
  BY <1>2, <1>9, <1>10, <1>12, MemTypes
<1> QED
  BY <1>6, <1>7, <1>9, <1>12, <1>13, <1>14, <1>16, <1>17, <1>18, <1>19, BooksChange

LEMMA MemoryInitHolds == MemoryInit => MemInv
<1> SUFFICES ASSUME MemoryInit PROVE MemInv OBVIOUS
<1>1. /\ docs = <<>> /\ history = <<>> /\ entries = <<>> /\ index = <<>>
      /\ call = [c \in MemCallers |-> Quiet]
      /\ bodies = {} /\ forgotten = {} /\ calls = 0 /\ memExits = 0
  BY DEF MemoryInit
<1>2. call \in [MemCallers -> CallState] BY <1>1, QuietCall
<1>3. CallFits(Quiet) BY QuietCall DEF CallFits
<1>4. /\ docs \in Seq(DocState) /\ history \in Seq(Seq(RevisionRow)) /\ entries \in Seq(EntryState)
      /\ index \in Seq(Texts) /\ DOMAIN docs = {} /\ DOMAIN entries = {}
      /\ Len(docs) = 0 /\ Len(history) = 0 /\ Len(entries) = 0 /\ Len(index) = 0
  BY <1>1
<1>5. calls \in 0..MaxCalls /\ memExits \in 0..MaxMemExits BY <1>1, MemoryAssumption
<1>6. bodies \in Texts BY <1>1 DEF Texts
<1>7. MemoryTypeOK
  BY <1>1, <1>2, <1>4, <1>5, <1>6
  DEF MemoryTypeOK, DocState, RevisionRow, EntryState, CallState
<1>8. \A c \in MemCallers : CallFits(call[c]) BY <1>1, <1>3
<1>9. BookFacts BY <1>1, <1>4, <1>8 DEF BookFacts, LiveEntries
<1>10. RevisionHistory BY <1>4 DEF RevisionHistory
<1> QED BY <1>7, <1>9, <1>10 DEF MemInv

LEMMA MemoryStep == MemInv /\ [MemoryNext]_memVars => MemInv'
<1> SUFFICES ASSUME MemInv, [MemoryNext]_memVars PROVE MemInv' OBVIOUS
<1>1. ASSUME NEW c \in MemCallers, NEW f \in Facts, Capture(c, f) \/ Forget(c, f) PROVE MemInv'
  BY <1>1, BeginningSteps
<1>2. ASSUME NEW c \in MemCallers, AlreadyCaptured(c) \/ LookSame(c) \/ LookSlot(c) PROVE MemInv'
  BY <1>2, LookSteps
<1>3. ASSUME NEW c \in MemCallers, CreateDocument(c) PROVE MemInv' BY <1>3, CreateDocumentStep
<1>4. ASSUME NEW c \in MemCallers, AttachEntry(c) PROVE MemInv' BY <1>4, AttachEntryStep
<1>5. ASSUME NEW c \in MemCallers, ReadRevision(c) PROVE MemInv' BY <1>5, ReadRevisionStep
<1>6. ASSUME NEW c \in MemCallers, UpdateDocument(c) PROVE MemInv' BY <1>6, UpdateDocumentStep
<1>7. ASSUME NEW c \in MemCallers, UpdateLinked(c) \/ Refind(c) \/ IndexDocument(c) PROVE MemInv'
  BY <1>7, LinkedSteps
<1>8. ASSUME NEW c \in MemCallers, GatewayCapture(c) PROVE MemInv' BY <1>8, GatewayCaptureStep
<1>9. ASSUME NEW c \in MemCallers, Supersede(c) PROVE MemInv' BY <1>9, SupersedeStep
<1>10. ASSUME NEW c \in MemCallers, ForgetEnds(c) PROVE MemInv' BY <1>10, ForgetEndsStep
<1>11. ASSUME NEW c \in MemCallers, DeleteDocument(c) PROVE MemInv' BY <1>11, DeleteDocumentStep
<1>12. ASSUME NEW c \in MemCallers, GatewayDelete(c) PROVE MemInv' BY <1>12, GatewayDeleteStep
<1>13. ASSUME NEW f \in Facts, PanelCreates(f) \/ \E d \in DOMAIN docs : PanelEdits(d, f)
       PROVE  MemInv'
  BY <1>13, PanelSteps
<1>14. ASSUME NEW d \in DOMAIN docs, PanelDeletes(d) PROVE MemInv' BY <1>14, PanelDeletesStep
<1>15. CASE ReadSection \/ NoRewrite \/ \E text \in Texts : Rewritten(text)
  BY <1>15, SectionSteps
<1>16. CASE NextRun \/ MemoryExits BY <1>16, RunAndExitSteps
<1>17. CASE UNCHANGED memVars
<2>1. /\ docs' = docs /\ history' = history /\ entries' = entries /\ index' = index
      /\ call' = call /\ bodies' = bodies /\ forgotten' = forgotten /\ calls' = calls
      /\ memExits' = memExits
  BY <1>17 DEF memVars
<2>2. MemoryTypeOK' BY <2>1 DEF MemInv, MemoryTypeOK
<2>3. BookFacts' BY <2>1 DEF MemInv, BookFacts, CallFits, LiveEntries
<2>4. RevisionHistory' BY <2>1 DEF MemInv, RevisionHistory
<2> QED BY <2>2, <2>3, <2>4 DEF MemInv
<1> QED
  BY <1>1, <1>2, <1>3, <1>4, <1>5, <1>6, <1>7, <1>8, <1>9, <1>10, <1>11, <1>12, <1>13, <1>14,
     <1>15, <1>16, <1>17
  DEF MemoryNext

LEMMA MemoryInvariant == MemorySpec => []MemInv
BY MemoryInitHolds, MemoryStep, PTL DEF MemorySpec

(* Every live entry of the books has its document, no caller writes a revision
   that follows one the document does not have, and what a forget finished with
   stays deleted, whatever the tool thread, the panel and the turn's rewriting
   do between one transaction of memory.py and the next. *)
THEOREM MemoryFactsHold == MemorySpec => [](MemoryTypeOK /\ BookFacts)
BY MemoryInvariant, PTL DEF MemInv

(* A note's revisions are 1, 2, ... and the note says what the last one says:
   of callers that read the same revision one commits (update_memory). *)
THEOREM RevisionHistoryHolds == MemorySpec => []RevisionHistory
BY MemoryInvariant, PTL DEF MemInv

(* A note that a forget or a deletion finished with is in no later context
   (context_for_turn). *)
THEOREM ForgottenLeavesBooksHolds == MemorySpec => []ForgottenLeavesBooks
<1>1. ASSUME MemInv PROVE ForgottenLeavesBooks
<2>1. ASSUME NEW shown \in ContextForTurn PROVE shown.doc \notin forgotten
<3>1. \A d \in forgotten : ~docs[d].kept BY <1>1 DEF MemInv, BookFacts
<3>2. CASE \E e \in LiveEntries : shown = [doc |-> entries[e].doc, text |-> entries[e].text]
<4>1. PICK e \in LiveEntries : shown = [doc |-> entries[e].doc, text |-> entries[e].text]
  BY <3>2
<4>2. shown.doc = entries[e].doc /\ docs[entries[e].doc].kept BY <1>1, <4>1 DEF MemInv, BookFacts
<4> QED BY <3>1, <4>2
<3>3. CASE \E d \in DOMAIN docs : docs[d].kept /\ shown = [doc |-> d, text |-> docs[d].content]
<4>1. PICK d \in DOMAIN docs : docs[d].kept /\ shown = [doc |-> d, text |-> docs[d].content]
  BY <3>3
<4> QED BY <3>1, <4>1
<3> QED BY <2>1, <3>2, <3>3 DEF ContextForTurn
<2> QED BY <2>1 DEF ForgottenLeavesBooks
<1> QED BY <1>1, MemoryInvariant, PTL

(***************************************************************************)
(* The search index.                                                       *)
(***************************************************************************)

Phases == {"bots", "messages", "memory", "artifacts", "done"}
Resource == BotIds \cup {Workspace, NoResource}
Rebuild == [state : {"queued", "running", "succeeded", "dead"}, at : Phases,
            after : Nat, owner : Indexers \cup {"none"}, attempts : 0..MaxClaims]
ChunkState == [pc : {"idle", "select", "index", "save", "ack"}, at : Phases, after : Nat,
           read : SUBSET (Sources \X Resource)]
Document == [state : {"missing", "live", "dead"}, of : Resource]

SearchInv == SearchTypeOK /\ RebuildFacts

LEMMA PhaseFacts ==
  /\ DOMAIN NextPhase = Phases /\ DOMAIN PhaseOrder = Phases
  /\ \A p \in Phases : /\ PhaseOrder[p] \in 1..5 /\ NextPhase[p] \in Phases
                       /\ p # "done" => PhaseOrder[NextPhase[p]] = PhaseOrder[p] + 1
                       /\ PhaseOrder[p] = 5 <=> p = "done"
  /\ \A p, q \in Phases : PhaseOrder[p] = PhaseOrder[q] => p = q
  /\ NextPhase["done"] = "done"
BY DEF Phases, NextPhase, PhaseOrder

LEMMA SourceFacts ==
  \A s \in Sources : /\ s[1] \in Phases /\ s[1] # "done" /\ s[2] \in Nat \ {0}
                     /\ s[2] \in BotIds \cup MessageIds \cup MemoryIds \cup ArtifactIds
                     /\ s = <<s[1], s[2]>>
<1> SUFFICES ASSUME NEW s \in Sources
             PROVE  /\ s[1] \in Phases /\ s[1] # "done" /\ s[2] \in Nat \ {0}
                    /\ s[2] \in BotIds \cup MessageIds \cup MemoryIds \cup ArtifactIds
                    /\ s = <<s[1], s[2]>>
  OBVIOUS
<1>1. DOMAIN Ids = {"bots", "messages", "memory", "artifacts"} BY DEF Ids
<1>2. PICK p \in {"bots", "messages", "memory", "artifacts"} : s \in {p} \X Ids[p]
  BY <1>1 DEF Sources
<1>3. Ids[p] \subseteq BotIds \cup MessageIds \cup MemoryIds \cup ArtifactIds BY <1>2 DEF Ids
<1> QED BY <1>2, <1>3, SearchAssumption DEF Phases

LEMMA SourcesFinite == IsFiniteSet(Sources)
<1> DEFINE ids == BotIds \cup MessageIds \cup MemoryIds \cup ArtifactIds
<1>1. IsFiniteSet(ids) BY SearchAssumption
<1>2. IsFiniteSet({"bots"} \cup {"messages"} \cup {"memory"} \cup {"artifacts"} \cup {"done"})
  BY FS_Singleton, FS_Union
<1>3. Phases = {"bots"} \cup {"messages"} \cup {"memory"} \cup {"artifacts"} \cup {"done"}
  BY DEF Phases
<1>4. IsFiniteSet(Phases \X ids) BY <1>1, <1>2, <1>3, FS_Product
<1>5. Sources \subseteq Phases \X ids BY SourceFacts
<1> QED BY <1>4, <1>5, FS_Subset

LEMMA SearchTypes ==
  ASSUME SearchInv
  PROVE  /\ rows \in [Sources -> Resource] /\ found \in [Sources -> Document]
         /\ rebuild \in Rebuild /\ chunk \in [Indexers -> ChunkState] /\ edits \in 0..MaxEdits
BY PhaseFacts DEF SearchInv, SearchTypeOK, Resource, Rebuild, ChunkState, Document

(* A finite set of naturals that is not empty has a last member: the one that
   has the fewest beyond it. *)
LEMMA FiniteMax ==
  ASSUME NEW S, S \subseteq Nat, S # {}, IsFiniteSet(S)
  PROVE  Max(S) \in S /\ \A x \in S : x <= Max(S)
<1> DEFINE Beyond(x) == {y \in S : y > x}
           counts == {Cardinality(Beyond(x)) : x \in S}
<1>1. \A x \in S : IsFiniteSet(Beyond(x)) /\ Cardinality(Beyond(x)) \in Nat
  BY FS_Subset, FS_CardinalityType
<1>2. counts \subseteq Nat /\ counts # {} BY <1>1
<1> HIDE DEF Beyond
<1>3. PICK m \in counts : \A k \in counts : ~(<<k, m>> \in OpToRel(<, Nat))
  BY <1>2, NatLessThanWellFounded, WFMin
<1>4. PICK x \in S : m = Cardinality(Beyond(x)) BY <1>3
<1>5. ASSUME NEW y \in S PROVE y <= x
<2>1. SUFFICES ASSUME y > x PROVE FALSE BY <1>4
<2>2. Beyond(y) \subseteq Beyond(x) /\ y \in Beyond(x) /\ y \notin Beyond(y)
  BY <1>4, <2>1 DEF Beyond
<2>3. Cardinality(Beyond(y)) <= Cardinality(Beyond(x))
      /\ Cardinality(Beyond(y)) # Cardinality(Beyond(x))
  BY <1>1, <1>4, <2>2, FS_Subset
<2>4. Cardinality(Beyond(y)) \in counts OBVIOUS
<2>5. ~(Cardinality(Beyond(y)) < m) BY <1>1, <1>2, <1>3, <2>4 DEF OpToRel
<2> QED BY <1>1, <1>4, <2>3, <2>5
<1> QED BY <1>4, <1>5 DEF Max

(* The batch of a selection: what is ahead and not in it comes after all of it,
   and then it is full. *)
LEMMA BatchFacts ==
  ASSUME SearchInv, NEW w \in Indexers
  PROVE  /\ Batch(w) \subseteq Ahead(w) /\ Ahead(w) \subseteq Sources
         /\ IsFiniteSet(Batch(w))
         /\ \A s \in Ahead(w) \ Batch(w) : /\ Cardinality(Batch(w)) >= BatchSize
                                           /\ \A t \in Batch(w) : t[2] < s[2]
<1> DEFINE A == Ahead(w)
           B == Batch(w)
           Before(s) == {t \in A : t[2] < s[2]}
<1>1. A \subseteq Sources /\ B \subseteq A BY DEF Ahead, Batch
<1>2. IsFiniteSet(A) /\ IsFiniteSet(B) BY <1>1, SourcesFinite, FS_Subset
<1>3. \A s \in A : /\ s[2] \in Nat
                   /\ s = <<chunk[w].at, s[2]>>
  BY <1>1, SourceFacts DEF Ahead
<1>4. \A s : IsFiniteSet(Before(s)) /\ Cardinality(Before(s)) \in Nat
  BY <1>2, FS_Subset, FS_CardinalityType
<1>5. \A s \in A : s \in B <=> Cardinality(Before(s)) < BatchSize BY DEF Batch
<1>6. BatchSize \in Nat BY SearchAssumption
<1> SUFFICES ASSUME NEW s \in A \ B
             PROVE  Cardinality(B) >= BatchSize /\ \A t \in B : t[2] < s[2]
  BY <1>1, <1>2
<1> HIDE DEF A, B
<1>7. ASSUME NEW x \in A \ B, NEW t \in B PROVE t[2] < x[2]
<2>1. SUFFICES ASSUME x[2] <= t[2] PROVE FALSE BY <1>1, <1>3, <1>7
<2>2. Before(x) \subseteq Before(t) BY <1>1, <1>3, <1>7, <2>1
<2>3. Cardinality(Before(x)) <= Cardinality(Before(t)) BY <1>4, <2>2, FS_Subset
<2> HIDE DEF Before
<2> QED BY <1>1, <1>4, <1>5, <1>6, <1>7, <2>3
<1>8. Cardinality(B) >= BatchSize
<2> DEFINE ids == {t[2] : t \in A \ B}
<2>1. ids \subseteq Nat /\ ids # {} BY <1>3
<2>2. PICK m \in ids : \A k \in ids : ~(<<k, m>> \in OpToRel(<, Nat))
  BY <2>1, NatLessThanWellFounded, WFMin
<2>3. PICK x \in A \ B : m = x[2] BY <2>2
<2>4. \A t \in A \ B : ~(t[2] < x[2]) BY <1>3, <2>1, <2>2, <2>3 DEF OpToRel
<2>5. Before(x) \subseteq B BY <2>4
<2>6. Cardinality(Before(x)) <= Cardinality(B) /\ Cardinality(B) \in Nat
  BY <1>2, <2>5, FS_Subset, FS_CardinalityType
<2> HIDE DEF Before
<2> QED BY <1>4, <1>5, <1>6, <2>3, <2>6
<1> QED BY <1>7, <1>8

(* What a step may do to the rows and the index: nothing that is in the index
   leaves it, and a row that comes is indexed with it. *)
Keeps == \A s \in Sources : InIndex(s) => InIndex(s)'

LEMMA FactsStay ==
  ASSUME SearchInv, Keeps, UNCHANGED <<rebuild, chunk>>
  PROVE  RebuildFacts'
<1>1. ASSUME NEW w \in Indexers, ChunkCovers(chunk[w]) PROVE ChunkCovers(chunk[w])'
  BY <1>1 DEF ChunkCovers, Keeps
<1> QED BY <1>1 DEF SearchInv, RebuildFacts, Keeps

LEMMA HostSteps ==
  ASSUME SearchInv,
         \/ \E s \in Sources : (\E r \in BotIds \cup {Workspace} : AddRow(s, r)) \/ DeleteNote(s)
         \/ \E b \in BotIds : \E kept \in SUBSET {s \in Sources : s[1] = "memory"} : DeleteBot(b, kept)
  PROVE  SearchInv'
<1>1. /\ rows \in [Sources -> Resource] /\ found \in [Sources -> Document] /\ edits \in 0..MaxEdits
      /\ MaxEdits \in Nat
  BY SearchTypes, SearchAssumption
<1>2. UNCHANGED <<rebuild, chunk>> /\ edits' = edits + 1 /\ edits < MaxEdits
  BY DEF AddRow, DeleteNote, DeleteBot, Commit
<1>3. edits' \in 0..MaxEdits BY <1>1, <1>2
<1>4. ASSUME rows' \in [Sources -> Resource], found' \in [Sources -> Document], Keeps PROVE SearchInv'
<2>1. SearchTypeOK'
  BY <1>2, <1>3, <1>4 DEF SearchInv, SearchTypeOK, Resource, Document
<2> QED BY <1>2, <1>4, <2>1, FactsStay DEF SearchInv
<1>5. ASSUME NEW d \in Document
      PROVE  /\ Tombstone(d) \in Document /\ (Tombstone(d).state = "missing" <=> d.state = "missing")
<2>1. [d EXCEPT !.state = "dead"] \in Document /\ [d EXCEPT !.state = "dead"].state = "dead"
  BY <1>5 DEF Document
<2> QED BY <1>5, <2>1 DEF Tombstone
<1>6. \A r \in Resource : Live(r) \in Document /\ Live(r).state = "live"
  BY DEF Live, Document
<1>7. ASSUME NEW s \in Sources, NEW r \in BotIds \cup {Workspace}, AddRow(s, r) PROVE SearchInv'
<2>1. rows' = [rows EXCEPT ![s] = r] /\ found' = [found EXCEPT ![s] = Live(r)] /\ r \in Resource
  BY <1>7 DEF AddRow, IndexRow, Resource
<2>2. rows' \in [Sources -> Resource] /\ found' \in [Sources -> Document]
  BY <1>1, <1>6, <2>1
<2>3. Keeps BY <1>1, <1>6, <2>1 DEF Keeps, InIndex, Exists
<2> QED BY <1>4, <2>2, <2>3
<1>8. ASSUME NEW s \in Sources, DeleteNote(s) PROVE SearchInv'
<2>1. rows' = [rows EXCEPT ![s] = NoResource] /\ found' = [found EXCEPT ![s] = Tombstone(found[s])]
  BY <1>1, <1>8 DEF DeleteNote
<2>2. rows' \in [Sources -> Resource] /\ found' \in [Sources -> Document]
<3>1. Tombstone(found[s]) \in Document BY <1>1, <1>5
<3> QED BY <1>1, <2>1, <3>1 DEF Resource
<2>3. Keeps BY <1>1, <2>1 DEF Keeps, InIndex, Exists
<2> QED BY <1>4, <2>2, <2>3
<1>9. ASSUME NEW b \in BotIds, NEW kept \in SUBSET {s \in Sources : s[1] = "memory"},
             DeleteBot(b, kept)
      PROVE  SearchInv'
<2>1. /\ rows' = [s \in Sources |-> IF s \in kept THEN Workspace
                                ELSE IF rows[s] = b THEN NoResource ELSE rows[s]]
      /\ found' = [s \in Sources |-> IF found[s].of = b THEN Tombstone(found[s]) ELSE found[s]]
      /\ \A s \in kept : rows[s] = b
  BY <1>9 DEF DeleteBot
<2>2. \A s \in Sources : Tombstone(found[s]) \in Document BY <1>1, <1>5
<2>3. found' \in [Sources -> Document] BY <1>1, <2>1, <2>2
<2>4. rows' \in [Sources -> Resource] BY <1>1, <2>1 DEF Resource
<2>5. ASSUME NEW s \in Sources, InIndex(s), Exists(s)' PROVE found'[s].state # "missing"
<3>1. Exists(s)
<4>1. b # NoResource BY SearchAssumption DEF NoResource
<4> QED BY <2>1, <2>5, <4>1 DEF Exists
<3>2. found[s].state # "missing" BY <2>5, <3>1 DEF InIndex
<3>3. found'[s] \in {found[s], Tombstone(found[s])} BY <2>1
<3> QED BY <1>1, <1>5, <3>2, <3>3
<2>6. Keeps BY <2>5 DEF Keeps, InIndex
<2> QED BY <1>4, <2>3, <2>4, <2>6
<1> QED BY <1>7, <1>8, <1>9

(* What a worker's step has to keep, when no row changes. *)
LEMMA WorkerMoves ==
  ASSUME SearchInv, NEW w \in Indexers, NEW x \in ChunkState,
         chunk' = [chunk EXCEPT ![w] = x], rebuild' \in Rebuild,
         UNCHANGED <<rows, edits>>, found' \in [Sources -> Document], Keeps,
         rebuild'.state = "succeeded" => \A s \in Sources : InIndex(s)',
         \A s \in Sources : LeftBehind(s, rebuild'.at, rebuild'.after) => InIndex(s)',
         x.pc # "idle" => \A s \in Sources : LeftBehind(s, x.at, x.after) => InIndex(s)',
         x.pc = "ack" => x.at = "done",
         x.pc = "index" => /\ \A s \in Sources :
                                s[1] = x.at =>
                                  \/ InIndex(s)'
                                  \/ \E r \in x.read : r[1] = s
                                  \/ Cardinality(x.read) >= BatchSize /\ \A r \in x.read : r[1][2] < s[2]
                           /\ IsFiniteSet(x.read)
                           /\ \A r \in x.read : r[1][1] = x.at
  PROVE  SearchInv'
<1>1. chunk' \in [Indexers -> ChunkState] /\ chunk'[w] = x
      /\ \A v \in Indexers \ {w} : chunk'[v] = chunk[v]
  BY SearchTypes
<1>2. SearchTypeOK'
  BY <1>1, PhaseFacts
  DEF SearchInv, SearchTypeOK, Resource, Document, ChunkState, Rebuild
<1>3. ASSUME NEW v \in Indexers
      PROVE  /\ chunk'[v].pc # "idle" =>
                  \A s \in Sources : LeftBehind(s, chunk'[v].at, chunk'[v].after) => InIndex(s)'
             /\ chunk'[v].pc = "ack" => chunk'[v].at = "done"
             /\ chunk'[v].pc = "index" =>
                  /\ ChunkCovers(chunk[v])'
                  /\ IsFiniteSet(chunk'[v].read)
                  /\ \A r \in chunk'[v].read : r[1][1] = chunk'[v].at
<2>1. CASE v = w BY <1>1, <2>1 DEF ChunkCovers
<2>2. CASE v # w
<3>1. chunk'[v] = chunk[v] BY <1>1, <2>2
<3>2. ChunkCovers(chunk[v]) => ChunkCovers(chunk[v])' BY <3>1 DEF ChunkCovers, Keeps
<3> QED BY <3>1, <3>2 DEF SearchInv, RebuildFacts, Keeps
<2> QED BY <2>1, <2>2
<1>4. RebuildFacts' BY <1>3 DEF RebuildFacts
<1> QED BY <1>2, <1>4 DEF SearchInv

(* The same when the rows and the index are as they were. *)
LEMMA WorkerAlone ==
  ASSUME SearchInv, NEW w \in Indexers, NEW x \in ChunkState,
         chunk' = [chunk EXCEPT ![w] = x], rebuild' \in Rebuild,
         UNCHANGED <<rows, found, edits>>,
         rebuild'.state = "succeeded" => \A s \in Sources : InIndex(s),
         \A s \in Sources : LeftBehind(s, rebuild'.at, rebuild'.after) => InIndex(s),
         x.pc # "idle" => \A s \in Sources : LeftBehind(s, x.at, x.after) => InIndex(s),
         x.pc = "ack" => x.at = "done",
         x.pc = "index" => /\ ChunkCovers(x) /\ IsFiniteSet(x.read)
                           /\ \A r \in x.read : r[1][1] = x.at
  PROVE  SearchInv'
<1>1. \A s \in Sources : InIndex(s) <=> InIndex(s)' BY DEF InIndex, Exists
<1>2. found' \in [Sources -> Document] BY SearchTypes
<1>3. Keeps BY <1>1 DEF Keeps
<1>4. x.pc = "index" => \A s \in Sources :
        s[1] = x.at =>
          \/ InIndex(s)'
          \/ \E r \in x.read : r[1] = s
          \/ Cardinality(x.read) >= BatchSize /\ \A r \in x.read : r[1][2] < s[2]
  BY <1>1 DEF ChunkCovers
<1> QED BY <1>1, <1>2, <1>3, <1>4, WorkerMoves

LEMMA IdleWorker ==
  /\ NotRebuilding \in ChunkState /\ NotRebuilding.pc = "idle"
BY DEF NotRebuilding, ChunkState, Phases

LEMMA ClaimAndStopSteps ==
  ASSUME SearchInv, NEW w \in Indexers,
         ClaimRebuild(w) \/ RebuildFails(w) \/ IndexerDies(w) \/ AckRebuild(w)
  PROVE  SearchInv'
<1>1. rebuild \in Rebuild /\ chunk \in [Indexers -> ChunkState] BY SearchTypes
<1>2. /\ rebuild.state = "succeeded" => \A s \in Sources : InIndex(s)
      /\ \A s \in Sources : LeftBehind(s, rebuild.at, rebuild.after) => InIndex(s)
  BY DEF SearchInv, RebuildFacts
<1>3. UNCHANGED <<rows, found, edits>>
  BY DEF ClaimRebuild, RebuildFails, IndexerDies, AckRebuild
<1>4. CASE ClaimRebuild(w)
<2> DEFINE claimed == [rebuild EXCEPT !.state = "running", !.owner = w, !.attempts = rebuild.attempts + 1]
           x == [pc |-> "select", at |-> rebuild.at, after |-> rebuild.after, read |-> {}]
<2>1. rebuild.attempts < MaxClaims /\ rebuild' = claimed /\ chunk' = [chunk EXCEPT ![w] = x]
  BY <1>4 DEF ClaimRebuild
<2>2. rebuild.attempts + 1 \in 0..MaxClaims BY <1>1, <2>1, SearchAssumption DEF Rebuild
<2>3. claimed \in Rebuild /\ claimed.state = "running" /\ claimed.at = rebuild.at
      /\ claimed.after = rebuild.after
  BY <1>1, <2>2 DEF Rebuild
<2>4. x \in ChunkState /\ x.pc = "select" /\ x.at = rebuild.at /\ x.after = rebuild.after
  BY <1>1 DEF Rebuild, ChunkState
<2> HIDE DEF claimed, x
<2> QED BY <1>2, <1>3, <2>1, <2>3, <2>4, WorkerAlone
<1>5. CASE RebuildFails(w)
<2> DEFINE state == IF rebuild.attempts >= MaxAttempts THEN "dead" ELSE "queued"
           failed == [rebuild EXCEPT !.state = state, !.owner = "none"]
<2>1. rebuild' = failed /\ chunk' = [chunk EXCEPT ![w] = NotRebuilding]
  BY <1>5 DEF RebuildFails
<2>2. state \in {"dead", "queued"} OBVIOUS
<2> HIDE DEF state
<2>3. failed \in Rebuild /\ failed.state = state /\ failed.at = rebuild.at
      /\ failed.after = rebuild.after
  BY <1>1, <2>2 DEF Rebuild
<2> HIDE DEF failed
<2> QED BY <1>2, <1>3, <2>1, <2>2, <2>3, IdleWorker, WorkerAlone
<1>6. CASE IndexerDies(w)
<2>1. rebuild' = rebuild /\ chunk' = [chunk EXCEPT ![w] = NotRebuilding]
  BY <1>6 DEF IndexerDies
<2> QED BY <1>1, <1>2, <1>3, <2>1, IdleWorker, WorkerAlone
<1>7. CASE AckRebuild(w)
<2> DEFINE acked == [rebuild EXCEPT !.state = "succeeded", !.owner = "none"]
<2>1. rebuild' \in {acked, rebuild} /\ chunk' = [chunk EXCEPT ![w] = NotRebuilding]
      /\ chunk[w].pc = "ack"
  BY <1>7 DEF AckRebuild
<2>2. acked \in Rebuild /\ acked.at = rebuild.at /\ acked.after = rebuild.after
  BY <1>1 DEF Rebuild
<2>3. \A s \in Sources : InIndex(s)
<3>1. /\ chunk[w].at = "done"
      /\ \A s \in Sources : LeftBehind(s, chunk[w].at, chunk[w].after) => InIndex(s)
  BY <2>1 DEF SearchInv, RebuildFacts
<3>2. \A s \in Sources : PhaseOrder[s[1]] < PhaseOrder["done"]
  BY SourceFacts, PhaseFacts DEF PhaseOrder, Phases
<3> QED BY <3>1, <3>2 DEF LeftBehind
<2> HIDE DEF acked
<2> QED BY <1>1, <1>2, <1>3, <2>1, <2>2, <2>3, IdleWorker, WorkerAlone
<1> QED BY <1>4, <1>5, <1>6, <1>7

LEMMA SelectStep ==
  ASSUME SearchInv, NEW w \in Indexers, SelectChunk(w)
  PROVE  SearchInv'
<1>1. /\ rebuild \in Rebuild /\ chunk \in [Indexers -> ChunkState] /\ chunk[w] \in ChunkState
      /\ rows \in [Sources -> Resource]
  BY SearchTypes
<1> DEFINE B == Batch(w)
           read == {<<s, rows[s]>> : s \in B}
           x == [chunk[w] EXCEPT !.pc = "index", !.read = read]
<1>2. /\ chunk[w].pc = "select" /\ chunk' = [chunk EXCEPT ![w] = x]
      /\ UNCHANGED <<rows, found, rebuild, edits>>
  BY <1>1 DEF SelectChunk
<1>3. /\ rebuild.state = "succeeded" => \A s \in Sources : InIndex(s)
      /\ \A s \in Sources : LeftBehind(s, rebuild.at, rebuild.after) => InIndex(s)
      /\ \A s \in Sources : LeftBehind(s, chunk[w].at, chunk[w].after) => InIndex(s)
  BY <1>2 DEF SearchInv, RebuildFacts
<1>4. /\ B \subseteq Sources /\ IsFiniteSet(B) /\ B \subseteq Ahead(w)
      /\ \A s \in Ahead(w) \ B : Cardinality(B) >= BatchSize /\ \A t \in B : t[2] < s[2]
  BY BatchFacts
<1>5. \A s \in B : s[1] = chunk[w].at BY <1>4 DEF Ahead
<1> HIDE DEF B
<1>6. read \in SUBSET (Sources \X Resource) BY <1>1, <1>4
<1>7. IsFiniteSet(read) /\ Cardinality(read) = Cardinality(B)
<2> DEFINE g == [s \in B |-> <<s, rows[s]>>]
<2>1. g \in [B -> read] /\ (\A a, b \in B : g[a] = g[b] => a = b)
      /\ \A r \in read : \E s \in B : g[s] = r
  OBVIOUS
<2>2. g \in Bijection(B, read) BY <2>1 DEF Bijection, Injection, Surjection, IsInjective
<2>3. ExistsBijection(B, read) BY <2>2 DEF ExistsBijection
<2> QED BY <1>4, <2>3, FS_Bijection
<1>8. \A r \in read : r[1] \in B OBVIOUS
<1>9. \A s \in B : \E r \in read : r[1] = s
<2>1. \A s \in B : <<s, rows[s]>> \in read /\ <<s, rows[s]>>[1] = s OBVIOUS
<2> HIDE DEF read
<2> QED BY <2>1
<1> HIDE DEF read
<1>10. x \in ChunkState /\ x.pc = "index" /\ x.read = read /\ x.at = chunk[w].at
       /\ x.after = chunk[w].after
  BY <1>1, <1>6 DEF ChunkState
<1> HIDE DEF x
<1>11. ASSUME NEW s \in Sources, s[1] = x.at
       PROVE  \/ InIndex(s)
              \/ \E r \in x.read : r[1] = s
              \/ Cardinality(x.read) >= BatchSize /\ \A r \in x.read : r[1][2] < s[2]
<2>1. CASE ~Exists(s) BY <2>1 DEF InIndex
<2>2. CASE s[2] <= chunk[w].after BY <1>3, <1>10, <1>11, <2>2 DEF LeftBehind
<2>3. CASE s \in B BY <1>9, <1>10, <2>3
<2>4. CASE s \in Ahead(w) \ B BY <1>4, <1>7, <1>8, <1>10, <2>4
<2>5. s[2] \in Nat /\ chunk[w].after \in Nat BY <1>1, SourceFacts DEF ChunkState
<2>6. s \in Ahead(w) \/ ~Exists(s) \/ s[2] <= chunk[w].after
  BY <1>10, <1>11, <2>5 DEF Ahead
<2> QED BY <2>1, <2>2, <2>3, <2>4, <2>6
<1>12. ChunkCovers(x) BY <1>11 DEF ChunkCovers
<1>13. \A r \in x.read : r[1][1] = x.at BY <1>5, <1>8, <1>10
<1> QED BY <1>1, <1>2, <1>3, <1>7, <1>10, <1>12, <1>13, WorkerAlone

(* What was selected is in the index now, and what the payload leaves behind
   with it came before the last of it, or was not there when it was selected. *)
LEMMA IndexStep ==
  ASSUME SearchInv, NEW w \in Indexers, IndexChunk(w)
  PROVE  SearchInv'
<1>1. /\ rebuild \in Rebuild /\ chunk \in [Indexers -> ChunkState] /\ chunk[w] \in ChunkState
      /\ found \in [Sources -> Document] /\ BatchSize \in Nat \ {0}
  BY SearchTypes, SearchAssumption
<1> DEFINE read == chunk[w].read
           Of(s) == (CHOOSE r \in read : r[1] = s)[2]
           goesOn == PhaseGoesOn(Cardinality(read))
           ids == {r[1][2] : r \in read}
           at == IF goesOn THEN chunk[w].at ELSE NextPhase[chunk[w].at]
           after == IF goesOn THEN Max(ids) ELSE 0
           x == [pc |-> "save", at |-> at, after |-> after, read |-> {}]
<1>2. /\ chunk[w].pc = "index" /\ chunk' = [chunk EXCEPT ![w] = x]
      /\ found' = [s \in Sources |-> IF \E r \in read : r[1] = s THEN Live(Of(s)) ELSE found[s]]
      /\ UNCHANGED <<rows, rebuild, edits>>
  BY <1>1 DEF IndexChunk
<1>3. /\ rebuild.state = "succeeded" => \A s \in Sources : InIndex(s)
      /\ \A s \in Sources : LeftBehind(s, rebuild.at, rebuild.after) => InIndex(s)
      /\ \A s \in Sources : LeftBehind(s, chunk[w].at, chunk[w].after) => InIndex(s)
      /\ ChunkCovers(chunk[w]) /\ IsFiniteSet(read)
      /\ \A r \in read : r[1][1] = chunk[w].at
  BY <1>2 DEF SearchInv, RebuildFacts
<1>4. read \subseteq Sources \X Resource BY <1>1 DEF ChunkState
<1>5. ASSUME NEW s \in Sources, \E r \in read : r[1] = s
      PROVE  Live(Of(s)) \in Document /\ Live(Of(s)).state = "live"
  BY <1>4, <1>5 DEF Live, Document
<1> HIDE DEF Of
<1>6. found' \in [Sources -> Document] BY <1>1, <1>2, <1>5
<1>7. Keeps BY <1>2, <1>5 DEF Keeps, InIndex, Exists
<1>8. \A s \in Sources : (\E r \in read : r[1] = s) => InIndex(s)'
  BY <1>2, <1>5 DEF InIndex, Exists
<1>9. ids \subseteq Nat /\ (read # {} => ids # {}) BY <1>4, SourceFacts
<1>10. IsFiniteSet(ids)
<2> DEFINE f == [r \in read |-> r[1][2]]
<2>1. f \in Surjection(read, ids) BY DEF Surjection
<2> QED BY <1>3, <2>1, FS_Surjection
<1>11. Cardinality(read) \in Nat BY <1>3, FS_CardinalityType
<1>12. goesOn <=> Cardinality(read) >= BatchSize BY DEF PhaseGoesOn
<1>13. goesOn => /\ Max(ids) \in ids /\ \A r \in read : r[1][2] <= Max(ids)
<2>1. goesOn => ids # {} BY <1>1, <1>3, <1>9, <1>11, <1>12, FS_EmptySet
<2>2. \A r \in read : r[1][2] \in ids OBVIOUS
<2> HIDE DEF ids, goesOn
<2> QED BY <1>9, <1>10, <2>1, <2>2, FiniteMax
<1>14. chunk[w].at \in Phases /\ at \in Phases /\ after \in Nat
  BY <1>1, <1>9, <1>13, PhaseFacts DEF ChunkState
<1>15. \A s \in Sources : s[1] = chunk[w].at =>
         \/ InIndex(s)'
         \/ goesOn /\ \A r \in read : r[1][2] < s[2]
  BY <1>3, <1>7, <1>8, <1>12 DEF ChunkCovers, Keeps
<1>16. ASSUME NEW s \in Sources, LeftBehind(s, at, after) PROVE InIndex(s)'
<2>1. s[1] \in Phases /\ s[1] # "done" /\ s[2] \in Nat \ {0} BY SourceFacts
<2>2. CASE LeftBehind(s, chunk[w].at, chunk[w].after) BY <1>3, <1>7, <2>2 DEF Keeps
<2>3. CASE s[1] = chunk[w].at /\ ~goesOn BY <1>15, <2>3
<2>4. CASE s[1] = chunk[w].at /\ goesOn
<3>1. s[2] <= Max(ids) BY <1>16, <2>1, <2>4, <1>14, PhaseFacts DEF LeftBehind
<3>2. PICK r \in read : r[1][2] = Max(ids) BY <1>13, <2>4
<3>3. ~(r[1][2] < s[2]) BY <1>9, <1>13, <2>1, <2>4, <3>1, <3>2
<3> QED BY <1>15, <2>4, <3>3
<2>5. s[1] = chunk[w].at \/ LeftBehind(s, chunk[w].at, chunk[w].after)
<3>1. CASE goesOn
<4>1. at = chunk[w].at BY <3>1
<4>2. PhaseOrder[s[1]] < PhaseOrder[chunk[w].at] \/ s[1] = chunk[w].at
  BY <1>16, <4>1 DEF LeftBehind
<4> QED BY <4>2 DEF LeftBehind
<3>2. CASE ~goesOn
<4>1. at = NextPhase[chunk[w].at] /\ after = 0 BY <3>2
<4>2. PhaseOrder[s[1]] < PhaseOrder[at] BY <1>16, <2>1, <4>1 DEF LeftBehind
<4>3. PhaseOrder[at] <= PhaseOrder[chunk[w].at] + 1
  BY <1>14, <4>1, PhaseFacts
<4>4. PhaseOrder[s[1]] <= PhaseOrder[chunk[w].at] BY <1>14, <2>1, <4>2, <4>3, PhaseFacts
<4>5. PhaseOrder[s[1]] < PhaseOrder[chunk[w].at] \/ s[1] = chunk[w].at
  BY <1>14, <2>1, <4>4, PhaseFacts
<4> QED BY <4>5 DEF LeftBehind
<3> QED BY <3>1, <3>2
<2> QED BY <2>2, <2>3, <2>4, <2>5
<1>17. x \in ChunkState /\ x.pc = "save" /\ x.at = at /\ x.after = after BY <1>14 DEF ChunkState
<1>18. rebuild'.state = "succeeded" => \A s \in Sources : InIndex(s)'
  BY <1>2, <1>3, <1>7 DEF Keeps
<1>19. \A s \in Sources : LeftBehind(s, rebuild'.at, rebuild'.after) => InIndex(s)'
  BY <1>2, <1>3, <1>7 DEF Keeps
<1> HIDE DEF read, at, after, goesOn, ids
<1>20. chunk' = [chunk EXCEPT ![w] = x] BY <1>2
<1> HIDE DEF x
<1> QED
  BY <1>1, <1>2, <1>6, <1>7, <1>16, <1>17, <1>18, <1>19, <1>20, WorkerMoves

LEMMA SaveStep ==
  ASSUME SearchInv, NEW w \in Indexers, SavePayload(w)
  PROVE  SearchInv'
<1>1. /\ rebuild \in Rebuild /\ chunk \in [Indexers -> ChunkState] /\ chunk[w] \in ChunkState
  BY SearchTypes
<1> DEFINE saved == [rebuild EXCEPT !.at = chunk[w].at, !.after = chunk[w].after]
<1>2. /\ chunk[w].pc = "save" /\ rebuild' \in {saved, rebuild}
      /\ UNCHANGED <<rows, found, edits>>
      /\ \/ chunk' = [chunk EXCEPT ![w] = [chunk[w] EXCEPT !.pc = "ack"]] /\ chunk[w].at = "done"
         \/ chunk' = [chunk EXCEPT ![w] = [chunk[w] EXCEPT !.pc = "select"]]
         \/ chunk' = [chunk EXCEPT ![w] = NotRebuilding]
  BY <1>1 DEF SavePayload
<1>3. /\ rebuild.state = "succeeded" => \A s \in Sources : InIndex(s)
      /\ \A s \in Sources : LeftBehind(s, rebuild.at, rebuild.after) => InIndex(s)
      /\ \A s \in Sources : LeftBehind(s, chunk[w].at, chunk[w].after) => InIndex(s)
  BY <1>2 DEF SearchInv, RebuildFacts
<1>4. saved \in Rebuild /\ saved.state = rebuild.state /\ saved.at = chunk[w].at
      /\ saved.after = chunk[w].after
  BY <1>1 DEF Rebuild, ChunkState
<1> HIDE DEF saved
<1>5. /\ rebuild' \in Rebuild
      /\ rebuild'.state = "succeeded" => \A s \in Sources : InIndex(s)
      /\ \A s \in Sources : LeftBehind(s, rebuild'.at, rebuild'.after) => InIndex(s)
  BY <1>1, <1>2, <1>3, <1>4
<1>6. ASSUME NEW pc \in {"ack", "select"}, pc = "ack" => chunk[w].at = "done",
             chunk' = [chunk EXCEPT ![w] = [chunk[w] EXCEPT !.pc = pc]]
      PROVE  SearchInv'
<2> DEFINE x == [chunk[w] EXCEPT !.pc = pc]
<2>1. x \in ChunkState /\ x.pc = pc /\ x.at = chunk[w].at /\ x.after = chunk[w].after
  BY <1>1 DEF ChunkState
<2>2. chunk' = [chunk EXCEPT ![w] = x] BY <1>6
<2> HIDE DEF x
<2> QED BY <1>2, <1>3, <1>5, <1>6, <2>1, <2>2, WorkerAlone
<1>7. CASE chunk' = [chunk EXCEPT ![w] = NotRebuilding]
  BY <1>2, <1>5, <1>7, IdleWorker, WorkerAlone
<1> QED BY <1>2, <1>6, <1>7

LEMMA SearchInitHolds == SearchInit => SearchInv
<1> SUFFICES ASSUME SearchInit PROVE SearchInv OBVIOUS
<1>1. /\ rows \in [Sources -> Resource]
      /\ found = [s \in Sources |-> Missing]
      /\ rebuild = [state |-> "queued", at |-> "bots", after |-> 0, owner |-> "none", attempts |-> 0]
      /\ chunk = [w \in Indexers |-> NotRebuilding] /\ edits = 0
  BY DEF SearchInit, Resource
<1>2. Missing \in Document BY DEF Missing, Document, Resource
<1>3. rebuild \in Rebuild /\ rebuild.state = "queued" /\ rebuild.at = "bots" /\ rebuild.after = 0
  BY <1>1, SearchAssumption DEF Rebuild, Phases
<1>4. /\ chunk \in [Indexers -> ChunkState] /\ \A w \in Indexers : chunk[w].pc = "idle"
      /\ found \in [Sources -> Document] /\ edits \in 0..MaxEdits
  BY <1>1, <1>2, IdleWorker, SearchAssumption
<1>5. SearchTypeOK
  BY <1>1, <1>3, <1>4, PhaseFacts
  DEF SearchTypeOK, Resource, Document, ChunkState, Rebuild
<1>6. \A s \in Sources : ~LeftBehind(s, "bots", 0)
  BY SourceFacts, PhaseFacts DEF LeftBehind, PhaseOrder, Phases
<1>7. RebuildFacts BY <1>3, <1>4, <1>6 DEF RebuildFacts
<1> QED BY <1>5, <1>7 DEF SearchInv

LEMMA SearchStep == SearchInv /\ [SearchNext]_searchVars => SearchInv'
<1> SUFFICES ASSUME SearchInv, [SearchNext]_searchVars PROVE SearchInv' OBVIOUS
<1>1. CASE \/ \E s \in Sources : (\E r \in BotIds \cup {Workspace} : AddRow(s, r)) \/ DeleteNote(s)
           \/ \E b \in BotIds : \E kept \in SUBSET {s \in Sources : s[1] = "memory"} : DeleteBot(b, kept)
  BY <1>1, HostSteps
<1>2. ASSUME NEW w \in Indexers, ClaimRebuild(w) \/ RebuildFails(w) \/ IndexerDies(w) \/ AckRebuild(w)
      PROVE  SearchInv'
  BY <1>2, ClaimAndStopSteps
<1>3. ASSUME NEW w \in Indexers, SelectChunk(w) PROVE SearchInv' BY <1>3, SelectStep
<1>4. ASSUME NEW w \in Indexers, IndexChunk(w) PROVE SearchInv' BY <1>4, IndexStep
<1>5. ASSUME NEW w \in Indexers, SavePayload(w) PROVE SearchInv' BY <1>5, SaveStep
<1>6. CASE UNCHANGED searchVars
<2>1. Keeps /\ UNCHANGED <<rows, found, rebuild, chunk, edits>>
  BY <1>6 DEF searchVars, Keeps, InIndex, Exists
<2>2. SearchTypeOK' BY <2>1 DEF SearchInv, SearchTypeOK
<2> QED BY <2>1, <2>2, FactsStay DEF SearchInv
<1> QED BY <1>1, <1>2, <1>3, <1>4, <1>5, <1>6 DEF SearchNext

LEMMA SearchInvariant == SearchSpec => []SearchInv
BY SearchInitHolds, SearchStep, PTL DEF SearchSpec

(* The payload of the search.rebuild job and every worker's copy of it have
   left behind only rows that are indexed (search_index.py), although rows come
   and go between the selection of a chunk and its writing and workers lose
   their lease. *)
THEOREM RebuildFactsHold == SearchSpec => [](SearchTypeOK /\ RebuildFacts)
BY SearchInvariant, PTL DEF SearchInv

(* When the job has succeeded every row of the history is in the index. *)
THEOREM IndexCompleteHolds == SearchSpec => []IndexComplete
<1>1. SearchInv => IndexComplete BY DEF SearchInv, RebuildFacts, IndexComplete, InIndex
<1> QED BY <1>1, SearchInvariant, PTL

(***************************************************************************)
(* The event hub and the reader of a thread.                               *)
(***************************************************************************)

Stream == [at : {"off", "refresh", "opened", "durable", "replaying", "live"},
           queue : Seq(Evts), replay : Seq(Evts)]
Client == [mode : {"evt", "seq"}, after : 0..MaxEvts, seq : -1..MaxEvts, refreshing : BOOLEAN]

ReaderInv == EventsTypeOK /\ FeedFacts

(***************************************************************************)
(* Sequences and the buffer.                                               *)
(***************************************************************************)

LEMMA AppendRange ==
  ASSUME NEW S, NEW s \in Seq(S), NEW e \in S
  PROVE  /\ Append(s, e) \in Seq(S) /\ Len(Append(s, e)) = Len(s) + 1
         /\ Range(Append(s, e)) = Range(s) \cup {e}
<1>1. /\ Append(s, e) \in Seq(S) /\ Len(Append(s, e)) = Len(s) + 1
      /\ Append(s, e)[Len(s) + 1] = e /\ \A i \in 1..Len(s) : Append(s, e)[i] = s[i]
      /\ DOMAIN s = 1..Len(s) /\ DOMAIN Append(s, e) = 1..Len(s) + 1 /\ Len(s) \in Nat
  OBVIOUS
<1> DEFINE t == Append(s, e)
<1> HIDE DEF t
<1>2. ASSUME NEW x \in Range(t) PROVE x \in Range(s) \cup {e}
<2>1. PICK i \in 1..Len(s) + 1 : t[i] = x BY <1>1, <1>2 DEF Range, t
<2> QED BY <1>1, <2>1 DEF Range, t
<1>3. ASSUME NEW x \in Range(s) \cup {e} PROVE x \in Range(t)
<2>1. CASE x = e BY <1>1, <2>1 DEF Range, t
<2>2. CASE x \in Range(s)
<3>1. PICK i \in 1..Len(s) : s[i] = x BY <1>1, <2>2 DEF Range
<3> QED BY <1>1, <3>1 DEF Range, t
<2> QED BY <1>3, <2>1, <2>2
<1> QED BY <1>1, <1>2, <1>3 DEF t

LEMMA TailRange ==
  ASSUME NEW S, NEW s \in Seq(S), s # <<>>
  PROVE  /\ Tail(s) \in Seq(S) /\ Len(Tail(s)) = Len(s) - 1 /\ Head(s) \in S
         /\ Range(s) = {Head(s)} \cup Range(Tail(s))
<1>1. /\ Tail(s) \in Seq(S) /\ Len(Tail(s)) = Len(s) - 1 /\ Len(s) \in Nat \ {0}
      /\ \A i \in 1..Len(s) - 1 : Tail(s)[i] = s[i + 1]
      /\ DOMAIN s = 1..Len(s) /\ DOMAIN Tail(s) = 1..Len(s) - 1
      /\ Head(s) = s[1] /\ s[1] \in S
  OBVIOUS
<1> DEFINE t == Tail(s)
<1> HIDE DEF t
<1>2. ASSUME NEW x \in Range(t) PROVE x \in Range(s)
<2>1. PICK i \in 1..Len(s) - 1 : t[i] = x BY <1>1, <1>2 DEF Range, t
<2>2. s[i + 1] = x /\ i + 1 \in 1..Len(s) BY <1>1, <2>1 DEF t
<2> QED BY <1>1, <2>2 DEF Range
<1>3. ASSUME NEW x \in Range(s), x # Head(s) PROVE x \in Range(t)
<2>1. PICK i \in 1..Len(s) : s[i] = x BY <1>1, <1>3 DEF Range
<2>2. i - 1 \in 1..Len(s) - 1 /\ t[i - 1] = s[(i - 1) + 1] BY <1>1, <1>3, <2>1 DEF t
<2>3. t[i - 1] = x BY <2>1, <2>2
<2> QED BY <1>1, <2>2, <2>3 DEF Range, t
<1>4. Head(s) \in Range(s) BY <1>1 DEF Range
<1> QED BY <1>1, <1>2, <1>3, <1>4 DEF t

LEMMA NatMin ==
  ASSUME NEW S, S \subseteq Nat, S # {}
  PROVE  Min(S) \in S /\ \A x \in S : Min(S) <= x
<1>1. PICK m \in S : \A k \in S : ~(<<k, m>> \in OpToRel(<, Nat))
  BY NatLessThanWellFounded, WFMin
<1>2. ASSUME NEW k \in S PROVE m <= k
<2>1. ~(k < m) /\ k \in Nat /\ m \in Nat BY <1>1 DEF OpToRel
<2> QED BY <2>1
<1> QED BY <1>2 DEF Min

(* b is the buffer with e after what it holds: of what it keeps, nothing has
   changed places. *)
Follows(b, e) ==
  /\ b \in Seq(Evts) /\ Len(b) <= BufferSize /\ Range(b) \subseteq Range(buf) \cup {e}
  /\ \A i, j \in DOMAIN b : b[i] = b[j] => i = j
  /\ \A c \in Range(b) \ {e} :
       /\ \E i, j \in DOMAIN b : i > j /\ b[i] = e /\ b[j] = c
       /\ \A x : (\E i, j \in DOMAIN buf : i > j /\ buf[i] = x /\ buf[j] = c)
                 => \E i, j \in DOMAIN b : i > j /\ b[i] = x /\ b[j] = c

LEMMA BufferedFacts ==
  ASSUME NEW e \in Evts, buf \in Seq(Evts), Len(buf) <= BufferSize, e \notin Range(buf),
         \A i, j \in DOMAIN buf : buf[i] = buf[j] => i = j
  PROVE  Follows(Buffered(e), e)
<1> DEFINE b == Buffered(e)
           gone == IF Len(buf) < BufferSize THEN 0 ELSE 1
<1>1. BufferSize \in Nat \ {0} /\ Len(buf) \in Nat /\ DOMAIN buf = 1..Len(buf)
  BY EventsAssumption
<1>2. /\ b \in Seq(Evts) /\ Len(b) = Len(buf) + 1 - gone /\ b[Len(b)] = e
      /\ \A k \in 1..Len(b) - 1 : b[k] = buf[k + gone]
<2>1. CASE Len(buf) < BufferSize BY <1>1, <2>1 DEF Buffered
<2>2. CASE ~(Len(buf) < BufferSize)
<3>1. buf # <<>> BY <1>1, <2>2
<3>2. /\ Tail(buf) \in Seq(Evts) /\ Len(Tail(buf)) = Len(buf) - 1
      /\ \A k \in 1..Len(buf) - 1 : Tail(buf)[k] = buf[k + 1]
  BY <3>1
<3>3. b = Append(Tail(buf), e) /\ gone = 1 BY <2>2 DEF Buffered
<3> QED BY <1>1, <3>2, <3>3
<2> QED BY <2>1, <2>2
<1>3. gone \in {0, 1} /\ DOMAIN b = 1..Len(b) /\ Len(b) \in Nat \ {0} BY <1>1, <1>2
<1>4. Len(b) <= BufferSize BY <1>1, <1>2
<1> HIDE DEF b, gone
<1>5. \A k \in 1..Len(b) - 1 : k + gone \in 1..Len(buf) BY <1>1, <1>2, <1>3
<1>6. \A x \in Range(b) \ {e} : \E k \in 1..Len(b) - 1 : b[k] = x
<2> TAKE x \in Range(b) \ {e}
<2>1. PICK k \in 1..Len(b) : b[k] = x BY <1>3 DEF Range
<2>2. k # Len(b) BY <1>2, <2>1
<2>3. Len(b) \in Nat BY <1>3
<2>4. k \in Nat /\ 1 <= k /\ k <= Len(b) BY <2>1, <2>3
<2>5. k <= Len(b) - 1 BY <2>2, <2>3, <2>4
<2>6. k \in 1..Len(b) - 1 BY <2>3, <2>4, <2>5
<2> QED BY <2>1, <2>6
<1>7. Range(b) \subseteq Range(buf) \cup {e}
<2> SUFFICES ASSUME NEW x \in Range(b) \ {e} PROVE x \in Range(buf) OBVIOUS
<2>1. PICK k \in 1..Len(b) - 1 : b[k] = x BY <1>6
<2> QED BY <1>1, <1>2, <1>5, <2>1 DEF Range
<1>8. \A k \in 1..Len(b) - 1 : b[k] # e BY <1>1, <1>2, <1>5 DEF Range
<1>9. ASSUME NEW i \in DOMAIN b, NEW j \in DOMAIN b, b[i] = b[j] PROVE i = j
<2>1. CASE i = Len(b) \/ j = Len(b) BY <1>2, <1>3, <1>8, <1>9, <2>1
<2>2. CASE i # Len(b) /\ j # Len(b)
<3>1. i \in 1..Len(b) - 1 /\ j \in 1..Len(b) - 1 BY <1>3, <2>2
<3>2. buf[i + gone] = buf[j + gone] BY <1>2, <1>9, <3>1
<3>3. i + gone = j + gone BY <1>1, <1>5, <3>1, <3>2
<3> QED BY <1>3, <3>1, <3>3
<2> QED BY <2>1, <2>2
<1>10. ASSUME NEW c \in Range(b) \ {e}
       PROVE /\ \E i, j \in DOMAIN b : i > j /\ b[i] = e /\ b[j] = c
             /\ \A x : (\E i, j \in DOMAIN buf : i > j /\ buf[i] = x /\ buf[j] = c)
                       => \E i, j \in DOMAIN b : i > j /\ b[i] = x /\ b[j] = c
<2>1. PICK k \in 1..Len(b) - 1 : b[k] = c BY <1>6
<2>2. \E i, j \in DOMAIN b : i > j /\ b[i] = e /\ b[j] = c
<3>1. Len(b) \in DOMAIN b /\ k \in DOMAIN b /\ Len(b) > k BY <1>3, <2>1
<3> QED BY <1>2, <2>1, <3>1
<2>3. ASSUME NEW x, NEW i \in DOMAIN buf, NEW j \in DOMAIN buf, i > j, buf[i] = x, buf[j] = c
      PROVE \E p, q \in DOMAIN b : p > q /\ b[p] = x /\ b[q] = c
<3>1. j = k + gone
<4>1. buf[k + gone] = c BY <1>2, <2>1
<4>2. k + gone \in DOMAIN buf BY <1>1, <1>5
<4> QED BY <2>3, <4>1, <4>2
<3>2. i - gone \in 1..Len(b) - 1 /\ k \in DOMAIN b /\ i - gone > k
  BY <1>1, <1>2, <1>3, <2>3, <3>1
<3> DEFINE p == i - gone
<3>3. p + gone = i /\ p \in DOMAIN b BY <1>1, <1>3, <2>3, <3>2
<3>4. b[p] = buf[p + gone] BY <1>2, <3>2
<3> QED BY <2>1, <2>3, <3>2, <3>3, <3>4
<2> QED BY <2>2, <2>3
<1>11. /\ \A i, j \in DOMAIN b : b[i] = b[j] => i = j
       /\ \A c \in Range(b) \ {e} :
            /\ \E i, j \in DOMAIN b : i > j /\ b[i] = e /\ b[j] = c
            /\ \A x : (\E i, j \in DOMAIN buf : i > j /\ buf[i] = x /\ buf[j] = c)
                      => \E i, j \in DOMAIN b : i > j /\ b[i] = x /\ b[j] = c
  BY <1>9, <1>10
<1>12. Follows(b, e) BY <1>2, <1>4, <1>7, <1>11 DEF Follows
<1> QED BY <1>12 DEF b

LEMMA ReplayFacts ==
  ASSUME NEW c \in Evts, buf \in Seq(Evts), c \in Range(buf)
  PROVE  /\ ReplayAfter(c) \in Seq(Evts) /\ Range(ReplayAfter(c)) \subseteq Range(buf)
         /\ \A i, j \in DOMAIN buf : i > j /\ buf[j] = c => buf[i] \in Range(ReplayAfter(c))
<1> DEFINE n == Len(buf)
           at == {i \in 1..n : buf[i] = c} \cup {n}
           m == Min(at)
           r == SubSeq(buf, m + 1, n)
<1>1. n \in Nat /\ DOMAIN buf = 1..n /\ c \in Nat /\ c # 0 BY EventsAssumption DEF Evts
<1>2. n # 0 BY <1>1 DEF Range
<1>3. at \subseteq 1..n /\ at # {} BY <1>1, <1>2
<1> HIDE DEF at
<1>4. m \in at /\ \A x \in at : m <= x BY <1>3, NatMin, 1..n \subseteq Nat
<1>5. m \in 1..n /\ \A i \in 1..n : buf[i] = c => m <= i BY <1>3, <1>4 DEF at
<1> HIDE DEF m
<1>6. ReplayAfter(c) = r BY <1>1 DEF ReplayAfter, at, m
<1>7. r \in Seq(Evts) /\ DOMAIN r = 1..n - m /\ \A k \in 1..n - m : r[k] = buf[m + k]
<2>1. \A k \in m + 1..n : buf[k] \in Evts BY <1>1, <1>5
<2>2. m + 1 \in Int /\ n \in Int /\ m \in Int /\ n - m \in Nat BY <1>1, <1>5
<2>3. /\ r \in Seq(Evts) /\ Len(r) = IF m + 1 <= n THEN n - (m + 1) + 1 ELSE 0
      /\ \A k \in 1..n - (m + 1) + 1 : r[k] = buf[(m + 1) + k - 1]
<3> HIDE DEF n
<3> QED BY <2>1, <2>2, SubSeqProperties
<2>4. r \in Seq(Evts) /\ DOMAIN r = 1..n - m
<3> HIDE DEF r, n
<3>1. Len(r) = n - m BY <1>1, <1>5, <2>2, <2>3
<3> QED BY <2>3, <3>1
<2>5. ASSUME NEW k \in 1..n - m PROVE r[k] = buf[m + k]
<3> HIDE DEF r
<3>1. (m + 1) + k - 1 = m + k /\ k \in 1..n - (m + 1) + 1 BY <1>1, <1>5
<3> QED BY <2>3, <3>1
<2> QED BY <2>4, <2>5
<1> HIDE DEF r, n
<1>8. ASSUME NEW x \in Range(r) PROVE x \in Range(buf)
<2>1. PICK k \in 1..n - m : r[k] = x BY <1>7, <1>8 DEF Range
<2>2. m + k \in 1..n BY <1>1, <1>5, <2>1
<2> QED BY <1>1, <1>7, <2>1, <2>2 DEF Range
<1>9. ASSUME NEW i \in DOMAIN buf, NEW j \in DOMAIN buf, i > j, buf[j] = c
      PROVE buf[i] \in Range(r)
<2>1. m <= j /\ i - m \in 1..n - m /\ m + (i - m) = i BY <1>1, <1>5, <1>9
<2>2. r[i - m] = buf[m + (i - m)] BY <1>7, <2>1
<2> QED BY <1>7, <2>1, <2>2 DEF Range
<1> QED BY <1>6, <1>7, <1>8, <1>9

(***************************************************************************)
(* The reader with an event cursor.                                        *)
(***************************************************************************)

LEMMA ReaderShape ==
  ASSUME EventsTypeOK
  PROVE  /\ stream \in Stream /\ client \in Client
         /\ stream = [at |-> stream.at, queue |-> stream.queue, replay |-> stream.replay]
         /\ client.after \in 0..MaxEvts /\ client.seq \in -1..MaxEvts
         /\ stream.queue \in Seq(Evts) /\ stream.replay \in Seq(Evts)
         /\ client.refreshing \in BOOLEAN
BY DEF EventsTypeOK, Stream, Client

(* A stream as a step leaves it, from its parts. *)
LEMMA ModeStays ==
  ASSUME "mode" \in DOMAIN client, [EventsNext]_eventVars
  PROVE  "mode" \in DOMAIN client' /\ client'.mode = client.mode
<1> USE DEF Received
<1>1. CASE EventsNext
<2>1. ASSUME NEW e \in Evts, \/ InsertRow(e) \/ CommitRow(e) \/ PublishOnLoop(e)
                             \/ PublishFromThread(e) \/ ResumeFromSequence(e)
      PROVE "mode" \in DOMAIN client' /\ client'.mode = client.mode
  BY <2>1 DEF InsertRow, CommitRow, PublishOnLoop, PublishFromThread, ResumeFromSequence
<2>2. CASE \/ LoopPuts \/ PruneActivity \/ RefreshThread \/ Subscribe \/ StreamBreaks \/ HubRestarts
  BY <2>2 DEF LoopPuts, PruneActivity, RefreshThread, Subscribe, StreamBreaks, HubRestarts
<2>3. CASE \/ HubReplay \/ ReplayYields \/ QueueYields \/ RefreshEnds
  BY <2>3 DEF HubReplay, ReplayYields, QueueYields, RefreshEnds
<2>4. CASE DurableReplay \/ DurableYields
  BY <2>4 DEF DurableReplay, DurableYields
<2> QED BY <1>1, <2>1, <2>2, <2>3, <2>4 DEF EventsNext
<1>2. CASE UNCHANGED eventVars BY <1>2 DEF eventVars
<1> QED BY <1>1, <1>2

(* What a full queue drops was published; the rest of the queue stays. *)
LEMMA EnqueuedFacts ==
  ASSUME EventsTypeOK, NEW e \in Evts
  PROVE  /\ Enqueued(e) \in Seq(Evts) /\ Len(Enqueued(e)) <= QueueSize
         /\ Range(Enqueued(e)) \subseteq Range(stream.queue) \cup {e}
         /\ Range(stream.queue) \cup {e} \subseteq Range(Enqueued(e)) \cup Dropped \cup known
         /\ Dropped \subseteq Range(stream.queue)
<1> DEFINE q == stream.queue
<1>1. q \in Seq(Evts) /\ Len(q) <= QueueSize /\ Len(q) \in Nat /\ QueueSize \in Nat \ {0}
  BY ReaderShape, EventsAssumption DEF EventsTypeOK
<1>2. CASE Len(q) < QueueSize
<2>1. Enqueued(e) = Append(q, e) /\ Dropped = {} BY <1>2 DEF Enqueued, Dropped
<2> HIDE DEF q
<2>2. /\ Append(q, e) \in Seq(Evts) /\ Len(Append(q, e)) = Len(q) + 1
      /\ Range(Append(q, e)) = Range(q) \cup {e}
  BY <1>1, AppendRange
<2> QED BY <1>1, <1>2, <2>1, <2>2 DEF q
<1>3. CASE ~(Len(q) < QueueSize)
<2>1. Enqueued(e) = Append(Tail(q), e) /\ Dropped = {Head(q)} \ known
  BY <1>3 DEF Enqueued, Dropped
<2> HIDE DEF q
<2>2. q # <<>> BY <1>1, <1>3
<2>3. /\ Tail(q) \in Seq(Evts) /\ Len(Tail(q)) = Len(q) - 1
      /\ Range(q) = {Head(q)} \cup Range(Tail(q))
  BY <1>1, <2>2, TailRange
<2>4. /\ Append(Tail(q), e) \in Seq(Evts) /\ Len(Append(Tail(q), e)) = Len(Tail(q)) + 1
      /\ Range(Append(Tail(q), e)) = Range(Tail(q)) \cup {e}
<3> DEFINE t == Tail(q)
<3> HIDE DEF t
<3>1. t \in Seq(Evts) BY <2>3 DEF t
<3>2. /\ Append(t, e) \in Seq(Evts) /\ Len(Append(t, e)) = Len(t) + 1
      /\ Range(Append(t, e)) = Range(t) \cup {e}
  BY <3>1, AppendRange
<3> QED BY <3>2 DEF t
<2>5. Len(Enqueued(e)) <= QueueSize BY <1>1, <2>1, <2>3, <2>4
<2> QED BY <1>1, <2>1, <2>3, <2>4, <2>5 DEF q
<1> QED BY <1>2, <1>3

(* The steps that write only the table. *)
LEMMA RowSteps ==
  ASSUME ReaderInv, \/ \E e \in Evts : InsertRow(e) \/ CommitRow(e)
                    \/ PruneActivity
  PROVE  ReaderInv'
<1>1. /\ UNCHANGED <<buf, puts, stream, client, known, lost, drops>>
      /\ evt' \in [Evts -> {"none", "inserted", "committed", "published"}]
      /\ Published' = Published /\ Visible \subseteq Visible' /\ logRows' \subseteq Visible'
<2>1. ASSUME NEW e \in Evts, InsertRow(e) \/ CommitRow(e)
      PROVE  /\ UNCHANGED <<buf, puts, stream, client, known, lost, drops>>
             /\ evt' \in [Evts -> {"none", "inserted", "committed", "published"}]
             /\ Published' = Published /\ Visible \subseteq Visible' /\ logRows' \subseteq Visible'
<3>1. logRows' \subseteq logRows \cup {e} /\ (logRows' # logRows => e \in Visible')
      /\ \A d \in Evts \ {e} : evt'[d] = evt[d]
  BY <2>1 DEF InsertRow, CommitRow, ReaderInv, EventsTypeOK, Visible
<3>2. evt[e] \in {"none", "inserted"} /\ evt'[e] \in {"inserted", "committed"}
  BY <2>1 DEF InsertRow, CommitRow, ReaderInv, EventsTypeOK
<3>3. Published' = Published /\ Visible \subseteq Visible'
  BY <3>1, <3>2 DEF Published, Visible
<3>4. logRows' \subseteq Visible' BY <3>1, <3>3 DEF ReaderInv, EventsTypeOK
<3> QED BY <2>1, <3>3, <3>4 DEF InsertRow, CommitRow, ReaderInv, EventsTypeOK
<2>2. CASE PruneActivity BY <2>2 DEF PruneActivity, ReaderInv, EventsTypeOK, Visible, Published
<2> QED BY <2>1, <2>2
<1>2. EventsTypeOK' BY <1>1 DEF ReaderInv, EventsTypeOK
<1>3. FeedFacts' BY <1>1 DEF ReaderInv, FeedFacts, AfterCursor, Reader
<1> QED BY <1>2, <1>3 DEF ReaderInv

LEMMA PublishSteps ==
  ASSUME ReaderInv, Reader, NEW e \in Evts, PublishOnLoop(e) \/ PublishFromThread(e)
  PROVE  ReaderInv'
<1>1. /\ evt[e] = "committed" /\ evt' = [evt EXCEPT ![e] = "published"] /\ buf' = Buffered(e)
      /\ UNCHANGED <<logRows, client, known, drops>>
  BY DEF PublishOnLoop, PublishFromThread
<1>2. /\ evt \in [Evts -> {"none", "inserted", "committed", "published"}]
      /\ buf \in Seq(Evts) /\ Len(buf) <= BufferSize /\ puts \in Seq(Evts)
      /\ stream.queue \in Seq(Evts) /\ lost \subseteq Evts
  BY ReaderShape DEF ReaderInv, EventsTypeOK
<1>3. Published' = Published \cup {e} /\ Visible' = Visible /\ e \notin Published
  BY <1>1, <1>2 DEF Published, Visible
<1>4. /\ Range(buf) \cup Range(puts) \cup Range(stream.queue) \cup Range(stream.replay) \subseteq Published
      /\ \A i, j \in DOMAIN buf : buf[i] = buf[j] => i = j
      /\ client.after # 0 => client.after \in known \cap Published
  BY DEF ReaderInv, FeedFacts
<1>5. /\ buf' \in Seq(Evts) /\ Len(buf') <= BufferSize /\ Range(buf') \subseteq Range(buf) \cup {e}
      /\ \A i, j \in DOMAIN buf' : buf'[i] = buf'[j] => i = j
      /\ \A c \in Range(buf') \ {e} :
           /\ \E i, j \in DOMAIN buf' : i > j /\ buf'[i] = e /\ buf'[j] = c
           /\ \A x : (\E i, j \in DOMAIN buf : i > j /\ buf[i] = x /\ buf[j] = c)
                     => \E i, j \in DOMAIN buf' : i > j /\ buf'[i] = x /\ buf'[j] = c
<2>1. e \notin Range(buf) BY <1>3, <1>4
<2>2. Follows(Buffered(e), e) BY <1>2, <1>4, <2>1, BufferedFacts
<2>3. Follows(buf', e) BY <1>1, <2>2
<2> QED BY <2>3 DEF Follows
<1>6. /\ Range(puts') \cup Range(stream'.queue) \subseteq Range(puts) \cup Range(stream.queue) \cup {e}
      /\ stream'.at = stream.at /\ stream'.replay = stream.replay
      /\ puts' \in Seq(Evts) /\ stream'.queue \in Seq(Evts) /\ Len(stream'.queue) <= QueueSize
      /\ lost' \subseteq Evts /\ stream' \in Stream
      /\ lost \subseteq lost'
      /\ Attached => Range(puts) \cup Range(stream.queue) \cup {e}
                     \subseteq Range(puts') \cup Range(stream'.queue) \cup lost' \cup known
<2>1. /\ stream \in Stream /\ Len(stream.queue) <= QueueSize
      /\ stream = [at |-> stream.at, queue |-> stream.queue, replay |-> stream.replay]
  BY ReaderShape DEF ReaderInv, EventsTypeOK
<2>2. CASE PublishOnLoop(e) /\ Attached
<3>1. /\ stream' = [stream EXCEPT !.queue = Enqueued(e)] /\ lost' = lost \cup Dropped /\ puts' = puts
  BY <2>2 DEF PublishOnLoop
<3>2. /\ stream'.at = stream.at /\ stream'.replay = stream.replay /\ stream'.queue = Enqueued(e)
  BY <2>1, <3>1
<3>3. /\ Enqueued(e) \in Seq(Evts) /\ Len(Enqueued(e)) <= QueueSize
      /\ Range(Enqueued(e)) \subseteq Range(stream.queue) \cup {e}
      /\ Range(stream.queue) \cup {e} \subseteq Range(Enqueued(e)) \cup Dropped \cup known
      /\ Dropped \subseteq Range(stream.queue)
  BY EnqueuedFacts DEF ReaderInv
<3>4. stream' \in Stream BY <2>1, <3>1, <3>3 DEF Stream
<3>5. Dropped \subseteq Evts BY <1>4, <3>3 DEF Published
<3> QED BY <1>2, <3>1, <3>2, <3>3, <3>4, <3>5
<2>3. CASE PublishFromThread(e) /\ Attached
<3>1. puts' = Append(puts, e) /\ stream' = stream /\ lost' = lost
  BY <2>3 DEF PublishFromThread
<3>2. Append(puts, e) \in Seq(Evts) /\ Range(Append(puts, e)) = Range(puts) \cup {e}
  BY <1>2, AppendRange
<3> QED BY <1>2, <2>1, <3>1, <3>2
<2>4. CASE ~Attached
<3>1. puts' = puts /\ stream' = stream /\ lost' = lost
  BY <2>4 DEF PublishOnLoop, PublishFromThread
<3> QED BY <1>2, <2>1, <2>4, <3>1
<2> QED BY <2>2, <2>3, <2>4
<1>7. EventsTypeOK'
<2>1. evt' \in [Evts -> {"none", "inserted", "committed", "published"}] BY <1>1, <1>2
<2>2. logRows' \subseteq Visible' BY <1>1, <1>3 DEF ReaderInv, EventsTypeOK
<2> QED BY <1>1, <1>5, <1>6, <2>1, <2>2 DEF ReaderInv, EventsTypeOK, Stream
<1>8. \A x \in Published' \ known : (stream.at \in {"refresh", "opened"}) => AfterCursor(x)'
<2> SUFFICES ASSUME NEW x \in Published' \ known, stream.at \in {"refresh", "opened"},
                    client.after \in Range(buf')
             PROVE  \E i, j \in DOMAIN buf' : i > j /\ buf'[i] = x /\ buf'[j] = client.after
  BY <1>1 DEF AfterCursor
<2>1. client.after # e
  BY <1>2, <1>3, <1>4, <1>5 , EventsAssumption DEF Evts
<2>2. CASE x = e BY <1>5, <2>1, <2>2
<2>3. CASE x # e
<3>1. x \in Published \ known /\ client.after \in Range(buf) BY <1>3, <1>5, <2>1, <2>3
<3>2. \E i, j \in DOMAIN buf : i > j /\ buf[i] = x /\ buf[j] = client.after
  BY <3>1 DEF ReaderInv, FeedFacts, AfterCursor
<3> QED BY <1>5, <2>1, <3>2
<2> QED BY <2>2, <2>3
<1>9. ASSUME stream.at \in {"replaying", "live"}, ~client.refreshing
      PROVE  Published' \subseteq known \cup lost' \cup Range(stream.replay) \cup Range(stream'.queue) \cup Range(puts')
<2>1. Published \subseteq known \cup lost \cup Range(stream.replay) \cup Range(stream.queue) \cup Range(puts)
  BY <1>9 DEF ReaderInv, FeedFacts
<2>2. Attached BY <1>9 DEF Attached
<2> QED BY <1>3, <1>6, <2>1, <2>2
<1>10. /\ client.seq = -1 /\ stream.at # "durable" /\ (stream.at # "replaying" => stream.replay = <<>>)
  BY DEF ReaderInv, FeedFacts
<1>11. Range(buf') \cup Range(puts') \cup Range(stream'.queue) \cup Range(stream'.replay) \subseteq Published'
  BY <1>3, <1>4, <1>5, <1>6
<1>12. client'.after # 0 => client'.after \in known' \cap Published' BY <1>1, <1>3, <1>4
<1>13. FeedFacts' BY <1>1, <1>5, <1>6, <1>8, <1>9, <1>10, <1>11, <1>12 DEF FeedFacts
<1> QED BY <1>7, <1>13 DEF ReaderInv

LEMMA ReaderTypes ==
  ASSUME ReaderInv, Reader
  PROVE  /\ evt \in [Evts -> {"none", "inserted", "committed", "published"}]
         /\ buf \in Seq(Evts) /\ puts \in Seq(Evts) /\ stream \in Stream /\ client \in Client
         /\ stream.queue \in Seq(Evts) /\ stream.replay \in Seq(Evts)
         /\ known \subseteq Evts /\ lost \subseteq Evts
         /\ Published \subseteq Visible /\ Visible \subseteq Evts
         /\ Range(buf) \cup Range(puts) \cup Range(stream.queue) \cup Range(stream.replay) \subseteq Published
         /\ client.seq = -1 /\ stream.at # "durable"
         /\ client.after # 0 => client.after \in known \cap Published
         /\ stream.at # "replaying" => stream.replay = <<>>
         /\ stream.at \in {"replaying", "live"} /\ ~client.refreshing =>
              Published \subseteq known \cup lost \cup Range(stream.replay) \cup Range(stream.queue) \cup Range(puts)
<1>1. Published \subseteq Visible /\ Visible \subseteq Evts BY DEF Published, Visible
<1>2. EventsTypeOK BY DEF ReaderInv
<1>3. /\ evt \in [Evts -> {"none", "inserted", "committed", "published"}]
      /\ buf \in Seq(Evts) /\ puts \in Seq(Evts) /\ known \subseteq Evts /\ lost \subseteq Evts
  BY <1>2 DEF EventsTypeOK
<1> QED BY <1>1, <1>2, <1>3, ReaderShape DEF ReaderInv, FeedFacts

(* A step of the client's stream, or one that breaks it: the events stay where
   they are and the buffer does too, or is lost with the stream. *)
LEMMA StreamSteps ==
  ASSUME ReaderInv, Reader,
         evt' = evt \/ /\ stream'.at = "off"
                       /\ evt' = [e \in Evts |-> IF evt[e] \in {"none", "inserted"} THEN evt[e] ELSE "published"],
         logRows' = logRows,
         buf' = buf \/ (buf' = <<>> /\ stream'.at = "off"),
         puts' \in Seq(Evts), stream' \in Stream, Len(stream'.queue) <= QueueSize,
         client' \in Client, client'.seq = -1, known' \subseteq Evts, lost' \subseteq Evts,
         drops' \in 0..MaxDrops, known \subseteq known',
         stream'.at # "durable",
         Range(puts') \cup Range(stream'.queue) \cup Range(stream'.replay) \subseteq Published,
         client'.after # 0 => client'.after \in known' \cap Published,
         stream'.at # "replaying" => stream'.replay = <<>>,
         stream'.at \in {"refresh", "opened"} =>
           \/ Published \subseteq known'
           \/ stream.at \in {"refresh", "opened"} /\ client'.after = client.after,
         stream'.at \in {"replaying", "live"} /\ ~client'.refreshing =>
           Published \subseteq known' \cup lost' \cup Range(stream'.replay) \cup Range(stream'.queue) \cup Range(puts')
  PROVE  ReaderInv'
<1>1. evt \in [Evts -> {"none", "inserted", "committed", "published"}] BY ReaderTypes
<1>2. /\ evt' \in [Evts -> {"none", "inserted", "committed", "published"}]
      /\ Visible' = Visible /\ Published \subseteq Published'
      /\ stream'.at # "off" => Published' = Published
  BY <1>1 DEF Visible, Published
<1>3. /\ buf \in Seq(Evts) /\ Len(buf) <= BufferSize /\ Range(buf) \subseteq Published
      /\ \A i, j \in DOMAIN buf : buf[i] = buf[j] => i = j
  BY DEF ReaderInv, EventsTypeOK, FeedFacts
<1>4. /\ buf' \in Seq(Evts) /\ Len(buf') <= BufferSize /\ Range(buf') \subseteq Published'
      /\ \A i, j \in DOMAIN buf' : buf'[i] = buf'[j] => i = j
<2>1. CASE buf' = buf BY <1>2, <1>3, <2>1
<2>2. CASE buf' = <<>> BY <2>2, EventsAssumption DEF Range
<2> QED BY <2>1, <2>2
<1>5. EventsTypeOK'
<2>1. logRows' \subseteq Visible' BY <1>2 DEF ReaderInv, EventsTypeOK
<2> QED BY <1>2, <1>4, <2>1 DEF EventsTypeOK, Stream, Client
<1>6. stream'.at \in {"refresh", "opened"} => \A e \in Published' \ known' : AfterCursor(e)'
<2>1. SUFFICES ASSUME stream'.at \in {"refresh", "opened"}, NEW e \in Published' \ known'
               PROVE  AfterCursor(e)'
  OBVIOUS
<2>2. Published' = Published /\ buf' = buf BY <1>2, <2>1
<2>3. stream.at \in {"refresh", "opened"} /\ client'.after = client.after BY <2>1, <2>2
<2>4. AfterCursor(e) BY <2>1, <2>2, <2>3 DEF ReaderInv, FeedFacts
<2> QED BY <2>2, <2>3, <2>4 DEF AfterCursor
<1>7. stream'.at \in {"replaying", "live"} => Published' = Published BY <1>2
<1>8. FeedFacts' BY <1>2, <1>4, <1>6, <1>7 DEF FeedFacts
<1> QED BY <1>5, <1>8 DEF ReaderInv

(* What the stream hands over next is of the published ones, and the rest is left. *)
LEMMA LoopPutsStep ==
  ASSUME ReaderInv, Reader, LoopPuts
  PROVE  ReaderInv'
<1>1. /\ puts # <<>> /\ puts' = Tail(puts) /\ stream' = [stream EXCEPT !.queue = Enqueued(Head(puts))]
      /\ lost' = lost \cup Dropped /\ UNCHANGED <<evt, logRows, buf, client, known, drops>>
  BY DEF LoopPuts
<1> DEFINE e == Head(puts)
           q == Enqueued(e)
<1>2. /\ Tail(puts) \in Seq(Evts) /\ e \in Evts /\ Range(puts) = {e} \cup Range(Tail(puts))
  BY <1>1, ReaderTypes, TailRange
<1> HIDE DEF e
<1>3. /\ q \in Seq(Evts) /\ Len(q) <= QueueSize /\ Range(q) \subseteq Range(stream.queue) \cup {e}
      /\ Range(stream.queue) \cup {e} \subseteq Range(q) \cup Dropped \cup known
      /\ Dropped \subseteq Range(stream.queue)
  BY <1>2, EnqueuedFacts DEF ReaderInv
<1>4. stream' = [stream EXCEPT !.queue = q] BY <1>1 DEF e
<1> HIDE DEF q
<1>5. /\ stream' \in Stream /\ stream'.at = stream.at /\ stream'.queue = q
      /\ stream'.replay = stream.replay
  BY <1>3, <1>4, ReaderTypes DEF Stream
<1>6. drops' \in 0..MaxDrops BY <1>1 DEF ReaderInv, EventsTypeOK
<1>7. Range(puts') \cup Range(stream'.queue) \cup Range(stream'.replay) \subseteq Published
  BY <1>1, <1>2, <1>3, <1>5, ReaderTypes
<1>8. stream'.at \in {"replaying", "live"} /\ ~client'.refreshing =>
        Published \subseteq known' \cup lost' \cup Range(stream'.replay) \cup Range(stream'.queue) \cup Range(puts')
  BY <1>1, <1>2, <1>3, <1>5, ReaderTypes
<1>9. lost' \subseteq Evts BY <1>1, <1>3, ReaderTypes
<1> QED BY <1>1, <1>2, <1>3, <1>5, <1>6, <1>7, <1>8, <1>9, ReaderTypes, StreamSteps

LEMMA OffFacts ==
  /\ Off \in Stream /\ Off.at = "off" /\ Off.queue = <<>> /\ Off.replay = <<>>
  /\ Len(Off.queue) <= QueueSize /\ Range(<<>>) = {}
BY EventsAssumption DEF Off, Stream, Range

LEMMA ConnectSteps ==
  ASSUME ReaderInv, Reader, RefreshThread \/ Subscribe \/ RefreshEnds \/ StreamBreaks \/ HubRestarts
  PROVE  ReaderInv'
<1> USE ReaderTypes, OffFacts
<1>1. CASE RefreshThread
<2>1. /\ stream' = [stream EXCEPT !.at = "refresh"] /\ known' = known \cup Visible
      /\ stream.at = "off" /\ UNCHANGED <<evt, logRows, buf, puts, client, lost, drops>>
  BY <1>1 DEF RefreshThread
<2>2. /\ stream' \in Stream /\ stream'.at = "refresh" /\ stream'.queue = stream.queue
      /\ stream'.replay = stream.replay
  BY <2>1 DEF Stream
<2>3. drops' \in 0..MaxDrops /\ Len(stream'.queue) <= QueueSize
  BY <2>1, <2>2 DEF ReaderInv, EventsTypeOK
<2> QED BY <2>1, <2>2, <2>3, StreamSteps
<1>2. CASE Subscribe
<2>1. /\ stream' = [Off EXCEPT !.at = "opened"] /\ stream.at = "refresh"
      /\ UNCHANGED <<evt, logRows, buf, puts, client, known, lost, drops>>
  BY <1>2 DEF Subscribe
<2>2. /\ stream' \in Stream /\ stream'.at = "opened" /\ stream'.queue = <<>>
      /\ stream'.replay = <<>>
  BY <2>1 DEF Off, Stream
<2>3. drops' \in 0..MaxDrops /\ Len(stream'.queue) <= QueueSize
  BY <2>1, <2>2 DEF ReaderInv, EventsTypeOK
<2> QED BY <2>1, <2>2, <2>3, StreamSteps
<1>3. CASE RefreshEnds
<2>1. /\ client' = [client EXCEPT !.refreshing = FALSE] /\ known' = known \cup Visible
      /\ UNCHANGED <<evt, logRows, buf, puts, stream, lost, drops>>
  BY <1>3 DEF RefreshEnds
<2>2. client' \in Client /\ client'.seq = -1 /\ client'.after = client.after
  BY <2>1 DEF Client
<2>3. drops' \in 0..MaxDrops /\ Len(stream'.queue) <= QueueSize
  BY <2>1 DEF ReaderInv, EventsTypeOK
<2> QED BY <2>1, <2>2, <2>3, StreamSteps
<1>4. CASE StreamBreaks \/ HubRestarts
<2>1. /\ stream' = Off /\ puts' = <<>> /\ drops < MaxDrops /\ drops' = drops + 1
      /\ \/ evt' = evt
         \/ evt' = [e \in Evts |-> IF evt[e] \in {"none", "inserted"} THEN evt[e] ELSE "published"]
      /\ buf' = buf \/ buf' = <<>>
      /\ UNCHANGED <<logRows, client, known, lost>>
  BY <1>4 DEF StreamBreaks, HubRestarts
<2>2. drops' \in 0..MaxDrops BY <2>1, EventsAssumption DEF ReaderInv, EventsTypeOK
<2>3. puts' \in Seq(Evts) BY <2>1
<2> QED BY <2>1, <2>2, <2>3, StreamSteps
<1> QED BY <1>1, <1>2, <1>3, <1>4

(* The hub answers a cursor with what comes after it, or with the gap. *)
LEMMA HubReplayStep ==
  ASSUME ReaderInv, Reader, HubReplay
  PROVE  ReaderInv'
<1> USE ReaderTypes
<1>1. /\ stream.at = "opened" /\ UNCHANGED <<evt, logRows, buf, puts, known, drops>>
      /\ drops' \in 0..MaxDrops /\ Len(stream.queue) <= QueueSize
  BY DEF HubReplay, ReaderInv, EventsTypeOK
<1>2. CASE client.after # 0 /\ ~HasEvent(client.after)
<2>1. /\ stream' = [stream EXCEPT !.at = "live"] /\ lost' = lost
      /\ client' = [client EXCEPT !.after = 0, !.seq = -1, !.refreshing = TRUE]
  BY <1>2 DEF HubReplay
<2>2. /\ stream' \in Stream /\ stream'.at = "live" /\ stream'.queue = stream.queue
      /\ stream'.replay = stream.replay
  BY <2>1 DEF Stream
<2>3. client' \in Client /\ client'.seq = -1 /\ client'.after = 0 /\ client'.refreshing
<3>1. 0 \in 0..MaxEvts /\ -1 \in -1..MaxEvts BY EventsAssumption
<3>2. client \in Client OBVIOUS
<3> QED BY <2>1, <3>1, <3>2 DEF Client
<2> QED BY <1>1, <2>1, <2>2, <2>3, StreamSteps
<1>3. CASE ~(client.after # 0 /\ ~HasEvent(client.after))
<2> DEFINE r == ReplayAfter(client.after)
<2>1. /\ stream' = [stream EXCEPT !.at = "replaying", !.replay = r]
      /\ lost' = IF client.after # 0 THEN lost
                 ELSE lost \cup ({e \in Evts : evt[e] = "published"} \ (Range(buf) \cup known))
      /\ client' = client
  BY <1>3 DEF HubReplay
<2>2. r \in Seq(Evts) /\ Range(r) \subseteq Range(buf) /\ Published \subseteq known \cup lost' \cup Range(r)
<3>1. CASE client.after = 0
<4>1. r = buf BY <3>1 DEF ReplayAfter
<4>2. Published \ (Range(buf) \cup known) \subseteq lost' BY <2>1, <3>1 DEF Published
<4> QED BY <4>1, <4>2
<3>2. CASE client.after # 0
<4> DEFINE c == client.after
<4>1. c \in Evts /\ c \in Range(buf) BY <1>3, <3>2 DEF HasEvent
<4>2. \A e \in Published \ known : \E i, j \in DOMAIN buf : i > j /\ buf[i] = e /\ buf[j] = c
  BY <1>1, <4>1 DEF ReaderInv, FeedFacts, AfterCursor
<4> HIDE DEF c
<4>3. /\ ReplayAfter(c) \in Seq(Evts) /\ Range(ReplayAfter(c)) \subseteq Range(buf)
      /\ \A i, j \in DOMAIN buf : i > j /\ buf[j] = c => buf[i] \in Range(ReplayAfter(c))
  BY <4>1, ReplayFacts
<4>4. Published \ known \subseteq Range(ReplayAfter(c)) BY <4>2, <4>3
<4> QED BY <4>3, <4>4 DEF c
<3> QED BY <3>1, <3>2
<2> HIDE DEF r
<2>3. /\ stream' \in Stream /\ stream'.at = "replaying" /\ stream'.queue = stream.queue
      /\ stream'.replay = r
  BY <2>1, <2>2 DEF Stream
<2>4. lost' \subseteq Evts BY <2>1
<2> QED BY <1>1, <2>1, <2>2, <2>3, <2>4, StreamSteps
<1> QED BY <1>2, <1>3

(* The client takes what its stream has next: all it does not know stays ahead. *)
LEMMA YieldSteps ==
  ASSUME ReaderInv, Reader, ReplayYields \/ QueueYields
  PROVE  ReaderInv'
<1> USE ReaderTypes, EventsAssumption
<1>1. /\ UNCHANGED <<evt, logRows, buf, puts, lost, drops>>
      /\ drops' \in 0..MaxDrops /\ Len(stream.queue) <= QueueSize
  BY DEF ReplayYields, QueueYields, ReaderInv, EventsTypeOK
<1>2. CASE ReplayYields /\ stream.replay = <<>>
<2>1. /\ stream.at = "replaying" /\ stream' = [stream EXCEPT !.at = "live"]
      /\ UNCHANGED <<client, known>>
  BY <1>2 DEF ReplayYields
<2>2. /\ stream' \in Stream /\ stream'.at = "live" /\ stream'.queue = stream.queue
      /\ stream'.replay = <<>>
  BY <1>2, <2>1 DEF Stream
<2>3. Range(stream'.replay) = Range(stream.replay) BY <1>2, <2>2
<2> QED BY <1>1, <2>1, <2>2, <2>3, StreamSteps
<1>3. CASE ReplayYields /\ stream.replay # <<>>
<2> DEFINE r == stream.replay
           e == Head(r)
<2>1. /\ stream.at = "replaying" /\ stream' = [stream EXCEPT !.replay = Tail(r)]
      /\ known' = known \cup {e} /\ client' = [client EXCEPT !.after = e]
  BY <1>3 DEF ReplayYields, Received
<2>2. Tail(r) \in Seq(Evts) /\ e \in Evts /\ Range(r) = {e} \cup Range(Tail(r))
  BY <1>3, TailRange
<2>3. /\ stream' \in Stream /\ stream'.at = "replaying" /\ stream'.queue = stream.queue
      /\ stream'.replay = Tail(r)
  BY <2>1, <2>2 DEF Stream
<2>4. /\ client' \in Client /\ client'.seq = -1 /\ client'.after = e
      /\ client'.refreshing = client.refreshing
<3> HIDE DEF e
<3>1. e \in 0..MaxEvts BY <2>2 DEF Evts
<3> QED BY <2>1, <3>1 DEF Client
<2> HIDE DEF e
<2> QED BY <1>1, <2>1, <2>2, <2>3, <2>4, StreamSteps
<1>4. CASE QueueYields
<2> DEFINE q == stream.queue
           e == Head(q)
<2>1. /\ stream.at = "live" /\ q # <<>> /\ stream' = [stream EXCEPT !.queue = Tail(q)]
      /\ known' = known \cup {e} /\ client' = [client EXCEPT !.after = e]
  BY <1>4 DEF QueueYields, Received
<2>2. /\ Tail(q) \in Seq(Evts) /\ e \in Evts /\ Range(q) = {e} \cup Range(Tail(q))
      /\ Len(Tail(q)) = Len(q) - 1
  BY <2>1, TailRange
<2>3. /\ stream' \in Stream /\ stream'.at = "live" /\ stream'.queue = Tail(q)
      /\ stream'.replay = stream.replay
  BY <2>1, <2>2 DEF Stream
<2>4. /\ client' \in Client /\ client'.seq = -1 /\ client'.after = e
      /\ client'.refreshing = client.refreshing
<3> HIDE DEF e
<3>1. e \in 0..MaxEvts BY <2>2 DEF Evts
<3> QED BY <2>1, <3>1 DEF Client
<2>5. Len(stream'.queue) <= QueueSize
<3>1. Len(q) \in Nat /\ QueueSize \in Nat OBVIOUS
<3> QED BY <1>1, <2>2, <2>3, <3>1
<2> HIDE DEF e
<2> QED BY <1>1, <2>1, <2>2, <2>3, <2>4, <2>5, StreamSteps
<1> QED BY <1>2, <1>3, <1>4

(***************************************************************************)
(* The types, for clients of both kinds.                                   *)
(***************************************************************************)

(* Some numbers have an order: each goes to the place its rank gives. *)
LEMMA OrderExists ==
  ASSUME NEW S \in SUBSET Int, IsFiniteSet(S)
  PROVE  InOrder(S) \in [1..Cardinality(S) -> S]
<1> DEFINE n == Cardinality(S)
           upto(e) == {d \in S : d <= e}
           rank == [e \in S |-> Cardinality(upto(e))]
<1>1. n \in Nat /\ IsFiniteSet(1..n) /\ Cardinality(1..n) = n
<2>1. n \in Nat BY FS_CardinalityType
<2> QED BY <2>1, FS_Interval
<1>2. ASSUME NEW e \in S PROVE IsFiniteSet(upto(e)) /\ rank[e] \in 1..n
<2>1. IsFiniteSet(upto(e)) /\ Cardinality(upto(e)) <= n BY FS_Subset
<2>2. Cardinality(upto(e)) \in Nat BY <2>1, FS_CardinalityType
<2>3. Cardinality(upto(e)) # 0
<3>1. e \in upto(e) OBVIOUS
<3> HIDE DEF upto
<3> QED BY <2>1, <3>1, FS_EmptySet
<2> HIDE DEF upto, n
<2> QED BY <1>1, <2>1, <2>2, <2>3
<1>3. ASSUME NEW d \in S, NEW e \in S, d < e PROVE rank[d] < rank[e]
<2>1. upto(d) \subseteq upto(e) /\ upto(d) # upto(e)
<3>1. e \in upto(e) /\ e \notin upto(d) BY <1>3
<3>2. \A x \in upto(d) : x \in upto(e) BY <1>3
<3> HIDE DEF upto
<3> QED BY <3>1, <3>2
<2>2. IsFiniteSet(upto(e)) /\ rank[d] \in 1..n /\ rank[e] \in 1..n BY <1>2
<2> HIDE DEF upto
<2>3. Cardinality(upto(d)) <= Cardinality(upto(e)) /\ Cardinality(upto(d)) # Cardinality(upto(e))
  BY <2>1, <2>2, FS_Subset
<2>4. rank[d] <= rank[e] /\ rank[d] # rank[e] BY <2>3
<2> HIDE DEF rank, n
<2> QED BY <2>2, <2>4
<1>4. ASSUME NEW d \in S, NEW e \in S, rank[d] = rank[e] PROVE d = e
<2>1. rank[d] \in Int /\ ~(rank[d] < rank[e]) /\ ~(rank[e] < rank[d])
<3>1. rank[d] \in 1..n BY <1>2
<3> HIDE DEF rank
<3> QED BY <1>4, <3>1
<2>2. ~(d < e) /\ ~(e < d) BY <1>3, <2>1
<2> QED BY <2>2
<1>5. rank \in [S -> 1..n] BY <1>2
<1> HIDE DEF rank
<1>6. rank \in Injection(S, 1..n) BY <1>4, <1>5 DEF Injection, IsInjective
<1>7. rank \in Surjection(S, 1..n)
<2> HIDE DEF n
<2>1. Cardinality(S) = Cardinality(1..n) BY <1>1 DEF n
<2> QED BY <1>1, <1>6, <2>1, FS_Injection
<1>8. \A i \in 1..n : \E e \in S : rank[e] = i BY <1>7 DEF Surjection
<1> DEFINE g == [i \in 1..n |-> CHOOSE e \in S : rank[e] = i]
<1>9. \A i \in 1..n : g[i] \in S /\ rank[g[i]] = i BY <1>8
<1>10. g \in [1..n -> S] BY <1>9
<1> HIDE DEF g
<1>11. ASSUME NEW i \in 1..n, NEW j \in 1..n, i < j PROVE g[i] < g[j]
<2>1. g[i] \in S /\ g[j] \in S /\ rank[g[i]] = i /\ rank[g[j]] = j BY <1>9
<2>2. ~(rank[g[j]] < rank[g[i]]) /\ rank[g[i]] # rank[g[j]] BY <1>1, <1>11, <2>1
<2>3. ~(g[j] < g[i]) /\ g[i] # g[j] BY <1>3, <2>1, <2>2
<2>4. g[i] \in Int /\ g[j] \in Int BY <2>1
<2> QED BY <2>3, <2>4
<1>12. \E s \in [1..n -> S] : \A i, j \in 1..n : i < j => s[i] < s[j] BY <1>10, <1>11
<1> QED BY <1>12 DEF InOrder

(* What the durable replay takes of the rows. *)
LEMMA DurableRows ==
  ASSUME EventsTypeOK, NEW newer \in SUBSET logRows
  PROVE  SubSeq(InOrder(newer), 1, Min({ReplayLimit, Cardinality(newer)})) \in Seq(Evts)
<1>1. newer \subseteq Evts BY DEF EventsTypeOK, Visible
<1>2. Evts \subseteq Int /\ IsFiniteSet(Evts)
<2>1. IsFiniteSet(1..MaxEvts) BY EventsAssumption, FS_Interval
<2> QED BY <2>1 DEF Evts
<1>3. IsFiniteSet(newer) /\ newer \in SUBSET Int BY <1>1, <1>2, FS_Subset
<1> DEFINE n == Cardinality(newer)
           m == Min({ReplayLimit, n})
           s == InOrder(newer)
<1>4. n \in Nat BY <1>3, FS_CardinalityType
<1>5. s \in [1..n -> newer] BY <1>3, OrderExists
<1>6. m \in Int /\ m <= n
<2>1. ReplayLimit \in Nat BY EventsAssumption
<2> HIDE DEF n
<2>2. \E x \in {ReplayLimit, n} : \A y \in {ReplayLimit, n} : x <= y
<3>1. CASE ReplayLimit <= n BY <1>4, <2>1, <3>1
<3>2. CASE ~(ReplayLimit <= n) BY <1>4, <2>1, <3>2
<3> QED BY <3>1, <3>2
<2>3. m \in {ReplayLimit, n} /\ \A y \in {ReplayLimit, n} : m <= y BY <2>2 DEF Min
<2> HIDE DEF m
<2> QED BY <1>4, <2>1, <2>3
<1> HIDE DEF n, m, s
<1>7. \A i \in 1..m : s[i] \in Evts
<2>1. \A i \in 1..m : i \in 1..n BY <1>4, <1>6
<2> QED BY <1>1, <1>5, <2>1
<1>8. SubSeq(s, 1, m) \in Seq(Evts) BY <1>6, <1>7, SubSeqProperties
<1> QED BY <1>8 DEF s, m, n

(* A sequence the client or the loop takes the first event of. *)
LEMMA Shorter ==
  ASSUME NEW s \in Seq(Evts), s # <<>>
  PROVE  /\ Tail(s) \in Seq(Evts) /\ Head(s) \in Evts /\ Head(s) \in 0..MaxEvts
         /\ Len(Tail(s)) = Len(s) - 1 /\ Len(s) \in Nat
<1>1. Tail(s) \in Seq(Evts) /\ Len(Tail(s)) = Len(s) - 1 /\ Head(s) \in Evts BY TailRange
<1>2. Len(s) \in Nat OBVIOUS
<1>3. Head(s) \in 0..MaxEvts BY <1>1, EventsAssumption DEF Evts
<1> QED BY <1>1, <1>2, <1>3

(* append, then the oldest event out when the buffer is full. *)
LEMMA BufferedType ==
  ASSUME EventsTypeOK, NEW e \in Evts
  PROVE  Buffered(e) \in Seq(Evts) /\ Len(Buffered(e)) <= BufferSize
<1>1. buf \in Seq(Evts) /\ Len(buf) <= BufferSize /\ Len(buf) \in Nat /\ BufferSize \in Nat \ {0}
  BY EventsAssumption DEF EventsTypeOK
<1>2. CASE Len(buf) < BufferSize
<2>1. /\ Append(buf, e) \in Seq(Evts) /\ Len(Append(buf, e)) = Len(buf) + 1 BY <1>1, AppendRange
<2> QED BY <1>1, <1>2, <2>1 DEF Buffered
<1>3. CASE ~(Len(buf) < BufferSize)
<2>1. buf # <<>> BY <1>1, <1>3
<2>2. Tail(buf) \in Seq(Evts) /\ Len(Tail(buf)) = Len(buf) - 1 BY <1>1, <2>1, Shorter
<2> DEFINE t == Tail(buf)
<2> HIDE DEF t
<2>3. t \in Seq(Evts) /\ Len(t) = Len(buf) - 1 BY <2>2 DEF t
<2>4. Append(t, e) \in Seq(Evts) /\ Len(Append(t, e)) = Len(t) + 1 BY <2>3, AppendRange
<2>5. Buffered(e) = Append(t, e) BY <1>3 DEF Buffered, t
<2> QED BY <1>1, <2>3, <2>4, <2>5
<1> QED BY <1>2, <1>3

(* What a step leaves of the types when it keeps the events and their rows. *)
LEMMA StreamTypes ==
  ASSUME EventsTypeOK, UNCHANGED <<evt, logRows, buf>>,
         puts' \in Seq(Evts), stream' \in Stream, Len(stream'.queue) <= QueueSize,
         client' \in Client, known' \subseteq Evts, lost' \subseteq Evts, drops' \in 0..MaxDrops
  PROVE  EventsTypeOK'
<1>1. Visible' = Visible BY DEF Visible
<1> QED BY <1>1 DEF EventsTypeOK, Stream, Client

(* The writers of events, in the loop and in threads. *)
LEMMA WriterTypes ==
  ASSUME EventsTypeOK, NEW e \in Evts,
         InsertRow(e) \/ CommitRow(e) \/ PublishOnLoop(e) \/ PublishFromThread(e)
  PROVE  EventsTypeOK'
<1>1. /\ evt \in [Evts -> {"none", "inserted", "committed", "published"}]
      /\ logRows \subseteq Visible /\ puts \in Seq(Evts) /\ lost \subseteq Evts
      /\ buf \in Seq(Evts) /\ Len(buf) <= BufferSize /\ Len(stream.queue) <= QueueSize
      /\ stream \in Stream /\ client \in Client /\ known \subseteq Evts /\ drops \in 0..MaxDrops
  BY ReaderShape DEF EventsTypeOK
<1>2. Visible \subseteq Evts BY DEF Visible
<1>3. CASE InsertRow(e) \/ CommitRow(e)
<2>1. /\ UNCHANGED <<buf, puts, stream, client, known, lost, drops>>
      /\ evt[e] \notin {"committed", "published"}
      /\ \/ evt' = [evt EXCEPT ![e] = "inserted"] /\ logRows' = logRows
         \/ evt' = [evt EXCEPT ![e] = "committed"] /\ logRows' = logRows \cup {e}
  BY <1>3 DEF InsertRow, CommitRow
<2>2. evt' \in [Evts -> {"none", "inserted", "committed", "published"}] BY <1>1, <2>1
<2>3. logRows' \subseteq Visible' BY <1>1, <2>1 DEF Visible
<2> QED BY <1>1, <2>1, <2>2, <2>3 DEF EventsTypeOK, Stream, Client
<1>4. CASE PublishOnLoop(e) \/ PublishFromThread(e)
<2>1. /\ evt[e] = "committed" /\ evt' = [evt EXCEPT ![e] = "published"] /\ buf' = Buffered(e)
      /\ UNCHANGED <<logRows, client, known, drops>>
      /\ stream' = stream \/ stream' = [stream EXCEPT !.queue = Enqueued(e)]
      /\ lost' = lost \/ lost' = lost \cup Dropped
      /\ puts' = puts \/ puts' = Append(puts, e)
  BY <1>4 DEF PublishOnLoop, PublishFromThread
<2>2. evt' \in [Evts -> {"none", "inserted", "committed", "published"}] BY <1>1, <2>1
<2>3. logRows' \subseteq Visible' BY <1>1, <2>1 DEF Visible
<2>4. /\ Enqueued(e) \in Seq(Evts) /\ Len(Enqueued(e)) <= QueueSize /\ Dropped \subseteq Evts
<3>1. \A x \in Range(stream.queue) : x \in Evts BY <1>1 DEF Stream, Range
<3> QED BY <3>1, EnqueuedFacts
<2>5. Buffered(e) \in Seq(Evts) /\ Len(Buffered(e)) <= BufferSize BY BufferedType
<2>6. Append(puts, e) \in Seq(Evts) BY <1>1
<2>7. stream' \in Stream /\ Len(stream'.queue) <= QueueSize
<3>1. CASE stream' = stream BY <1>1, <3>1
<3>2. CASE stream' = [stream EXCEPT !.queue = Enqueued(e)] BY <1>1, <2>4, <3>2 DEF Stream
<3> QED BY <2>1, <3>1, <3>2
<2>8. lost' \subseteq Evts /\ puts' \in Seq(Evts) BY <1>1, <2>1, <2>4, <2>6
<2> QED BY <1>1, <2>1, <2>2, <2>3, <2>5, <2>7, <2>8 DEF EventsTypeOK, Stream, Client
<1> QED BY <1>3, <1>4

(* The loop, the pruning, and what ends a stream. *)
LEMMA HubTypes ==
  ASSUME EventsTypeOK, LoopPuts \/ PruneActivity \/ StreamBreaks \/ HubRestarts
  PROVE  EventsTypeOK'
<1>1. /\ evt \in [Evts -> {"none", "inserted", "committed", "published"}]
      /\ logRows \subseteq Visible /\ puts \in Seq(Evts) /\ lost \subseteq Evts
      /\ buf \in Seq(Evts) /\ Len(buf) <= BufferSize /\ Len(stream.queue) <= QueueSize
      /\ stream \in Stream /\ client \in Client /\ known \subseteq Evts /\ drops \in 0..MaxDrops
  BY ReaderShape DEF EventsTypeOK
<1>2. CASE LoopPuts
<2> DEFINE e == Head(puts)
           q == Enqueued(e)
<2>1. /\ puts # <<>> /\ puts' = Tail(puts) /\ stream' = [stream EXCEPT !.queue = q]
      /\ lost' = lost \cup Dropped /\ UNCHANGED <<evt, logRows, buf, client, known, drops>>
  BY <1>2 DEF LoopPuts
<2>2. Tail(puts) \in Seq(Evts) /\ e \in Evts BY <1>1, <2>1, Shorter
<2> HIDE DEF e
<2>3. q \in Seq(Evts) /\ Len(q) <= QueueSize /\ Dropped \subseteq Evts
<3>1. \A x \in Range(stream.queue) : x \in Evts BY <1>1 DEF Stream, Range
<3> QED BY <2>2, <3>1, EnqueuedFacts
<2> HIDE DEF q
<2>4. stream' \in Stream /\ Len(stream'.queue) <= QueueSize BY <1>1, <2>1, <2>3 DEF Stream
<2> QED BY <1>1, <2>1, <2>2, <2>3, <2>4, StreamTypes
<1>3. CASE PruneActivity
<2>1. /\ logRows' \subseteq logRows /\ UNCHANGED <<evt, buf, puts, stream, client, known, lost, drops>>
  BY <1>3 DEF PruneActivity
<2>2. Visible' = Visible BY <2>1 DEF Visible
<2> QED BY <1>1, <2>1, <2>2 DEF EventsTypeOK, Stream, Client
<1>4. CASE StreamBreaks \/ HubRestarts
<2>1. /\ stream' = Off /\ puts' = <<>> /\ drops < MaxDrops /\ drops' = drops + 1
      /\ \/ evt' = evt
         \/ evt' = [e \in Evts |-> IF evt[e] \in {"none", "inserted"} THEN evt[e] ELSE "published"]
      /\ buf' = buf \/ buf' = <<>>
      /\ UNCHANGED <<logRows, client, known, lost>>
  BY <1>4 DEF StreamBreaks, HubRestarts
<2>2. drops' \in 0..MaxDrops BY <1>1, <2>1, EventsAssumption
<2>3. evt' \in [Evts -> {"none", "inserted", "committed", "published"}] /\ Visible' = Visible
  BY <1>1, <2>1 DEF Visible
<2>4. buf' \in Seq(Evts) /\ Len(buf') <= BufferSize
<3>1. CASE buf' = buf BY <1>1, <3>1
<3>2. CASE buf' = <<>> BY <3>2, EventsAssumption
<3> QED BY <2>1, <3>1, <3>2
<2>5. puts' \in Seq(Evts) BY <2>1
<2> QED BY <1>1, <2>1, <2>2, <2>3, <2>4, <2>5, OffFacts DEF EventsTypeOK, Stream, Client
<1> QED BY <1>2, <1>3, <1>4

(* The client and its stream, with either cursor. *)
LEMMA ClientTypes ==
  ASSUME EventsTypeOK,
         \/ \E e \in Evts : ResumeFromSequence(e)
         \/ RefreshThread \/ Subscribe \/ HubReplay \/ ReplayYields \/ QueueYields
         \/ RefreshEnds \/ DurableReplay \/ DurableYields
  PROVE  EventsTypeOK'
<1>1. /\ evt \in [Evts -> {"none", "inserted", "committed", "published"}]
      /\ logRows \subseteq Visible /\ puts \in Seq(Evts) /\ lost \subseteq Evts
      /\ buf \in Seq(Evts) /\ Len(buf) <= BufferSize /\ Len(stream.queue) <= QueueSize
      /\ stream \in Stream /\ client \in Client /\ known \subseteq Evts /\ drops \in 0..MaxDrops
      /\ stream.queue \in Seq(Evts) /\ stream.replay \in Seq(Evts)
      /\ client.after \in 0..MaxEvts /\ Visible \subseteq Evts
  BY ReaderShape DEF EventsTypeOK, Visible
<1>2. 0 \in 0..MaxEvts /\ -1 \in -1..MaxEvts /\ Evts \subseteq -1..MaxEvts /\ Evts \subseteq 0..MaxEvts
  BY EventsAssumption DEF Evts
<1>3. ASSUME NEW e \in Evts, ResumeFromSequence(e) PROVE EventsTypeOK'
<2>1. /\ client' = [client EXCEPT !.seq = e] /\ stream' = [stream EXCEPT !.at = "refresh"]
      /\ UNCHANGED <<evt, logRows, buf, puts, known, lost, drops>>
  BY <1>3 DEF ResumeFromSequence
<2>2. stream' \in Stream /\ Len(stream'.queue) <= QueueSize BY <1>1, <2>1 DEF Stream
<2>3. client' \in Client BY <1>1, <1>2, <2>1 DEF Client
<2> QED BY <1>1, <2>1, <2>2, <2>3, StreamTypes
<1>4. CASE RefreshThread
<2>1. /\ stream' = [stream EXCEPT !.at = "refresh"] /\ known' = known \cup Visible
      /\ UNCHANGED <<evt, logRows, buf, puts, client, lost, drops>>
  BY <1>4 DEF RefreshThread
<2>2. stream' \in Stream /\ Len(stream'.queue) <= QueueSize BY <1>1, <2>1 DEF Stream
<2> QED BY <1>1, <2>1, <2>2, StreamTypes
<1>5. CASE Subscribe
<2>1. /\ stream' = [Off EXCEPT !.at = "opened"]
      /\ UNCHANGED <<evt, logRows, buf, puts, client, known, lost, drops>>
  BY <1>5 DEF Subscribe
<2>2. stream' \in Stream /\ stream'.queue = <<>> BY <2>1, OffFacts DEF Stream, Off
<2>3. Len(stream'.queue) <= QueueSize BY <2>2, EventsAssumption
<2> QED BY <1>1, <2>1, <2>2, <2>3, StreamTypes
<1>6. CASE HubReplay
<2>1. client.after = 0 \/ HasEvent(client.after) => ReplayAfter(client.after) \in Seq(Evts)
<3>1. CASE client.after = 0 BY <1>1, <3>1 DEF ReplayAfter
<3>2. CASE client.after # 0 /\ HasEvent(client.after)
<4> DEFINE c == client.after
<4>1. c \in Evts /\ c \in Range(buf) BY <1>1, <3>2 DEF HasEvent, Evts
<4> HIDE DEF c
<4>2. ReplayAfter(c) \in Seq(Evts) BY <1>1, <4>1, ReplayFacts
<4> QED BY <4>2 DEF c
<3> QED BY <3>1, <3>2
<2>2. /\ UNCHANGED <<evt, logRows, buf, puts, known, drops>>
      /\ \/ /\ stream' = [stream EXCEPT !.at = "live"] /\ lost' = lost
            /\ client' = [client EXCEPT !.after = 0, !.seq = -1, !.refreshing = TRUE]
         \/ /\ stream' = [stream EXCEPT !.at = "replaying", !.replay = ReplayAfter(client.after)]
            /\ client.after = 0 \/ HasEvent(client.after)
            /\ client' = client /\ lost' \subseteq lost \cup Evts
  BY <1>6 DEF HubReplay
<2> HIDE DEF ReplayAfter
<2>3. stream' \in Stream /\ Len(stream'.queue) <= QueueSize
<3>1. CASE stream' = [stream EXCEPT !.at = "live"] BY <1>1, <3>1 DEF Stream
<3>2. CASE /\ stream' = [stream EXCEPT !.at = "replaying", !.replay = ReplayAfter(client.after)]
           /\ client.after = 0 \/ HasEvent(client.after)
  BY <1>1, <2>1, <3>2 DEF Stream
<3> QED BY <2>2, <3>1, <3>2
<2>4. client' \in Client BY <1>1, <1>2, <2>2 DEF Client
<2> QED BY <1>1, <2>2, <2>3, <2>4, StreamTypes
<1>7. CASE ReplayYields \/ DurableYields
<2> DEFINE r == stream.replay
<2>1. CASE r = <<>>
<3>1. /\ stream' = [stream EXCEPT !.at = "live"]
      /\ UNCHANGED <<evt, logRows, buf, puts, client, known, lost, drops>>
  BY <1>7, <2>1 DEF ReplayYields, DurableYields
<3>2. stream' \in Stream /\ Len(stream'.queue) <= QueueSize BY <1>1, <3>1 DEF Stream
<3> QED BY <1>1, <3>1, <3>2, StreamTypes
<2>2. CASE r # <<>>
<3>1. /\ stream' = [stream EXCEPT !.replay = Tail(r)] /\ known' = known \cup {Head(r)}
      /\ client' = [client EXCEPT !.after = Head(r)] \/ client' = [client EXCEPT !.seq = Head(r)]
      /\ UNCHANGED <<evt, logRows, buf, puts, lost, drops>>
  BY <1>7, <2>2 DEF ReplayYields, DurableYields, Received
<3>2. Tail(r) \in Seq(Evts) /\ Head(r) \in Evts BY <1>1, <2>2, Shorter
<3>3. stream' \in Stream /\ Len(stream'.queue) <= QueueSize BY <1>1, <3>1, <3>2 DEF Stream
<3>4. client' \in Client BY <1>1, <1>2, <3>1, <3>2 DEF Client
<3> QED BY <1>1, <3>1, <3>2, <3>3, <3>4, StreamTypes
<2> QED BY <2>1, <2>2
<1>8. CASE QueueYields
<2> DEFINE q == stream.queue
<2>1. /\ q # <<>> /\ stream' = [stream EXCEPT !.queue = Tail(q)] /\ known' = known \cup {Head(q)}
      /\ client' = [client EXCEPT !.after = Head(q)]
      /\ UNCHANGED <<evt, logRows, buf, puts, lost, drops>>
  BY <1>8 DEF QueueYields, Received
<2>2. /\ Tail(q) \in Seq(Evts) /\ Head(q) \in Evts /\ Len(Tail(q)) = Len(q) - 1 /\ Len(q) \in Nat
  BY <1>1, <2>1, Shorter
<2>3. Len(Tail(q)) <= QueueSize
<3>1. Len(q) <= QueueSize /\ QueueSize \in Nat BY <1>1, EventsAssumption
<3> HIDE DEF q
<3> QED BY <2>2, <3>1
<2>4. stream' \in Stream /\ Len(stream'.queue) <= QueueSize BY <1>1, <2>1, <2>2, <2>3 DEF Stream
<2>5. client' \in Client BY <1>1, <1>2, <2>1, <2>2 DEF Client
<2> QED BY <1>1, <2>1, <2>2, <2>4, <2>5, StreamTypes
<1>9. CASE RefreshEnds
<2>1. /\ client' = [client EXCEPT !.refreshing = FALSE] /\ known' = known \cup Visible
      /\ UNCHANGED <<evt, logRows, buf, puts, stream, lost, drops>>
  BY <1>9 DEF RefreshEnds
<2>2. client' \in Client BY <1>1, <2>1 DEF Client
<2> QED BY <1>1, <2>1, <2>2, StreamTypes
<1>10. CASE DurableReplay
<2> DEFINE newer == {e \in logRows : e > client.seq}
           r == SubSeq(InOrder(newer), 1, Min({ReplayLimit, Cardinality(newer)}))
<2>1. r \in Seq(Evts) BY DurableRows
<2>2. /\ UNCHANGED <<evt, logRows, buf, puts, known, lost, drops>>
      /\ \/ /\ client' = [client EXCEPT !.seq = -1, !.after = 0, !.refreshing = TRUE]
            /\ stream' = [Off EXCEPT !.at = "durable"]
         \/ /\ client' = client
            /\ stream' = [Off EXCEPT !.at = "durable", !.replay = r]
  BY <1>10 DEF DurableReplay
<2> HIDE DEF r
<2>3. stream' \in Stream /\ stream'.queue = <<>>
<3>1. CASE stream' = [Off EXCEPT !.at = "durable"] BY <3>1, OffFacts DEF Stream, Off
<3>2. CASE stream' = [Off EXCEPT !.at = "durable", !.replay = r]
  BY <2>1, <3>2, OffFacts DEF Stream, Off
<3> QED BY <2>2, <3>1, <3>2
<2>4. Len(stream'.queue) <= QueueSize BY <2>3, EventsAssumption
<2>5. client' \in Client BY <1>1, <1>2, <2>2 DEF Client
<2> QED BY <1>1, <2>2, <2>3, <2>4, <2>5, StreamTypes
<1> QED BY <1>3, <1>4, <1>5, <1>6, <1>7, <1>8, <1>9, <1>10

(* No step of the feed leaves the types. *)
LEMMA EventTypesStep == EventsTypeOK /\ [EventsNext]_eventVars => EventsTypeOK'
<1> SUFFICES ASSUME EventsTypeOK, [EventsNext]_eventVars PROVE EventsTypeOK' OBVIOUS
<1>1. CASE EventsNext BY <1>1, WriterTypes, HubTypes, ClientTypes DEF EventsNext
<1>2. CASE UNCHANGED eventVars BY <1>2 DEF eventVars, EventsTypeOK, Visible
<1> QED BY <1>1, <1>2

(***************************************************************************)
(* The theorems.                                                           *)
(***************************************************************************)

StreamInv == "mode" \in DOMAIN client /\ EventsTypeOK /\ (Reader => ReaderInv)

LEMMA ReaderStep ==
  ASSUME ReaderInv, Reader, EventsNext
  PROVE  ReaderInv'
<1>1. ASSUME NEW e \in Evts, ResumeFromSequence(e) PROVE FALSE
  BY <1>1 DEF ResumeFromSequence, Reader
<1>2. ~DurableReplay /\ ~DurableYields BY ReaderTypes DEF DurableReplay, DurableYields
<1> QED BY <1>1, <1>2, RowSteps, PublishSteps, LoopPutsStep, ConnectSteps, HubReplayStep, YieldSteps
        DEF EventsNext

LEMMA StreamInvInit == EventsInit => StreamInv
<1> SUFFICES ASSUME EventsInit PROVE StreamInv OBVIOUS
<1>1. PICK mode \in {"evt", "seq"} :
        client = [mode |-> mode, after |-> 0, seq |-> -1, refreshing |-> FALSE]
  BY DEF EventsInit
<1>2. client \in Client /\ client.seq = -1 /\ client.after = 0
<2>1. 0 \in 0..MaxEvts /\ -1 \in -1..MaxEvts BY EventsAssumption
<2> QED BY <1>1, <2>1 DEF Client
<1>3. /\ evt = [e \in Evts |-> "none"] /\ logRows = {} /\ buf = <<>> /\ puts = <<>> /\ stream = Off
      /\ known = {} /\ lost = {} /\ drops = 0
  BY DEF EventsInit
<1>4. Published = {} BY <1>3 DEF Published
<1>5. EventsTypeOK
<2>1. Len(buf) <= BufferSize /\ drops \in 0..MaxDrops BY <1>3, EventsAssumption
<2> QED BY <1>2, <1>3, <2>1, OffFacts DEF EventsTypeOK, Client, Stream
<1>6. FeedFacts BY <1>2, <1>3, <1>4, OffFacts DEF FeedFacts
<1> QED BY <1>1, <1>5, <1>6 DEF StreamInv, ReaderInv

LEMMA StreamInvStep == StreamInv /\ [EventsNext]_eventVars => StreamInv'
<1> SUFFICES ASSUME StreamInv, [EventsNext]_eventVars PROVE StreamInv' OBVIOUS
<1>1. "mode" \in DOMAIN client' /\ client'.mode = client.mode BY ModeStays DEF StreamInv
<1>2. ASSUME Reader' PROVE ReaderInv'
<2>1. Reader /\ ReaderInv BY <1>1, <1>2 DEF Reader, StreamInv
<2>2. CASE EventsNext BY <2>1, <2>2, ReaderStep
<2>3. CASE UNCHANGED eventVars
  BY <2>1, <2>3 DEF eventVars, ReaderInv, EventsTypeOK, FeedFacts, Visible, Published, AfterCursor, Reader
<2> QED BY <2>2, <2>3
<1>3. EventsTypeOK' BY EventTypesStep DEF StreamInv
<1> QED BY <1>1, <1>2, <1>3 DEF StreamInv

(* What a client with an event cursor has not seen comes after its event in the *)
(* buffer, is along its stream or given up, in every state of the hub; buffers,  *)
(* queues and cursors keep their sizes, whichever cursor the client has.         *)
THEOREM FeedFactsHold == EventsSpec => [](EventsTypeOK /\ FeedFacts)
<1>1. StreamInv => EventsTypeOK /\ FeedFacts BY DEF StreamInv, ReaderInv, FeedFacts
<1> QED BY <1>1, StreamInvInit, StreamInvStep, PTL DEF EventsSpec

LEMMA RestIsCovered ==
  ReaderInv /\ Reader /\ AtRest => Visible \subseteq known \cup lost
<1> SUFFICES ASSUME ReaderInv, Reader, AtRest PROVE Visible \subseteq known \cup lost
  OBVIOUS
<1>1. Visible = Published
<2>1. \A e \in Evts : evt[e] # "committed" BY DEF AtRest
<2> QED BY <2>1 DEF Visible, Published
<1>2. stream.replay = <<>> /\ stream.queue = <<>> /\ puts = <<>> BY ReaderTypes DEF AtRest
<1>3. Published \subseteq known \cup lost \cup Range(stream.replay) \cup Range(stream.queue) \cup Range(puts)
  BY ReaderTypes DEF AtRest
<1> QED BY <1>1, <1>2, <1>3, OffFacts

(* What a step of the hub, of a writer or of the client is to the feed: an event
   happens, some are learnt, or some are given up. *)
Learnt == /\ Visible' = Visible /\ lost' = lost
          /\ \E s \in SUBSET Visible : known' = known \cup s
GivenUp == /\ Visible' = Visible /\ known' = known
           /\ \E s \in SUBSET Visible : lost' = lost \cup s
Happened == /\ Visible' \in {Visible \cup {e} : e \in Evts \ Visible}
            /\ known' = known /\ lost' = lost /\ ~AtRest'

LEMMA FeedStep ==
  ASSUME ReaderInv, Reader, EventsNext
  PROVE  Happened \/ Learnt \/ GivenUp
<1> USE ReaderTypes
<1>1. ASSUME NEW e \in Evts, CommitRow(e) PROVE Happened
<2>1. Visible' = Visible \cup {e} /\ evt'[e] = "committed" /\ e \notin Visible
  BY <1>1 DEF CommitRow, Visible
<2>2. ~AtRest' BY <2>1 DEF AtRest
<2> QED BY <1>1, <2>1, <2>2 DEF CommitRow, Happened
<1>2. ASSUME NEW e \in Evts, InsertRow(e) PROVE GivenUp
<2>1. Visible' = Visible BY <1>2 DEF InsertRow, Visible
<2>2. known' = known /\ lost' = lost \cup {} BY <1>2 DEF InsertRow
<2> QED BY <2>1, <2>2 DEF GivenUp
<1>3. ASSUME NEW e \in Evts, PublishOnLoop(e) \/ PublishFromThread(e) PROVE GivenUp
<2>1. Visible' = Visible BY <1>3 DEF PublishOnLoop, PublishFromThread, Visible
<2>2. Dropped \subseteq Visible BY EnqueuedFacts DEF ReaderInv
<2>3. known' = known /\ (lost' = lost \cup {} \/ lost' = lost \cup Dropped)
  BY <1>3 DEF PublishOnLoop, PublishFromThread
<2> QED BY <2>1, <2>2, <2>3 DEF GivenUp
<1>4. ASSUME LoopPuts PROVE GivenUp
<2>1. Visible' = Visible /\ known' = known /\ lost' = lost \cup Dropped
  BY <1>4 DEF LoopPuts, Visible
<2>2. Head(puts) \in Evts BY <1>4, TailRange DEF LoopPuts
<2>3. Dropped \subseteq Visible BY <2>2, EnqueuedFacts DEF ReaderInv
<2> QED BY <2>1, <2>3 DEF GivenUp
<1>5. ASSUME HubReplay PROVE GivenUp
<2>1. Visible' = Visible /\ known' = known BY <1>5 DEF HubReplay, Visible
<2>2. {e \in Evts : evt[e] = "published"} \ (Range(buf) \cup known) \subseteq Visible BY DEF Visible
<2>3. lost' = lost \cup {} \/ lost' = lost \cup ({e \in Evts : evt[e] = "published"} \ (Range(buf) \cup known))
  BY <1>5 DEF HubReplay
<2> QED BY <2>1, <2>2, <2>3 DEF GivenUp
<1>6. ASSUME StreamBreaks \/ HubRestarts \/ PruneActivity \/ Subscribe PROVE GivenUp
<2>1. /\ known' = known /\ lost' = lost \cup {}
      /\ \/ evt' = evt
         \/ evt' = [e \in Evts |-> IF evt[e] \in {"none", "inserted"} THEN evt[e] ELSE "published"]
  BY <1>6 DEF StreamBreaks, HubRestarts, PruneActivity, Subscribe
<2>2. Visible' = Visible BY <2>1 DEF Visible
<2> QED BY <2>1, <2>2 DEF GivenUp
<1>7. ASSUME RefreshThread \/ RefreshEnds PROVE Learnt
<2>1. known' = known \cup Visible /\ lost' = lost /\ evt' = evt
  BY <1>7 DEF RefreshThread, RefreshEnds
<2>2. Visible' = Visible BY <2>1 DEF Visible
<2> QED BY <2>1, <2>2 DEF Learnt
<1>8. ASSUME ReplayYields \/ QueueYields PROVE Learnt
<2>1. evt' = evt /\ lost' = lost BY <1>8 DEF ReplayYields, QueueYields
<2>2. \E s \in SUBSET Visible : known' = known \cup s
<3>1. CASE ReplayYields /\ stream.replay = <<>>
<4>1. known' = known \cup {} BY <3>1 DEF ReplayYields
<4> QED BY <4>1
<3>2. CASE ReplayYields /\ stream.replay # <<>>
<4>1. known' = known \cup {Head(stream.replay)} BY <3>2 DEF ReplayYields, Received
<4>2. Head(stream.replay) \in Visible BY <3>2, TailRange
<4> QED BY <4>1, <4>2
<3>3. CASE QueueYields
<4>1. known' = known \cup {Head(stream.queue)} /\ stream.queue # <<>> BY <3>3 DEF QueueYields, Received
<4>2. Head(stream.queue) \in Visible BY <4>1, TailRange
<4> QED BY <4>1, <4>2
<3> QED BY <1>8, <3>1, <3>2, <3>3
<2>3. Visible' = Visible BY <2>1 DEF Visible
<2> QED BY <2>1, <2>2, <2>3 DEF Learnt
<1>9. ASSUME NEW e \in Evts, ResumeFromSequence(e) PROVE FALSE
  BY <1>9 DEF ResumeFromSequence, Reader
<1>10. ~DurableReplay /\ ~DurableYields BY DEF DurableReplay, DurableYields
<1> QED BY <1>1, <1>2, <1>3, <1>4, <1>5, <1>6, <1>7, <1>8, <1>9, <1>10 DEF EventsNext

LEMMA FeedRefines ==
  ASSUME StreamInv, StreamInv', [EventsNext]_eventVars
  PROVE  [F!FeedNext]_F!feedVars
<1>1. client'.mode = client.mode BY ModeStays DEF StreamInv
<1>2. CASE ~Reader
<2>1. ~Reader' BY <1>1, <1>2 DEF Reader
<2> QED BY <1>2, <2>1 DEF F!feedVars
<1>3. CASE UNCHANGED eventVars
<2>1. UNCHANGED <<Visible, Reader, AtRest>> BY <1>3 DEF eventVars, Visible, Reader, AtRest
<2> QED BY <1>3, <2>1 DEF eventVars, F!feedVars
<1>4. CASE Reader /\ EventsNext
<2>1. Reader' BY <1>1, <1>4 DEF Reader
<2>2. ReaderInv /\ ReaderInv' BY <1>4, <2>1 DEF StreamInv
<2>3. AtRest' => Visible' \subseteq known' \cup lost'
<3>1. (ReaderInv /\ Reader /\ AtRest => Visible \subseteq known \cup lost)'
  BY RestIsCovered, PTL
<3> QED BY <2>1, <2>2, <3>1
<2> DEFINE new == Reader' /\ AtRest'
<2>4. new \in {FALSE, Visible' \subseteq known' \cup lost'} BY <2>3
<2>5. CASE Happened
<3>1. new = FALSE BY <2>5 DEF Happened
<3>2. F!Happens BY <1>4, <2>1, <2>5, <3>1 DEF Happened, F!Happens, Evts
<3> QED BY <3>2 DEF F!FeedNext
<2>6. CASE Learnt
<3>1. F!Learns BY <1>4, <2>1, <2>4, <2>6 DEF Learnt, F!Learns
<3> QED BY <3>1 DEF F!FeedNext
<2>7. CASE GivenUp
<3>1. F!GivesUp BY <1>4, <2>1, <2>4, <2>7 DEF GivenUp, F!GivesUp
<3> QED BY <3>1 DEF F!FeedNext
<2> QED BY <1>4, <2>2, <2>5, <2>6, <2>7, FeedStep
<1> QED BY <1>2, <1>3, <1>4

(* CHANGELOG: a client with an event cursor keeps what Feed promises, whatever the *)
(* sizes of the buffer and the queue and however often its stream breaks.          *)
THEOREM StreamKeepsFeedHolds == EventsSpec => StreamKeepsFeed
<1>1. EventsInit => F!FeedInit
  BY OffFacts DEF EventsInit, F!FeedInit, Visible, AtRest, Reader
<1> QED BY <1>1, StreamInvInit, StreamInvStep, FeedRefines, PTL DEF EventsSpec, StreamKeepsFeed, F!FeedSpec
=============================================================================
