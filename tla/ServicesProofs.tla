--------------------------- MODULE ServicesProofs ---------------------------
(***************************************************************************)
(* For any turns, agents, apps and secrets: nobody is inside the bridge    *)
(* while its client is replaced; a tool call of a turn that streams runs   *)
(* for that turn; an app has one live connection; a command runs with the  *)
(* tokens the owner was shown, and the migrator keeps what the owner       *)
(* saved.                                                                  *)
(*                                                                         *)
(* Each part has an inductive invariant (its types and its ...Facts), one  *)
(* lemma per group of actions that they keep it, and theorems about the    *)
(* specification of the part.                                              *)
(***************************************************************************)
EXTENDS Bridge, Contexts, Connections, Credentials, FiniteSetTheorems, TLAPS

(***************************************************************************)
(* The bridge.                                                             *)
(***************************************************************************)

InPcs == InBridge \cup {"rejoin"}
CountedPcs == InBridge \cup {"rejoin", "done"}
SendState ==
  [pc : InBridge \cup {"entering", "restart", "drain", "launch", "reopen", "rejoin", "done"},
   epoch : Nat, why : {"none", "dead", "auth"}, restarted : BOOLEAN, forced : BOOLEAN]
BridgeInv == BridgeTypeOK /\ BridgeFacts

(* A member more, or one less: the size of a finite set. *)
LEMMA OneMoreOneLess ==
  ASSUME NEW S, IsFiniteSet(S), NEW x
  PROVE  /\ Cardinality(S) \in Nat
         /\ IsFiniteSet(S \cup {x}) /\ IsFiniteSet(S \ {x})
         /\ x \notin S => Cardinality(S \cup {x}) = Cardinality(S) + 1
         /\ x \in S => Cardinality(S \ {x}) = Cardinality(S) - 1
BY FS_CardinalityType, FS_AddElement, FS_RemoveElement

(* The turns that are inside, and those that are counted, are finitely many. *)
LEMMA StreamsAreFinite ==
  /\ IsFiniteSet(Streams) /\ Cardinality(Streams) \in Nat
  /\ IsFiniteSet(Inside) /\ Cardinality(Inside) \in Nat
  /\ IsFiniteSet(Counted) /\ Cardinality(Counted) \in Nat
  /\ Cardinality(Counted) <= Cardinality(Streams)
  /\ Cardinality(Inside) <= Cardinality(Counted)
<1>1. IsFiniteSet(Streams) BY BridgeAssumption
<1>2. Inside \subseteq Streams /\ Counted \subseteq Streams /\ Inside \subseteq Counted
  BY DEF Inside, Counted
<1>3. IsFiniteSet(Inside) /\ IsFiniteSet(Counted) BY <1>1, <1>2, FS_Subset
<1> QED BY <1>1, <1>2, <1>3, FS_Subset, FS_CardinalityType

(* What the step of one turn does to the sets the turns are in, and to their
   sizes. *)
LEMMA OneTurnMoves ==
  ASSUME BridgeTypeOK, NEW t \in Streams, NEW s \in SendState,
         sends' = [sends EXCEPT ![t] = s]
  PROVE  /\ sends' \in [Streams -> SendState]
         /\ \A u \in Streams : sends'[u] = IF u = t THEN s ELSE sends[u]
         /\ sends[t].pc \notin InPcs /\ s.pc \in InPcs
              => Cardinality(Inside') = Cardinality(Inside) + 1
         /\ sends[t].pc \in InPcs /\ s.pc \notin InPcs
              => Cardinality(Inside') = Cardinality(Inside) - 1
         /\ (sends[t].pc \in InPcs <=> s.pc \in InPcs) => Inside' = Inside
         /\ sends[t].pc \notin CountedPcs /\ s.pc \in CountedPcs
              => Cardinality(Counted') = Cardinality(Counted) + 1
         /\ sends[t].pc \in CountedPcs /\ s.pc \notin CountedPcs
              => Cardinality(Counted') = Cardinality(Counted) - 1
         /\ (sends[t].pc \in CountedPcs <=> s.pc \in CountedPcs) => Counted' = Counted
         /\ Cardinality(Inside) \in Nat /\ Cardinality(Counted) \in Nat
         /\ Cardinality(Counted') \in Nat /\ Cardinality(Counted') <= Cardinality(Streams)
<1>1. sends \in [Streams -> SendState] BY DEF BridgeTypeOK, SendState
<1>2. /\ sends' \in [Streams -> SendState]
      /\ \A u \in Streams : sends'[u] = IF u = t THEN s ELSE sends[u]
  BY <1>1
<1>3. /\ s.pc \in InPcs => Inside' = Inside \cup {t}
      /\ s.pc \notin InPcs => Inside' = Inside \ {t}
      /\ t \in Inside <=> sends[t].pc \in InPcs
  BY <1>2 DEF Inside, InPcs
<1>4. /\ s.pc \in CountedPcs => Counted' = Counted \cup {t}
      /\ s.pc \notin CountedPcs => Counted' = Counted \ {t}
      /\ t \in Counted <=> sends[t].pc \in CountedPcs
  BY <1>2 DEF Counted, CountedPcs
<1>5. /\ IsFiniteSet(Inside) /\ IsFiniteSet(Counted)
      /\ Cardinality(Inside) \in Nat /\ Cardinality(Counted) \in Nat
  BY StreamsAreFinite
<1>6. /\ t \notin Inside => Cardinality(Inside \cup {t}) = Cardinality(Inside) + 1
      /\ t \in Inside => Cardinality(Inside \ {t}) = Cardinality(Inside) - 1
  BY <1>5, OneMoreOneLess
<1>7. /\ t \notin Counted => Cardinality(Counted \cup {t}) = Cardinality(Counted) + 1
      /\ t \in Counted => Cardinality(Counted \ {t}) = Cardinality(Counted) - 1
  BY <1>5, OneMoreOneLess
<1>8. Counted' \subseteq Streams BY DEF Counted
<1>9. Cardinality(Counted') \in Nat /\ Cardinality(Counted') <= Cardinality(Streams)
  BY <1>8, StreamsAreFinite, FS_Subset, FS_CardinalityType
<1>10. /\ sends[t].pc \notin InPcs /\ s.pc \in InPcs
            => Cardinality(Inside') = Cardinality(Inside) + 1
       /\ sends[t].pc \in InPcs /\ s.pc \notin InPcs
            => Cardinality(Inside') = Cardinality(Inside) - 1
       /\ (sends[t].pc \in InPcs <=> s.pc \in InPcs) => Inside' = Inside
  BY <1>3, <1>6
<1>11. /\ sends[t].pc \notin CountedPcs /\ s.pc \in CountedPcs
            => Cardinality(Counted') = Cardinality(Counted) + 1
       /\ sends[t].pc \in CountedPcs /\ s.pc \notin CountedPcs
            => Cardinality(Counted') = Cardinality(Counted) - 1
       /\ (sends[t].pc \in CountedPcs <=> s.pc \in CountedPcs) => Counted' = Counted
  BY <1>4, <1>7
<1> QED BY <1>2, <1>5, <1>9, <1>10, <1>11

(* Nobody counted is nobody inside. *)
LEMMA NobodyCounted ==
  ASSUME BridgeFacts, users = 0
  PROVE  Inside = {}
<1>1. Cardinality(Inside) = 0 BY StreamsAreFinite DEF BridgeFacts
<1> QED BY <1>1, StreamsAreFinite, FS_EmptySet

(* A step of one turn keeps the invariant when it does not restart the bridge
   and its count is right; whoever is between close and reopen stays alone if the turn comes
   from outside and goes nowhere inside. *)
LEMMA QuietStep ==
  ASSUME BridgeInv, NEW t \in Streams, NEW s \in SendState,
         sends' = [sends EXCEPT ![t] = s],
         sends[t].pc \notin {"drain", "launch", "reopen"},
         s.pc \notin {"drain", "launch", "reopen"},
         UNCHANGED <<pending, epoch, closing>>,
         sdk' \in {"open", "closed"}, cached' \subseteq Streams, authFails' \in Nat,
         users' \in Int,
         Cardinality(Inside') - users' <= Cardinality(Inside) - users,
         users' - Cardinality(Counted') <= users - Cardinality(Counted),
         s.pc = "restart" => sends[t].pc \in InPcs,
         s.pc \in InPcs => \/ ~pending \/ sends[t].pc \in InPcs
                           \/ (sends[t].pc = "restart" /\ sends[t].epoch # epoch)
  PROVE  BridgeInv'
<1> USE DEF BridgeInv
<1>1. /\ sends' \in [Streams -> SendState]
      /\ \A u \in Streams : sends'[u] = IF u = t THEN s ELSE sends[u]
      /\ Cardinality(Counted') \in Nat /\ Cardinality(Counted') <= Cardinality(Streams)
      /\ Cardinality(Inside) \in Nat /\ Cardinality(Counted) \in Nat
  BY OneTurnMoves
<1>2. Cardinality(Inside') \in Nat
<2>1. Inside' \subseteq Streams BY DEF Inside
<2> QED BY <2>1, StreamsAreFinite, FS_Subset, FS_CardinalityType
<1>3. Cardinality(Inside') <= users' /\ users' <= Cardinality(Counted')
  BY <1>1, <1>2 DEF BridgeTypeOK, BridgeFacts
<1>4. users' \in 0..Cardinality(Streams)
  BY <1>1, <1>2, <1>3, StreamsAreFinite
<1>5. BridgeTypeOK' BY <1>1, <1>4 DEF BridgeTypeOK, SendState
<1>6. Restarting' = Restarting BY <1>1 DEF Restarting
<1>7. (\A u \in Restarting : pending /\ closing # "drain" /\ Restarting = {u})'
  BY <1>6 DEF BridgeFacts
<1>8. ASSUME NEW u \in Streams, sends'[u].pc \in {"launch", "reopen"}
      PROVE  Inside' = {} /\ Woken' = {}
<2>1. sends[u].pc \in {"launch", "reopen"} BY <1>1, <1>8
<2>2. Inside = {} /\ Woken = {} /\ pending BY <2>1 DEF BridgeFacts, Restarting
<2>3. sends[t].pc \notin InPcs BY <2>2 DEF Inside, InPcs
<2>4. ~(sends[t].pc = "restart" /\ sends[t].epoch # epoch)
  BY <2>2 DEF Woken, StreamAt, SameClient
<2>5. s.pc \notin InPcs BY <2>2, <2>3, <2>4
<2>6. Inside' = {} BY <1>1, <2>2, <2>5 DEF Inside, InPcs
<2>7. s.pc # "restart" BY <2>3
<2>8. Woken' = {} BY <1>1, <2>2, <2>7 DEF Woken, StreamAt, SameClient
<2> QED BY <2>6, <2>8
<1> QED BY <1>3, <1>5, <1>7, <1>8 DEF BridgeFacts

(* The one turn that restarts the bridge takes a step, and no other does. *)
LEMMA RestartStep ==
  ASSUME BridgeInv, NEW t \in Streams, NEW s \in SendState,
         sends' = [sends EXCEPT ![t] = s],
         sends[t].pc \in {"drain", "launch", "reopen"} \/ (Restarting = {} /\ closing # "drain"),
         UNCHANGED closing,
         sdk' \in {"open", "closed"}, cached' \subseteq Streams, authFails' \in Nat,
         epoch' \in Nat, pending' \in BOOLEAN, users' \in Int,
         Cardinality(Inside') - users' <= Cardinality(Inside) - users,
         users' - Cardinality(Counted') <= users - Cardinality(Counted),
         s.pc \in {"drain", "launch", "reopen"} => pending',
         s.pc \in {"launch", "reopen"} => Inside' = {} /\ Woken' = {}
  PROVE  BridgeInv'
<1> USE DEF BridgeInv
<1>1. /\ sends' \in [Streams -> SendState]
      /\ \A u \in Streams : sends'[u] = IF u = t THEN s ELSE sends[u]
      /\ Cardinality(Counted') \in Nat /\ Cardinality(Counted') <= Cardinality(Streams)
      /\ Cardinality(Inside) \in Nat /\ Cardinality(Counted) \in Nat
  BY OneTurnMoves
<1>2. Cardinality(Inside') \in Nat
<2>1. Inside' \subseteq Streams BY DEF Inside
<2> QED BY <2>1, StreamsAreFinite, FS_Subset, FS_CardinalityType
<1>3. Cardinality(Inside') <= users' /\ users' <= Cardinality(Counted')
  BY <1>1, <1>2 DEF BridgeTypeOK, BridgeFacts
<1>4. users' \in 0..Cardinality(Streams)
  BY <1>1, <1>2, <1>3, StreamsAreFinite
<1>5. BridgeTypeOK' BY <1>1, <1>4 DEF BridgeTypeOK, SendState
<1>6. Restarting \subseteq {t} /\ closing # "drain" BY DEF BridgeFacts, Restarting
<1>7. Restarting' = IF s.pc \in {"drain", "launch", "reopen"} THEN {t} ELSE {}
  BY <1>1, <1>6 DEF Restarting
<1>8. (\A u \in Restarting : pending /\ closing # "drain" /\ Restarting = {u})'
  BY <1>6, <1>7
<1>9. \A u \in Streams : sends'[u].pc \in {"launch", "reopen"} => Inside' = {} /\ Woken' = {}
  BY <1>1, <1>6 DEF Restarting
<1> QED BY <1>3, <1>5, <1>6, <1>8, <1>9 DEF BridgeFacts

LEMMA EnterStep ==
  ASSUME BridgeInv, NEW t \in Streams, EnterBridge(t)
  PROVE  BridgeInv'
<1> DEFINE s == [sends[t] EXCEPT !.pc = "session", !.epoch = epoch]
<1>1. sends[t] \in SendState BY DEF BridgeInv, BridgeTypeOK, SendState
<1>2. s \in SendState /\ s.pc = "session" BY <1>1 DEF SendState, InBridge, BridgeInv, BridgeTypeOK
<1>3. /\ sends' = [sends EXCEPT ![t] = s] /\ sends[t].pc = "entering" /\ ~pending
      /\ users' = users + 1
      /\ UNCHANGED <<pending, epoch, sdk, cached, authFails, closing>>
  BY DEF EnterBridge, StreamAt, BridgeInv, BridgeTypeOK
<1> HIDE DEF s
<1>4. /\ Cardinality(Inside') = Cardinality(Inside) + 1
      /\ Cardinality(Counted') = Cardinality(Counted) + 1
      /\ Cardinality(Inside) \in Nat /\ Cardinality(Counted) \in Nat
  BY <1>2, <1>3, OneTurnMoves DEF BridgeInv, InPcs, CountedPcs, InBridge
<1>5. users \in Nat BY DEF BridgeInv, BridgeTypeOK
<1>6. /\ users' \in Int /\ Cardinality(Inside') - users' <= Cardinality(Inside) - users
      /\ users' - Cardinality(Counted') <= users - Cardinality(Counted)
  BY <1>3, <1>4, <1>5
<1>7. sdk' \in {"open", "closed"} /\ cached' \subseteq Streams /\ authFails' \in Nat
  BY <1>3 DEF BridgeInv, BridgeTypeOK
<1> QED BY <1>2, <1>3, <1>6, <1>7, QuietStep

(* A turn that stays inside, or that is stopped in the bridge. *)
LEMMA InsideStep ==
  ASSUME BridgeInv, NEW t \in Streams, NEW s \in SendState,
         sends' = [sends EXCEPT ![t] = s],
         sends[t].pc \in InPcs, s.pc \in InPcs,
         UNCHANGED <<users, pending, epoch, closing>>,
         sdk' \in {"open", "closed"}, cached' \subseteq Streams, authFails' \in Nat
  PROVE  BridgeInv'
<1>1. /\ Inside' = Inside /\ Counted' = Counted
      /\ Cardinality(Inside) \in Nat /\ Cardinality(Counted) \in Nat
  BY OneTurnMoves DEF BridgeInv, InPcs, CountedPcs
<1>2. users \in Nat BY DEF BridgeInv, BridgeTypeOK
<1>3. /\ users' \in Int /\ Cardinality(Inside') - users' <= Cardinality(Inside) - users
      /\ users' - Cardinality(Counted') <= users - Cardinality(Counted)
  BY <1>1, <1>2
<1>4. s.pc # "restart" /\ sends[t].pc \notin {"drain", "launch", "reopen"}
      /\ s.pc \notin {"drain", "launch", "reopen"}
  BY DEF InPcs, InBridge
<1> QED BY <1>3, <1>4, QuietStep

LEMMA SessionStep ==
  ASSUME BridgeInv, NEW t \in Streams, EnsureSession(t)
  PROVE  BridgeInv'
<1>1. sends[t] \in SendState /\ sends \in [Streams -> SendState]
  BY DEF BridgeInv, BridgeTypeOK, SendState
<1>2. PICK pc \in {"sending", "leaving"} :
        /\ sends' = [sends EXCEPT ![t].pc = pc] /\ sends[t].pc = "session"
        /\ cached' \in {cached, cached \cup {t}}
        /\ UNCHANGED <<users, pending, epoch, sdk, authFails, closing>>
  BY DEF EnsureSession, StreamAt, StreamGoes
<1> DEFINE s == [sends[t] EXCEPT !.pc = pc]
<1>3. s \in SendState /\ s.pc = pc BY <1>1 DEF SendState, InBridge
<1>4. sends' = [sends EXCEPT ![t] = s] BY <1>1, <1>2
<1> HIDE DEF s
<1>5. sdk' \in {"open", "closed"} /\ cached' \subseteq Streams /\ authFails' \in Nat
  BY <1>2 DEF BridgeInv, BridgeTypeOK
<1> QED BY <1>2, <1>3, <1>4, <1>5, InsideStep DEF InPcs, InBridge

LEMMA BusyStep ==
  ASSUME BridgeInv, NEW t \in Streams, AgentBusy(t)
  PROVE  BridgeInv'
<1>1. sends[t] \in SendState /\ sends \in [Streams -> SendState]
  BY DEF BridgeInv, BridgeTypeOK, SendState
<1> DEFINE s == IF sends[t].forced THEN [sends[t] EXCEPT !.pc = "leaving"]
                ELSE [sends[t] EXCEPT !.forced = TRUE]
<1>2. /\ sends[t].pc = "sending"
      /\ UNCHANGED <<users, pending, epoch, sdk, cached, authFails, closing>>
  BY DEF AgentBusy, StreamAt
<1>3. s \in SendState /\ s.pc \in {"leaving", "sending"} BY <1>1, <1>2 DEF SendState, InBridge
<1>4. sends' = [sends EXCEPT ![t] = s] BY <1>1 DEF AgentBusy, StreamGoes
<1> HIDE DEF s
<1>5. sdk' \in {"open", "closed"} /\ cached' \subseteq Streams /\ authFails' \in Nat
  BY <1>2 DEF BridgeInv, BridgeTypeOK
<1> QED BY <1>2, <1>3, <1>4, <1>5, InsideStep DEF InPcs, InBridge

LEMMA AttemptStep ==
  ASSUME BridgeInv, NEW t \in Streams,
         NEW outcome \in {"completed", "failed", "dead", "auth", "raised"}, Attempt(t, outcome)
  PROVE  BridgeInv'
<1>1. sends[t] \in SendState /\ sends \in [Streams -> SendState]
  BY DEF BridgeInv, BridgeTypeOK, SendState
<1> DEFINE recycle == Recycles(outcome) /\ ~sends[t].restarted
           s == [sends[t] EXCEPT !.pc = IF recycle THEN "release" ELSE "leaving",
                                 !.why = IF recycle THEN outcome ELSE "none"]
<1>2. /\ sends[t].pc = "sending"
      /\ UNCHANGED <<users, pending, epoch, sdk, cached, closing>>
      /\ authFails' = IF outcome = "raised" THEN authFails ELSE NoteAuthFailures(outcome)
  BY DEF Attempt, StreamAt
<1>3. recycle => outcome \in {"dead", "auth"} BY DEF Recycles
<1>4. s \in SendState /\ s.pc \in {"leaving", "release"} BY <1>1, <1>3 DEF SendState, InBridge
<1>5. sends' = [sends EXCEPT ![t] = s] BY <1>1 DEF Attempt
<1> HIDE DEF s, recycle
<1>6. sdk' \in {"open", "closed"} /\ cached' \subseteq Streams /\ authFails' \in Nat
  BY <1>2 DEF BridgeInv, BridgeTypeOK, NoteAuthFailures
<1> QED BY <1>2, <1>4, <1>5, <1>6, InsideStep DEF InPcs, InBridge

(* A turn that leaves, and is not counted, or stays in the count as one that is over. *)
LEMMA LeavingStep ==
  ASSUME BridgeInv, NEW t \in Streams, NEW pc,
         \/ sends[t].pc = "release" /\ pc = "restart"
         \/ sends[t].pc \in {"leaving", "rejoin"} /\ pc = "done",
         sends' = [sends EXCEPT ![t].pc = pc],
         users' = users - 1 \/ (users' = users /\ pc = "done"),
         UNCHANGED <<pending, epoch, sdk, cached, authFails, closing>>
  PROVE  BridgeInv'
<1>1. sends[t] \in SendState /\ sends \in [Streams -> SendState]
  BY DEF BridgeInv, BridgeTypeOK, SendState
<1> DEFINE s == [sends[t] EXCEPT !.pc = pc]
<1>3. s \in SendState /\ s.pc = pc BY <1>1 DEF SendState, InBridge
<1>4. sends' = [sends EXCEPT ![t] = s] BY <1>1
<1> HIDE DEF s
<1>5. /\ Cardinality(Inside') = Cardinality(Inside) - 1
      /\ pc = "restart" => Cardinality(Counted') = Cardinality(Counted) - 1
      /\ pc = "done" => Counted' = Counted
      /\ Cardinality(Inside) \in Nat /\ Cardinality(Counted) \in Nat
  BY <1>3, <1>4, OneTurnMoves DEF BridgeInv, InPcs, CountedPcs, InBridge
<1>6. users \in Nat BY DEF BridgeInv, BridgeTypeOK
<1>7. /\ users' \in Int /\ Cardinality(Inside') - users' <= Cardinality(Inside) - users
      /\ users' - Cardinality(Counted') <= users - Cardinality(Counted)
  BY <1>5, <1>6
<1>8. sdk' \in {"open", "closed"} /\ cached' \subseteq Streams /\ authFails' \in Nat
  BY DEF BridgeInv, BridgeTypeOK
<1>9. /\ sends[t].pc \notin {"drain", "launch", "reopen"} /\ sends[t].pc \in InPcs
      /\ s.pc \notin {"drain", "launch", "reopen"} /\ s.pc \notin InPcs
  BY <1>3 DEF InPcs, InBridge
<1> QED BY <1>3, <1>4, <1>7, <1>8, <1>9, QuietStep

LEMMA JoinStep ==
  ASSUME BridgeInv, NEW t \in Streams, JoinRestarted(t)
  PROVE  BridgeInv'
<1> DEFINE s == [sends[t] EXCEPT !.pc = "rejoin", !.epoch = epoch]
<1>1. sends[t] \in SendState BY DEF BridgeInv, BridgeTypeOK, SendState
<1>2. s \in SendState /\ s.pc = "rejoin" BY <1>1 DEF SendState, InBridge, BridgeInv, BridgeTypeOK
<1>3. /\ sends' = [sends EXCEPT ![t] = s] /\ sends[t].pc = "restart" /\ sends[t].epoch # epoch
      /\ users' = users + 1
      /\ UNCHANGED <<pending, epoch, sdk, cached, authFails, closing>>
  BY DEF JoinRestarted, StreamAt, SameClient, BridgeInv, BridgeTypeOK
<1> HIDE DEF s
<1>4. /\ Cardinality(Inside') = Cardinality(Inside) + 1
      /\ Cardinality(Counted') = Cardinality(Counted) + 1
      /\ Cardinality(Inside) \in Nat /\ Cardinality(Counted) \in Nat
  BY <1>2, <1>3, OneTurnMoves DEF BridgeInv, InPcs, CountedPcs, InBridge
<1>5. users \in Nat BY DEF BridgeInv, BridgeTypeOK
<1>6. /\ users' \in Int /\ Cardinality(Inside') - users' <= Cardinality(Inside) - users
      /\ users' - Cardinality(Counted') <= users - Cardinality(Counted)
  BY <1>3, <1>4, <1>5
<1>7. sdk' \in {"open", "closed"} /\ cached' \subseteq Streams /\ authFails' \in Nat
  BY <1>3 DEF BridgeInv, BridgeTypeOK
<1> QED BY <1>2, <1>3, <1>6, <1>7, QuietStep

LEMMA RejoinStep ==
  ASSUME BridgeInv, NEW t \in Streams, Rejoin(t)
  PROVE  BridgeInv'
<1>1. sends[t] \in SendState /\ sends \in [Streams -> SendState]
  BY DEF BridgeInv, BridgeTypeOK, SendState
<1> DEFINE s == [sends[t] EXCEPT !.restarted = TRUE,
                    !.pc = IF sends[t].why = "dead" THEN "sending" ELSE "leaving"]
<1>2. s \in SendState /\ s.pc \in {"sending", "leaving"} BY <1>1 DEF SendState, InBridge
<1>3. CASE /\ sends' = [sends EXCEPT ![t] = s] /\ users' = users /\ cached' = cached \cup {t}
           /\ sends[t].pc = "rejoin" /\ UNCHANGED <<pending, epoch, sdk, authFails, closing>>
<2>1. sdk' \in {"open", "closed"} /\ cached' \subseteq Streams /\ authFails' \in Nat
  BY <1>3 DEF BridgeInv, BridgeTypeOK
<2> HIDE DEF s
<2> QED BY <1>2, <1>3, <2>1, InsideStep DEF InPcs, InBridge
<1>4. CASE /\ sends' = [sends EXCEPT ![t].pc = "done"] /\ users' = users - 1 /\ cached' = cached
           /\ sends[t].pc = "rejoin" /\ UNCHANGED <<pending, epoch, sdk, authFails, closing>>
  BY <1>4, LeavingStep
<1> QED BY <1>1, <1>3, <1>4 DEF Rejoin, StreamAt, StreamGoes

LEMMA StoppedStep ==
  ASSUME BridgeInv, NEW t \in Streams, CancelStream(t)
  PROVE  BridgeInv'
<1>1. sends[t] \in SendState /\ sends \in [Streams -> SendState]
  BY DEF BridgeInv, BridgeTypeOK, SendState
<1>2. /\ sends[t].pc \notin {"leaving", "done"}
      /\ sends' = [sends EXCEPT ![t].pc = IF sends[t].pc \in InBridge THEN "leaving" ELSE "done"]
      /\ UNCHANGED <<users, pending, epoch, sdk, cached, authFails, closing>>
  BY DEF CancelStream, StreamGoes
<1>3. sdk' \in {"open", "closed"} /\ cached' \subseteq Streams /\ authFails' \in Nat
      /\ users \in Nat /\ epoch' \in Nat /\ pending' \in BOOLEAN
  BY <1>2 DEF BridgeInv, BridgeTypeOK
<1>4. CASE sends[t].pc \in InBridge
<2> DEFINE s == [sends[t] EXCEPT !.pc = "leaving"]
<2>1. s \in SendState /\ s.pc = "leaving" BY <1>1 DEF SendState, InBridge
<2>2. sends' = [sends EXCEPT ![t] = s] BY <1>1, <1>2, <1>4
<2> HIDE DEF s
<2> QED BY <1>2, <1>3, <1>4, <2>1, <2>2, InsideStep DEF InPcs, InBridge
<1>5. CASE sends[t].pc = "rejoin"
<2>1. sends' = [sends EXCEPT ![t].pc = "done"] BY <1>2, <1>5 DEF InBridge
<2> QED BY <1>2, <1>5, <2>1, LeavingStep
<1>6. CASE sends[t].pc \notin InPcs
<2> DEFINE s == [sends[t] EXCEPT !.pc = "done"]
<2>1. s \in SendState /\ s.pc = "done" BY <1>1 DEF SendState, InBridge
<2>2. sends' = [sends EXCEPT ![t] = s] BY <1>1, <1>2, <1>6 DEF InPcs
<2> HIDE DEF s
<2>3. sends[t].pc \notin CountedPcs BY <1>2, <1>6 DEF InPcs, CountedPcs
<2>4. /\ Inside' = Inside /\ Cardinality(Counted') = Cardinality(Counted) + 1
      /\ Cardinality(Inside) \in Nat /\ Cardinality(Counted) \in Nat
  BY <1>6, <2>1, <2>2, <2>3, OneTurnMoves DEF BridgeInv, InPcs, CountedPcs, InBridge
<2>5. /\ users' \in Int /\ Cardinality(Inside') - users' <= Cardinality(Inside) - users
      /\ users' - Cardinality(Counted') <= users - Cardinality(Counted)
  BY <1>2, <1>3, <2>4
<2>6. s.pc \notin InPcs BY <2>1 DEF InPcs, InBridge
<2>7. CASE sends[t].pc \in {"drain", "launch", "reopen"}
  BY <1>2, <1>3, <2>1, <2>2, <2>5, <2>7, RestartStep
<2>8. CASE sends[t].pc \notin {"drain", "launch", "reopen"}
  BY <1>2, <1>3, <2>1, <2>2, <2>5, <2>6, <2>8, QuietStep
<2> QED BY <2>7, <2>8
<1> QED BY <1>4, <1>5, <1>6 DEF InPcs

(* The steps of a restart: the set of turns that are woken only shrinks. *)
LEMMA RestartingSteps ==
  ASSUME BridgeInv, NEW t \in Streams,
         OwnRestart(t) \/ CloseOld(t) \/ LaunchBridge(t) \/ LaunchFails(t)
  PROVE  BridgeInv'
<1>1. sends[t] \in SendState /\ sends \in [Streams -> SendState]
  BY DEF BridgeInv, BridgeTypeOK, SendState
<1>2. PICK pc \in {"drain", "launch", "reopen", "done"} :
        /\ sends' = [sends EXCEPT ![t].pc = pc]
        /\ pc = "drain" => sends[t].pc = "restart" /\ ~pending /\ pending'
        /\ pc = "launch" => sends[t].pc = "drain" /\ users = 0 /\ Woken = {} /\ pending' = pending
        /\ pc = "reopen" => sends[t].pc = "launch" /\ pending' = pending
        /\ pc = "done" => sends[t].pc = "launch" /\ pending' = FALSE
        /\ pending' \in BOOLEAN
        /\ UNCHANGED <<users, epoch, authFails, closing>>
        /\ sdk' \in {"open", "closed"} /\ cached' \subseteq Streams
  BY DEF OwnRestart, CloseOld, Drained, LaunchBridge, LaunchFails, StreamAt, StreamGoes,
         BridgeInv, BridgeTypeOK
<1> DEFINE s == [sends[t] EXCEPT !.pc = pc]
<1>3. s \in SendState /\ s.pc = pc /\ s.epoch = sends[t].epoch BY <1>1 DEF SendState, InBridge
<1>4. sends' = [sends EXCEPT ![t] = s] BY <1>1, <1>2
<1> HIDE DEF s
<1>5. sends[t].pc \notin InPcs /\ s.pc \notin InPcs BY <1>2, <1>3 DEF InPcs, InBridge
<1>6. sends[t].pc \notin CountedPcs /\ (pc # "done" => s.pc \notin CountedPcs)
  BY <1>2, <1>3 DEF CountedPcs, InBridge
<1>7. /\ Inside' = Inside
      /\ pc # "done" => Counted' = Counted
      /\ pc = "done" => Cardinality(Counted') = Cardinality(Counted) + 1
      /\ Cardinality(Inside) \in Nat /\ Cardinality(Counted) \in Nat
      /\ \A u \in Streams : sends'[u] = IF u = t THEN s ELSE sends[u]
  BY <1>3, <1>4, <1>5, <1>6, OneTurnMoves DEF BridgeInv, CountedPcs
<1>8. users \in Nat /\ authFails' \in Nat /\ epoch' \in Nat
  BY <1>2 DEF BridgeInv, BridgeTypeOK
<1>9. /\ users' \in Int /\ Cardinality(Inside') - users' <= Cardinality(Inside) - users
      /\ users' - Cardinality(Counted') <= users - Cardinality(Counted)
  BY <1>2, <1>7, <1>8
<1>10. \/ sends[t].pc \in {"drain", "launch", "reopen"}
       \/ (Restarting = {} /\ closing # "drain")
  BY <1>2 DEF BridgeInv, BridgeFacts
<1>11. s.pc \in {"drain", "launch", "reopen"} => pending'
  BY <1>2, <1>3 DEF BridgeInv, BridgeFacts, Restarting
<1>12. ASSUME s.pc \in {"launch", "reopen"} PROVE Inside' = {} /\ Woken' = {}
<2>1. pc = "launch" => Inside = {} BY <1>2, NobodyCounted DEF BridgeInv
<2>2. pc = "reopen" => Inside = {} /\ Woken = {} BY <1>2 DEF BridgeInv, BridgeFacts
<2>3. Inside = {} /\ Woken = {} BY <1>2, <1>3, <1>12, <2>1, <2>2
<2>4. Woken' = {} BY <1>2, <1>3, <1>7, <1>12, <2>3 DEF Woken, StreamAt, SameClient
<2> QED BY <1>7, <2>3, <2>4
<1> QED BY <1>2, <1>3, <1>4, <1>8, <1>9, <1>10, <1>11, <1>12, RestartStep

LEMMA ReopenStep ==
  ASSUME BridgeInv, NEW t \in Streams, Reopen(t)
  PROVE  BridgeInv'
<1>1. sends[t] \in SendState /\ sends \in [Streams -> SendState] /\ epoch \in Nat /\ users \in Nat
  BY DEF BridgeInv, BridgeTypeOK, SendState
<1> DEFINE s == [sends[t] EXCEPT !.epoch = epoch + 1, !.restarted = TRUE,
                    !.pc = IF sends[t].why = "dead" THEN "sending" ELSE "leaving"]
<1>2. s \in SendState /\ s.pc \in {"sending", "leaving"}
<2>1. epoch + 1 \in Nat BY <1>1
<2> QED BY <1>1, <2>1 DEF SendState, InBridge
<1>3. /\ sends' = [sends EXCEPT ![t] = s] /\ sends[t].pc = "reopen"
      /\ epoch' = epoch + 1 /\ users' = users + 1 /\ pending' = FALSE /\ authFails' = 0
      /\ UNCHANGED <<sdk, cached, closing>>
  BY <1>1 DEF Reopen, StreamAt
<1> HIDE DEF s
<1>4. /\ Cardinality(Inside') = Cardinality(Inside) + 1
      /\ Cardinality(Counted') = Cardinality(Counted) + 1
      /\ Cardinality(Inside) \in Nat /\ Cardinality(Counted) \in Nat
  BY <1>2, <1>3, OneTurnMoves DEF BridgeInv, InPcs, CountedPcs, InBridge
<1>5. /\ users' \in Int /\ Cardinality(Inside') - users' <= Cardinality(Inside) - users
      /\ users' - Cardinality(Counted') <= users - Cardinality(Counted)
  BY <1>1, <1>3, <1>4
<1>6. sdk' \in {"open", "closed"} /\ cached' \subseteq Streams
  BY <1>3 DEF BridgeInv, BridgeTypeOK
<1>7. authFails' \in Nat /\ epoch' \in Nat /\ pending' \in BOOLEAN
<2>1. authFails' = 0 /\ epoch' = epoch + 1 BY <1>3
<2>2. pending' = FALSE BY <1>3
<2>3. pending' \in BOOLEAN BY <2>2, Zenon
<2>4. authFails' \in Nat /\ epoch' \in Nat BY <1>1, <2>1
<2> QED BY <2>3, <2>4
<1>8. s.pc \notin {"drain", "launch", "reopen"} BY <1>2
<1> QED BY <1>2, <1>3, <1>5, <1>6, <1>7, <1>8, RestartStep

(* Shutdown: it begins when nothing is pending, and its end closes a client
   nobody is counted in. *)
LEMMA ClosingSteps ==
  ASSUME BridgeInv, CloseBegins \/ CloseClient
  PROVE  BridgeInv'
<1>1. Restarting = {} BY DEF BridgeInv, BridgeFacts, CloseBegins, CloseClient
<1>2. UNCHANGED <<users, epoch, sends>> BY DEF CloseBegins, CloseClient
<1>3. Inside' = Inside /\ Counted' = Counted /\ Restarting' = Restarting
  BY <1>2 DEF Inside, Counted, Restarting
<1>4. BridgeTypeOK' BY <1>2 DEF BridgeInv, BridgeTypeOK, CloseBegins, CloseClient
<1>5. \A u \in Streams : sends'[u].pc \notin {"launch", "reopen"}
  BY <1>1, <1>2 DEF Restarting
<1>6. (closing = "drain" => pending)' BY DEF CloseBegins, CloseClient
<1>7. Cardinality(Inside') <= users' /\ users' <= Cardinality(Counted')
  BY <1>2, <1>3 DEF BridgeInv, BridgeFacts
<1> QED BY <1>1, <1>3, <1>4, <1>5, <1>6, <1>7 DEF BridgeInv, BridgeFacts

LEMMA BridgeStart == BridgeInit => BridgeInv
<1> SUFFICES ASSUME BridgeInit PROVE BridgeInv OBVIOUS
<1>1. \A t \in Streams : sends[t] = NewStream BY DEF BridgeInit
<1>2. Inside = {} /\ Counted = {} /\ Restarting = {}
  BY <1>1 DEF Inside, Counted, Restarting, NewStream, InBridge
<1>3. Cardinality(Inside) = 0 /\ Cardinality(Counted) = 0 BY <1>2, FS_EmptySet
<1>4. NewStream \in SendState BY DEF NewStream, SendState, InBridge
<1>5. sends \in [Streams -> SendState] BY <1>4 DEF BridgeInit
<1>6. BridgeTypeOK
<2>1. pending \in BOOLEAN BY DEF BridgeInit
<2>2. users \in 0..Cardinality(Streams) BY StreamsAreFinite DEF BridgeInit
<2> QED BY <1>5, <2>1, <2>2 DEF BridgeInit, BridgeTypeOK, SendState
<1>7. \A t \in Streams : sends[t].pc \notin {"launch", "reopen"} BY <1>1 DEF NewStream
<1> QED BY <1>2, <1>3, <1>6, <1>7 DEF BridgeInv, BridgeFacts, BridgeInit

LEMMA BridgeStep == BridgeInv /\ [BridgeNext]_bridgeVars => BridgeInv'
<1> SUFFICES ASSUME BridgeInv, [BridgeNext]_bridgeVars PROVE BridgeInv' OBVIOUS
<1>1. ASSUME NEW t \in Streams, EnterBridge(t) PROVE BridgeInv' BY <1>1, EnterStep
<1>2. ASSUME NEW t \in Streams, EnsureSession(t) PROVE BridgeInv' BY <1>2, SessionStep
<1>3. ASSUME NEW t \in Streams, AgentBusy(t) PROVE BridgeInv' BY <1>3, BusyStep
<1>4. ASSUME NEW t \in Streams,
             NEW outcome \in {"completed", "failed", "dead", "auth", "raised"}, Attempt(t, outcome)
      PROVE  BridgeInv'
  BY <1>4, AttemptStep
<1>5. ASSUME NEW t \in Streams, ReleaseRun(t) PROVE BridgeInv'
  BY <1>5, LeavingStep DEF ReleaseRun, StreamAt, StreamGoes
<1>6. ASSUME NEW t \in Streams, LeaveBridge(t) PROVE BridgeInv'
  BY <1>6, LeavingStep DEF LeaveBridge, StreamAt, StreamGoes
<1>7. ASSUME NEW t \in Streams, JoinRestarted(t) PROVE BridgeInv' BY <1>7, JoinStep
<1>8. ASSUME NEW t \in Streams, Rejoin(t) PROVE BridgeInv' BY <1>8, RejoinStep
<1>9. ASSUME NEW t \in Streams,
             OwnRestart(t) \/ CloseOld(t) \/ LaunchBridge(t) \/ LaunchFails(t)
      PROVE  BridgeInv'
  BY <1>9, RestartingSteps
<1>10. ASSUME NEW t \in Streams, Reopen(t) PROVE BridgeInv' BY <1>10, ReopenStep
<1>11. ASSUME NEW t \in Streams, CancelStream(t) PROVE BridgeInv' BY <1>11, StoppedStep
<1>12. CASE CloseBegins \/ CloseClient BY <1>12, ClosingSteps
<1>13. CASE UNCHANGED bridgeVars
  BY <1>13 DEF bridgeVars, BridgeInv, BridgeTypeOK, BridgeFacts, Restarting, Inside, Counted,
               Woken, StreamAt, SameClient
<1> QED
  BY <1>1, <1>2, <1>3, <1>4, <1>5, <1>6, <1>7, <1>8, <1>9, <1>10, <1>11, <1>12, <1>13
  DEF BridgeNext

(* The count of the turns inside the bridge is never lower than they are, one
   turn at a time restarts it, and not while it is shut down. *)
THEOREM BridgeFactsHold == BridgeSpec => [](BridgeTypeOK /\ BridgeFacts)
<1>1. BridgeInv => BridgeTypeOK /\ BridgeFacts BY DEF BridgeInv
<1> QED BY <1>1, BridgeStart, BridgeStep, PTL DEF BridgeSpec

(* Between the close of the old client and the count of the new one no other
   turn is inside the bridge. *)
THEOREM SwapIsAloneHolds == BridgeSpec => []SwapIsAlone
<1>1. BridgeInv => SwapIsAlone BY DEF BridgeInv, BridgeFacts, SwapIsAlone
<1> QED BY <1>1, BridgeStart, BridgeStep, PTL DEF BridgeSpec

(***************************************************************************)
(* The turn of a tool call.                                                *)
(***************************************************************************)

ContextInv == ContextsTypeOK /\ ContextFacts

TaskState ==
  [pc : {"new", "streaming", "stopped", "ended"}, agent : Agents \cup {NoAgent}]

(* What the facts say of one task. *)
TaskFact(k) ==
  task[k].pc = "streaming" /\ Undisturbed(k) =>
    /\ task[k].agent \in Agents /\ frozenByAgent[task[k].agent] = RunOf(k)
    /\ task[k].agent \in boxed => toolBox[task[k].agent] = RunOf(k)

(* A lead run is its own run; the tasks of the worker share one, which is no
   lead's. *)
LEMMA RunsOfTasks ==
  /\ \A k \in Leads : k \notin Nat /\ RunOf(k) = k /\ k # Worker /\ k # NoRun
  /\ \A k \in 0..MaxSteers : k \notin Leads /\ RunOf(k) = Worker
  /\ \A k \in Tasks : RunOf(k) \in Runs /\ RunOf(k) # NoRun
  /\ MaxSteers \in Nat /\ Worker # NoRun
<1>1. MaxSteers \in Nat /\ Worker # NoRun BY ContextsAssumption DEF Worker, NoRun
<1>2. \A k \in Leads : k \notin Nat /\ k # Worker /\ k # NoRun
  BY ContextsAssumption DEF Worker, NoRun
<1>3. \A k \in 0..MaxSteers : k \notin Leads BY <1>1, <1>2
<1> QED BY <1>1, <1>2, <1>3 DEF RunOf, Runs, Tasks

(* The stage of one task changes: what is known then of the others. *)
LEMMA OneTaskMoves ==
  ASSUME ContextInv, NEW k \in Tasks, NEW s \in TaskState, task' = [task EXCEPT ![k] = s],
         task[k].pc = "ended" => s.pc = "ended"
  PROVE  /\ task' \in [Tasks -> TaskState]
         /\ \A j \in Tasks : task'[j] = IF j = k THEN s ELSE task[j]
         /\ \A j \in Tasks : Undisturbed(j)' => Undisturbed(j)
<1>1. task \in [Tasks -> TaskState] BY DEF ContextInv, ContextsTypeOK, TaskState
<1>2. /\ task' \in [Tasks -> TaskState]
      /\ \A j \in Tasks : task'[j] = IF j = k THEN s ELSE task[j]
  BY <1>1
<1>3. ASSUME NEW j \in Tasks, Undisturbed(j)' PROVE Undisturbed(j)
<2>1. ASSUME j \in Nat, NEW p \in 0..(j - 1) PROVE task[p].pc # "ended"
<3>1. j \in 0..MaxSteers BY <2>1, RunsOfTasks DEF Tasks
<3>2. p \in Tasks BY <2>1, <3>1, RunsOfTasks DEF Tasks
<3>3. task'[p].pc # "ended" BY <1>3, <2>1 DEF Undisturbed
<3> QED BY <1>2, <3>2, <3>3
<2> QED BY <2>1 DEF Undisturbed
<1> QED BY <1>2, <1>3

LEMMA SessionsMove ==
  ASSUME ContextInv, NEW a \in Agents, botOf' \in [Agents -> Bots \cup {NoBot}],
         UNCHANGED <<frozenByRun, frozenByAgent, task, steers>>,
         \/ boxed' = boxed \cup {a} /\ toolBox' = [toolBox EXCEPT ![a] = frozenByAgent[a]]
         \/ boxed' = boxed \ {a} /\ toolBox' = [toolBox EXCEPT ![a] = NoRun]
  PROVE  ContextInv'
<1>2. ContextsTypeOK' BY DEF ContextInv, ContextsTypeOK
<1>3. ASSUME NEW k \in Tasks PROVE TaskFact(k)'
<2>1. TaskFact(k) BY DEF ContextInv, ContextFacts, TaskFact
<2>2. Undisturbed(k)' = Undisturbed(k) BY DEF Undisturbed
<2> QED BY <2>1, <2>2 DEF TaskFact, ContextInv, ContextsTypeOK, RunOf
<1>4. (\A p \in 0..MaxSteers : /\ p < steers => task[p].pc \in {"stopped", "ended"}
                               /\ p > steers => task[p].pc = "new")'
  BY DEF ContextInv, ContextFacts
<1> QED BY <1>2, <1>3, <1>4 DEF ContextInv, ContextFacts, TaskFact

LEMMA FreezeStep ==
  ASSUME ContextInv, NEW k \in Tasks, NEW a \in Agents, NEW b \in Bots, FreezeTurn(k, a, b)
  PROVE  ContextInv'
<1> DEFINE s == [pc |-> "streaming", agent |-> a]
<1>1. s \in TaskState /\ s.pc = "streaming" /\ s.agent = a BY DEF TaskState
<1>2. /\ task[k].pc = "new" /\ AgentFree(a) /\ task' = [task EXCEPT ![k] = s]
      /\ k \in Nat => k = steers
      /\ frozenByRun' = [frozenByRun EXCEPT ![RunOf(k)] = a]
      /\ frozenByAgent' = [frozenByAgent EXCEPT ![a] = RunOf(k)]
      /\ toolBox' = IF a \in boxed THEN [toolBox EXCEPT ![a] = RunOf(k)] ELSE toolBox
      /\ UNCHANGED <<botOf, boxed, steers>>
  BY DEF FreezeTurn
<1> HIDE DEF s
<1>3. /\ task' \in [Tasks -> TaskState]
      /\ \A j \in Tasks : task'[j] = IF j = k THEN s ELSE task[j]
      /\ \A j \in Tasks : Undisturbed(j)' => Undisturbed(j)
  BY <1>1, <1>2, OneTaskMoves
<1>4. RunOf(k) \in Runs BY RunsOfTasks
<1>5. ContextsTypeOK' BY <1>2, <1>3, <1>4 DEF ContextInv, ContextsTypeOK, TaskState
<1>6. ASSUME NEW j \in Tasks PROVE TaskFact(j)'
<2>1. CASE j = k
  BY <1>1, <1>2, <1>3, <1>4, <2>1 DEF TaskFact, ContextInv, ContextsTypeOK, RunOf
<2>2. CASE j # k
<3>1. task'[j] = task[j] BY <1>3, <2>2
<3>2. task[j].pc = "streaming" => task[j].agent # a BY <1>2 DEF AgentFree
<3>3. TaskFact(j) BY DEF ContextInv, ContextFacts, TaskFact
<3> QED BY <1>2, <1>3, <3>1, <3>2, <3>3 DEF TaskFact, ContextInv, ContextsTypeOK, RunOf
<2> QED BY <2>1, <2>2
<1>7. (\A p \in 0..MaxSteers : /\ p < steers => task[p].pc \in {"stopped", "ended"}
                               /\ p > steers => task[p].pc = "new")'
<2>1. \A p \in 0..MaxSteers : p \in Tasks /\ p \in Nat BY RunsOfTasks DEF Tasks
<2>2. \A p \in 0..MaxSteers : p # steers => task'[p] = task[p] BY <1>2, <1>3, <2>1
<2>3. steers \in Nat BY RunsOfTasks DEF ContextInv, ContextsTypeOK
<2> QED BY <1>2, <2>1, <2>2, <2>3 DEF ContextInv, ContextFacts
<1> QED BY <1>5, <1>6, <1>7 DEF ContextInv, ContextFacts, TaskFact

LEMMA StopTaskStep ==
  ASSUME ContextInv, NEW k \in Tasks, StopTask(k)
  PROVE  ContextInv'
<1> DEFINE s == [task[k] EXCEPT !.pc = "stopped"]
<1>1. task \in [Tasks -> TaskState] BY DEF ContextInv, ContextsTypeOK, TaskState
<1>2. s \in TaskState /\ s.pc = "stopped" BY <1>1 DEF TaskState
<1>3. /\ task[k].pc = "streaming" /\ task' = [task EXCEPT ![k] = s]
      /\ UNCHANGED <<botOf, frozenByRun, frozenByAgent, toolBox, boxed, steers>>
  BY <1>1 DEF StopTask
<1> HIDE DEF s
<1>4. /\ task' \in [Tasks -> TaskState]
      /\ \A j \in Tasks : task'[j] = IF j = k THEN s ELSE task[j]
      /\ \A j \in Tasks : Undisturbed(j)' => Undisturbed(j)
  BY <1>2, <1>3, OneTaskMoves
<1>5. ContextsTypeOK' BY <1>3, <1>4 DEF ContextInv, ContextsTypeOK, TaskState
<1>6. ASSUME NEW j \in Tasks PROVE TaskFact(j)'
<2>1. TaskFact(j) BY DEF ContextInv, ContextFacts, TaskFact
<2> QED BY <1>2, <1>3, <1>4, <2>1 DEF TaskFact, RunOf
<1>7. (\A p \in 0..MaxSteers : /\ p < steers => task[p].pc \in {"stopped", "ended"}
                               /\ p > steers => task[p].pc = "new")'
<2>1. \A p \in 0..MaxSteers : p \in Tasks BY DEF Tasks
<2> QED BY <1>2, <1>3, <1>4, <2>1 DEF ContextInv, ContextFacts
<1> QED BY <1>5, <1>6, <1>7 DEF ContextInv, ContextFacts, TaskFact

LEMMA SteerStep ==
  ASSUME ContextInv, SteerWorker
  PROVE  ContextInv'
<1>1. /\ steers < MaxSteers /\ task[steers].pc \in {"stopped", "ended"} /\ steers' = steers + 1
      /\ UNCHANGED <<botOf, frozenByRun, frozenByAgent, toolBox, boxed, task>>
  BY DEF SteerWorker
<1>2. steers \in 0..MaxSteers /\ steers \in Nat /\ MaxSteers \in Nat
  BY RunsOfTasks DEF ContextInv, ContextsTypeOK
<1>3. ContextsTypeOK'
<2>1. steers' \in 0..MaxSteers BY <1>1, <1>2
<2> QED BY <1>1, <2>1 DEF ContextInv, ContextsTypeOK
<1>4. ASSUME NEW j \in Tasks PROVE TaskFact(j)'
<2>1. TaskFact(j) BY DEF ContextInv, ContextFacts, TaskFact
<2>2. Undisturbed(j)' = Undisturbed(j) BY <1>1 DEF Undisturbed
<2> QED BY <1>1, <2>1, <2>2 DEF TaskFact, RunOf
<1>5. (\A p \in 0..MaxSteers : /\ p < steers => task[p].pc \in {"stopped", "ended"}
                               /\ p > steers => task[p].pc = "new")'
  BY <1>1, <1>2 DEF ContextInv, ContextFacts
<1> QED BY <1>3, <1>4, <1>5 DEF ContextInv, ContextFacts, TaskFact

(* The clear of a turn leaves alone what is frozen for another run; another
   task of the same run is a worker's, and then its predecessor has ended. *)
LEMMA ClearStep ==
  ASSUME ContextInv, NEW k \in Tasks, ClearActiveTurn(k)
  PROVE  ContextInv'
<1> DEFINE s == [task[k] EXCEPT !.pc = "ended"]
<1>1. task \in [Tasks -> TaskState] BY DEF ContextInv, ContextsTypeOK, TaskState
<1>2. s \in TaskState /\ s.pc = "ended" BY <1>1 DEF TaskState
<1>3. /\ task[k].pc \in {"streaming", "stopped"} /\ task' = [task EXCEPT ![k] = s]
      /\ frozenByRun' = [frozenByRun EXCEPT ![RunOf(k)] = NoAgent]
      /\ frozenByAgent' = [a \in Agents |-> IF frozenByAgent[a] = RunOf(k) THEN NoRun
                                            ELSE frozenByAgent[a]]
      /\ toolBox' = [a \in Agents |-> IF frozenByAgent[a] = RunOf(k) /\ a \in boxed THEN NoRun
                                      ELSE toolBox[a]]
      /\ UNCHANGED <<botOf, boxed, steers>>
  BY <1>1 DEF ClearActiveTurn, Streaming, ClearedAgents
<1> HIDE DEF s
<1>4. /\ task' \in [Tasks -> TaskState]
      /\ \A j \in Tasks : task'[j] = IF j = k THEN s ELSE task[j]
      /\ \A j \in Tasks : Undisturbed(j)' => Undisturbed(j)
  BY <1>2, <1>3, OneTaskMoves
<1>5. RunOf(k) \in Runs BY RunsOfTasks
<1>6. ContextsTypeOK' BY <1>3, <1>4, <1>5 DEF ContextInv, ContextsTypeOK, TaskState
<1>7. ASSUME NEW j \in Tasks PROVE TaskFact(j)'
<2> SUFFICES ASSUME task'[j].pc = "streaming", Undisturbed(j)'
             PROVE  /\ task'[j].agent \in Agents /\ frozenByAgent'[task'[j].agent] = RunOf(j)
                    /\ task'[j].agent \in boxed' => toolBox'[task'[j].agent] = RunOf(j)
  BY DEF TaskFact, RunOf
<2>1. j # k /\ task'[j] = task[j] BY <1>2, <1>4
<2>2. /\ task[j].agent \in Agents /\ frozenByAgent[task[j].agent] = RunOf(j)
      /\ task[j].agent \in boxed => toolBox[task[j].agent] = RunOf(j)
  BY <1>4, <2>1 DEF ContextInv, ContextFacts
<2>3. RunOf(j) # RunOf(k)
<3> SUFFICES ASSUME RunOf(j) = RunOf(k) PROVE FALSE OBVIOUS
<3>1. j \in 0..MaxSteers /\ k \in 0..MaxSteers /\ j \in Nat /\ k \in Nat /\ steers \in Nat
  BY <2>1, RunsOfTasks DEF Tasks, ContextInv, ContextsTypeOK
<3>2. j >= steers /\ k <= steers BY <1>3, <2>1, <3>1 DEF ContextInv, ContextFacts
<3>3. k \in 0..(j - 1) BY <2>1, <3>1, <3>2
<3>4. task'[k].pc # "ended" BY <3>1, <3>3 DEF Undisturbed
<3> QED BY <1>2, <1>4, <3>4
<2> QED BY <1>3, <2>1, <2>2, <2>3
<1>8. (\A p \in 0..MaxSteers : /\ p < steers => task[p].pc \in {"stopped", "ended"}
                               /\ p > steers => task[p].pc = "new")'
<2>1. \A p \in 0..MaxSteers : p \in Tasks BY DEF Tasks
<2> QED BY <1>2, <1>3, <1>4, <2>1 DEF ContextInv, ContextFacts
<1> QED BY <1>6, <1>7, <1>8 DEF ContextInv, ContextFacts, TaskFact

LEMMA ContextsStart == ContextsInit => ContextInv
<1> SUFFICES ASSUME ContextsInit PROVE ContextInv OBVIOUS
<1>1. \A k \in Tasks : task[k].pc = "new" BY DEF ContextsInit
<1>2. \A p \in 0..MaxSteers : p \in Tasks BY DEF Tasks
<1>3. ContextsTypeOK
<2>1. steers \in 0..MaxSteers BY RunsOfTasks DEF ContextsInit
<2> QED BY <2>1 DEF ContextsInit, ContextsTypeOK
<1>4. steers = 0 BY DEF ContextsInit
<1> QED BY <1>1, <1>2, <1>3, <1>4 DEF ContextInv, ContextFacts

LEMMA ContextsStep == ContextInv /\ [ContextsNext]_ctxVars => ContextInv'
<1> SUFFICES ASSUME ContextInv, [ContextsNext]_ctxVars PROVE ContextInv' OBVIOUS
<1>1. ASSUME NEW a \in Agents, NEW b \in Bots, OpenSession(a, b) PROVE ContextInv'
<2>1. botOf' \in [Agents -> Bots \cup {NoBot}]
  BY <1>1 DEF OpenSession, ContextInv, ContextsTypeOK
<2> QED BY <1>1, <2>1, SessionsMove DEF OpenSession
<1>2. ASSUME NEW a \in Agents, LoseSession(a) PROVE ContextInv'
<2>1. botOf' \in [Agents -> Bots \cup {NoBot}]
  BY <1>2 DEF LoseSession, ContextInv, ContextsTypeOK
<2> QED BY <1>2, <2>1, SessionsMove DEF LoseSession
<1>3. ASSUME NEW k \in Tasks, NEW a \in Agents, NEW b \in Bots, FreezeTurn(k, a, b)
      PROVE  ContextInv'
  BY <1>3, FreezeStep
<1>4. ASSUME NEW k \in Tasks, StopTask(k) PROVE ContextInv' BY <1>4, StopTaskStep
<1>5. ASSUME NEW k \in Tasks, ClearActiveTurn(k) PROVE ContextInv' BY <1>5, ClearStep
<1>6. CASE SteerWorker BY <1>6, SteerStep
<1>7. CASE UNCHANGED ctxVars
  BY <1>7 DEF ctxVars, ContextInv, ContextsTypeOK, ContextFacts, Undisturbed
<1> QED BY <1>1, <1>2, <1>3, <1>4, <1>5, <1>6, <1>7 DEF ContextsNext

(* The workers' turns follow one another, and what is frozen for an agent is
   the turn that streams on it. *)
THEOREM ContextFactsHold == ContextsSpec => [](ContextsTypeOK /\ ContextFacts)
<1>1. ContextInv => ContextsTypeOK /\ ContextFacts BY DEF ContextInv
<1> QED BY <1>1, ContextsStart, ContextsStep, PTL DEF ContextsSpec

(* A tool call of a turn that streams runs for that turn, unless a worker's
   predecessor, steered away, has come to its end since. *)
THEOREM CallsRunForTheirTurnHolds == ContextsSpec => []CallsRunForTheirTurn
<1>1. ContextInv => CallsRunForTheirTurn
<2> SUFFICES ASSUME ContextInv, NEW k \in Tasks, task[k].pc = "streaming",
                    task[k].agent \in boxed, Undisturbed(k)
             PROVE  ResolveTurn(task[k].agent) = RunOf(k)
  BY DEF CallsRunForTheirTurn
<2>1. toolBox[task[k].agent] = RunOf(k) BY DEF ContextInv, ContextFacts
<2>2. RunOf(k) # NoRun BY RunsOfTasks
<2> QED BY <2>1, <2>2 DEF ResolveTurn
<1> QED BY <1>1, ContextsStart, ContextsStep, PTL DEF ContextsSpec

(***************************************************************************)
(* The connections.                                                        *)
(***************************************************************************)

OneLink == \A app \in Apps : \A i, j \in LiveFor(app) : i = j
LinkInv == ConnectionsTypeOK /\ LinkFacts /\ OneLink

ConnRow == [app : Apps, status : {"pending", "connected", "revoked", "deleted"}, link : Nat]
LinkingState ==
  [pc : {"idle", "begin", "insert", "complete", "revoke", "update"},
   app : Apps \cup {"none"}, row : Nat, link : Nat,
   status : {"none", "pending", "connected", "revoked"}]

(* What has to hold of a caller that is about to do something. *)
LinkingFits(c) ==
  /\ ~LinksOn(c, "idle") => linking[c].app \in Apps
  /\ linking[c].link <= Len(links)
  /\ linking[c].pc \in {"insert", "update"} => linking[c].status # "none"
  /\ linking[c].pc \in {"complete", "revoke", "update"} =>
       linking[c].row \in DOMAIN conns /\ conns[linking[c].row].app = linking[c].app

LEMMA RowsOfConns ==
  ASSUME LinkInv, NEW i \in DOMAIN conns
  PROVE  /\ conns[i] \in ConnRow /\ i \in Nat
         /\ conns[i].link \in Nat /\ conns[i].app \in Apps /\ conns[i].link <= Len(links)
<1>1. conns \in Seq(ConnRow) BY DEF LinkInv, ConnectionsTypeOK, ConnRow
<1>2. conns[i] \in ConnRow /\ i \in Nat BY <1>1
<1>3. conns[i].link <= Len(links) BY DEF LinkInv, ConnectionsTypeOK
<1> QED BY <1>2, <1>3 DEF ConnRow

(* One caller goes on; the rows and the broker's links stay, grow, or change
   in their status only. *)
LEMMA CallerGoesOn ==
  ASSUME LinkInv, NEW c \in LinkCallers, NEW x \in LinkingState,
         LinkingGoes(c, x), UNCHANGED conns, hasKey' \in BOOLEAN,
         links' \in Seq({"pending", "active", "revoked"}), Len(links) <= Len(links'),
         x.pc # "idle" => x.app \in Apps,
         x.link <= Len(links'),
         x.pc \in {"insert", "update"} => x.status # "none",
         x.pc \in {"complete", "revoke", "update"} =>
           x.row \in DOMAIN conns /\ conns[x.row].app = x.app
  PROVE  LinkInv'
<1>1. linking \in [LinkCallers -> LinkingState] /\ conns \in Seq(ConnRow)
  BY DEF LinkInv, ConnectionsTypeOK, LinkingState, ConnRow
<1>2. /\ linking' \in [LinkCallers -> LinkingState]
      /\ \A d \in LinkCallers : linking'[d] = IF d = c THEN x ELSE linking[d]
  BY <1>1 DEF LinkingGoes
<1>3. Len(links) \in Nat /\ Len(links') \in Nat BY DEF LinkInv, ConnectionsTypeOK
<1>4. \A i \in DOMAIN conns : conns[i].link \in Nat BY RowsOfConns
<1>5. \A i \in DOMAIN conns' : conns'[i].link <= Len(links')
  BY <1>3, <1>4 DEF LinkInv, ConnectionsTypeOK
<1>6. ConnectionsTypeOK' BY <1>2, <1>5 DEF LinkInv, ConnectionsTypeOK, LinkingState
<1>7. ASSUME NEW d \in LinkCallers PROVE LinkingFits(d)'
<2>1. CASE d = c BY <1>2, <2>1 DEF LinkingFits, LinksOn
<2>2. CASE d # c
<3>1. LinkingFits(d) BY DEF LinkInv, LinkFacts, LinkingFits
<3>2. linking[d].link \in Nat BY <1>1 DEF LinkingState
<3>3. linking'[d] = linking[d] BY <1>2, <2>2
<3> QED BY <1>3, <3>1, <3>2, <3>3 DEF LinkingFits, LinksOn
<2> QED BY <2>1, <2>2
<1>8. OneLink' BY DEF OneLink, LiveFor, LinkInv
<1> QED BY <1>6, <1>7, <1>8 DEF LinkInv, LinkFacts, LinkingFits

(* The same for a step that writes the rows: those there are keep their app. *)
LEMMA RowsChange ==
  ASSUME LinkInv, NEW c \in LinkCallers, LinkingEnds(c) \/ UNCHANGED linking,
         hasKey' \in BOOLEAN, UNCHANGED links,
         conns' \in Seq(ConnRow), DOMAIN conns \subseteq DOMAIN conns',
         \A i \in DOMAIN conns : conns'[i].app = conns[i].app,
         \A i \in DOMAIN conns' : conns'[i].link <= Len(links),
         OneLink'
  PROVE  LinkInv'
<1>1. linking \in [LinkCallers -> LinkingState]
  BY DEF LinkInv, ConnectionsTypeOK, LinkingState
<1>2. NotLinking \in LinkingState /\ NotLinking.pc = "idle" /\ NotLinking.link = 0
  BY DEF NotLinking, LinkingState
<1>3. /\ linking' \in [LinkCallers -> LinkingState]
      /\ \A d \in LinkCallers : linking'[d] \in {NotLinking, linking[d]}
  BY <1>1, <1>2 DEF LinkingEnds, LinkingGoes
<1>4. Len(links) \in Nat BY DEF LinkInv, ConnectionsTypeOK
<1>5. ConnectionsTypeOK' BY <1>3 DEF LinkInv, ConnectionsTypeOK, LinkingState, ConnRow
<1>6. ASSUME NEW d \in LinkCallers PROVE LinkingFits(d)'
<2>1. CASE linking'[d] = NotLinking BY <1>2, <1>4, <2>1 DEF LinkingFits, LinksOn
<2>2. CASE linking'[d] = linking[d]
<3>1. LinkingFits(d) BY DEF LinkInv, LinkFacts, LinkingFits
<3> QED BY <2>2, <3>1 DEF LinkingFits, LinksOn
<2> QED BY <1>3, <2>1, <2>2
<1> QED BY <1>5, <1>6 DEF LinkInv, LinkFacts, LinkingFits

LEMMA KeySteps ==
  ASSUME LinkInv, SaveConnectionKey \/ ClearConnectionKey
  PROVE  LinkInv'
<1>1. UNCHANGED <<links, linking>> /\ hasKey' \in BOOLEAN
  BY DEF SaveConnectionKey, ClearConnectionKey
<1>2. conns \in Seq(ConnRow) BY DEF LinkInv, ConnectionsTypeOK, ConnRow
<1>3. CASE UNCHANGED conns
  BY <1>1, <1>3 DEF LinkInv, ConnectionsTypeOK, LinkFacts, LinksOn, OneLink, LiveFor
<1>4. CASE conns' = [i \in DOMAIN conns |-> [conns[i] EXCEPT !.status = "deleted"]]
<2>1. \A i \in DOMAIN conns : [conns[i] EXCEPT !.status = "deleted"] \in ConnRow
  BY RowsOfConns DEF ConnRow
<2>2. conns' \in Seq(ConnRow) /\ DOMAIN conns' = DOMAIN conns BY <1>2, <1>4, <2>1
<2>3. \A i \in DOMAIN conns :
        /\ conns'[i].app = conns[i].app /\ conns'[i].link = conns[i].link
        /\ conns'[i].status = "deleted"
  BY <1>4, RowsOfConns DEF ConnRow
<2>4. OneLink' BY <2>2, <2>3 DEF OneLink, LiveFor
<2>5. \A i \in DOMAIN conns' : conns'[i].link <= Len(links)
  BY <2>2, <2>3 DEF LinkInv, ConnectionsTypeOK
<2>6. "panel" \in LinkCallers BY DEF LinkCallers
<2> QED BY <1>1, <2>2, <2>3, <2>4, <2>5, <2>6, RowsChange
<1> QED BY <1>3, <1>4 DEF SaveConnectionKey, ClearConnectionKey

LEMMA BeginSteps ==
  ASSUME LinkInv, NEW c \in LinkCallers, NEW app \in Apps, StartLink(c, app)
  PROVE  LinkInv'
<1> DEFINE x == [NotLinking EXCEPT !.pc = "begin", !.app = app]
<1>1. x \in LinkingState /\ x.pc = "begin" /\ x.app = app /\ x.link = 0
  BY DEF NotLinking, LinkingState
<1>2. LinkingGoes(c, x) /\ UNCHANGED <<hasKey, conns, links>> BY DEF StartLink
<1> HIDE DEF x
<1>3. /\ hasKey' \in BOOLEAN /\ links' \in Seq({"pending", "active", "revoked"})
      /\ Len(links) \in Nat /\ Len(links') = Len(links)
  BY <1>2 DEF LinkInv, ConnectionsTypeOK
<1> QED BY <1>1, <1>2, <1>3, CallerGoesOn

LEMMA BrokerBeginStep ==
  ASSUME LinkInv, NEW c \in LinkCallers, BrokerBegin(c)
  PROVE  LinkInv'
<1>1. /\ linking[c] \in LinkingState /\ links \in Seq({"pending", "active", "revoked"})
      /\ Len(links) \in Nat /\ hasKey \in BOOLEAN
  BY DEF LinkInv, ConnectionsTypeOK, LinkingState
<1>2. /\ linking[c].pc = "begin" /\ linking[c].app \in Apps /\ linking[c].link <= Len(links)
      /\ UNCHANGED <<hasKey, conns>>
  BY DEF BrokerBegin, LinksOn, LinkInv, LinkFacts
<1>3. ASSUME LinkingGoes(c, [linking[c] EXCEPT !.pc = "insert", !.status = "connected"]),
             UNCHANGED links
      PROVE  LinkInv'
<2> DEFINE x == [linking[c] EXCEPT !.pc = "insert", !.status = "connected"]
<2>1. x \in LinkingState /\ x.pc = "insert" /\ x.app \in Apps /\ x.status = "connected"
      /\ x.link = linking[c].link
  BY <1>1, <1>2 DEF LinkingState
<2>2. LinkingGoes(c, x) BY <1>3
<2> HIDE DEF x
<2> QED BY <1>1, <1>2, <1>3, <2>1, <2>2, CallerGoesOn
<1>4. ASSUME links' = Append(links, "pending"),
             LinkingGoes(c, [linking[c] EXCEPT !.pc = "insert", !.status = "pending",
                                               !.link = Len(links) + 1])
      PROVE  LinkInv'
<2> DEFINE x == [linking[c] EXCEPT !.pc = "insert", !.status = "pending", !.link = Len(links) + 1]
<2>1. Len(links) + 1 \in Nat BY <1>1
<2>2. x \in LinkingState /\ x.pc = "insert" /\ x.app \in Apps /\ x.status = "pending"
      /\ x.link = Len(links) + 1
  BY <1>1, <1>2, <2>1 DEF LinkingState
<2>3. LinkingGoes(c, x) BY <1>4
<2> HIDE DEF x
<2>4. /\ links' \in Seq({"pending", "active", "revoked"}) /\ Len(links') = Len(links) + 1
      /\ Len(links) <= Len(links')
  BY <1>1, <1>4
<2>5. x.link <= Len(links') BY <1>1, <2>2, <2>4
<2> QED BY <1>1, <1>2, <2>2, <2>3, <2>4, <2>5, CallerGoesOn
<1>5. ASSUME LinkingEnds(c), UNCHANGED links
      PROVE  LinkInv'
<2>1. NotLinking \in LinkingState /\ NotLinking.pc = "idle" /\ NotLinking.link = 0
  BY DEF NotLinking, LinkingState
<2> QED BY <1>1, <1>2, <1>5, <2>1, CallerGoesOn DEF LinkingEnds
<1> QED BY <1>3, <1>4, <1>5 DEF BrokerBegin

(* The index lets a row in only where its app has no live row. *)
LEMMA InsertStep ==
  ASSUME LinkInv, NEW c \in LinkCallers, InsertConnection(c)
  PROVE  LinkInv'
<1>1. /\ linking[c] \in LinkingState /\ conns \in Seq(ConnRow) /\ Len(conns) \in Nat
      /\ hasKey \in BOOLEAN
  BY DEF LinkInv, ConnectionsTypeOK, LinkingState, ConnRow
<1>2. /\ linking[c].pc = "insert" /\ linking[c].app \in Apps /\ linking[c].link <= Len(links)
      /\ linking[c].status # "none" /\ LinkingEnds(c) /\ UNCHANGED <<hasKey, links>>
  BY DEF InsertConnection, LinksOn, LinkInv, LinkFacts
<1>3. CASE conns' = conns
<2>1. conns' \in Seq(ConnRow) /\ OneLink' BY <1>1, <1>3 DEF LinkInv, OneLink, LiveFor
<2>2. \A i \in DOMAIN conns' : conns'[i].link <= Len(links)
  BY <1>3 DEF LinkInv, ConnectionsTypeOK
<2> QED BY <1>1, <1>2, <1>3, <2>1, <2>2, RowsChange
<1>4. ASSUME IndexAllows(linking[c].app, Len(conns) + 1),
             conns' = Append(conns, [app |-> linking[c].app, status |-> linking[c].status,
                                     link |-> linking[c].link])
      PROVE  LinkInv'
<2> DEFINE row == [app |-> linking[c].app, status |-> linking[c].status, link |-> linking[c].link]
<2>1. row \in ConnRow /\ row.app = linking[c].app /\ row.link = linking[c].link
  BY <1>1, <1>2 DEF LinkingState, ConnRow
<2>2. conns' = Append(conns, row) BY <1>4
<2> HIDE DEF row
<2>3. /\ conns' \in Seq(ConnRow) /\ DOMAIN conns' = DOMAIN conns \cup {Len(conns) + 1}
      /\ \A i \in DOMAIN conns : conns'[i] = conns[i] /\ i # Len(conns) + 1
      /\ conns'[Len(conns) + 1] = row
  BY <1>1, <2>1, <2>2
<2>4. \A i \in DOMAIN conns' : conns'[i].link <= Len(links)
  BY <1>2, <2>1, <2>3 DEF LinkInv, ConnectionsTypeOK
<2>5. ASSUME NEW app \in Apps, NEW i \in LiveFor(app)', NEW j \in LiveFor(app)'
      PROVE  i = j
<3>1. CASE app = linking[c].app
<4>1. LiveFor(app) \subseteq {Len(conns) + 1} BY <1>4, <3>1 DEF IndexAllows
<4>2. LiveFor(app)' \subseteq {Len(conns) + 1} BY <2>3, <4>1 DEF LiveFor
<4> QED BY <4>2
<3>2. CASE app # linking[c].app
<4>1. LiveFor(app)' = LiveFor(app) BY <2>1, <2>3, <3>2 DEF LiveFor
<4> QED BY <2>5, <4>1 DEF LinkInv, OneLink
<3> QED BY <3>1, <3>2
<2>6. OneLink' BY <2>5 DEF OneLink
<2> QED BY <1>1, <1>2, <2>3, <2>4, <2>6, RowsChange
<1> QED BY <1>3, <1>4 DEF InsertConnection

LEMMA LinkStatusSteps ==
  ASSUME LinkInv, NEW l \in DOMAIN links, NEW status \in {"active", "revoked"},
         links' = [links EXCEPT ![l] = status]
  PROVE  links' \in Seq({"pending", "active", "revoked"}) /\ Len(links') = Len(links)
BY DEF LinkInv, ConnectionsTypeOK

LEMMA AuthorizeStep ==
  ASSUME LinkInv, NEW l \in DOMAIN links, Authorize(l)
  PROVE  LinkInv'
<1>1. /\ links' \in Seq({"pending", "active", "revoked"}) /\ Len(links') = Len(links)
      /\ UNCHANGED <<hasKey, conns, linking>>
  BY LinkStatusSteps DEF Authorize
<1>2. ConnectionsTypeOK' BY <1>1 DEF LinkInv, ConnectionsTypeOK
<1>3. LinkFacts' BY <1>1 DEF LinkInv, LinkFacts, LinksOn
<1>4. OneLink' BY <1>1 DEF LinkInv, OneLink, LiveFor
<1> QED BY <1>2, <1>3, <1>4 DEF LinkInv

LEMMA LinkPanelSteps ==
  ASSUME LinkInv, NEW i \in DOMAIN conns, CompleteConnection(i) \/ RevokeConnection(i)
  PROVE  LinkInv'
<1>1. PICK pc \in {"complete", "revoke"} :
        LinkingGoes("panel", [NotLinking EXCEPT !.pc = pc, !.app = conns[i].app,
                                                !.row = i, !.link = conns[i].link])
  BY DEF CompleteConnection, RevokeConnection
<1> DEFINE x == [NotLinking EXCEPT !.pc = pc, !.app = conns[i].app, !.row = i,
                                   !.link = conns[i].link]
<1>2. UNCHANGED <<hasKey, conns, links>> BY DEF CompleteConnection, RevokeConnection
<1>3. /\ conns[i] \in ConnRow /\ conns[i].link <= Len(links) /\ i \in Nat
      /\ hasKey \in BOOLEAN /\ links \in Seq({"pending", "active", "revoked"})
      /\ Len(links) \in Nat
  BY RowsOfConns DEF LinkInv, ConnectionsTypeOK
<1>4. x \in LinkingState /\ x.pc \in {"complete", "revoke"} /\ x.app = conns[i].app
      /\ x.row = i /\ x.link = conns[i].link /\ x.app \in Apps
  BY <1>3 DEF NotLinking, LinkingState, ConnRow
<1>5. LinkingGoes("panel", x) BY <1>1
<1> HIDE DEF x
<1>6. "panel" \in LinkCallers BY DEF LinkCallers
<1> QED BY <1>2, <1>3, <1>4, <1>5, <1>6, CallerGoesOn

LEMMA BrokerAnswers ==
  ASSUME LinkInv, BrokerComplete \/ BrokerRevoke
  PROVE  LinkInv'
<1> DEFINE c == "panel"
<1>1. c \in LinkCallers BY DEF LinkCallers
<1>2. /\ linking[c] \in LinkingState /\ links \in Seq({"pending", "active", "revoked"})
      /\ Len(links) \in Nat /\ hasKey \in BOOLEAN
  BY <1>1 DEF LinkInv, ConnectionsTypeOK, LinkingState
<1>3. linking[c].pc \in {"complete", "revoke"}
  BY DEF BrokerComplete, BrokerRevoke, LinksOn
<1>4. /\ linking[c].app \in Apps /\ linking[c].link <= Len(links)
      /\ linking[c].row \in DOMAIN conns /\ conns[linking[c].row].app = linking[c].app
      /\ linking[c].link \in Nat
  BY <1>1, <1>2, <1>3 DEF LinkInv, LinkFacts, LinksOn, LinkingState
<1>5. /\ UNCHANGED <<hasKey, conns>>
      /\ \/ LinkingEnds(c)
         \/ \E status \in {"connected", "pending", "revoked"} :
              LinkingGoes(c, [linking[c] EXCEPT !.pc = "update", !.status = status])
  BY DEF BrokerComplete, BrokerRevoke
<1>6. links' = links \/ (linking[c].link # 0 /\ links' = [links EXCEPT ![linking[c].link] = "revoked"])
  BY DEF BrokerComplete, BrokerRevoke, NoLink
<1>7. links' \in Seq({"pending", "active", "revoked"}) /\ Len(links') = Len(links)
<2>1. linking[c].link # 0 => linking[c].link \in DOMAIN links BY <1>2, <1>4
<2> QED BY <1>2, <1>6, <2>1, LinkStatusSteps
<1>8. CASE LinkingEnds(c)
<2>1. NotLinking \in LinkingState /\ NotLinking.pc = "idle" /\ NotLinking.link = 0
  BY DEF NotLinking, LinkingState
<2> HIDE DEF c
<2> QED BY <1>1, <1>2, <1>5, <1>7, <1>8, <2>1, CallerGoesOn DEF LinkingEnds
<1>9. ASSUME NEW status \in {"connected", "pending", "revoked"},
             LinkingGoes(c, [linking[c] EXCEPT !.pc = "update", !.status = status])
      PROVE  LinkInv'
<2> DEFINE x == [linking[c] EXCEPT !.pc = "update", !.status = status]
<2>1. x \in LinkingState /\ x.pc = "update" /\ x.status = status /\ x.app = linking[c].app
      /\ x.row = linking[c].row /\ x.link = linking[c].link
  BY <1>2 DEF LinkingState
<2>2. LinkingGoes(c, x) BY <1>9
<2> HIDE DEF x, c
<2> QED BY <1>1, <1>2, <1>4, <1>5, <1>7, <2>1, <2>2, CallerGoesOn
<1> QED BY <1>5, <1>8, <1>9

(* A row becomes live again only where no other row of its app is. *)
LEMMA UpdateStep ==
  ASSUME LinkInv, UpdateConnection
  PROVE  LinkInv'
<1> DEFINE i == linking["panel"].row
           status == linking["panel"].status
<1>1. "panel" \in LinkCallers BY DEF LinkCallers
<1>2. /\ linking["panel"] \in LinkingState /\ conns \in Seq(ConnRow) /\ hasKey \in BOOLEAN
  BY <1>1 DEF LinkInv, ConnectionsTypeOK, LinkingState, ConnRow
<1>3. /\ linking["panel"].pc = "update" /\ LinkingEnds("panel") /\ UNCHANGED <<hasKey, links>>
      /\ conns' = IF status = "revoked" \/ IndexAllows(conns[i].app, i)
                  THEN [conns EXCEPT ![i].status = status] ELSE conns
  BY DEF UpdateConnection, LinksOn
<1>4. i \in DOMAIN conns /\ status \in {"pending", "connected", "revoked"}
  BY <1>1, <1>2, <1>3 DEF LinkInv, LinkFacts, LinkingState
<1> HIDE DEF i, status
<1>5. CASE conns' = conns
<2>1. conns' \in Seq(ConnRow) /\ OneLink' BY <1>2, <1>5 DEF LinkInv, OneLink, LiveFor
<2>2. \A j \in DOMAIN conns' : conns'[j].link <= Len(links)
  BY <1>5 DEF LinkInv, ConnectionsTypeOK
<2> QED BY <1>1, <1>2, <1>3, <1>5, <2>1, <2>2, RowsChange
<1>6. ASSUME status = "revoked" \/ IndexAllows(conns[i].app, i),
             conns' = [conns EXCEPT ![i].status = status]
      PROVE  LinkInv'
<2> DEFINE row == [conns[i] EXCEPT !.status = status]
<2>1. row \in ConnRow /\ row.app = conns[i].app /\ row.link = conns[i].link /\ row.status = status
  BY <1>4, RowsOfConns DEF ConnRow
<2>2. conns' = [conns EXCEPT ![i] = row] BY <1>2, <1>4, <1>6
<2> HIDE DEF row
<2>3. /\ conns' \in Seq(ConnRow) /\ DOMAIN conns' = DOMAIN conns
      /\ \A j \in DOMAIN conns : conns'[j] = IF j = i THEN row ELSE conns[j]
  BY <1>2, <1>4, <2>1, <2>2
<2>4. \A j \in DOMAIN conns' : conns'[j].link <= Len(links)
  BY <2>1, <2>3 DEF LinkInv, ConnectionsTypeOK
<2>5. ASSUME NEW app \in Apps, NEW j \in LiveFor(app)', NEW k \in LiveFor(app)'
      PROVE  j = k
<3>1. CASE status # "revoked" /\ app = conns[i].app
<4>1. LiveFor(app) \subseteq {i} BY <1>6, <3>1 DEF IndexAllows
<4>2. LiveFor(app)' \subseteq {i} BY <2>3, <4>1 DEF LiveFor
<4> QED BY <4>2
<3>2. CASE status = "revoked" \/ app # conns[i].app
<4>1. LiveFor(app)' \subseteq LiveFor(app) BY <2>1, <2>3, <3>2 DEF LiveFor
<4> QED BY <2>5, <4>1 DEF LinkInv, OneLink
<3> QED BY <3>1, <3>2
<2>6. OneLink' BY <2>5 DEF OneLink
<2>7. \A j \in DOMAIN conns : conns'[j].app = conns[j].app BY <2>1, <2>3
<2> QED BY <1>1, <1>2, <1>3, <2>3, <2>4, <2>6, <2>7, RowsChange
<1> QED BY <1>3, <1>5, <1>6

LEMMA LinkExitStep ==
  ASSUME LinkInv, ConnectionsExit
  PROVE  LinkInv'
<1>1. UNCHANGED <<hasKey, conns, links>> /\ linking' = [c \in LinkCallers |-> NotLinking]
  BY DEF ConnectionsExit
<1>2. NotLinking \in LinkingState /\ NotLinking.pc = "idle" /\ NotLinking.link = 0
  BY DEF NotLinking, LinkingState
<1>3. ConnectionsTypeOK' BY <1>1, <1>2 DEF LinkInv, ConnectionsTypeOK, LinkingState
<1>4. Len(links) \in Nat BY DEF LinkInv, ConnectionsTypeOK
<1>5. LinkFacts' BY <1>1, <1>2, <1>4 DEF LinkFacts, LinksOn
<1>6. OneLink' BY <1>1 DEF LinkInv, OneLink, LiveFor
<1> QED BY <1>3, <1>5, <1>6 DEF LinkInv

LEMMA ConnectionsStart == ConnectionsInit => LinkInv
<1> SUFFICES ASSUME ConnectionsInit PROVE LinkInv OBVIOUS
<1>1. NotLinking \in LinkingState /\ NotLinking.pc = "idle" /\ NotLinking.link = 0
  BY DEF NotLinking, LinkingState
<1>2. ConnectionsTypeOK /\ Len(links) = 0
<2>1. hasKey \in BOOLEAN BY DEF ConnectionsInit
<2>2. linking \in [LinkCallers -> LinkingState] BY <1>1 DEF ConnectionsInit
<2>3. conns = <<>> /\ links = <<>> BY DEF ConnectionsInit
<2> QED BY <2>1, <2>2, <2>3 DEF ConnectionsTypeOK, LinkingState
<1>3. LinkFacts BY <1>1, <1>2 DEF ConnectionsInit, LinkFacts, LinksOn
<1>4. OneLink BY DEF ConnectionsInit, OneLink, LiveFor
<1> QED BY <1>2, <1>3, <1>4 DEF LinkInv

LEMMA ConnectionsStep == LinkInv /\ [ConnectionsNext]_connectionVars => LinkInv'
<1> SUFFICES ASSUME LinkInv, [ConnectionsNext]_connectionVars PROVE LinkInv' OBVIOUS
<1>1. CASE SaveConnectionKey \/ ClearConnectionKey BY <1>1, KeySteps
<1>2. ASSUME NEW app \in Apps, BeginConnection(app) \/ ConnectApp(app) PROVE LinkInv'
  BY <1>2, BeginSteps DEF BeginConnection, ConnectApp, LinkCallers
<1>3. ASSUME NEW c \in LinkCallers, BrokerBegin(c) PROVE LinkInv' BY <1>3, BrokerBeginStep
<1>4. ASSUME NEW c \in LinkCallers, InsertConnection(c) PROVE LinkInv' BY <1>4, InsertStep
<1>5. ASSUME NEW l \in DOMAIN links, Authorize(l) PROVE LinkInv' BY <1>5, AuthorizeStep
<1>6. ASSUME NEW i \in DOMAIN conns, CompleteConnection(i) \/ RevokeConnection(i) PROVE LinkInv'
  BY <1>6, LinkPanelSteps
<1>7. CASE BrokerComplete \/ BrokerRevoke BY <1>7, BrokerAnswers
<1>8. CASE UpdateConnection BY <1>8, UpdateStep
<1>9. CASE ConnectionsExit BY <1>9, LinkExitStep
<1>10. CASE UNCHANGED connectionVars
  BY <1>10 DEF connectionVars, LinkInv, ConnectionsTypeOK, LinkFacts, LinksOn, OneLink, LiveFor
<1> QED BY <1>1, <1>2, <1>3, <1>4, <1>5, <1>6, <1>7, <1>8, <1>9, <1>10 DEF ConnectionsNext

(* Whoever connects, finishes or revokes has an app, a status and a row that
   are there. *)
THEOREM LinkFactsHold == ConnectionsSpec => [](ConnectionsTypeOK /\ LinkFacts)
<1>1. LinkInv => ConnectionsTypeOK /\ LinkFacts BY DEF LinkInv
<1> QED BY <1>1, ConnectionsStart, ConnectionsStep, PTL DEF ConnectionsSpec

(* An app has one live connection. *)
THEOREM OneLinkPerAppHolds == ConnectionsSpec => []OneLinkPerApp
<1>1. LinkInv => OneLinkPerApp
<2> SUFFICES ASSUME LinkInv, NEW app \in Apps PROVE Cardinality(LiveFor(app)) <= 1
  BY DEF OneLinkPerApp
<2>1. CASE LiveFor(app) = {} BY <2>1, FS_EmptySet
<2>2. CASE LiveFor(app) # {}
<3>1. PICK i \in LiveFor(app) : TRUE BY <2>2
<3>2. LiveFor(app) = {i} BY <3>1 DEF LinkInv, OneLink
<3>3. Cardinality(LiveFor(app)) = 1 BY <3>2, FS_Singleton
<3> QED BY <3>3
<2> QED BY <2>1, <2>2
<1> QED BY <1>1, ConnectionsStart, ConnectionsStep, PTL DEF ConnectionsSpec

(***************************************************************************)
(* The credentials of a bot.                                               *)
(***************************************************************************)

CredInv == CredentialsTypeOK /\ CommandFacts /\ VaultFacts

MoveState ==
  [at : {"off", "file", "found", "confirmed", "done"}, file : Providers \cup {"none"},
   state : {"none", "missing", "same", "different"}, failed : BOOLEAN]
CmdState ==
  [at : {"idle", "asked", "allowed", "checked", "cleanup", "answered"} \cup Running,
   approved : [Providers -> VaultRow], env : [Providers -> VaultRow], ok : BOOLEAN,
   box : {"none", "created", "running", "exited"}, tries : 0..RemoveTries]

(* A row that is there has a secret, and a time after the start. *)
LEMMA RowsOfVault ==
  /\ NoRow \in VaultRow /\ NoRow.secret = "none" /\ NoRow.at = 0
  /\ NoRows \in [Providers -> VaultRow] /\ \A p \in Providers : NoRows[p] = NoRow
  /\ \A row \in VaultRow : /\ row.at \in 0..MaxSaves /\ row.at \in Nat
                           /\ row # NoRow => row.secret \in Secrets /\ row.at >= 1
                           /\ row.at = 0 => row = NoRow
  /\ MaxSaves \in Nat
<1>1. NoRow \in VaultRow /\ NoRow.secret = "none" /\ NoRow.at = 0 BY DEF NoRow, VaultRow
<1>2. MaxSaves \in Nat BY CredentialsAssumption
<1>3. ASSUME NEW row \in VaultRow
      PROVE  /\ row.at \in 0..MaxSaves /\ row.at \in Nat
             /\ row # NoRow => row.secret \in Secrets /\ row.at >= 1
             /\ row.at = 0 => row = NoRow
<2>1. CASE row = NoRow BY <1>1, <1>2, <2>1
<2>2. CASE row \in [secret : Secrets, at : 1..MaxSaves] BY <1>2, <2>2
<2> QED BY <2>1, <2>2 DEF VaultRow
<1> QED BY <1>1, <1>2, <1>3 DEF NoRows

(* The command with a command in its place that fits the vault as it is. *)
CmdFits(c) ==
  /\ \A p \in Providers : c.approved[p].at <= saves
  /\ \A p \in Providers : c.approved[p].at = vault[p].at => c.approved[p] = vault[p]
  /\ c.at \in Running => c.env = c.approved
  /\ c.ok => c.at \in {"ended", "cleanup", "answered"}
  /\ c.at = "answered" /\ c.ok => c.box = "none"

LEMMA CmdOfInv ==
  ASSUME CredInv
  PROVE  cmd \in CmdState /\ CmdFits(cmd) /\ vault \in [Providers -> VaultRow]
BY DEF CredInv, CredentialsTypeOK, CmdState, CommandFacts, CmdFits

LEMMA EmptyCmdFits ==
  ASSUME CredInv
  PROVE  NoCmd \in CmdState /\ CmdFits(NoCmd) /\ NoCmd.at = "idle" /\ NoCmd.ok = FALSE
         /\ NoCmd.box = "none" /\ NoCmd.tries = 0
<1>1. 0 \in 0..RemoveTries BY CredentialsAssumption
<1>2. NoCmd \in CmdState BY <1>1, RowsOfVault DEF NoCmd, CmdState
<1>3. saves \in Nat BY RowsOfVault DEF CredInv, CredentialsTypeOK
<1>4. \A p \in Providers : NoCmd.approved[p] = NoRow BY RowsOfVault DEF NoCmd
<1>5. \A p \in Providers : vault[p] \in VaultRow BY CmdOfInv
<1>6. \A p \in Providers : NoCmd.approved[p].at <= saves BY <1>3, <1>4, RowsOfVault
<1>7. \A p \in Providers : NoCmd.approved[p].at = vault[p].at => NoCmd.approved[p] = vault[p]
  BY <1>4, <1>5, RowsOfVault
<1>8. NoCmd.at = "idle" /\ NoCmd.ok = FALSE /\ NoCmd.box = "none" /\ NoCmd.tries = 0
  BY DEF NoCmd
<1> QED BY <1>2, <1>6, <1>7, <1>8 DEF CmdFits, Running

(* A step of the command alone. *)
LEMMA CmdMoves ==
  ASSUME CredInv, NEW c \in CmdState, CmdFits(c), cmd' = c,
         UNCHANGED <<vault, legacy, move, api, paste, saves, meant>>,
         credExits' \in 0..MaxCredExits
  PROVE  CredInv'
<1>1. CredentialsTypeOK' BY DEF CredInv, CredentialsTypeOK, CmdState
<1>2. CommandFacts' BY DEF CredInv, CommandFacts, CmdFits
<1>3. VaultFacts' BY DEF CredInv, VaultFacts, StateOf
<1> QED BY <1>1, <1>2, <1>3 DEF CredInv

LEMMA AskSteps ==
  ASSUME CredInv, AskOwner \/ OwnerAnswers(TRUE) \/ OwnerAnswers(FALSE) \/ Recheck
  PROVE  CredInv'
<1>1. cmd \in CmdState /\ CmdFits(cmd) /\ vault \in [Providers -> VaultRow] BY CmdOfInv
<1>2. credExits \in 0..MaxCredExits BY DEF CredInv, CredentialsTypeOK
<1>3. CASE AskOwner
<2> DEFINE c == [NoCmd EXCEPT !.at = "asked", !.approved = vault]
<2>1. Cmd(c) BY <1>3 DEF AskOwner
<2>2. c \in CmdState /\ c.at = "asked" /\ c.approved = vault /\ c.ok = FALSE
  BY <1>1, EmptyCmdFits DEF CmdState
<2> HIDE DEF c
<2>3. CmdFits(c) BY <2>2 DEF CmdFits, Running, CredInv, CommandFacts
<2> QED BY <1>2, <2>1, <2>2, <2>3, CmdMoves DEF Cmd
<1>4. ASSUME OwnerAnswers(TRUE) \/ OwnerAnswers(FALSE) \/ Recheck PROVE CredInv'
<2>1. PICK at \in {"allowed", "checked", "answered"} :
        Cmd([cmd EXCEPT !.at = at]) /\ cmd.at \in {"asked", "allowed"}
  BY <1>4 DEF OwnerAnswers, Recheck
<2> DEFINE c == [cmd EXCEPT !.at = at]
<2>2. c \in CmdState /\ c.at = at /\ c.approved = cmd.approved /\ c.ok = cmd.ok
  BY <1>1 DEF CmdState
<2>3. Cmd(c) BY <2>1
<2> HIDE DEF c
<2>4. cmd.ok = FALSE BY <1>1, <2>1 DEF CmdFits, CmdState
<2>5. CmdFits(c) BY <1>1, <2>2, <2>4 DEF CmdFits, Running
<2> QED BY <1>2, <2>2, <2>3, <2>5, CmdMoves DEF Cmd
<1> QED BY <1>3, <1>4

(* The broker compares what was approved with what is saved, time by time: the
   same times are the same rows. *)
LEMMA MaterialStep ==
  ASSUME CredInv, ExecutionMaterial
  PROVE  CredInv'
<1>1. cmd \in CmdState /\ CmdFits(cmd) /\ vault \in [Providers -> VaultRow] BY CmdOfInv
<1>2. credExits \in 0..MaxCredExits BY DEF CredInv, CredentialsTypeOK
<1>3. cmd.at = "checked" /\ cmd.ok = FALSE
  BY <1>1 DEF ExecutionMaterial, CmdFits, CmdState
<1>4. CASE SnapshotMatches
<2> DEFINE c == [cmd EXCEPT !.at = "material", !.env = vault]
<2>1. Cmd(c) BY <1>4 DEF ExecutionMaterial
<2>2. c \in CmdState /\ c.at = "material" /\ c.approved = cmd.approved /\ c.env = vault
      /\ c.ok = FALSE
  BY <1>1, <1>3 DEF CmdState, Running
<2> HIDE DEF c
<2>3. \A p \in Providers : Metadata(vault)[p] = vault[p].at
                           /\ Metadata(cmd.approved)[p] = cmd.approved[p].at
  BY DEF Metadata
<2>4. \A p \in Providers : cmd.approved[p] = vault[p]
  BY <1>1, <1>4, <2>3 DEF SnapshotMatches, CmdFits
<2>5. cmd.approved = vault BY <1>1, <2>4 DEF CmdState
<2>6. CmdFits(c) BY <1>1, <2>2, <2>5 DEF CmdFits
<2> QED BY <1>2, <2>1, <2>2, <2>6, CmdMoves DEF Cmd
<1>5. CASE ~SnapshotMatches
<2> DEFINE c == [cmd EXCEPT !.at = "answered"]
<2>1. Cmd(c) BY <1>5 DEF ExecutionMaterial
<2>2. c \in CmdState /\ c.at = "answered" /\ c.approved = cmd.approved /\ c.ok = FALSE
  BY <1>1, <1>3 DEF CmdState
<2> HIDE DEF c
<2>3. CmdFits(c) BY <1>1, <2>2 DEF CmdFits, Running
<2> QED BY <1>2, <2>1, <2>2, <2>3, CmdMoves DEF Cmd
<1> QED BY <1>4, <1>5

(* The container and what is said of it. *)
LEMMA ContainerSteps ==
  ASSUME CredInv, NEW c \in CmdState, cmd' = c,
         UNCHANGED <<vault, legacy, move, api, paste, saves, meant>>,
         credExits' \in 0..MaxCredExits,
         c.approved = cmd.approved, c.env = cmd.env,
         c.at \in Running => cmd.at \in Running,
         c.ok => /\ c.at \in {"ended", "cleanup", "answered"}
                 /\ c.at = "answered" => c.box = "none"
  PROVE  CredInv'
<1>1. CmdFits(cmd) BY CmdOfInv
<1>2. CmdFits(c) BY <1>1 DEF CmdFits
<1> QED BY <1>2, CmdMoves

LEMMA RunnerSteps ==
  ASSUME CredInv, NEW yes \in BOOLEAN,
         \/ SupervisorRefuses \/ RunnerCreates \/ RunnerLost \/ RunnerLogs \/ ExecutionLost
         \/ RunnerStarts(yes) \/ RunnerEnds(yes)
  PROVE  CredInv'
<1>1. cmd \in CmdState /\ CmdFits(cmd) BY CmdOfInv
<1>2. credExits \in 0..MaxCredExits /\ MaxCredExits \in Nat
  BY CredentialsAssumption DEF CredInv, CredentialsTypeOK
<1>3. UNCHANGED <<vault, legacy, move, api, paste, saves, meant>>
  BY DEF SupervisorRefuses, RunnerCreates, RunnerLost, RunnerLogs, ExecutionLost,
         RunnerStarts, RunnerEnds, Cmd
<1>4. credExits' \in 0..MaxCredExits
<2>1. CASE ExecutionLost BY <1>2, <2>1 DEF ExecutionLost
<2>2. CASE ~ExecutionLost
  BY <1>2, <2>2 DEF SupervisorRefuses, RunnerCreates, RunnerLost, RunnerLogs,
                    RunnerStarts, RunnerEnds, Cmd
<2> QED BY <2>1, <2>2
<1>5. cmd.at \in Running \ {"ended"} => cmd.ok = FALSE
  BY <1>1 DEF CmdFits, CmdState, Running
<1>6. ASSUME SupervisorRefuses \/ RunnerCreates \/ RunnerStarts(yes) PROVE CredInv'
<2>1. PICK at \in {"answered", "created", "started", "cleanup"},
           box \in {"none", "created", "running", "exited"} :
        /\ cmd' = [cmd EXCEPT !.at = at, !.box = box] /\ cmd.at \in {"material", "created"}
  <3>1. [cmd EXCEPT !.at = "answered"] = [cmd EXCEPT !.at = "answered", !.box = cmd.box]
        /\ [cmd EXCEPT !.at = "cleanup"] = [cmd EXCEPT !.at = "cleanup", !.box = cmd.box]
        /\ cmd.box \in {"none", "created", "running", "exited"}
    BY <1>1 DEF CmdState
  <3> QED BY <1>6, <3>1 DEF SupervisorRefuses, RunnerCreates, RunnerStarts, Cmd
<2> DEFINE c == [cmd EXCEPT !.at = at, !.box = box]
<2>2. c \in CmdState /\ c.approved = cmd.approved /\ c.env = cmd.env /\ c.ok = cmd.ok
  BY <1>1 DEF CmdState, Running
<2>3. cmd' = c BY <2>1
<2> HIDE DEF c
<2>4. cmd.at \in Running /\ cmd.ok = FALSE BY <1>5, <2>1 DEF Running
<2> QED BY <1>3, <1>4, <2>2, <2>3, <2>4, ContainerSteps
<1>7. ASSUME RunnerEnds(yes) PROVE CredInv'
<2> DEFINE c == [cmd EXCEPT !.at = "ended", !.box = "exited", !.ok = yes]
<2>1. cmd.at = "started" /\ cmd' = c BY <1>7 DEF RunnerEnds, Cmd
<2>2. c \in CmdState /\ c.approved = cmd.approved /\ c.env = cmd.env /\ c.at = "ended"
  BY <1>1 DEF CmdState, Running
<2> HIDE DEF c
<2>3. cmd.at \in Running BY <2>1 DEF Running
<2> QED BY <1>3, <1>4, <2>1, <2>2, <2>3, ContainerSteps
<1>8. ASSUME RunnerLogs PROVE CredInv'
<2> DEFINE c == [cmd EXCEPT !.at = "cleanup"]
<2>1. cmd' = c BY <1>8 DEF RunnerLogs, Cmd
<2>2. c \in CmdState /\ c.approved = cmd.approved /\ c.env = cmd.env /\ c.at = "cleanup"
  BY <1>1 DEF CmdState, Running
<2> HIDE DEF c
<2>3. c.at \notin Running BY <2>2 DEF Running
<2> QED BY <1>3, <1>4, <2>1, <2>2, <2>3, ContainerSteps
<1>9. ASSUME RunnerLost \/ ExecutionLost PROVE CredInv'
<2>1. PICK at \in {"cleanup", "answered"} : cmd' = [cmd EXCEPT !.at = at, !.ok = FALSE]
  BY <1>9 DEF RunnerLost, ExecutionLost, Cmd
<2> DEFINE c == [cmd EXCEPT !.at = at, !.ok = FALSE]
<2>2. c \in CmdState /\ c.approved = cmd.approved /\ c.env = cmd.env /\ c.at = at /\ c.ok = FALSE
  BY <1>1 DEF CmdState, Running
<2>3. cmd' = c BY <2>1
<2> HIDE DEF c
<2>4. c.at \notin Running BY <2>2 DEF Running
<2> QED BY <1>3, <1>4, <2>2, <2>3, <2>4, ContainerSteps
<1> QED BY <1>6, <1>7, <1>8, <1>9

LEMMA RemoveStep ==
  ASSUME CredInv, NEW works \in BOOLEAN, RunnerRemoves(works)
  PROVE  CredInv'
<1>1. cmd \in CmdState /\ CmdFits(cmd) BY CmdOfInv
<1>2. credExits \in 0..MaxCredExits BY DEF CredInv, CredentialsTypeOK
<1>3. cmd.at = "cleanup" /\ UNCHANGED <<vault, legacy, move, api, paste, saves, meant, credExits>>
  BY DEF RunnerRemoves, Cmd
<1>4. CASE works
<2> DEFINE c == [cmd EXCEPT !.at = "answered", !.box = "none"]
<2>1. cmd' = c BY <1>4 DEF RunnerRemoves, Cmd
<2>2. c \in CmdState /\ c.approved = cmd.approved /\ c.env = cmd.env /\ c.at = "answered"
      /\ c.box = "none"
  BY <1>1 DEF CmdState, Running
<2> HIDE DEF c
<2>3. c.at \notin Running BY <2>2 DEF Running
<2> QED BY <1>2, <1>3, <2>1, <2>2, <2>3, ContainerSteps
<1>5. CASE ~works /\ cmd.tries + 1 < RemoveTries
<2> DEFINE c == [cmd EXCEPT !.tries = @ + 1]
<2>1. cmd' = c BY <1>5 DEF RunnerRemoves, Cmd
<2>2. cmd.tries + 1 \in 0..RemoveTries BY <1>1, <1>5, CredentialsAssumption DEF CmdState
<2>3. c \in CmdState /\ c.approved = cmd.approved /\ c.env = cmd.env /\ c.at = cmd.at
  BY <1>1, <2>2 DEF CmdState, Running
<2> HIDE DEF c
<2>4. c.at \notin Running /\ c.at = "cleanup" BY <1>3, <2>3 DEF Running
<2> QED BY <1>2, <1>3, <2>1, <2>3, <2>4, ContainerSteps
<1>6. CASE ~works /\ ~(cmd.tries + 1 < RemoveTries)
<2> DEFINE c == [cmd EXCEPT !.at = "answered", !.ok = FALSE]
<2>1. cmd' = c BY <1>6 DEF RunnerRemoves, Cmd
<2>2. c \in CmdState /\ c.approved = cmd.approved /\ c.env = cmd.env /\ c.at = "answered"
      /\ c.ok = FALSE
  BY <1>1 DEF CmdState, Running
<2> HIDE DEF c
<2>3. c.at \notin Running BY <2>2 DEF Running
<2> QED BY <1>2, <1>3, <2>1, <2>2, <2>3, ContainerSteps
<1> QED BY <1>4, <1>5, <1>6

(* A save has a later time than every row the owner was shown, and a row that
   is forgotten has none. *)
LEMMA VaultChanges ==
  ASSUME CredInv, NEW p \in Providers, NEW row \in VaultRow,
         vault' = [vault EXCEPT ![p] = row], UNCHANGED cmd, saves' \in 0..MaxSaves,
         \/ row = NoRow /\ saves' = saves
         \/ row.at = saves + 1 /\ saves' = saves + 1
  PROVE  vault' \in [Providers -> VaultRow] /\ CommandFacts'
<1>1. cmd \in CmdState /\ CmdFits(cmd) /\ vault \in [Providers -> VaultRow] BY CmdOfInv
<1>2. /\ vault' \in [Providers -> VaultRow]
      /\ \A q \in Providers : vault'[q] = IF q = p THEN row ELSE vault[q]
  BY <1>1
<1>3. saves \in Nat BY RowsOfVault DEF CredInv, CredentialsTypeOK
<1>4. \A q \in Providers : /\ cmd.approved[q] \in VaultRow /\ cmd.approved[q].at \in Nat
                           /\ vault[q].at \in Nat
  BY <1>1, RowsOfVault DEF CmdState
<1>5. ASSUME NEW q \in Providers
      PROVE  /\ vault'[q].at <= saves' /\ cmd'.approved[q].at <= saves'
             /\ cmd'.approved[q].at = vault'[q].at => cmd'.approved[q] = vault'[q]
<2>1. vault[q].at <= saves /\ cmd.approved[q].at <= saves
      /\ (cmd.approved[q].at = vault[q].at => cmd.approved[q] = vault[q])
  BY DEF CredInv, CommandFacts
<2>2. CASE q # p BY <1>2, <1>3, <1>4, <2>1, <2>2
<2>3. CASE q = p /\ row = NoRow BY <1>2, <1>3, <1>4, <2>1, <2>3, RowsOfVault
<2>4. CASE q = p /\ row.at = saves + 1 /\ saves' = saves + 1 BY <1>2, <1>3, <1>4, <2>1, <2>4
<2> QED BY <1>3, <2>2, <2>3, <2>4
<1>6. CommandFacts'
<2>1. /\ cmd.at \in Running => cmd.env = cmd.approved
      /\ cmd.ok => cmd.at \in {"ended", "cleanup", "answered"}
      /\ cmd.at = "answered" /\ cmd.ok => cmd.box = "none"
  BY DEF CredInv, CommandFacts
<2> QED BY <1>5, <2>1 DEF CommandFacts
<1> QED BY <1>2, <1>6

(* The owner's writes: the host is up, and no old file is left. *)
LEMMA OwnerWrites ==
  ASSUME CredInv, api, NEW p \in Providers, NEW row \in VaultRow,
         vault' = [vault EXCEPT ![p] = row], meant' = [meant EXCEPT ![p] = row.secret],
         UNCHANGED <<cmd, legacy, move, api, credExits>>,
         paste' \in [Providers -> Secrets \cup {"none"}],
         saves' \in 0..MaxSaves,
         \/ row = NoRow /\ saves' = saves
         \/ row.at = saves + 1 /\ saves' = saves + 1
  PROVE  CredInv'
<1>1. vault' \in [Providers -> VaultRow] /\ CommandFacts' BY VaultChanges
<1>2. vault \in [Providers -> VaultRow] /\ meant \in [Providers -> Secrets \cup {"none"}]
  BY DEF CredInv, CredentialsTypeOK
<1>3. row.secret \in Secrets \cup {"none"} BY RowsOfVault
<1>4. CredentialsTypeOK' BY <1>1, <1>2, <1>3 DEF CredInv, CredentialsTypeOK
<1>5. move.at = "off" /\ \A q \in Providers : legacy[q] = "none" BY DEF CredInv, VaultFacts
<1>6. ASSUME NEW q \in Providers
      PROVE  IF vault'[q] = NoRow THEN legacy'[q] = meant'[q] ELSE vault'[q].secret = meant'[q]
<2>1. CASE q = p BY <1>2, <1>5, <2>1, RowsOfVault
<2>2. CASE q # p BY <1>2, <2>2 DEF CredInv, VaultFacts
<2> QED BY <2>1, <2>2
<1>7. VaultFacts' BY <1>5, <1>6 DEF VaultFacts
<1> QED BY <1>1, <1>4, <1>7 DEF CredInv

LEMMA SaveSteps ==
  ASSUME CredInv, NEW p \in Providers, NEW s \in Secrets, Put(p, s),
         UNCHANGED <<legacy, move, api, cmd, credExits>>,
         paste' \in [Providers -> Secrets \cup {"none"}]
  PROVE  CredInv'
<1> DEFINE row == [secret |-> s, at |-> saves + 1]
<1>1. /\ api /\ saves < MaxSaves /\ vault' = [vault EXCEPT ![p] = row] /\ saves' = saves + 1
      /\ meant' = [meant EXCEPT ![p] = s]
  BY DEF Put
<1>2. saves \in Nat /\ MaxSaves \in Nat BY RowsOfVault DEF CredInv, CredentialsTypeOK
<1>3. saves + 1 \in 1..MaxSaves BY <1>1, <1>2
<1>4. row \in VaultRow /\ row.secret = s /\ row.at = saves + 1 BY <1>3 DEF VaultRow
<1> HIDE DEF row
<1>5. saves' \in 0..MaxSaves BY <1>1, <1>2
<1> QED BY <1>1, <1>4, <1>5, OwnerWrites

LEMMA ForgetBotStep ==
  ASSUME CredInv, ForgetBot
  PROVE  CredInv'
<1>1. /\ api /\ vault' = NoRows /\ meant' = [p \in Providers |-> "none"]
      /\ UNCHANGED <<legacy, move, api, cmd, paste, saves, credExits>>
  BY DEF ForgetBot
<1>2. vault' \in [Providers -> VaultRow] /\ \A p \in Providers : vault'[p] = NoRow
  BY <1>1, RowsOfVault
<1>3. CredentialsTypeOK' BY <1>1, <1>2 DEF CredInv, CredentialsTypeOK
<1>4. saves \in Nat BY RowsOfVault DEF CredInv, CredentialsTypeOK
<1>5. \A p \in Providers : cmd.approved[p] \in VaultRow
  BY CmdOfInv DEF CmdState
<1>6. \A p \in Providers : vault'[p].at <= saves /\ cmd.approved[p].at <= saves
                           /\ (cmd.approved[p].at = vault'[p].at => cmd.approved[p] = vault'[p])
  BY <1>2, <1>4, <1>5, RowsOfVault DEF CredInv, CommandFacts
<1>7. CommandFacts' BY <1>1, <1>6 DEF CredInv, CommandFacts
<1>8. move.at = "off" /\ \A p \in Providers : legacy[p] = "none"
  BY <1>1 DEF CredInv, VaultFacts
<1>9. VaultFacts' BY <1>1, <1>2, <1>8 DEF VaultFacts
<1> QED BY <1>3, <1>7, <1>9 DEF CredInv

LEMMA PasteSteps ==
  ASSUME CredInv, paste' \in [Providers -> Secrets \cup {"none"}],
         UNCHANGED <<vault, legacy, move, api, cmd, saves, meant, credExits>>
  PROVE  CredInv'
<1>1. CredentialsTypeOK' BY DEF CredInv, CredentialsTypeOK
<1>2. CommandFacts' BY DEF CredInv, CommandFacts
<1>3. VaultFacts' BY DEF CredInv, VaultFacts, StateOf
<1> QED BY <1>1, <1>2, <1>3 DEF CredInv

(* A step of the migrator that leaves the vault and the files alone. *)
LEMMA MigratorMoves ==
  ASSUME CredInv, NEW m \in MoveState, move' = m,
         UNCHANGED <<vault, legacy, cmd, paste, saves, meant>>,
         api' \in BOOLEAN, credExits' \in 0..MaxCredExits,
         m.at # "off" => ~api',
         api' \/ (m.at = "done" /\ ~m.failed) => \A p \in Providers : legacy[p] = "none",
         m.at = "found" => /\ m.file \in Providers /\ legacy[m.file] # "none"
                           /\ m.state = StateOf(m.file),
         m.at # "confirmed"
  PROVE  CredInv'
<1>1. CredentialsTypeOK' BY DEF CredInv, CredentialsTypeOK, MoveState
<1>2. CommandFacts' BY DEF CredInv, CommandFacts
<1>3. VaultFacts' BY DEF CredInv, VaultFacts, StateOf
<1> QED BY <1>1, <1>2, <1>3 DEF CredInv

LEMMA MigratorSteps ==
  ASSUME CredInv,
         \/ MigratorStartsOver \/ MigratorEnds \/ ComposeGoesOn \/ MigratorDies
         \/ \E p \in Providers : MigratorReads(p) \/ MigratorFails(p)
  PROVE  CredInv'
<1>1. /\ move \in MoveState /\ credExits \in 0..MaxCredExits /\ api \in BOOLEAN
      /\ MaxCredExits \in Nat
  BY CredentialsAssumption DEF CredInv, CredentialsTypeOK, MoveState
<1>2. NoMove \in MoveState /\ NoMove.at = "off" BY DEF NoMove, MoveState
<1>3. CASE MigratorStartsOver
<2> DEFINE m == [NoMove EXCEPT !.at = "file"]
<2>1. m \in MoveState /\ m.at = "file" BY <1>2 DEF MoveState
<2>2. move' = m /\ ~api /\ UNCHANGED <<vault, legacy, api, cmd, paste, saves, meant, credExits>>
  BY <1>3 DEF MigratorStartsOver
<2> HIDE DEF m
<2> QED BY <1>1, <2>1, <2>2, MigratorMoves
<1>4. ASSUME NEW p \in Providers, MigratorReads(p) PROVE CredInv'
<2> DEFINE m == [move EXCEPT !.at = "found", !.file = p, !.state = StateOf(p)]
<2>1. StateOf(p) \in {"none", "missing", "same", "different"} BY DEF StateOf
<2>2. m \in MoveState /\ m.at = "found" /\ m.file = p /\ m.state = StateOf(p)
  BY <1>1, <2>1 DEF MoveState
<2>3. /\ move' = m /\ move.at = "file" /\ legacy[p] # "none"
      /\ UNCHANGED <<vault, legacy, api, cmd, paste, saves, meant, credExits>>
  BY <1>4 DEF MigratorReads
<2> HIDE DEF m
<2>4. ~api BY <2>3 DEF CredInv, VaultFacts
<2> QED BY <1>1, <2>2, <2>3, <2>4, MigratorMoves
<1>5. ASSUME NEW p \in Providers, MigratorFails(p) PROVE CredInv'
<2> DEFINE m == [move EXCEPT !.at = "done", !.failed = TRUE]
<2>1. m \in MoveState /\ m.at = "done" /\ m.failed = TRUE BY <1>1 DEF MoveState
<2>2. /\ move' = m /\ move.at = "file"
      /\ UNCHANGED <<vault, legacy, api, cmd, paste, saves, meant, credExits>>
  BY <1>5 DEF MigratorFails
<2> HIDE DEF m
<2>3. ~api BY <2>2 DEF CredInv, VaultFacts
<2> QED BY <1>1, <2>1, <2>2, <2>3, MigratorMoves
<1>6. CASE MigratorEnds
<2> DEFINE m == [move EXCEPT !.at = "done"]
<2>1. m \in MoveState /\ m.at = "done" BY <1>1 DEF MoveState
<2>2. /\ move' = m /\ move.at = "file" /\ \A p \in Providers : legacy[p] = "none"
      /\ UNCHANGED <<vault, legacy, api, cmd, paste, saves, meant, credExits>>
  BY <1>6 DEF MigratorEnds
<2> HIDE DEF m
<2>3. ~api BY <2>2 DEF CredInv, VaultFacts
<2> QED BY <1>1, <2>1, <2>2, <2>3, MigratorMoves
<1>7. CASE ComposeGoesOn
<2>1. /\ move.at = "done" /\ api' = ~move.failed /\ move' = NoMove
      /\ UNCHANGED <<vault, legacy, cmd, paste, saves, meant, credExits>>
  BY <1>7 DEF ComposeGoesOn
<2>2. api' \in BOOLEAN /\ (api' => \A p \in Providers : legacy[p] = "none")
  BY <2>1 DEF CredInv, VaultFacts
<2> QED BY <1>1, <1>2, <2>1, <2>2, MigratorMoves
<1>8. CASE MigratorDies
<2>1. /\ move.at # "off" /\ credExits' = credExits + 1 /\ credExits < MaxCredExits
      /\ move' = NoMove /\ UNCHANGED <<vault, legacy, api, cmd, paste, saves, meant>>
  BY <1>8 DEF MigratorDies
<2>2. ~api BY <2>1 DEF CredInv, VaultFacts
<2>3. credExits' \in 0..MaxCredExits BY <1>1, <2>1
<2> QED BY <1>1, <1>2, <2>1, <2>2, <2>3, MigratorMoves
<1> QED BY <1>3, <1>4, <1>5, <1>6, <1>7, <1>8

(* The file's token goes in where the vault has no row; where it has one, that
   is what the owner saved later. *)
LEMMA MoveStep ==
  ASSUME CredInv, PutIfMissing
  PROVE  CredInv'
<1> DEFINE f == move.file
           m == [move EXCEPT !.at = "confirmed"]
<1>1. /\ move \in MoveState /\ legacy \in [Providers -> Secrets \cup {"none"}]
      /\ vault \in [Providers -> VaultRow] /\ saves \in Nat
  BY RowsOfVault DEF CredInv, CredentialsTypeOK, MoveState
<1>2. m \in MoveState /\ m.at = "confirmed" /\ m.file = f BY <1>1 DEF MoveState
<1>3. /\ move.at = "found" /\ move' = m /\ UNCHANGED <<legacy, api, cmd, paste, meant, credExits>>
  BY DEF PutIfMissing
<1>4. f \in Providers /\ legacy[f] # "none" /\ move.state = StateOf(f) /\ ~api
  BY <1>3 DEF CredInv, VaultFacts
<1> HIDE DEF f, m
<1>5. CASE move.state # "missing" /\ UNCHANGED <<vault, saves>>
<2>1. vault[f] # NoRow BY <1>4, <1>5 DEF StateOf
<2>2. CredentialsTypeOK' BY <1>2, <1>3, <1>5 DEF CredInv, CredentialsTypeOK, MoveState
<2>3. CommandFacts' BY <1>3, <1>5 DEF CredInv, CommandFacts
<2>4. VaultFacts' BY <1>2, <1>3, <1>4, <1>5, <2>1 DEF CredInv, VaultFacts
<2> QED BY <2>2, <2>3, <2>4 DEF CredInv
<1>6. ASSUME move.state = "missing", saves < MaxSaves, saves' = saves + 1,
             vault' = [vault EXCEPT ![f] = [secret |-> legacy[f], at |-> saves + 1]]
      PROVE  CredInv'
<2> DEFINE row == [secret |-> legacy[f], at |-> saves + 1]
<2>1. MaxSaves \in Nat BY RowsOfVault
<2>2. saves + 1 \in 1..MaxSaves /\ saves' \in 0..MaxSaves BY <1>1, <1>6, <2>1
<2>3. legacy[f] \in Secrets BY <1>1, <1>4
<2>4. row \in VaultRow /\ row.secret = legacy[f] /\ row.at = saves + 1
  BY <2>2, <2>3 DEF VaultRow
<2>5. vault' = [vault EXCEPT ![f] = row] BY <1>6
<2> HIDE DEF row
<2>6. vault' \in [Providers -> VaultRow] /\ CommandFacts'
  BY <1>3, <1>4, <1>6, <2>2, <2>4, <2>5, VaultChanges
<2>7. CredentialsTypeOK' BY <1>2, <1>3, <2>2, <2>6 DEF CredInv, CredentialsTypeOK, MoveState
<2>8. row # NoRow BY <1>1, <2>4, RowsOfVault
<2>9. vault[f] = NoRow /\ legacy[f] = meant[f]
  BY <1>4, <1>6 DEF StateOf, CredInv, VaultFacts
<2>10. ASSUME NEW q \in Providers
       PROVE  IF vault'[q] = NoRow THEN legacy'[q] = meant'[q] ELSE vault'[q].secret = meant'[q]
<3>1. CASE q = f BY <1>1, <1>3, <2>4, <2>5, <2>8, <2>9, <3>1
<3>2. CASE q # f BY <1>1, <1>3, <2>5, <3>2 DEF CredInv, VaultFacts
<3> QED BY <3>1, <3>2
<2>11. vault'[f] # NoRow BY <1>1, <1>4, <2>5, <2>8
<2>12. VaultFacts' BY <1>2, <1>3, <1>4, <2>10, <2>11 DEF VaultFacts
<2> QED BY <2>6, <2>7, <2>12 DEF CredInv
<1> QED BY <1>5, <1>6 DEF PutIfMissing, f

LEMMA UnlinkStep ==
  ASSUME CredInv, MigratorUnlinks
  PROVE  CredInv'
<1> DEFINE f == move.file
           m == [move EXCEPT !.at = "file", !.file = "none", !.state = "none"]
<1>1. move \in MoveState /\ legacy \in [Providers -> Secrets \cup {"none"}]
  BY DEF CredInv, CredentialsTypeOK, MoveState
<1>2. m \in MoveState /\ m.at = "file" BY <1>1 DEF MoveState
<1>3. /\ move.at = "confirmed" /\ move' = m /\ legacy' = [legacy EXCEPT ![f] = "none"]
      /\ UNCHANGED <<vault, api, cmd, paste, saves, meant, credExits>>
  BY DEF MigratorUnlinks
<1>4. f \in Providers /\ vault[f] # NoRow /\ ~api BY <1>3 DEF CredInv, VaultFacts
<1> HIDE DEF f, m
<1>5. /\ legacy' \in [Providers -> Secrets \cup {"none"}]
      /\ \A q \in Providers : legacy'[q] = IF q = f THEN "none" ELSE legacy[q]
  BY <1>1, <1>3
<1>6. CredentialsTypeOK' BY <1>2, <1>3, <1>5 DEF CredInv, CredentialsTypeOK, MoveState
<1>7. CommandFacts' BY <1>3 DEF CredInv, CommandFacts
<1>8. \A q \in Providers : IF vault'[q] = NoRow THEN legacy'[q] = meant'[q]
                           ELSE vault'[q].secret = meant'[q]
  BY <1>3, <1>4, <1>5 DEF CredInv, VaultFacts
<1>9. VaultFacts' BY <1>2, <1>3, <1>4, <1>8 DEF VaultFacts
<1> QED BY <1>6, <1>7, <1>9 DEF CredInv

(* The stack stops; an old file may come back only beside a row. *)
LEMMA StackStep ==
  ASSUME CredInv, NEW p \in Providers, NEW s \in Secrets, StackStops(p, s)
  PROVE  CredInv'
<1>1. /\ legacy \in [Providers -> Secrets \cup {"none"}] /\ credExits \in 0..MaxCredExits
      /\ MaxCredExits \in Nat
  BY CredentialsAssumption DEF CredInv, CredentialsTypeOK
<1>2. /\ api /\ credExits < MaxCredExits /\ credExits' = credExits + 1 /\ api' = FALSE
      /\ cmd' = NoCmd /\ paste' = [q \in Providers |-> "none"]
      /\ legacy' = IF vault[p] # NoRow THEN [legacy EXCEPT ![p] = s] ELSE legacy
      /\ UNCHANGED <<vault, move, saves, meant>>
  BY DEF StackStops
<1>3. legacy' \in [Providers -> Secrets \cup {"none"}] BY <1>1, <1>2
<1>4. credExits' \in 0..MaxCredExits BY <1>1, <1>2
<1>5. NoCmd \in CmdState /\ CmdFits(NoCmd) BY EmptyCmdFits
<1>6. api' \in BOOLEAN BY <1>2, Zenon
<1>7. paste' \in [Providers -> Secrets \cup {"none"}] BY <1>2
<1>8. CredentialsTypeOK' BY <1>2, <1>3, <1>4, <1>5, <1>6, <1>7 DEF CredInv, CredentialsTypeOK, CmdState
<1>9. CommandFacts' BY <1>2, <1>5 DEF CredInv, CommandFacts, CmdFits
<1>10. move.at = "off" BY <1>2 DEF CredInv, VaultFacts
<1>11. \A q \in Providers : IF vault'[q] = NoRow THEN legacy'[q] = meant'[q]
                            ELSE vault'[q].secret = meant'[q]
  BY <1>1, <1>2 DEF CredInv, VaultFacts
<1>12. VaultFacts' BY <1>2, <1>10, <1>11 DEF VaultFacts
<1> QED BY <1>8, <1>9, <1>12 DEF CredInv

LEMMA CredentialsStart == CredentialsInit => CredInv
<1> SUFFICES ASSUME CredentialsInit PROVE CredInv OBVIOUS
<1>1. vault \in [Providers -> VaultRow] /\ \A p \in Providers : vault[p] = NoRow
  BY RowsOfVault DEF CredentialsInit
<1>2. NoMove \in MoveState /\ NoMove.at = "off" BY DEF NoMove, MoveState
<1>3. 0 \in 0..RemoveTries /\ 0 \in 0..MaxSaves /\ 0 \in 0..MaxCredExits BY CredentialsAssumption
<1>4. NoCmd \in CmdState /\ NoCmd.at = "idle" /\ NoCmd.ok = FALSE /\ NoCmd.approved = NoRows
  BY <1>3, RowsOfVault DEF NoCmd, CmdState
<1>5. api \in BOOLEAN BY DEF CredentialsInit
<1>6. CredentialsTypeOK
  BY <1>1, <1>2, <1>3, <1>4, <1>5 DEF CredentialsInit, CredentialsTypeOK, MoveState, CmdState
<1>7. CommandFacts
  BY <1>1, <1>4, RowsOfVault DEF CredentialsInit, CommandFacts, Running
<1>8. VaultFacts BY <1>1, <1>2 DEF CredentialsInit, VaultFacts
<1> QED BY <1>6, <1>7, <1>8 DEF CredInv

LEMMA CredentialsStep == CredInv /\ [CredentialsNext]_credVars => CredInv'
<1> SUFFICES ASSUME CredInv, [CredentialsNext]_credVars PROVE CredInv' OBVIOUS
<1>1. CASE MigratorStartsOver \/ MigratorEnds \/ ComposeGoesOn \/ MigratorDies
  BY <1>1, MigratorSteps
<1>2. CASE PutIfMissing BY <1>2, MoveStep
<1>3. CASE MigratorUnlinks BY <1>3, UnlinkStep
<1>4. ASSUME NEW p \in Providers, MigratorReads(p) \/ MigratorFails(p) PROVE CredInv'
  BY <1>4, MigratorSteps
<1>5. ASSUME NEW p \in Providers, ForgetBotCredential(p) PROVE CredInv'
<2>1. /\ NoRow \in VaultRow /\ NoRow.secret = "none"
      /\ paste \in [Providers -> Secrets \cup {"none"}] /\ saves \in 0..MaxSaves
  BY RowsOfVault DEF CredInv, CredentialsTypeOK
<2>2. /\ api /\ vault' = [vault EXCEPT ![p] = NoRow] /\ meant' = [meant EXCEPT ![p] = NoRow.secret]
      /\ UNCHANGED <<legacy, move, api, cmd, paste, saves, credExits>>
  BY <1>5, <2>1 DEF ForgetBotCredential
<2> QED BY <2>1, <2>2, OwnerWrites
<1>6. ASSUME NEW p \in Providers, PasteSaves(p) PROVE CredInv'
<2>1. paste \in [Providers -> Secrets \cup {"none"}] BY DEF CredInv, CredentialsTypeOK
<2>2. paste[p] \in Secrets BY <1>6, <2>1 DEF PasteSaves
<2>3. paste' \in [Providers -> Secrets \cup {"none"}] BY <1>6, <2>1 DEF PasteSaves
<2> QED BY <1>6, <2>2, <2>3, SaveSteps DEF PasteSaves
<1>7. ASSUME NEW p \in Providers, NEW s \in Secrets, StackStops(p, s) PROVE CredInv'
  BY <1>7, StackStep
<1>8. ASSUME NEW p \in Providers, NEW s \in Secrets, SaveBotCredential(p, s) PROVE CredInv'
<2>1. paste \in [Providers -> Secrets \cup {"none"}] BY DEF CredInv, CredentialsTypeOK
<2> QED BY <1>8, <2>1, SaveSteps DEF SaveBotCredential
<1>9. CASE ForgetBot BY <1>9, ForgetBotStep
<1>10. CASE PasteFails BY <1>10, PasteSteps DEF PasteFails
<1>11. ASSUME NEW found \in [Providers -> Secrets \cup {"none"}], PasteInChat(found) PROVE CredInv'
  BY <1>11, PasteSteps DEF PasteInChat
<1>12. CASE AskOwner \/ Recheck BY <1>12, AskSteps
<1>13. CASE ExecutionMaterial BY <1>13, MaterialStep
<1>14. CASE SupervisorRefuses \/ RunnerCreates \/ RunnerLost \/ RunnerLogs \/ ExecutionLost
  BY <1>14, RunnerSteps
<1>15. ASSUME NEW yes \in BOOLEAN, OwnerAnswers(yes) PROVE CredInv'
  BY <1>15, AskSteps
<1>16. ASSUME NEW yes \in BOOLEAN, RunnerStarts(yes) \/ RunnerEnds(yes) PROVE CredInv'
  BY <1>16, RunnerSteps
<1>17. ASSUME NEW yes \in BOOLEAN, RunnerRemoves(yes) PROVE CredInv' BY <1>17, RemoveStep
<1>18. CASE UNCHANGED credVars
  BY <1>18 DEF credVars, CredInv, CredentialsTypeOK, CommandFacts, VaultFacts, StateOf
<1> QED
  BY <1>1, <1>2, <1>3, <1>4, <1>5, <1>6, <1>7, <1>8, <1>9, <1>10, <1>11, <1>12, <1>13, <1>14,
     <1>15, <1>16, <1>17, <1>18
  DEF CredentialsNext

(* Rows of one time are one row; the migrator never meets a save of the owner. *)
THEOREM CredentialFactsHold == CredentialsSpec => [](CredentialsTypeOK /\ CommandFacts /\ VaultFacts)
<1>1. CredInv => CredentialsTypeOK /\ CommandFacts /\ VaultFacts BY DEF CredInv
<1> QED BY <1>1, CredentialsStart, CredentialsStep, PTL DEF CredentialsSpec

(* A container runs with exactly the tokens that the owner was shown, and a
   command that worked has left none behind. *)
THEOREM RunsWithApprovedHolds == CredentialsSpec => []RunsWithApproved
<1>1. CredInv => RunsWithApproved BY DEF CredInv, CommandFacts, RunsWithApproved
<1> QED BY <1>1, CredentialsStart, CredentialsStep, PTL DEF CredentialsSpec

(* What the owner last saved is in the vault or still in the old files, and
   what the owner forgot stays away. *)
THEOREM OwnerKeepsSecretHolds == CredentialsSpec => []OwnerKeepsSecret
<1>1. CredInv => OwnerKeepsSecret BY DEF CredInv, VaultFacts, OwnerKeepsSecret
<1> QED BY <1>1, CredentialsStart, CredentialsStep, PTL DEF CredentialsSpec
=============================================================================
