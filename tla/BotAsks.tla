------------------------------ MODULE BotAsks ------------------------------
(***************************************************************************)
(* Bot-to-bot asks: message_bot (or the owner's route) records a question  *)
(* for another inbox bot and starts a turn of it or leaves the question in *)
(* its inbox; the turn binds a question to itself, and when it ends its    *)
(* last message goes back to the bot that asked.                           *)
(*                                                                         *)
(* Everything here is a coroutine on one event loop, except the tools that *)
(* call message_bot and take the inbox; a step is what happens between two *)
(* awaits.  Questions are numbered in the order of created_at.             *)
(***************************************************************************)
EXTENDS Integers, FiniteSets, FiniteSetsExt

CONSTANTS
  AskBots,   \* inbox bots
  MaxAsks,   \* bound: questions
  MaxTurns   \* bound: turns


Asks == 1..MaxAsks
AskTurns == 1..MaxTurns
NoBot == "no bot"

ASSUME AsksAssumption == MaxAsks \in Nat /\ MaxTurns \in Nat /\ NoBot \notin AskBots

AskActive == {"starting", "live", "unknown"}

VARIABLES
  ask,       \* bot_asks: who asked whom, to_run_id, delivered_at
  accepting, \* questions whose _accept_turn is under way
  turn,      \* the turns: bot, where it is, the questions in its prompt
  aInbox,    \* turn_inbox: the questions and the replies left for each bot
  handed     \* replies given to a turn of the bot that asked, with multiplicity

askVars == <<ask, accepting, turn, aInbox, handed>>

NoAsk == [from |-> NoBot, to |-> NoBot, run |-> 0, delivered |-> FALSE]
NoTurn == [bot |-> NoBot, at |-> "none", text |-> {}, ended |-> "none"]
EmptyInbox == [asks |-> {}, replies |-> {}]

(* Rows, turns and inboxes are of their types; a bound question is bound to a turn of the *)
(* bot that was asked.                                                                    *)
AsksTypeOK ==
  /\ ask \in [Asks -> [from : AskBots \cup {NoBot}, to : AskBots \cup {NoBot}, run : 0..MaxTurns,
                       delivered : BOOLEAN]]
  /\ accepting \subseteq Asks
  /\ turn \in [AskTurns -> [bot : AskBots \cup {NoBot},
                            at : AskActive \cup {"none", "ended", "replying", "kicking", "done"},
                            text : SUBSET Asks,
                            ended : {"none", "over", "cancelled", "unknown"}]]
  /\ aInbox \in [AskBots -> [asks : SUBSET Asks, replies : SUBSET Asks]]
  /\ handed \in [Asks -> Nat]
  /\ \A a \in Asks : ask[a].run # 0 => turn[ask[a].run].bot = ask[a].to

AsksInit ==
  /\ ask = [a \in Asks |-> NoAsk]
  /\ accepting = {}
  /\ turn = [t \in AskTurns |-> NoTurn]
  /\ aInbox = [b \in AskBots |-> EmptyInbox]
  /\ handed = [a \in Asks |-> 0]

ActiveTurns(b) == {t \in AskTurns : turn[t].bot = b /\ turn[t].at \in AskActive}
FreeTurns == {t \in AskTurns : turn[t].at = "none"}
NewTurn(b, text) == [bot |-> b, at |-> "starting", text |-> text, ended |-> "none"]
TurnAt(t, where) == [turn EXCEPT ![t].at = where]
Handed(replies) == [a \in Asks |-> handed[a] + (IF a \in replies THEN 1 ELSE 0)]

(***************************************************************************)
(* A question.                                                             *)
(***************************************************************************)

(* message_bot or the route: resolve_ask, then launch_bot_ask inserts the row. *)
AskBot(b, d) ==
  /\ b # d
  /\ \E a \in Asks :
       /\ ask[a] = NoAsk /\ \A c \in Asks : ask[c] = NoAsk => a <= c
       /\ ask' = [ask EXCEPT ![a].from = b, ![a].to = d]
       /\ accepting' = accepting \cup {a}
  /\ UNCHANGED <<turn, aInbox, handed>>

(* _accept_turn after its await of _ensure_agent: a turn, or an inbox item.  A new turn is *)
(* given what the inbox holds next to its own prompt.                                      *)
AskAccepted(a) ==
  LET d == ask[a].to IN
  /\ a \in accepting
  /\ accepting' = accepting \ {a}
  /\ IF ActiveTurns(d) = {}
       THEN /\ FreeTurns # {}
            /\ turn' = [turn EXCEPT ![Min(FreeTurns)] = NewTurn(d, {a})]
            /\ aInbox' = [aInbox EXCEPT ![d] = EmptyInbox]
            /\ handed' = Handed(aInbox[d].replies)
       ELSE /\ aInbox' = [aInbox EXCEPT ![d].asks = @ \cup {a}]
            /\ UNCHANGED <<turn, handed>>
  /\ UNCHANGED ask

(* _accept_turn raises or answers that no model is chosen; the row of the question stays. *)
AskRefused(a) ==
  /\ a \in accepting
  /\ accepting' = accepting \ {a}
  /\ UNCHANGED <<ask, turn, aInbox, handed>>

(* The owner writes to an idle bot. *)
OwnerWrites(b) ==
  /\ ActiveTurns(b) = {} /\ FreeTurns # {}
  /\ turn' = [turn EXCEPT ![Min(FreeTurns)] = NewTurn(b, {})]
  /\ aInbox' = [aInbox EXCEPT ![b] = EmptyInbox]
  /\ handed' = Handed(aInbox[b].replies)
  /\ UNCHANGED <<ask, accepting>>

(***************************************************************************)
(* A turn.                                                                 *)
(***************************************************************************)

(* bind_pending_ask_run: the oldest question for the bot that has no run and no reply. *)
BindPendingAskRun(b, t) ==
  LET open == {a \in Asks : ask[a].to = b /\ ~ask[a].delivered /\ ask[a].run = 0} IN
  IF open = {} THEN ask ELSE [ask EXCEPT ![Min(open)].run = t]

(* _run_turn begins; it binds one question when its prompt has the mark of one. *)
AskTurnBegins(t) ==
  /\ turn[t].at = "starting"
  /\ turn' = TurnAt(t, "live")
  /\ ask' = IF turn[t].text = {} THEN ask ELSE BindPendingAskRun(turn[t].bot, t)
  /\ UNCHANGED <<accepting, aInbox, handed>>

(* Stop before the task has run: _run_turn is never entered. *)
AskTurnStopped(t) ==
  /\ turn[t].at = "starting"
  /\ turn' = TurnAt(t, "done")
  /\ UNCHANGED <<ask, accepting, aInbox, handed>>

(* A tool of the turn returns with what the inbox held. *)
ToolTakesInbox(t) ==
  LET b == turn[t].bot IN
  /\ turn[t].at = "live" /\ aInbox[b] # EmptyInbox
  /\ aInbox' = [aInbox EXCEPT ![b] = EmptyInbox]
  /\ handed' = Handed(aInbox[b].replies)
  /\ UNCHANGED <<ask, accepting, turn>>

(* finish_turn; an unknown turn keeps the bot busy and sends nothing back, one that is *)
(* over is completed or failed, which only changes the words of the reply.             *)
AskTurnEnds(t, status) ==
  /\ turn[t].at = "live"
  /\ turn' = [turn EXCEPT ![t].at = IF status = "unknown" THEN "unknown" ELSE "ended",
                          ![t].ended = status]
  /\ UNCHANGED <<ask, accepting, aInbox, handed>>

(* The recovery card of an unknown turn ends it. *)
UnknownTurnSettled(t) ==
  /\ turn[t].at = "unknown"
  /\ turn' = TurnAt(t, "done")
  /\ UNCHANGED <<ask, accepting, aInbox, handed>>

Undelivered(t) == {a \in Asks : ask[a].run = t /\ ~ask[a].delivered}

(* A mutant: the question is marked as soon as it is found. *)
PeekMarks(t) ==
  /\ turn[t].at = "ended"
  /\ turn' = TurnAt(t, IF Undelivered(t) = {} THEN "kicking" ELSE "replying")
  /\ ask' = [a \in Asks |-> IF a \in Undelivered(t) THEN [ask[a] EXCEPT !.delivered = TRUE] ELSE ask[a]]
  /\ UNCHANGED <<accepting, aInbox, handed>>

(* peek_undelivered_ask_for_run, before the await of the source's agent. *)
PeekUndelivered(t) ==
  /\ turn[t].at = "ended"
  /\ turn' = TurnAt(t, IF Undelivered(t) = {} THEN "kicking" ELSE "replying")
  /\ UNCHANGED <<ask, accepting, aInbox, handed>>

(* deliver_bot_ask_follow_up: with the rows locked, an inbox item of a busy source or a *)
(* new turn of an idle one.                                                             *)
DeliverFollowUp(t) ==
  /\ turn[t].at = "replying"
  /\ \E a \in Undelivered(t) :
       /\ ask' = [ask EXCEPT ![a].delivered = TRUE]
       /\ IF ActiveTurns(ask[a].from) # {}
            THEN /\ turn' = TurnAt(t, "kicking")
                 /\ aInbox' = [aInbox EXCEPT ![ask[a].from].replies = @ \cup {a}]
                 /\ UNCHANGED handed
            ELSE /\ FreeTurns # {}
                 /\ turn' = [TurnAt(t, "kicking") EXCEPT ![Min(FreeTurns)] = NewTurn(ask[a].from, {})]
                 /\ handed' = Handed({a})
                 /\ UNCHANGED aInbox
  /\ UNCHANGED accepting

(* _ensure_agent or the store raises; the failure is logged. *)
DeliverFails(t) ==
  /\ turn[t].at = "replying"
  /\ turn' = TurnAt(t, "kicking")
  /\ UNCHANGED <<ask, accepting, aInbox, handed>>

(* The inbox of an idle bot becomes the prompt of one follow-up turn. *)
Kicked(b, turns) ==
  IF aInbox[b] = EmptyInbox \/ ActiveTurns(b) # {}
    THEN turn' = turns /\ UNCHANGED <<aInbox, handed>>
    ELSE /\ FreeTurns # {}
         /\ turn' = [turns EXCEPT ![Min(FreeTurns)] = NewTurn(b, aInbox[b].asks)]
         /\ aInbox' = [aInbox EXCEPT ![b] = EmptyInbox]
         /\ handed' = Handed(aInbox[b].replies)

(* _kick_inbox at the end of a turn; a cancelled one leaves the inbox. *)
KickAsks(t) ==
  /\ turn[t].at = "kicking"
  /\ IF turn[t].ended = "cancelled"
       THEN turn' = TurnAt(t, "done") /\ UNCHANGED <<aInbox, handed>>
       ELSE Kicked(turn[t].bot, TurnAt(t, "done"))
  /\ UNCHANGED <<ask, accepting>>

(* The same when the host has started, and when a worker of the bot has ended. *)
KickBot(b) ==
  /\ aInbox[b] # EmptyInbox /\ ActiveTurns(b) = {}
  /\ Kicked(b, turn)
  /\ UNCHANGED <<ask, accepting>>

(* The host exits: turns and questions under way are gone, the rows stay. *)
AsksHostRestarts ==
  /\ accepting' = {}
  /\ turn' = [t \in AskTurns |-> IF turn[t].at = "none" THEN NoTurn ELSE [turn[t] EXCEPT !.at = "done"]]
  /\ UNCHANGED <<ask, aInbox, handed>>

AsksNext ==
  \/ AsksHostRestarts
  \/ \E b, d \in AskBots : AskBot(b, d)
  \/ \E b \in AskBots : OwnerWrites(b) \/ KickBot(b)
  \/ \E a \in Asks : AskAccepted(a) \/ AskRefused(a)
  \/ \E t \in AskTurns :
       \/ AskTurnBegins(t) \/ AskTurnStopped(t) \/ ToolTakesInbox(t) \/ UnknownTurnSettled(t)
       \/ PeekUndelivered(t) \/ DeliverFollowUp(t) \/ DeliverFails(t) \/ KickAsks(t)
       \/ \E status \in {"over", "cancelled", "unknown"} : AskTurnEnds(t, status)

AsksSpec == AsksInit /\ [][AsksNext]_askVars

(* deliver_bot_ask_follow_up: "Mark the ask delivered only with an inbox item or a        *)
(* follow-up run": a reply is in the inbox of the bot that asked or was given to one turn *)
(* of it exactly when its question is delivered, however turns, tools and exits fall.     *)
ReplyKeptOnce ==
  \A a \in Asks :
    handed[a] + Cardinality({b \in AskBots : a \in aInbox[b].replies}) = IF ask[a].delivered THEN 1 ELSE 0

(* Why: a question that is asked, accepted or bound is one bot's for another, and a turn *)
(* that has begun is a bot's; what is bound to a turn was asked of the turn's bot.       *)
AskFacts ==
  /\ \A a \in Asks : ask[a] = NoAsk \/ (ask[a].from \in AskBots /\ ask[a].to \in AskBots)
  /\ \A a \in accepting : ask[a] # NoAsk
  /\ \A t \in AskTurns : turn[t].at # "none" => turn[t].bot \in AskBots
  /\ \A a \in Asks : ask[a].run # 0 => turn[ask[a].run].at # "none"

(* ... and a reply is with the bot that asked, in its inbox or in a turn of it, from the *)
(* step that marks the question delivered on.                                            *)
ReplyFacts ==
  /\ \A a \in Asks : handed[a] \in {0, 1} /\ (handed[a] = 1 => ask[a].delivered)
  /\ \A a \in Asks, b \in AskBots :
       a \in aInbox[b].replies <=> ask[a].delivered /\ handed[a] = 0 /\ b = ask[a].from

(* README: "the other bot works in its own thread and only its last message comes back": *)
(* the reply of a question is of a turn that was asked this question.                    *)
ReplyAnswersItsQuestion ==
  \A a \in Asks : ask[a].delivered => a \in turn[ask[a].run].text
=============================================================================
