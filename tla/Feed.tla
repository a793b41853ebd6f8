-------------------------------- MODULE Feed --------------------------------
(***************************************************************************)
(* What the live thread promises its reader: events are known once and for *)
(* all, an event is given up only openly, and a reader whose stream is at  *)
(* rest (settled) has every event there is, apart from those given up.     *)
(***************************************************************************)
EXTENDS Integers

CONSTANT MaxEvts

VARIABLES
  there,    \* events of the thread
  known,    \* events the reader has seen, in the stream or in a snapshot
  lost,     \* events the stream has given up
  settled   \* the reader's stream is open and has nothing under way

feedVars == <<there, known, lost, settled>>

FeedInit == there = {} /\ known = {} /\ lost = {} /\ settled = FALSE

(* An event happens; or nothing new, while a stream breaks or an event goes along it. *)
Happens ==
  /\ there' \in {there} \cup {there \cup {e} : e \in 1..MaxEvts \ there}
  /\ settled' = FALSE
  /\ UNCHANGED <<known, lost>>

Learns ==
  /\ known' \in {known \cup s : s \in SUBSET there}
  /\ settled' \in {FALSE, there \subseteq known' \cup lost}
  /\ UNCHANGED <<there, lost>>

GivesUp ==
  /\ lost' \in {lost \cup s : s \in SUBSET there}
  /\ settled' \in {FALSE, there \subseteq known \cup lost'}
  /\ UNCHANGED <<there, known>>

FeedNext == Happens \/ Learns \/ GivesUp

FeedSpec == FeedInit /\ [][FeedNext]_feedVars
=============================================================================
