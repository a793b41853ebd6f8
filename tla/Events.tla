------------------------------- MODULE Events -------------------------------
(***************************************************************************)
(* The event hub and the activity log of one thread, and a client that     *)
(* reads the thread's stream, loses it and comes back with a cursor.       *)
(*                                                                         *)
(* An event is a domain change with an activity row: the row gets its seq  *)
(* when it is inserted, is visible when its transaction commits, and the   *)
(* event goes to the hub after that, from the loop or from a tool thread.  *)
(***************************************************************************)
EXTENDS Integers, Sequences, FiniteSets, FiniteSetsExt, SequencesExt

CONSTANTS
  MaxEvts,      \* bound: events
  BufferSize,   \* EventHub.buffer_size
  QueueSize,    \* the queue of a subscriber
  ReplayLimit,  \* ACTIVITY_REPLAY_LIMIT
  RetainCount,  \* DEFAULT_ACTIVITY_RETENTION
  MaxDrops      \* bound: broken streams and exits of the host

ASSUME EventsAssumption ==
  /\ MaxEvts \in Nat /\ BufferSize \in Nat \ {0} /\ QueueSize \in Nat \ {0}
  /\ ReplayLimit \in Nat \ {0} /\ RetainCount \in Nat \ {0} /\ MaxDrops \in Nat

Evts == 1..MaxEvts

VARIABLES
  evt,        \* where an event is on its way to the hub
  logRows,       \* seqs in the activity table
  buf,        \* EventHub._buf
  puts,       \* puts a tool thread has scheduled on the loop
  stream,     \* the generator of the client's stream: where, its queue, what it replays
  client,     \* mode of its cursor, the cursors, whether a refresh is under way
  known,      \* events the client has seen
  lost,       \* events given up: dropped from a full queue, or gone from the buffer
              \* when a client without a cursor came
  drops

eventVars == <<evt, logRows, buf, puts, stream, client, known, lost, drops>>

Off == [at |-> "off", queue |-> <<>>, replay |-> <<>>]
Visible == {e \in Evts : evt[e] \in {"committed", "published"}}

(* Events, buffers, queues and cursors are of their types and within their sizes. *)
EventsTypeOK ==
  /\ evt \in [Evts -> {"none", "inserted", "committed", "published"}]
  /\ logRows \subseteq Visible
  /\ buf \in Seq(Evts) /\ Len(buf) <= BufferSize
  /\ puts \in Seq(Evts)
  /\ stream \in [at : {"off", "refresh", "opened", "durable", "replaying", "live"},
                 queue : Seq(Evts), replay : Seq(Evts)]
  /\ Len(stream.queue) <= QueueSize
  /\ client \in [mode : {"evt", "seq"}, after : 0..MaxEvts, seq : -1..MaxEvts,
                 refreshing : BOOLEAN]
  /\ known \subseteq Evts /\ lost \subseteq Evts
  /\ drops \in 0..MaxDrops

EventsInit ==
  /\ evt = [e \in Evts |-> "none"]
  /\ logRows = {}
  /\ buf = <<>> /\ puts = <<>>
  /\ stream = Off
  /\ \E mode \in {"evt", "seq"} :
       client = [mode |-> mode, after |-> 0, seq |-> -1, refreshing |-> FALSE]
  /\ known = {} /\ lost = {}
  /\ drops = 0

(***************************************************************************)
(* Writers.                                                                *)
(***************************************************************************)

(* _append_activity_tx: the seq is taken in order, whichever transaction commits first. *)
InsertRow(e) ==
  /\ evt[e] = "none" /\ \A d \in Evts : d < e => evt[d] # "none"
  /\ evt' = [evt EXCEPT ![e] = "inserted"]
  /\ UNCHANGED <<logRows, buf, puts, stream, client, known, lost, drops>>

CommitRow(e) ==
  /\ evt[e] = "inserted"
  /\ evt' = [evt EXCEPT ![e] = "committed"]
  /\ logRows' = logRows \cup {e}
  /\ UNCHANGED <<buf, puts, stream, client, known, lost, drops>>

Attached == stream.at \in {"opened", "replaying", "live"}

(* put: a full queue drops its oldest event. *)
Enqueued(e) ==
  IF Len(stream.queue) < QueueSize THEN Append(stream.queue, e) ELSE Append(Tail(stream.queue), e)
Dropped == IF Len(stream.queue) < QueueSize THEN {} ELSE {Head(stream.queue)} \ known

Buffered(e) == IF Len(buf) < BufferSize THEN Append(buf, e) ELSE Append(Tail(buf), e)

(* publish on the loop: the event is in the queue at once. *)
PublishOnLoop(e) ==
  /\ evt[e] = "committed"
  /\ evt' = [evt EXCEPT ![e] = "published"]
  /\ buf' = Buffered(e)
  /\ stream' = IF Attached THEN [stream EXCEPT !.queue = Enqueued(e)] ELSE stream
  /\ lost' = IF Attached THEN lost \cup Dropped ELSE lost
  /\ UNCHANGED <<logRows, puts, client, known, drops>>

(* publish from a tool thread: the subscribers of the moment get it through the loop. *)
PublishFromThread(e) ==
  /\ evt[e] = "committed"
  /\ evt' = [evt EXCEPT ![e] = "published"]
  /\ buf' = Buffered(e)
  /\ puts' = IF Attached THEN Append(puts, e) ELSE puts
  /\ UNCHANGED <<logRows, stream, client, known, lost, drops>>

LoopPuts ==
  /\ puts # <<>>
  /\ puts' = Tail(puts)
  /\ stream' = [stream EXCEPT !.queue = Enqueued(Head(puts))]
  /\ lost' = lost \cup Dropped
  /\ UNCHANGED <<evt, logRows, buf, client, known, drops>>

(* prune_activity keeps the newest RetainCount rows.  A transaction is assumed to be *)
(* shorter than the time in which that many rows are added.                          *)
PruneActivity ==
  LET kept == {e \in logRows : Cardinality({d \in logRows : d >= e}) <= RetainCount} IN
  /\ \A e \in Evts : evt[e] = "inserted" => \A d \in logRows : d < e
  /\ logRows # kept
  /\ logRows' = kept
  /\ UNCHANGED <<evt, buf, puts, stream, client, known, lost, drops>>

(***************************************************************************)
(* The client connects: refreshThread, then subscribe with its cursor.     *)
(***************************************************************************)

(* refreshThread returns the thread as it is in Postgres. *)
RefreshThread ==
  /\ stream.at = "off"
  /\ stream' = [stream EXCEPT !.at = "refresh"]
  /\ known' = known \cup Visible
  /\ UNCHANGED <<evt, logRows, buf, puts, client, lost, drops>>

(* subscribe registers the queue and sends a first keepalive. *)
Subscribe ==
  /\ stream.at = "refresh" /\ client.seq = -1
  /\ stream' = [Off EXCEPT !.at = "opened"]
  /\ UNCHANGED <<evt, logRows, buf, puts, client, known, lost, drops>>

(* A mutant: an event id the buffer does not have gives an empty replay. *)
HasAnyEvent(e) == TRUE
HasEvent(e) == e \in Range(buf)

(* replay: all of the buffer, or what comes after the event, nothing when it is not there. *)
ReplayAfter(e) ==
  IF e = 0 THEN buf ELSE SubSeq(buf, Min({i \in 1..Len(buf) : buf[i] = e} \cup {Len(buf)}) + 1, Len(buf))

(* The rest of subscribe: a cursor the buffer does not have is a gap, which makes the *)
(* client forget its cursor and refresh beside the stream; otherwise the replay.      *)
HubReplay ==
  /\ stream.at = "opened"
  /\ IF client.after # 0 /\ ~HasEvent(client.after)
       THEN /\ stream' = [stream EXCEPT !.at = "live"]
            /\ client' = [client EXCEPT !.after = 0, !.seq = -1, !.refreshing = TRUE]
            /\ UNCHANGED lost
       ELSE /\ stream' = [stream EXCEPT !.at = "replaying", !.replay = ReplayAfter(client.after)]
            /\ lost' = IF client.after # 0 THEN lost
                       ELSE lost \cup ({e \in Evts : evt[e] = "published"} \ (Range(buf) \cup known))
            /\ UNCHANGED client
  /\ UNCHANGED <<evt, logRows, buf, puts, known, drops>>

(* The client takes an event of the replay, then of the queue, and moves its cursor. *)
Received(e) ==
  /\ known' = known \cup {e}
  /\ client' = [client EXCEPT !.after = e]

ReplayYields ==
  /\ stream.at = "replaying"
  /\ IF stream.replay = <<>>
       THEN stream' = [stream EXCEPT !.at = "live"] /\ UNCHANGED <<client, known>>
       ELSE /\ Received(Head(stream.replay))
            /\ stream' = [stream EXCEPT !.replay = Tail(@)]
  /\ UNCHANGED <<evt, logRows, buf, puts, lost, drops>>

QueueYields ==
  /\ stream.at = "live" /\ stream.queue # <<>>
  /\ Received(Head(stream.queue))
  /\ stream' = [stream EXCEPT !.queue = Tail(@)]
  /\ UNCHANGED <<evt, logRows, buf, puts, lost, drops>>

(* The refresh a gap has started. *)
RefreshEnds ==
  /\ client.refreshing
  /\ client' = [client EXCEPT !.refreshing = FALSE]
  /\ known' = known \cup Visible
  /\ UNCHANGED <<evt, logRows, buf, puts, stream, lost, drops>>

(***************************************************************************)
(* A client with a sequence: the durable replay, then the hub's tail.      *)
(***************************************************************************)

(* It starts from a seq it has seen. *)
ResumeFromSequence(e) ==
  /\ client.mode = "seq" /\ stream.at = "off" /\ e \in known
  /\ client' = [client EXCEPT !.seq = e]
  /\ stream' = [stream EXCEPT !.at = "refresh"]
  /\ UNCHANGED <<evt, logRows, buf, puts, known, lost, drops>>

(* replay_activity: whether the cursor is older than the window. *)
CursorOlder(after) == after > 0 /\ (logRows = {} \/ after < Min(logRows) - 1)

(* ORDER BY seq. *)
InOrder(seqs) ==
  CHOOSE s \in [1..Cardinality(seqs) -> seqs] :
    \A i, j \in 1..Cardinality(seqs) : i < j => s[i] < s[j]

DurableReplay ==
  LET newer == {e \in logRows : e > client.seq} IN
  /\ stream.at = "refresh" /\ client.seq # -1
  /\ IF CursorOlder(client.seq)
       THEN /\ client' = [client EXCEPT !.seq = -1, !.after = 0, !.refreshing = TRUE]
            /\ stream' = [Off EXCEPT !.at = "durable"]
       ELSE /\ stream' = [Off EXCEPT !.at = "durable",
                                     !.replay = SubSeq(InOrder(newer), 1, Min({ReplayLimit, Cardinality(newer)}))]
            /\ UNCHANGED client
  /\ UNCHANGED <<evt, logRows, buf, puts, known, lost, drops>>

(* The records go out before the stream is added to the hub, which replays nothing. *)
DurableYields ==
  /\ stream.at = "durable"
  /\ IF stream.replay = <<>>
       THEN stream' = [stream EXCEPT !.at = "live"] /\ UNCHANGED <<client, known>>
       ELSE /\ known' = known \cup {Head(stream.replay)}
            /\ client' = [client EXCEPT !.seq = Head(stream.replay)]
            /\ stream' = [stream EXCEPT !.replay = Tail(@)]
  /\ UNCHANGED <<evt, logRows, buf, puts, lost, drops>>

(***************************************************************************)
(* Faults.                                                                 *)
(***************************************************************************)

(* The stream breaks, or the host ends it because the device is revoked. *)
StreamBreaks ==
  /\ stream.at # "off" /\ drops < MaxDrops
  /\ drops' = drops + 1
  /\ stream' = Off
  /\ puts' = <<>>
  /\ UNCHANGED <<evt, logRows, buf, client, known, lost>>

(* The host exits: the hub is empty, what was committed and not published never is. *)
HubRestarts ==
  /\ drops < MaxDrops
  /\ drops' = drops + 1
  /\ buf' = <<>> /\ puts' = <<>> /\ stream' = Off
  /\ evt' = [e \in Evts |-> IF evt[e] \in {"none", "inserted"} THEN evt[e] ELSE "published"]
  /\ UNCHANGED <<logRows, client, known, lost>>

EventsNext ==
  \/ \E e \in Evts :
       InsertRow(e) \/ CommitRow(e) \/ PublishOnLoop(e) \/ PublishFromThread(e) \/ ResumeFromSequence(e)
  \/ LoopPuts \/ PruneActivity \/ RefreshThread \/ Subscribe \/ HubReplay \/ ReplayYields \/ QueueYields
  \/ RefreshEnds \/ DurableReplay \/ DurableYields \/ StreamBreaks \/ HubRestarts

EventsSpec == EventsInit /\ [][EventsNext]_eventVars

(***************************************************************************)
(* Properties.                                                             *)
(***************************************************************************)

(* The client's stream is open, nothing is under way to it, and no writer is between its *)
(* commit and its publish.                                                              *)
AtRest ==
  /\ stream.at = "live" /\ stream.queue = <<>> /\ puts = <<>>
  /\ ~client.refreshing
  /\ \A e \in Evts : evt[e] # "committed"

Reader == client.mode = "evt"

F == INSTANCE Feed WITH
       there <- IF Reader THEN Visible ELSE {},
       known <- IF Reader THEN known ELSE {},
       lost <- IF Reader THEN lost ELSE {},
       settled <- Reader /\ AtRest

Published == {e \in Evts : evt[e] = "published"}

(* While the buffer has the client's event it has e too, and later. *)
AfterCursor(e) ==
  client.after \in Range(buf) =>
    \E i, j \in DOMAIN buf : i > j /\ buf[i] = e /\ buf[j] = client.after

(* Why StreamKeepsFeed: until the hub has replayed, what the last refresh did not *)
(* show is behind the client's event in the buffer; from then on it is known,     *)
(* given up or on its way along the stream, unless a refresh is under way.        *)
FeedFacts ==
  Reader =>
    /\ client.seq = -1 /\ stream.at # "durable"
    /\ Range(buf) \cup Range(puts) \cup Range(stream.queue) \cup Range(stream.replay) \subseteq Published
    /\ \A i, j \in DOMAIN buf : buf[i] = buf[j] => i = j
    /\ client.after # 0 => client.after \in known \cap Published
    /\ stream.at # "replaying" => stream.replay = <<>>
    /\ stream.at \in {"refresh", "opened"} => \A e \in Published \ known : AfterCursor(e)
    /\ stream.at \in {"replaying", "live"} /\ ~client.refreshing =>
         Published \subseteq known \cup lost \cup Range(stream.replay) \cup Range(stream.queue) \cup Range(puts)

(* CHANGELOG: "An SSE client that reconnects past a discarded event id gets                *)
(* thread.replay.gap": a client with an event cursor keeps what Feed promises - across     *)
(* broken streams, host restarts, events of threads and of the loop, replays and gaps, it  *)
(* has every event when its stream is at rest, but for a full queue and a first connect.   *)
StreamKeepsFeed == F!FeedSpec

=============================================================================
