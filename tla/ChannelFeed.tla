---------------------------- MODULE ChannelFeed ----------------------------
(***************************************************************************)
(* The event bus of the channels (src/astromesh/channels/event_bus.py) and *)
(* the streams that show it, GET /v1/channels/events                       *)
(* (src/astromesh/api/routes/agent_channels.py).                           *)
(*                                                                         *)
(* The bus keeps the last events in a ring and hands every event to a      *)
(* queue per stream.  A stream first shows the ring as it was when it      *)
(* began, then its queue.  An event is the number of its emission; the     *)
(* filter of a stream on the name of an agent is left out.                 *)
(***************************************************************************)
EXTENDS Integers, Sequences

CONSTANTS
  Client,       \* the streams
  BufferSize,   \* buffer_size of the bus
  QueueSize     \* maxsize of the queue of a stream

ASSUME FeedAssumption == BufferSize \in Nat \ {0} /\ QueueSize \in Nat \ {0}

VARIABLES
  feed,     \* channel_event_bus: the events emitted so far, and its _buffer
  client    \* generate() of a stream

feedVars == <<feed, client>>

\* from + 1, ..., to
Interval(from, to) == [i \in 1 .. to - from |-> from + i]

Lesser(m, n) == IF m < n THEN m ELSE n

Feeds == [emitted : Nat, buffer : Seq(Nat)]

Streams ==
  [on : BOOLEAN,
   replay : Seq(Nat),     \* what is left of the snapshot
   queue : Seq(Nat),      \* q
   last : Nat,            \* history: the last event shown, or the one before the snapshot
   dropped : BOOLEAN]     \* history: an event found the queue full

Off == [on |-> FALSE, replay |-> <<>>, queue |-> <<>>, last |-> 0, dropped |-> FALSE]

FeedInit ==
  /\ feed = [emitted |-> 0, buffer |-> <<>>]
  /\ client = [c \in Client |-> Off]

-----------------------------------------------------------------------------
\* deque(maxlen): the newest BufferSize.
Newest(s) == SubSeq(s, Len(s) - Lesser(Len(s), BufferSize) + 1, Len(s))

\* put_nowait, event by event: a full queue refuses the new one.
Put(k, new) ==
  LET room == QueueSize - Len(k.queue) IN
  [k EXCEPT !.queue = @ \o SubSeq(new, 1, Lesser(room, Len(new))),
            !.dropped = @ \/ Len(new) > room]

\* n calls of ChannelEventBus.emit with nothing in between.
Emit(n) ==
  LET new == Interval(feed.emitted, feed.emitted + n) IN
  /\ feed' = [emitted |-> feed.emitted + n, buffer |-> Newest(feed.buffer \o new)]
  /\ client' = [c \in Client |-> IF client[c].on THEN Put(client[c], new) ELSE client[c]]

\* Fault: the queue begins with the events of the ring.
BeganTwice == [Off EXCEPT !.on = TRUE, !.replay = feed.buffer, !.queue = feed.buffer,
                          !.last = feed.emitted - Len(feed.buffer)]

\* new_subscriber_queue and get_buffer_snapshot: no event comes in between.
Began == [Off EXCEPT !.on = TRUE, !.replay = feed.buffer,
                     !.last = feed.emitted - Len(feed.buffer)]

Connect(c) ==
  /\ ~client[c].on
  /\ client' = [client EXCEPT ![c] = Began]
  /\ UNCHANGED feed

\* One event goes out: of the snapshot while there is one, then of the queue.
Show(c) ==
  /\ client[c].on
  /\ \/ /\ client[c].replay # <<>>
        /\ client' = [client EXCEPT ![c].replay = Tail(@), ![c].last = Head(client[c].replay)]
     \/ /\ client[c].replay = <<>> /\ client[c].queue # <<>>
        /\ client' = [client EXCEPT ![c].queue = Tail(@), ![c].last = Head(client[c].queue)]
  /\ UNCHANGED feed

\* The client goes, or nothing came for a while: remove_subscriber.  What is
\* in the queue is thrown away.
Leave(c) ==
  /\ client[c].on
  /\ client' = [client EXCEPT ![c] = Off]
  /\ UNCHANGED feed

\* The process starts again: the bus and its streams are in memory.
FeedRestart ==
  /\ feed' = [emitted |-> 0, buffer |-> <<>>]
  /\ client' = [c \in Client |-> Off]

FeedNext ==
  \/ FeedRestart
  \/ \E n \in Nat : Emit(n)
  \/ \E c \in Client : Connect(c) \/ Show(c) \/ Leave(c)

FeedSpec == FeedInit /\ [][FeedNext]_feedVars

-----------------------------------------------------------------------------
(* What a stream promises.                                                 *)

FeedTypeOK == feed \in Feeds /\ client \in [Client -> Streams]

Pending(c) == client[c].replay \o client[c].queue

Increasing(s, from) ==
  \A i \in 1 .. Len(s) : s[i] > from /\ \A j \in 1 .. i - 1 : s[j] < s[i]

(* A stream shows events in the order of their emission and none twice,    *)
(* also where the snapshot ends and the queue begins; unless its queue was *)
(* full once, what it has still to show is everything since the last one   *)
(* it showed, up to now.                                                   *)
StreamExact ==
  \A c \in Client : client[c].on =>
    /\ Increasing(Pending(c), client[c].last)
    /\ ~client[c].dropped => Pending(c) = Interval(client[c].last, feed.emitted)

=============================================================================
