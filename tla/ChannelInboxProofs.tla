------------------------- MODULE ChannelInboxProofs -------------------------
(***************************************************************************)
(* Proofs about ChannelFeed and ChannelInbox, for any streams, any sizes   *)
(* of the ring and of the queues, any requests and any window: the feed is *)
(* typed, a stream shows what was emitted (StreamExact), the webhook and   *)
(* its tasks do nothing to the feed that the feed does not allow, an       *)
(* answer goes out only when its exchange is in the conversation, and the  *)
(* summary of a session that waits for its answers is exact.               *)
(*                                                                         *)
(* StreamExact speaks of a sequence; what is inductive speaks of the event *)
(* at each place of the ring, the snapshot and the queue: Sound.           *)
(* SummaryExact holds between two messages; what is inductive, PatientInv, *)
(* also says how far the exchange in hand has got.                         *)
(***************************************************************************)
EXTENDS ChannelInbox, SequenceTheorems, FiniteSetTheorems, WellFoundedInduction, TLAPS

\* The ring holds the newest events.
SoundBuffer(f) ==
  /\ Len(f.buffer) <= f.emitted
  /\ \A i \in 1 .. Len(f.buffer) : f.buffer[i] = f.emitted - Len(f.buffer) + i

\* The snapshot goes on where the stream is, and the queue where the snapshot
\* ends, with no gap as long as nothing was dropped.
SoundStream(k, emitted) ==
  LET end == k.last + Len(k.replay) IN
  /\ end <= emitted
  /\ Len(k.queue) <= QueueSize
  /\ \A i \in 1 .. Len(k.replay) : k.replay[i] = k.last + i
  /\ \A i \in 1 .. Len(k.queue) :
       /\ k.queue[i] > end /\ k.queue[i] <= emitted
       /\ \A j \in 1 .. i - 1 : k.queue[j] < k.queue[i]
  /\ ~k.dropped => /\ Len(k.queue) = emitted - end
                   /\ \A i \in 1 .. Len(k.queue) : k.queue[i] = end + i

IInv ==
  /\ FeedTypeOK
  /\ SoundBuffer(feed)
  /\ \A c \in Client : client[c].on => SoundStream(client[c], feed.emitted)

-----------------------------------------------------------------------------
(* The operators on sequences.                                             *)

LEMMA IntervalType ==
  ASSUME NEW m \in Nat, NEW n \in Nat, m <= n
  PROVE  /\ Interval(m, n) \in Seq(Nat)
         /\ Len(Interval(m, n)) = n - m
         /\ \A i \in 1 .. n - m : Interval(m, n)[i] = m + i
<1>1. n - m \in Nat
  OBVIOUS
<1>2. Interval(m, n) = [i \in 1 .. n - m |-> m + i]
  BY DEF Interval
<1>3. \A i \in 1 .. n - m : m + i \in Nat
  OBVIOUS
<1>4. Interval(m, n) \in Seq(Nat) /\ Len(Interval(m, n)) = n - m
  BY <1>1, <1>2, <1>3, IsASeq
<1> QED
  BY <1>2, <1>4

LEMMA NextEvents ==
  ASSUME NEW e \in Nat, NEW n \in Nat
  PROVE  /\ Interval(e, e + n) \in Seq(Nat)
         /\ Len(Interval(e, e + n)) = n
         /\ \A i \in 1 .. n : Interval(e, e + n)[i] = e + i
<1> DEFINE to == e + n
<1>1. to \in Nat /\ e <= to /\ to - e = n
  OBVIOUS
<1> HIDE DEF to
<1>2. /\ Interval(e, to) \in Seq(Nat)
      /\ Len(Interval(e, to)) = to - e
      /\ \A i \in 1 .. to - e : Interval(e, to)[i] = e + i
  BY <1>1, IntervalType
<1> QED
  BY <1>1, <1>2 DEF to

LEMMA NewestType ==
  ASSUME NEW s \in Seq(Nat)
  PROVE  /\ Newest(s) \in Seq(Nat)
         /\ Len(Newest(s)) <= Len(s)
         /\ \A i \in 1 .. Len(Newest(s)) : Newest(s)[i] = s[Len(s) - Len(Newest(s)) + i]
<1> DEFINE k == Lesser(Len(s), BufferSize)
<1>1. Len(s) \in Nat /\ k \in Nat /\ k <= Len(s)
  BY FeedAssumption, LenProperties DEF Lesser
<1>2. \A i \in Len(s) - k + 1 .. Len(s) : s[i] \in Nat
  BY <1>1, ElementOfSeq
<1> HIDE DEF k
<1>3. /\ SubSeq(s, Len(s) - k + 1, Len(s)) \in Seq(Nat)
      /\ Len(SubSeq(s, Len(s) - k + 1, Len(s))) = k
      /\ \A i \in 1 .. k : SubSeq(s, Len(s) - k + 1, Len(s))[i] = s[Len(s) - k + i]
  <2> DEFINE a == Len(s) - k + 1
  <2>1. a \in Int /\ Len(s) \in Int /\ Len(s) - a + 1 = k
    BY <1>1
  <2>2. \A i \in 1 .. k : a + i - 1 = Len(s) - k + i
    BY <1>1
  <2>3. /\ SubSeq(s, a, Len(s)) \in Seq(Nat)
        /\ Len(SubSeq(s, a, Len(s))) = IF a <= Len(s) THEN Len(s) - a + 1 ELSE 0
        /\ \A i \in 1 .. Len(s) - a + 1 : SubSeq(s, a, Len(s))[i] = s[a + i - 1]
    <3> HIDE DEF a
    <3>1. \A i \in a .. Len(s) : s[i] \in Nat
      BY <1>2 DEF a
    <3> QED
      BY <2>1, <3>1, SubSeqProperties
  <2> QED
    BY <1>1, <2>1, <2>2, <2>3
<1> QED
  BY <1>1, <1>3 DEF Newest, k

LEMMA PrefixType ==
  ASSUME NEW s \in Seq(Nat), NEW k \in Nat, k <= Len(s)
  PROVE  /\ SubSeq(s, 1, k) \in Seq(Nat)
         /\ Len(SubSeq(s, 1, k)) = k
         /\ \A i \in 1 .. k : SubSeq(s, 1, k)[i] = s[i]
<1>1. Len(s) \in Nat /\ \A i \in 1 .. k : s[i] \in Nat
  BY LenProperties, ElementOfSeq
<1>2. /\ SubSeq(s, 1, k) \in Seq(Nat)
      /\ Len(SubSeq(s, 1, k)) = IF 1 <= k THEN k - 1 + 1 ELSE 0
      /\ \A i \in 1 .. k - 1 + 1 : SubSeq(s, 1, k)[i] = s[1 + i - 1]
  BY <1>1, SubSeqProperties
<1> QED
  BY <1>2

-----------------------------------------------------------------------------
(* The steps of the feed.                                                  *)

LEMMA InitSound == FeedInit => IInv
<1> SUFFICES ASSUME FeedInit PROVE IInv
  OBVIOUS
<1>1. <<>> \in Seq(Nat) /\ Len(<<>>) = 0
  OBVIOUS
<1>2. Off \in Streams /\ ~Off.on
  BY <1>1 DEF Off, Streams
<1>3. feed \in Feeds /\ feed.emitted = 0 /\ feed.buffer = <<>>
  BY <1>1 DEF FeedInit, Feeds
<1>4. client = [c \in Client |-> Off]
  BY DEF FeedInit
<1> QED
  BY <1>1, <1>2, <1>3, <1>4 DEF IInv, FeedTypeOK, SoundBuffer

LEMMA SoundBufferIntro ==
  ASSUME NEW f, NEW x \in Nat, NEW h \in Nat, f.emitted = x, Len(f.buffer) = h, h <= x,
         \A i \in 1 .. h : f.buffer[i] = x - h + i
  PROVE  SoundBuffer(f)
BY DEF SoundBuffer

LEMMA BufferKept ==
  ASSUME IInv, NEW n \in Nat, Emit(n)
  PROVE  feed' \in Feeds /\ SoundBuffer(feed') /\ feed'.emitted = feed.emitted + n
<1> DEFINE b   == feed.buffer
           e   == feed.emitted
           l   == Len(b)
           new == Interval(e, e + n)
           all == b \o new
           nst == Newest(all)
           h   == Len(nst)
<1>1. b \in Seq(Nat) /\ e \in Nat /\ l \in Nat /\ l <= e
      /\ \A i \in 1 .. l : b[i] = e - l + i
  BY LenProperties DEF IInv, FeedTypeOK, Feeds, SoundBuffer
<1>0. l = Len(b)
  OBVIOUS
<1> HIDE DEF l
<1>2. new \in Seq(Nat) /\ Len(new) = n /\ \A i \in 1 .. n : new[i] = e + i
  <2> HIDE DEF e
  <2>1. e \in Nat
    BY <1>1
  <2> QED
    BY <2>1, NextEvents
<1>3. all \in Seq(Nat) /\ Len(all) = l + n
      /\ \A i \in 1 .. l + n : all[i] = IF i <= l THEN b[i] ELSE new[i - l]
  <2> HIDE DEF b, new
  <2> QED
    BY <1>0, <1>1, <1>2, ConcatProperties
<1>4. \A i \in 1 .. l + n : all[i] = e - l + i
  <2> HIDE DEF b, new, all, e
  <2> SUFFICES ASSUME NEW i \in 1 .. l + n PROVE all[i] = e - l + i
    OBVIOUS
  <2>1. CASE i <= l
    BY <1>1, <1>3, <2>1
  <2>2. CASE i > l
    <3>1. i - l \in 1 .. n
      BY <1>1, <2>2
    <3>2. all[i] = new[i - l]
      BY <1>1, <1>3, <2>2
    <3>3. new[i - l] = e + (i - l)
      BY <1>2, <3>1
    <3> QED
      BY <1>1, <3>2, <3>3
  <2> QED
    BY <1>1, <2>1, <2>2
<1>5. /\ nst \in Seq(Nat) /\ h \in Nat /\ h <= Len(all)
      /\ \A i \in 1 .. h : nst[i] = all[Len(all) - h + i]
  <2> HIDE DEF all
  <2> QED
    BY <1>3, NewestType, LenProperties
<1> HIDE DEF h
<1>6. feed' = [emitted |-> e + n, buffer |-> nst]
  BY DEF Emit
<1>7. \A i \in 1 .. h : nst[i] = e + n - h + i
  <2> HIDE DEF b, new, all, e, nst
  <2> SUFFICES ASSUME NEW i \in 1 .. h PROVE nst[i] = e + n - h + i
    OBVIOUS
  <2> DEFINE j == l + n - h + i
  <2>1. j \in 1 .. l + n
    BY <1>1, <1>3, <1>5
  <2>2. nst[i] = all[j]
    <3>1. nst[i] = all[Len(all) - h + i]
      BY <1>5
    <3>2. Len(all) - h + i = j
      BY <1>1, <1>3, <1>5
    <3> QED
      BY <3>1, <3>2
  <2>3. all[j] = e - l + j
    BY <1>4, <2>1
  <2> QED
    BY <1>1, <1>5, <2>2, <2>3
<1>8. h <= e + n
  <2> HIDE DEF b, new, all, e, nst
  <2> QED
    BY <1>1, <1>3, <1>5
<1>9. e + n \in Nat
  BY <1>1
<1> HIDE DEF nst
<1>10. feed'.emitted = e + n /\ feed'.buffer = nst
  BY <1>6
<1> HIDE DEF e
<1>11. feed' \in Feeds
  BY <1>5, <1>6, <1>9 DEF Feeds
<1>12. SoundBuffer(feed')
  <2>1. Len(feed'.buffer) = h
    BY <1>10 DEF h
  <2> DEFINE x == e + n
  <2>2. x \in Nat /\ h \in Nat /\ h <= x /\ feed'.emitted = x
    BY <1>5, <1>8, <1>9, <1>10
  <2> HIDE DEF x
  <2>3. \A i \in 1 .. h : feed'.buffer[i] = x - h + i
    <3>1. feed'.buffer = nst
      BY <1>10
    <3>2. \A i \in 1 .. h : nst[i] = x - h + i
      BY <1>1, <1>5, <1>7 DEF x
    <3> QED
      BY <3>1, <3>2
  <2> QED
    BY <2>1, <2>2, <2>3, SoundBufferIntro
<1> QED
  BY <1>10, <1>11, <1>12 DEF e

\* A stream whose queue is given events k + 1, ..., k + n.
LEMMA PutKept ==
  ASSUME NEW k \in Streams, NEW e \in Nat, NEW n \in Nat, SoundStream(k, e)
  PROVE  LET put == Put(k, Interval(e, e + n)) IN
         put \in Streams /\ SoundStream(put, e + n) /\ put.on = k.on
<1> DEFINE new  == Interval(e, e + n)
           L    == Len(k.queue)
           room == QueueSize - L
           m    == Lesser(room, Len(new))
           part == SubSeq(new, 1, m)
           q    == k.queue \o part
           put  == Put(k, new)
           end  == k.last + Len(k.replay)
<1>1. /\ k.queue \in Seq(Nat) /\ k.replay \in Seq(Nat) /\ k.last \in Nat /\ k.dropped \in BOOLEAN
      /\ L \in Nat /\ Len(k.replay) \in Nat
  BY LenProperties DEF Streams
<1>0. L = Len(k.queue)
  OBVIOUS
<1> HIDE DEF L
<1>2. new \in Seq(Nat) /\ Len(new) = n /\ \A i \in 1 .. n : new[i] = e + i
  BY NextEvents
<1>3. room \in Nat
  BY <1>0, <1>1, FeedAssumption DEF SoundStream
<1>4. m \in Nat /\ m <= n /\ m <= room /\ (n <= room => m = n)
  <2> HIDE DEF room, new
  <2> QED
    BY <1>2, <1>3 DEF Lesser
<1>5. part \in Seq(Nat) /\ Len(part) = m /\ \A i \in 1 .. m : part[i] = e + i
  <2> HIDE DEF new, m
  <2>1. part \in Seq(Nat) /\ Len(part) = m /\ \A i \in 1 .. m : part[i] = new[i]
    BY <1>2, <1>4, PrefixType
  <2> QED
    BY <1>2, <1>4, <2>1
<1>6. /\ q \in Seq(Nat) /\ Len(q) = L + m
      /\ \A i \in 1 .. L + m :
           q[i] = IF i <= L THEN k.queue[i] ELSE part[i - L]
  <2> HIDE DEF part, m
  <2> QED
    BY <1>0, <1>1, <1>5, ConcatProperties
<1>7. put = [k EXCEPT !.queue = q, !.dropped = k.dropped \/ n > room]
  BY <1>0, <1>2 DEF Put
<1>8. /\ put \in Streams /\ put.on = k.on /\ put.replay = k.replay /\ put.last = k.last
      /\ put.queue = q /\ put.dropped = (k.dropped \/ n > room)
  <2> HIDE DEF q, room, put
  <2> QED
    BY <1>1, <1>6, <1>7 DEF Streams
<1>9. /\ end \in Nat /\ end <= e /\ L <= QueueSize
      /\ \A i \in 1 .. Len(k.replay) : k.replay[i] = k.last + i
      /\ \A i \in 1 .. L : k.queue[i] \in Nat /\ k.queue[i] > end /\ k.queue[i] <= e
      /\ \A i \in 1 .. L : \A j \in 1 .. i - 1 : k.queue[j] < k.queue[i]
      /\ ~k.dropped => /\ L = e - end
                       /\ \A i \in 1 .. L : k.queue[i] = end + i
  BY <1>0, <1>1, ElementOfSeq DEF SoundStream
<1>10. \A i \in 1 .. Len(q) :
         IF i <= L THEN q[i] = k.queue[i] ELSE q[i] = e + (i - L)
  <2> HIDE DEF q, part, m
  <2> SUFFICES ASSUME NEW i \in 1 .. Len(q)
               PROVE  IF i <= L THEN q[i] = k.queue[i] ELSE q[i] = e + (i - L)
    OBVIOUS
  <2>1. i \in 1 .. L + m
    BY <1>6
  <2>2. CASE i <= L
    BY <1>6, <2>1, <2>2
  <2>3. CASE ~(i <= L)
    <3>1. i - L \in 1 .. m
      BY <1>1, <1>4, <2>1, <2>3
    <3> QED
      BY <1>5, <1>6, <2>1, <2>3, <3>1
  <2> QED
    BY <2>2, <2>3
<1>11. Len(q) <= QueueSize /\ Len(q) = L + m
  <2> HIDE DEF q, m
  <2> QED
    BY <1>1, <1>4, <1>6, FeedAssumption
<1>12. \A i \in 1 .. Len(q) : q[i] > end /\ q[i] <= e + n
  <2> HIDE DEF q, m, end
  <2> SUFFICES ASSUME NEW i \in 1 .. Len(q) PROVE q[i] > end /\ q[i] <= e + n
    OBVIOUS
  <2>1. CASE i <= L
    <3>1. i \in 1 .. L /\ q[i] = k.queue[i]
      BY <1>1, <1>10, <2>1
    <3> QED
      BY <1>9, <3>1
  <2>2. CASE ~(i <= L)
    <3>1. q[i] = e + (i - L)
      BY <1>10, <2>2
    <3>2. i - L \in 1 .. m
      BY <1>1, <1>4, <1>11, <2>2
    <3> QED
      BY <1>4, <1>9, <3>1, <3>2
  <2> QED
    BY <2>1, <2>2
<1>13. \A i \in 1 .. Len(q) : \A j \in 1 .. i - 1 : q[j] < q[i]
  <2> HIDE DEF q, m, end
  <2> SUFFICES ASSUME NEW i \in 1 .. Len(q), NEW j \in 1 .. i - 1 PROVE q[j] < q[i]
    OBVIOUS
  <2>0. j \in 1 .. Len(q) /\ i \in Nat /\ j \in Nat /\ j < i
    BY <1>1, <1>4, <1>11
  <2>1. CASE i <= L
    <3>1. i \in 1 .. L /\ q[i] = k.queue[i]
      BY <1>1, <1>10, <2>1
    <3>2. q[j] = k.queue[j]
      BY <1>1, <1>10, <2>0, <2>1
    <3> QED
      BY <1>9, <3>1, <3>2
  <2>2. CASE ~(i <= L) /\ j <= L
    <3>1. j \in 1 .. L /\ q[j] = k.queue[j] /\ q[i] = e + (i - L)
      BY <1>1, <1>10, <2>0, <2>2
    <3>2. k.queue[j] \in Nat /\ k.queue[j] <= e
      BY <1>9, <3>1
    <3> QED
      BY <1>1, <2>0, <2>2, <3>1, <3>2
  <2>3. CASE ~(i <= L) /\ ~(j <= L)
    <3>1. q[i] = e + (i - L) /\ q[j] = e + (j - L)
      BY <1>10, <2>0, <2>3
    <3>2. L \in Nat
      BY <1>1
    <3> QED
      BY <2>0, <3>1, <3>2
  <2> QED
    BY <1>1, <2>0, <2>1, <2>2, <2>3
<1>14. ~put.dropped => /\ Len(q) = e + n - end
                       /\ \A i \in 1 .. Len(q) : q[i] = end + i
  <2> HIDE DEF q, m, end, put, room
  <2> SUFFICES ASSUME ~put.dropped
               PROVE  /\ Len(q) = e + n - end
                      /\ \A i \in 1 .. Len(q) : q[i] = end + i
    OBVIOUS
  <2>1. ~k.dropped /\ n <= room
    <3>1. put.dropped = (k.dropped \/ n > room)
      BY <1>8
    <3>2. ~k.dropped /\ ~(n > room)
      BY <3>1
    <3> QED
      BY <1>3, <3>2
  <2>2. m = n /\ L = e - end
    BY <1>4, <1>9, <2>1
  <2> QED
    BY <1>1, <1>6, <1>9, <1>10, <2>1, <2>2
<1> HIDE DEF q, put, end, room, m, part
<1>15. put \in Streams /\ SoundStream(put, e + n) /\ put.on = k.on
  <2>1. end <= e + n
    BY <1>9
  <2> QED
    BY <1>8, <1>9, <1>11, <1>12, <1>13, <1>14, <2>1 DEF SoundStream, end
<1> QED
  BY <1>15 DEF put, new

LEMMA EmitSound ==
  ASSUME IInv, NEW n \in Nat, Emit(n)
  PROVE  IInv'
<1>1. feed' \in Feeds /\ SoundBuffer(feed') /\ feed'.emitted = feed.emitted + n
  BY BufferKept
<1>2. feed.emitted \in Nat
  BY DEF IInv, FeedTypeOK, Feeds
<1>3. ASSUME NEW c \in Client
      PROVE  client'[c] \in Streams
             /\ (client'[c].on => SoundStream(client'[c], feed.emitted + n))
  <2>1. client[c] \in Streams
    BY DEF IInv, FeedTypeOK
  <2>2. CASE client[c].on
    <3>1. client'[c] = Put(client[c], Interval(feed.emitted, feed.emitted + n))
      BY <2>2 DEF Emit
    <3>2. SoundStream(client[c], feed.emitted)
      BY <2>2 DEF IInv
    <3> QED
      BY <1>2, <2>1, <3>1, <3>2, PutKept
  <2>3. CASE ~client[c].on
    BY <2>1, <2>3 DEF Emit
  <2> QED
    BY <2>2, <2>3
<1>4. client' \in [Client -> Streams]
  <2>1. client' = [c \in Client |-> client'[c]]
    BY DEF Emit
  <2> QED
    BY <1>3, <2>1
<1> QED
  BY <1>1, <1>3, <1>4 DEF IInv, FeedTypeOK

\* A stream that begins now, goes on or has ended is enough.
LEMMA StreamStepSound ==
  ASSUME IInv, NEW c \in Client, NEW k \in Streams,
         k.on => SoundStream(k, feed.emitted),
         client' = [client EXCEPT ![c] = k], feed' = feed
  PROVE  IInv'
<1>1. client \in [Client -> Streams]
  BY DEF IInv, FeedTypeOK
<1>2. client' \in [Client -> Streams]
  BY <1>1
<1>3. \A d \in Client : client'[d] = IF d = c THEN k ELSE client[d]
  BY <1>1
<1>4. \A d \in Client : client'[d].on => SoundStream(client'[d], feed.emitted)
  <2> SUFFICES ASSUME NEW d \in Client, client'[d].on
               PROVE  SoundStream(client'[d], feed.emitted)
    OBVIOUS
  <2>1. CASE d = c
    BY <1>3, <2>1
  <2>2. CASE d # c
    <3>1. client'[d] = client[d]
      BY <1>3, <2>2
    <3> QED
      BY <3>1 DEF IInv
  <2> QED
    BY <2>1, <2>2
<1>5. feed' \in Feeds /\ SoundBuffer(feed')
  BY DEF IInv, FeedTypeOK
<1> QED
  BY <1>2, <1>4, <1>5 DEF IInv, FeedTypeOK

LEMMA OffType == Off \in Streams /\ ~Off.on
BY DEF Off, Streams

LEMMA BeganSound ==
  ASSUME IInv
  PROVE  Began \in Streams /\ SoundStream(Began, feed.emitted)
<1> DEFINE b == feed.buffer
           l == Len(b)
<1>1. b \in Seq(Nat) /\ feed.emitted \in Nat /\ l \in Nat /\ l <= feed.emitted
      /\ \A i \in 1 .. l : b[i] = feed.emitted - l + i
  BY LenProperties DEF IInv, FeedTypeOK, Feeds, SoundBuffer
<1>2. /\ Began.on /\ Began.replay = b /\ Began.queue = <<>>
      /\ Began.last = feed.emitted - l /\ ~Began.dropped
  BY DEF Began, Off
<1> HIDE DEF l
<1>3. feed.emitted - l \in Nat /\ (feed.emitted - l) + l = feed.emitted
  BY <1>1
<1>4. Began \in Streams
  <2>1. Off \in [on : BOOLEAN, replay : Seq(Nat), queue : Seq(Nat), last : Nat, dropped : BOOLEAN]
    BY OffType DEF Streams
  <2>2. feed.buffer \in Seq(Nat) /\ feed.emitted - Len(feed.buffer) \in Nat
    BY <1>1, <1>3 DEF l
  <2> QED
    BY <2>1, <2>2 DEF Began, Streams
<1>5. /\ Began.last = feed.emitted - l /\ Began.replay = b /\ Len(Began.replay) = l
      /\ Began.queue = <<>> /\ Len(Began.queue) = 0
  BY <1>2 DEF l
<1>6. Began.last + Len(Began.replay) = feed.emitted
  BY <1>3, <1>5
<1>7. \A i \in 1 .. Len(Began.replay) : Began.replay[i] = Began.last + i
  BY <1>1, <1>5
<1> QED
  BY <1>1, <1>4, <1>5, <1>6, <1>7, FeedAssumption DEF SoundStream

\* What a stream is after an event of the snapshot, and after one of the queue.
LEMMA ReplaySound ==
  ASSUME NEW k \in Streams, NEW e \in Nat, SoundStream(k, e), k.replay # <<>>
  PROVE  LET n == [k EXCEPT !.replay = Tail(@), !.last = Head(k.replay)] IN
         n \in Streams /\ SoundStream(n, e)
<1> DEFINE r == k.replay
           l == Len(r)
           t == Tail(r)
           n == [k EXCEPT !.replay = t, !.last = Head(r)]
<1>1. r \in Seq(Nat) /\ l \in Nat /\ k.last \in Nat /\ r # <<>>
  BY LenProperties DEF Streams
<1>2. l > 0
  BY <1>1, EmptySeq
<1>3. t \in Seq(Nat) /\ Len(t) = l - 1 /\ Head(r) \in Nat
      /\ \A i \in 1 .. Len(t) : t[i] = r[i + 1]
  BY <1>1, HeadTailProperties
<1>4. \A i \in 1 .. l : r[i] = k.last + i
  BY DEF SoundStream
<1>5. Head(r) = k.last + 1
  <2>1. Head(r) = r[1] /\ 1 \in 1 .. l
    BY <1>1, <1>2
  <2> QED
    BY <1>4, <2>1
<1> HIDE DEF l, t
<1>6. n \in Streams /\ n.replay = t /\ n.last = k.last + 1
      /\ n.queue = k.queue /\ n.dropped = k.dropped
  BY <1>1, <1>3, <1>5 DEF Streams
<1>7. \A i \in 1 .. Len(t) : t[i] = (k.last + 1) + i
  <2> SUFFICES ASSUME NEW i \in 1 .. Len(t) PROVE t[i] = (k.last + 1) + i
    OBVIOUS
  <2>0. i \in 1 .. l - 1
    BY <1>3
  <2>1. i + 1 \in 1 .. l
    BY <1>1, <2>0
  <2>2. t[i] = r[i + 1] /\ r[i + 1] = k.last + (i + 1)
    BY <1>3, <1>4, <2>1
  <2> DEFINE z == k.last
  <2>3. z \in Nat /\ t[i] = z + (i + 1) /\ i \in Int
    BY <1>1, <2>0, <2>2
  <2> HIDE DEF z, t
  <2>4. z + (i + 1) = (z + 1) + i
    BY <2>3
  <2>5. t[i] = (z + 1) + i
    BY <2>3, <2>4
  <2> QED
    BY <2>5 DEF z
<1>8. (k.last + 1) + Len(t) = k.last + l
  BY <1>1, <1>3
<1>9. SoundStream(n, e)
  <2> HIDE DEF n
  <2>1. k.last + Len(k.replay) = n.last + Len(n.replay)
    BY <1>6, <1>8 DEF l
  <2>2. \A i \in 1 .. Len(n.replay) : n.replay[i] = n.last + i
    BY <1>6, <1>7
  <2> QED
    BY <1>6, <2>1, <2>2 DEF SoundStream
<1> QED
  BY <1>6, <1>9 DEF t

LEMMA QueueSound ==
  ASSUME NEW k \in Streams, NEW e \in Nat, SoundStream(k, e), k.replay = <<>>, k.queue # <<>>
  PROVE  LET n == [k EXCEPT !.queue = Tail(@), !.last = Head(k.queue)] IN
         n \in Streams /\ SoundStream(n, e)
<1> DEFINE q == k.queue
           l == Len(q)
           t == Tail(q)
           h == Head(q)
           n == [k EXCEPT !.queue = t, !.last = h]
<1>1. q \in Seq(Nat) /\ l \in Nat /\ k.last \in Nat /\ q # <<>> /\ Len(k.replay) = 0
  BY LenProperties DEF Streams
<1>2. l > 0
  BY <1>1, EmptySeq
<1>3. t \in Seq(Nat) /\ Len(t) = l - 1 /\ h \in Nat /\ h = q[1]
      /\ \A i \in 1 .. Len(t) : t[i] = q[i + 1]
  BY <1>1, HeadTailProperties
<1>4. /\ l <= QueueSize
      /\ \A i \in 1 .. l : q[i] \in Nat /\ q[i] > k.last /\ q[i] <= e
      /\ \A i \in 1 .. l : \A j \in 1 .. i - 1 : q[j] < q[i]
      /\ ~k.dropped => l = e - k.last /\ \A i \in 1 .. l : q[i] = k.last + i
  BY <1>1, ElementOfSeq DEF SoundStream
<1>5. 1 \in 1 .. l /\ \A i \in 1 .. Len(t) : i + 1 \in 1 .. l /\ 1 \in 1 .. (i + 1) - 1
  <2> HIDE DEF l, t
  <2> QED
    BY <1>1, <1>2, <1>3
<1> HIDE DEF l, t, h, q
<1>6. n \in Streams /\ n.queue = t /\ n.last = h /\ n.replay = <<>> /\ n.dropped = k.dropped
      /\ Len(n.replay) = 0
  BY <1>1, <1>3 DEF Streams
<1>7. h <= e /\ (~k.dropped => h = k.last + 1)
  BY <1>3, <1>4, <1>5
<1>8. \A i \in 1 .. Len(t) : t[i] > h /\ t[i] <= e
  <2> SUFFICES ASSUME NEW i \in 1 .. Len(t) PROVE t[i] > h /\ t[i] <= e
    OBVIOUS
  <2>1. q[1] < q[i + 1] /\ q[i + 1] \in Nat /\ q[i + 1] <= e
    BY <1>4, <1>5
  <2> QED
    BY <1>3, <2>1
<1>9. \A i \in 1 .. Len(t) : \A j \in 1 .. i - 1 : t[j] < t[i]
  <2> SUFFICES ASSUME NEW i \in 1 .. Len(t), NEW j \in 1 .. i - 1 PROVE t[j] < t[i]
    OBVIOUS
  <2>1. j \in 1 .. Len(t) /\ j + 1 \in 1 .. (i + 1) - 1
    BY <1>1, <1>3
  <2>2. q[j + 1] < q[i + 1]
    BY <1>4, <1>5, <2>1
  <2> QED
    BY <1>3, <2>1, <2>2
<1>10. ~k.dropped => Len(t) = e - h /\ \A i \in 1 .. Len(t) : t[i] = h + i
  <2> SUFFICES ASSUME ~k.dropped
               PROVE  Len(t) = e - h /\ \A i \in 1 .. Len(t) : t[i] = h + i
    OBVIOUS
  <2>1. Len(t) = e - h
    BY <1>1, <1>3, <1>4, <1>7
  <2>2. ASSUME NEW i \in 1 .. Len(t) PROVE t[i] = h + i
    <3>1. i \in 1 .. l - 1
      BY <1>3
    <3>2. t[i] = q[i + 1] /\ q[i + 1] = k.last + (i + 1) /\ h = k.last + 1
      BY <1>3, <1>4, <1>5, <1>7
    <3> DEFINE z == k.last
    <3>3. z \in Nat /\ i \in Int /\ t[i] = z + (i + 1) /\ h = z + 1
      BY <1>1, <3>1, <3>2
    <3> HIDE DEF z
    <3>4. z + (i + 1) = (z + 1) + i
      BY <3>3
    <3> QED
      BY <3>3, <3>4
  <2> QED
    BY <2>1, <2>2
<1>11. SoundStream(n, e)
  <2> HIDE DEF n
  <2>1. n.last + Len(n.replay) = h /\ Len(n.queue) <= QueueSize
    BY <1>1, <1>3, <1>4, <1>6, FeedAssumption
  <2> QED
    BY <1>6, <1>7, <1>8, <1>9, <1>10, <2>1 DEF SoundStream
<1> QED
  BY <1>6, <1>11 DEF t, h, q

LEMMA NextSound == IInv /\ [FeedNext]_feedVars => IInv'
<1> SUFFICES ASSUME IInv, [FeedNext]_feedVars PROVE IInv'
  OBVIOUS
<1>0. feed.emitted \in Nat /\ \A c \in Client : client[c] \in Streams
  BY DEF IInv, FeedTypeOK, Feeds
<1>1. CASE FeedRestart
  <2>1. FeedInit'
    BY <1>1 DEF FeedRestart, FeedInit
  <2> QED
    BY <2>1, InitSound, PTL
<1>2. ASSUME NEW n \in Nat, Emit(n) PROVE IInv'
  BY <1>2, EmitSound
<1>3. ASSUME NEW c \in Client, Connect(c) PROVE IInv'
  BY <1>3, BeganSound, StreamStepSound DEF Connect
<1>4. ASSUME NEW c \in Client, Show(c) PROVE IInv'
  <2>1. client[c] \in Streams /\ SoundStream(client[c], feed.emitted) /\ feed' = feed
    BY <1>0, <1>4 DEF IInv, Show
  <2>2. CASE /\ client[c].replay # <<>>
             /\ client' = [client EXCEPT ![c].replay = Tail(@), ![c].last = Head(client[c].replay)]
    <3> DEFINE n == [client[c] EXCEPT !.replay = Tail(@), !.last = Head(client[c].replay)]
    <3>1. n \in Streams /\ SoundStream(n, feed.emitted)
      BY <1>0, <2>1, <2>2, ReplaySound
    <3>2. client' = [client EXCEPT ![c] = n]
      BY <2>2
    <3> HIDE DEF n
    <3> QED
      BY <2>1, <3>1, <3>2, StreamStepSound
  <2>3. CASE /\ client[c].replay = <<>> /\ client[c].queue # <<>>
             /\ client' = [client EXCEPT ![c].queue = Tail(@), ![c].last = Head(client[c].queue)]
    <3> DEFINE n == [client[c] EXCEPT !.queue = Tail(@), !.last = Head(client[c].queue)]
    <3>1. n \in Streams /\ SoundStream(n, feed.emitted)
      BY <1>0, <2>1, <2>3, QueueSound
    <3>2. client' = [client EXCEPT ![c] = n]
      BY <2>3
    <3> HIDE DEF n
    <3> QED
      BY <2>1, <3>1, <3>2, StreamStepSound
  <2> QED
    BY <1>4, <2>2, <2>3 DEF Show
<1>5. ASSUME NEW c \in Client, Leave(c) PROVE IInv'
  BY <1>5, OffType, StreamStepSound DEF Leave
<1>6. CASE UNCHANGED feedVars
  BY <1>6 DEF feedVars, IInv, FeedTypeOK
<1> QED
  BY <1>1, <1>2, <1>3, <1>4, <1>5, <1>6 DEF FeedNext

\* What is inductive says what was promised.
LEMMA PendingExact ==
  ASSUME NEW k \in Streams, NEW e \in Nat, SoundStream(k, e)
  PROVE  LET p == k.replay \o k.queue IN
         Increasing(p, k.last) /\ (~k.dropped => p = Interval(k.last, e))
<1> DEFINE r == k.replay
           q == k.queue
           a == Len(r)
           b == Len(q)
           p == r \o q
           z == k.last
<1>1. /\ r \in Seq(Nat) /\ q \in Seq(Nat) /\ a \in Nat /\ b \in Nat /\ z \in Nat
  BY LenProperties DEF Streams
<1>2. /\ z + a <= e
      /\ \A i \in 1 .. a : r[i] = z + i
      /\ \A i \in 1 .. b : q[i] \in Nat /\ q[i] > z + a
      /\ \A i \in 1 .. b : \A j \in 1 .. i - 1 : q[j] < q[i]
      /\ ~k.dropped => /\ b = e - (z + a)
                       /\ \A i \in 1 .. b : q[i] = (z + a) + i
  BY <1>1, ElementOfSeq DEF SoundStream
<1>3. /\ p \in Seq(Nat) /\ Len(p) = a + b
      /\ \A i \in 1 .. a + b : p[i] = IF i <= a THEN r[i] ELSE q[i - a]
  <2>1. a = Len(r) /\ b = Len(q)
    OBVIOUS
  <2> HIDE DEF r, q
  <2> QED
    BY <1>1, <2>1, ConcatProperties
<1> HIDE DEF r, q, a, b, p, z
<1>4. \A i \in 1 .. a : p[i] = z + i
  <2> SUFFICES ASSUME NEW i \in 1 .. a PROVE p[i] = z + i
    OBVIOUS
  <2>1. i \in 1 .. a + b /\ i <= a
    BY <1>1
  <2> QED
    BY <1>2, <1>3, <2>1
<1>5. \A i \in a + 1 .. a + b : i - a \in 1 .. b /\ p[i] = q[i - a]
  <2> SUFFICES ASSUME NEW i \in a + 1 .. a + b PROVE i - a \in 1 .. b /\ p[i] = q[i - a]
    OBVIOUS
  <2>1. i \in 1 .. a + b /\ ~(i <= a) /\ i - a \in 1 .. b
    BY <1>1
  <2> QED
    BY <1>3, <2>1
<1>6. \A i \in 1 .. a + b : i \in 1 .. a \/ i \in a + 1 .. a + b
  BY <1>1
<1>7. ASSUME NEW i \in 1 .. a + b
      PROVE  p[i] > z /\ \A j \in 1 .. i - 1 : p[j] < p[i]
  <2>1. CASE i \in 1 .. a
    <3>1. p[i] = z + i
      BY <1>4, <2>1
    <3>2. ASSUME NEW j \in 1 .. i - 1 PROVE p[j] < p[i]
      <4>1. j \in 1 .. a /\ j < i
        BY <1>1, <2>1
      <4>2. p[j] = z + j
        BY <1>4, <4>1
      <4> QED
        BY <1>1, <2>1, <3>1, <4>1, <4>2
    <3> QED
      BY <1>1, <2>1, <3>1, <3>2
  <2>2. CASE i \in a + 1 .. a + b
    <3>1. p[i] = q[i - a] /\ i - a \in 1 .. b
      BY <1>5, <2>2
    <3>2. p[i] \in Nat /\ p[i] > z + a
      BY <1>2, <3>1
    <3>3. ASSUME NEW j \in 1 .. i - 1 PROVE p[j] < p[i]
      <4>1. CASE j \in 1 .. a
        <5>1. p[j] = z + j /\ j <= a
          BY <1>4, <4>1
        <5> QED
          BY <1>1, <3>2, <4>1, <5>1
      <4>2. CASE j \in a + 1 .. a + b
        <5>1. p[j] = q[j - a] /\ j - a \in 1 .. (i - a) - 1
          BY <1>1, <1>5, <2>2, <4>2
        <5> QED
          BY <1>2, <3>1, <5>1
      <4>3. j \in 1 .. a + b
        BY <1>1
      <4> QED
        BY <1>6, <4>1, <4>2, <4>3
    <3>4. p[i] > z
      BY <1>1, <3>2
    <3> QED
      BY <3>3, <3>4
  <2> QED
    BY <1>6, <2>1, <2>2
<1>8. Increasing(p, z)
  BY <1>3, <1>7 DEF Increasing
<1>9. ASSUME ~k.dropped PROVE p = Interval(z, e)
  <2>1. b = e - (z + a) /\ \A i \in 1 .. b : q[i] = (z + a) + i
    BY <1>2, <1>9
  <2>2. z <= e /\ a + b = e - z
    BY <1>1, <1>2, <2>1
  <2>3. /\ Interval(z, e) \in Seq(Nat) /\ Len(Interval(z, e)) = e - z
        /\ \A i \in 1 .. e - z : Interval(z, e)[i] = z + i
    BY <1>1, <2>2, IntervalType
  <2>4. ASSUME NEW i \in 1 .. a + b PROVE p[i] = z + i
    <3>1. CASE i \in 1 .. a
      BY <1>4, <3>1
    <3>2. CASE i \in a + 1 .. a + b
      <4>1. p[i] = (z + a) + (i - a)
        BY <1>5, <2>1, <3>2
      <4>2. (z + a) + (i - a) = z + i
        BY <1>1, <3>2
      <4> QED
        BY <4>1, <4>2
    <3> QED
      BY <1>6, <3>1, <3>2
  <2> DEFINE v == Interval(z, e)
  <2>5. p \in Seq(Nat) /\ v \in Seq(Nat) /\ Len(p) = Len(v)
    BY <1>3, <2>2, <2>3
  <2>6. \A i \in 1 .. Len(p) : p[i] = v[i]
    BY <1>3, <2>2, <2>3, <2>4
  <2> HIDE DEF v
  <2>7. p = v
    BY <2>5, <2>6, SeqEqual
  <2> QED
    BY <2>7 DEF v
<1> QED
  BY <1>8, <1>9 DEF p, r, q, z

LEMMA SoundExact == IInv => StreamExact
<1> SUFFICES ASSUME IInv, NEW c \in Client, client[c].on
             PROVE  /\ Increasing(Pending(c), client[c].last)
                    /\ ~client[c].dropped => Pending(c) = Interval(client[c].last, feed.emitted)
  BY DEF StreamExact
<1>1. client[c] \in Streams /\ feed.emitted \in Nat /\ SoundStream(client[c], feed.emitted)
  BY DEF IInv, FeedTypeOK, Feeds
<1> QED
  BY <1>1, PendingExact DEF Pending

-----------------------------------------------------------------------------
(* The theorems.                                                           *)

LEMMA FeedSound == FeedSpec => []IInv
BY InitSound, NextSound, PTL DEF FeedSpec

\* The bus and its streams (event_bus.py, agent_channels.py:191-246) keep
\* their types.
THEOREM FeedTyped == FeedSpec => []FeedTypeOK
<1>1. IInv => FeedTypeOK
  BY DEF IInv
<1> QED
  BY <1>1, FeedSound, PTL

\* A stream shows every event once and in order, whatever the sizes of the
\* ring and the queue, and all of them unless its queue was full once.
THEOREM FeedExact == FeedSpec => []StreamExact
BY FeedSound, SoundExact, PTL

-----------------------------------------------------------------------------
(* The webhook and its tasks, seen from the feed.                          *)

\* What a request shows is a number of events.
LEMMA EventsShown ==
  ASSUME NEW batch \in Seq(Message \cup {Notice, Custom}), NEW i \in 0 .. Len(batch)
  PROVE  Cardinality(EventsIn(batch)) \in Nat /\ Cardinality(EventsIn(batch) \cap 1 .. i) \in Nat
<1>1. IsFiniteSet(1 .. Len(batch))
  BY LenProperties, FS_Interval
<1>2. EventsIn(batch) \subseteq 1 .. Len(batch) /\ (EventsIn(batch) \cap 1 .. i) \subseteq 1 .. Len(batch)
  BY DEF EventsIn
<1>3. IsFiniteSet(EventsIn(batch)) /\ IsFiniteSet(EventsIn(batch) \cap 1 .. i)
  BY <1>1, <1>2, FS_Subset
<1> QED
  BY <1>3, FS_CardinalityType

LEMMA BatchType ==
  ASSUME NEW b \in 1 .. Len(Batches)
  PROVE  Batches[b] \in Seq(Message \cup {Notice, Custom})
BY InboxAssumption, ElementOfSeq

LEMMA StepIsFed == [Next]_vars => [FeedNext]_feedVars
<1> SUFFICES ASSUME [Next]_vars PROVE [FeedNext]_feedVars
  OBVIOUS
<1>1. ASSUME NEW d \in Delivery, NEW b \in 1 .. Len(Batches), Accept(d, b)
      PROVE  FeedNext
  <2>1. Cardinality(EventsIn(Batches[b])) \in Nat
    <3>1. Batches[b] \in Seq(Message \cup {Notice, Custom}) /\ 0 \in 0 .. Len(Batches[b])
      BY BatchType, LenProperties
    <3> QED
      BY <3>1, EventsShown
  <2>2. Emit(Cardinality(EventsIn(Batches[b])))
    BY <1>1 DEF Accept
  <2> QED
    BY <2>1, <2>2 DEF FeedNext
<1>2. ASSUME NEW d \in Delivery, NEW b \in 1 .. Len(Batches), Refuse(d, b)
      PROVE  FeedNext
  <2>1. PICK i \in 1 .. Len(Batches[b]) : Emit(Cardinality(EventsIn(Batches[b]) \cap 1 .. i - 1))
    BY <1>2 DEF Refuse
  <2>2. Batches[b] \in Seq(Message \cup {Notice, Custom}) /\ i - 1 \in 0 .. Len(Batches[b])
    BY BatchType, LenProperties
  <2>3. Cardinality(EventsIn(Batches[b]) \cap 1 .. i - 1) \in Nat
    BY <2>2, EventsShown
  <2> QED
    BY <2>1, <2>3 DEF FeedNext
<1>3. ASSUME NEW d \in Delivery, Process(d)
      PROVE  FeedNext \/ UNCHANGED feedVars
  BY <1>3 DEF Process, Run, Ask, SaveUser, SaveAssistant, ReadHistory, ReadSummary, SaveSummary,
              Send, Apologise, QuietFeed, FeedNext
<1>4. ASSUME NEW s \in Session, TurnsExpire(s) \/ SummaryExpires(s) PROVE UNCHANGED feedVars
  BY <1>4 DEF TurnsExpire, SummaryExpires, QuietFeed
<1>5. ASSUME NEW c \in Client, Watch(c) PROVE FeedNext
  BY <1>5 DEF Watch, FeedNext
<1>6. CASE Crash
  BY <1>6 DEF Crash, FeedNext
<1>7. CASE UNCHANGED vars
  BY <1>7 DEF vars, feedVars
<1> QED
  BY <1>1, <1>2, <1>3, <1>4, <1>5, <1>6, <1>7 DEF Next

\* The webhook, its tasks, a crash and a new stream do to the bus only what
\* the bus does by itself (event_bus.py): the inbox implements the feed.
THEOREM InboxImplementsFeed == Spec => FeedSpec
<1>1. Init => FeedInit
  BY DEF Init
<1> QED
  BY <1>1, StepIsFed, PTL DEF Spec, FeedSpec

\* What a stream promises holds under the webhook and its tasks.
THEOREM InboxStreamExact == Spec => []StreamExact
BY InboxImplementsFeed, FeedExact, PTL

-----------------------------------------------------------------------------
(* The requests and the conversations: what the invariants speak of.       *)

Live(k) == k.stage \notin Ended

\* The message at place i of delivery k, and the one being processed.
Msg(k, i) == Batches[k.batch][i]
Cur(k)    == Msg(k, Min(k.left))

\* Delivery k has a message of session s to process at place i.
Waits(k, i, s) == Live(k) /\ i \in k.left /\ From[Msg(k, i)] = s

\* It is the one being processed.
Talks(k, s) == Live(k) /\ From[Cur(k)] = s

\* What is left of a request are messages of it.
Placed(k) ==
  Live(k) =>
    /\ k.batch \in 1 .. Len(Batches)
    /\ k.left # {}
    /\ k.left \subseteq MessagesIn(Batches[k.batch])

IsTyped ==
  /\ memory \in [Session -> Conversations(Turn)]
  /\ delivery \in [Delivery -> Deliveries]
  /\ answered \subseteq Delivery \X Message /\ upsets \in 0 .. MaxUpsets
  /\ \A d \in Delivery : Placed(delivery[d])

\* Of the intervals 1 .. i with i in S, one contains no other.
LEMMA MinIs ==
  ASSUME NEW S \in SUBSET Nat, S # {}
  PROVE  Min(S) \in S /\ \A i \in S : Min(S) <= i
<1> DEFINE B == {1 .. i : i \in S}
<1>1. B \subseteq FiniteSubsetsOf(Nat) /\ B # {}
  <2>1. ASSUME NEW i \in S PROVE 1 .. i \in FiniteSubsetsOf(Nat)
    <3>1. IsFiniteSet(1 .. i) /\ 1 .. i \subseteq Nat
      BY FS_Interval
    <3> QED
      BY <3>1 DEF FiniteSubsetsOf
  <2> QED
    BY <2>1
<1>2. PICK b \in B : \A a \in B : ~(<<a, b>> \in StrictSubsetOrdering(Nat))
  <2> HIDE DEF B
  <2> QED
    BY <1>1, WFMin, FS_StrictSubsetOrderingWellFounded, Zenon
<1>3. PICK x \in S : b = 1 .. x
  OBVIOUS
<1>4. ASSUME NEW i \in S, i < x PROVE FALSE
  <2>1. 1 .. i \in B
    OBVIOUS
  <2>2. x \in 1 .. x /\ x \notin 1 .. i /\ 1 .. i \subseteq 1 .. x /\ 1 .. x \subseteq Nat
    BY <1>4
  <2>3. <<1 .. i, 1 .. x>> \in StrictSubsetOrdering(Nat)
    <3>1. 1 .. i # 1 .. x
      BY <2>2, Zenon
    <3> QED
      BY <2>2, <3>1, Zenon DEF StrictSubsetOrdering
  <2> QED
    BY <1>2, <1>3, <2>1, <2>3
<1>5. \A i \in S : x <= i
  BY <1>4
<1> QED
  BY <1>5 DEF Min

LEMMA CurrentType ==
  ASSUME NEW k \in Deliveries, Placed(k), Live(k)
  PROVE  /\ Min(k.left) \in k.left
         /\ \A i \in k.left : Msg(k, i) \in Message /\ From[Msg(k, i)] \in Session
         /\ Cur(k) \in Message /\ From[Cur(k)] \in Session
         /\ k.batch \in 1 .. Len(Batches)
<1>1. k.left \in SUBSET Nat /\ k.left # {} /\ k.left \subseteq MessagesIn(Batches[k.batch])
  BY DEF Deliveries, Placed
<1>2. Min(k.left) \in k.left
  BY <1>1, MinIs
<1>3. \A i \in k.left : Msg(k, i) \in Message
  BY <1>1 DEF MessagesIn, Msg
<1>4. \A i \in k.left : From[Msg(k, i)] \in Session
  BY <1>3, InboxAssumption
<1> QED
  BY <1>2, <1>3, <1>4 DEF Cur, Placed

-----------------------------------------------------------------------------
(* The operators on a conversation.                                        *)

\* How many of n turns are outside the window.
Before(n) == IF n > MaxTurns THEN n - MaxTurns ELSE 0

\* Of the first k turns, those neither the summary nor one that expired holds.
Unfolded(m, k) == {i \in 1 .. k : ~InSeq(m.turns[i], m.summary) /\ m.turns[i] \notin m.gone}

\* The summary is exact but for the last u turns, which an exchange that has
\* not ended saved.
Exact(m, u) ==
  /\ NoRepeat(m.turns) /\ NoRepeat(m.summary)
  /\ \A i \in 1 .. Len(m.turns) : i > Before(Len(m.turns) - u) => ~InSeq(m.turns[i], m.summary)
  /\ Cardinality(Unfolded(m, Before(Len(m.turns) - u))) <= m.missed

Has(m, turn) == InSeq(turn, m.turns) \/ InSeq(turn, m.summary) \/ turn \in m.gone

\* What follows k in the turns of m is there in those of n.
Keeps(m, n) ==
  /\ Len(m.turns) <= Len(n.turns)
  /\ \A i \in 1 .. Len(m.turns) : n.turns[i] = m.turns[i]

LEMMA ConversationType ==
  ASSUME NEW m \in Conversations(Turn)
  PROVE  /\ m.turns \in Seq(Turn) /\ m.summary \in Seq(Turn) /\ m.missed \in Nat /\ m.gone \in SUBSET Turn
         /\ Len(m.turns) \in Nat /\ Len(m.summary) \in Nat
         /\ \A i \in 1 .. Len(m.turns) : m.turns[i] \in Turn
         /\ \A i \in 1 .. Len(m.summary) : m.summary[i] \in Turn
<1>1. m.turns \in Seq(Turn) /\ m.summary \in Seq(Turn) /\ m.missed \in Nat /\ m.gone \in SUBSET Turn
  BY DEF Conversations
<1> QED
  BY <1>1, LenProperties, ElementOfSeq

LEMMA SavedIs ==
  ASSUME NEW m \in Conversations(Turn), NEW turn \in Turn
  PROVE  LET n == Saved(m, turn) IN
         /\ n \in Conversations(Turn) /\ n.summary = m.summary /\ n.missed = m.missed /\ n.gone = m.gone
         /\ Len(n.turns) = Len(m.turns) + 1 /\ n.turns[Len(m.turns) + 1] = turn
         /\ Keeps(m, n)
<1>1. /\ m.turns \in Seq(Turn) /\ m.summary \in Seq(Turn) /\ m.missed \in Nat /\ Len(m.turns) \in Nat
      /\ m.gone \in SUBSET Turn
  BY ConversationType
<1> DEFINE a == Append(m.turns, turn)
<1>2. /\ a \in Seq(Turn) /\ Len(a) = Len(m.turns) + 1 /\ a[Len(m.turns) + 1] = turn
      /\ \A i \in 1 .. Len(m.turns) : a[i] = m.turns[i]
  BY <1>1, AppendProperties
<1>3. Saved(m, turn) = [m EXCEPT !.turns = a]
  BY DEF Saved
<1> HIDE DEF a
<1>4. [m EXCEPT !.turns = a] = [turns |-> a, summary |-> m.summary, missed |-> m.missed, gone |-> m.gone]
  BY DEF Conversations
<1> QED
  BY <1>1, <1>2, <1>3, <1>4 DEF Keeps, Conversations

LEMMA MissedIs ==
  ASSUME NEW m \in Conversations(Turn), NEW k \in Nat
  PROVE  LET n == Missed(m, k) IN
         /\ n \in Conversations(Turn) /\ n.summary = m.summary /\ n.turns = m.turns
         /\ n.missed = m.missed + k /\ n.gone = m.gone /\ Keeps(m, n)
<1>1. Missed(m, k) = [turns |-> m.turns, summary |-> m.summary, missed |-> m.missed + k, gone |-> m.gone]
  BY DEF Missed, Conversations
<1> QED
  BY <1>1, ConversationType DEF Keeps, Conversations

LEMMA FoldedIs ==
  ASSUME NEW m \in Conversations(Turn), NEW p \in Seq(Turn), NEW q \in Seq(Turn)
  PROVE  LET n == Folded(m, p, q) IN
         /\ n \in Conversations(Turn) /\ n.turns = m.turns /\ n.missed = m.missed /\ n.gone = m.gone
         /\ n.summary = p \o q /\ Keeps(m, n)
<1> DEFINE c == p \o q
<1>1. c \in Seq(Turn)
  BY ConcatProperties
<1>2. Folded(m, p, q) = [m EXCEPT !.summary = c]
  BY DEF Folded
<1> HIDE DEF c
<1>3. [m EXCEPT !.summary = c] = [turns |-> m.turns, summary |-> c, missed |-> m.missed, gone |-> m.gone]
  BY DEF Conversations
<1>4. /\ Folded(m, p, q) \in Conversations(Turn) /\ Folded(m, p, q).turns = m.turns
      /\ Folded(m, p, q).missed = m.missed /\ Folded(m, p, q).summary = c /\ Folded(m, p, q).gone = m.gone
  BY <1>1, <1>2, <1>3, ConversationType DEF Conversations
<1>5. Keeps(m, Folded(m, p, q))
  BY <1>4, ConversationType DEF Keeps
<1> QED
  BY <1>4, <1>5 DEF c

LEMMA TurnsExpiredIs ==
  ASSUME NEW m \in Conversations(Turn)
  PROVE  LET n == TurnsExpired(m) IN
         /\ n \in Conversations(Turn) /\ n.turns = <<>> /\ n.summary = m.summary /\ n.gone = {}
<1> DEFINE none == <<>>
           empty == {}
           kept == m.summary
<1>1. none \in Seq(Turn) /\ empty \in SUBSET Turn /\ kept \in Seq(Turn)
  BY ConversationType
<1>2. /\ NoConversation = [turns |-> none, summary |-> none, missed |-> 0, gone |-> empty]
      /\ TurnsExpired(m) = [NoConversation EXCEPT !.summary = kept]
  BY DEF TurnsExpired, NoConversation
<1> HIDE DEF none, empty, kept
<1>3. TurnsExpired(m) = [turns |-> none, summary |-> kept, missed |-> 0, gone |-> empty]
  BY <1>2
<1>4. /\ TurnsExpired(m) \in Conversations(Turn) /\ TurnsExpired(m).turns = none
      /\ TurnsExpired(m).summary = kept /\ TurnsExpired(m).gone = empty
  BY <1>1, <1>3 DEF Conversations
<1> QED
  BY <1>4 DEF none, empty, kept

LEMMA SummaryExpiredIs ==
  ASSUME NEW m \in Conversations(Turn)
  PROVE  LET n == SummaryExpired(m) IN
         /\ n \in Conversations(Turn) /\ n.turns = m.turns /\ n.summary = <<>> /\ n.missed = m.missed
         /\ \A t : t \in n.gone <=> t \in m.gone \/ InSeq(t, m.summary)
         /\ Keeps(m, n)
<1> DEFINE held == {m.summary[i] : i \in DOMAIN m.summary}
           gone == m.gone \cup held
           none == <<>>
<1>1. /\ m.turns \in Seq(Turn) /\ m.summary \in Seq(Turn) /\ m.missed \in Nat /\ m.gone \in SUBSET Turn
      /\ Len(m.turns) \in Nat
  BY ConversationType
<1>2. DOMAIN m.summary = 1 .. Len(m.summary)
  BY <1>1, LenProperties
<1>3. \A t : t \in held <=> InSeq(t, m.summary)
  BY <1>2 DEF InSeq
<1>4. held \in SUBSET Turn
  BY <1>2, ConversationType
<1>5. gone \in SUBSET Turn /\ none \in Seq(Turn)
  BY <1>1, <1>4
<1>6. SummaryExpired(m) = [m EXCEPT !.summary = none, !.gone = gone]
  BY DEF SummaryExpired
<1>7. \A t : t \in gone <=> t \in m.gone \/ InSeq(t, m.summary)
  BY <1>3
<1> HIDE DEF gone, none
<1>9. /\ SummaryExpired(m) \in Conversations(Turn) /\ SummaryExpired(m).turns = m.turns
      /\ SummaryExpired(m).summary = none /\ SummaryExpired(m).missed = m.missed
      /\ SummaryExpired(m).gone = gone
  BY <1>1, <1>5, <1>6 DEF Conversations
<1>10. Keeps(m, SummaryExpired(m))
  BY <1>1, <1>9 DEF Keeps
<1> QED
  BY <1>7, <1>9, <1>10 DEF none

LEMMA LastOfIs ==
  ASSUME NEW s \in Seq(Turn), NEW n \in Nat
  PROVE  LET k == IF Len(s) < n THEN Len(s) ELSE n IN
         /\ LastOf(s, n) \in Seq(Turn) /\ Len(LastOf(s, n)) = k
         /\ \A i \in 1 .. k : LastOf(s, n)[i] = s[Len(s) - k + i]
<1> DEFINE k == IF Len(s) < n THEN Len(s) ELSE n
           a == Len(s) - k + 1
<1>1. Len(s) \in Nat /\ k \in Nat /\ k <= Len(s) /\ a \in Int /\ Len(s) - a + 1 = k /\ a >= 1
  BY LenProperties
<1>2. \A i \in a .. Len(s) : s[i] \in Turn
  BY <1>1, ElementOfSeq
<1>3. LastOf(s, n) = SubSeq(s, a, Len(s))
  BY DEF LastOf
<1> HIDE DEF k, a
<1>4. /\ SubSeq(s, a, Len(s)) \in Seq(Turn)
      /\ Len(SubSeq(s, a, Len(s))) = IF a <= Len(s) THEN Len(s) - a + 1 ELSE 0
      /\ \A i \in 1 .. Len(s) - a + 1 : SubSeq(s, a, Len(s))[i] = s[a + i - 1]
  BY <1>1, <1>2, SubSeqProperties
<1>5. \A i \in 1 .. k : a + i - 1 = Len(s) - k + i
  BY <1>1 DEF a
<1>6. /\ LastOf(s, n) \in Seq(Turn) /\ Len(LastOf(s, n)) = k
      /\ \A i \in 1 .. k : LastOf(s, n)[i] = s[Len(s) - k + i]
  BY <1>1, <1>3, <1>4, <1>5
<1> QED
  BY <1>6 DEF k

\* What an exchange folds is what left the window since the one before.
LEMMA LeavingIs ==
  ASSUME NEW m \in Conversations(Turn)
  PROVE  LET a == Before(Len(m.turns) - 2)
             b == Before(Len(m.turns)) IN
         /\ a \in Nat /\ b \in Nat /\ a <= b /\ b <= Len(m.turns)
         /\ Leaving(m) \in Seq(Turn) /\ Len(Leaving(m)) = b - a
         /\ \A i \in 1 .. b - a : Leaving(m)[i] = m.turns[a + i]
<1> DEFINE n == Len(m.turns)
           a == Before(n - 2)
           b == Before(n)
           h == LastOf(m.turns, MaxTurns + 2)
           k == IF n < MaxTurns + 2 THEN n ELSE MaxTurns + 2
<1>1. n \in Nat /\ m.turns \in Seq(Turn) /\ MaxTurns \in Nat \ {0}
  BY ConversationType, MemoryAssumption
<1>2. h \in Seq(Turn) /\ Len(h) = k /\ \A i \in 1 .. k : h[i] = m.turns[n - k + i]
  <2>1. MaxTurns + 2 \in Nat
    BY <1>1
  <2> QED
    BY <1>1, <2>1, LastOfIs
<1>3. a \in Nat /\ b \in Nat /\ a <= b /\ b <= n
  BY <1>1 DEF Before
<1>4. k - MaxTurns \in Int /\ k - MaxTurns <= k /\ (k > MaxTurns => k - MaxTurns = b - a /\ n - k = a)
      /\ (k <= MaxTurns => b = 0 /\ a = 0)
  <2> HIDE DEF n
  <2> QED
    BY <1>1 DEF Before
<1>5. Leaving(m) = SubSeq(h, 1, k - MaxTurns)
  BY <1>2 DEF Leaving
<1> HIDE DEF n, h, k, a, b
<1>6. /\ SubSeq(h, 1, k - MaxTurns) \in Seq(Turn)
      /\ Len(SubSeq(h, 1, k - MaxTurns)) = IF 1 <= k - MaxTurns THEN k - MaxTurns - 1 + 1 ELSE 0
      /\ \A i \in 1 .. k - MaxTurns - 1 + 1 : SubSeq(h, 1, k - MaxTurns)[i] = h[1 + i - 1]
  <2>1. \A i \in 1 .. k - MaxTurns : h[i] \in Turn
    BY <1>1, <1>2, <1>4, ElementOfSeq
  <2> QED
    BY <1>4, <2>1, SubSeqProperties
<1>7. Len(Leaving(m)) = b - a
  BY <1>1, <1>4, <1>5, <1>6 DEF k
<1>8. ASSUME NEW i \in 1 .. b - a PROVE Leaving(m)[i] = m.turns[a + i]
  <2>1. k > MaxTurns /\ k - MaxTurns = b - a /\ n - k = a
    BY <1>1, <1>3, <1>4, <1>8 DEF k
  <2>2. Leaving(m)[i] = h[i]
    BY <1>1, <1>5, <1>6, <2>1
  <2>3. h[i] = m.turns[n - k + i]
    BY <1>1, <1>2, <2>1 DEF k
  <2> QED
    BY <2>1, <2>2, <2>3
<1> QED
  BY <1>3, <1>5, <1>6, <1>7, <1>8 DEF a, b, n

-----------------------------------------------------------------------------
(* What the steps of an exchange do to a summary that is exact.            *)

LEMMA UnfoldedFinite ==
  ASSUME NEW m, NEW k \in Int
  PROVE  IsFiniteSet(Unfolded(m, k)) /\ Cardinality(Unfolded(m, k)) \in Nat
<1>1. IsFiniteSet(1 .. k)
  BY FS_Interval
<1>2. Unfolded(m, k) \subseteq 1 .. k
  BY DEF Unfolded
<1> QED
  BY <1>1, <1>2, FS_Subset, FS_CardinalityType

\* Of j more turns, at most j are not folded.
LEMMA MoreUnfolded ==
  ASSUME NEW m, NEW k \in Nat, NEW j \in Nat
  PROVE  Cardinality(Unfolded(m, k + j)) <= Cardinality(Unfolded(m, k)) + j
<1> DEFINE more == k + 1 .. k + j
           U == Unfolded(m, k)
           V == Unfolded(m, k + j)
<1>1. IsFiniteSet(more) /\ Cardinality(more) = j
  BY FS_Interval
<1>2. IsFiniteSet(U) /\ Cardinality(U) \in Nat
  BY UnfoldedFinite
<1>3. V \subseteq U \cup more
  BY DEF Unfolded
<1> HIDE DEF more, U, V
<1>4. IsFiniteSet(U \cup more) /\ Cardinality(U \cup more) = Cardinality(U) + Cardinality(more) - Cardinality(U \cap more)
  BY <1>1, <1>2, FS_Union
<1>5. Cardinality(U \cap more) \in Nat
  BY <1>2, FS_Intersection, FS_CardinalityType
<1>6. Cardinality(V) <= Cardinality(U \cup more)
  BY <1>3, <1>4, FS_Subset
<1>7. Cardinality(V) \in Nat
  BY <1>3, <1>4, FS_Subset, FS_CardinalityType
<1>8. Cardinality(V) <= Cardinality(U) + j
  BY <1>1, <1>2, <1>4, <1>5, <1>6, <1>7
<1> QED
  BY <1>8 DEF U, V

\* Turns that will not be made up for are counted.
LEMMA ExactMissed ==
  ASSUME NEW m \in Conversations(Turn), NEW u \in Nat, NEW v \in Nat, v <= u, Exact(m, u)
  PROVE  Exact(Missed(m, u - v), v)
<1> DEFINE n == Missed(m, u - v)
           l == Len(m.turns)
           a == Before(l - u)
           b == Before(l - v)
<1>1. l \in Nat /\ MaxTurns \in Nat
  BY ConversationType, MemoryAssumption
<1>2. a \in Nat /\ b \in Nat /\ a <= b /\ b - a \in Nat /\ b - a <= u - v
  <2> HIDE DEF l
  <2> QED
    BY <1>1 DEF Before
<1>3. /\ n.summary = m.summary /\ n.turns = m.turns /\ n.missed = m.missed + (u - v) /\ m.missed \in Nat
      /\ n.gone = m.gone
  <2>1. u - v \in Nat
    OBVIOUS
  <2> QED
    BY <2>1, MissedIs, ConversationType
<1> HIDE DEF n, l, a, b
<1>4. NoRepeat(n.turns) /\ NoRepeat(n.summary)
  BY <1>3 DEF Exact
<1>5. \A i \in 1 .. l : i > a => ~InSeq(m.turns[i], m.summary)
  BY DEF Exact, l, a
<1>6. \A i \in 1 .. Len(n.turns) : i > b => ~InSeq(n.turns[i], n.summary)
  BY <1>1, <1>2, <1>3, <1>5 DEF l
<1>7. Cardinality(Unfolded(n, b)) <= n.missed
  <2>1. Unfolded(n, b) = Unfolded(m, b)
    BY <1>3 DEF Unfolded
  <2>2. Cardinality(Unfolded(m, a)) <= m.missed
    BY DEF Exact, l, a
  <2>3. Cardinality(Unfolded(m, a + (b - a))) <= Cardinality(Unfolded(m, a)) + (b - a)
    BY <1>2, MoreUnfolded
  <2>4. a + (b - a) = b
    BY <1>2
  <2>5. Cardinality(Unfolded(m, a)) \in Nat /\ Cardinality(Unfolded(m, b)) \in Nat
    BY <1>2, UnfoldedFinite
  <2>6. Cardinality(Unfolded(m, b)) <= Cardinality(Unfolded(m, a)) + (b - a)
    BY <2>3, <2>4
  <2> QED
    BY <1>2, <1>3, <2>1, <2>2, <2>5, <2>6
<1>8. Exact(n, v)
  BY <1>3, <1>4, <1>6, <1>7 DEF Exact, l, b
<1> QED
  BY <1>8 DEF n

\* A turn is saved that the conversation does not hold.
LEMMA ExactSaved ==
  ASSUME NEW m \in Conversations(Turn), NEW turn \in Turn, ~Has(m, turn),
         NEW u \in Nat, Exact(m, u)
  PROVE  Exact(Saved(m, turn), u + 1)
<1> DEFINE n == Saved(m, turn)
           l == Len(m.turns)
           a == Before(l - u)
<1>1. l \in Nat /\ MaxTurns \in Nat
  BY ConversationType, MemoryAssumption
<1>2. /\ n.summary = m.summary /\ n.missed = m.missed /\ n.gone = m.gone
      /\ Len(n.turns) = l + 1 /\ n.turns[l + 1] = turn
      /\ \A i \in 1 .. l : n.turns[i] = m.turns[i]
  BY SavedIs DEF Keeps
<1>3. a \in Nat /\ a <= l /\ Before((l + 1) - (u + 1)) = a
  <2> HIDE DEF l
  <2>1. (l + 1) - (u + 1) = l - u
    BY <1>1
  <2> QED
    BY <1>1, <2>1 DEF Before
<1>4. \A i \in 1 .. l : i > a => ~InSeq(m.turns[i], m.summary)
  BY DEF Exact
<1>5. NoRepeat(m.turns) /\ NoRepeat(m.summary) /\ Cardinality(Unfolded(m, a)) <= m.missed
  BY DEF Exact
<1> HIDE DEF n, l, a
<1>6. \A i \in 1 .. l : n.turns[i] # turn
  BY <1>2 DEF Has, InSeq, l
<1>7. NoRepeat(n.turns)
  <2> SUFFICES ASSUME NEW i \in 1 .. l + 1, NEW j \in 1 .. l + 1, n.turns[i] = n.turns[j] PROVE i = j
    BY <1>2 DEF NoRepeat
  <2>1. CASE i \in 1 .. l /\ j \in 1 .. l
    BY <1>2, <1>5, <2>1 DEF NoRepeat, l
  <2>2. CASE i = l + 1 \/ j = l + 1
    BY <1>1, <1>2, <1>6, <2>2
  <2> QED
    BY <1>1, <2>1, <2>2
<1>8. \A i \in 1 .. l + 1 : i > a => ~InSeq(n.turns[i], n.summary)
  <2>1. ~InSeq(turn, m.summary)
    BY DEF Has
  <2> SUFFICES ASSUME NEW i \in 1 .. l + 1, i > a PROVE ~InSeq(n.turns[i], n.summary)
    OBVIOUS
  <2>2. CASE i = l + 1
    BY <1>2, <2>1, <2>2
  <2>3. CASE i \in 1 .. l
    BY <1>2, <1>4, <2>3
  <2> QED
    BY <1>1, <2>2, <2>3
<1>9. Unfolded(n, a) = Unfolded(m, a)
  BY <1>1, <1>2, <1>3 DEF Unfolded
<1>10. Exact(n, u + 1)
  BY <1>2, <1>3, <1>5, <1>7, <1>8, <1>9 DEF Exact
<1> QED
  BY <1>10 DEF n

\* The turns that left the window are folded.
LEMMA ExactFolded ==
  ASSUME NEW m \in Conversations(Turn), Exact(m, 2)
  PROVE  /\ Exact(Folded(m, m.summary, Leaving(m)), 0)
         /\ \A turn : Has(Folded(m, m.summary, Leaving(m)), turn) => Has(m, turn)
<1> DEFINE l == Len(m.turns)
           k == Len(m.summary)
           a == Before(l - 2)
           b == Before(l)
           out == Leaving(m)
           n == Folded(m, m.summary, out)
<1>1. l \in Nat /\ k \in Nat /\ m.summary \in Seq(Turn) /\ m.missed \in Nat
  BY ConversationType
<1>2. /\ a \in Nat /\ b \in Nat /\ a <= b /\ b <= l
      /\ out \in Seq(Turn) /\ Len(out) = b - a /\ \A i \in 1 .. b - a : out[i] = m.turns[a + i]
  BY LeavingIs
<1>3. /\ n.turns = m.turns /\ n.missed = m.missed /\ n.gone = m.gone /\ Len(n.summary) = k + (b - a)
      /\ \A i \in 1 .. k : n.summary[i] = m.summary[i]
      /\ \A i \in k + 1 .. k + (b - a) : n.summary[i] = out[i - k]
  <2> DEFINE p == m.summary
             c == p \o out
  <2>1. n.turns = m.turns /\ n.missed = m.missed /\ n.summary = c /\ n.gone = m.gone
    BY <1>1, <1>2, FoldedIs
  <2>2. p \in Seq(Turn) /\ out \in Seq(Turn) /\ k = Len(p) /\ Len(out) = b - a /\ k \in Nat /\ b - a \in Nat
    BY <1>1, <1>2
  <2> HIDE DEF out, a, b, n, k, p
  <2>3. Len(c) = Len(p) + Len(out)
    BY <2>2, ConcatProperties
  <2>4. \A i \in 1 .. k : c[i] = p[i]
    BY <2>2, ConcatProperties
  <2>5. \A i \in k + 1 .. k + (b - a) : c[i] = out[i - k]
    BY <2>2, ConcatProperties
  <2> HIDE DEF c
  <2>6. Len(n.summary) = k + (b - a)
    BY <2>1, <2>2, <2>3
  <2> QED
    BY <2>1, <2>4, <2>5, <2>6 DEF p
<1>4. /\ NoRepeat(m.turns) /\ NoRepeat(m.summary) /\ Cardinality(Unfolded(m, a)) <= m.missed
      /\ \A i \in 1 .. l : i > a => ~InSeq(m.turns[i], m.summary)
  BY DEF Exact
<1> HIDE DEF l, k, a, b, out, n
\* What the new summary holds, place by place.
<1>5. \A i \in 1 .. k : n.summary[i] = m.summary[i]
  BY <1>3
<1>6. \A i \in k + 1 .. k + (b - a) : /\ n.summary[i] = m.turns[a + (i - k)]
                                     /\ a + (i - k) \in 1 .. l /\ a + (i - k) > a
  <2> SUFFICES ASSUME NEW i \in k + 1 .. k + (b - a)
               PROVE  /\ n.summary[i] = m.turns[a + (i - k)]
                      /\ a + (i - k) \in 1 .. l /\ a + (i - k) > a
    OBVIOUS
  <2>1. i - k \in 1 .. b - a
    BY <1>1, <1>2
  <2>2. n.summary[i] = out[i - k] /\ out[i - k] = m.turns[a + (i - k)]
    BY <1>2, <1>3, <2>1
  <2> QED
    BY <1>1, <1>2, <2>1, <2>2
<1>7. ASSUME NEW i \in 1 .. k + (b - a) PROVE i \in 1 .. k \/ i \in k + 1 .. k + (b - a)
  BY <1>1, <1>2
<1>8. NoRepeat(n.summary)
  <2> SUFFICES ASSUME NEW i \in 1 .. k + (b - a), NEW j \in 1 .. k + (b - a), n.summary[i] = n.summary[j]
               PROVE  i = j
    BY <1>3 DEF NoRepeat
  <2>1. CASE i \in 1 .. k /\ j \in 1 .. k
    BY <1>4, <1>5, <2>1 DEF NoRepeat, k
  <2>2. ASSUME NEW x \in 1 .. k, NEW y \in k + 1 .. k + (b - a) PROVE n.summary[x] # n.summary[y]
    <3>1. ~InSeq(n.summary[y], m.summary)
      BY <1>4, <1>6
    <3> QED
      BY <1>5, <3>1 DEF InSeq, k
  <2>3. CASE i \in k + 1 .. k + (b - a) /\ j \in k + 1 .. k + (b - a)
    <3>1. a + (i - k) = a + (j - k)
      BY <1>4, <1>6, <2>3 DEF NoRepeat, l
    <3> QED
      BY <1>1, <1>2, <3>1
  <2> QED
    BY <1>7, <2>1, <2>2, <2>3
\* A turn folded is a turn of the window's past.
<1>9. ASSUME NEW turn, InSeq(turn, n.summary)
      PROVE  InSeq(turn, m.summary) \/ \E i \in a + 1 .. b : m.turns[i] = turn
  <2>1. PICK i \in 1 .. k + (b - a) : n.summary[i] = turn
    BY <1>3, <1>9 DEF InSeq
  <2>2. CASE i \in 1 .. k
    BY <1>5, <2>1, <2>2 DEF InSeq, k
  <2>3. CASE i \in k + 1 .. k + (b - a)
    <3>1. a + (i - k) \in a + 1 .. b
      BY <1>1, <1>2, <2>3
    <3> QED
      BY <1>6, <2>1, <2>3, <3>1
  <2> QED
    BY <1>7, <2>2, <2>3
<1>10. ASSUME NEW i \in 1 .. l, i > b PROVE ~InSeq(m.turns[i], n.summary)
  <2>1. ~InSeq(m.turns[i], m.summary)
    BY <1>1, <1>2, <1>4, <1>10
  <2>2. ASSUME NEW j \in a + 1 .. b PROVE m.turns[j] # m.turns[i]
    <3>1. j \in 1 .. l /\ j # i
      BY <1>1, <1>2, <1>10
    <3> QED
      BY <1>4, <3>1 DEF NoRepeat, l
  <2> QED
    BY <1>9, <2>1, <2>2
<1>11. Cardinality(Unfolded(n, b)) <= m.missed
  <2>1. ASSUME NEW i \in Unfolded(n, b) PROVE i \in Unfolded(m, a)
    <3>1. i \in 1 .. b /\ ~InSeq(m.turns[i], n.summary) /\ m.turns[i] \notin m.gone
      BY <1>3 DEF Unfolded
    <3>2. ~InSeq(m.turns[i], m.summary)
      <4> SUFFICES ASSUME NEW j \in 1 .. k, m.summary[j] = m.turns[i] PROVE FALSE
        BY DEF InSeq, k
      <4>1. j \in 1 .. Len(n.summary) /\ n.summary[j] = m.turns[i]
        BY <1>1, <1>2, <1>3, <1>5
      <4> QED
        BY <3>1, <4>1 DEF InSeq
    <3>3. CASE i > a
      <4> DEFINE j == k + (i - a)
      <4>1. j \in k + 1 .. k + (b - a) /\ a + (j - k) = i
        BY <1>1, <1>2, <3>1, <3>3
      <4> HIDE DEF j
      <4>2. n.summary[j] = m.turns[i] /\ j \in 1 .. Len(n.summary)
        BY <1>1, <1>2, <1>3, <1>6, <4>1
      <4> QED
        BY <3>1, <4>2 DEF InSeq
    <3>4. CASE i \in 1 .. a
      BY <3>1, <3>2, <3>4 DEF Unfolded
    <3> QED
      BY <1>1, <1>2, <3>1, <3>3, <3>4
  <2>2. IsFiniteSet(Unfolded(m, a)) /\ Cardinality(Unfolded(m, a)) \in Nat /\ Cardinality(Unfolded(n, b)) \in Nat
    BY <1>2, UnfoldedFinite
  <2>3. Cardinality(Unfolded(n, b)) <= Cardinality(Unfolded(m, a))
    BY <2>1, <2>2, FS_Subset
  <2> QED
    BY <1>1, <1>4, <2>2, <2>3
<1>12. Exact(n, 0)
  <2>1. Len(n.turns) - 0 = l /\ Len(n.turns) = l
    BY <1>1, <1>3 DEF l
  <2> QED
    BY <1>3, <1>4, <1>8, <1>10, <1>11, <2>1 DEF Exact, b
<1>13. ASSUME NEW turn, Has(n, turn) PROVE Has(m, turn)
  <2>1. \A i \in a + 1 .. b : i \in 1 .. l
    BY <1>1, <1>2
  <2> QED
    BY <1>3, <1>9, <1>13, <2>1 DEF Has, InSeq, l
<1> QED
  BY <1>12, <1>13 DEF n, out

\* Nothing left the window.
LEMMA ExactInWindow ==
  ASSUME NEW m \in Conversations(Turn), Exact(m, 2), Leaving(m) = <<>>
  PROVE  Exact(m, 0)
<1> DEFINE l == Len(m.turns)
           a == Before(l - 2)
           b == Before(l)
<1>1. l \in Nat /\ MaxTurns \in Nat
  BY ConversationType, MemoryAssumption
<1>2. a \in Nat /\ b \in Nat /\ b - a = 0
  BY LeavingIs
<1>3. a = b /\ l - 0 = l
  BY <1>1, <1>2
<1> QED
  BY <1>3 DEF Exact

LEMMA ExactTurnsExpired ==
  ASSUME NEW m \in Conversations(Turn), Exact(m, 0)
  PROVE  Exact(TurnsExpired(m), 0) /\ \A turn : Has(TurnsExpired(m), turn) => Has(m, turn)
<1> DEFINE n == TurnsExpired(m)
<1>1. n.turns = <<>> /\ Len(n.turns) = 0 /\ n.missed \in Nat /\ n.summary = m.summary /\ n.gone = {}
  BY TurnsExpiredIs, ConversationType
<1> HIDE DEF n
<1>2. NoRepeat(n.turns) /\ NoRepeat(n.summary)
  BY <1>1 DEF Exact, NoRepeat
<1>3. Before(0 - 0) = 0
  BY MemoryAssumption DEF Before
<1>4. Cardinality(Unfolded(n, 0)) = 0
  <2>1. Unfolded(n, 0) = {}
    BY DEF Unfolded
  <2> QED
    BY <2>1, FS_EmptySet
<1>5. Exact(n, 0)
  BY <1>1, <1>2, <1>3, <1>4 DEF Exact
<1>6. ASSUME NEW turn, Has(n, turn) PROVE Has(m, turn)
  BY <1>1, <1>6 DEF Has, InSeq
<1> QED
  BY <1>5, <1>6 DEF n

\* The same turns and no more in the summary, but more that are gone.
LEMMA ExactGone ==
  ASSUME NEW m \in Conversations(Turn), NEW n \in Conversations(Turn), NEW u \in Nat, Exact(m, u),
         n.turns = m.turns, n.missed = m.missed, NoRepeat(n.summary),
         \A t : InSeq(t, n.summary) => InSeq(t, m.summary),
         \A t : InSeq(t, m.summary) \/ t \in m.gone => InSeq(t, n.summary) \/ t \in n.gone
  PROVE  Exact(n, u)
<1> DEFINE b == Before(Len(m.turns) - u)
<1>1. Len(m.turns) \in Nat /\ m.missed \in Nat
  BY ConversationType
<1>2. b \in Int
  <2> DEFINE l == Len(m.turns)
  <2> HIDE DEF l
  <2> QED
    BY <1>1, MemoryAssumption DEF Before, l
<1> HIDE DEF b
<1>3. Unfolded(n, b) \subseteq Unfolded(m, b)
  BY DEF Unfolded
<1>4. IsFiniteSet(Unfolded(m, b)) /\ Cardinality(Unfolded(m, b)) \in Nat /\ Cardinality(Unfolded(n, b)) \in Nat
  BY <1>2, UnfoldedFinite
<1>5. Cardinality(Unfolded(n, b)) <= Cardinality(Unfolded(m, b))
  BY <1>3, <1>4, FS_Subset
<1>6. Cardinality(Unfolded(m, b)) <= m.missed
  BY DEF Exact, b
<1>7. Cardinality(Unfolded(n, b)) <= n.missed
  BY <1>1, <1>4, <1>5, <1>6
<1> QED
  BY <1>7 DEF Exact, b

\* The conversation with another summary.
Resumed(m, p) == [m EXCEPT !.summary = p]

LEMMA ResumedIs ==
  ASSUME NEW m \in Conversations(Turn), NEW p \in Seq(Turn)
  PROVE  LET n == Resumed(m, p) IN
         /\ n \in Conversations(Turn) /\ n.turns = m.turns /\ n.summary = p
         /\ n.missed = m.missed /\ n.gone = m.gone
         /\ Leaving(n) = Leaving(m) /\ \A q : Folded(m, p, q) = Folded(n, p, q)
<1>1. Resumed(m, p) = [turns |-> m.turns, summary |-> p, missed |-> m.missed, gone |-> m.gone]
  BY DEF Resumed, Conversations
<1>2. /\ Resumed(m, p) \in Conversations(Turn) /\ Resumed(m, p).turns = m.turns /\ Resumed(m, p).summary = p
      /\ Resumed(m, p).missed = m.missed /\ Resumed(m, p).gone = m.gone
  BY <1>1, ConversationType DEF Conversations
<1>3. Leaving(Resumed(m, p)) = Leaving(m)
  BY <1>2 DEF Leaving
<1>4. ASSUME NEW q PROVE Folded(m, p, q) = Folded(Resumed(m, p), p, q)
  <2> DEFINE c == p \o q
             n == Resumed(m, p)
  <2>1. Folded(m, p, q) = [m EXCEPT !.summary = c] /\ Folded(n, p, q) = [n EXCEPT !.summary = c]
    BY DEF Folded
  <2> HIDE DEF c, n
  <2>2. n \in Conversations(Turn) /\ n.turns = m.turns /\ n.missed = m.missed /\ n.gone = m.gone
    BY <1>2 DEF n
  <2>3. [m EXCEPT !.summary = c] = [turns |-> m.turns, summary |-> c, missed |-> m.missed, gone |-> m.gone]
    BY DEF Conversations
  <2>4. [n EXCEPT !.summary = c] = [turns |-> n.turns, summary |-> c, missed |-> n.missed, gone |-> n.gone]
    BY <2>2 DEF Conversations
  <2> QED
    BY <2>1, <2>2, <2>3, <2>4 DEF n
<1> QED
  BY <1>2, <1>3, <1>4

LEMMA NoSummary ==
  NoRepeat(<<>>) /\ \A t : ~InSeq(t, <<>>)
BY DEF NoRepeat, InSeq

\* The summary expires, also while a task holds it and is about to save it
\* again.
LEMMA ExactSummaryExpired ==
  ASSUME NEW m \in Conversations(Turn), NEW u \in Nat, Exact(m, u)
  PROVE  /\ Exact(SummaryExpired(m), u) /\ \A turn : Has(SummaryExpired(m), turn) <=> Has(m, turn)
         /\ \A p \in Seq(Turn) : Exact(Resumed(m, p), u) => Exact(Resumed(SummaryExpired(m), p), u)
<1> DEFINE n == SummaryExpired(m)
<1>1. /\ n \in Conversations(Turn) /\ n.turns = m.turns /\ n.summary = <<>> /\ n.missed = m.missed
      /\ \A t : t \in n.gone <=> t \in m.gone \/ InSeq(t, m.summary)
  BY SummaryExpiredIs
<1> HIDE DEF n
<1>2. Exact(n, u)
  BY <1>1, NoSummary, ExactGone
<1>3. \A turn : Has(n, turn) <=> Has(m, turn)
  BY <1>1, NoSummary DEF Has
<1>4. ASSUME NEW p \in Seq(Turn), Exact(Resumed(m, p), u) PROVE Exact(Resumed(n, p), u)
  <2> DEFINE a == Resumed(m, p)
             b == Resumed(n, p)
  <2>1. /\ a \in Conversations(Turn) /\ a.turns = m.turns /\ a.summary = p /\ a.missed = m.missed /\ a.gone = m.gone
        /\ b \in Conversations(Turn) /\ b.turns = n.turns /\ b.summary = p /\ b.missed = n.missed /\ b.gone = n.gone
    BY <1>1, ResumedIs
  <2> HIDE DEF a, b
  <2>2. Exact(a, u)
    BY <1>4 DEF a
  <2>3. NoRepeat(b.summary)
    BY <2>1, <2>2 DEF Exact
  <2>4. Exact(b, u)
    BY <1>1, <2>1, <2>2, <2>3, ExactGone
  <2> QED
    BY <2>4 DEF b
<1> QED
  BY <1>2, <1>3, <1>4 DEF n

-----------------------------------------------------------------------------
(* The steps, by what they do to a request and to a conversation.          *)

\* One step of the exchange that d has in hand: delivery k becomes r, and the
\* conversation n of its session becomes m.
Exchange(d, k, r, n, m) ==
  LET said(role) == <<d, Cur(k), role>> IN
  /\ r.batch = k.batch /\ r.left = k.left
  /\ k.stage # "asking" => r.blocked = k.blocked
  /\ \/ /\ k.stage = "asking" /\ m = n
        /\ \/ r.stage \in {"user", "sorry"} /\ r.blocked = k.blocked
           \/ r.stage = "sending" /\ r.blocked
     \/ /\ k.stage = "user"
        /\ \/ r.stage = "assistant" /\ m = Saved(n, said("user"))
           \/ r.stage = "sorry" /\ (m = n \/ m = Missed(Saved(n, said("user")), 1))
     \/ /\ k.stage = "assistant"
        /\ \/ r.stage = "history" /\ m = Saved(n, said("assistant"))
           \/ r.stage = "sorry" /\ (m = Missed(n, 1) \/ m = Missed(Saved(n, said("assistant")), 2))
     \/ /\ k.stage = "history"
        /\ \/ r.stage = "sending" /\ m = n /\ Leaving(n) = <<>>
           \/ r.stage = "summary" /\ m = n /\ r.leaving = Leaving(n)
           \/ r.stage = "sorry" /\ m = Missed(n, 2)
     \/ /\ k.stage = "summary"
        /\ \/ r.stage = "folding" /\ m = n /\ r.leaving = k.leaving /\ r.previous = n.summary
           \/ r.stage = "sending" /\ m = Missed(n, 2)
     \/ /\ k.stage = "folding" /\ r.stage = "sending"
        /\ m = Folded(n, k.previous, k.leaving) \/ m = Missed(n, 2)
     \/ k.stage = "sending" /\ r.stage = "sorry" /\ m = n

GoesOn(d, r, m) ==
  /\ Live(delivery[d]) /\ r \in Deliveries
  /\ Exchange(d, delivery[d], r, memory[SessionOf(d)], m)
  /\ delivery' = [delivery EXCEPT ![d] = r]
  /\ memory' = [memory EXCEPT ![SessionOf(d)] = m]

\* The next message of the request.
NextOf(k) == Tasks(k.batch, k.left \ {Min(k.left)})

GoesToNext(d) ==
  /\ At(d, {"sending", "sorry"})
  /\ delivery' = [delivery EXCEPT ![d] = NextOf(delivery[d])]
  /\ UNCHANGED memory

\* A request is accepted or refused.
Comes(d, b, k) ==
  /\ NextDelivery(d) /\ MayArrive(b)
  /\ k = Tasks(b, MessagesIn(Batches[b])) \/ k = [NoDelivery EXCEPT !.batch = b, !.stage = "refused"]
  /\ delivery' = [delivery EXCEPT ![d] = k]
  /\ UNCHANGED memory

Expires(s) == TurnsExpire(s) \/ SummaryExpires(s)

Forms ==
  \/ \E d \in Delivery : \E r \in Deliveries, m \in Conversations(Turn) : GoesOn(d, r, m)
  \/ \E d \in Delivery : GoesToNext(d)
  \/ \E d \in Delivery, b \in 1 .. Len(Batches) : \E k \in Deliveries : Comes(d, b, k)
  \/ \E s \in Session : Expires(s)
  \/ Crash
  \/ UNCHANGED <<memory, delivery>>

LEMMA NoDeliveryType == NoDelivery \in Deliveries
<1>1. <<>> \in Seq(Turn) /\ "off" \in Stage /\ 0 \in 0 .. Len(Batches)
  BY InboxAssumption, LenProperties DEF Stage
<1> QED
  BY <1>1 DEF NoDelivery, Deliveries

LEMMA TasksType ==
  ASSUME NEW b \in 1 .. Len(Batches), NEW left \in SUBSET MessagesIn(Batches[b])
  PROVE  LET k == Tasks(b, left) IN
         /\ k \in Deliveries /\ Placed(k) /\ k.batch = b /\ k.left = left /\ k.blocked = FALSE
         /\ k.stage \in {"asking", "done"}
<1> DEFINE stage == IF left = {} THEN "done" ELSE "asking"
           k == [NoDelivery EXCEPT !.batch = b, !.left = left, !.stage = stage]
<1>1. left \in SUBSET Nat
  BY DEF MessagesIn
<1>2. b \in 0 .. Len(Batches)
  BY InboxAssumption, LenProperties
<1>3. stage \in Stage
  BY DEF Stage
<1>4. k = Tasks(b, left)
  BY DEF Tasks
<1>5. k \in Deliveries
  <2> HIDE DEF stage
  <2> QED
    BY <1>1, <1>2, <1>3, NoDeliveryType, Zenon DEF Deliveries
<1>6. k.batch = b /\ k.left = left /\ k.stage = stage /\ k.blocked = NoDelivery.blocked
  <2> HIDE DEF stage
  <2> QED
    BY NoDeliveryType DEF Deliveries
<1>7. NoDelivery.blocked = FALSE
  BY DEF NoDelivery
<1> HIDE DEF k
<1>8. Placed(k)
  BY <1>6 DEF Placed, Live, Ended
<1>9. k.stage \in {"asking", "done"}
  BY <1>6
<1> QED
  BY <1>4, <1>5, <1>6, <1>7, <1>8, <1>9

LEMMA RefusedType ==
  ASSUME NEW b \in 1 .. Len(Batches)
  PROVE  LET k == [NoDelivery EXCEPT !.batch = b, !.stage = "refused"] IN
         k \in Deliveries /\ Placed(k) /\ k.batch = b /\ k.stage = "refused"
<1> DEFINE k == [NoDelivery EXCEPT !.batch = b, !.stage = "refused"]
<1>1. b \in 0 .. Len(Batches) /\ "refused" \in Stage
  BY InboxAssumption, LenProperties DEF Stage
<1>2. k \in Deliveries
  BY <1>1, NoDeliveryType, Zenon DEF Deliveries
<1>3. k.batch = b /\ k.stage = "refused"
  BY NoDeliveryType DEF Deliveries
<1> HIDE DEF k
<1>4. Placed(k)
  BY <1>3 DEF Placed, Live, Ended
<1> QED
  BY <1>2, <1>3, <1>4 DEF k

LEMMA Instances ==
  ASSUME NEW d \in Delivery
  PROVE  /\ Working(d) = Live(delivery[d]) /\ Current(d) = Cur(delivery[d]) /\ SessionOf(d) = From[Cur(delivery[d])]
         /\ \A i : MessageAt(d, i) = Msg(delivery[d], i)
BY DEF Working, Live, Current, Cur, SessionOf, MessageAt, Msg

LEMMA ExchangeType ==
  ASSUME NEW d \in Delivery, NEW k \in Deliveries, NEW r, NEW n \in Conversations(Turn), NEW m,
         Placed(k), Live(k), Exchange(d, k, r, n, m)
  PROVE  m \in Conversations(Turn) /\ Keeps(n, m)
<1> DEFINE user == <<d, Cur(k), "user">>
           assistant == <<d, Cur(k), "assistant">>
<1>1. user \in Turn /\ assistant \in Turn
  <2>1. Cur(k) \in Message
    BY CurrentType
  <2> QED
    BY <2>1 DEF Turn, Role
<1>2. k.previous \in Seq(Turn) /\ k.leaving \in Seq(Turn)
  BY DEF Deliveries
<1>3. Keeps(n, n)
  BY ConversationType DEF Keeps
<1>4. \A turn \in Turn : Saved(n, turn) \in Conversations(Turn) /\ Keeps(n, Saved(n, turn))
  BY SavedIs
<1>5. \A q \in Nat : Missed(n, q) \in Conversations(Turn) /\ Keeps(n, Missed(n, q))
  BY MissedIs
<1>6. \A turn \in Turn, q \in Nat : /\ Missed(Saved(n, turn), q) \in Conversations(Turn)
                                    /\ Keeps(n, Missed(Saved(n, turn), q))
  <2> SUFFICES ASSUME NEW turn \in Turn, NEW q \in Nat
               PROVE  /\ Missed(Saved(n, turn), q) \in Conversations(Turn)
                      /\ Keeps(n, Missed(Saved(n, turn), q))
    OBVIOUS
  <2> DEFINE o == Saved(n, turn)
  <2>1. o \in Conversations(Turn) /\ Keeps(n, o)
    BY <1>4
  <2> HIDE DEF o
  <2>2. Missed(o, q) \in Conversations(Turn) /\ Missed(o, q).turns = o.turns
    BY <2>1, MissedIs
  <2>3. Keeps(n, Missed(o, q))
    BY <2>1, <2>2 DEF Keeps
  <2> QED
    BY <2>2, <2>3 DEF o
<1>7. Folded(n, k.previous, k.leaving) \in Conversations(Turn) /\ Keeps(n, Folded(n, k.previous, k.leaving))
  BY <1>2, FoldedIs
<1>8. \/ m = n \/ m = Saved(n, user) \/ m = Saved(n, assistant)
      \/ m = Missed(n, 1) \/ m = Missed(n, 2) \/ m = Missed(Saved(n, user), 1) \/ m = Missed(Saved(n, assistant), 2)
      \/ m = Folded(n, k.previous, k.leaving)
  BY Zenon DEF Exchange
<1>9. 1 \in Nat /\ 2 \in Nat
  OBVIOUS
<1> HIDE DEF user, assistant
<1> QED
  BY <1>1, <1>3, <1>4, <1>5, <1>6, <1>7, <1>8, <1>9, Zenon

\* Delivery d is given a new stage, and its conversation becomes m.
LEMMA StageForm ==
  ASSUME IsTyped, NEW d \in Delivery, Live(delivery[d]), NEW stage \in Stage, To(d, stage),
         NEW m \in Conversations(Turn), memory' = [memory EXCEPT ![SessionOf(d)] = m]
  PROVE  \E r \in Deliveries :
           /\ r.batch = delivery[d].batch /\ r.left = delivery[d].left /\ r.blocked = delivery[d].blocked
           /\ r.leaving = delivery[d].leaving /\ r.previous = delivery[d].previous /\ r.stage = stage
           /\ delivery' = [delivery EXCEPT ![d] = r]
<1> DEFINE k == delivery[d]
           r == [k EXCEPT !.stage = stage]
<1>1. k \in Deliveries
  BY DEF IsTyped
<1>2. delivery' = [delivery EXCEPT ![d] = r]
  BY DEF To
<1> HIDE DEF k
<1>3. r \in Deliveries
  BY <1>1, Zenon DEF Deliveries
<1>4. /\ r.batch = k.batch /\ r.left = k.left /\ r.blocked = k.blocked
      /\ r.leaving = k.leaving /\ r.previous = k.previous /\ r.stage = stage
  BY <1>1 DEF Deliveries
<1> HIDE DEF r
<1> QED
  BY <1>2, <1>3, <1>4 DEF k

LEMMA MemoryForm ==
  ASSUME IsTyped, NEW d \in Delivery, Live(delivery[d])
  PROVE  /\ SessionOf(d) \in Session /\ memory[SessionOf(d)] \in Conversations(Turn)
         /\ UNCHANGED memory => memory' = [memory EXCEPT ![SessionOf(d)] = memory[SessionOf(d)]]
         /\ delivery[d] \in Deliveries /\ Placed(delivery[d])
         /\ <<d, Current(d), "user">> \in Turn /\ <<d, Current(d), "assistant">> \in Turn
<1>1. delivery[d] \in Deliveries /\ Placed(delivery[d])
  BY DEF IsTyped
<1>2. Cur(delivery[d]) \in Message /\ From[Cur(delivery[d])] \in Session
  BY <1>1, CurrentType
<1>3. Current(d) \in Message /\ SessionOf(d) \in Session
  BY <1>2, Instances
<1> QED
  BY <1>1, <1>3 DEF IsTyped, Turn, Role

\* r differs from k in its stage only.
Staged(k, r, stage) ==
  /\ r.batch = k.batch /\ r.left = k.left /\ r.blocked = k.blocked
  /\ r.leaving = k.leaving /\ r.previous = k.previous /\ r.stage = stage

LEMMA StagedForm ==
  ASSUME IsTyped, NEW d \in Delivery, Live(delivery[d]), NEW stage \in Stage, To(d, stage),
         NEW m \in Conversations(Turn), memory' = [memory EXCEPT ![SessionOf(d)] = m],
         \A r \in Deliveries : Staged(delivery[d], r, stage)
                                 => Exchange(d, delivery[d], r, memory[SessionOf(d)], m)
  PROVE  Forms
<1>1. PICK r \in Deliveries : /\ Staged(delivery[d], r, stage)
                              /\ delivery' = [delivery EXCEPT ![d] = r]
  BY StageForm DEF Staged
<1>2. GoesOn(d, r, m)
  BY <1>1 DEF GoesOn
<1> QED
  BY <1>2 DEF Forms

LEMMA AskForm == ASSUME IsTyped, NEW d \in Delivery, Ask(d) PROVE Forms
<1> DEFINE k == delivery[d]  n == memory[SessionOf(d)]
<1>1. k.stage = "asking" /\ Live(k)
  BY DEF Ask, At, Live, Ended
<1>2. n \in Conversations(Turn) /\ memory' = [memory EXCEPT ![SessionOf(d)] = n] /\ k \in Deliveries
  BY <1>1, MemoryForm DEF Ask
<1>3. ASSUME NEW stage \in {"user", "sorry"}, To(d, stage) PROVE Forms
  <2>1. stage \in Stage
    BY DEF Stage
  <2>2. \A r \in Deliveries : Staged(k, r, stage) => Exchange(d, k, r, n, n)
    BY <1>1 DEF Staged, Exchange
  <2> QED
    BY <1>1, <1>2, <1>3, <2>1, <2>2, StagedForm
<1>4. ASSUME delivery' = [delivery EXCEPT ![d].stage = "sending", ![d].blocked = TRUE] PROVE Forms
  <2> DEFINE r == [k EXCEPT !.stage = "sending", !.blocked = TRUE]
  <2>1. delivery' = [delivery EXCEPT ![d] = r]
    <3>1. delivery \in [Delivery -> Deliveries]
      BY DEF IsTyped
    <3>2. delivery' = [[delivery EXCEPT ![d].stage = "sending"] EXCEPT ![d].blocked = TRUE]
      BY <1>4, <3>1
    <3> QED
      BY <1>4, <3>1, <3>2
  <2> HIDE DEF k
  <2>2. "sending" \in Stage /\ TRUE \in BOOLEAN
    BY DEF Stage
  <2>3. r \in Deliveries
    BY <1>2, <2>2, Zenon DEF Deliveries
  <2>4. r.batch = k.batch /\ r.left = k.left /\ r.blocked = TRUE /\ r.stage = "sending"
    BY <1>2 DEF Deliveries
  <2> HIDE DEF r
  <2>5. Exchange(d, k, r, n, n)
    BY <1>1, <2>4 DEF Exchange
  <2>6. GoesOn(d, r, n)
    BY <1>1, <1>2, <2>1, <2>3, <2>5 DEF GoesOn, k
  <2> QED
    BY <1>2, <2>3, <2>6 DEF Forms
<1> QED
  BY <1>3, <1>4 DEF Ask

LEMMA SaveUserForm == ASSUME IsTyped, NEW d \in Delivery, SaveUser(d) PROVE Forms
<1> DEFINE k == delivery[d]  n == memory[SessionOf(d)]
           saved == Saved(n, <<d, Current(d), "user">>)
<1>1. k.stage = "user" /\ Live(k)
  BY DEF SaveUser, At, Live, Ended
<1>2. n \in Conversations(Turn) /\ saved \in Conversations(Turn) /\ Missed(saved, 1) \in Conversations(Turn)
  <2>1. n \in Conversations(Turn) /\ saved \in Conversations(Turn)
    BY <1>1, MemoryForm, SavedIs
  <2> HIDE DEF saved
  <2> QED
    BY <2>1, MissedIs
<1>3. PICK stage \in Stage, m \in Conversations(Turn) :
         /\ To(d, stage) /\ memory' = [memory EXCEPT ![SessionOf(d)] = m]
         /\ \/ stage = "assistant" /\ m = saved
            \/ stage = "sorry" /\ (m = n \/ m = Missed(saved, 1))
  <2>1. "assistant" \in Stage /\ "sorry" \in Stage
    BY DEF Stage
  <2>2. UNCHANGED memory => memory' = [memory EXCEPT ![SessionOf(d)] = n]
    BY <1>1, MemoryForm
  <2> QED
    BY <1>2, <2>1, <2>2, Zenon DEF SaveUser, Remember
<1>4. Current(d) = Cur(k)
  BY Instances
<1>5. \A r \in Deliveries : Staged(k, r, stage) => Exchange(d, k, r, n, m)
  <2> HIDE DEF k, n
  <2> QED
    BY <1>1, <1>3, <1>4 DEF Staged, Exchange, saved
<1> QED
  BY <1>1, <1>3, <1>5, StagedForm

LEMMA SaveAssistantForm == ASSUME IsTyped, NEW d \in Delivery, SaveAssistant(d) PROVE Forms
<1> DEFINE k == delivery[d]  n == memory[SessionOf(d)]
           saved == Saved(n, <<d, Current(d), "assistant">>)
<1>1. k.stage = "assistant" /\ Live(k)
  BY DEF SaveAssistant, At, Live, Ended
<1>2. /\ n \in Conversations(Turn) /\ saved \in Conversations(Turn)
      /\ Missed(saved, 2) \in Conversations(Turn) /\ Missed(n, 1) \in Conversations(Turn)
  <2>1. n \in Conversations(Turn) /\ saved \in Conversations(Turn)
    BY <1>1, MemoryForm, SavedIs
  <2> HIDE DEF saved
  <2> QED
    BY <2>1, MissedIs
<1>3. PICK stage \in Stage, m \in Conversations(Turn) :
         /\ To(d, stage) /\ memory' = [memory EXCEPT ![SessionOf(d)] = m]
         /\ \/ stage = "history" /\ m = saved
            \/ stage = "sorry" /\ (m = Missed(n, 1) \/ m = Missed(saved, 2))
  <2>1. "history" \in Stage /\ "sorry" \in Stage
    BY DEF Stage
  <2> QED
    BY <1>2, <2>1, Zenon DEF SaveAssistant, Remember
<1>4. Current(d) = Cur(k)
  BY Instances
<1>5. \A r \in Deliveries : Staged(k, r, stage) => Exchange(d, k, r, n, m)
  <2> HIDE DEF k, n
  <2> QED
    BY <1>1, <1>3, <1>4 DEF Staged, Exchange, saved
<1> QED
  BY <1>1, <1>3, <1>5, StagedForm

LEMMA ReadHistoryForm == ASSUME IsTyped, NEW d \in Delivery, ReadHistory(d) PROVE Forms
<1> DEFINE k == delivery[d]  n == memory[SessionOf(d)]  out == Leaving(n)
           next == IF out = <<>> THEN "sending" ELSE "summary"
<1>1. k.stage = "history" /\ Live(k)
  BY DEF ReadHistory, At, Live, Ended
<1>2. /\ n \in Conversations(Turn) /\ Missed(n, 2) \in Conversations(Turn) /\ k \in Deliveries
      /\ UNCHANGED memory => memory' = [memory EXCEPT ![SessionOf(d)] = n]
  BY <1>1, MemoryForm, MissedIs
<1>3. ASSUME To(d, "sorry"), memory' = [memory EXCEPT ![SessionOf(d)] = Missed(n, 2)] PROVE Forms
  <2>1. "sorry" \in Stage
    BY DEF Stage
  <2>2. \A r \in Deliveries : Staged(k, r, "sorry") => Exchange(d, k, r, n, Missed(n, 2))
    BY <1>1 DEF Staged, Exchange
  <2> QED
    BY <1>1, <1>2, <1>3, <2>1, <2>2, StagedForm
<1>4. ASSUME delivery' = [delivery EXCEPT ![d].leaving = out, ![d].stage = next], UNCHANGED memory PROVE Forms
  <2> DEFINE r == [k EXCEPT !.leaving = out, !.stage = next]
  <2>1. out \in Seq(Turn)
    BY <1>2, LeavingIs
  <2>2. next \in Stage
    BY DEF Stage
  <2>3. delivery' = [delivery EXCEPT ![d] = r]
    <3>1. delivery \in [Delivery -> Deliveries]
      BY DEF IsTyped
    <3> HIDE DEF out, next
    <3> QED
      BY <1>4, <3>1
  <2> HIDE DEF k, n, out, next
  <2>4. r \in Deliveries
    BY <1>2, <2>1, <2>2, Zenon DEF Deliveries
  <2>5. r.batch = k.batch /\ r.left = k.left /\ r.blocked = k.blocked /\ r.leaving = out /\ r.stage = next
    BY <1>2 DEF Deliveries
  <2> HIDE DEF r
  <2>6. Exchange(d, k, r, n, n)
    BY <1>1, <2>5 DEF Exchange, out, next
  <2>7. GoesOn(d, r, n)
    BY <1>1, <1>2, <1>4, <2>3, <2>4, <2>6 DEF GoesOn, k, n
  <2> QED
    BY <1>2, <2>4, <2>7 DEF Forms
<1> QED
  BY <1>3, <1>4 DEF ReadHistory, Remember

LEMMA ReadSummaryForm == ASSUME IsTyped, NEW d \in Delivery, ReadSummary(d) PROVE Forms
<1> DEFINE k == delivery[d]  n == memory[SessionOf(d)]
<1>1. k.stage = "summary" /\ Live(k)
  BY DEF ReadSummary, At, Live, Ended
<1>2. /\ n \in Conversations(Turn) /\ Missed(n, 2) \in Conversations(Turn) /\ k \in Deliveries
      /\ UNCHANGED memory => memory' = [memory EXCEPT ![SessionOf(d)] = n]
  BY <1>1, MemoryForm, MissedIs
<1>3. ASSUME To(d, "sending"), memory' = [memory EXCEPT ![SessionOf(d)] = Missed(n, 2)] PROVE Forms
  <2>1. "sending" \in Stage
    BY DEF Stage
  <2>2. \A r \in Deliveries : Staged(k, r, "sending") => Exchange(d, k, r, n, Missed(n, 2))
    BY <1>1 DEF Staged, Exchange
  <2> QED
    BY <1>1, <1>2, <1>3, <2>1, <2>2, StagedForm
<1>4. ASSUME delivery' = [delivery EXCEPT ![d].previous = n.summary, ![d].stage = "folding"], UNCHANGED memory
      PROVE  Forms
  <2> DEFINE p == n.summary
             r == [k EXCEPT !.previous = p, !.stage = "folding"]
  <2>1. p \in Seq(Turn) /\ "folding" \in Stage
    BY <1>2, ConversationType DEF Stage
  <2>2. delivery' = [delivery EXCEPT ![d] = r]
    <3>1. delivery \in [Delivery -> Deliveries]
      BY DEF IsTyped
    <3> HIDE DEF p
    <3>2. delivery' = [delivery EXCEPT ![d].previous = p, ![d].stage = "folding"]
      BY <1>4 DEF p
    <3> QED
      BY <3>1, <3>2
  <2> HIDE DEF k, n, p
  <2>3. r \in Deliveries
    BY <1>2, <2>1, Zenon DEF Deliveries
  <2>4. /\ r.batch = k.batch /\ r.left = k.left /\ r.blocked = k.blocked /\ r.leaving = k.leaving
        /\ r.previous = p /\ r.stage = "folding"
    BY <1>2 DEF Deliveries
  <2> HIDE DEF r
  <2>5. Exchange(d, k, r, n, n)
    BY <1>1, <2>4 DEF Exchange, p
  <2>6. GoesOn(d, r, n)
    BY <1>1, <1>2, <1>4, <2>2, <2>3, <2>5 DEF GoesOn, k, n
  <2> QED
    BY <1>2, <2>3, <2>6 DEF Forms
<1> QED
  BY <1>3, <1>4 DEF ReadSummary, Remember

LEMMA SaveSummaryForm == ASSUME IsTyped, NEW d \in Delivery, SaveSummary(d) PROVE Forms
<1> DEFINE k == delivery[d]  n == memory[SessionOf(d)]
<1>1. k.stage = "folding" /\ Live(k)
  BY DEF SaveSummary, At, Live, Ended
<1>2. n \in Conversations(Turn) /\ Missed(n, 2) \in Conversations(Turn) /\ k \in Deliveries
  BY <1>1, MemoryForm, MissedIs
<1>3. Folded(n, k.previous, k.leaving) \in Conversations(Turn)
  <2>1. k.previous \in Seq(Turn) /\ k.leaving \in Seq(Turn)
    BY <1>2 DEF Deliveries
  <2> QED
    BY <1>2, <2>1, FoldedIs
<1>4. PICK m \in Conversations(Turn) :
         /\ To(d, "sending") /\ memory' = [memory EXCEPT ![SessionOf(d)] = m]
         /\ m = Folded(n, k.previous, k.leaving) \/ m = Missed(n, 2)
  BY <1>2, <1>3, Zenon DEF SaveSummary, Remember
<1>5. \A r \in Deliveries : Staged(k, r, "sending") => Exchange(d, k, r, n, m)
  <2> HIDE DEF k, n
  <2> QED
    BY <1>1, <1>4 DEF Staged, Exchange
<1>6. "sending" \in Stage
  BY DEF Stage
<1> QED
  BY <1>1, <1>4, <1>5, <1>6, StagedForm

LEMMA SendForm == ASSUME IsTyped, NEW d \in Delivery, Send(d) \/ Apologise(d) PROVE Forms
<1> DEFINE k == delivery[d]  n == memory[SessionOf(d)]
<1>1. CASE Handled(d)
  <2>1. GoesToNext(d)
    BY <1>1 DEF GoesToNext, Handled, NextOf, Send, Apologise, At
  <2> QED
    BY <2>1 DEF Forms
<1>2. CASE To(d, "sorry") /\ Send(d)
  <2>1. k.stage = "sending" /\ Live(k)
    BY <1>2 DEF Send, At, Live, Ended
  <2>2. n \in Conversations(Turn) /\ memory' = [memory EXCEPT ![SessionOf(d)] = n]
    BY <1>2, <2>1, MemoryForm DEF Send
  <2>3. "sorry" \in Stage
    BY DEF Stage
  <2>4. \A r \in Deliveries : Staged(k, r, "sorry") => Exchange(d, k, r, n, n)
    BY <2>1 DEF Staged, Exchange
  <2> QED
    BY <1>2, <2>1, <2>2, <2>3, <2>4, StagedForm
<1> QED
  BY <1>1, <1>2 DEF Send, Apologise

LEMMA ComesForm ==
  ASSUME NEW d \in Delivery, NEW b \in 1 .. Len(Batches), Accept(d, b) \/ Refuse(d, b)
  PROVE  Forms
<1>1. CASE Accept(d, b)
  <2>1. Tasks(b, MessagesIn(Batches[b])) \in Deliveries
    BY TasksType
  <2>2. Comes(d, b, Tasks(b, MessagesIn(Batches[b])))
    BY <1>1 DEF Accept, Comes
  <2> QED
    BY <2>1, <2>2 DEF Forms
<1>2. CASE Refuse(d, b)
  <2> DEFINE k == [NoDelivery EXCEPT !.batch = b, !.stage = "refused"]
  <2>1. k \in Deliveries
    BY RefusedType
  <2>2. Comes(d, b, k)
    BY <1>2 DEF Refuse, Comes
  <2> HIDE DEF k
  <2> QED
    BY <2>1, <2>2 DEF Forms
<1> QED
  BY <1>1, <1>2

LEMMA NextForms == ASSUME IsTyped, [Next]_vars PROVE Forms
<1>1. ASSUME NEW d \in Delivery, Process(d) PROVE Forms
  BY <1>1, AskForm, SaveUserForm, SaveAssistantForm, ReadHistoryForm, ReadSummaryForm, SaveSummaryForm,
     SendForm DEF Process, Run
<1>2. ASSUME NEW d \in Delivery, NEW b \in 1 .. Len(Batches), Accept(d, b) \/ Refuse(d, b) PROVE Forms
  BY <1>2, ComesForm
<1>3. CASE UNCHANGED <<memory, delivery>> \/ Crash \/ \E s \in Session : Expires(s)
  BY <1>3 DEF Forms
<1>6. ASSUME NEW s \in Session, TurnsExpire(s) \/ SummaryExpires(s) PROVE Expires(s)
  BY <1>6 DEF Expires
<1>4. ASSUME NEW c \in Client, Watch(c) PROVE UNCHANGED <<memory, delivery>>
  BY <1>4 DEF Watch
<1>5. UNCHANGED vars => UNCHANGED <<memory, delivery>>
  BY DEF vars
<1> QED
  BY <1>1, <1>2, <1>3, <1>4, <1>5, <1>6 DEF Next

-----------------------------------------------------------------------------
(* Types.                                                                  *)

\* One delivery is replaced.
LEMMA Replaced ==
  ASSUME IsTyped, NEW d \in Delivery, NEW k \in Deliveries, delivery' = [delivery EXCEPT ![d] = k]
  PROVE  /\ delivery' \in [Delivery -> Deliveries] /\ delivery'[d] = k
         /\ \A e \in Delivery : e # d => delivery'[e] = delivery[e]
<1>1. delivery \in [Delivery -> Deliveries]
  BY DEF IsTyped
<1> QED
  BY <1>1

\* One conversation is replaced.
LEMMA Rewritten ==
  ASSUME IsTyped, NEW s \in Session, NEW m \in Conversations(Turn), memory' = [memory EXCEPT ![s] = m]
  PROVE  /\ memory' \in [Session -> Conversations(Turn)] /\ memory'[s] = m
         /\ \A z \in Session : z # s => memory'[z] = memory[z]
<1>1. memory \in [Session -> Conversations(Turn)]
  BY DEF IsTyped
<1> QED
  BY <1>1

LEMMA GoesOnIs ==
  ASSUME IsTyped, NEW d \in Delivery, NEW r \in Deliveries, NEW m \in Conversations(Turn), GoesOn(d, r, m)
  PROVE  LET s == SessionOf(d) IN
         /\ s \in Session /\ Talks(delivery[d], s)
         /\ Exchange(d, delivery[d], r, memory[s], m)
         /\ delivery[d] \in Deliveries /\ memory[s] \in Conversations(Turn) /\ Placed(delivery[d])
         /\ Live(r) /\ Placed(r) /\ Talks(r, s) /\ Keeps(memory[s], m)
         /\ \A i, z : Waits(r, i, z) <=> Waits(delivery[d], i, z)
         /\ delivery' \in [Delivery -> Deliveries] /\ delivery'[d] = r
         /\ \A e \in Delivery : e # d => delivery'[e] = delivery[e]
         /\ memory' \in [Session -> Conversations(Turn)] /\ memory'[s] = m
         /\ \A z \in Session : z # s => memory'[z] = memory[z]
<1> DEFINE s == SessionOf(d)  k == delivery[d]
<1>1. /\ Live(k) /\ Exchange(d, k, r, memory[s], m)
      /\ delivery' = [delivery EXCEPT ![d] = r] /\ memory' = [memory EXCEPT ![s] = m]
  BY DEF GoesOn
<1>2. s \in Session /\ memory[s] \in Conversations(Turn) /\ k \in Deliveries /\ Placed(k) /\ s = From[Cur(k)]
  BY <1>1, MemoryForm, Instances
<1>3. /\ delivery' \in [Delivery -> Deliveries] /\ delivery'[d] = r
      /\ \A e \in Delivery : e # d => delivery'[e] = delivery[e]
  BY <1>1, Replaced
<1>4. /\ memory' \in [Session -> Conversations(Turn)] /\ memory'[s] = m
      /\ \A z \in Session : z # s => memory'[z] = memory[z]
  BY <1>1, <1>2, Rewritten
<1> HIDE DEF s, k
<1>5. Keeps(memory[s], m)
  BY <1>1, <1>2, ExchangeType
<1>6. r.batch = k.batch /\ r.left = k.left /\ Live(r)
  BY <1>1 DEF Exchange, Live, Ended
<1>7. Cur(r) = Cur(k) /\ \A i : Msg(r, i) = Msg(k, i)
  BY <1>6 DEF Cur, Msg
<1>8. Placed(r) /\ Talks(k, s) /\ Talks(r, s) /\ \A i, z : Waits(r, i, z) <=> Waits(k, i, z)
  BY <1>1, <1>2, <1>6, <1>7 DEF Placed, Talks, Waits
<1> QED
  BY <1>1, <1>2, <1>3, <1>4, <1>5, <1>6, <1>8 DEF s, k

LEMMA GoesToNextIs ==
  ASSUME IsTyped, NEW d \in Delivery, GoesToNext(d)
  PROVE  LET k == delivery[d]  r == NextOf(k) IN
         /\ Live(k) /\ k \in Deliveries /\ Placed(k) /\ k.stage \in {"sending", "sorry"}
         /\ Min(k.left) \in k.left
         /\ r \in Deliveries /\ Placed(r) /\ r.stage \in {"asking", "done"} /\ r.blocked = FALSE
         /\ \A i, z : Waits(r, i, z) => Waits(k, i, z) /\ i # Min(k.left)
         /\ delivery' \in [Delivery -> Deliveries] /\ delivery'[d] = r
         /\ \A e \in Delivery : e # d => delivery'[e] = delivery[e]
         /\ memory' = memory
<1> DEFINE k == delivery[d]  r == NextOf(k)
<1>1. k.stage \in {"sending", "sorry"} /\ Live(k) /\ delivery' = [delivery EXCEPT ![d] = r] /\ memory' = memory
  BY DEF GoesToNext, At, Live, Ended
<1>2. k \in Deliveries /\ Placed(k)
  BY DEF IsTyped
<1> HIDE DEF k
<1>3. Min(k.left) \in k.left
  BY <1>1, <1>2, CurrentType
<1>4. k.batch \in 1 .. Len(Batches) /\ k.left \ {Min(k.left)} \in SUBSET MessagesIn(Batches[k.batch])
  BY <1>1, <1>2 DEF Placed
<1>5. /\ r \in Deliveries /\ Placed(r) /\ r.batch = k.batch /\ r.left = k.left \ {Min(k.left)}
      /\ r.blocked = FALSE /\ r.stage \in {"asking", "done"}
  <2>1. r = Tasks(k.batch, k.left \ {Min(k.left)})
    BY DEF NextOf
  <2> HIDE DEF r
  <2> QED
    BY <1>4, <2>1, TasksType, Zenon
<1>6. \A i, z : Waits(r, i, z) => Waits(k, i, z) /\ i # Min(k.left)
  <2>1. \A i : Msg(r, i) = Msg(k, i)
    BY <1>5 DEF Msg
  <2> HIDE DEF r
  <2> QED
    BY <1>1, <1>5, <2>1 DEF Waits
<1>7. /\ delivery' \in [Delivery -> Deliveries] /\ delivery'[d] = r
      /\ \A e \in Delivery : e # d => delivery'[e] = delivery[e]
  BY <1>1, <1>5, Replaced
<1> QED
  BY <1>1, <1>2, <1>3, <1>5, <1>6, <1>7 DEF k

LEMMA ComesIs ==
  ASSUME IsTyped, NEW d \in Delivery, NEW b \in 1 .. Len(Batches), NEW k \in Deliveries, Comes(d, b, k)
  PROVE  /\ delivery[d].stage = "off" /\ ~Live(delivery[d])
         /\ Placed(k) /\ k.batch = b /\ k.stage \in {"asking", "done", "refused"}
         /\ Live(k) => /\ k.stage = "asking" /\ k.blocked = FALSE /\ k.left = MessagesIn(Batches[b])
         /\ delivery' \in [Delivery -> Deliveries] /\ delivery'[d] = k
         /\ \A e \in Delivery : e # d => delivery'[e] = delivery[e]
         /\ memory' = memory
<1>1. delivery[d].stage = "off" /\ delivery' = [delivery EXCEPT ![d] = k] /\ memory' = memory
  BY DEF Comes, NextDelivery
<1>2. ~Live(delivery[d])
  BY <1>1 DEF Live, Ended
<1>3. /\ delivery' \in [Delivery -> Deliveries] /\ delivery'[d] = k
      /\ \A e \in Delivery : e # d => delivery'[e] = delivery[e]
  BY <1>1, Replaced
<1>4. CASE k = Tasks(b, MessagesIn(Batches[b]))
  <2>1. /\ Placed(k) /\ k.batch = b /\ k.blocked = FALSE /\ k.left = MessagesIn(Batches[b])
        /\ k.stage \in {"asking", "done"}
    <3>1. MessagesIn(Batches[b]) \in SUBSET MessagesIn(Batches[b])
      OBVIOUS
    <3> QED
      BY <1>4, <3>1, TasksType, Zenon
  <2>2. Live(k) => k.stage = "asking"
    BY <2>1 DEF Live, Ended
  <2> QED
    BY <1>1, <1>2, <1>3, <2>1, <2>2
<1>5. CASE k = [NoDelivery EXCEPT !.batch = b, !.stage = "refused"]
  <2>1. Placed(k) /\ k.batch = b /\ k.stage = "refused"
    BY <1>5, RefusedType
  <2>2. ~Live(k)
    BY <2>1 DEF Live, Ended
  <2> QED
    BY <1>1, <1>2, <1>3, <2>1, <2>2
<1> QED
  BY <1>4, <1>5 DEF Comes

LEMMA ExpiresIs ==
  ASSUME IsTyped, NEW s \in Session, Expires(s)
  PROVE  /\ delivery' = delivery
         /\ memory' \in [Session -> Conversations(Turn)]
         /\ \/ /\ memory'[s] = TurnsExpired(memory[s])
               /\ \A d \in InHand(s) : Unfinished(d) = 0 /\ (At(d, {"sending"}) => delivery[d].blocked)
            \/ memory'[s] = SummaryExpired(memory[s])
         /\ \A z \in Session : z # s => memory'[z] = memory[z]
<1>1. memory[s] \in Conversations(Turn)
  BY DEF IsTyped
<1>2. CASE TurnsExpire(s)
  <2>1. delivery' = delivery /\ memory' = [memory EXCEPT ![s] = TurnsExpired(memory[s])]
    BY <1>2 DEF TurnsExpire, Remember
  <2>2. TurnsExpired(memory[s]) \in Conversations(Turn)
    BY <1>1, TurnsExpiredIs
  <2>3. \A d \in InHand(s) : Unfinished(d) = 0 /\ (At(d, {"sending"}) => delivery[d].blocked)
    BY <1>2 DEF TurnsExpire
  <2> QED
    BY <2>1, <2>2, <2>3, Rewritten
<1>3. CASE SummaryExpires(s)
  <2>1. delivery' = delivery /\ memory' = [memory EXCEPT ![s] = SummaryExpired(memory[s])]
    BY <1>3 DEF SummaryExpires, Remember
  <2>2. SummaryExpired(memory[s]) \in Conversations(Turn)
    BY <1>1, SummaryExpiredIs
  <2> QED
    BY <2>1, <2>2, Rewritten
<1> QED
  BY <1>2, <1>3 DEF Expires

LEMMA CrashIs ==
  ASSUME IsTyped, Crash
  PROVE  /\ delivery' \in [Delivery -> Deliveries]
         /\ \A d \in Delivery : /\ ~Live(delivery'[d])
                                /\ delivery'[d].stage = "off" => delivery[d].stage = "off"
         /\ \A s \in Session : memory'[s] = Missed(memory[s], MissedByCrash(s))
<1> DEFINE lost(d) == [NoDelivery EXCEPT !.batch = delivery[d].batch, !.stage = "lost"]
<1>1. \A d \in Delivery : delivery[d] \in Deliveries
  BY DEF IsTyped
<1>2. ASSUME NEW d \in Delivery PROVE lost(d) \in Deliveries /\ lost(d).stage = "lost"
  <2> DEFINE b == delivery[d].batch
  <2>1. b \in 0 .. Len(Batches) /\ "lost" \in Stage
    BY <1>1 DEF Deliveries, Stage
  <2> HIDE DEF b
  <2>2. [NoDelivery EXCEPT !.batch = b, !.stage = "lost"] \in Deliveries
    BY <2>1, NoDeliveryType, Zenon DEF Deliveries
  <2>3. [NoDelivery EXCEPT !.batch = b, !.stage = "lost"].stage = "lost"
    BY NoDeliveryType DEF Deliveries
  <2> QED
    BY <2>2, <2>3 DEF b
<1>3. delivery' = [d \in Delivery |-> IF Live(delivery[d]) THEN lost(d) ELSE delivery[d]]
  BY Instances DEF Crash
<1>4. memory' = [s \in Session |-> Missed(memory[s], MissedByCrash(s))]
  BY DEF Crash
<1> HIDE DEF lost
<1>5. ASSUME NEW d \in Delivery
      PROVE  /\ delivery'[d] \in Deliveries /\ ~Live(delivery'[d])
             /\ delivery'[d].stage = "off" => delivery[d].stage = "off"
  <2>1. CASE Live(delivery[d])
    <3>1. delivery'[d] = lost(d)
      BY <1>3, <2>1
    <3> QED
      BY <1>2, <3>1 DEF Live, Ended
  <2>2. CASE ~Live(delivery[d])
    BY <1>1, <1>3, <2>2
  <2> QED
    BY <2>1, <2>2
<1> QED
  BY <1>3, <1>4, <1>5

LEMMA MissedByCrashType == ASSUME NEW s \in Session PROVE MissedByCrash(s) \in Nat
<1>1. IsFiniteSet(InHand(s))
  <2>1. IsFiniteSet(Delivery)
    BY InboxAssumption, FS_Interval DEF Delivery
  <2>2. InHand(s) \subseteq Delivery
    BY DEF InHand
  <2> QED
    BY <2>1, <2>2, FS_Subset
<1> DEFINE A == {d \in InHand(s) : Unfinished(d) > 0}
           B == {d \in InHand(s) : Unfinished(d) = 2}
<1>2. A \subseteq InHand(s) /\ B \subseteq InHand(s)
  OBVIOUS
<1> HIDE DEF A, B
<1>3. Cardinality(A) \in Nat /\ Cardinality(B) \in Nat
  BY <1>1, <1>2, FS_Subset, FS_CardinalityType
<1>4. MissedByCrash(s) = Cardinality(A) + Cardinality(B)
  BY DEF MissedByCrash, A, B
<1> QED
  BY <1>3, <1>4

LEMMA TypedStep == ASSUME IsTyped, [Next]_vars PROVE IsTyped'
<1> DEFINE Kept == /\ memory' \in [Session -> Conversations(Turn)]
                   /\ delivery' \in [Delivery -> Deliveries]
                   /\ \A d \in Delivery : Placed(delivery'[d])
<1>1. /\ memory \in [Session -> Conversations(Turn)] /\ delivery \in [Delivery -> Deliveries]
      /\ \A d \in Delivery : Placed(delivery[d])
  BY DEF IsTyped
<1>2. ASSUME NEW d \in Delivery, NEW r \in Deliveries, NEW m \in Conversations(Turn), GoesOn(d, r, m)
      PROVE  Kept
  <2>1. /\ delivery' \in [Delivery -> Deliveries] /\ delivery'[d] = r /\ Placed(r)
        /\ \A e \in Delivery : e # d => delivery'[e] = delivery[e]
        /\ memory' \in [Session -> Conversations(Turn)]
    BY <1>2, GoesOnIs
  <2> QED
    BY <1>1, <2>1
<1>3. ASSUME NEW d \in Delivery, GoesToNext(d) PROVE Kept
  <2>1. /\ delivery' \in [Delivery -> Deliveries] /\ Placed(delivery'[d])
        /\ \A e \in Delivery : e # d => delivery'[e] = delivery[e]
        /\ memory' = memory
    BY <1>3, GoesToNextIs
  <2> QED
    BY <1>1, <2>1
<1>4. ASSUME NEW d \in Delivery, NEW b \in 1 .. Len(Batches), NEW k \in Deliveries, Comes(d, b, k)
      PROVE  Kept
  <2>1. /\ delivery' \in [Delivery -> Deliveries] /\ delivery'[d] = k /\ Placed(k)
        /\ \A e \in Delivery : e # d => delivery'[e] = delivery[e]
        /\ memory' = memory
    BY <1>4, ComesIs
  <2> QED
    BY <1>1, <2>1
<1>5. ASSUME NEW s \in Session, Expires(s) PROVE Kept
  BY <1>1, <1>5, ExpiresIs
<1>6. ASSUME Crash PROVE Kept
  <2>1. \A s \in Session : Missed(memory[s], MissedByCrash(s)) \in Conversations(Turn)
    BY <1>1, MissedByCrashType, MissedIs
  <2>2. memory' = [s \in Session |-> Missed(memory[s], MissedByCrash(s))]
    BY <1>6 DEF Crash
  <2>3. delivery' \in [Delivery -> Deliveries] /\ \A d \in Delivery : ~Live(delivery'[d])
    BY <1>6, CrashIs
  <2>4. \A d \in Delivery : Placed(delivery'[d])
    BY <2>3 DEF Placed
  <2>5. memory' \in [Session -> Conversations(Turn)]
    BY <2>1, <2>2
  <2> QED
    BY <2>3, <2>4, <2>5
<1>7. ASSUME UNCHANGED <<memory, delivery>> PROVE Kept
  BY <1>1, <1>7
<1>8. Kept
  <2>1. Forms
    BY NextForms
  <2> HIDE DEF Kept
  <2> QED
    BY <2>1, <1>2, <1>3, <1>4, <1>5, <1>6, <1>7 DEF Forms
<1>9. answered' \subseteq Delivery \X Message
  <2>1. answered \subseteq Delivery \X Message
    BY DEF IsTyped
  <2>2. ASSUME NEW d \in Delivery, Process(d) PROVE answered' \subseteq Delivery \X Message
    <3>1. CASE Send(d)
      <4>1. Live(delivery[d])
        BY <3>1 DEF Send, At, Live, Ended
      <4>2. Current(d) \in Message
        BY <1>1, <4>1, CurrentType, Instances
      <4> QED
        BY <2>1, <3>1, <4>2 DEF Send
    <3>2. CASE ~Send(d)
      BY <2>1, <2>2, <3>2 DEF Process, Run, Ask, SaveUser, SaveAssistant, ReadHistory, ReadSummary, SaveSummary, Apologise
    <3> QED
      BY <3>1, <3>2
  <2> QED
    BY <2>1, <2>2 DEF Next, Accept, Refuse, TurnsExpire, SummaryExpires, Crash, Watch, vars
<1>10. upsets' \in 0 .. MaxUpsets
  <2>1. upsets \in 0 .. MaxUpsets /\ MaxUpsets \in Nat
    BY InboxAssumption DEF IsTyped
  <2>2. \/ upsets' = upsets
        \/ upsets < MaxUpsets /\ upsets' = upsets + 1
    BY DEF Next, Process, Run, Ask, SaveUser, SaveAssistant, ReadHistory, ReadSummary, SaveSummary, Send, Apologise,
           Accept, Refuse, TurnsExpire, SummaryExpires, Crash, Watch, vars
  <2> QED
    BY <2>1, <2>2
<1> QED
  BY <1>8, <1>9, <1>10 DEF IsTyped

-----------------------------------------------------------------------------
(* Whoever was answered is remembered.                                     *)

\* turn t and after it turn u are in s.
InOrder(t, u, s) == \E i, j \in 1 .. Len(s) : i < j /\ s[i] = t /\ s[j] = u

\* What the conversation m holds of the exchange that delivery k has in hand.
Remembered(d, k, m) ==
  LET said(role) == <<d, Cur(k), role>> IN
  /\ k.blocked => k.stage \in {"sending", "sorry"}
  /\ k.stage = "assistant" => InSeq(said("user"), m.turns)
  /\ k.stage \in {"history", "summary", "folding", "sending"} /\ ~k.blocked
       => InOrder(said("user"), said("assistant"), m.turns)

RememberedInv ==
  \A d \in Delivery : Live(delivery[d]) => Remembered(d, delivery[d], memory[From[Cur(delivery[d])]])

LEMMA RememberedKept ==
  ASSUME NEW d, NEW k, NEW m \in Conversations(Turn), NEW n \in Conversations(Turn),
         Keeps(m, n), Remembered(d, k, m)
  PROVE  Remembered(d, k, n)
<1>1. Len(m.turns) \in Nat /\ Len(n.turns) \in Nat
  BY ConversationType
<1>2. /\ \A i \in 1 .. Len(m.turns) : i \in 1 .. Len(n.turns) /\ n.turns[i] = m.turns[i]
  BY <1>1 DEF Keeps
<1>3. \A t : InSeq(t, m.turns) => InSeq(t, n.turns)
  BY <1>2 DEF InSeq
<1>4. \A t, u : InOrder(t, u, m.turns) => InOrder(t, u, n.turns)
  BY <1>2 DEF InOrder
<1> QED
  BY <1>3, <1>4 DEF Remembered

LEMMA RememberedExchange ==
  ASSUME NEW d \in Delivery, NEW k \in Deliveries, NEW r \in Deliveries, NEW n \in Conversations(Turn),
         NEW m \in Conversations(Turn), Placed(k), Live(k), Exchange(d, k, r, n, m), Remembered(d, k, n)
  PROVE  Remembered(d, r, m)
<1> DEFINE user == <<d, Cur(k), "user">>
           assistant == <<d, Cur(k), "assistant">>
<1>1. user \in Turn /\ assistant \in Turn
  <2>1. Cur(k) \in Message
    BY CurrentType
  <2> QED
    BY <2>1 DEF Turn, Role
<1>2. Cur(r) = Cur(k)
  BY DEF Exchange, Cur, Msg
<1>3. Keeps(n, m)
  BY ExchangeType
<1>4. Remembered(d, k, m)
  BY <1>3, RememberedKept
<1>5. /\ k.blocked => k.stage \in {"sending", "sorry"}
      /\ k.stage = "assistant" => InSeq(user, n.turns)
      /\ (k.stage \in {"history", "summary", "folding", "sending"} /\ ~k.blocked) => InOrder(user, assistant, m.turns)
  BY <1>4 DEF Remembered
<1>6. ASSUME m = Saved(n, user) PROVE InSeq(user, m.turns)
  <2>1. Len(n.turns) \in Nat /\ Len(m.turns) = Len(n.turns) + 1 /\ m.turns[Len(n.turns) + 1] = user
    BY <1>1, <1>6, SavedIs, ConversationType
  <2>2. Len(n.turns) + 1 \in 1 .. Len(m.turns)
    BY <2>1
  <2> QED
    BY <2>1, <2>2 DEF InSeq
<1>7. ASSUME m = Saved(n, assistant), k.stage = "assistant" PROVE InOrder(user, assistant, m.turns)
  <2>1. PICK i \in 1 .. Len(n.turns) : n.turns[i] = user
    BY <1>5, <1>7 DEF InSeq
  <2>2. /\ Len(n.turns) \in Nat /\ Len(m.turns) = Len(n.turns) + 1
        /\ m.turns[Len(n.turns) + 1] = assistant /\ m.turns[i] = user
    BY <1>1, <1>3, <1>7, <2>1, SavedIs, ConversationType DEF Keeps
  <2> DEFINE l == Len(n.turns)
  <2>3. i \in 1 .. Len(m.turns) /\ l + 1 \in 1 .. Len(m.turns) /\ i < l + 1
    BY <2>1, <2>2
  <2> QED
    BY <2>2, <2>3 DEF InOrder
<1> HIDE DEF user, assistant
<1>8. r.blocked => r.stage \in {"sending", "sorry"}
  BY <1>5 DEF Exchange
<1>9. r.stage = "assistant" => InSeq(user, m.turns)
  BY <1>6 DEF Exchange, user
<1>10. (r.stage \in {"history", "summary", "folding", "sending"} /\ ~r.blocked) => InOrder(user, assistant, m.turns)
  BY <1>5, <1>7 DEF Exchange, assistant
<1> QED
  BY <1>2, <1>8, <1>9, <1>10 DEF Remembered, user, assistant

\* Turns of its exchange that k has saved and not yet folded.
Owes(k) ==
  IF k.stage = "assistant" THEN 1 ELSE IF k.stage \in {"history", "summary", "folding"} THEN 2 ELSE 0

LEMMA UnfinishedIs == ASSUME NEW d \in Delivery PROVE Unfinished(d) = Owes(delivery[d])
<1>1. CASE delivery[d].stage = "assistant"
  BY <1>1 DEF Unfinished, Owes, At
<1>2. CASE delivery[d].stage \in {"history", "summary", "folding"}
  BY <1>2 DEF Unfinished, Owes, At
<1>3. CASE delivery[d].stage \notin {"assistant", "history", "summary", "folding"}
  BY <1>3 DEF Unfinished, Owes, At
<1> QED
  BY <1>1, <1>2, <1>3

LEMMA RememberedStep == ASSUME IsTyped, RememberedInv, [Next]_vars PROVE RememberedInv'
<1> DEFINE Mem(k) == memory[From[Cur(k)]]
           Good(d) == Live(delivery'[d]) => Remembered(d, delivery'[d], memory'[From[Cur(delivery'[d])]])
<1>1. \A e \in Delivery : Live(delivery[e]) =>
        /\ Remembered(e, delivery[e], Mem(delivery[e])) /\ From[Cur(delivery[e])] \in Session
        /\ Mem(delivery[e]) \in Conversations(Turn)
  <2> SUFFICES ASSUME NEW e \in Delivery, Live(delivery[e])
               PROVE  /\ Remembered(e, delivery[e], Mem(delivery[e])) /\ From[Cur(delivery[e])] \in Session
                      /\ Mem(delivery[e]) \in Conversations(Turn)
    OBVIOUS
  <2>1. From[Cur(delivery[e])] \in Session
    BY MemoryForm, Instances
  <2> QED
    BY <2>1 DEF RememberedInv, IsTyped
<1>2. ASSUME NEW d \in Delivery, NEW r \in Deliveries, NEW m \in Conversations(Turn), GoesOn(d, r, m)
      PROVE  \A e \in Delivery : Good(e)
  <2> DEFINE s == SessionOf(d)  k == delivery[d]
  <2>1. /\ s \in Session /\ Talks(k, s) /\ Exchange(d, k, r, memory[s], m)
        /\ k \in Deliveries /\ memory[s] \in Conversations(Turn) /\ Placed(k)
        /\ Talks(r, s) /\ Keeps(memory[s], m)
        /\ delivery'[d] = r /\ \A e \in Delivery : e # d => delivery'[e] = delivery[e]
        /\ memory'[s] = m /\ \A z \in Session : z # s => memory'[z] = memory[z]
    BY <1>2, GoesOnIs
  <2> HIDE DEF s
  <2>2. Good(d)
    <3>1. Live(k) /\ From[Cur(k)] = s /\ From[Cur(r)] = s
      BY <2>1 DEF Talks
    <3>2. Remembered(d, k, memory[s])
      BY <1>1, <3>1
    <3>3. Remembered(d, r, m)
      BY <2>1, <3>1, <3>2, RememberedExchange
    <3> QED
      BY <2>1, <3>1, <3>3
  <2>3. ASSUME NEW e \in Delivery, e # d, Live(delivery[e]) PROVE Good(e)
    <3> DEFINE z == From[Cur(delivery[e])]
    <3>1. z \in Session /\ Remembered(e, delivery[e], memory[z]) /\ delivery'[e] = delivery[e]
      BY <1>1, <2>1, <2>3
    <3>2. CASE z # s
      BY <2>1, <3>1, <3>2
    <3>3. CASE z = s
      <4>1. Remembered(e, delivery[e], m)
        BY <2>1, <3>1, <3>3, RememberedKept
      <4> QED
        BY <2>1, <3>1, <3>3, <4>1
    <3> QED
      BY <3>2, <3>3
  <2> QED
    BY <2>1, <2>2, <2>3
<1>3. ASSUME NEW d \in Delivery, GoesToNext(d) PROVE \A e \in Delivery : Good(e)
  <2>1. /\ delivery'[d].stage \in {"asking", "done"} /\ delivery'[d].blocked = FALSE
        /\ \A e \in Delivery : e # d => delivery'[e] = delivery[e]
        /\ memory' = memory
    BY <1>3, GoesToNextIs
  <2>2. Good(d)
    BY <2>1 DEF Remembered
  <2> QED
    BY <1>1, <2>1, <2>2
<1>4. ASSUME NEW d \in Delivery, NEW b \in 1 .. Len(Batches), NEW k \in Deliveries, Comes(d, b, k)
      PROVE  \A e \in Delivery : Good(e)
  <2>1. /\ delivery'[d] = k
        /\ Live(k) => (k.stage = "asking" /\ k.blocked = FALSE)
        /\ \A e \in Delivery : e # d => delivery'[e] = delivery[e]
        /\ memory' = memory
    BY <1>4, ComesIs
  <2>2. Good(d)
    BY <2>1 DEF Remembered
  <2> QED
    BY <1>1, <2>1, <2>2
<1>5. ASSUME NEW s \in Session, Expires(s) PROVE \A e \in Delivery : Good(e)
  <2>1. /\ delivery' = delivery /\ \A z \in Session : z # s => memory'[z] = memory[z]
        /\ \/ /\ memory'[s] = TurnsExpired(memory[s])
              /\ \A d \in InHand(s) : Unfinished(d) = 0 /\ (At(d, {"sending"}) => delivery[d].blocked)
           \/ memory'[s] = SummaryExpired(memory[s])
    BY <1>5, ExpiresIs
  <2> SUFFICES ASSUME NEW e \in Delivery, Live(delivery[e]) PROVE Good(e)
    BY <2>1
  <2> DEFINE k == delivery[e]
  <2>2. Remembered(e, k, memory[From[Cur(k)]]) /\ memory[From[Cur(k)]] \in Conversations(Turn)
    BY <1>1
  <2>3. CASE From[Cur(k)] # s
    BY <1>1, <2>1, <2>3
  <2>4. CASE From[Cur(k)] = s /\ memory'[s] = SummaryExpired(memory[s])
    <3>1. SummaryExpired(memory[s]) \in Conversations(Turn) /\ Keeps(memory[s], SummaryExpired(memory[s]))
      BY <2>2, <2>4, SummaryExpiredIs
    <3>2. Remembered(e, k, memory'[s])
      BY <2>2, <2>4, <3>1, RememberedKept
    <3> QED
      BY <2>1, <2>4, <3>2
  <2>5. CASE From[Cur(k)] = s /\ \A d \in InHand(s) : Unfinished(d) = 0 /\ (At(d, {"sending"}) => delivery[d].blocked)
    <3>1. e \in InHand(s)
      BY <2>5, Instances DEF InHand
    <3>2. Owes(k) = 0 /\ (k.stage = "sending" => k.blocked)
      BY <2>5, <3>1, UnfinishedIs DEF At
    <3>3. Remembered(e, k, memory'[s])
      BY <2>2, <3>2 DEF Remembered, Owes
    <3> QED
      BY <2>1, <2>5, <3>3
  <2> QED
    BY <2>1, <2>3, <2>4, <2>5
<1>6. ASSUME Crash PROVE \A e \in Delivery : Good(e)
  BY <1>6, CrashIs
<1>7. ASSUME UNCHANGED <<memory, delivery>> PROVE \A e \in Delivery : Good(e)
  BY <1>1, <1>7
<1>8. \A e \in Delivery : Good(e)
  <2>1. Forms
    BY NextForms
  <2> HIDE DEF Good
  <2> QED
    BY <2>1, <1>2, <1>3, <1>4, <1>5, <1>6, <1>7 DEF Forms
<1> QED
  BY <1>8 DEF RememberedInv

-----------------------------------------------------------------------------
(* The summary of a session that waits for its answers.                    *)

\* At most one message of s is left, at one place of one request.
Alone(s) ==
  \A d, e \in Delivery : \A i, j :
    Waits(delivery[d], i, s) /\ Waits(delivery[e], j, s) => d = e /\ i = j

\* The conversation m of s holds of delivery k what k has saved by now.
Told(d, k, s, m) ==
  \A turn : Has(m, turn) /\ turn[1] = d =>
    /\ k.stage # "off"
    /\ \A i : Waits(k, i, s) =>
         /\ i = Min(k.left) /\ k.stage \notin {"asking", "user"}
         /\ k.stage = "assistant" => turn[3] = "user"

\* k has a message of the session of conversation m in hand; what it read is
\* still so, but that the summary may have expired since.
ExactFor(k, m) ==
  /\ Exact(m, Owes(k))
  /\ k.stage \in {"summary", "folding"} => k.leaving = Leaving(m)
  /\ k.stage = "folding" => /\ Exact(Resumed(m, k.previous), 2)
                            /\ \A t : InSeq(t, k.previous) => Has(m, t)

ExactNow(s) ==
  /\ (\A d \in Delivery : ~Talks(delivery[d], s)) => Exact(memory[s], 0)
  /\ \A d \in Delivery : Talks(delivery[d], s) => ExactFor(delivery[d], memory[s])

PatientInv(s) ==
  /\ Alone(s)
  /\ \A d \in Delivery : Told(d, delivery[d], s, memory[s])
  /\ ExactNow(s)

LEMMA HasSaved ==
  ASSUME NEW n \in Conversations(Turn), NEW turn \in Turn, NEW t, Has(Saved(n, turn), t)
  PROVE  Has(n, t) \/ t = turn
<1> DEFINE m == Saved(n, turn)  l == Len(n.turns)
<1>1. /\ m.summary = n.summary /\ m.gone = n.gone /\ Len(m.turns) = l + 1 /\ m.turns[l + 1] = turn
      /\ \A i \in 1 .. l : m.turns[i] = n.turns[i]
      /\ l \in Nat
  BY SavedIs, ConversationType DEF Keeps
<1> HIDE DEF m
<1>2. Has(m, t)
  BY DEF m
<1>3. CASE InSeq(t, m.summary)
  BY <1>1, <1>3 DEF Has
<1>4. CASE InSeq(t, m.turns)
  <2>1. PICK i \in 1 .. l + 1 : m.turns[i] = t
    BY <1>1, <1>4 DEF InSeq
  <2>2. i \in 1 .. l \/ i = l + 1
    BY <1>1
  <2> QED
    BY <1>1, <2>1, <2>2 DEF Has, InSeq
<1> QED
  BY <1>1, <1>2, <1>3, <1>4 DEF Has

LEMMA HasMissed ==
  ASSUME NEW n \in Conversations(Turn), NEW q \in Nat, NEW t, Has(Missed(n, q), t)
  PROVE  Has(n, t)
BY MissedIs DEF Has

\* The turns an exchange adds to a conversation, stage by stage.
Adds(d, k, r, n, m) ==
  \A t : Has(m, t) =>
    \/ Has(n, t)
    \/ k.stage = "user" /\ r.stage \in {"assistant", "sorry"} /\ t = <<d, Cur(k), "user">>
    \/ k.stage = "assistant" /\ r.stage \in {"history", "sorry"} /\ t = <<d, Cur(k), "assistant">>

LEMMA ExactExchange ==
  ASSUME NEW d \in Delivery, NEW k \in Deliveries, NEW r \in Deliveries, NEW n \in Conversations(Turn),
         NEW m \in Conversations(Turn), Placed(k), Live(k), Exchange(d, k, r, n, m), ExactFor(k, n),
         k.stage = "user" => ~Has(n, <<d, Cur(k), "user">>),
         k.stage = "assistant" => ~Has(n, <<d, Cur(k), "assistant">>)
  PROVE  ExactFor(r, m) /\ Adds(d, k, r, n, m)
<1> DEFINE user == <<d, Cur(k), "user">>
           assistant == <<d, Cur(k), "assistant">>
<1>1. user \in Turn /\ assistant \in Turn
  <2>1. Cur(k) \in Message
    BY CurrentType
  <2> QED
    BY <2>1 DEF Turn, Role
<1>2. \A t : Has(n, t) => Has(n, t)
  OBVIOUS
<1>3. Exact(n, Owes(k))
  BY DEF ExactFor
<1>4. CASE k.stage = "asking"
  <2>1. m = n /\ r.stage \in {"user", "sorry", "sending"}
    BY <1>4 DEF Exchange
  <2> QED
    BY <1>3, <1>4, <2>1 DEF ExactFor, Owes, Adds
<1>5. CASE k.stage = "user"
  <2> DEFINE o == Saved(n, user)
  <2>1. Exact(n, 0) /\ ~Has(n, user)
    BY <1>3, <1>5 DEF Owes
  <2>2. o \in Conversations(Turn)
    BY <1>1, SavedIs
  <2>3. Exact(o, 0 + 1)
    <3> HIDE DEF user
    <3> QED
      BY <1>1, <2>1, ExactSaved
  <2>4. \A t : Has(o, t) => Has(n, t) \/ t = user
    BY <1>1, HasSaved
  <2>5. Exact(o, 1)
    BY <2>3
  <2>6. \/ r.stage = "assistant" /\ m = o
        \/ r.stage = "sorry" /\ (m = n \/ m = Missed(o, 1))
    BY <1>5 DEF Exchange
  <2> HIDE DEF o, user
  <2>7. Exact(Missed(o, 1), 0)
    <3>1. Exact(Missed(o, 1 - 0), 0)
      BY <2>2, <2>5, ExactMissed
    <3>2. 1 - 0 = 1
      OBVIOUS
    <3> QED
      BY <3>1, <3>2
  <2>8. \A t : Has(Missed(o, 1), t) => Has(o, t)
    BY <2>2, HasMissed
  <2>9. ExactFor(r, m)
    BY <2>1, <2>5, <2>6, <2>7 DEF ExactFor, Owes
  <2>10. Adds(d, k, r, n, m)
    BY <1>5, <2>4, <2>6, <2>8 DEF Adds, user
  <2> QED
    BY <2>9, <2>10
<1>6. CASE k.stage = "assistant"
  <2> DEFINE o == Saved(n, assistant)
  <2>1. Exact(n, 1) /\ ~Has(n, assistant)
    BY <1>3, <1>6 DEF Owes
  <2>2. o \in Conversations(Turn)
    BY <1>1, SavedIs
  <2>3. Exact(o, 1 + 1)
    <3> HIDE DEF assistant
    <3> QED
      BY <1>1, <2>1, ExactSaved
  <2>4. \A t : Has(o, t) => Has(n, t) \/ t = assistant
    BY <1>1, HasSaved
  <2>5. Exact(o, 2)
    BY <2>3
  <2>6. \/ r.stage = "history" /\ m = o
        \/ r.stage = "sorry" /\ (m = Missed(n, 1) \/ m = Missed(o, 2))
    BY <1>6 DEF Exchange
  <2> HIDE DEF o, assistant
  <2>7. Exact(Missed(o, 2), 0) /\ Exact(Missed(n, 1), 0)
    <3>1. Exact(Missed(o, 2 - 0), 0) /\ Exact(Missed(n, 1 - 0), 0)
      BY <2>1, <2>2, <2>5, ExactMissed
    <3>2. 1 - 0 = 1 /\ 2 - 0 = 2
      OBVIOUS
    <3> QED
      BY <3>1, <3>2
  <2>8. \A t : (Has(Missed(o, 2), t) => Has(o, t)) /\ (Has(Missed(n, 1), t) => Has(n, t))
    BY <2>2, HasMissed
  <2>9. ExactFor(r, m)
    BY <2>1, <2>5, <2>6, <2>7 DEF ExactFor, Owes
  <2>10. Adds(d, k, r, n, m)
    BY <1>6, <2>4, <2>6, <2>8 DEF Adds, assistant
  <2> QED
    BY <2>9, <2>10
<1>7. ASSUME k.stage \in {"history", "summary", "folding"}
      PROVE  /\ Exact(n, 2) /\ Exact(Missed(n, 2), 0)
             /\ \A t : Has(Missed(n, 2), t) => Has(n, t)
  <2>1. Exact(n, 2)
    BY <1>3, <1>7 DEF Owes
  <2>2. Exact(Missed(n, 2 - 0), 0) /\ 2 - 0 = 2
    BY <2>1, ExactMissed
  <2>3. Exact(Missed(n, 2), 0)
    BY <2>2
  <2> QED
    BY <2>1, <2>3, HasMissed
<1>8. CASE k.stage = "history"
  <2>1. \/ r.stage = "sending" /\ m = n /\ Leaving(n) = <<>>
        \/ r.stage = "summary" /\ m = n /\ r.leaving = Leaving(n)
        \/ r.stage = "sorry" /\ m = Missed(n, 2)
    BY <1>8 DEF Exchange
  <2>2. Leaving(n) = <<>> => Exact(n, 0)
    BY <1>7, <1>8, ExactInWindow
  <2>3. ExactFor(r, m)
    BY <1>7, <1>8, <2>1, <2>2 DEF ExactFor, Owes
  <2>4. Adds(d, k, r, n, m)
    BY <1>7, <1>8, <2>1 DEF Adds
  <2> QED
    BY <2>3, <2>4
<1>9. CASE k.stage = "summary"
  <2>1. \/ r.stage = "folding" /\ m = n /\ r.leaving = k.leaving /\ r.previous = n.summary
        \/ r.stage = "sending" /\ m = Missed(n, 2)
    BY <1>9 DEF Exchange
  <2>2. k.leaving = Leaving(n)
    BY <1>9 DEF ExactFor
  <2>5. Resumed(n, n.summary) = n
    BY DEF Resumed, Conversations
  <2>6. \A t : InSeq(t, n.summary) => Has(n, t)
    BY DEF Has
  <2>3. ExactFor(r, m)
    BY <1>7, <1>9, <2>1, <2>2, <2>5, <2>6 DEF ExactFor, Owes
  <2>4. Adds(d, k, r, n, m)
    BY <1>7, <1>9, <2>1 DEF Adds
  <2> QED
    BY <2>3, <2>4
<1>10. CASE k.stage = "folding"
  <2>1. r.stage = "sending" /\ (m = Folded(n, k.previous, k.leaving) \/ m = Missed(n, 2))
    BY <1>10 DEF Exchange
  <2> DEFINE o == Resumed(n, k.previous)
  <2>2. k.leaving = Leaving(n) /\ Exact(o, 2) /\ \A t : InSeq(t, k.previous) => Has(n, t)
    BY <1>10 DEF ExactFor
  <2>7. /\ o \in Conversations(Turn) /\ o.turns = n.turns /\ o.summary = k.previous /\ o.gone = n.gone
        /\ Leaving(o) = Leaving(n)
        /\ Folded(n, k.previous, Leaving(n)) = Folded(o, k.previous, Leaving(n))
    <3>1. k.previous \in Seq(Turn)
      BY DEF Deliveries
    <3> QED
      BY <3>1, ResumedIs
  <2> HIDE DEF o
  <2>8. /\ Exact(Folded(o, o.summary, Leaving(o)), 0)
        /\ \A t : Has(Folded(o, o.summary, Leaving(o)), t) => Has(o, t)
    BY <2>2, <2>7, ExactFolded
  <2>9. \A t : Has(o, t) => Has(n, t)
    BY <2>2, <2>7 DEF Has
  <2>3. /\ Exact(Folded(n, k.previous, k.leaving), 0)
        /\ \A t : Has(Folded(n, k.previous, k.leaving), t) => Has(n, t)
    BY <2>2, <2>7, <2>8, <2>9
  <2>4. Exact(m, 0) /\ \A t : Has(m, t) => Has(n, t)
    BY <1>7, <1>10, <2>1, <2>2, <2>3
  <2>5. ExactFor(r, m)
    BY <2>1, <2>4 DEF ExactFor, Owes
  <2>6. Adds(d, k, r, n, m)
    BY <2>4 DEF Adds
  <2> QED
    BY <2>5, <2>6
<1>11. CASE k.stage = "sending"
  <2>1. m = n /\ r.stage = "sorry"
    BY <1>11 DEF Exchange
  <2> QED
    BY <1>3, <1>11, <2>1 DEF ExactFor, Owes, Adds
<1> QED
  BY <1>4, <1>5, <1>6, <1>8, <1>9, <1>10, <1>11 DEF Exchange

\* Who has s in hand has a message of s left; two of them are one.
LEMMA TalksWaits ==
  ASSUME NEW k \in Deliveries, Placed(k), NEW s
  PROVE  Talks(k, s) <=> Waits(k, Min(k.left), s)
<1>1. Live(k) => Min(k.left) \in k.left
  BY CurrentType
<1> QED
  BY <1>1 DEF Talks, Waits, Cur

LEMMA Rows ==
  ASSUME IsTyped, NEW d \in Delivery
  PROVE  /\ delivery[d] \in Deliveries /\ Placed(delivery[d])
         /\ \A s : Talks(delivery[d], s) <=> Waits(delivery[d], Min(delivery[d].left), s)
BY TalksWaits DEF IsTyped

\* No new message of s is left.
LEMMA AloneKept ==
  ASSUME NEW s, Alone(s),
         \A d \in Delivery : \A i : Waits(delivery'[d], i, s) => Waits(delivery[d], i, s)
  PROVE  Alone(s)'
BY DEF Alone

LEMMA PatientGoesOn ==
  ASSUME IsTyped, NEW z \in Patient, PatientInv(z),
         NEW d \in Delivery, NEW r \in Deliveries, NEW m \in Conversations(Turn), GoesOn(d, r, m)
  PROVE  PatientInv(z)'
<1> DEFINE s == SessionOf(d)  k == delivery[d]
<1>1. /\ s \in Session /\ Talks(k, s) /\ Exchange(d, k, r, memory[s], m)
      /\ k \in Deliveries /\ memory[s] \in Conversations(Turn) /\ Placed(k)
      /\ Live(r) /\ Placed(r) /\ Talks(r, s)
      /\ \A i, y : Waits(r, i, y) <=> Waits(k, i, y)
      /\ delivery'[d] = r /\ \A e \in Delivery : e # d => delivery'[e] = delivery[e]
      /\ memory'[s] = m /\ \A y \in Session : y # s => memory'[y] = memory[y]
  BY GoesOnIs
<1>2. Alone(z) /\ (\A e \in Delivery : Told(e, delivery[e], z, memory[z])) /\ ExactNow(z)
  BY DEF PatientInv
<1>3. Waits(k, Min(k.left), s) /\ Live(k) /\ From[Cur(k)] = s /\ From[Cur(r)] = s
  BY <1>1, TalksWaits DEF Talks
<1>4. r.left = k.left
  BY <1>1 DEF Exchange
<1> HIDE DEF s
<1>5. z \in Session
  BY InboxAssumption
<1>6. Alone(z)'
  <2>1. \A e \in Delivery : \A i : Waits(delivery'[e], i, z) => Waits(delivery[e], i, z)
    BY <1>1
  <2> QED
    BY <1>2, <2>1, AloneKept
<1>7. CASE z # s
  <2>1. memory'[z] = memory[z]
    BY <1>1, <1>5, <1>7
  <2>2. ~Talks(k, z) /\ ~Talks(r, z)
    BY <1>3, <1>7 DEF Talks
  <2>3. Told(d, r, z, memory[z])
    <3> SUFFICES ASSUME NEW turn, Has(memory[z], turn), turn[1] = d
                 PROVE  /\ r.stage # "off"
                        /\ \A i : ~Waits(r, i, z)
      BY DEF Told
    <3>1. r.stage # "off"
      BY <1>1 DEF Live, Ended
    <3>2. ASSUME NEW i, Waits(k, i, z) PROVE FALSE
      <4>1. i = Min(k.left)
        BY <1>2, <3>2 DEF Told
      <4> QED
        BY <2>2, <3>2, <4>1, <1>1, TalksWaits
    <3> QED
      BY <1>1, <3>1, <3>2
  <2>4. \A e \in Delivery : Told(e, delivery'[e], z, memory'[z])
    BY <1>1, <1>2, <2>1, <2>3
  <2>5. ExactNow(z)'
    <3>1. \A e \in Delivery : Talks(delivery'[e], z) <=> Talks(delivery[e], z)
      BY <1>1, <2>2
    <3>2. \A e \in Delivery : Talks(delivery'[e], z) => delivery'[e] = delivery[e]
      BY <1>1, <2>2
    <3> QED
      BY <1>2, <2>1, <3>1, <3>2 DEF ExactNow
  <2> QED
    BY <1>6, <2>4, <2>5 DEF PatientInv
<1>8. CASE z = s
  <2> DEFINE user == <<d, Cur(k), "user">>
             assistant == <<d, Cur(k), "assistant">>
  <2>1. \A e \in Delivery : e # d => ~Talks(delivery[e], s)
    BY <1>2, <1>3, <1>8, Rows DEF Alone
  <2>2. ExactFor(k, memory[s])
    BY <1>1, <1>2, <1>8 DEF ExactNow
  <2>3. \A turn : Has(memory[s], turn) /\ turn[1] = d =>
          /\ k.stage \notin {"asking", "user"}
          /\ k.stage = "assistant" => turn[3] = "user"
    BY <1>2, <1>3, <1>8 DEF Told
  <2>4. /\ k.stage = "user" => ~Has(memory[s], user)
        /\ k.stage = "assistant" => ~Has(memory[s], assistant)
    BY <2>3
  <2>5. ExactFor(r, m) /\ Adds(d, k, r, memory[s], m)
    BY <1>1, <1>3, <2>2, <2>4, ExactExchange
  <2>6. Told(d, r, s, m)
    <3> SUFFICES ASSUME NEW turn, Has(m, turn), turn[1] = d
                 PROVE  /\ r.stage # "off"
                        /\ \A i : Waits(r, i, s) =>
                             /\ i = Min(r.left) /\ r.stage \notin {"asking", "user"}
                             /\ r.stage = "assistant" => turn[3] = "user"
      BY DEF Told
    <3>1. r.stage # "off"
      BY <1>1 DEF Live, Ended
    <3>2. \A i : Waits(r, i, s) => i = Min(r.left)
      BY <1>1, <1>2, <1>3, <1>4, <1>8 DEF Alone
    <3>3. r.stage \notin {"asking", "user"}
      <4>1. r.stage # "asking"
        BY <1>1 DEF Exchange
      <4>2. ASSUME r.stage = "user" PROVE FALSE
        <5>1. k.stage = "asking" /\ m = memory[s]
          BY <1>1, <4>2 DEF Exchange
        <5> QED
          BY <2>3, <5>1
      <4> QED
        BY <4>1, <4>2
    <3>4. ASSUME r.stage = "assistant" PROVE turn[3] = "user"
      <4>1. k.stage = "user"
        BY <1>1, <3>4 DEF Exchange
      <4>2. ~Has(memory[s], turn)
        BY <2>3, <4>1
      <4>3. turn = user
        BY <2>5, <4>1, <4>2 DEF Adds
      <4> QED
        BY <4>3
    <3> QED
      BY <3>1, <3>2, <3>3, <3>4
  <2>7. ASSUME NEW e \in Delivery, e # d PROVE Told(e, delivery[e], s, m)
    <3>1. \A t : Has(m, t) /\ t[1] = e => Has(memory[s], t)
      BY <2>5, <2>7 DEF Adds
    <3>2. Told(e, delivery[e], s, memory[s])
      BY <1>2, <1>8
    <3> QED
      BY <3>1, <3>2 DEF Told
  <2>8. \A e \in Delivery : Told(e, delivery'[e], z, memory'[z])
    BY <1>1, <1>8, <2>6, <2>7
  <2>9. ExactNow(z)'
    <3>1. \A e \in Delivery : Talks(delivery'[e], s) => e = d
      BY <1>1, <2>1
    <3>2. Talks(delivery'[d], s) /\ ExactFor(delivery'[d], memory'[s])
      BY <1>1, <2>5
    <3> QED
      BY <1>8, <3>1, <3>2 DEF ExactNow
  <2> QED
    BY <1>6, <2>8, <2>9 DEF PatientInv
<1> QED
  BY <1>7, <1>8

LEMMA PatientGoesToNext ==
  ASSUME IsTyped, NEW z \in Patient, PatientInv(z), NEW d \in Delivery, GoesToNext(d)
  PROVE  PatientInv(z)'
<1> DEFINE k == delivery[d]  r == NextOf(k)
<1>1. /\ Live(k) /\ k \in Deliveries /\ Placed(k) /\ k.stage \in {"sending", "sorry"}
      /\ r \in Deliveries /\ Placed(r) /\ r.stage \in {"asking", "done"}
      /\ \A i, y : Waits(r, i, y) => Waits(k, i, y) /\ i # Min(k.left)
      /\ delivery'[d] = r /\ \A e \in Delivery : e # d => delivery'[e] = delivery[e]
      /\ memory' = memory
  BY GoesToNextIs
<1>2. Alone(z) /\ (\A e \in Delivery : Told(e, delivery[e], z, memory[z])) /\ ExactNow(z)
  BY DEF PatientInv
<1> HIDE DEF r
<1>3. Alone(z)'
  <2>1. \A e \in Delivery : \A i : Waits(delivery'[e], i, z) => Waits(delivery[e], i, z)
    BY <1>1
  <2> QED
    BY <1>2, <2>1, AloneKept
<1>4. Told(d, r, z, memory[z])
  <2> SUFFICES ASSUME NEW turn, Has(memory[z], turn), turn[1] = d
               PROVE  /\ r.stage # "off"
                      /\ \A i : ~Waits(r, i, z)
    BY DEF Told
  <2>1. \A i : Waits(k, i, z) => i = Min(k.left)
    BY <1>2 DEF Told
  <2> QED
    BY <1>1, <2>1
<1>5. \A e \in Delivery : Told(e, delivery'[e], z, memory'[z])
  BY <1>1, <1>2, <1>4
<1>6. ExactNow(z)'
  <2>1. Owes(k) = 0 /\ Owes(r) = 0
    BY <1>1 DEF Owes
  <2>2. Talks(k, z) => Exact(memory[z], 0)
    BY <1>2, <2>1 DEF ExactNow, ExactFor
  <2>3. CASE Talks(k, z)
    <3>1. Waits(k, Min(k.left), z)
      BY <1>1, <2>3, TalksWaits
    <3>2. \A e \in Delivery : e # d => ~Talks(delivery[e], z)
      BY <1>2, <3>1, Rows DEF Alone
    <3>3. ~Talks(r, z)
      <4> SUFFICES ASSUME Talks(r, z) PROVE FALSE
        OBVIOUS
      <4>1. Waits(r, Min(r.left), z)
        BY <1>1, TalksWaits
      <4>2. Waits(k, Min(r.left), z) /\ Min(r.left) # Min(k.left)
        BY <1>1, <4>1
      <4> QED
        BY <1>2, <3>1, <4>2 DEF Alone
    <3>4. \A e \in Delivery : ~Talks(delivery'[e], z)
      BY <1>1, <3>2, <3>3
    <3> QED
      BY <1>1, <2>2, <2>3, <3>4 DEF ExactNow
  <2>4. CASE ~Talks(k, z) /\ Talks(r, z)
    <3>1. Waits(r, Min(r.left), z)
      BY <1>1, <2>4, TalksWaits
    <3>2. Waits(k, Min(r.left), z)
      BY <1>1, <3>1
    <3>3. \A e \in Delivery : ~Talks(delivery[e], z)
      <4> SUFFICES ASSUME NEW e \in Delivery, Talks(delivery[e], z) PROVE FALSE
        OBVIOUS
      <4>1. Waits(delivery[e], Min(delivery[e].left), z)
        BY Rows
      <4>2. e = d
        BY <1>2, <3>2, <4>1 DEF Alone
      <4> QED
        BY <2>4, <4>2
    <3>4. Exact(memory[z], 0)
      BY <1>2, <3>3 DEF ExactNow
    <3>5. \A e \in Delivery : Talks(delivery'[e], z) => e = d
      BY <1>1, <3>3
    <3>6. ExactFor(r, memory[z])
      BY <1>1, <2>1, <3>4 DEF ExactFor
    <3> QED
      BY <1>1, <2>4, <3>5, <3>6 DEF ExactNow
  <2>5. CASE ~Talks(k, z) /\ ~Talks(r, z)
    <3>1. \A e \in Delivery : /\ Talks(delivery'[e], z) <=> Talks(delivery[e], z)
                              /\ Talks(delivery'[e], z) => delivery'[e] = delivery[e]
      BY <1>1, <2>5
    <3> QED
      BY <1>1, <1>2, <3>1 DEF ExactNow
  <2> QED
    BY <2>3, <2>4, <2>5
<1> QED
  BY <1>3, <1>5, <1>6 DEF PatientInv

LEMMA PatientComes ==
  ASSUME IsTyped, NEW z \in Patient, PatientInv(z),
         NEW d \in Delivery, NEW b \in 1 .. Len(Batches), NEW k \in Deliveries, Comes(d, b, k)
  PROVE  PatientInv(z)'
<1>1. /\ delivery[d].stage = "off" /\ ~Live(delivery[d])
      /\ Placed(k) /\ k.batch = b /\ k.stage \in {"asking", "done", "refused"}
      /\ Live(k) => (k.stage = "asking" /\ k.left = MessagesIn(Batches[b]))
      /\ delivery'[d] = k /\ \A e \in Delivery : e # d => delivery'[e] = delivery[e]
      /\ memory' = memory
  BY ComesIs
<1>2. Alone(z) /\ (\A e \in Delivery : Told(e, delivery[e], z, memory[z])) /\ ExactNow(z)
  BY DEF PatientInv
<1>3. ~Talks(delivery[d], z) /\ \A i : ~Waits(delivery[d], i, z)
  BY <1>1 DEF Talks, Waits
\* A patient session has nothing left when it writes, and writes once.
<1>4. ASSUME NEW i, Waits(k, i, z)
      PROVE  /\ \A e \in Delivery : \A j : ~Waits(delivery[e], j, z)
             /\ \A j : Waits(k, j, z) => j = i
  <2>1. MayArrive(b)
    BY DEF Comes
  <2>2. \A j : Waits(k, j, z) => /\ j \in 1 .. Len(Batches[b]) /\ Batches[b][j] \in Message
                                 /\ From[Batches[b][j]] = z
    BY <1>1 DEF Waits, Msg, MessagesIn
  <2>3. ~Busy(z)
    BY <1>4, <2>1, <2>2 DEF MayArrive
  <2>4. \A e \in Delivery : \A j : ~Waits(delivery[e], j, z)
    BY <2>3, Instances DEF Busy, Waits
  <2>5. ASSUME NEW j, Waits(k, j, z), j # i PROVE FALSE
    <3>1. /\ i \in 1 .. Len(Batches[b]) /\ Batches[b][i] \in Message /\ From[Batches[b][i]] = z
          /\ j \in 1 .. Len(Batches[b]) /\ Batches[b][j] \in Message /\ From[Batches[b][j]] = z
      BY <1>4, <2>2, <2>5
    <3>2. \/ i \in 1 .. j - 1 \/ j \in 1 .. i - 1
      BY <2>5, <3>1
    <3> QED
      BY <2>1, <3>1, <3>2 DEF MayArrive
  <2> QED
    BY <2>4, <2>5
<1>5. Alone(z)'
  <2> SUFFICES ASSUME NEW e \in Delivery, NEW f \in Delivery, NEW i, NEW j,
                      Waits(delivery'[e], i, z), Waits(delivery'[f], j, z)
               PROVE  e = f /\ i = j
    BY DEF Alone
  <2>1. CASE e # d /\ f # d
    BY <1>1, <1>2, <2>1 DEF Alone
  <2>2. CASE e = d \/ f = d
    BY <1>1, <1>4, <2>2
  <2> QED
    BY <2>1, <2>2
<1>6. \A e \in Delivery : Told(e, delivery'[e], z, memory'[z])
  <2>1. \A turn : Has(memory[z], turn) => turn[1] # d
    BY <1>1, <1>2 DEF Told
  <2>2. Told(d, k, z, memory[z])
    BY <2>1 DEF Told
  <2> QED
    BY <1>1, <1>2, <2>2
<1>7. ExactNow(z)'
  <2>1. CASE Talks(k, z)
    <3>1. Waits(k, Min(k.left), z)
      BY <1>1, <2>1, TalksWaits
    <3>2. \A e \in Delivery : ~Talks(delivery[e], z)
      BY <1>4, <3>1, Rows
    <3>3. Exact(memory[z], 0)
      BY <1>2, <3>2 DEF ExactNow
    <3>4. ExactFor(k, memory[z])
      <4>1. k.stage = "asking"
        BY <1>1, <2>1 DEF Talks
      <4> QED
        BY <3>3, <4>1 DEF ExactFor, Owes
    <3>5. \A e \in Delivery : Talks(delivery'[e], z) => e = d
      BY <1>1, <3>2
    <3> QED
      BY <1>1, <2>1, <3>4, <3>5 DEF ExactNow
  <2>2. CASE ~Talks(k, z)
    <3>1. \A e \in Delivery : /\ Talks(delivery'[e], z) <=> Talks(delivery[e], z)
                              /\ Talks(delivery'[e], z) => delivery'[e] = delivery[e]
      BY <1>1, <1>3, <2>2
    <3> QED
      BY <1>1, <1>2, <3>1 DEF ExactNow
  <2> QED
    BY <2>1, <2>2
<1> QED
  BY <1>5, <1>6, <1>7 DEF PatientInv

LEMMA InHandIs ==
  ASSUME IsTyped, NEW s \in Session
  PROVE  \A d : d \in InHand(s) <=> d \in Delivery /\ Talks(delivery[d], s)
BY Instances DEF InHand, Talks

LEMMA PatientExpires ==
  ASSUME IsTyped, NEW z \in Patient, PatientInv(z), NEW s \in Session, Expires(s)
  PROVE  PatientInv(z)'
<1>1. /\ delivery' = delivery
      /\ \/ /\ memory'[s] = TurnsExpired(memory[s])
            /\ \A d \in InHand(s) : Unfinished(d) = 0
         \/ memory'[s] = SummaryExpired(memory[s])
      /\ \A y \in Session : y # s => memory'[y] = memory[y]
  BY ExpiresIs
<1>2. Alone(z) /\ (\A e \in Delivery : Told(e, delivery[e], z, memory[z])) /\ ExactNow(z)
  BY DEF PatientInv
<1>3. z \in Session /\ memory[z] \in Conversations(Turn)
  BY InboxAssumption DEF IsTyped
<1>4. Alone(z)'
  BY <1>1, <1>2 DEF Alone
<1>5. CASE z # s
  <2>1. memory'[z] = memory[z]
    BY <1>1, <1>3, <1>5
  <2> QED
    BY <1>1, <1>2, <1>4, <2>1 DEF PatientInv, ExactNow
<1>6. CASE z = s /\ memory'[s] = TurnsExpired(memory[s]) /\ \A d \in InHand(s) : Unfinished(d) = 0
  <2>1. \A e \in Delivery : Talks(delivery[e], z) => Owes(delivery[e]) = 0
    BY <1>3, <1>6, InHandIs, UnfinishedIs
  <2>2. Exact(memory[z], 0)
    BY <1>2, <2>1 DEF ExactNow, ExactFor
  <2>3. Exact(memory'[z], 0) /\ \A turn : Has(memory'[z], turn) => Has(memory[z], turn)
    BY <1>3, <1>6, <2>2, ExactTurnsExpired
  <2>4. \A e \in Delivery : Told(e, delivery'[e], z, memory'[z])
    BY <1>1, <1>2, <2>3 DEF Told
  <2>5. ASSUME NEW e \in Delivery, Talks(delivery[e], z) PROVE ExactFor(delivery[e], memory'[z])
    <3>1. Owes(delivery[e]) = 0
      BY <2>1, <2>5
    <3>2. delivery[e].stage \notin {"summary", "folding"}
      BY <3>1 DEF Owes
    <3> QED
      BY <2>3, <3>1, <3>2 DEF ExactFor
  <2>6. ExactNow(z)'
    BY <1>1, <2>3, <2>5 DEF ExactNow
  <2> QED
    BY <1>4, <2>4, <2>6 DEF PatientInv
<1>7. CASE z = s /\ memory'[s] = SummaryExpired(memory[s])
  <2> DEFINE m == memory[z]
             n == SummaryExpired(m)
  <2>1. n.turns = m.turns
    BY <1>3, SummaryExpiredIs
  <2>2. ASSUME NEW u \in Nat, Exact(m, u)
        PROVE  /\ Exact(n, u) /\ \A turn : Has(n, turn) <=> Has(m, turn)
               /\ \A p \in Seq(Turn) : Exact(Resumed(m, p), u) => Exact(Resumed(n, p), u)
    BY <1>3, <2>2, ExactSummaryExpired
  <2>3. Leaving(n) = Leaving(m)
    BY <2>1 DEF Leaving
  <2>4. \A turn : Has(n, turn) <=> Has(m, turn)
    BY <1>3, SummaryExpiredIs, NoSummary DEF Has
  <2>5. memory'[z] = n
    BY <1>7
  <2> HIDE DEF n
  <2>6. \A e \in Delivery : Told(e, delivery'[e], z, memory'[z])
    BY <1>1, <1>2, <2>4, <2>5 DEF Told
  <2>7. ASSUME NEW e \in Delivery, Talks(delivery[e], z) PROVE ExactFor(delivery[e], n)
    <3> DEFINE k == delivery[e]
    <3>1. ExactFor(k, m)
      BY <1>2, <2>7 DEF ExactNow
    <3>2. Owes(k) \in Nat /\ k.previous \in Seq(Turn) /\ (k.stage = "folding" => Owes(k) = 2)
      BY Rows DEF Owes, Deliveries
    <3> HIDE DEF k, m
    <3>3. Exact(n, Owes(k)) /\ (k.stage \in {"summary", "folding"} => k.leaving = Leaving(n))
      BY <2>2, <2>3, <3>1, <3>2 DEF ExactFor
    <3>4. ASSUME k.stage = "folding"
          PROVE  /\ Exact(Resumed(n, k.previous), 2)
                 /\ \A t : InSeq(t, k.previous) => Has(n, t)
      <4>1. /\ Exact(m, 2) /\ Exact(Resumed(m, k.previous), 2)
            /\ \A t : InSeq(t, k.previous) => Has(m, t)
        BY <3>1, <3>2, <3>4 DEF ExactFor
      <4> QED
        BY <2>2, <2>4, <3>2, <4>1
    <3>5. ExactFor(k, n)
      BY <3>3, <3>4 DEF ExactFor
    <3> QED
      BY <3>5 DEF k
  <2>8. (\A e \in Delivery : ~Talks(delivery[e], z)) => Exact(n, 0)
    BY <1>2, <2>2 DEF ExactNow
  <2>9. ExactNow(z)'
    BY <1>1, <2>5, <2>7, <2>8 DEF ExactNow
  <2> QED
    BY <1>4, <2>6, <2>9 DEF PatientInv
<1> QED
  BY <1>1, <1>5, <1>6, <1>7

\* What the messages of z in hand have saved and not folded: u turns, by none
\* or by one.
LEMMA OwedIs ==
  ASSUME IsTyped, NEW z \in Patient, PatientInv(z)
  PROVE  \E u \in 0 .. 2 :
           /\ Exact(memory[z], u) /\ MissedByCrash(z) = u
           /\ Cardinality({d \in InHand(z) : Unfinished(d) > 0}) = IF u = 0 THEN 0 ELSE 1
<1> DEFINE A == {d \in InHand(z) : Unfinished(d) > 0}
           B == {d \in InHand(z) : Unfinished(d) = 2}
<1>1. MissedByCrash(z) = Cardinality(A) + Cardinality(B)
  BY DEF MissedByCrash
<1>2. Alone(z) /\ ExactNow(z) /\ z \in Session
  BY InboxAssumption DEF PatientInv
<1>3. CASE \A d \in Delivery : ~Talks(delivery[d], z)
  <2>1. A = {} /\ B = {}
    BY <1>2, <1>3, InHandIs
  <2>2. Exact(memory[z], 0)
    BY <1>2, <1>3 DEF ExactNow
  <2> HIDE DEF A, B
  <2>3. Cardinality(A) = 0 /\ Cardinality(B) = 0
    BY <2>1, FS_EmptySet
  <2>4. MissedByCrash(z) = 0
    BY <1>1, <2>3
  <2>5. 0 \in 0 .. 2
    OBVIOUS
  <2> QED
    BY <2>2, <2>3, <2>4, <2>5 DEF A
<1>4. ASSUME NEW d \in Delivery, Talks(delivery[d], z)
      PROVE  \E u \in 0 .. 2 : /\ Exact(memory[z], u) /\ MissedByCrash(z) = u
                               /\ Cardinality(A) = IF u = 0 THEN 0 ELSE 1
  <2> DEFINE u == Owes(delivery[d])
  <2>1. u \in 0 .. 2 /\ Unfinished(d) = u
    BY UnfinishedIs DEF Owes
  <2>2. Exact(memory[z], u)
    BY <1>2, <1>4 DEF ExactNow, ExactFor
  <2>3. \A e : e \in InHand(z) <=> e = d
    <3>1. \A e \in Delivery : Talks(delivery[e], z) => e = d
      BY <1>2, <1>4, Rows DEF Alone
    <3> QED
      BY <1>2, <1>4, <3>1, InHandIs
  <2> HIDE DEF u
  <2>4. /\ u = 0 => A = {} /\ B = {}
        /\ u = 1 => A = {d} /\ B = {}
        /\ u = 2 => A = {d} /\ B = {d}
    BY <2>1, <2>3
  <2> HIDE DEF A, B
  <2>5. Cardinality({}) = 0 /\ Cardinality({d}) = 1
    BY FS_EmptySet, FS_Singleton
  <2>6. MissedByCrash(z) = u /\ Cardinality(A) = IF u = 0 THEN 0 ELSE 1
    BY <1>1, <2>1, <2>4, <2>5
  <2> QED
    BY <2>1, <2>2, <2>6
<1> QED
  BY <1>3, <1>4

LEMMA PatientCrash ==
  ASSUME IsTyped, NEW z \in Patient, PatientInv(z), Crash
  PROVE  PatientInv(z)'
<1>1. /\ \A d \in Delivery : /\ ~Live(delivery'[d])
                             /\ delivery'[d].stage = "off" => delivery[d].stage = "off"
      /\ memory'[z] = Missed(memory[z], MissedByCrash(z))
  BY CrashIs, InboxAssumption
<1>2. \A e \in Delivery : Told(e, delivery[e], z, memory[z])
  BY DEF PatientInv
<1>3. memory[z] \in Conversations(Turn)
  BY InboxAssumption DEF IsTyped
<1>4. PICK u \in 0 .. 2 : Exact(memory[z], u) /\ MissedByCrash(z) = u
  BY OwedIs
<1>5. Exact(memory'[z], 0) /\ \A turn : Has(memory'[z], turn) => Has(memory[z], turn)
  <2>1. Exact(Missed(memory[z], u - 0), 0) /\ u - 0 = u
    BY <1>3, <1>4, ExactMissed
  <2>2. \A turn : Has(Missed(memory[z], u), turn) => Has(memory[z], turn)
    BY <1>3, HasMissed
  <2> QED
    BY <1>1, <1>4, <2>1, <2>2
<1>6. \A d \in Delivery : \A i : ~Waits(delivery'[d], i, z) /\ ~Talks(delivery'[d], z)
  BY <1>1 DEF Waits, Talks
<1>7. Alone(z)'
  BY <1>6 DEF Alone
<1>8. \A e \in Delivery : Told(e, delivery'[e], z, memory'[z])
  BY <1>1, <1>2, <1>5, <1>6 DEF Told
<1>9. ExactNow(z)'
  BY <1>5, <1>6 DEF ExactNow
<1> QED
  BY <1>7, <1>8, <1>9 DEF PatientInv

LEMMA PatientStep ==
  ASSUME IsTyped, NEW z \in Patient, PatientInv(z), [Next]_vars
  PROVE  PatientInv(z)'
<1>1. Forms
  BY NextForms
<1>2. ASSUME UNCHANGED <<memory, delivery>> PROVE PatientInv(z)'
  BY <1>2 DEF PatientInv, Alone, ExactNow
<1> QED
  BY <1>1, <1>2, PatientGoesOn, PatientGoesToNext, PatientComes, PatientExpires, PatientCrash DEF Forms

\* Outside of the window are the first turns.
LEMMA WindowIs ==
  ASSUME NEW m \in Conversations(Turn)
  PROVE  LET b == Before(Len(m.turns)) IN
         /\ Len(Outside(m)) = b /\ \A i \in 1 .. b : Outside(m)[i] = m.turns[i]
         /\ Len(Window(m)) = Len(m.turns) - b
         /\ \A i \in 1 .. Len(m.turns) - b : Window(m)[i] = m.turns[b + i]
<1> DEFINE n == Len(m.turns)
           b == Before(n)
           k == IF n < MaxTurns THEN n ELSE MaxTurns
           w == Window(m)
<1>1. n \in Nat /\ m.turns \in Seq(Turn) /\ MaxTurns \in Nat \ {0} /\ \A i \in 1 .. n : m.turns[i] \in Turn
  BY ConversationType, MemoryAssumption
<1>2. b \in Nat /\ b <= n /\ k = n - b
  <2> HIDE DEF n
  <2> QED
    BY <1>1 DEF Before
<1>3. Len(w) = k /\ \A i \in 1 .. k : w[i] = m.turns[n - k + i]
  BY <1>1, LastOfIs DEF Window
<1>4. Outside(m) = SubSeq(m.turns, 1, n - Len(w))
  BY DEF Outside
<1> HIDE DEF n, b, k, w
<1>5. n - Len(w) = b /\ n - k = b
  BY <1>1, <1>2, <1>3
<1>6. /\ Len(SubSeq(m.turns, 1, b)) = IF 1 <= b THEN b - 1 + 1 ELSE 0
      /\ \A i \in 1 .. b - 1 + 1 : SubSeq(m.turns, 1, b)[i] = m.turns[1 + i - 1]
  <2>1. \A i \in 1 .. b : m.turns[i] \in Turn
    BY <1>1, <1>2
  <2> QED
    BY <1>2, <2>1, SubSeqProperties
<1>7. Len(Outside(m)) = b /\ \A i \in 1 .. b : Outside(m)[i] = m.turns[i]
  BY <1>2, <1>4, <1>5, <1>6
<1>8. Len(w) = n - b /\ \A i \in 1 .. n - b : w[i] = m.turns[b + i]
  BY <1>2, <1>3, <1>5
<1> QED
  BY <1>7, <1>8 DEF n, b, w

LEMMA PatientExact == ASSUME IsTyped, \A z \in Patient : PatientInv(z) PROVE SummaryExact
<1> SUFFICES ASSUME NEW z \in Patient
             PROVE  LET m == memory[z]
                        outside == Outside(m)
                        unfolded == {i \in 1 .. Len(outside) :
                                       ~InSeq(outside[i], m.summary) /\ outside[i] \notin m.gone}
                        unfinished == {d \in InHand(z) : Unfinished(d) > 0} IN
                    /\ NoRepeat(m.summary)
                    /\ \A i \in 1 .. Len(Window(m)) : ~InSeq(Window(m)[i], m.summary)
                    /\ Cardinality(unfolded) <= m.missed + 2 * Cardinality(unfinished)
  BY DEF SummaryExact
<1> DEFINE m == memory[z]
           n == Len(m.turns)
           b == Before(n)
           unfinished == {d \in InHand(z) : Unfinished(d) > 0}
           unfolded == {i \in 1 .. Len(Outside(m)) :
                          ~InSeq(Outside(m)[i], m.summary) /\ Outside(m)[i] \notin m.gone}
<1>1. m \in Conversations(Turn)
  BY InboxAssumption DEF IsTyped
<1>2. PICK u \in 0 .. 2 : Exact(m, u) /\ Cardinality(unfinished) = IF u = 0 THEN 0 ELSE 1
  BY OwedIs
<1> HIDE DEF m, unfinished
<1>3. n \in Nat /\ m.missed \in Nat /\ b \in Nat /\ b <= n
  <2>1. n \in Nat /\ m.missed \in Nat
    BY <1>1, ConversationType
  <2> HIDE DEF n
  <2> QED
    BY <2>1, MemoryAssumption DEF Before
<1>4. /\ Len(Outside(m)) = b /\ \A i \in 1 .. b : Outside(m)[i] = m.turns[i]
      /\ Len(Window(m)) = n - b /\ \A i \in 1 .. n - b : Window(m)[i] = m.turns[b + i]
  BY <1>1, WindowIs
<1> DEFINE o == Missed(m, u)
<1>5. o.turns = m.turns /\ o.summary = m.summary /\ o.missed = m.missed + u /\ o.gone = m.gone
  BY <1>1, <1>2, MissedIs
<1>6. Exact(o, 0)
  <2>1. Exact(Missed(m, u - 0), 0) /\ u - 0 = u
    BY <1>1, <1>2, ExactMissed
  <2> QED
    BY <2>1
<1> HIDE DEF o
<1>7. /\ NoRepeat(m.summary)
      /\ \A i \in 1 .. n : i > b => ~InSeq(m.turns[i], m.summary)
      /\ Cardinality(Unfolded(o, b)) <= m.missed + u
  <2>1. Len(o.turns) - 0 = n /\ Len(o.turns) = n
    BY <1>3, <1>5
  <2> QED
    BY <1>5, <1>6, <2>1 DEF Exact
<1>8. Unfolded(o, b) = unfolded
  BY <1>4, <1>5 DEF Unfolded
<1>9. Cardinality(unfolded) \in Nat
  <2> HIDE DEF b, unfolded
  <2>1. b \in Int /\ Cardinality(Unfolded(o, b)) \in Nat
    BY <1>3, UnfoldedFinite
  <2> QED
    BY <1>8, <2>1
<1>10. \A i \in 1 .. Len(Window(m)) : ~InSeq(Window(m)[i], m.summary)
  <2> SUFFICES ASSUME NEW i \in 1 .. n - b PROVE ~InSeq(m.turns[b + i], m.summary)
    BY <1>4
  <2>1. b + i \in 1 .. n /\ b + i > b
    BY <1>3
  <2> QED
    BY <1>7, <2>1
<1>11. Cardinality(unfolded) <= m.missed + 2 * Cardinality(unfinished)
  <2>1. Cardinality(unfolded) <= m.missed + u
    BY <1>7, <1>8
  <2> HIDE DEF unfolded
  <2> QED
    BY <1>2, <1>3, <1>9, <2>1
<1> QED
  BY <1>7, <1>10, <1>11 DEF m, unfinished

PatientsInv == \A z \in Patient : PatientInv(z)

LEMMA FunctionIsSeq ==
  ASSUME NEW n \in Nat, NEW S, NEW f, f = [i \in 1 .. n |-> f[i]], \A i \in 1 .. n : f[i] \in S
  PROVE  f \in Seq(S) /\ Len(f) = n
<1>1. /\ [i \in 1 .. n |-> f[i]] \in Seq(S)
      /\ Len([i \in 1 .. n |-> f[i]]) = n
  BY IsASeq
<1> QED
  BY <1>1, Zenon

\* A session begins with exchanges of old, all in the window.
LEMMA InitTurns ==
  ASSUME NEW T, T = [i \in 1 .. 2 * Earlier |-> <<0, (i + 1) \div 2, IF i % 2 = 1 THEN "user" ELSE "assistant">>]
  PROVE  /\ T \in Seq(Turn) /\ Len(T) = 2 * Earlier /\ NoRepeat(T)
         /\ \A i \in 1 .. Len(T) : T[i][1] = 0
<1> DEFINE l == 2 * Earlier
<1>1. l \in Nat /\ Earlier \in Nat
  BY InboxAssumption
<1>2. ASSUME NEW i \in 1 .. l PROVE T[i] \in Turn /\ T[i][1] = 0
  <2>1. (i + 1) \div 2 \in 1 .. Earlier
    BY <1>1
  <2> DEFINE role == IF i % 2 = 1 THEN "user" ELSE "assistant"
             x == (i + 1) \div 2
  <2>2. role \in Role
    BY DEF Role
  <2>3. T[i] = <<0, x, role>>
    OBVIOUS
  <2> HIDE DEF role, x
  <2> QED
    BY <2>1, <2>2, <2>3 DEF Turn, x
<1>3. T = [i \in 1 .. l |-> T[i]]
  OBVIOUS
<1>4. T \in Seq(Turn) /\ Len(T) = l
  <2> HIDE DEF l
  <2>1. \A i \in 1 .. l : T[i] \in Turn
    BY <1>2
  <2>2. ASSUME NEW f, f = [i \in 1 .. l |-> f[i]], \A i \in 1 .. l : f[i] \in Turn
        PROVE  f \in Seq(Turn) /\ Len(f) = l
    BY <1>1, <2>2, FunctionIsSeq, Zenon
  <2> QED
    BY <1>3, <2>1, <2>2, Zenon
<1>5. ASSUME NEW i \in 1 .. l, NEW j \in 1 .. l, T[i] = T[j] PROVE i = j
  <2>1. (i + 1) \div 2 = (j + 1) \div 2
    BY <1>5
  <2>2. i % 2 = 1 <=> j % 2 = 1
    BY <1>5
  <2>3. i \in Int /\ j \in Int
    BY <1>1
  <2> HIDE DEF l
  <2> QED
    BY <2>1, <2>2, <2>3
<1> QED
  BY <1>2, <1>4, <1>5 DEF NoRepeat

LEMMA InitInv == ASSUME Init PROVE IsTyped /\ RememberedInv /\ PatientsInv
<1> DEFINE T == [i \in 1 .. 2 * Earlier |-> <<0, (i + 1) \div 2, IF i % 2 = 1 THEN "user" ELSE "assistant">>]
           c == [NoConversation EXCEPT !.turns = T]
<1>1. memory = [s \in Session |-> c] /\ delivery = [d \in Delivery |-> NoDelivery] /\ answered = {} /\ upsets = 0
  BY DEF Init
<1>2. T \in Seq(Turn) /\ Len(T) = 2 * Earlier /\ NoRepeat(T) /\ \A i \in 1 .. Len(T) : T[i][1] = 0
  BY InitTurns
<1> HIDE DEF T
<1> DEFINE empty == {}
<1>3. c = [turns |-> T, summary |-> <<>>, missed |-> 0, gone |-> empty]
  <2>1. NoConversation = [turns |-> <<>>, summary |-> <<>>, missed |-> 0, gone |-> empty]
    BY DEF NoConversation
  <2> HIDE DEF empty
  <2> QED
    BY <2>1
<1>4. c \in Conversations(Turn) /\ c.turns = T /\ c.summary = <<>> /\ c.missed = 0 /\ c.gone = {}
  <2>1. <<>> \in Seq(Turn)
    OBVIOUS
  <2> DEFINE e == <<>>
  <2>2. c = [turns |-> T, summary |-> e, missed |-> 0, gone |-> empty] /\ e \in Seq(Turn) /\ empty \in SUBSET Turn
    BY <1>3, <2>1
  <2> HIDE DEF c, e, empty
  <2>3. c \in Conversations(Turn) /\ c.turns = T /\ c.summary = e /\ c.missed = 0 /\ c.gone = empty
    BY <1>2, <2>2 DEF Conversations
  <2> QED
    BY <2>3 DEF e, empty
<1> HIDE DEF c
<1>5. NoDelivery.stage = "off" /\ ~Live(NoDelivery)
  BY DEF NoDelivery, Live, Ended
<1>6. IsTyped
  <2>1. delivery \in [Delivery -> Deliveries]
    BY <1>1, NoDeliveryType
  <2>2. \A d \in Delivery : Placed(delivery[d])
    BY <1>1, <1>5 DEF Placed
  <2> QED
    BY <1>1, <1>4, <2>1, <2>2, InboxAssumption DEF IsTyped
<1>7. RememberedInv
  BY <1>1, <1>5 DEF RememberedInv
<1>8. \A s : ~InSeq(s, c.summary)
  BY <1>4 DEF InSeq
<1>9. \A t : Has(c, t) => t[1] = 0
  BY <1>2, <1>4, <1>8 DEF Has, InSeq
<1>10. Exact(c, 0)
  <2>1. NoRepeat(c.turns) /\ NoRepeat(c.summary)
    BY <1>2, <1>4 DEF NoRepeat
  <2>2. Len(c.turns) - 0 = 2 * Earlier /\ Before(2 * Earlier) = 0
    BY <1>2, <1>4, InboxAssumption, MemoryAssumption DEF Before
  <2>3. Unfolded(c, 0) = {}
    BY DEF Unfolded
  <2>4. Cardinality(Unfolded(c, 0)) = 0
    BY <2>3, FS_EmptySet
  <2> QED
    BY <1>4, <1>8, <2>1, <2>2, <2>4 DEF Exact
<1>11. ASSUME NEW z \in Patient PROVE PatientInv(z)
  <2>1. memory[z] = c
    BY <1>1, InboxAssumption
  <2>2. \A d \in Delivery : delivery[d] = NoDelivery /\ ~Live(delivery[d])
    BY <1>1, <1>5
  <2>3. Alone(z)
    BY <2>2 DEF Alone, Waits
  <2>4. 0 \notin Delivery
    BY DEF Delivery
  <2>5. \A d \in Delivery : Told(d, delivery[d], z, memory[z])
    BY <1>9, <2>1, <2>4 DEF Told
  <2>6. ExactNow(z)
    BY <1>10, <2>1, <2>2 DEF ExactNow, Talks
  <2> QED
    BY <2>3, <2>5, <2>6 DEF PatientInv
<1> QED
  BY <1>6, <1>7, <1>11 DEF PatientsInv

LEMMA Invariants == Spec => [](IsTyped /\ RememberedInv /\ PatientsInv)
<1>1. IsTyped /\ RememberedInv /\ PatientsInv /\ [Next]_vars => (IsTyped /\ RememberedInv /\ PatientsInv)'
  <2> SUFFICES ASSUME IsTyped, RememberedInv, PatientsInv, [Next]_vars
               PROVE  (IsTyped /\ RememberedInv /\ PatientsInv)'
    OBVIOUS
  <2>1. IsTyped' /\ RememberedInv'
    BY TypedStep, RememberedStep
  <2>2. PatientsInv'
    BY PatientStep DEF PatientsInv
  <2> QED
    BY <2>1, <2>2
<1> QED
  BY <1>1, InitInv, PTL DEF Spec

\* The requests and the conversations keep their types, and what is left of a
\* request are messages of it (agent_channels.py:104-185, memory.py:127-297).
THEOREM InboxTyped == Spec => []TypeOK
<1>1. Spec => []FeedTypeOK
  BY InboxImplementsFeed, FeedTyped, PTL
<1>2. IsTyped /\ FeedTypeOK => TypeOK
  BY DEF IsTyped, TypeOK
<1> QED
  BY <1>1, <1>2, Invariants, PTL

\* In a session that waits for its answers the summary is exact, whatever the
\* window, the requests, the failures, the crashes and the keys that expire
\* (memory.py:272-297).
THEOREM SummaryIsExact == Spec => []SummaryExact
<1>1. IsTyped /\ PatientsInv => SummaryExact
  BY PatientExact DEF PatientsInv
<1> QED
  BY <1>1, Invariants, PTL

LEMMA AnswerStep ==
  ASSUME IsTyped, RememberedInv, [Next]_vars
  PROVE  \A p \in answered' \ answered :
           \E i, j \in 1 .. Len(memory'[From[p[2]]].turns) :
             /\ i < j
             /\ memory'[From[p[2]]].turns[i] = <<p[1], p[2], "user">>
             /\ memory'[From[p[2]]].turns[j] = <<p[1], p[2], "assistant">>
<1> SUFFICES ASSUME NEW p \in answered' \ answered
             PROVE  \E i, j \in 1 .. Len(memory'[From[p[2]]].turns) :
                      /\ i < j
                      /\ memory'[From[p[2]]].turns[i] = <<p[1], p[2], "user">>
                      /\ memory'[From[p[2]]].turns[j] = <<p[1], p[2], "assistant">>
  OBVIOUS
<1>1. PICK d \in Delivery : /\ Send(d) /\ ~delivery[d].blocked /\ p = <<d, Current(d)>>
  BY DEF Next, Process, Run, Ask, SaveUser, SaveAssistant, ReadHistory, ReadSummary, SaveSummary, Send, Apologise,
         Accept, Refuse, TurnsExpire, SummaryExpires, Crash, Watch, vars
<1> DEFINE k == delivery[d]
<1>2. k.stage = "sending" /\ Live(k) /\ memory' = memory /\ Current(d) = Cur(k)
  BY <1>1, Instances DEF Send, At, Live, Ended
<1>3. Remembered(d, k, memory[From[Cur(k)]])
  BY <1>2 DEF RememberedInv
<1>4. InOrder(<<d, Cur(k), "user">>, <<d, Cur(k), "assistant">>, memory[From[Cur(k)]].turns)
  BY <1>1, <1>2, <1>3 DEF Remembered
<1>5. p[1] = d /\ p[2] = Cur(k) /\ memory' = memory
  BY <1>1, <1>2
<1> HIDE DEF k
<1> QED
  BY <1>4, <1>5 DEF InOrder

\* Whoever was answered is remembered, in every session, patient or not
\* (engine.py:1831-1868, agent_channels.py:77-101).
THEOREM AnswersRemembered == Spec => AnsweredIsRemembered
<1>1. IsTyped /\ RememberedInv /\ [Next]_vars =>
        \A p \in answered' \ answered :
          \E i, j \in 1 .. Len(memory'[From[p[2]]].turns) :
            /\ i < j
            /\ memory'[From[p[2]]].turns[i] = <<p[1], p[2], "user">>
            /\ memory'[From[p[2]]].turns[j] = <<p[1], p[2], "assistant">>
  BY AnswerStep
<1> QED
  BY <1>1, Invariants, PTL DEF Spec, AnsweredIsRemembered

=============================================================================
