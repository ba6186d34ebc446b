-------------------------- MODULE RunStreamProofs --------------------------
(***************************************************************************)
(* Proofs about RunStream, for a queue of any size and any number of       *)
(* messages, events and calls: the socket is typed, and what it shows of a *)
(* run is the run (ExchangeExact).                                         *)
(*                                                                         *)
(* What is inductive speaks of the whole pipe, from the client back to the *)
(* queue; the client's end of it is reached when the handler leaves the    *)
(* loop, because the pipe then holds nothing else.                         *)
(***************************************************************************)
EXTENDS RunStream, SequenceTheorems, TLAPS

\* InOrder, of any sequence.
Ordered(p, r, m, d) ==
  /\ \A i \in 1 .. Len(p) : p[i].run = r
  /\ \A i, j \in 1 .. Len(p) : i < j => p[i].n < p[j].n
  /\ {p[i].n : i \in 1 .. Len(p)} = (1 .. m) \ d

\* Where the handler is says what it holds and what the run may still do.
Phases ==
  /\ handler = "streaming" => held = <<>>
  /\ handler \in {"streaming", "sending", "unwinding", "answering"} => last = "status"
  /\ handler = "answering" \/ Final => Ended
  /\ NoRunAlone

\* An ended run has no calls that somebody waits for.
Settled == Ended => \A c \in open : c.run = runs => c \in torn

Paired == dropped = {} => Answered(Pipe, open \cup torn)

Shown == handler = "answering" \/ Final => Flushed /\ (dropped = {} => Answered(seen, torn))

IInv ==
  /\ TypeOK /\ ended <= emitted
  /\ Ordered(Pipe, runs, emitted, dropped)
  /\ Phases /\ Settled /\ Paired /\ Shown

-----------------------------------------------------------------------------
(* Sequences of events.                                                    *)

LEMMA PipeAppend ==
  ASSUME NEW s \in Seq(Event), NEW h \in Seq(Event), NEW q \in Seq(Event), NEW e \in Event
  PROVE  /\ (s \o h) \o Append(q, e) = Append((s \o h) \o q, e)
         /\ (s \o h) \o q \in Seq(Event)
<1>1. s \o h \in Seq(Event) /\ (s \o h) \o q \in Seq(Event) /\ <<e>> \in Seq(Event)
  BY ConcatProperties
<1>2. Append(q, e) = q \o <<e>> /\ Append((s \o h) \o q, e) = ((s \o h) \o q) \o <<e>>
  BY <1>1, AppendIsConcat
<1>3. ((s \o h) \o q) \o <<e>> = (s \o h) \o (q \o <<e>>)
  BY <1>1, ConcatAssociative
<1> QED
  BY <1>1, <1>2, <1>3

\* An event is taken from the queue and sent.
LEMMA PipeTake ==
  ASSUME NEW s \in Seq(Event), NEW q \in Seq(Event), q # <<>>
  PROVE  /\ (s \o <<Head(q)>>) \o Tail(q) = (s \o <<>>) \o q
         /\ <<Head(q)>> \in Seq(Event) /\ Tail(q) \in Seq(Event)
<1>1. Head(q) \in Event /\ Tail(q) \in Seq(Event) /\ <<Head(q)>> \in Seq(Event)
  BY HeadTailProperties
<1>2. <<Head(q)>> \o Tail(q) = q
  BY <1>1, ConcatProperties, HeadTailProperties, SeqEqual
<1>3. (s \o <<Head(q)>>) \o Tail(q) = s \o (<<Head(q)>> \o Tail(q))
  BY <1>1, ConcatAssociative
<1>4. s \o <<>> = s
  BY ConcatEmptySeq
<1> QED
  BY <1>1, <1>2, <1>3, <1>4

LEMMA PipeSend ==
  ASSUME NEW s \in Seq(Event), NEW h \in Seq(Event)
  PROVE  (s \o h) \o <<>> = s \o h /\ s \o h \in Seq(Event)
<1>1. s \o h \in Seq(Event)
  BY ConcatProperties
<1> QED
  BY <1>1, ConcatEmptySeq

LEMMA OrderedAppend ==
  ASSUME NEW p \in Seq(Event), NEW r, NEW m \in Nat, NEW d \in SUBSET (1 .. m),
         Ordered(p, r, m, d), NEW e \in Event, e.run = r, e.n = m + 1
  PROVE  Ordered(Append(p, e), r, m + 1, d)
<1> DEFINE a == Append(p, e)
<1>1. /\ Len(a) = Len(p) + 1 /\ Len(p) \in Nat
      /\ \A i \in 1 .. Len(p) : a[i] = p[i]
      /\ a[Len(p) + 1] = e
  BY AppendProperties, LenProperties
<1>2. \A i \in 1 .. Len(p) : p[i].n \in (1 .. m) \ d
  BY DEF Ordered
<1> HIDE DEF a
<1>3. \A i \in 1 .. Len(a) : a[i].run = r
  BY <1>1 DEF Ordered
<1>4. \A i, j \in 1 .. Len(a) : i < j => a[i].n < a[j].n
  <2> TAKE i \in 1 .. Len(a), j \in 1 .. Len(a)
  <2> HAVE i < j
  <2>1. i \in 1 .. Len(p)
    BY <1>1
  <2>2. CASE j = Len(p) + 1
    BY <1>1, <1>2, <2>1, <2>2
  <2>3. CASE j \in 1 .. Len(p)
    BY <1>1, <2>1, <2>3 DEF Ordered
  <2> QED
    BY <1>1, <2>2, <2>3
<1>5. {a[i].n : i \in 1 .. Len(a)} = (1 .. m + 1) \ d
  <2>1. {a[i].n : i \in 1 .. Len(a)} = {p[i].n : i \in 1 .. Len(p)} \cup {m + 1}
    BY <1>1
  <2>2. (1 .. m + 1) \ d = ((1 .. m) \ d) \cup {m + 1}
    OBVIOUS
  <2> QED
    BY <2>1, <2>2 DEF Ordered
<1> QED
  BY <1>3, <1>4, <1>5 DEF Ordered, a

LEMMA OrderedDrop ==
  ASSUME NEW p \in Seq(Event), NEW r, NEW m \in Nat, NEW d \in SUBSET (1 .. m), Ordered(p, r, m, d)
  PROVE  Ordered(p, r, m + 1, d \cup {m + 1})
<1>1. (1 .. m + 1) \ (d \cup {m + 1}) = (1 .. m) \ d
  OBVIOUS
<1> QED
  BY <1>1 DEF Ordered

\* More may be excepted.
LEMMA AnsweredMore ==
  ASSUME NEW p, NEW S, NEW T, S \subseteq T, Answered(p, S)
  PROVE  Answered(p, T)
BY DEF Answered

\* Appending keeps the pairs there are.
LEMMA AnsweredAppend ==
  ASSUME NEW p \in Seq(Event), NEW e \in Event, NEW S, Answered(p, S),
         e.what = "tool_call" => [run |-> e.run, call |-> e.call] \in S
  PROVE  Answered(Append(p, e), S)
<1> DEFINE a == Append(p, e)
<1>1. /\ Len(a) = Len(p) + 1 /\ Len(p) \in Nat
      /\ \A i \in 1 .. Len(p) : a[i] = p[i]
      /\ a[Len(p) + 1] = e
  BY AppendProperties, LenProperties
<1> HIDE DEF a
<1>2. ASSUME NEW i \in 1 .. Len(a)
      PROVE  \/ a[i].what # "tool_call"
             \/ [run |-> a[i].run, call |-> a[i].call] \in S
             \/ \E j \in i + 1 .. Len(a) : a[j].what = "tool_result" /\ a[j].call = a[i].call
  <2>1. CASE i = Len(p) + 1
    BY <1>1, <2>1
  <2>2. CASE i \in 1 .. Len(p)
    <3>1. CASE \E j \in i + 1 .. Len(p) : p[j].what = "tool_result" /\ p[j].call = p[i].call
      <4>1. PICK j \in i + 1 .. Len(p) : p[j].what = "tool_result" /\ p[j].call = p[i].call
        BY <3>1
      <4>2. j \in i + 1 .. Len(a) /\ j \in 1 .. Len(p)
        BY <1>1, <2>2
      <4> QED
        BY <1>1, <2>2, <4>1, <4>2
    <3>2. CASE p[i].what # "tool_call" \/ [run |-> p[i].run, call |-> p[i].call] \in S
      BY <1>1, <2>2, <3>2
    <3> QED
      BY <2>2, <3>1, <3>2 DEF Answered
  <2> QED
    BY <1>1, <2>1, <2>2
<1> QED
  BY <1>2 DEF Answered, a

\* A result pairs its call.
LEMMA AnsweredReturn ==
  ASSUME NEW p \in Seq(Event), NEW e \in Event, NEW S, NEW c \in ToolCall, Answered(p, S),
         e.what = "tool_result", e.call = c.call
  PROVE  Answered(Append(p, e), S \ {c})
<1> DEFINE a == Append(p, e)
<1>1. /\ Len(a) = Len(p) + 1 /\ Len(p) \in Nat
      /\ \A i \in 1 .. Len(p) : a[i] = p[i]
      /\ a[Len(p) + 1] = e
  BY AppendProperties, LenProperties
<1>2. Answered(a, S)
  BY AnsweredAppend
<1> HIDE DEF a
<1>3. ASSUME NEW i \in 1 .. Len(a)
      PROVE  \/ a[i].what # "tool_call"
             \/ [run |-> a[i].run, call |-> a[i].call] \in S \ {c}
             \/ \E j \in i + 1 .. Len(a) : a[j].what = "tool_result" /\ a[j].call = a[i].call
  <2>1. CASE [run |-> a[i].run, call |-> a[i].call] = c /\ i # Len(a)
    <3>1. a[i].call = c.call
      BY <2>1
    <3>2. Len(a) \in i + 1 .. Len(a)
      BY <1>1, <2>1
    <3> QED
      BY <1>1, <3>1, <3>2
  <2>2. CASE i = Len(a)
    BY <1>1, <2>2
  <2>3. CASE [run |-> a[i].run, call |-> a[i].call] # c
    BY <1>2, <2>3 DEF Answered
  <2> QED
    BY <2>1, <2>2, <2>3
<1> QED
  BY <1>3 DEF Answered, a

\* Calls of other runs are not in it.
LEMMA AnsweredOther ==
  ASSUME NEW p, NEW r, NEW S, NEW c, c.run # r, Answered(p, S),
         \A i \in 1 .. Len(p) : p[i].run = r
  PROVE  Answered(p, S \ {c})
<1>1. ASSUME NEW i \in 1 .. Len(p)
      PROVE  [run |-> p[i].run, call |-> p[i].call] # c
  OBVIOUS
<1> QED
  BY <1>1 DEF Answered

-----------------------------------------------------------------------------
(* The steps of the run.                                                   *)

LEMMA InitHolds == Init => IInv
<1> SUFFICES ASSUME Init PROVE IInv
  OBVIOUS
<1>1. <<>> \in Seq(Event) /\ Len(<<>>) = 0
  BY EmptySeq
<1>2. Pipe = <<>>
  BY <1>1, ConcatEmptySeq DEF Init, Pipe
<1>3. TypeOK /\ ended <= emitted
  BY <1>1, StreamAssumption DEF Init, TypeOK
<1>4. Ordered(Pipe, runs, emitted, dropped)
  BY <1>1, <1>2 DEF Init, Ordered
<1>5. Phases /\ Settled /\ Shown
  BY DEF Init, Phases, Settled, Shown, NoRunAlone, Final, Ended
<1>6. Paired
  BY <1>1, <1>2 DEF Paired, Answered
<1> QED
  BY <1>3, <1>4, <1>5, <1>6 DEF IInv

\* An event of the current run comes to the end of the pipe, or is dropped.
LEMMA EmitSteps ==
  ASSUME TypeOK, Ordered(Pipe, runs, emitted, dropped),
         NEW what \in {"token", "tool_call", "tool_result"}, NEW call \in Nat,
         Emit(runs, what, call), UNCHANGED <<seen, held, runs>>
  PROVE  LET e == [run |-> runs, n |-> emitted + 1, what |-> what, call |-> call] IN
         /\ e \in Event
         /\ Pipe \in Seq(Event) /\ queue' \in Seq(Event) /\ emitted' = emitted + 1
         /\ dropped \subseteq dropped' /\ dropped' \subseteq 1 .. emitted'
         /\ Ordered(Pipe', runs, emitted', dropped')
         /\ dropped' # {} \/ Pipe' = Append(Pipe, e)
<1> DEFINE e == [run |-> runs, n |-> emitted + 1, what |-> what, call |-> call]
<1>1. /\ emitted \in Nat /\ dropped \in SUBSET (1 .. emitted) /\ runs \in Nat
      /\ seen \in Seq(Event) /\ held \in Seq(Event) /\ queue \in Seq(Event)
  BY DEF TypeOK
<1>2. e \in Event /\ e.run = runs /\ e.n = emitted + 1
  BY <1>1 DEF Event
<1>3. emitted' = emitted + 1 /\ Put(e)
  BY DEF Emit, Reaches
<1> HIDE DEF e
<1>4. /\ (seen \o held) \o Append(queue, e) = Append(Pipe, e)
      /\ Pipe \in Seq(Event)
  BY <1>1, <1>2, PipeAppend DEF Pipe
<1>5. CASE queue' = Append(queue, e) /\ dropped' = dropped
  <2>1. Pipe' = Append(Pipe, e)
    BY <1>4, <1>5 DEF Pipe
  <2>2. Ordered(Append(Pipe, e), runs, emitted + 1, dropped)
    BY <1>1, <1>2, <1>4, OrderedAppend
  <2>3. queue' \in Seq(Event)
    BY <1>1, <1>2, <1>5, AppendProperties
  <2> QED
    BY <1>1, <1>2, <1>3, <1>4, <1>5, <2>1, <2>2, <2>3 DEF e
<1>6. CASE dropped' = dropped \cup {e.n} /\ queue' = queue
  <2>1. Pipe' = Pipe
    BY <1>6 DEF Pipe
  <2>2. Ordered(Pipe, runs, emitted + 1, dropped \cup {emitted + 1})
    BY <1>1, <1>4, OrderedDrop
  <2> QED
    BY <1>1, <1>2, <1>3, <1>4, <1>6, <2>1, <2>2 DEF e
<1> QED
  BY <1>3, <1>5, <1>6 DEF Put

LEMMA Emitting ==
  ASSUME IInv, Quiet, UNCHANGED <<run, ended>>,
         NEW what \in {"token", "tool_call", "tool_result"}, NEW call \in Nat,
         Emit(runs, what, call),
         open' \subseteq ToolCall, torn' \subseteq ToolCall, strays' \subseteq Nat, Settled',
         torn \subseteq torn',
         \/ /\ open \cup torn \subseteq open' \cup torn'
            /\ what = "tool_call" => [run |-> runs, call |-> call] \in open' \cup torn'
         \/ /\ what = "tool_result"
            /\ \E c \in open : c.call = call /\ (open \cup torn) \ {c} \subseteq open' \cup torn'
  PROVE  IInv'
<1> DEFINE e == [run |-> runs, n |-> emitted + 1, what |-> what, call |-> call]
<1>1. UNCHANGED <<handler, held, last, seen, client, inbox, asked, run, runs, ended>>
  BY DEF Quiet, exchange
<1>2. TypeOK /\ Ordered(Pipe, runs, emitted, dropped) /\ Phases /\ Paired /\ Shown /\ ended <= emitted
  BY DEF IInv
<1>3. /\ e \in Event
      /\ Pipe \in Seq(Event) /\ queue' \in Seq(Event) /\ emitted' = emitted + 1
      /\ dropped \subseteq dropped' /\ dropped' \subseteq 1 .. emitted'
      /\ Ordered(Pipe', runs, emitted', dropped')
      /\ dropped' # {} \/ Pipe' = Append(Pipe, e)
  BY <1>1, <1>2, EmitSteps
<1>4. e.run = runs /\ e.what = what /\ e.call = call
  OBVIOUS
<1> HIDE DEF e
<1>5. TypeOK' /\ (ended <= emitted)'
  BY <1>1, <1>2, <1>3 DEF TypeOK
<1>6. Ordered(Pipe, runs, emitted, dropped)'
  BY <1>1, <1>3
<1>7. Phases'
  BY <1>1, <1>2 DEF Phases, NoRunAlone, Final, Ended
<1>8. Paired'
  <2> SUFFICES ASSUME dropped' = {} PROVE Answered(Pipe', open' \cup torn')
    BY DEF Paired
  <2>1. Pipe' = Append(Pipe, e) /\ Answered(Pipe, open \cup torn)
    BY <1>2, <1>3 DEF Paired
  <2>2. CASE /\ open \cup torn \subseteq open' \cup torn'
             /\ what = "tool_call" => [run |-> runs, call |-> call] \in open' \cup torn'
    <3>1. Answered(Pipe, open' \cup torn')
      BY <2>1, <2>2, AnsweredMore
    <3> QED
      BY <1>3, <1>4, <2>1, <2>2, <3>1, AnsweredAppend
  <2>3. ASSUME what = "tool_result", NEW c \in open, c.call = call,
               (open \cup torn) \ {c} \subseteq open' \cup torn'
        PROVE  Answered(Pipe', open' \cup torn')
    <3>1. c \in ToolCall
      BY <1>2 DEF TypeOK
    <3>2. Answered(Append(Pipe, e), (open \cup torn) \ {c})
      BY <1>3, <1>4, <2>1, <2>3, <3>1, AnsweredReturn
    <3> QED
      BY <2>1, <2>3, <3>2, AnsweredMore
  <2> QED
    BY <2>2, <2>3
<1>9. Shown'
  <2>1. (handler = "answering" \/ Final)' => handler = "answering" \/ Final
    BY <1>1 DEF Final
  <2>2. Flushed => Flushed'
    BY <1>1, <1>3 DEF Flushed
  <2>3. dropped' = {} /\ Answered(seen, torn) => Answered(seen', torn')
    BY <1>1, AnsweredMore
  <2>4. dropped' = {} => dropped = {}
    BY <1>3
  <2> QED
    BY <1>2, <2>1, <2>2, <2>3, <2>4 DEF Shown
<1> QED
  BY <1>5, <1>6, <1>7, <1>8, <1>9 DEF IInv

LEMMA TokenHolds == IInv /\ Token => IInv'
<1> SUFFICES ASSUME IInv, Token PROVE IInv'
  OBVIOUS
<1>1. /\ Quiet /\ UNCHANGED <<run, ended>> /\ Emit(runs, "token", 0)
      /\ open' = open /\ torn' = torn /\ strays' = strays /\ runs' = runs
  BY DEF Token, Quiet, calls
<1>2. open' \subseteq ToolCall /\ torn' \subseteq ToolCall /\ strays' \subseteq Nat
  BY <1>1 DEF IInv, TypeOK
<1>3. Settled'
  BY <1>1 DEF IInv, Settled, Ended
<1> QED
  BY <1>1, <1>2, <1>3, Emitting

LEMMA AnnounceHolds == ASSUME IInv, NEW stray \in BOOLEAN, Announce(stray) PROVE IInv'
<1> DEFINE c == [run |-> runs, call |-> emitted + 1]
<1>1. /\ Quiet /\ UNCHANGED <<run, ended>> /\ Emit(runs, "tool_call", emitted + 1)
      /\ open' = open \cup {c} /\ torn' = IF stray THEN torn \cup {c} ELSE torn
      /\ strays' = strays /\ runs' = runs
      /\ stray \/ run = "working"
  BY DEF Announce, Quiet
<1>2. emitted + 1 \in Nat \ {0} /\ runs \in Nat
  BY DEF IInv, TypeOK
<1>3. c \in ToolCall /\ c.run = runs
  BY <1>2 DEF ToolCall
<1>4. open' \subseteq ToolCall /\ torn' \subseteq ToolCall /\ strays' \subseteq Nat
  BY <1>1, <1>3 DEF IInv, TypeOK
<1>5. Settled'
  BY <1>1 DEF IInv, Settled, Ended
<1>6. c \in open' \cup torn' /\ open \cup torn \subseteq open' \cup torn' /\ torn \subseteq torn'
  BY <1>1
<1> QED
  BY <1>1, <1>2, <1>4, <1>5, <1>6, Emitting

\* The queue of another run is not this one.
LEMMA ReturnHolds == ASSUME IInv, NEW c \in open, Return(c) PROVE IInv'
<1>1. /\ Quiet /\ UNCHANGED <<run, ended>> /\ Emit(c.run, "tool_result", c.call)
      /\ open' = open \ {c} /\ torn' = torn /\ strays' = strays /\ runs' = runs
  BY DEF Return, Tell, Quiet
<1>2. TypeOK /\ Settled
  BY DEF IInv
<1>3. c \in ToolCall /\ c.call \in Nat
  BY <1>2 DEF TypeOK, ToolCall
<1>4. open' \subseteq ToolCall /\ torn' \subseteq ToolCall /\ strays' \subseteq Nat
  BY <1>1, <1>2 DEF TypeOK
<1>5. Settled'
  BY <1>1, <1>2 DEF Settled, Ended
<1>6. CASE c.run = runs
  <2>1. (open \cup torn) \ {c} \subseteq open' \cup torn'
    BY <1>1
  <2> QED
    BY <1>1, <1>3, <1>4, <1>5, <1>6, <2>1, Emitting
<1>7. CASE c.run # runs
  <2>1. UNCHANGED <<queue, emitted, dropped, handler, held, last, seen, client, inbox, asked, run, runs, ended>>
    BY <1>1, <1>7 DEF Emit, Reaches, stream, Quiet, exchange
  <2>2. TypeOK' /\ (ended <= emitted)' /\ Phases' /\ Shown' /\ Ordered(Pipe, runs, emitted, dropped)'
    <3>1. Pipe' = Pipe
      BY <2>1 DEF Pipe
    <3> QED
      BY <1>1, <1>4, <2>1, <3>1
         DEF IInv, TypeOK, Phases, NoRunAlone, Final, Ended, Shown, Flushed
  <2>3. Paired'
    <3> SUFFICES ASSUME dropped = {} PROVE Answered(Pipe, open' \cup torn')
      BY <2>1 DEF Paired, Pipe
    <3>1. Answered(Pipe, open \cup torn) /\ \A i \in 1 .. Len(Pipe) : Pipe[i].run = runs
      BY DEF IInv, Paired, Ordered
    <3>2. Answered(Pipe, (open \cup torn) \ {c})
      BY <1>7, <3>1, AnsweredOther
    <3> QED
      BY <1>1, <3>2, AnsweredMore
  <2> QED
    BY <1>5, <2>2, <2>3 DEF IInv
<1> QED
  BY <1>6, <1>7

\* What does not touch the pipe.
LEMMA PipeStays == UNCHANGED <<seen, held, queue>> => Pipe' = Pipe
BY DEF Pipe

LEMMA TearHolds == IInv /\ Tear => IInv'
<1> SUFFICES ASSUME IInv, Tear PROVE IInv'
  OBVIOUS
<1>1. /\ UNCHANGED <<handler, held, last, seen, client, inbox, asked, run, runs, ended>>
      /\ UNCHANGED <<queue, emitted, dropped, open>>
      /\ strays' = strays \cup {runs} /\ torn' = torn \cup {c \in open : c.run = runs}
  BY DEF Tear, Quiet, exchange, stream
<1>2. TypeOK'
  BY <1>1 DEF IInv, TypeOK
<1>3. Ordered(Pipe, runs, emitted, dropped)' /\ Phases' /\ Settled' /\ (ended <= emitted)'
  BY <1>1, PipeStays DEF IInv, Phases, NoRunAlone, Final, Ended, Settled, Tear
<1>4. torn \subseteq torn' /\ open \cup torn \subseteq open' \cup torn'
  BY <1>1
<1>5. Paired'
  BY <1>1, <1>4, PipeStays, AnsweredMore DEF IInv, Paired
<1>6. Shown'
  <2>1. Answered(seen, torn) => Answered(seen', torn')
    BY <1>1, <1>4, AnsweredMore
  <2> QED
    BY <1>1, <2>1 DEF IInv, Shown, Flushed, Final
<1> QED
  BY <1>2, <1>3, <1>5, <1>6 DEF IInv

LEMMA RestHolds ==
  IInv /\ ((\E r \in strays : StrayEnds(r)) \/ Expire \/ (\E m \in {"query", "garbage"} : Ask(m)) \/ Leave) => IInv'
<1> SUFFICES ASSUME IInv,
                    \/ \E r \in strays : StrayEnds(r)
                    \/ Expire
                    \/ \E m \in {"query", "garbage"} : Ask(m)
                    \/ Leave
             PROVE  IInv'
  OBVIOUS
<1>1. /\ UNCHANGED <<handler, held, last, seen, runs, ended, queue, emitted, dropped, open, torn>>
      /\ run' = run \/ (run = "working" /\ run' = "expiring")
      /\ strays' \subseteq strays
  BY DEF StrayEnds, Expire, Ask, Leave, Quiet, exchange, stream, calls
<1>2. inbox' \in Seq({"query", "garbage"}) /\ asked' \in 0 .. MaxAsked /\ client' \in {"here", "gone"}
  <2>1. inbox \in Seq({"query", "garbage"}) /\ asked \in 0 .. MaxAsked /\ client \in {"here", "gone"}
    BY DEF IInv, TypeOK
  <2>2. ASSUME NEW m \in {"query", "garbage"}, Ask(m)
        PROVE  inbox' \in Seq({"query", "garbage"}) /\ asked' \in 0 .. MaxAsked
    BY <2>1, <2>2, AppendProperties, StreamAssumption DEF Ask
  <2> QED
    BY <2>1, <2>2 DEF StrayEnds, Expire, Ask, Leave, Quiet
<1>3. TypeOK'
  BY <1>1, <1>2 DEF IInv, TypeOK
<1>4. Phases' /\ Settled'
  BY <1>1 DEF IInv, Phases, NoRunAlone, Final, Ended, Settled
<1>5. Ordered(Pipe, runs, emitted, dropped)' /\ Paired' /\ (ended <= emitted)'
  BY <1>1, PipeStays DEF IInv, Paired
<1>6. Shown'
  BY <1>1 DEF IInv, Shown, Flushed, Final
<1> QED
  BY <1>3, <1>4, <1>5, <1>6 DEF IInv

LEMMA FinishHolds == IInv /\ Finish => IInv'
<1> SUFFICES ASSUME IInv, Finish PROVE IInv'
  OBVIOUS
<1>1. /\ UNCHANGED <<handler, held, last, seen, client, inbox, asked, runs, queue, emitted, dropped,
                     open, strays, torn>>
      /\ ended' = emitted /\ emitted \in Nat
      /\ run \in {"working", "expiring", "cancelling"}
      /\ run' \in {"returned", "timeout", "failed", "cancelled"}
      /\ \A c \in open : c.run = runs => c \in torn
  BY DEF Finish, Outcome, Quiet, exchange, stream, calls, IInv, TypeOK
<1>2. TypeOK' /\ (ended <= emitted)'
  BY <1>1 DEF IInv, TypeOK
<1>3. ~(handler = "answering" \/ Final)
  BY <1>1 DEF IInv, Phases, Ended
<1>4. Phases' /\ Settled' /\ Shown'
  BY <1>1, <1>3 DEF IInv, Phases, NoRunAlone, Final, Ended, Settled, Shown
<1>5. Ordered(Pipe, runs, emitted, dropped)' /\ Paired'
  BY <1>1, PipeStays DEF IInv, Paired
<1> QED
  BY <1>2, <1>4, <1>5 DEF IInv

-----------------------------------------------------------------------------
(* The steps of the handler.                                               *)

\* Between two exchanges only the place of the handler changes.
LEMMA IdleHolds == IInv /\ (Receive \/ Disconnected \/ Refuse \/ Unwind) => IInv'
<1> SUFFICES ASSUME IInv, Receive \/ Disconnected \/ Refuse \/ Unwind PROVE IInv'
  OBVIOUS
<1>1. /\ UNCHANGED <<held, last, seen, client, asked, run, runs, ended, queue, emitted, dropped,
                     open, strays, torn>>
      /\ handler \in {"reading", "refusing", "unwinding"}
      /\ handler' \in {"reading", "refusing", "opening", "closed"}
      /\ handler = "unwinding" => Ended
  BY DEF Receive, Disconnected, Refuse, Unwind, stream, calls
<1>2. inbox' \in Seq({"query", "garbage"})
  <2>1. inbox \in Seq({"query", "garbage"})
    BY DEF IInv, TypeOK
  <2> QED
    BY <2>1, HeadTailProperties DEF Receive, Disconnected, Refuse, Unwind
<1>3. TypeOK'
  BY <1>1, <1>2 DEF IInv, TypeOK
<1>4. Phases' /\ Settled'
  BY <1>1 DEF IInv, Phases, NoRunAlone, Final, Ended, Settled
<1>5. Ordered(Pipe, runs, emitted, dropped)' /\ Paired' /\ (ended <= emitted)'
  BY <1>1, PipeStays DEF IInv, Paired
<1>6. Shown'
  BY <1>1 DEF IInv, Shown, Flushed, Final
<1> QED
  BY <1>3, <1>4, <1>5, <1>6 DEF IInv

LEMMA OpenHolds == IInv /\ Open => IInv'
<1> SUFFICES ASSUME IInv, Open PROVE IInv'
  OBVIOUS
<1>1. CASE client # "here"
  <2>1. /\ UNCHANGED <<held, last, seen, client, inbox, asked, run, runs, ended, queue, emitted, dropped,
                       open, strays, torn>>
        /\ handler = "opening" /\ handler' = "closed"
    BY <1>1 DEF Open, stream
  <2>2. TypeOK' /\ (ended <= emitted)'
    BY <2>1 DEF IInv, TypeOK
  <2>3. Ordered(Pipe, runs, emitted, dropped)' /\ Paired'
    BY <2>1, PipeStays DEF IInv, Paired
  <2>4. Phases' /\ Settled' /\ Shown'
    BY <2>1 DEF IInv, Phases, NoRunAlone, Final, Ended, Settled, Shown, Flushed
  <2> QED
    BY <2>2, <2>3, <2>4 DEF IInv
<1>2. CASE client = "here"
  <2>1. /\ handler' = "streaming" /\ last' = "status" /\ seen' = <<>> /\ held' = <<>>
        /\ run' = "working" /\ runs' = runs + 1 /\ ended' = 0
        /\ queue' = <<>> /\ emitted' = 0 /\ dropped' = {} /\ torn' = {}
        /\ UNCHANGED <<client, inbox, asked, open, strays>>
    BY <1>2 DEF Open
  <2>2. <<>> \in Seq(Event) /\ Len(<<>>) = 0
    BY EmptySeq
  <2>3. Pipe' = <<>>
    BY <2>1, <2>2, ConcatEmptySeq DEF Pipe
  <2>4. TypeOK' /\ (ended <= emitted)'
    BY <2>1, <2>2 DEF IInv, TypeOK
  <2>5. Ordered(Pipe, runs, emitted, dropped)' /\ Paired'
    BY <2>1, <2>2, <2>3 DEF Ordered, Paired, Answered
  <2>6. Phases' /\ Settled' /\ Shown'
    BY <2>1 DEF Phases, NoRunAlone, Final, Ended, Settled, Shown
  <2> QED
    BY <2>4, <2>5, <2>6 DEF IInv
<1> QED
  BY <1>1, <1>2

LEMMA TakeHolds == IInv /\ Take => IInv'
<1> SUFFICES ASSUME IInv, Take PROVE IInv'
  OBVIOUS
<1>1. /\ UNCHANGED <<last, seen, client, inbox, asked, run, runs, ended, emitted, dropped,
                     open, strays, torn>>
      /\ handler = "streaming" /\ handler' = "sending" /\ queue # <<>>
      /\ held' = <<Head(queue)>> /\ queue' = Tail(queue)
  BY DEF Take, calls
<1>2. seen \in Seq(Event) /\ queue \in Seq(Event) /\ held = <<>>
  BY <1>1 DEF IInv, TypeOK, Phases
<1>3. Pipe' = Pipe /\ held' \in Seq(Event) /\ queue' \in Seq(Event)
  BY <1>1, <1>2, PipeTake DEF Pipe
<1>4. TypeOK' /\ (ended <= emitted)'
  BY <1>1, <1>3 DEF IInv, TypeOK
<1>5. Ordered(Pipe, runs, emitted, dropped)' /\ Paired'
  BY <1>1, <1>3 DEF IInv, Paired
<1>6. Phases' /\ Settled' /\ Shown'
  BY <1>1 DEF IInv, Phases, NoRunAlone, Final, Ended, Settled, Shown
<1> QED
  BY <1>4, <1>5, <1>6 DEF IInv

LEMMA SendHolds == IInv /\ Send => IInv'
<1> SUFFICES ASSUME IInv, Send PROVE IInv'
  OBVIOUS
<1>1. /\ UNCHANGED <<last, client, inbox, asked, runs, ended, queue, emitted, dropped,
                     open, strays, torn>>
      /\ handler = "sending"
  BY DEF Send, stream, calls
<1>2. seen \in Seq(Event) /\ held \in Seq(Event) /\ queue \in Seq(Event)
  BY DEF IInv, TypeOK
<1>3. last = "status"
  BY <1>1 DEF IInv, Phases
<1>4. CASE client = "here"
  <2>1. handler' = "streaming" /\ seen' = seen \o held /\ held' = <<>> /\ run' = run
    BY <1>4 DEF Send
  <2>2. seen' \in Seq(Event) /\ held' \in Seq(Event) /\ Pipe' = Pipe
    <3>1. seen \o held \in Seq(Event)
      BY <1>2, PipeSend
    <3>2. (seen \o held) \o <<>> = seen \o held
      BY <3>1, ConcatEmptySeq
    <3> QED
      BY <1>1, <2>1, <3>1, <3>2, EmptySeq DEF Pipe
  <2>3. TypeOK' /\ (ended <= emitted)'
    BY <1>1, <2>1, <2>2 DEF IInv, TypeOK
  <2>4. Ordered(Pipe, runs, emitted, dropped)' /\ Paired'
    BY <1>1, <2>2 DEF IInv, Paired
  <2>5. Phases' /\ Settled' /\ Shown'
    BY <1>1, <1>3, <2>1 DEF IInv, Phases, NoRunAlone, Final, Ended, Settled, Shown
  <2> QED
    BY <2>3, <2>4, <2>5 DEF IInv
<1>5. CASE client # "here"
  <2>1. handler' = "unwinding" /\ run' = Cancelled /\ UNCHANGED <<seen, held>>
    BY <1>5 DEF Send
  <2>2. TypeOK' /\ (ended <= emitted)'
    BY <1>1, <2>1 DEF IInv, TypeOK, Cancelled
  <2>3. Ordered(Pipe, runs, emitted, dropped)' /\ Paired'
    BY <1>1, <2>1, PipeStays DEF IInv, Paired
  <2>4. Phases' /\ Settled' /\ Shown'
    BY <1>1, <1>3, <2>1 DEF IInv, Phases, NoRunAlone, Final, Ended, Settled, Shown, Cancelled
  <2> QED
    BY <2>2, <2>3, <2>4 DEF IInv
<1> QED
  BY <1>4, <1>5

\* The run has ended and the queue is empty: the client has the whole pipe.
LEMMA LeaveLoopHolds == IInv /\ LeaveLoop => IInv'
<1> SUFFICES ASSUME IInv, LeaveLoop PROVE IInv'
  OBVIOUS
<1>1. /\ UNCHANGED <<held, last, seen, client, inbox, asked, run, runs, ended, queue, emitted, dropped,
                     open, strays, torn>>
      /\ handler = "streaming" /\ handler' = "answering" /\ Ended /\ queue = <<>> /\ held = <<>>
      /\ last = "status"
  BY DEF LeaveLoop, Over, stream, calls, IInv, Phases
<1>2. seen \in Seq(Event) /\ emitted \in Nat /\ ended \in Nat /\ ended <= emitted
  BY DEF IInv, TypeOK
<1>3. Pipe = seen
  BY <1>1, <1>2, ConcatEmptySeq DEF Pipe
<1>4. TypeOK' /\ (ended <= emitted)'
  BY <1>1 DEF IInv, TypeOK
<1>5. Ordered(Pipe, runs, emitted, dropped)' /\ Paired'
  BY <1>1, PipeStays DEF IInv, Paired
<1>6. Phases' /\ Settled'
  BY <1>1 DEF IInv, Phases, NoRunAlone, Final, Ended, Settled
<1>7. Flushed
  <2>1. {seen[i].n : i \in 1 .. Len(seen)} = (1 .. emitted) \ dropped
    BY <1>3 DEF IInv, Ordered
  <2> QED
    BY <1>2, <2>1 DEF Flushed
<1>8. dropped = {} => Answered(seen, torn)
  <2> SUFFICES ASSUME dropped = {} PROVE Answered(seen, torn)
    OBVIOUS
  <2>1. Answered(seen, open \cup torn) /\ \A i \in 1 .. Len(seen) : seen[i].run = runs
    BY <1>3 DEF IInv, Paired, Ordered
  <2>2. ASSUME NEW i \in 1 .. Len(seen), [run |-> seen[i].run, call |-> seen[i].call] \in open \cup torn
        PROVE  [run |-> seen[i].run, call |-> seen[i].call] \in torn
    BY <1>1, <2>1, <2>2 DEF IInv, Settled
  <2> QED
    BY <2>1, <2>2 DEF Answered
<1>9. Shown'
  BY <1>1, <1>7, <1>8 DEF Shown, Flushed
<1> QED
  BY <1>4, <1>5, <1>6, <1>9 DEF IInv

LEMMA AnswerHolds == IInv /\ Answer => IInv'
<1> SUFFICES ASSUME IInv, Answer PROVE IInv'
  OBVIOUS
<1>1. /\ UNCHANGED <<held, seen, client, inbox, asked, run, runs, ended, queue, emitted, dropped,
                     open, strays, torn>>
      /\ handler = "answering" /\ handler' \in {"reading", "closed"}
      /\ last' \in {"status", "done", "timeout", "error"}
  BY DEF Answer, stream, calls, IInv, Phases
<1>2. TypeOK' /\ (ended <= emitted)'
  BY <1>1 DEF IInv, TypeOK
<1>3. Ordered(Pipe, runs, emitted, dropped)' /\ Paired'
  BY <1>1, PipeStays DEF IInv, Paired
<1>4. Phases' /\ Settled' /\ Shown'
  BY <1>1 DEF IInv, Phases, NoRunAlone, Final, Ended, Settled, Shown, Flushed
<1> QED
  BY <1>2, <1>3, <1>4 DEF IInv

LEMMA NextHolds == IInv /\ [Next]_vars => IInv'
<1> SUFFICES ASSUME IInv, [Next]_vars PROVE IInv'
  OBVIOUS
<1>1. CASE Handle
  BY <1>1, IdleHolds, OpenHolds, TakeHolds, SendHolds, LeaveLoopHolds, AnswerHolds DEF Handle
<1>2. CASE Token \/ Tear \/ Finish
  BY <1>2, TokenHolds, TearHolds, FinishHolds
<1>3. CASE \E stray \in BOOLEAN : Announce(stray)
  BY <1>3, AnnounceHolds
<1>4. CASE \E c \in open : Return(c)
  BY <1>4, ReturnHolds
<1>5. CASE \/ \E r \in strays : StrayEnds(r)
           \/ Expire
           \/ \E m \in {"query", "garbage"} : Ask(m)
           \/ Leave
  BY <1>5, RestHolds
<1>6. CASE UNCHANGED vars
  <2>1. UNCHANGED <<handler, held, last, seen, client, inbox, asked, run, runs, ended, queue, emitted,
                    dropped, open, strays, torn>>
    BY <1>6 DEF vars, exchange, stream, calls
  <2>2. TypeOK' /\ (ended <= emitted)'
    BY <2>1 DEF IInv, TypeOK
  <2>3. Ordered(Pipe, runs, emitted, dropped)' /\ Paired'
    BY <2>1, PipeStays DEF IInv, Paired
  <2>4. Phases' /\ Settled' /\ Shown'
    BY <2>1 DEF IInv, Phases, NoRunAlone, Final, Ended, Settled, Shown, Flushed
  <2> QED
    BY <2>2, <2>3, <2>4 DEF IInv
<1> QED
  BY <1>1, <1>2, <1>3, <1>4, <1>5, <1>6 DEF Next

-----------------------------------------------------------------------------
(* The types of the socket, its queue and the calls of its runs.           *)
THEOREM StreamTypeCorrect == Spec => []TypeOK
<1>1. IInv => TypeOK
  BY DEF IInv
<1> QED
  BY InitHolds, NextHolds, <1>1, PTL DEF Spec

(* For a queue of any size, and however the end of a run, its last events, *)
(* the next query and the loss of the client interleave, a socket shows    *)
(* its run in order and whole but for what the queue refused, answers      *)
(* after the last event, with every call paired, and leaves no run alone.  *)
THEOREM ShowsTheRun == Spec => []ExchangeExact
<1>1. IInv => ExchangeExact
  <2> SUFFICES ASSUME IInv PROVE ExchangeExact
    OBVIOUS
  <2>1. InOrder
    BY DEF IInv, Ordered, InOrder
  <2>2. FlushedBeforeDone /\ CallsAnswered /\ NoRunAlone
    BY DEF IInv, Shown, FlushedBeforeDone, CallsAnswered, Phases
  <2> QED
    BY <2>1, <2>2 DEF ExchangeExact
<1> QED
  BY InitHolds, NextHolds, <1>1, PTL DEF Spec

=============================================================================
