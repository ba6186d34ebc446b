----------------------------- MODULE RunStream -----------------------------
(***************************************************************************)
(* A run shown while it happens: the WebSocket /v1/ws/agent/{agent_name}   *)
(* (src/astromesh/api/ws.py) and the events that Agent.run emits           *)
(* (src/astromesh/runtime/engine.py).                                      *)
(*                                                                         *)
(* The handler of a socket reads one message at a time.  For a query it    *)
(* starts the run as a task of its own, whose events go to a bounded queue *)
(* that is made for this run, and forwards them until the run has ended    *)
(* and the queue is empty.  An event is its position among those of its    *)
(* run; text, arguments and results are left out.                          *)
(***************************************************************************)
EXTENDS Integers, Sequences, FiniteSets

CONSTANTS
  QueueMax,     \* _EVENT_QUEUE_MAX
  MaxAsked,     \* bound: messages of the client
  MaxEvents,    \* bound: events of a run, but for the results of its calls
  MaxOpen       \* bound: tool calls under way

ASSUME StreamAssumption ==
  QueueMax \in Nat \ {0} /\ MaxAsked \in Nat /\ MaxEvents \in Nat /\ MaxOpen \in Nat

VARIABLES
  handler,   \* where agent_websocket is
  client,    \* "here", or "gone" as far as the server can tell
  inbox,     \* what the client sent and the handler has not read
  asked,     \* number of messages the client sent
  run,       \* run_task
  runs,      \* number of runs started; the current one
  queue,     \* the queue of the current run
  held,      \* the event taken from it that is being sent
  last,      \* the frame that ended the exchange, or opened it
  open,      \* tool calls whose result is not out
  strays,    \* runs with branches of a map that nobody waits for
  emitted,   \* history: number of events of the current run
  ended,     \* history: how many of them before it ended
  dropped,   \* history: those that met a full queue
  seen,      \* history: those that the client got
  torn       \* tool calls of the current run that nobody waits for

exchange == <<handler, held, last, seen>>
stream   == <<queue, emitted, dropped>>
calls    == <<open, strays, torn>>
vars     == <<exchange, client, inbox, asked, run, runs, stream, calls, ended>>

Event == [run : Nat, n : Nat \ {0},
          what : {"token", "tool_call", "tool_result"}, call : Nat]

\* A tool call is named by the event that announced it.
ToolCall == [run : Nat, call : Nat \ {0}]

TypeOK ==
  /\ handler \in {"reading", "refusing", "opening", "streaming", "sending",
                  "unwinding", "answering", "closed"}
  /\ client \in {"here", "gone"}
  /\ inbox \in Seq({"query", "garbage"}) /\ asked \in 0 .. MaxAsked
  /\ run \in {"none", "working", "expiring", "cancelling",
              "returned", "timeout", "failed", "cancelled"}
  /\ runs \in Nat
  /\ queue \in Seq(Event) /\ held \in Seq(Event)
  /\ last \in {"none", "status", "done", "timeout", "error"}
  /\ open \subseteq ToolCall /\ torn \subseteq ToolCall /\ strays \subseteq Nat
  /\ emitted \in Nat /\ ended \in Nat /\ dropped \subseteq 1 .. emitted
  /\ seen \in Seq(Event)

Init ==
  /\ handler = "reading" /\ client = "here" /\ inbox = <<>> /\ asked = 0
  /\ run = "none" /\ runs = 0 /\ ended = 0
  /\ queue = <<>> /\ emitted = 0 /\ dropped = {}
  /\ held = <<>> /\ last = "none" /\ seen = <<>>
  /\ open = {} /\ strays = {} /\ torn = {}

Ended == run \in {"returned", "timeout", "failed", "cancelled"}

-----------------------------------------------------------------------------
(* The run.                                                                *)

\* on_event: the observer of a run puts into the queue of that run.
Reaches(r) == r = runs

\* put_nowait: a full queue refuses the event, which is logged.
Put(e) ==
  IF Len(queue) < QueueMax THEN /\ queue' = Append(queue, e) /\ UNCHANGED dropped
                           ELSE /\ dropped' = dropped \cup {e.n} /\ UNCHANGED queue

Emit(r, what, call) ==
  IF Reaches(r)
  THEN /\ emitted' = emitted + 1
       /\ Put([run |-> r, n |-> emitted + 1, what |-> what, call |-> call])
  ELSE UNCHANGED stream

Quiet == UNCHANGED <<exchange, client, inbox, asked, runs>>

\* A completion with content comes back.
Token ==
  /\ run = "working" \/ runs \in strays
  /\ emitted < MaxEvents
  /\ Emit(runs, "token", 0)
  /\ Quiet /\ UNCHANGED <<run, ended, calls>>

\* tool_fn announces a call and awaits the tool.  A branch that nobody waits
\* for goes on the same way, also after its run has ended.
Announce(stray) ==
  LET c == [run |-> runs, call |-> emitted + 1] IN
  /\ IF stray THEN runs \in strays ELSE run = "working"
  /\ emitted < MaxEvents /\ Cardinality(open) < MaxOpen
  /\ Emit(runs, "tool_call", c.call)
  /\ open' = open \cup {c}
  /\ torn' = IF stray THEN torn \cup {c} ELSE torn
  /\ Quiet /\ UNCHANGED <<run, ended, strays>>

\* On every way out of a call its result is told: it returned, raised or was cancelled.
Tell(c) == Emit(c.run, "tool_result", c.call)

Return(c) ==
  /\ c \in open
  /\ Tell(c)
  /\ open' = open \ {c}
  /\ Quiet /\ UNCHANGED <<run, ended, strays, torn>>

\* A branch of a Glyph map fails: gather raises at once, and the other
\* branches go on alone.
Tear ==
  /\ run = "working"
  /\ strays' = strays \cup {runs}
  /\ torn' = torn \cup {c \in open : c.run = runs}
  /\ Quiet /\ UNCHANGED <<run, ended, stream, open>>

StrayEnds(r) ==
  /\ r \in strays
  /\ \A c \in open : c.run # r
  /\ strays' = strays \ {r}
  /\ Quiet /\ UNCHANGED <<run, ended, stream, open, torn>>

\* The deadline of the run cancels what it awaits.
Expire ==
  /\ run = "working"
  /\ run' = "expiring"
  /\ Quiet /\ UNCHANGED <<ended, stream, calls>>

\* What a run becomes: nobody awaits a call of it any more.
Outcome ==
  CASE run = "working"    -> {"returned", "failed"}
    [] run = "expiring"   -> {"timeout"}
    [] run = "cancelling" -> {"cancelled", "failed"}
    [] OTHER              -> {}

Finish ==
  /\ \A c \in open : c.run = runs => c \in torn
  /\ run' \in Outcome
  /\ ended' = emitted
  /\ Quiet /\ UNCHANGED <<stream, calls>>

-----------------------------------------------------------------------------
(* The client.                                                             *)

Ask(m) ==
  /\ client = "here" /\ handler # "closed" /\ asked < MaxAsked
  /\ asked' = asked + 1
  /\ inbox' = Append(inbox, m)
  /\ UNCHANGED <<exchange, client, run, runs, stream, calls, ended>>

Leave ==
  /\ client = "here"
  /\ client' = "gone"
  /\ UNCHANGED <<exchange, inbox, asked, run, runs, stream, calls, ended>>

-----------------------------------------------------------------------------
(* The handler.                                                            *)

Receive ==
  /\ handler = "reading" /\ inbox # <<>>
  /\ inbox' = Tail(inbox)
  /\ handler' = IF Head(inbox) = "query" THEN "opening" ELSE "refusing"
  /\ UNCHANGED <<held, last, seen, client, asked, run, runs, stream, calls, ended>>

\* receive_text raises WebSocketDisconnect.
Disconnected ==
  /\ handler = "reading" /\ inbox = <<>> /\ client = "gone"
  /\ handler' = "closed"
  /\ UNCHANGED <<held, last, seen, client, inbox, asked, run, runs, stream, calls, ended>>

\* Invalid JSON or an unknown origen: an error, and the next message.
Refuse ==
  /\ handler = "refusing"
  /\ handler' = IF client = "here" THEN "reading" ELSE "closed"
  /\ UNCHANGED <<held, last, seen, client, inbox, asked, run, runs, stream, calls, ended>>

\* The status frame, then create_task; with no client the send raises.
Open ==
  /\ handler = "opening"
  /\ IF client = "here"
     THEN /\ handler' = "streaming" /\ last' = "status" /\ seen' = <<>> /\ held' = <<>>
          /\ run' = "working" /\ runs' = runs + 1 /\ ended' = 0
          /\ queue' = <<>> /\ emitted' = 0 /\ dropped' = {} /\ torn' = {}
     ELSE /\ handler' = "closed"
          /\ UNCHANGED <<held, last, seen, run, runs, ended, stream, torn>>
  /\ UNCHANGED <<client, inbox, asked, open, strays>>

Take ==
  /\ handler = "streaming" /\ queue # <<>>
  /\ handler' = "sending" /\ held' = <<Head(queue)>> /\ queue' = Tail(queue)
  /\ UNCHANGED <<last, seen, client, inbox, asked, run, runs, emitted, dropped, calls, ended>>

\* Fault: the run goes on without a reader.
Abandoned == run

\* run_task.cancel()
Cancelled == IF run \in {"working", "expiring"} THEN "cancelling" ELSE run

Send ==
  /\ handler = "sending"
  /\ IF client = "here"
     THEN /\ handler' = "streaming" /\ seen' = seen \o held /\ held' = <<>>
          /\ UNCHANGED run
     ELSE /\ handler' = "unwinding" /\ run' = Cancelled
          /\ UNCHANGED <<seen, held>>
  /\ UNCHANGED <<last, client, inbox, asked, runs, stream, calls, ended>>

\* The finally clause awaits the run, and the exception goes on.
Unwind ==
  /\ handler = "unwinding" /\ Ended
  /\ handler' = "closed"
  /\ UNCHANGED <<held, last, seen, client, inbox, asked, run, runs, stream, calls, ended>>

\* Fault: the loop ends with the run.
OverWithRun == Ended

\* not (not run_task.done() or not queue.empty())
Over == Ended /\ queue = <<>>

LeaveLoop ==
  /\ handler = "streaming" /\ Over
  /\ handler' = "answering"
  /\ UNCHANGED <<held, last, seen, client, inbox, asked, run, runs, stream, calls, ended>>

Answer ==
  /\ handler = "answering"
  /\ IF client = "here"
     THEN /\ handler' = "reading"
          /\ last' = CASE run = "returned" -> "done"
                       [] run = "timeout"  -> "timeout"
                       [] OTHER            -> "error"
     ELSE handler' = "closed" /\ UNCHANGED last
  /\ UNCHANGED <<held, seen, client, inbox, asked, run, runs, stream, calls, ended>>

Handle ==
  \/ Receive \/ Disconnected \/ Refuse \/ Open \/ Take \/ Send \/ Unwind \/ LeaveLoop \/ Answer

Unwinding == run \in {"expiring", "cancelling"} /\ (Finish \/ \E c \in open : c.run = runs /\ Return(c))

Next ==
  \/ \E m \in {"query", "garbage"} : Ask(m)
  \/ Leave
  \/ Handle
  \/ Token \/ Tear \/ Expire \/ Finish
  \/ \E stray \in BOOLEAN : Announce(stray)
  \/ \E c \in open : Return(c)
  \/ \E r \in strays : StrayEnds(r)

(* The event loop runs a handler that is ready, and a run that was         *)
(* cancelled unwinds.  Nothing is assumed of a run that works: it may sit  *)
(* in a model call for ever.                                               *)
Spec == Init /\ [][Next]_vars /\ WF_vars(Handle) /\ WF_vars(Unwinding)

-----------------------------------------------------------------------------
(* What the client may rely on.                                            *)

Pipe == (seen \o held) \o queue

Final == last \in {"done", "timeout", "error"}

(* The events on their way are those of the current run, in the order it   *)
(* emitted them, each once; only those that met a full queue are missing.  *)
InOrder ==
  /\ \A i \in 1 .. Len(Pipe) : Pipe[i].run = runs
  /\ \A i, j \in 1 .. Len(Pipe) : i < j => Pipe[i].n < Pipe[j].n
  /\ {Pipe[i].n : i \in 1 .. Len(Pipe)} = (1 .. emitted) \ dropped

Flushed == 1 .. ended \subseteq dropped \cup {seen[i].n : i \in 1 .. Len(seen)}

(* The last frame comes after everything that the run emitted.             *)
FlushedBeforeDone == Final => Flushed

\* Every call announced in s has its result behind it, but for those in except.
Answered(s, except) ==
  \A i \in 1 .. Len(s) :
    \/ s[i].what # "tool_call"
    \/ [run |-> s[i].run, call |-> s[i].call] \in except
    \/ \E j \in i + 1 .. Len(s) : s[j].what = "tool_result" /\ s[j].call = s[i].call

(* By then every call that the client was told of has its result, unless   *)
(* events were dropped or a map left the call behind.                      *)
CallsAnswered == Final /\ dropped = {} => Answered(seen, torn)

(* A run works only while the handler is in its exchange.                  *)
NoRunAlone ==
  run \in {"working", "expiring", "cancelling"} => handler \in {"streaming", "sending", "unwinding"}

(* What a socket shows of a run is the run: `_run_and_stream` loses only   *)
(* what its queue refuses, flushes before it answers, pairs every call     *)
(* with its result and leaves no run behind, whatever comes in between the *)
(* end of the run, the last events, the next query and the loss of the     *)
(* client.                                                                 *)
ExchangeExact == InOrder /\ FlushedBeforeDone /\ CallsAnswered /\ NoRunAlone

(* A run that ended is answered, and the socket is free again; a client    *)
(* that vanished is noticed at the next event, and the run is stopped      *)
(* although it would never have ended.                                     *)
SocketSettles ==
  /\ handler = "streaming" /\ Ended ~> handler \in {"reading", "closed"}
  /\ handler = "streaming" /\ client = "gone" /\ queue # <<>> ~> handler = "closed" /\ Ended

=============================================================================
