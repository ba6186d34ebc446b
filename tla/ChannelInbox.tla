---------------------------- MODULE ChannelInbox ----------------------------
(***************************************************************************)
(* The webhook of a channel and what comes of a message:                   *)
(* receive_agent_message and _process_agent_message                        *)
(* (src/astromesh/api/routes/agent_channels.py), the dispatcher of the     *)
(* other events (channels/webhook_dispatcher.py), the run of the agent as  *)
(* far as its conversation goes (runtime/engine.py, ConversationMemory)    *)
(* and the events the streams show (ChannelFeed).                          *)
(*                                                                         *)
(* The messages of one request are processed one after the other once the  *)
(* request was answered; requests overlap, also those of one session.      *)
(***************************************************************************)
EXTENDS ChannelFeed, ConversationMemory, FiniteSetsExt

CONSTANTS
  Message,
  From,            \* the session of a message
  Batches,         \* what the platform posts: sequences of messages, of other
                   \* events, and of events of a registered handler
  Notice, Custom,
  Patient,         \* sessions that wait for the answer before they write again
  MaxDeliveries,   \* requests, the repeated ones included
  Earlier,         \* exchanges the sessions begin with
  MaxUpsets        \* crashes and keys that expire

ASSUME InboxAssumption ==
  /\ From \in [Message -> Session] /\ Patient \subseteq Session
  /\ Notice \notin Message /\ Custom \notin Message
  /\ Batches \in Seq(Seq(Message \cup {Notice, Custom}))
  /\ MaxDeliveries \in Nat /\ MaxUpsets \in Nat
  /\ Earlier \in Nat /\ 2 * Earlier <= MaxTurns

Delivery == 1 .. MaxDeliveries
Role     == {"user", "assistant"}
Turn     == (Delivery \X Message \X Role) \cup ({0} \X (1 .. Earlier) \X Role)

VARIABLES
  delivery,   \* the requests, each with the background tasks it left
  answered,   \* history: deliveries of messages whose answer was sent
  upsets     \* bound

vars == <<feed, client, memory, delivery, answered, upsets>>

\* What a task does next; "off" has not come, "refused" was answered 500.
Stage ==
  {"off", "refused", "asking", "user", "assistant", "history", "summary", "folding",
   "sending", "sorry", "done", "lost"}

Deliveries ==
  [batch : 0 .. Len(Batches), stage : Stage,
   left : SUBSET Nat,            \* where its messages are; the first is being processed
   leaving : Seq(Turn),          \* history[:-max_turns]
   previous : Seq(Turn),         \* the summary it was read
   blocked : BOOLEAN]            \* by an input guardrail

NoDelivery ==
  [batch |-> 0, stage |-> "off", left |-> {}, leaving |-> <<>>, previous |-> <<>>,
   blocked |-> FALSE]

Init ==
  /\ FeedInit
  /\ memory = [s \in Session |-> [NoConversation EXCEPT !.turns =
       [i \in 1 .. 2 * Earlier |-> <<0, (i + 1) \div 2, IF i % 2 = 1 THEN "user" ELSE "assistant">>]]]
  /\ delivery = [d \in Delivery |-> NoDelivery]
  /\ answered = {} /\ upsets = 0

Ended == {"off", "refused", "done", "lost"}

Working(d) == delivery[d].stage \notin Ended
\* The message at a place of the request, and the one being processed.
MessageAt(d, i) == Batches[delivery[d].batch][i]
Current(d) == MessageAt(d, Min(delivery[d].left))
SessionOf(d) == From[Current(d)]

\* A message of session s waits, or is being processed.
Busy(s) ==
  \E d \in Delivery : Working(d) /\ \E i \in delivery[d].left : From[MessageAt(d, i)] = s

\* The background tasks of a request, or those that are left of them.
Tasks(b, left) ==
  [NoDelivery EXCEPT !.batch = b, !.left = left, !.stage = IF left = {} THEN "done" ELSE "asking"]

At(d, stages) == delivery[d].stage \in stages

To(d, stage) == delivery' = [delivery EXCEPT ![d].stage = stage]

Remember(s, m) == memory' = [memory EXCEPT ![s] = m]

QuietFeed == UNCHANGED feedVars

-----------------------------------------------------------------------------
(* The webhook.                                                            *)

\* Requests come in the order of their numbers.
NextDelivery(d) == delivery[d].stage = "off" /\ \A e \in 1 .. d - 1 : delivery[e].stage # "off"

\* Where they are.
MessagesIn(batch) == {i \in 1 .. Len(batch) : batch[i] \in Message}
EventsIn(batch)   == {i \in 1 .. Len(batch) : batch[i] # Custom}

\* The platform repeats a request; not for a patient session, unless it was
\* refused.
MayArrive(b) ==
  \A i \in 1 .. Len(Batches[b]) : Batches[b][i] \in Message /\ From[Batches[b][i]] \in Patient =>
    /\ ~Busy(From[Batches[b][i]])
    /\ \A j \in 1 .. i - 1 : Batches[b][j] \in Message => From[Batches[b][j]] # From[Batches[b][i]]
    /\ \A d \in Delivery : delivery[d].batch = b => delivery[d].stage = "refused"

\* Every message is shown at once, and its task added.
Accept(d, b) ==
  /\ NextDelivery(d) /\ MayArrive(b)
  /\ Emit(Cardinality(EventsIn(Batches[b])))
  /\ delivery' = [delivery EXCEPT ![d] = Tasks(b, MessagesIn(Batches[b]))]
  /\ UNCHANGED <<memory, answered, upsets>>

\* The i-th part does not parse, or its registered handler raises: the
\* request is answered 500 and no task runs, but what came before was shown.
Refuse(d, b) ==
  /\ NextDelivery(d) /\ MayArrive(b)
  /\ \E i \in 1 .. Len(Batches[b]) : Emit(Cardinality(EventsIn(Batches[b]) \cap 1 .. i - 1))
  /\ delivery' = [delivery EXCEPT ![d] = [NoDelivery EXCEPT !.batch = b, !.stage = "refused"]]
  /\ UNCHANGED <<memory, answered, upsets>>

-----------------------------------------------------------------------------
(* The run.                                                                *)

\* Media, memory, guardrails and model: an answer, a rejection of the input,
\* which is not remembered, or an exception.
Ask(d) ==
  /\ At(d, {"asking"})
  /\ \/ To(d, "user")
     \/ delivery' = [delivery EXCEPT ![d].stage = "sending", ![d].blocked = TRUE]
     \/ To(d, "sorry")
  /\ QuietFeed /\ UNCHANGED <<memory, answered, upsets>>

\* Fault: a turn that is not saved does not fail the run.
SaveUserAtBest(d) ==
  LET s == SessionOf(d)
      saved == Saved(memory[s], <<d, Current(d), "user">>) IN
  /\ At(d, {"user"})
  /\ To(d, "assistant")
  /\ Remember(s, saved) \/ UNCHANGED memory
  /\ QuietFeed /\ UNCHANGED <<answered, upsets>>

\* save_turn: rpush, then expire, either of which may fail.
SaveUser(d) ==
  LET s == SessionOf(d)
      saved == Saved(memory[s], <<d, Current(d), "user">>) IN
  /\ At(d, {"user"})
  /\ \/ Remember(s, saved) /\ To(d, "assistant")
     \/ Remember(s, Missed(saved, 1)) /\ To(d, "sorry")
     \/ UNCHANGED memory /\ To(d, "sorry")
  /\ QuietFeed /\ UNCHANGED <<answered, upsets>>

SaveAssistant(d) ==
  LET s == SessionOf(d)
      saved == Saved(memory[s], <<d, Current(d), "assistant">>) IN
  /\ At(d, {"assistant"})
  /\ \/ Remember(s, saved) /\ To(d, "history")
     \/ Remember(s, Missed(saved, 2)) /\ To(d, "sorry")
     \/ Remember(s, Missed(memory[s], 1)) /\ To(d, "sorry")
  /\ QuietFeed /\ UNCHANGED <<answered, upsets>>

\* get_history is not in the try: a failure fails the run.
ReadHistory(d) ==
  LET s == SessionOf(d)  turns == Leaving(memory[s]) IN
  /\ At(d, {"history"})
  /\ \/ /\ delivery' = [delivery EXCEPT ![d].leaving = turns,
             ![d].stage = IF turns = <<>> THEN "sending" ELSE "summary"]
        /\ UNCHANGED memory
     \/ Remember(s, Missed(memory[s], 2)) /\ To(d, "sorry")
  /\ QuietFeed /\ UNCHANGED <<answered, upsets>>

\* A failure from here on leaves the summary as it was.
ReadSummary(d) ==
  LET s == SessionOf(d) IN
  /\ At(d, {"summary"})
  /\ \/ /\ delivery' = [delivery EXCEPT ![d].previous = memory[s].summary, ![d].stage = "folding"]
        /\ UNCHANGED memory
     \/ Remember(s, Missed(memory[s], 2)) /\ To(d, "sending")
  /\ QuietFeed /\ UNCHANGED <<answered, upsets>>

SaveSummary(d) ==
  LET s == SessionOf(d) IN
  /\ At(d, {"folding"})
  /\ \/ Remember(s, Folded(memory[s], delivery[d].previous, delivery[d].leaving))
     \/ Remember(s, Missed(memory[s], 2))
  /\ To(d, "sending")
  /\ QuietFeed /\ UNCHANGED <<answered, upsets>>

-----------------------------------------------------------------------------
(* The answer.                                                             *)

\* The next message of the request.
Handled(d) ==
  delivery' = [delivery EXCEPT ![d] = Tasks(delivery[d].batch, delivery[d].left \ {Min(delivery[d].left)})]

\* The answer goes out, and then the event; when sending fails, an apology.
Send(d) ==
  /\ At(d, {"sending"})
  /\ \/ /\ Handled(d) /\ Emit(1)
        /\ answered' = IF delivery[d].blocked THEN answered ELSE answered \cup {<<d, Current(d)>>}
     \/ To(d, "sorry") /\ QuietFeed /\ UNCHANGED answered
  /\ UNCHANGED <<memory, upsets>>

\* Fault: the exception passes, and with it the tasks after this one.
ApologiseAndRaise(d) ==
  /\ At(d, {"sorry"})
  /\ To(d, "done") /\ QuietFeed /\ UNCHANGED <<memory, answered, upsets>>

\* _process_agent_message raises nothing, whether the apology is sent or not.
Apologise(d) ==
  /\ At(d, {"sorry"})
  /\ Handled(d) /\ QuietFeed /\ UNCHANGED <<memory, answered, upsets>>

Run(d) ==
  Ask(d) \/ SaveUser(d) \/ SaveAssistant(d) \/ ReadHistory(d) \/ ReadSummary(d) \/ SaveSummary(d)

Process(d) == Run(d) \/ Send(d) \/ Apologise(d)

-----------------------------------------------------------------------------
(* Surroundings.                                                           *)

\* Turns of its exchange that a task has saved and not yet folded.
Unfinished(d) ==
  CASE At(d, {"assistant"}) -> 1
    [] At(d, {"history", "summary", "folding"}) -> 2
    [] OTHER -> 0

InHand(s) == {d \in Delivery : Working(d) /\ SessionOf(d) = s}

MissedByCrash(s) ==
  Cardinality({d \in InHand(s) : Unfinished(d) > 0}) + Cardinality({d \in InHand(s) : Unfinished(d) = 2})

\* The process starts again: its tasks and its bus are gone.
Crash ==
  /\ upsets < MaxUpsets /\ \E d \in Delivery : Working(d)
  /\ upsets' = upsets + 1
  /\ FeedRestart
  /\ delivery' = [d \in Delivery |->
       IF Working(d) THEN [NoDelivery EXCEPT !.batch = delivery[d].batch, !.stage = "lost"]
       ELSE delivery[d]]
  /\ memory' = [s \in Session |-> Missed(memory[s], MissedByCrash(s))]
  /\ UNCHANGED answered

\* The turns of an exchange outlive what is left of it once they are saved.
TurnsExpire(s) ==
  /\ upsets < MaxUpsets /\ memory[s].turns # <<>>
  /\ \A d \in InHand(s) : Unfinished(d) = 0 /\ (At(d, {"sending"}) => delivery[d].blocked)
  /\ upsets' = upsets + 1
  /\ Remember(s, TurnsExpired(memory[s]))
  /\ QuietFeed /\ UNCHANGED <<delivery, answered>>

SummaryExpires(s) ==
  /\ upsets < MaxUpsets /\ memory[s].summary # <<>>
  /\ upsets' = upsets + 1
  /\ Remember(s, SummaryExpired(memory[s]))
  /\ QuietFeed /\ UNCHANGED <<delivery, answered>>

Watch(c) ==
  /\ Connect(c) \/ Show(c) \/ Leave(c)
  /\ UNCHANGED <<memory, delivery, answered, upsets>>

Next ==
  \/ \E d \in Delivery : Process(d) \/ \E b \in 1 .. Len(Batches) : Accept(d, b) \/ Refuse(d, b)
  \/ \E s \in Session : TurnsExpire(s) \/ SummaryExpires(s)
  \/ \E c \in Client : Watch(c)
  \/ Crash

\* Only the calls of the platform have a timeout; a run may hang for ever.
Fairness == \A d \in Delivery : WF_vars(Send(d)) /\ WF_vars(Apologise(d))

Spec == Init /\ [][Next]_vars /\ Fairness

-----------------------------------------------------------------------------
(* What the channel promises.                                              *)

TypeOK ==
  /\ FeedTypeOK
  /\ memory \in [Session -> Conversations(Turn)]
  /\ delivery \in [Delivery -> Deliveries]
  /\ answered \subseteq Delivery \X Message /\ upsets \in 0 .. MaxUpsets

(* memory-manager.md:73: turns that leave the window are folded into the   *)
(* summary.  In a session that waits for its answers no turn is folded     *)
(* twice or while it is still in the window, and the turns that are in     *)
(* neither and were in no summary that expired are not more than the       *)
(* failed and unfinished exchanges saved.                                  *)
SummaryExact ==
  \A s \in Patient :
    LET m == memory[s]
        outside == Outside(m)
        unfolded == {i \in 1 .. Len(outside) :
                       ~InSeq(outside[i], m.summary) /\ outside[i] \notin m.gone}
        unfinished == {d \in InHand(s) : Unfinished(d) > 0} IN
    /\ NoRepeat(m.summary)
    /\ \A i \in 1 .. Len(Window(m)) : ~InSeq(Window(m)[i], m.summary)
    /\ Cardinality(unfolded) <= m.missed + 2 * Cardinality(unfinished)

(* Whoever was answered is remembered: when the answer of an agent goes    *)
(* out, both turns of the exchange are in the conversation, in order.      *)
AnsweredIsRemembered ==
  [][\A p \in answered' \ answered :
       \E i, j \in 1 .. Len(memory'[From[p[2]]].turns) :
         /\ i < j
         /\ memory'[From[p[2]]].turns[i] = <<p[1], p[2], "user">>
         /\ memory'[From[p[2]]].turns[j] = <<p[1], p[2], "assistant">>]_vars

(* A request whose own runs do not hang has every message processed to its *)
(* end, whatever became of the ones before it and of the other requests,   *)
(* unless the process stops.                                               *)
AcceptedIsHandled ==
  \A d \in Delivery :
    WF_vars(Run(d)) =>
      (delivery[d].stage = "asking" ~>
         \/ delivery[d].stage = "lost"
         \/ delivery[d].stage = "done" /\ delivery[d].left = {})

=============================================================================
