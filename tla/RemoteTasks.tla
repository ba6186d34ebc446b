---------------------------- MODULE RemoteTasks ----------------------------
(***************************************************************************)
(* The tasks that a remote A2A agent leaves waiting for an answer, kept    *)
(* for each session: HerramientaA2A (src/astromesh/integrations/a2a.py)    *)
(* and RemoteA2AAgent (src/astromesh-adk/astromesh_adk/_a2a.py).           *)
(*                                                                         *)
(* A call replies to the task its session has waiting, or else sends a new *)
(* message.  The remote, the network and whoever cancels a run are free:   *)
(* an answer may be lost after the remote acted on it, and a request that  *)
(* the client gave up on may be handled later.  Answers, policy, usage and *)
(* the client's event loop are left out.                                   *)
(***************************************************************************)
EXTENDS Naturals, Sequences

CONSTANTS
  Session,
  NoSession,     \* a call from code that has no session
  Call,          \* slots for calls under way
  MaxTask,       \* bound: tasks that the remote starts
  MaxQuestion,   \* bound: questions of a task
  MaxKept        \* _MAX_PENDIENTES, _MAX_SESSIONS

ASSUME RemoteAssumption ==
  /\ NoSession \notin Session
  /\ MaxTask \in Nat /\ MaxQuestion \in Nat \ {0} /\ MaxKept \in Nat \ {0}

Task   == 1 .. MaxTask
NoTask == 0

VARIABLES
  client,   \* "core" or "adk"
  kept,     \* the task a session has waiting
  order,    \* the sessions of the ordered dict, the oldest first
  call,     \* the calls under way
  task,     \* the tasks at the remote
  doubt,    \* tasks with a reply that the client gave up on
  shown,    \* history: the question of a task that its session was last told of
  owed,     \* history: the task that the last call of a session left waiting
  serial    \* history: since then its calls came one at a time, undisturbed

vars == <<client, kept, order, call, task, doubt, shown, owed, serial>>

Answer == {"none", "asks", "completed", "failed", "cut"}

Calls ==
  [phase : {"idle", "sent", "answered"}, session : Session \cup {NoSession},
   task : Task \cup {NoTask},   \* the task it replies to, or that it started
   reply : BOOLEAN, answer : Answer,
   question : 0 .. MaxQuestion, \* the one it answers
   sure : BOOLEAN,              \* no earlier reply to the task is in doubt
   attached : BOOLEAN,          \* the dict it holds is still its session's
   alone : BOOLEAN]             \* history: no other call of its session so far

Tasks ==
  [state : {"new", "asking", "ended"}, session : Session \cup {NoSession},
   question : 0 .. MaxQuestion]

Idle ==
  [phase |-> "idle", session |-> NoSession, task |-> NoTask, reply |-> FALSE, answer |-> "none",
   question |-> 0, sure |-> TRUE, attached |-> TRUE, alone |-> TRUE]

Init ==
  /\ client \in {"core", "adk"}
  /\ kept = [s \in Session |-> NoTask] /\ order = <<>>
  /\ call = [c \in Call |-> Idle]
  /\ task = [t \in Task |-> [state |-> "new", session |-> NoSession, question |-> 0]]
  /\ doubt = {} /\ shown = [t \in Task |-> 0]
  /\ owed = [s \in Session |-> NoTask] /\ serial = [s \in Session |-> TRUE]

-----------------------------------------------------------------------------
(* The ordered dict.                                                       *)

Without(seq, s) == SelectSeq(seq, LAMBDA x : x # s)

Touched(s) == Append(Without(order, s), s)

\* The session that makes room for s.
Evicted(s) == IF Len(Touched(s)) > MaxKept THEN {Head(Touched(s))} ELSE {}

Room(s) == IF Len(Touched(s)) > MaxKept THEN Tail(Touched(s)) ELSE Touched(s)

\* The dict with task t waiting in session s.
With(s, t) == [x \in Session |-> IF x = s THEN t ELSE IF x \in Evicted(s) THEN NoTask ELSE kept[x]]

-----------------------------------------------------------------------------
(* A call begins.                                                          *)

\* Fault: the task stays where the next call finds it.
LeftWaiting(s) == kept

\* pop: only one call of a session gets the task.
Taken(s) == [kept EXCEPT ![s] = NoTask]

Sent(s, t) ==
  [phase |-> "sent", session |-> s, task |-> t, reply |-> t # NoTask, answer |-> "none",
   question |-> IF t = NoTask THEN 0 ELSE shown[t], sure |-> t \notin doubt, attached |-> TRUE,
   alone |-> \A d \in Call : call[d].phase = "idle" \/ call[d].session # s]

\* Call c is under way; it shares its session, and those of `gone` lose theirs.
Sends(c, s, t, gone) ==
  call' = [d \in Call |->
             IF d = c THEN Sent(s, t)
             ELSE IF call[d].phase = "idle" THEN call[d]
             ELSE [call[d] EXCEPT !.alone = @ /\ call[d].session # s,
                                  !.attached = @ /\ call[d].session \notin gone]]

\* What the history says of a session once it is shared, and of evicted ones.
Disturbed(gone, s) ==
  serial' = [x \in Session |->
               serial[x] /\ x \notin gone /\ (x = s => Sent(s, NoTask).alone)]

CoreCall(c, s) ==
  /\ kept' = Taken(s) /\ order' = Without(order, s)
  /\ Sends(c, s, kept[s], {}) /\ Disturbed({}, s)

\* _state makes the session the newest one, whether it has a task or not.
AdkCall(c, s) ==
  /\ kept' = [x \in Session |-> IF x \in Evicted(s) THEN NoTask ELSE Taken(s)[x]]
  /\ order' = Room(s)
  /\ Sends(c, s, kept[s], Evicted(s)) /\ Disturbed(Evicted(s), s)

\* ADK's stream() replies like run() when a task waits, and else sends.
Begin(c) ==
  /\ call[c].phase = "idle"
  /\ \/ \E s \in Session : \/ client = "core" /\ CoreCall(c, s)
                           \/ client = "adk" /\ AdkCall(c, s)
     \/ Sends(c, NoSession, NoTask, {}) /\ UNCHANGED <<kept, order, serial>>
  /\ UNCHANGED <<client, task, doubt, shown, owed>>

-----------------------------------------------------------------------------
(* The remote and the network.                                             *)

\* A task waits for its next question, or ends.
Moved(t) ==
  {[task[t] EXCEPT !.state = "ended"]} \cup
  (IF task[t].question < MaxQuestion THEN {[task[t] EXCEPT !.question = @ + 1]} ELSE {})

AnswerOf(rec) == IF rec.state = "asking" THEN "asks" ELSE "completed"

Answered(c, t, answer) ==
  call' = [call EXCEPT ![c].phase = "answered", ![c].task = t, ![c].answer = answer]

\* A reply to a task that waits moves it, and any other fails.
HandleReply(c) ==
  LET t == call[c].task IN
  \/ /\ task[t].state = "asking"
     /\ \E rec \in Moved(t) : task' = [task EXCEPT ![t] = rec] /\ Answered(c, t, AnswerOf(rec))
  \/ /\ task[t].state = "asking"
     /\ task' = [task EXCEPT ![t].state = "ended"] /\ Answered(c, t, "failed")
  \/ task[t].state # "asking" /\ Answered(c, t, "failed") /\ UNCHANGED task

\* A message is answered at once, or starts a task that asks.
HandleSend(c) ==
  \/ \E t \in Task :
       /\ task[t].state = "new" /\ \A u \in 1 .. t - 1 : task[u].state # "new"
       /\ task' = [task EXCEPT ![t] = [state |-> "asking", session |-> call[c].session, question |-> 1]]
       /\ Answered(c, t, "asks")
  \/ \E answer \in {"completed", "failed"} : Answered(c, NoTask, answer) /\ UNCHANGED task

Handle(c) ==
  /\ call[c].phase = "sent"
  /\ \/ call[c].reply /\ HandleReply(c)
     \/ ~call[c].reply /\ HandleSend(c)
  /\ UNCHANGED <<client, kept, order, doubt, shown, owed, serial>>

GivenUp(c) == IF call[c].reply THEN doubt \cup {call[c].task} ELSE doubt

\* A timeout or a broken connection, before or after the remote acted.
Cut(c) ==
  /\ call[c].phase \in {"sent", "answered"} /\ call[c].answer # "cut"
  /\ call' = [call EXCEPT ![c].phase = "answered", ![c].answer = "cut"]
  /\ doubt' = GivenUp(c)
  /\ UNCHANGED <<client, kept, order, task, shown, owed, serial>>

\* The remote handles a reply that the client gave up on.
HandleLate(t) ==
  /\ t \in doubt /\ task[t].state = "asking"
  /\ \E rec \in Moved(t) : task' = [task EXCEPT ![t] = rec]
  /\ UNCHANGED <<client, kept, order, call, doubt, shown, owed, serial>>

-----------------------------------------------------------------------------
(* The call ends.                                                          *)

\* Fault: only an answer keeps the task, a broken reply does not.
KeepsAnswered(k) == k.answer = "asks"

\* Fault: whatever the error, the next call replies again.
KeepsFailed(k) == k.answer = "asks" \/ (k.answer \in {"cut", "failed"} /\ k.reply)

\* A transient cut does not kill the task; TaskFailed does.
Keeps(k) == k.answer = "asks" \/ (k.answer = "cut" /\ k.reply)

\* After a call that had its session for itself the history is sure again.
Ended(k, gone) ==
  serial' = [s \in Session |-> IF s = k.session THEN k.alone /\ k.attached ELSE serial[s] /\ s \notin gone]

\* _guardar, for a call that has a session.
CoreEnd(c) ==
  LET k == call[c]  s == k.session IN
  IF s # NoSession /\ Keeps(k)
  THEN kept' = With(s, k.task) /\ order' = Room(s) /\ Ended(k, Evicted(s))
  ELSE UNCHANGED <<kept, order>> /\ Ended(k, {})

\* _remember, which also forgets; a call that failed says nothing.
Remembered(k) ==
  IF k.answer = "completed" THEN [kept EXCEPT ![k.session] = NoTask]
  ELSE IF Keeps(k) THEN [kept EXCEPT ![k.session] = k.task] ELSE kept

\* The dict of an evicted session is nobody's.
AdkEnd(c) ==
  /\ kept' = IF call[c].session = NoSession \/ ~call[c].attached THEN kept ELSE Remembered(call[c])
  /\ Ended(call[c], {}) /\ UNCHANGED order

\* What the documents say the session has waiting after a call of its own.
Left(k) == IF k.answer = "asks" \/ (k.answer = "cut" /\ k.reply) THEN k.task ELSE NoTask

Told(k) == IF k.answer = "asks" THEN [shown EXCEPT ![k.task] = task[k.task].question] ELSE shown

End(c) ==
  LET k == call[c] IN
  /\ k.phase = "answered"
  /\ \/ client = "core" /\ CoreEnd(c)
     \/ client = "adk" /\ AdkEnd(c)
  /\ call' = [call EXCEPT ![c] = Idle]
  /\ shown' = Told(k)
  /\ owed' = IF k.session \in Session THEN [owed EXCEPT ![k.session] = Left(k)] ELSE owed
  /\ UNCHANGED <<client, task, doubt>>

\* The deadline of the run, or a sibling's failure: CancelledError is no
\* Exception, and the task that was taken is not put back.
Cancel(c) ==
  /\ call[c].phase # "idle"
  /\ call' = [call EXCEPT ![c] = Idle]
  /\ doubt' = GivenUp(c)
  /\ serial' = [s \in Session |-> serial[s] /\ s # call[c].session]
  /\ UNCHANGED <<client, kept, order, task, shown, owed>>

Next ==
  \/ \E c \in Call : Begin(c) \/ Handle(c) \/ Cut(c) \/ End(c) \/ Cancel(c)
  \/ \E t \in Task : HandleLate(t)

Spec == Init /\ [][Next]_vars

-----------------------------------------------------------------------------
(* What a session may count on.                                            *)

TypeOK ==
  /\ client \in {"core", "adk"}
  /\ kept \in [Session -> Task \cup {NoTask}] /\ order \in Seq(Session)
  /\ call \in [Call -> Calls] /\ task \in [Task -> Tasks] /\ doubt \subseteq Task
  /\ shown \in [Task -> 0 .. MaxQuestion]
  /\ owed \in [Session -> Task \cup {NoTask}] /\ serial \in [Session -> BOOLEAN]

Replies(c) == call[c].phase # "idle" /\ call[c].reply

(* _a2a.py:31-33: of the calls that overlap in one session one takes the   *)
(* task that waits and the others start new ones; no two calls of any      *)
(* session reply to one task, none replies to a task that still waits for  *)
(* a call, and no session gets a task that another one started.            *)
ReplyExclusive ==
  /\ \A c \in Call : Replies(c) =>
       /\ task[call[c].task].session = call[c].session
       /\ \A d \in Call \ {c} : Replies(d) => call[d].task # call[c].task
       /\ \A s \in Session : kept[s] # call[c].task
  /\ \A s \in Session : kept[s] # NoTask => task[kept[s]].session = s

(* astromesh-tools.md:80-89: when the calls of a session come one at a     *)
(* time, what waits for its next call is the task that the last one left   *)
(* waiting: one that asks, or one whose reply broke; never one that ended. *)
(* Excepted are a session that was evicted and a call that was cancelled.  *)
KeptAsTold ==
  \A s \in Session :
    serial[s] /\ (\A c \in Call : call[c].phase = "idle" \/ call[c].session # s) => kept[s] = owed[s]

(* A reply reaches the question that its session was shown, and no later   *)
(* one and no task that ended, unless an earlier reply broke on the way.   *)
AnswersWhatWasAsked ==
  \A c \in Call : call[c].phase = "sent" /\ call[c].reply /\ call[c].sure =>
    LET t == task[call[c].task] IN t.state = "asking" /\ t.question = call[c].question

=============================================================================
