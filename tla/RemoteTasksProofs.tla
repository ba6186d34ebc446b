------------------------- MODULE RemoteTasksProofs -------------------------
(***************************************************************************)
(* Proofs about RemoteTasks, for both clients and any number of sessions,  *)
(* calls, tasks and places in the dict.                                    *)
(***************************************************************************)
EXTENDS RemoteTasks, TLAPS

Flying(c) == call[c].phase # "idle"
Holds(c)  == Flying(c) /\ call[c].task # NoTask

\* Everything but the order of the dict, on which nothing below depends.
Typed ==
  /\ client \in {"core", "adk"}
  /\ kept \in [Session -> Task \cup {NoTask}]
  /\ call \in [Call -> Calls] /\ task \in [Task -> Tasks] /\ doubt \subseteq Task
  /\ shown \in [Task -> 0 .. MaxQuestion]
  /\ owed \in [Session -> Task \cup {NoTask}] /\ serial \in [Session -> BOOLEAN]

\* A task that was started is in one place, a call or the dict, of the
\* session that started it.
Held ==
  /\ \A c \in Call : Flying(c) /\ call[c].reply => call[c].task # NoTask
  /\ \A c \in Call : Holds(c) =>
       /\ task[call[c].task].state # "new"
       /\ task[call[c].task].session = call[c].session
       /\ \A d \in Call \ {c} : Holds(d) => call[d].task # call[c].task
       /\ \A s \in Session : kept[s] # call[c].task
  /\ \A s \in Session : kept[s] # NoTask =>
       task[kept[s]].state # "new" /\ task[kept[s]].session = s

\* What the client knows of a task of which no reply is in doubt is so.
Known ==
  /\ \A s \in Session : kept[s] # NoTask /\ kept[s] \notin doubt =>
       task[kept[s]].state = "asking" /\ task[kept[s]].question = shown[kept[s]]
  /\ \A c \in Call : call[c].phase = "sent" /\ call[c].reply /\ call[c].sure =>
       /\ call[c].task \notin doubt
       /\ task[call[c].task].state = "asking" /\ task[call[c].task].question = call[c].question
  /\ \A c \in Call : call[c].phase = "answered" /\ call[c].answer = "asks" =>
       /\ call[c].task # NoTask
       /\ call[c].task \notin doubt => task[call[c].task].state = "asking"
  /\ \A c \in Call : call[c].phase = "answered" /\ call[c].answer = "cut" /\ call[c].reply =>
       call[c].task \in doubt

\* A call that has its session for itself left nothing in the dict.
Alone ==
  /\ \A c \in Call : Flying(c) /\ call[c].alone =>
       \A d \in Call \ {c} : Flying(d) => call[d].session # call[c].session \/ call[c].session = NoSession
  /\ \A c \in Call : Flying(c) /\ call[c].alone /\ call[c].attached /\ call[c].session \in Session =>
       kept[call[c].session] = NoTask
  /\ client = "core" => \A c \in Call : call[c].attached

IInv == Typed /\ Held /\ Known /\ Alone /\ KeptAsTold

USE DEF Task, NoTask

THEOREM Initially == Init => IInv
  BY RemoteAssumption DEF Init, IInv, Typed, Held, Known, Alone, KeptAsTold, Idle, Calls, Tasks, Answer, Flying, Holds


-----------------------------------------------------------------------------
(* A call begins.                                                          *)

\* The calls after Sends, one by one.
LEMMA SendsEffect ==
  ASSUME Typed, NEW c \in Call, NEW s \in Session \cup {NoSession}, NEW t \in Task \cup {NoTask},
         NEW gone, Sends(c, s, t, gone)
  PROVE  /\ call' \in [Call -> Calls]
         /\ call'[c] = Sent(s, t)
         /\ \A d \in Call \ {c} :
              /\ call'[d].phase = call[d].phase /\ call'[d].session = call[d].session
              /\ call'[d].task = call[d].task /\ call'[d].reply = call[d].reply
              /\ call'[d].answer = call[d].answer /\ call'[d].question = call[d].question
              /\ call'[d].sure = call[d].sure
              /\ call[d].phase # "idle" =>
                   /\ call'[d].alone = (call[d].alone /\ call[d].session # s)
                   /\ call'[d].attached = (call[d].attached /\ call[d].session \notin gone)
              /\ call[d].phase = "idle" => call'[d] = call[d]
<1>1. Sent(s, t) \in Calls
  BY RemoteAssumption DEF Typed, Sent, Calls, Answer
<1>2. \A d \in Call \ {c} :
        call'[d] = IF call[d].phase = "idle" THEN call[d]
                   ELSE [call[d] EXCEPT !.alone = @ /\ call[d].session # s,
                                        !.attached = @ /\ call[d].session \notin gone]
  BY DEF Sends
<1>3. call'[c] = Sent(s, t)
  BY DEF Sends
<1>7. \A d \in Call : call[d] \in Calls /\ call[d].alone \in BOOLEAN /\ call[d].attached \in BOOLEAN
  BY DEF Typed, Calls
<1>9. ASSUME NEW d \in Call \ {c}, call[d].phase # "idle"
      PROVE  /\ call'[d] \in Calls
             /\ call'[d].phase = call[d].phase /\ call'[d].session = call[d].session
             /\ call'[d].task = call[d].task /\ call'[d].reply = call[d].reply
             /\ call'[d].answer = call[d].answer /\ call'[d].question = call[d].question
             /\ call'[d].sure = call[d].sure
             /\ call'[d].alone = (call[d].alone /\ call[d].session # s)
             /\ call'[d].attached = (call[d].attached /\ call[d].session \notin gone)
  <2> DEFINE a == call[d].alone /\ call[d].session # s
             b == call[d].attached /\ call[d].session \notin gone
  <2>1. a \in BOOLEAN /\ b \in BOOLEAN
    BY <1>7
  <2>2. call'[d] = [call[d] EXCEPT !.alone = a, !.attached = b]
    BY <1>2, <1>9
  <2> HIDE DEF a, b
  <2>3. /\ call'[d] \in Calls /\ call'[d].alone = a /\ call'[d].attached = b
        /\ call'[d].phase = call[d].phase /\ call'[d].session = call[d].session
        /\ call'[d].task = call[d].task /\ call'[d].reply = call[d].reply
        /\ call'[d].answer = call[d].answer /\ call'[d].question = call[d].question
        /\ call'[d].sure = call[d].sure
    <3>1. PICK r \in Calls : r = call[d]
      BY <1>7
    <3>2. PICK q : q = [r EXCEPT !.alone = a, !.attached = b]
      OBVIOUS
    <3>3. call'[d] = q
      BY <2>2, <3>1, <3>2, Zenon
    <3>4. /\ q \in Calls /\ q.alone = a /\ q.attached = b
          /\ q.phase = r.phase /\ q.session = r.session /\ q.task = r.task /\ q.reply = r.reply
          /\ q.answer = r.answer /\ q.question = r.question /\ q.sure = r.sure
      BY <2>1, <3>2 DEF Calls
    <3>5. QED
      BY <3>1, <3>3, <3>4
  <2>4. QED
    BY <2>3 DEF a, b
<1>10. \A d \in Call \ {c} : call[d].phase = "idle" => call'[d] = call[d]
  BY <1>2
<1>4. \A d \in Call \ {c} : call'[d] \in Calls
  BY <1>7, <1>9, <1>10
<1>5. DOMAIN call' = Call /\ call' = [d \in Call |-> call'[d]]
  BY DEF Sends
<1>6. call' \in [Call -> Calls]
  BY <1>1, <1>3, <1>4, <1>5
<1>8. QED
  BY <1>3, <1>6, <1>9, <1>10

\* What both clients do to the dict, and a call without a session does not:
\* the task of the session is taken, and some session may lose its place.
LEMMA BeginStep ==
  ASSUME IInv, NEW c \in Call, NEW s \in Session \cup {NoSession}, NEW gone,
         call[c].phase = "idle",
         Sends(c, s, IF s = NoSession THEN NoTask ELSE kept[s], gone),
         kept' = [x \in Session |-> IF x \in gone \/ x = s THEN NoTask ELSE kept[x]],
         client = "core" => gone = {},
         serial' = [x \in Session |->
                      serial[x] /\ x \notin gone /\ (x = s => Sent(s, NoTask).alone)],
         UNCHANGED <<client, task, doubt, shown, owed>>
  PROVE  IInv'
<1> DEFINE t == IF s = NoSession THEN NoTask ELSE kept[s]
<1>1. t \in Task \cup {NoTask} /\ Typed
  BY RemoteAssumption DEF IInv, Typed
<1> HIDE DEF t
<1>2. Sends(c, s, t, gone)
  BY DEF t
<1>3. /\ call' \in [Call -> Calls]
      /\ call'[c] = Sent(s, t)
      /\ \A d \in Call \ {c} :
           /\ call'[d].phase = call[d].phase /\ call'[d].session = call[d].session
           /\ call'[d].task = call[d].task /\ call'[d].reply = call[d].reply
           /\ call'[d].answer = call[d].answer /\ call'[d].question = call[d].question
           /\ call'[d].sure = call[d].sure
           /\ call[d].phase # "idle" =>
                /\ call'[d].alone = (call[d].alone /\ call[d].session # s)
                /\ call'[d].attached = (call[d].attached /\ call[d].session \notin gone)
           /\ call[d].phase = "idle" => call'[d] = call[d]
  BY <1>1, <1>2, SendsEffect
<1>4. Typed'
  BY <1>1, <1>3 DEF Typed
<1>5. /\ call'[c].phase = "sent" /\ call'[c].session = s /\ call'[c].task = t
      /\ call'[c].reply = (t # NoTask) /\ call'[c].answer = "none"
      /\ call'[c].question = (IF t = NoTask THEN 0 ELSE shown[t])
      /\ call'[c].sure = (t \notin doubt) /\ call'[c].attached
      /\ call'[c].alone = (\A d \in Call : call[d].phase = "idle" \/ call[d].session # s)
  BY <1>3 DEF Sent
<1>6. t # NoTask => s \in Session /\ t = kept[s]
  BY DEF t
<1>7. \A x \in Session : kept'[x] # NoTask => kept'[x] = kept[x] /\ x # s
  OBVIOUS
<1>8. Held'
  <2>1. \A d \in Call : (Flying(d) /\ call[d].reply => call[d].task # NoTask)'
    <3>1. call'[c].reply => call'[c].task # NoTask
      BY <1>5
    <3>2. \A d \in Call \ {c} : call'[d].phase # "idle" /\ call'[d].reply => call'[d].task # NoTask
      BY <1>3 DEF IInv, Held, Flying
    <3>3. QED
      BY <3>1, <3>2 DEF Flying
  <2>2. \A d \in Call \ {c} : Holds(d)' => Holds(d) /\ call'[d].task = call[d].task
    BY <1>3 DEF Holds, Flying
  <2>3. \A x \in Session : kept'[x] # NoTask =>
          task'[kept'[x]].state # "new" /\ task'[kept'[x]].session = x
    BY <1>7 DEF IInv, Held
  <2>4. t # NoTask => task[t].state # "new" /\ task[t].session = s
    BY <1>6 DEF IInv, Held
  <2>5. t # NoTask => \A x \in Session : kept'[x] # t
    BY <1>6, <1>7 DEF IInv, Held
  <2>6. t # NoTask => \A d \in Call \ {c} : Holds(d) => call[d].task # t
    BY <1>6 DEF IInv, Held
  <2>7. \A d \in Call \ {c} : Holds(d)' =>
          /\ task'[call'[d].task].state # "new"
          /\ task'[call'[d].task].session = call'[d].session
          /\ \A e \in Call \ {d} : Holds(e)' => call'[e].task # call'[d].task
          /\ \A x \in Session : kept'[x] # call'[d].task
    BY <2>2, <2>6, <1>3, <1>5, <1>7 DEF IInv, Held, Holds
  <2>8. Holds(c)' =>
          /\ task'[call'[c].task].state # "new"
          /\ task'[call'[c].task].session = call'[c].session
          /\ \A e \in Call \ {c} : Holds(e)' => call'[e].task # call'[c].task
          /\ \A x \in Session : kept'[x] # call'[c].task
    BY <2>2, <2>4, <2>5, <2>6, <1>5 DEF Holds
  <2>9. QED
    BY <2>1, <2>3, <2>7, <2>8 DEF Held
<1>9. Known'
  <2>1. \A x \in Session : kept'[x] # NoTask /\ kept'[x] \notin doubt =>
          task[kept'[x]].state = "asking" /\ task[kept'[x]].question = shown[kept'[x]]
    BY <1>7 DEF IInv, Known
  <2>2. t # NoTask /\ t \notin doubt => task[t].state = "asking" /\ task[t].question = shown[t]
    BY <1>6 DEF IInv, Known
  <2>3. \A d \in Call \ {c} : (call[d].phase = "sent" /\ call[d].reply /\ call[d].sure =>
          /\ call[d].task \notin doubt
          /\ task[call[d].task].state = "asking" /\ task[call[d].task].question = call[d].question)'
    BY <1>3 DEF IInv, Known
  <2>4. (call[c].phase = "sent" /\ call[c].reply /\ call[c].sure =>
          /\ call[c].task \notin doubt
          /\ task[call[c].task].state = "asking" /\ task[call[c].task].question = call[c].question)'
    BY <2>2, <1>5
  <2>5. \A d \in Call : call'[d].phase = "answered" => d # c
    BY <1>5
  <2>6. QED
    BY <1>3, <2>1, <2>3, <2>4, <2>5 DEF IInv, Known
<1>10. Alone'
  <2>1. (client = "core" => \A d \in Call : call[d].attached)'
    BY <1>3, <1>5 DEF IInv, Alone
  <2>5. \A d \in Call \ {c} : call'[d].phase # "idle" /\ call'[d].alone =>
          call[d].phase # "idle" /\ call[d].alone /\ call[d].session # s
    BY <1>3
  <2>6. \A d \in Call \ {c} : call'[d].phase # "idle" /\ call'[d].attached =>
          call[d].phase # "idle" /\ call[d].attached /\ call[d].session \notin gone
    BY <1>3
  <2>7. call'[c].alone => \A d \in Call \ {c} : call'[d].phase # "idle" => call'[d].session # s
    <3>1. call'[c].alone => \A d \in Call : call[d].phase = "idle" \/ call[d].session # s
      BY <1>5, Zenon
    <3>2. QED
      BY <3>1, <1>3
  <2>2. \A d \in Call : (Flying(d) /\ call[d].alone =>
          \A e \in Call \ {d} : Flying(e) => call[e].session # call[d].session \/ call[d].session = NoSession)'
    <3>1. ASSUME NEW d \in Call, Flying(d)', call'[d].alone, NEW e \in Call \ {d}, Flying(e)'
          PROVE  call'[e].session # call'[d].session \/ call'[d].session = NoSession
      <4>1. CASE d = c
        BY <2>7, <3>1, <4>1, <1>5 DEF Flying
      <4>2. CASE d # c /\ e = c
        BY <2>5, <3>1, <4>2, <1>3, <1>5 DEF Flying
      <4>3. CASE d # c /\ e # c
        BY <2>5, <3>1, <4>3, <1>3 DEF IInv, Alone, Flying
      <4>4. QED
        BY <4>1, <4>2, <4>3
    <3>2. QED
      BY <3>1
  <2>3. \A d \in Call : (Flying(d) /\ call[d].alone /\ call[d].attached /\ call[d].session \in Session =>
          kept[call[d].session] = NoTask)'
    BY <2>5, <2>6, <1>3, <1>5 DEF IInv, Alone, Flying
  <2>4. QED
    BY <2>1, <2>2, <2>3 DEF Alone
<1>11. KeptAsTold'
  <2> SUFFICES ASSUME NEW x \in Session, serial'[x],
                      \A d \in Call : call'[d].phase = "idle" \/ call'[d].session # x
               PROVE  kept'[x] = owed'[x]
    BY DEF KeptAsTold
  <2>1. x # s /\ x \notin gone /\ serial[x]
    BY <1>5
  <2>2. \A d \in Call : call[d].phase = "idle" \/ call[d].session # x
    BY <1>3
  <2>3. QED
    BY <2>1, <2>2 DEF IInv, KeptAsTold
<1>12. QED
  BY <1>4, <1>8, <1>9, <1>10, <1>11 DEF IInv

LEMMA BeginKeeps ==
  ASSUME IInv, NEW c \in Call, Begin(c)
  PROVE  IInv'
<1>1. ASSUME NEW s \in Session, client = "core", CoreCall(c, s) PROVE IInv'
  <2>1. kept' = [x \in Session |-> IF x \in {} \/ x = s THEN NoTask ELSE kept[x]]
    BY <1>1 DEF CoreCall, Taken, IInv, Typed
  <2>2. serial' = [x \in Session |->
                     serial[x] /\ x \notin {} /\ (x = s => Sent(s, NoTask).alone)]
    BY <1>1 DEF CoreCall, Disturbed
  <2>3. Sends(c, s, IF s = NoSession THEN NoTask ELSE kept[s], {})
    BY <1>1, RemoteAssumption DEF CoreCall
  <2>4. QED
    BY <2>1, <2>2, <2>3, BeginStep DEF Begin
<1>2. ASSUME NEW s \in Session, client = "adk", AdkCall(c, s) PROVE IInv'
  <2>1. kept' = [x \in Session |-> IF x \in Evicted(s) \/ x = s THEN NoTask ELSE kept[x]]
    BY <1>2 DEF AdkCall, Taken, IInv, Typed
  <2>2. serial' = [x \in Session |->
                     serial[x] /\ x \notin Evicted(s) /\ (x = s => Sent(s, NoTask).alone)]
    BY <1>2 DEF AdkCall, Disturbed
  <2>3. Sends(c, s, IF s = NoSession THEN NoTask ELSE kept[s], Evicted(s))
    BY <1>2, RemoteAssumption DEF AdkCall
  <2>4. QED
    BY <2>1, <2>2, <2>3, <1>2, BeginStep DEF Begin
<1>3. ASSUME Sends(c, NoSession, NoTask, {}), UNCHANGED <<kept, order, serial>> PROVE IInv'
  <2>1. kept' = [x \in Session |-> IF x \in {} \/ x = NoSession THEN NoTask ELSE kept[x]]
    BY <1>3, RemoteAssumption DEF IInv, Typed
  <2>2. serial' = [x \in Session |->
                     serial[x] /\ x \notin {} /\ (x = NoSession => Sent(NoSession, NoTask).alone)]
    BY <1>3, RemoteAssumption DEF IInv, Typed
  <2>3. QED
    BY <2>1, <2>2, <1>3, BeginStep DEF Begin
<1>4. QED
  BY <1>1, <1>2, <1>3 DEF Begin

-----------------------------------------------------------------------------
(* The remote and the network.                                             *)

LEMMA AnsweredEffect ==
  ASSUME Typed, NEW c \in Call, NEW t \in Task \cup {NoTask}, NEW answer \in Answer,
         Answered(c, t, answer)
  PROVE  /\ call' \in [Call -> Calls]
         /\ call'[c].phase = "answered" /\ call'[c].task = t /\ call'[c].answer = answer
         /\ call'[c].session = call[c].session /\ call'[c].reply = call[c].reply
         /\ call'[c].alone = call[c].alone /\ call'[c].attached = call[c].attached
         /\ \A d \in Call \ {c} : call'[d] = call[d]
<1>1. call[c] \in Calls
  BY DEF Typed
<1>2. PICK q : q = [call[c] EXCEPT !.phase = "answered", !.task = t, !.answer = answer]
  OBVIOUS
<1>3. /\ q \in Calls /\ q.phase = "answered" /\ q.task = t /\ q.answer = answer
      /\ q.session = call[c].session /\ q.reply = call[c].reply
      /\ q.alone = call[c].alone /\ q.attached = call[c].attached
  BY <1>1, <1>2 DEF Calls, Answer
<1>4. call' = [call EXCEPT ![c] = q]
  BY <1>2 DEF Answered, Typed
<1>5. QED
  BY <1>3, <1>4 DEF Typed

\* A call that the remote has handled: its task t is the one it replied to,
\* or a new one, or none.
LEMMA HandledStep ==
  ASSUME IInv, NEW c \in Call, call[c].phase = "sent", NEW t \in Task \cup {NoTask},
         NEW answer \in {"asks", "completed", "failed"}, Answered(c, t, answer),
         task' \in [Task -> Tasks],
         \A u \in Task : u # t => task'[u] = task[u],
         t # NoTask => task'[t].state # "new" /\ task'[t].session = call[c].session,
         answer = "asks" => t # NoTask /\ task'[t].state = "asking",
         call[c].reply => t = call[c].task,
         ~call[c].reply /\ t # NoTask => task[t].state = "new",
         UNCHANGED <<client, kept, order, doubt, shown, owed, serial>>
  PROVE  IInv'
<1>1. Typed
  BY DEF IInv
<1>2. /\ call' \in [Call -> Calls]
      /\ call'[c].phase = "answered" /\ call'[c].task = t /\ call'[c].answer = answer
      /\ call'[c].session = call[c].session /\ call'[c].reply = call[c].reply
      /\ call'[c].alone = call[c].alone /\ call'[c].attached = call[c].attached
      /\ \A d \in Call \ {c} : call'[d] = call[d]
  BY <1>1, AnsweredEffect DEF Answer
<1>3. Typed'
  BY <1>1, <1>2 DEF Typed
\* Task t is nowhere else.
<1>4. t # NoTask => /\ \A d \in Call \ {c} : Holds(d) => call[d].task # t
                    /\ \A s \in Session : kept[s] # t
  <2>1. CASE call[c].reply
    BY <2>1 DEF IInv, Held, Holds, Flying
  <2>2. CASE ~call[c].reply
    BY <2>2 DEF IInv, Held
  <2>3. QED
    BY <2>1, <2>2
<1>5. \A s \in Session : kept[s] # NoTask => task'[kept[s]] = task[kept[s]] /\ kept[s] # t
  BY <1>1, <1>4 DEF Typed
<1>6. \A d \in Call \ {c} : Holds(d) => task'[call[d].task] = task[call[d].task] /\ call[d].task # t
  BY <1>1, <1>4 DEF Typed, Holds, Calls
<1>7. Held'
  <2>1. \A d \in Call : (Flying(d) /\ call[d].reply => call[d].task # NoTask)'
    BY <1>2 DEF IInv, Held, Flying
  <2>2. \A d \in Call \ {c} : Holds(d)' => Holds(d)
    BY <1>2 DEF Holds, Flying
  <2>3. \A d \in Call \ {c} : Holds(d)' =>
          /\ task'[call'[d].task].state # "new"
          /\ task'[call'[d].task].session = call'[d].session
          /\ \A e \in Call \ {d} : Holds(e)' => call'[e].task # call'[d].task
          /\ \A x \in Session : kept'[x] # call'[d].task
    BY <2>2, <1>2, <1>6 DEF IInv, Held, Holds
  <2>4. Holds(c)' =>
          /\ task'[call'[c].task].state # "new"
          /\ task'[call'[c].task].session = call'[c].session
          /\ \A e \in Call \ {c} : Holds(e)' => call'[e].task # call'[c].task
          /\ \A x \in Session : kept'[x] # call'[c].task
    BY <2>2, <1>2, <1>4 DEF Holds
  <2>5. \A s \in Session : kept[s] # NoTask =>
          task'[kept[s]].state # "new" /\ task'[kept[s]].session = s
    BY <1>5 DEF IInv, Held
  <2>6. QED
    BY <2>1, <2>3, <2>4, <2>5 DEF Held
<1>8. Known'
  <2>1. \A s \in Session : kept[s] # NoTask /\ kept[s] \notin doubt =>
          task'[kept[s]].state = "asking" /\ task'[kept[s]].question = shown[kept[s]]
    BY <1>5 DEF IInv, Known
  <2>2. \A d \in Call \ {c} : call[d].phase = "sent" /\ call[d].reply => Holds(d)
    BY DEF IInv, Held, Holds, Flying
  <2>3. \A d \in Call \ {c} : (call[d].phase = "sent" /\ call[d].reply /\ call[d].sure =>
          /\ call[d].task \notin doubt
          /\ task[call[d].task].state = "asking" /\ task[call[d].task].question = call[d].question)'
    BY <1>2, <1>6, <2>2 DEF IInv, Known
  <2>4. \A d \in Call \ {c} : (call[d].phase = "answered" /\ call[d].answer = "asks" =>
          /\ call[d].task # NoTask
          /\ call[d].task \notin doubt => task[call[d].task].state = "asking")'
    BY <1>2, <1>6 DEF IInv, Known, Holds, Flying
  <2>5. QED
    BY <1>2, <2>1, <2>3, <2>4 DEF IInv, Known
<1>9. Alone'
  BY <1>2 DEF IInv, Alone, Flying
<1>10. KeptAsTold'
  BY <1>2 DEF IInv, KeptAsTold
<1>11. QED
  BY <1>3, <1>7, <1>8, <1>9, <1>10 DEF IInv

LEMMA HandleKeeps ==
  ASSUME IInv, NEW c \in Call, Handle(c)
  PROVE  IInv'
<1>1. Typed /\ call[c].phase = "sent" /\ call[c] \in Calls
  BY DEF IInv, Typed, Handle
<1>2. CASE call[c].reply /\ HandleReply(c)
  <2> DEFINE t == call[c].task
  <2>1. t \in Task /\ task[t].state # "new" /\ task[t].session = call[c].session /\ task[t] \in Tasks
    BY <1>1, <1>2 DEF IInv, Held, Holds, Flying, Calls, Typed
  <2>2. ASSUME task[t].state = "asking", NEW rec \in Moved(t),
               task' = [task EXCEPT ![t] = rec], Answered(c, t, AnswerOf(rec))
        PROVE  IInv'
    <3>1. rec \in Tasks /\ rec.state \in {"asking", "ended"} /\ rec.session = task[t].session
      BY <2>1, <2>2, RemoteAssumption DEF Moved, Tasks
    <3>2. AnswerOf(rec) \in {"asks", "completed"} /\ (AnswerOf(rec) = "asks" => rec.state = "asking")
      BY DEF AnswerOf
    <3>3. /\ task' \in [Task -> Tasks] /\ task'[t] = rec
          /\ \A u \in Task : u # t => task'[u] = task[u]
      BY <1>1, <2>1, <2>2, <3>1 DEF Typed
    <3>4. QED
      BY <1>1, <1>2, <2>1, <2>2, <3>1, <3>2, <3>3, HandledStep DEF Handle
  <2>3. ASSUME task[t].state = "asking", task' = [task EXCEPT ![t].state = "ended"],
               Answered(c, t, "failed")
        PROVE  IInv'
    <3>1. /\ task' \in [Task -> Tasks] /\ task'[t].state = "ended"
          /\ task'[t].session = task[t].session
          /\ \A u \in Task : u # t => task'[u] = task[u]
      BY <1>1, <2>1, <2>3 DEF Typed, Tasks
    <3>2. QED
      BY <1>1, <1>2, <2>1, <2>3, <3>1, HandledStep DEF Handle
  <2>4. ASSUME Answered(c, t, "failed"), UNCHANGED task
        PROVE  IInv'
    BY <1>1, <1>2, <2>1, <2>4, HandledStep DEF Handle, Typed
  <2>5. QED
    BY <1>2, <2>2, <2>3, <2>4 DEF HandleReply
<1>3. CASE ~call[c].reply /\ HandleSend(c)
  <2>1. ASSUME NEW t \in Task, task[t].state = "new", Answered(c, t, "asks"),
               task' = [task EXCEPT ![t] = [state |-> "asking", session |-> call[c].session, question |-> 1]]
        PROVE  IInv'
    <3>1. [state |-> "asking", session |-> call[c].session, question |-> 1] \in Tasks
      BY <1>1, RemoteAssumption DEF Tasks, Calls
    <3>2. /\ task' \in [Task -> Tasks] /\ task'[t].state = "asking" /\ task'[t].session = call[c].session
          /\ \A u \in Task : u # t => task'[u] = task[u]
      BY <1>1, <2>1, <3>1 DEF Typed
    <3>3. QED
      BY <1>1, <1>3, <2>1, <3>2, HandledStep DEF Handle
  <2>2. ASSUME NEW answer \in {"completed", "failed"}, Answered(c, NoTask, answer), UNCHANGED task
        PROVE  IInv'
    BY <1>1, <1>3, <2>2, HandledStep DEF Handle, Typed
  <2>3. QED
    BY <1>3, <2>1, <2>2 DEF HandleSend
<1>4. QED
  BY <1>2, <1>3 DEF Handle

LEMMA CutKeeps ==
  ASSUME IInv, NEW c \in Call, Cut(c)
  PROVE  IInv'
<1>1. Typed /\ call[c] \in Calls /\ Flying(c)
  BY DEF IInv, Typed, Cut, Flying
<1>2. PICK q : q = [call[c] EXCEPT !.phase = "answered", !.answer = "cut"]
  OBVIOUS
<1>3. /\ q \in Calls /\ q.phase = "answered" /\ q.answer = "cut"
      /\ q.task = call[c].task /\ q.session = call[c].session /\ q.reply = call[c].reply
      /\ q.alone = call[c].alone /\ q.attached = call[c].attached
  BY <1>1, <1>2 DEF Calls, Answer
<1>4. call' = [call EXCEPT ![c] = q]
  BY <1>1, <1>2 DEF Cut, Typed
<1>5. /\ call' \in [Call -> Calls] /\ call'[c] = q
      /\ \A d \in Call \ {c} : call'[d] = call[d]
  BY <1>1, <1>3, <1>4 DEF Typed
<1>6. doubt' = GivenUp(c) /\ UNCHANGED <<client, kept, task, shown, owed, serial>>
  BY DEF Cut
<1>7. /\ doubt \subseteq doubt' /\ doubt' \subseteq Task
      /\ call[c].reply => call[c].task \in doubt' /\ Holds(c)
      /\ \A u \in doubt' : u \in doubt \/ (call[c].reply /\ u = call[c].task)
  BY <1>1, <1>6 DEF GivenUp, IInv, Held, Holds, Typed, Calls
<1>8. Typed'
  BY <1>1, <1>5, <1>6, <1>7 DEF Typed
<1>9. Held'
  <2>1. \A d \in Call : (Flying(d)' <=> Flying(d)) /\ call'[d].task = call[d].task
                        /\ call'[d].session = call[d].session /\ call'[d].reply = call[d].reply
    BY <1>1, <1>3, <1>5 DEF Flying
  <2>2. \A d \in Call : Holds(d)' <=> Holds(d)
    BY <2>1 DEF Holds
  <2>3. QED
    BY <2>1, <2>2, <1>6 DEF IInv, Held
<1>10. Known'
  <2>1. \A d \in Call \ {c} : call[d].phase = "sent" /\ call[d].reply /\ call[d].task \notin doubt =>
          call[d].task \notin doubt'
    BY <1>7 DEF IInv, Held, Holds, Flying
  <2>3. \A s \in Session : (kept[s] # NoTask /\ kept[s] \notin doubt =>
          task[kept[s]].state = "asking" /\ task[kept[s]].question = shown[kept[s]])'
    BY <1>6, <1>7 DEF IInv, Known
  <2>4. \A d \in Call : (call[d].phase = "sent" /\ call[d].reply /\ call[d].sure =>
          /\ call[d].task \notin doubt
          /\ task[call[d].task].state = "asking" /\ task[call[d].task].question = call[d].question)'
    BY <1>3, <1>5, <1>6, <1>7, <2>1 DEF IInv, Known
  <2>5. \A d \in Call : (call[d].phase = "answered" /\ call[d].answer = "asks" =>
          /\ call[d].task # NoTask
          /\ call[d].task \notin doubt => task[call[d].task].state = "asking")'
    <3>1. \A d \in Call : call'[d].answer = "asks" => d # c /\ call'[d] = call[d]
      BY <1>3, <1>5
    <3>2. QED
      BY <3>1, <1>6, <1>7 DEF IInv, Known
  <2>6. \A d \in Call : (call[d].phase = "answered" /\ call[d].answer = "cut" /\ call[d].reply =>
          call[d].task \in doubt)'
    <3>1. \A d \in Call \ {c} : call'[d] = call[d] /\ (call[d].task \in doubt => call[d].task \in doubt')
      BY <1>5, <1>7
    <3>2. call'[c].reply => call'[c].task \in doubt'
      BY <1>3, <1>5, <1>7
    <3>3. QED
      BY <3>1, <3>2 DEF IInv, Known
  <2>7. QED
    BY <2>3, <2>4, <2>5, <2>6 DEF Known
<1>11. Alone'
  BY <1>1, <1>3, <1>5, <1>6 DEF IInv, Alone, Flying
<1>12. KeptAsTold'
  BY <1>1, <1>3, <1>5, <1>6 DEF IInv, KeptAsTold, Flying
<1>13. QED
  BY <1>8, <1>9, <1>10, <1>11, <1>12 DEF IInv

LEMMA HandleLateKeeps ==
  ASSUME IInv, NEW t \in Task, HandleLate(t)
  PROVE  IInv'
<1>1. Typed /\ t \in doubt /\ task[t].state = "asking" /\ task[t] \in Tasks
  BY DEF IInv, Typed, HandleLate
<1>2. PICK rec \in Moved(t) : task' = [task EXCEPT ![t] = rec]
  BY DEF HandleLate
<1>3. rec \in Tasks /\ rec.state # "new" /\ rec.session = task[t].session
  BY <1>1, RemoteAssumption DEF Moved, Tasks
<1>4. /\ task' \in [Task -> Tasks] /\ task'[t] = rec
      /\ \A u \in Task : u # t => task'[u] = task[u]
      /\ UNCHANGED <<client, kept, call, doubt, shown, owed, serial>>
  BY <1>1, <1>2, <1>3 DEF Typed, HandleLate
<1>5. Typed'
  BY <1>1, <1>4 DEF Typed
<1>6. \A u \in Task : /\ task[u].state # "new" => task'[u].state # "new"
                      /\ task'[u].session = task[u].session
                      /\ u \notin doubt => task'[u] = task[u]
  BY <1>1, <1>3, <1>4
<1>7. /\ \A s \in Session : kept[s] # NoTask => kept[s] \in Task
      /\ \A d \in Call : call[d].task # NoTask => call[d].task \in Task
  BY <1>1 DEF Typed, Calls
<1>8. Held'
  BY <1>4, <1>6, <1>7 DEF IInv, Held, Holds, Flying
<1>9. Known'
  <2>1. \A d \in Call : call[d].phase = "sent" /\ call[d].reply => call[d].task # NoTask
    BY DEF IInv, Held, Flying
  <2>2. QED
    BY <1>4, <1>6, <1>7, <2>1 DEF IInv, Known
<1>10. Alone' /\ KeptAsTold'
  BY <1>4 DEF IInv, Alone, KeptAsTold, Flying
<1>11. QED
  BY <1>5, <1>8, <1>9, <1>10 DEF IInv

-----------------------------------------------------------------------------
(* A call ends.                                                            *)

LEMMA CancelKeeps ==
  ASSUME IInv, NEW c \in Call, Cancel(c)
  PROVE  IInv'
<1>1. Typed /\ call[c] \in Calls /\ Flying(c)
  BY DEF IInv, Typed, Cancel, Flying
<1>2. Idle \in Calls
  BY RemoteAssumption DEF Idle, Calls, Answer
<1>3. /\ call' \in [Call -> Calls] /\ call'[c] = Idle
      /\ \A d \in Call \ {c} : call'[d] = call[d]
  BY <1>1, <1>2 DEF Typed, Cancel
<1>4. /\ doubt' = GivenUp(c) /\ UNCHANGED <<client, kept, task, shown, owed>>
      /\ serial' = [s \in Session |-> serial[s] /\ s # call[c].session]
  BY DEF Cancel
<1>5. /\ doubt \subseteq doubt' /\ doubt' \subseteq Task
      /\ call[c].reply => Holds(c)
      /\ \A u \in doubt' : u \in doubt \/ (call[c].reply /\ u = call[c].task)
  BY <1>1, <1>4 DEF GivenUp, IInv, Held, Holds, Typed, Calls
<1>6. Typed'
  BY <1>1, <1>3, <1>4, <1>5 DEF Typed
<1>7. ~Flying(c)' /\ call'[c].attached /\ \A d \in Call : Flying(d)' => d # c /\ Flying(d)
  BY <1>3 DEF Flying, Idle
<1>8. Held'
  BY <1>3, <1>4, <1>7 DEF IInv, Held, Holds
<1>9. Known'
  <2>1. \A d \in Call \ {c} : call[d].phase = "sent" /\ call[d].reply /\ call[d].task \notin doubt =>
          call[d].task \notin doubt'
    BY <1>5 DEF IInv, Held, Holds, Flying
  <2>2. \A d \in Call : call'[d].phase \in {"sent", "answered"} => d # c
    BY <1>3 DEF Idle
  <2>3. \A s \in Session : (kept[s] # NoTask /\ kept[s] \notin doubt =>
          task[kept[s]].state = "asking" /\ task[kept[s]].question = shown[kept[s]])'
    BY <1>4, <1>5 DEF IInv, Known
  <2>4. \A d \in Call : (call[d].phase = "sent" /\ call[d].reply /\ call[d].sure =>
          /\ call[d].task \notin doubt
          /\ task[call[d].task].state = "asking" /\ task[call[d].task].question = call[d].question)'
    BY <1>3, <1>4, <1>5, <2>1, <2>2 DEF IInv, Known
  <2>5. \A d \in Call : (call[d].phase = "answered" /\ call[d].answer = "asks" =>
          /\ call[d].task # NoTask
          /\ call[d].task \notin doubt => task[call[d].task].state = "asking")'
    <3>1. \A d \in Call : call'[d].phase = "answered" => call'[d] = call[d]
      BY <1>3, <2>2
    <3>2. QED
      BY <3>1, <1>4, <1>5 DEF IInv, Known
  <2>6. \A d \in Call : (call[d].phase = "answered" /\ call[d].answer = "cut" /\ call[d].reply =>
          call[d].task \in doubt)'
    BY <1>3, <1>4, <1>5, <2>1, <2>2 DEF IInv, Known
  <2>7. QED
    BY <2>3, <2>4, <2>5, <2>6 DEF Known
<1>10. Alone'
  BY <1>3, <1>4, <1>7 DEF IInv, Alone
<1>11. KeptAsTold'
  <2> SUFFICES ASSUME NEW s \in Session, serial'[s],
                      \A d \in Call : call'[d].phase = "idle" \/ call'[d].session # s
               PROVE  kept'[s] = owed'[s]
    BY DEF KeptAsTold
  <2>1. serial[s] /\ s # call[c].session
    BY <1>4
  <2>2. \A d \in Call : call[d].phase = "idle" \/ call[d].session # s
    BY <1>3, <2>1
  <2>3. QED
    BY <2>1, <2>2, <1>4 DEF IInv, KeptAsTold
<1>12. QED
  BY <1>6, <1>8, <1>9, <1>10, <1>11 DEF IInv

\* What the end of a call does to the dict, in either client: its session
\* gets the task, loses what it had or keeps it, and others may be evicted.
LEMMA EndStep ==
  ASSUME IInv, NEW c \in Call, call[c].phase = "answered",
         call' = [call EXCEPT ![c] = Idle], shown' = Told(call[c]),
         owed' = IF call[c].session \in Session
                 THEN [owed EXCEPT ![call[c].session] = Left(call[c])] ELSE owed,
         kept' \in [Session -> Task \cup {NoTask}],
         \A x \in Session : kept'[x] \in {kept[x], NoTask}
                            \/ (x = call[c].session /\ kept'[x] = call[c].task /\ Keeps(call[c])),
         serial' \in [Session -> BOOLEAN],
         \A x \in Session : serial'[x] =>
           IF x = call[c].session THEN kept'[x] = Left(call[c]) ELSE serial[x] /\ kept'[x] = kept[x],
         UNCHANGED <<client, task, doubt>>
  PROVE  IInv'
<1> DEFINE k == call[c]
<1>1. Typed /\ k \in Calls /\ Flying(c)
  BY DEF IInv, Typed, Flying
<1>2. Idle \in Calls
  BY RemoteAssumption DEF Idle, Calls, Answer
<1>3. /\ call' \in [Call -> Calls] /\ call'[c] = Idle
      /\ \A d \in Call \ {c} : call'[d] = call[d]
  BY <1>1, <1>2 DEF Typed
<1>4. Left(k) \in Task \cup {NoTask}
  BY <1>1 DEF Left, Calls
<1>5. k.answer = "asks" => Holds(c) /\ k.task \in Task
  BY <1>1 DEF IInv, Known, Holds, Calls
<1>6. /\ shown' \in [Task -> 0 .. MaxQuestion]
      /\ \A u \in Task : (k.answer # "asks" \/ u # k.task) => shown'[u] = shown[u]
      /\ k.answer = "asks" => shown'[k.task] = task[k.task].question
  BY <1>1, <1>5 DEF Told, Typed, Tasks
<1>7. Typed'
  BY <1>1, <1>3, <1>4, <1>6 DEF Typed
<1>8. ~Flying(c)' /\ call'[c].attached /\ \A d \in Call : Flying(d)' => d # c /\ Flying(d)
  BY <1>3 DEF Flying, Idle
<1>9. Keeps(k) => Holds(c)
  BY <1>1, <1>5 DEF Keeps, IInv, Held, Holds
<1>10. Held'
  <2>1. \A d \in Call : (Flying(d) /\ call[d].reply => call[d].task # NoTask)'
    BY <1>3, <1>8 DEF IInv, Held
  <2>2. \A d \in Call : Holds(d)' => d # c /\ Holds(d)
    BY <1>3, <1>8 DEF Holds
  <2>3. \A x \in Session : kept'[x] # NoTask =>
          task[kept'[x]].state # "new" /\ task[kept'[x]].session = x
    BY <1>9 DEF IInv, Held
  <2>4. \A d \in Call : Holds(d)' => \A x \in Session : kept'[x] # call'[d].task
    BY <2>2, <1>3, <1>9 DEF IInv, Held, Holds
  <2>5. QED
    BY <2>1, <2>2, <2>3, <2>4, <1>3 DEF IInv, Held
<1>11. Known'
  <2>1. ASSUME NEW x \in Session, kept'[x] # NoTask, kept'[x] \notin doubt
        PROVE  task[kept'[x]].state = "asking" /\ task[kept'[x]].question = shown'[kept'[x]]
    <3>1. CASE kept'[x] = kept[x]
      <4>1. kept[x] \in Task /\ (k.answer = "asks" => kept[x] # k.task)
        BY <1>1, <1>5, <2>1, <3>1 DEF IInv, Held, Typed
      <4>2. shown'[kept[x]] = shown[kept[x]]
        BY <4>1, <1>6
      <4>3. QED
        BY <4>2, <2>1, <3>1 DEF IInv, Known
    <3>2. CASE x = k.session /\ kept'[x] = k.task /\ Keeps(k)
      <4>1. k.answer = "asks"
        BY <2>1, <3>2 DEF IInv, Known, Keeps
      <4>2. QED
        BY <2>1, <3>2, <4>1, <1>6 DEF IInv, Known
    <3>3. QED
      BY <2>1, <3>1, <3>2
  <2>2. \A d \in Call : call'[d].phase \in {"sent", "answered"} => d # c
    BY <1>3 DEF Idle
  <2>3. QED
    BY <1>3, <2>1, <2>2 DEF IInv, Known
<1>12. Alone'
  <2>1. (client = "core" => \A d \in Call : call[d].attached)'
    BY <1>3, <1>8 DEF IInv, Alone
  <2>2. \A d \in Call : (Flying(d) /\ call[d].alone =>
          \A e \in Call \ {d} : Flying(e) => call[e].session # call[d].session \/ call[d].session = NoSession)'
    BY <1>3, <1>8 DEF IInv, Alone
  <2>3. \A d \in Call : (Flying(d) /\ call[d].alone /\ call[d].attached /\ call[d].session \in Session =>
          kept[call[d].session] = NoTask)'
    <3> SUFFICES ASSUME NEW d \in Call, Flying(d)', call'[d].alone, call'[d].attached,
                        call'[d].session \in Session
                 PROVE  kept'[call'[d].session] = NoTask
      OBVIOUS
    <3>1. d # c /\ Flying(d) /\ call'[d] = call[d]
      BY <1>3, <1>8
    <3>2. kept[call[d].session] = NoTask
      BY <3>1 DEF IInv, Alone
    <3>3. call[d].session # k.session
      BY <3>1, <1>1, RemoteAssumption DEF IInv, Alone
    <3>4. QED
      BY <3>1, <3>2, <3>3
  <2>4. QED
    BY <2>1, <2>2, <2>3 DEF Alone
<1>13. KeptAsTold'
  <2> SUFFICES ASSUME NEW x \in Session, serial'[x],
                      \A d \in Call : call'[d].phase = "idle" \/ call'[d].session # x
               PROVE  kept'[x] = owed'[x]
    BY DEF KeptAsTold
  <2>1. CASE x = k.session
    <3>1. owed'[x] = Left(k)
      BY <2>1, <1>1, <1>4 DEF Typed
    <3>2. QED
      BY <2>1, <3>1
  <2>2. CASE x # k.session
    <3>1. \A d \in Call : call[d].phase = "idle" \/ call[d].session # x
      BY <1>3, <2>2
    <3>2. kept[x] = owed[x] /\ kept'[x] = kept[x]
      BY <2>2, <3>1 DEF IInv, KeptAsTold
    <3>3. owed'[x] = owed[x]
      BY <2>2, <1>1 DEF Typed
    <3>4. QED
      BY <3>2, <3>3
  <2>3. QED
    BY <2>1, <2>2
<1>14. QED
  BY <1>7, <1>10, <1>11, <1>12, <1>13 DEF IInv

LEMMA EndKeeps ==
  ASSUME IInv, NEW c \in Call, End(c)
  PROVE  IInv'
<1> DEFINE k == call[c]
<1>1. Typed /\ k \in Calls /\ k.phase = "answered" /\ Flying(c)
  BY DEF IInv, Typed, End, Flying
<1>2. /\ call' = [call EXCEPT ![c] = Idle] /\ shown' = Told(call[c])
      /\ owed' = IF call[c].session \in Session
                 THEN [owed EXCEPT ![call[c].session] = Left(call[c])] ELSE owed
      /\ UNCHANGED <<client, task, doubt>>
  BY DEF End
\* A call that had its session for itself found nothing in the dict.
<1>3. k.session \in Session /\ k.alone /\ k.attached => kept[k.session] = NoTask
  BY <1>1 DEF IInv, Alone
<1>4. k.session \in Session \cup {NoSession} /\ k.task \in Task \cup {NoTask}
      /\ k.alone \in BOOLEAN /\ k.attached \in BOOLEAN
  BY <1>1 DEF Calls
<1>5. Left(k) = IF Keeps(k) THEN k.task ELSE NoTask
  BY DEF Left, Keeps
<1>6. CASE client = "core" /\ CoreEnd(c)
  <2>1. CASE k.session # NoSession /\ Keeps(k)
    <3> DEFINE s == k.session
    <3>1. /\ kept' = [x \in Session |-> IF x = s THEN k.task
                                        ELSE IF x \in Evicted(s) THEN NoTask ELSE kept[x]]
          /\ serial' = [x \in Session |-> IF x = s THEN k.alone /\ k.attached
                                          ELSE serial[x] /\ x \notin Evicted(s)]
      BY <1>6, <2>1 DEF CoreEnd, With, Ended
    <3>2. kept' \in [Session -> Task \cup {NoTask}] /\ serial' \in [Session -> BOOLEAN]
      BY <3>1, <1>1, <1>4 DEF Typed
    <3>3. QED
      BY <3>1, <3>2, <1>1, <1>2, <1>5, <2>1, EndStep
  <2>2. CASE ~(k.session # NoSession /\ Keeps(k))
    <3>1. /\ kept' = kept
          /\ serial' = [x \in Session |-> IF x = k.session THEN k.alone /\ k.attached
                                          ELSE serial[x] /\ x \notin {}]
      BY <1>6, <2>2 DEF CoreEnd, Ended
    <3>2. kept' \in [Session -> Task \cup {NoTask}] /\ serial' \in [Session -> BOOLEAN]
      BY <3>1, <1>1, <1>4 DEF Typed
    <3>3. \A x \in Session : serial'[x] =>
            IF x = k.session THEN kept'[x] = Left(k) ELSE serial[x] /\ kept'[x] = kept[x]
      BY <3>1, <1>3, <1>5, <2>2, RemoteAssumption
    <3>4. QED
      BY <3>1, <3>2, <3>3, <1>1, <1>2, EndStep
  <2>3. QED
    BY <2>1, <2>2
<1>7. CASE client = "adk" /\ AdkEnd(c)
  <2>1. serial' = [x \in Session |-> IF x = k.session THEN k.alone /\ k.attached
                                     ELSE serial[x] /\ x \notin {}]
    BY <1>7 DEF AdkEnd, Ended
  <2>2. serial' \in [Session -> BOOLEAN]
    BY <2>1, <1>1, <1>4 DEF Typed
  <2>3. CASE k.session = NoSession \/ ~k.attached
    <3>1. kept' = kept
      BY <1>7, <2>3 DEF AdkEnd
    <3>2. \A x \in Session : serial'[x] =>
            IF x = k.session THEN kept'[x] = Left(k) ELSE serial[x] /\ kept'[x] = kept[x]
      BY <2>1, <2>3, <3>1, RemoteAssumption
    <3>3. QED
      BY <2>2, <3>1, <3>2, <1>1, <1>2, EndStep DEF Typed
  <2>4. CASE k.session \in Session /\ k.attached
    <3>1. kept' = Remembered(k)
      BY <1>7, <2>4, RemoteAssumption DEF AdkEnd
    <3>2. kept' = IF k.answer = "completed" THEN [kept EXCEPT ![k.session] = NoTask]
                  ELSE IF Keeps(k) THEN [kept EXCEPT ![k.session] = k.task] ELSE kept
      BY <3>1 DEF Remembered
    <3>3. /\ kept' \in [Session -> Task \cup {NoTask}]
          /\ \A x \in Session : x # k.session => kept'[x] = kept[x]
          /\ kept'[k.session] \in {kept[k.session], NoTask}
             \/ (kept'[k.session] = k.task /\ Keeps(k))
      BY <3>2, <1>1, <1>4, <2>4 DEF Typed
    <3>4. k.alone => kept'[k.session] = Left(k)
      BY <3>2, <1>1, <1>3, <1>5, <2>4 DEF Typed, Keeps
    <3>5. \A x \in Session : serial'[x] =>
            IF x = k.session THEN kept'[x] = Left(k) ELSE serial[x] /\ kept'[x] = kept[x]
      BY <2>1, <3>3, <3>4
    <3>6. QED
      BY <2>2, <3>3, <3>5, <1>1, <1>2, EndStep
  <2>5. QED
    BY <1>4, <2>3, <2>4
<1>8. QED
  BY <1>6, <1>7 DEF End

-----------------------------------------------------------------------------
(* The theorems.                                                           *)

LEMMA Inductive == IInv /\ [Next]_vars => IInv'
<1> SUFFICES ASSUME IInv, [Next]_vars PROVE IInv'
  OBVIOUS
<1>1. CASE Next
  BY <1>1, BeginKeeps, HandleKeeps, CutKeeps, EndKeeps, CancelKeeps, HandleLateKeeps DEF Next
<1>2. CASE UNCHANGED vars
  BY <1>2 DEF vars, IInv, Typed, Held, Known, Alone, KeptAsTold, Holds, Flying
<1>3. QED
  BY <1>1, <1>2

LEMMA Invariance == Spec => []IInv
  BY Initially, Inductive, PTL DEF Spec

(* The state of both clients is of its type, whatever the order of the     *)
(* dict.                                                                   *)
THEOREM RemoteTypeCorrect == Spec => []Typed
  BY Invariance, PTL DEF IInv

(* No two calls reply to one task, and tasks stay in their session, for    *)
(* any number of overlapping calls, timeouts, evictions and cancellations. *)
THEOREM OneReply == Spec => []ReplyExclusive
<1>1. IInv => ReplyExclusive
  BY DEF IInv, Held, ReplyExclusive, Replies, Holds, Flying
<1>2. QED
  BY <1>1, Invariance, PTL

(* What the last call of a session left waiting is what its next call      *)
(* finds.                                                                  *)
THEOREM NothingForgotten == Spec => []KeptAsTold
  BY Invariance, PTL DEF IInv

(* A reply meets the question it answers.                                  *)
THEOREM RightQuestion == Spec => []AnswersWhatWasAsked
<1>1. IInv => AnswersWhatWasAsked
  BY DEF IInv, Known, AnswersWhatWasAsked
<1>2. QED
  BY <1>1, Invariance, PTL

=============================================================================
