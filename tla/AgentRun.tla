------------------------------ MODULE AgentRun ------------------------------
(***************************************************************************)
(* One run of an agent and the runs of its sub-agents: Agent.run           *)
(* (src/astromesh/runtime/engine.py), the orchestration patterns           *)
(* (src/astromesh/orchestration and astromesh-glyph), the tools of type    *)
(* agent (core/tools.py), the budget of tokens, the usage of the           *)
(* sub-agents (runtime/uso_subagentes.py) and the proposals of a run       *)
(* (integrations/propuestas.py).                                           *)
(*                                                                         *)
(* Run 1 is the one that was asked for; the others are sub-agents.  A      *)
(* pattern is a set of tasks: task 0 is the pattern itself, the others are *)
(* what it runs side by side.  What models and tools answer is free.       *)
(***************************************************************************)
EXTENDS Integers, FiniteSets, FiniteSetsExt, Functions

CONSTANTS
  N,              \* runs that a request may come to
  NoRun,
  Teams,          \* the agents considered: for each run its pattern and its
                  \* cost_limit.max_tokens_per_turn, 0 without the rule
  Width,          \* tasks side by side, MAX_SUBTAREAS
  MaxIterations,  \* orchestration.max_iterations
  Cost,           \* what a call of the model may use, in tokens
  MaxHandoffs,    \* of every swarm
  MaxProposals    \* MAX_PROPUESTAS

ASSUME RunAssumption ==
  /\ N \in Nat \ {0} /\ Width \in Nat \ {0} /\ MaxIterations \in Nat \ {0}
  /\ Cost \subseteq Nat /\ \E most \in Cost : \A cost \in Cost : cost <= most
  /\ MaxHandoffs \in Nat /\ MaxProposals \in Nat

Run  == 1 .. N
Task == 0 .. Width
Pattern == {"loop", "swarm", "fanout", "wave", "map", "none"}
ASSUME TeamAssumption ==
  /\ Teams # {} /\ Teams \subseteq [Run -> [pattern : Pattern, limit : Nat]]
  /\ NoRun \notin Run

\* "loop" is react, supervisor and every stage of plan_and_execute and
\* pipeline; "wave" and "map" are the two ways of glyph to call at once.
\* "none" is the place of a run that a smaller team has not.
Glyph == {"wave", "map"}

VARIABLE run   \* what a call of Agent.run knows, and how it stands

vars == <<run>>

Phase   == {"idle", "building", "running", "unwinding", "saving", "rejecting", "ended"}
State   == {"off", "ready", "waiting", "model", "acting", "tool", "done", "failed"}
Outcome == {"none", "ok", "blocked", "timeout", "error", "cancelled"}

Runs ==
  [phase : Phase, pattern : Pattern, limit : Nat,
   parent : Run \cup {NoRun}, at : Task,    \* the task that called it
   linaje : SUBSET Run,                     \* the runs above it
   list : Run \cup {NoRun},                 \* whose list of proposals it writes to
   handoffs : Nat,                          \* _handoffs
   task : [Task -> State], turns : [Task -> 0 .. MaxIterations],
   used : Nat,                              \* contados: the calls in its trace
   cut : BOOLEAN,                           \* corte
   cause : Outcome,                         \* what it unwinds for
   outcome : Outcome,
   reported : Nat,                          \* the usage of its trace in the accumulator
   listed : 0 .. MaxProposals,              \* len(propuestas) of its own list
   told : Nat,                              \* history: proposals it was told were noted
   hops : Nat,                              \* history: handoffs that led to it
   left : BOOLEAN,                          \* history: its map did not wait for all its items
   delivered : Nat,                         \* history: proposals in the response
   billed : Nat]                            \* history: usage of the trace

\* The agent of a run, and nothing else yet.
Idle(agent) ==
  [phase |-> "idle", pattern |-> agent.pattern, limit |-> agent.limit, parent |-> NoRun, at |-> 0,
   linaje |-> {}, list |-> NoRun, handoffs |-> 0,
   task |-> [t \in Task |-> IF t = 0 THEN "ready" ELSE "off"], turns |-> [t \in Task |-> 0],
   used |-> 0, cut |-> FALSE, cause |-> "none", outcome |-> "none", reported |-> 0,
   listed |-> 0, told |-> 0, hops |-> 0, left |-> FALSE, delivered |-> 0, billed |-> 0]

Init == \E team \in Teams : run = [r \in Run |-> Idle(team[r])]

Active(f, r) == f[r].phase \notin {"idle", "ended"}
Below(f, r)  == {c \in Run : r \in f[c].linaje}
UsedBy(f, S)    == SumFunctionOnSet([c \in Run |-> f[c].used], S)

Update(r, rec) == run' = [run EXCEPT ![r] = rec]

-----------------------------------------------------------------------------
(* Cancellation and exceptions.                                            *)

\* A task that its pattern does not wait for: an item that a map left.
Loose(rec, t) == t # 0 /\ rec.task[0] # "waiting"

\* A task that waits for a sub-agent stops when the sub-agent has; what a
\* map left goes on.
Stopped(rec) ==
  [t \in Task |-> IF \/ rec.task[t] \in {"tool", "off", "done"} \/ Loose(rec, t)
                     \/ t = 0 /\ rec.task[0] = "waiting"
                  THEN rec.task[t] ELSE "failed"]

Unwinding(rec, why) ==
  [rec EXCEPT !.phase = "unwinding", !.cause = why, !.task = Stopped(rec)]

\* Fault: the sub-agents of a cancelled task are not cancelled.
InterruptedAlone(f, r, why) == [f EXCEPT ![r] = Unwinding(@, why)]

\* Run d was called by a task that its pattern waits for.
Held(f, d) == ~Loose(f[f[d].parent], f[d].at)

\* The sub-agents that are cancelled with run r: no map on the way left them.
Inside(f, r) ==
  {c \in Below(f, r) : Active(f, c) /\ \A d \in f[c].linaje \cup {c} : r \in f[d].linaje => Held(f, d)}

\* Run r unwinds, and its sub-agents are cancelled with the tasks they are in.
Interrupted(f, r, why) ==
  [c \in Run |-> IF c = r THEN Unwinding(f[c], why)
                 ELSE IF c \in Inside(f, r) THEN Unwinding(f[c], "cancelled")
                 ELSE f[c]]

\* The pattern goes on when everything it runs side by side has ended.
Joined(f, r) ==
  IF \A t \in Task \ {0} : f[r].task[t] \in {"off", "done", "failed"}
  THEN [f EXCEPT ![r].task[0] = "ready"] ELSE f

\* An exception in a task.  A TaskGroup cancels the others; a wave of glyph
\* lets them end; a map goes on at once, and leaves them running.
Raised(f, r, t, why) ==
  LET g == [f EXCEPT ![r].task[t] = "failed"] IN
  CASE t = 0 \/ f[r].pattern = "fanout" -> Interrupted(g, r, why)
    [] t # 0 /\ f[r].pattern = "wave"   -> Joined(g, r)
    [] OTHER -> IF f[r].task[0] = "waiting"
                THEN [g EXCEPT ![r].task[0] = "ready", ![r].left = TRUE] ELSE g

\* What the caller of run c gets: an observation (the answer of a handoff is
\* final), or the exception.
Returned(f, c) ==
  LET p == f[c].parent  t == f[c].at IN
  IF p = NoRun THEN f
  ELSE IF f[p].phase # "running" /\ ~Loose(f[p], t) THEN [f EXCEPT ![p].task[t] = "failed"]
  ELSE IF f[c].outcome \in {"ok", "blocked"}
  THEN [f EXCEPT ![p].task[t] = IF f[p].pattern = "swarm" THEN "done" ELSE "acting"]
  ELSE Raised(f, p, t, f[c].outcome)

-----------------------------------------------------------------------------
(* Budget and usage.                                                       *)

\* UsoSubagentes.tokens_bajo: the traces are snapshots.
Recorded(r) == SumFunctionOnSet([c \in Run |-> run[c].reported], Below(run, r))

\* Fault: the budget is spent only when it is passed.
SpentLate(r) == run[r].limit # 0 /\ run[r].used + Recorded(r) > run[r].limit

Spent(r) == run[r].limit # 0 /\ run[r].used + Recorded(r) >= run[r].limit

\* linaje and run_id.
Lineage(p) == run[p].linaje \cup {p}

\* Fault: a sub-agent that fails registers nothing.
RegisteredIfAnswered(c, how) == run[c].parent # NoRun /\ how \in {"ok", "blocked"}

\* The finally of Agent.run registers a sub-agent, whatever happened.
Registered(c, how) == run[c].parent # NoRun

\* Tasks of run r that the pattern still waits for.
Awaits(r) == {t \in Task : run[r].task[t] = "tool" /\ ~Loose(run[r], t)}

\* The pattern is over.  A map that is cancelled waits for the first of its
\* items to end, and leaves the others.
Over(r) ==
  [run[r] EXCEPT !.task[0] = IF @ = "waiting" THEN "failed" ELSE @,
                 !.left = @ \/ (run[r].pattern = "map" /\ Awaits(r) # {})]

\* The response of the run that was asked for has its list and its usage.
Response(c, how) ==
  [Over(c) EXCEPT !.phase = "ended", !.outcome = how,
     !.reported = IF Registered(c, how) THEN run[c].used ELSE 0,
     !.delivered = IF how \in {"ok", "blocked"} /\ run[c].parent = NoRun THEN @ + run[c].listed ELSE 0,
     !.billed = IF run[c].parent = NoRun THEN run[c].used + Recorded(c) ELSE 0]

Ends(c, how) == run' = Returned([run EXCEPT ![c] = Response(c, how)], c)

-----------------------------------------------------------------------------
(* Agent.run.                                                              *)

\* A request: of a person, or of a caller whose response has no proposals.
Start ==
  /\ run[1].phase = "idle" /\ run[1].pattern # "none"
  /\ \E list \in {1, NoRun} :
       Update(1, [run[1] EXCEPT !.phase = "building", !.list = list])

\* Memory, RAG and prefetch are ready; an input guardrail may block, and
\* either may fail.
Build(r) ==
  /\ run[r].phase = "building"
  /\ \/ Update(r, [run[r] EXCEPT !.phase = "running"])
     \/ Ends(r, "blocked")
     \/ Ends(r, "error")

\* What a map left goes on after its run has ended.
Working(r, t, states) ==
  /\ run[r].phase = "running" \/ Loose(run[r], t)
  /\ run[r].task[t] \in states

\* range(max_iterations), or the repairs that are left.
Iterates(r, t) == run[r].turns[t] < MaxIterations

\* model_fn: the budget is checked before the call.
CallModel(r, t) ==
  /\ Working(r, t, {"ready", "acting"}) /\ Iterates(r, t)
  /\ IF Spent(r) THEN run' = Raised([run EXCEPT ![r].cut = TRUE], r, t, "blocked")
     ELSE Update(r, [run[r] EXCEPT !.task[t] = "model", !.turns[t] = @ + 1])

\* Task 0 of a pattern that runs others: it has planned, or written a program.
Plans(r, t) == t = 0 /\ run[r].pattern \in Glyph \cup {"fanout"}

Split(rec) ==
  {[rec EXCEPT !.task = [t \in Task |-> IF t = 0 THEN "waiting" ELSE IF t <= n THEN s ELSE "off"]] :
     n \in 1 .. Width, s \in {IF rec.pattern = "fanout" THEN "ready" ELSE "acting"}}

Unsplit(r) == \A t \in Task \ {0} : run[r].task[t] = "off"

\* Bound: what a map left working keeps its place until it ends.
Vacant(r) == \A t \in Task \ {0} : run[r].task[t] \in {"off", "done", "failed"}

\* A plan comes first; a program that failed is written again.
Unplanned(r) == Unsplit(r) \/ \E t \in Task \ {0} : run[r].task[t] = "failed"

Done(r, t, rec) ==
  LET f == [run EXCEPT ![r] = [rec EXCEPT !.task[t] = "done"]] IN
  run' = IF t = 0 THEN f ELSE IF run[r].task[0] = "waiting" THEN Joined(f, r) ELSE f

\* The model answers: with the answer, with calls of tools, or with a plan.
ModelAnswers(r, t) ==
  /\ Working(r, t, {"model"})
  /\ \E cost \in Cost :
       LET rec == [run[r] EXCEPT !.used = @ + cost] IN
       \/ (Plans(r, t) => ~Unplanned(r)) /\ Done(r, t, rec)
       \/ ~Plans(r, t) /\ Update(r, [rec EXCEPT !.task[t] = "acting"])
       \/ Plans(r, t) /\ Unplanned(r) /\ Vacant(r) /\ \E next \in Split(rec) : Update(r, next)

\* A glyph agent with a program of its own asks no model for one.
RunProgram(r) ==
  /\ Working(r, 0, {"ready"}) /\ run[r].pattern \in Glyph /\ Unsplit(r) /\ run[r].turns[0] = 0
  /\ \E next \in Split(run[r]) : Update(r, next)

\* The router found no provider, or a tool or its handler raised.
Fails(r, t) ==
  /\ Working(r, t, {"model", "acting"})
  /\ run' = Raised(run, r, t, "error")

\* A loop out of iterations, the end of a program, or of one of its tasks.
Finish(r, t) ==
  /\ Working(r, t, {"ready", "acting"})
  /\ \/ t = 0 /\ run[r].pattern \in Glyph /\ ~Unsplit(r)
     \/ t # 0 /\ run[r].pattern \in Glyph
     \/ ~Plans(r, t) /\ run[r].turns[t] = MaxIterations
  /\ Done(r, t, run[r])

\* Fault: an agent that is no swarm does not hand on the count.
CountLost(r) == IF run[r].pattern = "swarm" THEN run[r].handoffs + 1 ELSE 0

\* CLAVE_HANDOFFS: one more for a handoff, the same for any other call.
Count(r) == IF run[r].pattern = "swarm" THEN run[r].handoffs + 1 ELSE run[r].handoffs

\* Fault: a sub-agent gets a list of its own.
ListOfItsOwn(r, c) == IF run[r].list = NoRun THEN NoRun ELSE c

\* propuestas_padre.
ListFor(r, c) == run[r].list

\* ToolRegistry.execute, type agent.  A swarm that has handed off
\* MaxHandoffs times does not any more.
CallAgent(r, t) ==
  /\ Working(r, t, {"acting"})
  /\ run[r].pattern = "swarm" => run[r].handoffs < MaxHandoffs
  /\ \E c \in Run \ {1} :
       /\ run[c].phase = "idle" /\ run[c].pattern # "none"
       /\ \A d \in 2 .. c - 1 : run[d].phase # "idle"
       /\ run' = [run EXCEPT
            ![r].task[t] = "tool",
            ![c] = [@ EXCEPT !.phase = "building", !.parent = r, !.at = t, !.linaje = Lineage(r),
                      !.list = ListFor(r, c), !.handoffs = Count(r),
                      !.hops = run[r].hops + (IF run[r].pattern = "swarm" THEN 1 ELSE 0)]]

\* A tool of mode propose: into the list of the run that was asked for.
Propose(r, t) ==
  /\ Working(r, t, {"acting"})
  /\ run[r].list # NoRun /\ run[run[r].list].listed < MaxProposals
  /\ run' = [run EXCEPT ![run[r].list].listed = @ + 1, ![r].told = @ + 1]

\* The pattern has answered.  After a cut, and when an output guardrail
\* blocks, the answer is the rejection.
Concludes(r) ==
  /\ Working(r, 0, {"done"})
  /\ \/ ~run[r].cut /\ Update(r, [run[r] EXCEPT !.phase = "saving"])
     \/ Update(r, [run[r] EXCEPT !.phase = "rejecting"])

\* asyncio.timeout: everything inside is cancelled.
Expire(r) ==
  /\ run[r].phase = "running"
  /\ run' = Interrupted(run, r, "timeout")

\* Fault: the exception passes before the tasks of the pattern have ended.
UnwindsAtOnce(r) ==
  /\ run[r].phase = "unwinding"
  /\ IF run[r].cause = "blocked" \/ (run[r].cause = "error" /\ run[r].cut)
     THEN Update(r, [run[r] EXCEPT !.phase = "rejecting"])
     ELSE Ends(r, run[r].cause)

\* gather without return_exceptions: one item that ends by its cancellation
\* is enough.
Drops(r) == run[r].pattern = "map" /\ \E t \in Task \ {0} : run[r].task[t] = "failed"

\* What the pattern waits for has ended: the exception reaches the handlers.
Unwinds(r) ==
  /\ run[r].phase = "unwinding"
  /\ Awaits(r) = {} \/ Drops(r)
  /\ IF run[r].cause = "blocked" \/ (run[r].cause = "error" /\ run[r].cut)
     THEN Update(r, [Over(r) EXCEPT !.phase = "rejecting"])
     ELSE Ends(r, run[r].cause)

\* _persistir_turno, which may fail.
Persist(r) ==
  /\ run[r].phase \in {"saving", "rejecting"}
  /\ \/ Ends(r, IF run[r].phase = "saving" THEN "ok" ELSE "blocked")
     \/ Ends(r, "error")

Step(r) ==
  \/ Build(r) \/ RunProgram(r) \/ Concludes(r) \/ Expire(r) \/ Unwinds(r) \/ Persist(r)
  \/ \E t \in Task : \/ CallModel(r, t) \/ ModelAnswers(r, t) \/ Fails(r, t)
                     \/ Finish(r, t) \/ CallAgent(r, t) \/ Propose(r, t)

Next == Start \/ \E r \in Run : Step(r)

\* Models and tools may never answer; a run with a deadline meets it.
Fairness ==
  /\ WF_vars(Expire(1))
  /\ \A r \in Run : WF_vars(Build(r)) /\ WF_vars(Unwinds(r)) /\ WF_vars(Persist(r))

Spec == Init /\ [][Next]_vars /\ Fairness

-----------------------------------------------------------------------------
(* What a run promises.                                                    *)

TypeOK == run \in [Run -> Runs]

(* Sub-agents are structured: when a run has ended, however it ended, no   *)
(* run below it is left working (a TaskGroup cancels and waits, a wave     *)
(* waits, a deadline reaches everything inside), unless a map at or below  *)
(* it left it.                                                             *)
NoRunOutlivesCaller ==
  \A r \in Run : run[r].phase = "ended" =>
    \A c \in Below(run, r) : Active(run, c) =>
      \E m \in run[c].linaje : run[m].left /\ m \in {r} \cup Below(run, r)

(* CHANGELOG.md:120: what every model of every sub-agent used, at any      *)
(* depth, is in the trace of the run that was asked for, once, also when   *)
(* runs failed, were blocked or were cancelled (all but those a map left). *)
UsageBilledOnce ==
  run[1].phase = "ended" /\ (\A r \in Run : ~run[r].left) => run[1].billed = UsedBy(run, Run)

(* agent-pipeline.md:464: a run exceeds its budget by up to one call per   *)
(* concurrent task.                                                        *)
OverrunBounded ==
  \A r \in Run : run[r].limit # 0 =>
    run[r].used + Cardinality({t \in Task : run[r].task[t] = "model"}) * Max(Cost)
      <= run[r].limit - 1 + Width * Max(Cost)

(* Every proposal a model was told is noted, its own or a sub-agent's, is  *)
(* in the response if there is one, and the cap is one for all.  What a    *)
(* map left working may be told later.                                     *)
ProposalsDelivered ==
  LET told == SumFunctionOnSet([c \in Run |-> run[c].told], Run) IN
  /\ told <= MaxProposals
  /\ run[1].outcome \in {"ok", "blocked"} /\ (\A r \in Run : ~run[r].left) => run[1].delivered = told

(* A conversation is handed off at most MaxHandoffs times, also through    *)
(* agents that call others without handing off.                            *)
HandoffsBounded == \A r \in Run : run[r].hops <= MaxHandoffs

(* A run with a deadline ends, though models and tools never answer and    *)
(* its sub-agents have no deadline.                                        *)
RunEnds == (run[1].phase = "building") ~> (run[1].phase = "ended")

=============================================================================
