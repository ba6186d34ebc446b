--------------------------- MODULE WorkflowEngine ---------------------------
(***************************************************************************)
(* The workflow engine of src/astromesh/workflow: callers start, resume,   *)
(* approve and reject durable runs, and every accepted call drives its     *)
(* run through the steps of one workflow, saving a checkpoint after each.  *)
(*                                                                         *)
(* Each call is an asyncio task.  A task works on its own copy of the run  *)
(* (the stores copy on the boundary) and other tasks run only where the    *)
(* task awaits: a step in progress (pc "exec" or "goto") and, when the     *)
(* store does I/O, the store call (pc "save").  InMemoryRunStore has async *)
(* methods that never suspend: with Durable = FALSE nobody runs between a  *)
(* load and the save that follows it.                                      *)
(*                                                                         *)
(* Indices count from 1, so "cur" is the code's current_index + 1: the     *)
(* next step to execute.                                                   *)
(***************************************************************************)
EXTENDS Integers, FiniteSets

CONSTANTS
  RunId,      \* the uuids that run() hands out
  Task,       \* concurrent calls of the engine
  N,          \* number of steps of the workflow
  Wf,         \* its steps, see StepSpec
  Durable,    \* TRUE: SqliteRunStore or PgRunStore; FALSE: InMemoryRunStore
  MaxRefusals \* bound on the saves the database of a durable store refuses

None     == 0      \* no goto, no on_reject, on_error "fail"
Continue == -1     \* on_error "continue"

Kinds    == {"call", "parallel", "switch", "wait", "approval"}
StepSpec == [kind     : Kinds,               \* "call" is an agent or a tool
             guarded  : BOOLEAN,             \* declares "when"
             onError  : Continue .. N,
             goto     : SUBSET (None .. N),  \* what a switch may evaluate to
             onReject : None .. N,
             timed    : BOOLEAN,             \* declares timeout_seconds
             opaque   : BOOLEAN]             \* may return what json.dumps refuses

Step == 1 .. N

ASSUME WorkflowAssumption ==
  /\ RunId # {}
  /\ N \in Nat \ {0}
  /\ Wf \in [Step -> StepSpec]
  /\ Durable \in BOOLEAN /\ MaxRefusals \in Nat

-----------------------------------------------------------------------------
(* Stored runs.                                                            *)

Terminal == {"completed", "failed", "rejected", "expired"}
Status   == {"none", "running", "suspended"} \cup Terminal

\* What context["steps"][i] holds.  "raw" is what json.dumps refuses: the
\* output of a parallel step, which carries StepResult objects, and what an
\* agent or a tool may return.
Output == {"absent", "output", "raw", "skipped", "error",
           "payload", "approved", "rejected"}

WorkflowRun == [status  : Status,
                cur     : 1 .. N + 1,
                pending : None .. N,          \* pending_approval.step_name
                expires : {"never", "armed", "due"},
                updated : {"never", "fresh", "stale"},
                ctx     : [Step -> Output]]

Absent == [status |-> "none", cur |-> 1, pending |-> None, expires |-> "never",
           updated |-> "never", ctx |-> [i \in Step |-> "absent"]]

\* What rid holds while a task works on no run.
AnyRun == CHOOSE r \in RunId : TRUE

VARIABLES
  store,   \* the run store: RunId -> WorkflowRun
  pc,      \* what each task awaits
  rid,     \* the run it works on
  copy,    \* its copy of that run
  after,   \* which save it awaits, hence what follows it
  target,  \* the step a switch jumped to
  refusals,  \* saves the database refused so far
  effects,   \* history: times each step of a run was executed, up to two
  contended, \* ... runs that two operations worked on at once
  rejected,  \* ... runs whose rejection was acknowledged as their end
  lost       \* ... runs whose last save was refused

history == <<effects, contended, rejected, lost>>
vars == <<store, pc, rid, copy, after, target, refusals, history>>

PC    == {"idle", "exec", "goto", "save"}
\* "raise": the call ends with AgentRunTimeout once its run is saved.
After == {"start", "checkpoint", "suspended", "final", "raise"}

TypeOK ==
  /\ store   \in [RunId -> WorkflowRun]
  /\ pc      \in [Task -> PC]
  /\ rid     \in [Task -> RunId]
  /\ copy    \in [Task -> WorkflowRun]
  /\ after   \in [Task -> After]
  /\ target  \in [Task -> None .. N]
  /\ refusals \in 0 .. MaxRefusals
  /\ effects \in [RunId -> [Step -> 0 .. 2]]
  /\ contended \subseteq RunId /\ rejected \subseteq RunId /\ lost \subseteq RunId

Init ==
  /\ store   = [r \in RunId |-> Absent]
  /\ pc      = [t \in Task |-> "idle"]
  /\ rid     = [t \in Task |-> AnyRun]
  /\ copy    = [t \in Task |-> Absent]
  /\ after   = [t \in Task |-> "start"]
  /\ target  = [t \in Task |-> None]
  /\ refusals = 0
  /\ effects = [r \in RunId |-> [i \in Step |-> 0]]
  /\ contended = {} /\ rejected = {} /\ lost = {}

-----------------------------------------------------------------------------
(* Edits of a task's copy.                                                 *)

Recorded(run, i, out) == [run EXCEPT !.ctx[i] = out]

Finished(run, status) == [run EXCEPT !.status = status, !.updated = "fresh"]

AdvancedTo(run, i) == [run EXCEPT !.cur = i, !.updated = "fresh"]

\* Fault: the run resumes at the step that suspended it.
SuspendedOn(run, i) ==
  [run EXCEPT !.status = "suspended", !.cur = i, !.updated = "fresh",
              !.pending = IF Wf[i].kind = "approval" THEN i ELSE None]

\* A wait or approval step i stopped the run; it resumes after i.
SuspendedAt(run, i) ==
  [run EXCEPT !.status  = "suspended",
              !.cur     = i + 1,
              !.pending = IF Wf[i].kind = "approval" THEN i ELSE None,
              !.expires = IF Wf[i].timed THEN "armed" ELSE "never",
              !.updated = "fresh"]

Outputs(i) ==
  CASE Wf[i].kind = "parallel"                -> {"raw"}
    [] Wf[i].kind = "call" /\ Wf[i].opaque    -> {"output", "raw"}
    [] OTHER                                  -> {"output"}

\* Without I/O a store call does not yield: the task that makes it goes on.
Turn(t) == Durable \/ \A u \in Task \ {t} : pc[u] # "save"

\* t awaits store.save(run), after which it does what "next" says.
Saves(t, run, next) ==
  /\ pc'    = [pc EXCEPT ![t] = "save"]
  /\ copy'  = [copy EXCEPT ![t] = run]
  /\ after' = [after EXCEPT ![t] = next]

Executes(t, i) ==
  effects' = [effects EXCEPT ![rid[t]][i] = IF @ < 2 THEN @ + 1 ELSE @]

\* Task t sets to work on r, alone or beside another.
Claims(t, r) ==
  /\ rid' = [rid EXCEPT ![t] = r]
  /\ contended' = IF \E u \in Task \ {t} : pc[u] # "idle" /\ rid[u] = r
                  THEN contended \cup {r} ELSE contended
  /\ UNCHANGED <<store, target, refusals, effects, rejected, lost>>

\* What a step of the loop leaves alone, the effects apart.
Quiet == UNCHANGED <<store, rid, target, refusals, contended, rejected, lost>>

-----------------------------------------------------------------------------
(* The public operations.  An unknown run, or one in the wrong status,     *)
(* raises ValueError (404, 409) and changes nothing.                       *)

Run(t, r) ==
  /\ pc[t] = "idle" /\ Turn(t)
  /\ store[r].status = "none"
  /\ \A u \in Task : pc[u] # "idle" => rid[u] # r      \* a fresh uuid
  /\ Claims(t, r)
  /\ Saves(t, [Absent EXCEPT !.status = "running"], "start")

\* Fault: a rejected run may be resumed.
ResumableOnceRejected(run) == run.status \in {"suspended", "rejected"}

Resumable(run) == run.status = "suspended"

Resume(t, r) ==
  LET run == store[r] IN
  /\ pc[t] = "idle" /\ Turn(t)
  /\ Resumable(run)
  /\ Claims(t, r)
  /\ Saves(t, [Recorded(run, run.cur - 1, "payload") EXCEPT !.status = "running"],
           "start")

\* The run that _decide goes on with: approved, rejected with a step to jump
\* to, or rejected for good.
Approved(run) ==
  [Recorded(run, run.cur - 1, "approved") EXCEPT !.pending = None, !.status = "running"]

Rejected(run) ==
  LET step    == Wf[run.cur - 1]
      decided == [Recorded(run, run.cur - 1, "rejected") EXCEPT !.pending = None]
  IN  IF step.kind = "approval" /\ step.onReject # None
      THEN [decided EXCEPT !.status = "running", !.cur = step.onReject]
      ELSE Finished(decided, "rejected")

AwaitsApproval(run) == run.status = "suspended" /\ run.pending # None

Approve(t, r) ==
  /\ pc[t] = "idle" /\ Turn(t)
  /\ AwaitsApproval(store[r])
  /\ Claims(t, r)
  /\ Saves(t, Approved(store[r]), "start")

Reject(t, r) ==
  LET run == Rejected(store[r]) IN
  /\ pc[t] = "idle" /\ Turn(t)
  /\ AwaitsApproval(store[r])
  /\ Claims(t, r)
  /\ Saves(t, run, IF run.status = "running" THEN "start" ELSE "final")

-----------------------------------------------------------------------------
(* _drive: the outcome of the step a task awaits, up to the next save.     *)

Current(t) == copy[t].cur
Working(kind) == kind \in {"call", "parallel"}

ExecutesIfWork(t, i) ==
  IF Working(Wf[i].kind) THEN Executes(t, i) ELSE UNCHANGED effects

\* Fault: the checkpoint keeps the index of the step that succeeded.
StepRepeats(t) ==
  LET i == Current(t) IN
  /\ pc[t] = "exec" /\ Turn(t)
  /\ Working(Wf[i].kind)
  /\ \E out \in Outputs(i) : Saves(t, Recorded(copy[t], i, out), "checkpoint")
  /\ Executes(t, i) /\ Quiet

StepSucceeds(t) ==
  LET i == Current(t) IN
  /\ pc[t] = "exec" /\ Turn(t)
  /\ Working(Wf[i].kind)
  /\ \E out \in Outputs(i) :
       Saves(t, AdvancedTo(Recorded(copy[t], i, out), i + 1), "checkpoint")
  /\ Executes(t, i) /\ Quiet

\* Fault: no checkpoint after a skipped step.
StepSkippedUnsaved(t) ==
  LET i == Current(t) IN
  /\ pc[t] = "exec" /\ Turn(t)
  /\ Wf[i].guarded /\ i < N
  /\ copy' = [copy EXCEPT ![t] = AdvancedTo(Recorded(@, i, "skipped"), i + 1)]
  /\ UNCHANGED <<pc, after, effects>> /\ Quiet

StepSkipped(t) ==
  LET i == Current(t) IN
  /\ pc[t] = "exec" /\ Turn(t)
  /\ Wf[i].guarded
  /\ Saves(t, AdvancedTo(Recorded(copy[t], i, "skipped"), i + 1), "checkpoint")
  /\ UNCHANGED effects /\ Quiet

StepSuspends(t) ==
  LET i == Current(t) IN
  /\ pc[t] = "exec" /\ Turn(t)
  /\ Wf[i].kind \in {"wait", "approval"}
  /\ Saves(t, SuspendedAt(copy[t], i), "suspended")
  /\ UNCHANGED effects /\ Quiet

\* An ERROR result: a guard or a switch condition that does not evaluate, or
\* the attempts of a call used up.
MayFail(i) == Wf[i].guarded \/ Wf[i].kind \notin {"wait", "approval"}

\* What a step that failed leaves when on_error names a step: a parallel step
\* its output if its branches were run to an end, nothing if it timed out or
\* its guard raised.
Remains(i) ==
  IF Wf[i].kind = "parallel" /\ Wf[i].onError # Continue THEN {"raw", "error"} ELSE {"error"}

StepFails(t) ==
  LET i   == Current(t)
      on  == Wf[i].onError
  IN
  /\ pc[t] = "exec" /\ Turn(t)
  /\ MayFail(i)
  /\ \E left \in Remains(i) :
       LET run == Recorded(copy[t], i, left) IN
       CASE on = Continue -> Saves(t, AdvancedTo(run, i + 1), "checkpoint")
         [] on \in Step   -> Saves(t, AdvancedTo(run, on), "checkpoint")
         [] OTHER         -> Saves(t, Finished(copy[t], "failed"), "final")
  /\ ExecutesIfWork(t, i) /\ Quiet

\* Fault: the deadline of an agent ends the call and leaves the row alone.
RunTimesOutUnsaved(t) ==
  LET i == IF pc[t] = "exec" THEN Current(t) ELSE target[t] IN
  /\ pc[t] \in {"exec", "goto"} /\ Turn(t)
  /\ Working(Wf[i].kind)
  /\ pc'  = [pc EXCEPT ![t] = "idle"]
  /\ rid' = [rid EXCEPT ![t] = AnyRun]
  /\ copy' = [copy EXCEPT ![t] = Absent]
  /\ UNCHANGED <<store, after, target, refusals, history>>

\* AgentRunTimeout, which no retry and no on_error absorbs.
RunTimesOut(t) ==
  LET i == IF pc[t] = "exec" THEN Current(t) ELSE target[t] IN
  /\ pc[t] \in {"exec", "goto"} /\ Turn(t)
  /\ Working(Wf[i].kind)
  /\ Saves(t, Finished(copy[t], "failed"), "raise")
  /\ Executes(t, i) /\ Quiet

SwitchFallsThrough(t) ==
  LET i == Current(t) IN
  /\ pc[t] = "exec" /\ Turn(t)
  /\ Wf[i].kind = "switch" /\ None \in Wf[i].goto
  /\ Saves(t, AdvancedTo(Recorded(copy[t], i, "output"), i + 1), "checkpoint")
  /\ UNCHANGED effects /\ Quiet

SwitchJumps(t, g) ==
  LET i == Current(t) IN
  /\ pc[t] = "exec" /\ Turn(t)
  /\ Wf[i].kind = "switch" /\ g \in Wf[i].goto \ {None}
  /\ pc'     = [pc EXCEPT ![t] = "goto"]
  /\ copy'   = [copy EXCEPT ![t] = Recorded(@, i, "output")]
  /\ target' = [target EXCEPT ![t] = g]
  /\ UNCHANGED <<store, rid, after, refusals, history>>

\* The step a switch jumped to ends the run, unless it suspends it.  A skip
\* counts as success there, and on_error is not looked at.
GotoSucceeds(t) ==
  LET g == target[t] IN
  /\ pc[t] = "goto" /\ Turn(t)
  /\ Wf[g].kind \in {"call", "parallel", "switch"}
  /\ \E out \in Outputs(g) :
       Saves(t, Finished([Recorded(copy[t], g, out) EXCEPT !.cur = g + 1], "completed"),
             "final")
  /\ ExecutesIfWork(t, g) /\ Quiet

GotoSkipped(t) ==
  LET g == target[t] IN
  /\ pc[t] = "goto" /\ Turn(t)
  /\ Wf[g].guarded
  /\ Saves(t, Finished([Recorded(copy[t], g, "output") EXCEPT !.cur = g + 1],
                       "completed"), "final")
  /\ UNCHANGED effects /\ Quiet

GotoSuspends(t) ==
  LET g == target[t] IN
  /\ pc[t] = "goto" /\ Turn(t)
  /\ Wf[g].kind \in {"wait", "approval"}
  /\ Saves(t, SuspendedAt(copy[t], g), "suspended")
  /\ UNCHANGED effects /\ Quiet

GotoFails(t) ==
  LET g == target[t] IN
  /\ pc[t] = "goto" /\ Turn(t)
  /\ MayFail(g)
  /\ Saves(t, Finished([copy[t] EXCEPT !.cur = g + 1], "failed"), "final")
  /\ ExecutesIfWork(t, g) /\ Quiet

-----------------------------------------------------------------------------
(* store.save: the row is written, or the store raises; then the task goes *)
(* on, and ends its call with a result or with an exception.               *)

Savable(run) == ~Durable \/ \A i \in Step : run.ctx[i] # "raw"

\* The row is written.
Writes(t) ==
  /\ pc[t] = "save" /\ Turn(t) /\ Savable(copy[t])
  /\ store'    = [store EXCEPT ![rid[t]] = copy[t]]
  /\ lost'     = lost \ {rid[t]}
  /\ rejected' = IF after[t] = "final" /\ copy[t].status = "rejected"
                 THEN rejected \cup {rid[t]} ELSE rejected
  /\ UNCHANGED <<refusals, contended, effects>>

\* json.dumps raises, or the database does.
Refuses(t) ==
  /\ pc[t] = "save" /\ Turn(t)
  /\ \/ ~Savable(copy[t]) /\ UNCHANGED refusals
     \/ Durable /\ refusals < MaxRefusals /\ refusals' = refusals + 1
  /\ UNCHANGED <<store, contended, effects, rejected>>

GoesIdle(t) ==
  /\ pc'     = [pc EXCEPT ![t] = "idle"]
  /\ rid'    = [rid EXCEPT ![t] = AnyRun]
  /\ copy'   = [copy EXCEPT ![t] = Absent]
  /\ after'  = [after EXCEPT ![t] = "start"]
  /\ target' = [target EXCEPT ![t] = None]

\* The loop goes on, or ends behind the last step.
GoesOn(t) ==
  /\ Writes(t)
  /\ after[t] \in {"start", "checkpoint"}
  /\ IF copy[t].cur \in Step
     THEN pc' = [pc EXCEPT ![t] = "exec"] /\ UNCHANGED <<copy, after>>
     ELSE Saves(t, Finished(copy[t], "completed"), "final")
  /\ UNCHANGED <<rid, target>>

Returns(t) ==
  /\ Writes(t)
  /\ after[t] \in {"suspended", "final"}
  /\ GoesIdle(t)

\* A guard raises anything but UndefinedError, whatever on_error says.
GuardRaises(t) ==
  LET i == IF pc[t] = "exec" THEN Current(t) ELSE target[t] IN
  /\ pc[t] \in {"exec", "goto"} /\ Turn(t)
  /\ Wf[i].guarded
  /\ UNCHANGED <<store, refusals, contended, effects, rejected>>

CheckpointRefused(t) == Refuses(t) /\ after[t] \in {"checkpoint", "suspended"}

FailsRun(t) ==
  /\ Saves(t, Finished(copy[t], "failed"), "final")
  /\ UNCHANGED <<rid, target, lost>>

\* Fault: the handler covers the steps and not their checkpoints.
HandlesSteps(t) ==
  \/ GuardRaises(t) /\ FailsRun(t)
  \/ CheckpointRefused(t) /\ GoesIdle(t) /\ UNCHANGED lost

\* Whatever the loop raises, the handler in _drive saves the run as failed.
Handles(t) == (GuardRaises(t) \/ CheckpointRefused(t)) /\ FailsRun(t)

\* The call ends with an exception.
Raises(t) ==
  /\ \/ Writes(t) /\ after[t] = "raise"
     \/ /\ Refuses(t) /\ after[t] \in {"start", "final", "raise"}
        /\ lost' = IF after[t] = "start" THEN lost ELSE lost \cup {rid[t]}
  /\ GoesIdle(t)

Save(t) == GoesOn(t) \/ Returns(t) \/ Raises(t)

-----------------------------------------------------------------------------

Drive(t) ==
  \/ StepSucceeds(t) \/ StepSkipped(t) \/ StepSuspends(t) \/ StepFails(t)
  \/ RunTimesOut(t)
  \/ SwitchFallsThrough(t) \/ \E g \in Step : SwitchJumps(t, g)
  \/ GotoSucceeds(t) \/ GotoSkipped(t) \/ GotoSuspends(t) \/ GotoFails(t)
  \/ Save(t) \/ Handles(t)

Call(t) ==
  \E r \in RunId : Run(t, r) \/ Resume(t, r) \/ Approve(t, r) \/ Reject(t, r)

Next == \E t \in Task : Drive(t) \/ Call(t)

\* The event loop runs every ready task, and steps end: they have a timeout
\* or fail.  Nobody is obliged to resume or to decide.
Fairness == \A t \in Task : WF_vars(Drive(t))

Spec == Init /\ [][Next]_vars /\ Fairness

-----------------------------------------------------------------------------
(* What the engine promises.                                               *)

Drives(t, r) == pc[t] # "idle" /\ rid[t] = r

(* The engine implements the life cycle of RunLifecycle.                   *)
Lifecycle == INSTANCE RunLifecycle
               WITH status <- [r \in RunId |-> store[r].status],
                    driven <- {r \in RunId : \E t \in Task : Drives(t, r)}

(* Claim, advance, release: the stored statuses and the calls at work, put *)
(* side by side, never leave the life cycle a caller relies on.            *)
ImplementsLifecycle == Lifecycle!Spec

(* At most one call drives a run at any time: a second resume, approve or  *)
(* reject that comes while the first one works is refused with 409.        *)
SingleDriver ==
  \A t, u \in Task : pc[t] # "idle" /\ pc[u] # "idle" /\ rid[t] = rid[u] => t = u

(* While a step of a run is in progress the store holds the checkpoint of  *)
(* everything before it: no other call wrote in between and no progress is *)
(* missing.  A switch that jumps is checkpointed only with its target.     *)
CheckpointExact ==
  \A t \in Task :
    /\ pc[t] = "exec" => store[rid[t]] = copy[t]
    /\ pc[t] = "goto" =>
         \E out \in Output : store[rid[t]] = Recorded(copy[t], Current(t), out)

(* GET /approvals lists a suspended run exactly when the step it is        *)
(* suspended at is an approval: pending_approval does not survive into a   *)
(* later wait, and no approval is missing from the queue.                  *)
ApprovalQueueExact ==
  \A r \in RunId : store[r].status = "suspended" =>
    LET stopped == store[r].cur - 1 IN
    /\ stopped \in Step /\ Wf[stopped].kind \in {"wait", "approval"}
    /\ store[r].pending = IF Wf[stopped].kind = "approval" THEN stopped ELSE None

(* A run the store shows as running has a live call that drives it, unless *)
(* the store refused the last save of that call: no path of _drive ends    *)
(* without a suspended or a terminal status saved, and one refused save    *)
(* strands nothing, since the handler saves again.                         *)
NoStrandedRun ==
  \A r \in RunId \ lost : store[r].status = "running" => \E t \in Task : Drives(t, r)

(* No step is executed twice in a workflow whose jumps only go forward,    *)
(* unless two operations worked on the run at once.                        *)
StepAtMostOnce == \A r \in RunId \ contended, i \in Step : effects[r][i] <= 1

(* Nothing follows a rejection without on_reject that was acknowledged:    *)
(* the run stays rejected and no call works on it, unless another operation *)
(* was at work on the run beside one that decided it.                      *)
Stopped(r) == store[r].status = "rejected" /\ \A t \in Task : ~Drives(t, r)

RejectionStops == \A r \in rejected \ contended : Stopped(r)

(* resume "no revive completadas/fallidas": a terminal run stays as it is. *)
TerminalIsFinal ==
  [][\A r \in RunId : store[r].status \in Terminal => store'[r] = store[r]]_vars

(* A driven run ends, or waits for somebody outside.                       *)
Settles ==
  \A r \in RunId : store[r].status = "running" ~> store[r].status # "running"

=============================================================================
