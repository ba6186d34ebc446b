------------------------ MODULE WorkflowEngineProofs ------------------------
(***************************************************************************)
(* Proofs about WorkflowEngine and WorkflowRecovery, for every workflow    *)
(* and any number of runs, calls and processes.                            *)
(*                                                                         *)
(* A run is written row by row, so what matters of one row (RowOK) holds   *)
(* whatever the store, the interleaving and the crashes.  What needs one   *)
(* driver per run (Sole) holds, with every store, of the runs that no two  *)
(* operations ever worked on at once; with the in-memory store these are   *)
(* all the runs.                                                           *)
(***************************************************************************)
EXTENDS WorkflowRecovery, TLAPS

\* Jumps go forward: goto, on_error and on_reject name later steps.
Forward ==
  \A i, j \in Step : j \in {Wf[i].onError, Wf[i].onReject} \cup Wf[i].goto => j > i

\* A suspended run sits right after the step that suspended it.
RowOK(run) ==
  run.status = "suspended" =>
    /\ run.cur - 1 \in Step
    /\ Wf[run.cur - 1].kind \in {"wait", "approval"}
    /\ run.pending = IF Wf[run.cur - 1].kind = "approval" THEN run.cur - 1 ELSE None

\* The step a task is at.
Where(t) == IF pc[t] = "goto" THEN target[t] ELSE copy[t].cur

\* The status a run is saved with fits what its task does after the save.
Fits(run, next) ==
  /\ next \in {"start", "checkpoint"} => run.status = "running"
  /\ next = "suspended" => run.status = "suspended"
  /\ next = "final" => run.status \in Terminal
  /\ next = "raise" => run.status = "failed"

TaskOK(t) ==
  /\ RowOK(copy[t])
  /\ pc[t] = "save" => Fits(copy[t], after[t])
  /\ pc[t] \in {"exec", "goto"} => copy[t].status = "running" /\ copy[t].cur \in Step
  /\ pc[t] = "goto" => target[t] \in Step

IInv ==
  /\ TypeOK
  /\ \A r \in RunId : RowOK(store[r])
  /\ \A t \in Task : TaskOK(t)

\* The types of what a task does not hold.
Books ==
  /\ refusals \in 0 .. MaxRefusals
  /\ effects \in [RunId -> [Step -> 0 .. 2]]
  /\ contended \subseteq RunId /\ rejected \subseteq RunId /\ lost \subseteq RunId

-----------------------------------------------------------------------------
(* The edits of a run.                                                     *)

LEMMA StepTypes ==
  ASSUME NEW i \in Step
  PROVE  /\ i \in 1 .. N + 1 /\ i + 1 \in 1 .. N + 1 /\ i \in Int /\ i \in None .. N
         /\ i + 1 > i /\ i + 1 - 1 = i
         /\ Wf[i] \in StepSpec
         /\ Wf[i].onError \in Continue .. N /\ Wf[i].onReject \in None .. N
BY WorkflowAssumption DEF Step, StepSpec, None

LEMMA OutputTypes ==
  ASSUME NEW i \in Step
  PROVE  Outputs(i) \subseteq Output /\ Remains(i) \subseteq Output
BY DEF Outputs, Remains, Output

LEMMA AbsentType == Absent \in WorkflowRun /\ Absent.status = "none" /\ RowOK(Absent)
<1>1. Absent \in WorkflowRun
  BY WorkflowAssumption DEF Absent, WorkflowRun, Status, Output, Step, None
<1> QED BY <1>1 DEF RowOK, Absent

LEMMA RecordedType ==
  ASSUME NEW run \in WorkflowRun, NEW i \in Step, NEW out \in Output
  PROVE  /\ Recorded(run, i, out) \in WorkflowRun
         /\ Recorded(run, i, out).status = run.status
         /\ Recorded(run, i, out).cur = run.cur
         /\ Recorded(run, i, out).pending = run.pending
BY DEF Recorded, WorkflowRun

LEMMA FinishedType ==
  ASSUME NEW run \in WorkflowRun, NEW s \in Terminal
  PROVE  Finished(run, s) \in WorkflowRun /\ Finished(run, s).status = s
BY DEF Finished, WorkflowRun, Status, Terminal

LEMMA AdvancedType ==
  ASSUME NEW run \in WorkflowRun, NEW i \in 1 .. N + 1
  PROVE  /\ AdvancedTo(run, i) \in WorkflowRun
         /\ AdvancedTo(run, i).status = run.status /\ AdvancedTo(run, i).cur = i
BY DEF AdvancedTo, WorkflowRun

LEMMA SuspendedRow ==
  ASSUME NEW run \in WorkflowRun, NEW i \in Step, Wf[i].kind \in {"wait", "approval"}
  PROVE  /\ SuspendedAt(run, i) \in WorkflowRun
         /\ SuspendedAt(run, i).status = "suspended"
         /\ SuspendedAt(run, i).cur = i + 1
         /\ RowOK(SuspendedAt(run, i))
<1> DEFINE s == SuspendedAt(run, i)
           p == IF Wf[i].kind = "approval" THEN i ELSE None
           e == IF Wf[i].timed THEN "armed" ELSE "never"
<1>2. p \in None .. N /\ e \in {"never", "armed", "due"} /\ "suspended" \in Status
  BY StepTypes, WorkflowAssumption DEF None, Status
<1>3. s = [run EXCEPT !.status = "suspended", !.cur = i + 1, !.pending = p,
                      !.expires = e, !.updated = "fresh"]
  BY DEF SuspendedAt
<1> HIDE DEF s, p, e
<1>4. s \in WorkflowRun /\ s.status = "suspended" /\ s.cur = i + 1 /\ s.pending = p
  BY StepTypes, <1>2, <1>3 DEF WorkflowRun
<1>5. s.cur - 1 = i
  BY StepTypes, <1>4
<1> QED BY <1>4, <1>5 DEF s, p, RowOK

-----------------------------------------------------------------------------
(* What the actions have in common.                                        *)

\* The outcome of a step: a legal run is on its way to the store.
Proposes(t) ==
  /\ pc[t] \in {"exec", "goto"} /\ Turn(t)
  /\ \E run \in WorkflowRun, next \in {"checkpoint", "suspended", "final", "raise"} :
       /\ RowOK(run) /\ Fits(run, next) /\ run.status # "expired" /\ Saves(t, run, next)
       /\ Forward /\ next \in {"checkpoint", "suspended"} => run.cur > Where(t)
  /\ effects' = effects \/ Executes(t, Where(t))
  /\ Quiet

\* A call takes on a run that is new or suspended.
Takes(t, r) ==
  /\ pc[t] = "idle" /\ Turn(t)
  /\ store[r].status \in {"none", "suspended"}
  /\ store[r].status = "none" => \A u \in Task : pc[u] # "idle" => rid[u] # r
  /\ Claims(t, r)
  /\ \E run \in WorkflowRun, next \in {"start", "final"} :
       /\ RowOK(run) /\ Fits(run, next) /\ run.status # "expired" /\ Saves(t, run, next)
       /\ Forward /\ next = "start" /\ store[r].status = "suspended" => run.cur >= store[r].cur

Jumps(t) == \E g \in Step : SwitchJumps(t, g)

LEMMA AtStep ==
  ASSUME IInv, NEW t \in Task, pc[t] \in {"exec", "goto"}
  PROVE  /\ copy[t] \in WorkflowRun /\ copy[t].status = "running"
         /\ Current(t) \in Step /\ Where(t) \in Step
         /\ Where(t) = IF pc[t] = "exec" THEN Current(t) ELSE target[t]
BY DEF IInv, TypeOK, TaskOK, Current, Where

\* The three ways a step may end.
LEMMA ProposeNext ==
  ASSUME IInv, NEW t \in Task, pc[t] \in {"exec", "goto"}, Turn(t),
         NEW run \in WorkflowRun, run.status = "running",
         NEW i \in 1 .. N + 1, Forward => i > Where(t),
         Saves(t, AdvancedTo(run, i), "checkpoint"),
         effects' = effects \/ Executes(t, Where(t)), Quiet
  PROVE  Proposes(t)
<1> DEFINE new == AdvancedTo(run, i)
<1>1. new \in WorkflowRun /\ new.status = "running" /\ new.cur = i
  BY AdvancedType
<1>2. Saves(t, new, "checkpoint")
  OBVIOUS
<1> HIDE DEF new
<1>3. Fits(new, "checkpoint") /\ RowOK(new)
  BY <1>1 DEF Fits, RowOK
<1> QED BY <1>1, <1>2, <1>3 DEF Proposes

LEMMA ProposeWait ==
  ASSUME IInv, NEW t \in Task, pc[t] \in {"exec", "goto"}, Turn(t),
         NEW i \in Step, i = Where(t), Wf[i].kind \in {"wait", "approval"},
         Saves(t, SuspendedAt(copy[t], i), "suspended"), UNCHANGED effects, Quiet
  PROVE  Proposes(t)
<1> DEFINE new == SuspendedAt(copy[t], i)
<1>2. new \in WorkflowRun /\ new.status = "suspended" /\ new.cur = i + 1 /\ RowOK(new)
  BY AtStep, SuspendedRow
<1>3. Saves(t, new, "suspended") /\ i + 1 > i
  BY StepTypes
<1> HIDE DEF new
<1>4. Fits(new, "suspended")
  BY <1>2 DEF Fits
<1> QED BY <1>2, <1>3, <1>4 DEF Proposes

LEMMA ProposeEnd ==
  ASSUME IInv, NEW t \in Task, pc[t] \in {"exec", "goto"}, Turn(t),
         NEW run \in WorkflowRun, NEW s \in {"completed", "failed"}, NEW next \in {"final", "raise"},
         next = "raise" => s = "failed", Saves(t, Finished(run, s), next),
         effects' = effects \/ Executes(t, Where(t)), Quiet
  PROVE  Proposes(t)
<1> DEFINE new == Finished(run, s)
<1>1. new \in WorkflowRun /\ new.status = s
  BY FinishedType DEF Terminal
<1>2. Saves(t, new, next)
  OBVIOUS
<1> HIDE DEF new
<1>3. Fits(new, next) /\ RowOK(new)
  BY <1>1 DEF Fits, Terminal, RowOK
<1> QED BY <1>1, <1>2, <1>3 DEF Proposes

LEMMA OutcomeProposes ==
  ASSUME IInv, NEW t \in Task,
         \/ StepSucceeds(t) \/ StepSkipped(t) \/ StepSuspends(t) \/ StepFails(t)
         \/ GuardRaises(t) /\ FailsRun(t)
         \/ RunTimesOut(t) \/ SwitchFallsThrough(t)
         \/ GotoSucceeds(t) \/ GotoSkipped(t) \/ GotoSuspends(t) \/ GotoFails(t)
  PROVE  Proposes(t)
<1>0. pc[t] \in {"exec", "goto"} /\ Turn(t) /\ Quiet
  BY DEF StepSucceeds, StepSkipped, StepSuspends, StepFails, GuardRaises, FailsRun, Quiet, RunTimesOut,
         SwitchFallsThrough, GotoSucceeds, GotoSkipped, GotoSuspends, GotoFails
<1>1. /\ copy[t] \in WorkflowRun /\ copy[t].status = "running"
      /\ Where(t) \in Step
      /\ Where(t) = IF pc[t] = "exec" THEN Current(t) ELSE target[t]
  BY <1>0, AtStep
<1>a. PICK i \in Step : i = Where(t)
  BY <1>1
<1>e. ExecutesIfWork(t, i) => effects' = effects \/ Executes(t, Where(t))
  BY <1>a DEF ExecutesIfWork
\* A step that leaves an output, and the one to go on with.
<1>2. ASSUME NEW out \in Output, NEW k \in 1 .. N + 1, Forward => k > i,
             Saves(t, AdvancedTo(Recorded(copy[t], i, out), k), "checkpoint"),
             effects' = effects \/ Executes(t, Where(t))
      PROVE  Proposes(t)
  <2> DEFINE rec == Recorded(copy[t], i, out)
  <2>1. rec \in WorkflowRun /\ rec.status = "running"
    BY <1>1, <1>2, RecordedType
  <2>2. Saves(t, AdvancedTo(rec, k), "checkpoint")
    BY <1>2
  <2> HIDE DEF rec
  <2> QED BY <1>0, <1>2, <1>a, <2>1, <2>2, ProposeNext
<1>3. ASSUME StepSucceeds(t) PROVE Proposes(t)
  <2>1. i = Current(t)
    BY <1>1, <1>3, <1>a DEF StepSucceeds
  <2>2. PICK out \in Outputs(i) : Saves(t, AdvancedTo(Recorded(copy[t], i, out), i + 1), "checkpoint")
    BY <1>3, <2>1 DEF StepSucceeds
  <2>3. Executes(t, Where(t))
    BY <1>3, <1>a, <2>1 DEF StepSucceeds
  <2> QED BY <1>2, <2>2, <2>3, OutputTypes, StepTypes
<1>4. ASSUME StepSkipped(t) PROVE Proposes(t)
  <2>1. i = Current(t)
    BY <1>1, <1>4, <1>a DEF StepSkipped
  <2>2. Saves(t, AdvancedTo(Recorded(copy[t], i, "skipped"), i + 1), "checkpoint") /\ effects' = effects
    BY <1>4, <2>1 DEF StepSkipped
  <2> QED BY <1>2, <2>2, StepTypes DEF Output
<1>5. ASSUME SwitchFallsThrough(t) PROVE Proposes(t)
  <2>1. i = Current(t)
    BY <1>1, <1>5, <1>a DEF SwitchFallsThrough
  <2>2. Saves(t, AdvancedTo(Recorded(copy[t], i, "output"), i + 1), "checkpoint") /\ effects' = effects
    BY <1>5, <2>1 DEF SwitchFallsThrough
  <2> QED BY <1>2, <2>2, StepTypes DEF Output
<1>6. ASSUME StepSuspends(t) PROVE Proposes(t)
  <2>1. i = Current(t)
    BY <1>1, <1>6, <1>a DEF StepSuspends
  <2> QED BY <1>0, <1>6, <1>a, <2>1, ProposeWait DEF StepSuspends
<1>7. ASSUME GotoSuspends(t) PROVE Proposes(t)
  <2>1. i = target[t]
    BY <1>1, <1>7, <1>a DEF GotoSuspends
  <2> QED BY <1>0, <1>7, <1>a, <2>1, ProposeWait DEF GotoSuspends
<1>8. ASSUME StepFails(t) PROVE Proposes(t)
  <2> DEFINE on == Wf[i].onError
  <2>1. i = Current(t)
    BY <1>1, <1>8, <1>a DEF StepFails
  <2>2. effects' = effects \/ Executes(t, Where(t))
    BY <1>8, <1>e, <2>1 DEF StepFails
  <2>3. Continue \notin Step
    BY WorkflowAssumption DEF Continue, Step
  <2>4. \/ \E left \in Remains(i) : Saves(t, AdvancedTo(Recorded(copy[t], i, left), i + 1), "checkpoint")
        \/ /\ on \in Step
           /\ \E left \in Remains(i) : Saves(t, AdvancedTo(Recorded(copy[t], i, left), on), "checkpoint")
        \/ Saves(t, Finished(copy[t], "failed"), "final")
    <3>1. PICK left \in Remains(i) :
            /\ on = Continue => Saves(t, AdvancedTo(Recorded(copy[t], i, left), i + 1), "checkpoint")
            /\ on # Continue /\ on \in Step =>
                 Saves(t, AdvancedTo(Recorded(copy[t], i, left), on), "checkpoint")
            /\ on # Continue /\ on \notin Step => Saves(t, Finished(copy[t], "failed"), "final")
      BY <1>8, <2>1, <2>3, Zenon DEF StepFails
    <3> HIDE DEF on
    <3> QED BY <3>1
  <2>5. on \in Step => on \in 1 .. N + 1 /\ (Forward => on > i)
    BY StepTypes DEF Forward
  <2>6. ASSUME Saves(t, Finished(copy[t], "failed"), "final") PROVE Proposes(t)
    BY <1>0, <1>1, <2>2, <2>6, ProposeEnd
  <2> HIDE DEF on
  <2> QED BY <1>2, <2>2, <2>4, <2>5, <2>6, OutputTypes, StepTypes
<1>9. ASSUME RunTimesOut(t) PROVE Proposes(t)
  <2>1. Executes(t, Where(t)) /\ Saves(t, Finished(copy[t], "failed"), "raise")
    BY <1>1, <1>9 DEF RunTimesOut
  <2> QED BY <1>0, <1>1, <2>1, ProposeEnd
<1>10. ASSUME GuardRaises(t) /\ FailsRun(t) PROVE Proposes(t)
  <2>1. effects' = effects /\ Saves(t, Finished(copy[t], "failed"), "final")
    BY <1>10 DEF GuardRaises, FailsRun
  <2> QED BY <1>0, <1>1, <2>1, ProposeEnd
\* The step a switch jumped to ends the run.
<1>11. ASSUME NEW run \in WorkflowRun, NEW s \in {"completed", "failed"},
              Saves(t, Finished([run EXCEPT !.cur = i + 1], s), "final"),
              effects' = effects \/ Executes(t, Where(t))
       PROVE  Proposes(t)
  <2>1. [run EXCEPT !.cur = i + 1] \in WorkflowRun
    BY StepTypes DEF WorkflowRun
  <2> QED BY <1>0, <1>11, <2>1, ProposeEnd
<1>12. ASSUME GotoSucceeds(t) PROVE Proposes(t)
  <2>1. i = target[t]
    BY <1>1, <1>12, <1>a DEF GotoSucceeds
  <2>2. PICK out \in Outputs(i) :
          Saves(t, Finished([Recorded(copy[t], i, out) EXCEPT !.cur = i + 1], "completed"), "final")
    BY <1>12, <2>1 DEF GotoSucceeds
  <2>3. Recorded(copy[t], i, out) \in WorkflowRun
    BY <1>1, OutputTypes, RecordedType
  <2> QED BY <1>11, <1>12, <1>e, <2>1, <2>2, <2>3 DEF GotoSucceeds
<1>13. ASSUME GotoSkipped(t) PROVE Proposes(t)
  <2>1. i = target[t]
    BY <1>1, <1>13, <1>a DEF GotoSkipped
  <2>2. Recorded(copy[t], i, "output") \in WorkflowRun
    BY <1>1, RecordedType DEF Output
  <2> QED BY <1>11, <1>13, <2>1, <2>2 DEF GotoSkipped
<1>14. ASSUME GotoFails(t) PROVE Proposes(t)
  <2>1. i = target[t]
    BY <1>1, <1>14, <1>a DEF GotoFails
  <2> QED BY <1>1, <1>11, <1>14, <1>e, <2>1 DEF GotoFails
<1> QED BY <1>3, <1>4, <1>5, <1>6, <1>7, <1>8, <1>9, <1>10, <1>12, <1>13, <1>14

\* A call that goes on from where the run stands, or from a later step.
LEMMA TakeNext ==
  ASSUME NEW t \in Task, NEW r \in RunId, NEW run \in WorkflowRun, run.status = "running",
         pc[t] = "idle", Turn(t), store[r].status \in {"none", "suspended"},
         store[r].status = "none" => \A u \in Task : pc[u] # "idle" => rid[u] # r,
         Forward /\ store[r].status = "suspended" => run.cur >= store[r].cur,
         Claims(t, r), Saves(t, run, "start")
  PROVE  Takes(t, r)
<1>1. RowOK(run) /\ Fits(run, "start")
  BY DEF Fits, RowOK
<1> QED BY <1>1 DEF Takes

LEMMA CallTakes ==
  ASSUME IInv, NEW t \in Task, NEW r \in RunId,
         Run(t, r) \/ Resume(t, r) \/ Approve(t, r) \/ Reject(t, r)
  PROVE  Takes(t, r)
<1>1. store[r] \in WorkflowRun /\ RowOK(store[r])
  BY DEF IInv, TypeOK
<1>2. CASE Run(t, r)
  <2> DEFINE run == [Absent EXCEPT !.status = "running"]
  <2>1. run \in WorkflowRun /\ run.status = "running"
    BY AbsentType DEF WorkflowRun, Status
  <2>2. Saves(t, run, "start")
    BY <1>2 DEF Run
  <2> HIDE DEF run
  <2> QED BY <1>2, <2>1, <2>2, TakeNext DEF Run
\* The others go on from a suspended run.
<1>3. ASSUME store[r].status = "suspended"
      PROVE  \E i \in Step : i = store[r].cur - 1 /\ store[r].cur = i + 1
  BY <1>1, <1>3 DEF RowOK, WorkflowRun
<1>4. CASE Resume(t, r)
  <2>1. store[r].status = "suspended"
    BY <1>4 DEF Resume, Resumable
  <2>2. PICK i \in Step : i = store[r].cur - 1 /\ store[r].cur = i + 1
    BY <1>3, <2>1
  <2> DEFINE rec == Recorded(store[r], i, "payload")
             run == [rec EXCEPT !.status = "running"]
  <2>3. rec \in WorkflowRun /\ rec.cur = store[r].cur
    BY <1>1, RecordedType DEF Output
  <2>4. Saves(t, run, "start")
    BY <1>4, <2>2 DEF Resume
  <2> HIDE DEF rec
  <2>5. run \in WorkflowRun /\ run.status = "running" /\ run.cur = store[r].cur
    BY <2>3 DEF WorkflowRun, Status
  <2> HIDE DEF run
  <2>6. run.cur >= store[r].cur
    BY <1>1, <2>5 DEF WorkflowRun
  <2> QED BY <1>4, <2>1, <2>4, <2>5, <2>6, TakeNext DEF Resume
<1>5. CASE Approve(t, r)
  <2>1. store[r].status = "suspended"
    BY <1>5 DEF Approve, AwaitsApproval
  <2>2. PICK i \in Step : i = store[r].cur - 1 /\ store[r].cur = i + 1
    BY <1>3, <2>1
  <2> DEFINE rec == Recorded(store[r], i, "approved")
             run == [rec EXCEPT !.pending = None, !.status = "running"]
  <2>3. rec \in WorkflowRun /\ rec.cur = store[r].cur
    BY <1>1, RecordedType DEF Output
  <2>4. Saves(t, run, "start")
    BY <1>5, <2>2 DEF Approve, Approved
  <2> HIDE DEF rec
  <2>5. run \in WorkflowRun /\ run.status = "running" /\ run.cur = store[r].cur
    <3>1. None \in None .. N
      BY WorkflowAssumption DEF None
    <3> QED BY <2>3, <3>1 DEF WorkflowRun, Status
  <2> HIDE DEF run
  <2>6. run.cur >= store[r].cur
    BY <1>1, <2>5 DEF WorkflowRun
  <2> QED BY <1>5, <2>1, <2>4, <2>5, <2>6, TakeNext DEF Approve
<1>6. CASE Reject(t, r)
  <2>1. store[r].status = "suspended"
    BY <1>6 DEF Reject, AwaitsApproval
  <2>2. PICK i \in Step : i = store[r].cur - 1 /\ store[r].cur = i + 1
    BY <1>3, <2>1
  <2> DEFINE rec  == Recorded(store[r], i, "rejected")
             dec  == [rec EXCEPT !.pending = None]
             jump == [dec EXCEPT !.status = "running", !.cur = Wf[i].onReject]
             end  == Finished(dec, "rejected")
  <2>3. rec \in WorkflowRun
    BY <1>1, RecordedType DEF Output
  <2>4. LET run == IF Wf[i].kind = "approval" /\ Wf[i].onReject # None THEN jump ELSE end IN
        Saves(t, run, IF run.status = "running" THEN "start" ELSE "final")
    BY <1>6, <2>2 DEF Reject, Rejected
  <2> HIDE DEF rec
  <2>5. dec \in WorkflowRun
    <3>1. None \in None .. N
      BY WorkflowAssumption DEF None
    <3> QED BY <2>3, <3>1 DEF WorkflowRun
  <2> HIDE DEF dec
  <2>7. CASE Wf[i].kind = "approval" /\ Wf[i].onReject # None
    <3>1. Wf[i].onReject \in 1 .. N + 1 /\ Wf[i].onReject \in Step
      BY <2>7, StepTypes, WorkflowAssumption DEF None, Step
    <3>2. jump \in WorkflowRun /\ jump.status = "running" /\ jump.cur = Wf[i].onReject
      BY <2>5, <3>1 DEF WorkflowRun, Status
    <3>3. Saves(t, jump, "start")
      BY <2>4, <2>7, <3>2
    <3> HIDE DEF jump
    <3>4. Forward => jump.cur >= store[r].cur
      <4> SUFFICES ASSUME Forward PROVE jump.cur >= i + 1
        BY <2>2
      <4>1. Wf[i].onReject > i
        BY <3>1 DEF Forward
      <4>2. Wf[i].onReject \in Int /\ i \in Int
        BY <3>1, StepTypes
      <4>3. \A k, j \in Int : k > j => k >= j + 1
        OBVIOUS
      <4>4. Wf[i].onReject >= i + 1
        BY <4>1, <4>2, <4>3
      <4> QED BY <3>2, <4>4
    <3> QED BY <1>6, <2>1, <3>2, <3>3, <3>4, TakeNext DEF Reject
  <2>8. CASE ~(Wf[i].kind = "approval" /\ Wf[i].onReject # None)
    <3>1. end \in WorkflowRun /\ end.status = "rejected"
      BY <2>5, FinishedType DEF Terminal
    <3>2. Saves(t, end, "final")
      BY <2>4, <2>8, <3>1
    <3> HIDE DEF end
    <3>3. Fits(end, "final") /\ RowOK(end)
      BY <3>1 DEF Fits, Terminal, RowOK
    <3>4. pc[t] = "idle" /\ Turn(t) /\ Claims(t, r)
      BY <1>6 DEF Reject
    <3> QED BY <2>1, <3>1, <3>2, <3>3, <3>4 DEF Takes
  <2> QED BY <2>7, <2>8
<1> QED BY <1>2, <1>4, <1>5, <1>6

\* The end of a save: what it was for, or what its refusal comes to.
Recovers(t) == CheckpointRefused(t) /\ FailsRun(t)
SaveEnds(t) == Save(t) \/ Recovers(t)

\* Every step of the engine has one of four forms.
Form(t) ==
  \/ Proposes(t) \/ Jumps(t) \/ SaveEnds(t)
  \/ \E r \in RunId : Takes(t, r)

LEMMA NextForms ==
  ASSUME IInv, Next
  PROVE  \E t \in Task : Form(t)
<1>1. PICK t \in Task : Drive(t) \/ Call(t) BY DEF Next
<1>2. ASSUME Drive(t) PROVE Form(t)
  BY <1>2, OutcomeProposes DEF Drive, Handles, Jumps, Recovers, SaveEnds, Form
<1>3. ASSUME Call(t) PROVE Form(t)
  BY <1>3, CallTakes DEF Call, Form
<1> QED BY <1>1, <1>2, <1>3

-----------------------------------------------------------------------------
(* The inductive invariant.                                                *)

LEMMA InitIInv == Init => IInv
<1> SUFFICES ASSUME Init PROVE IInv OBVIOUS
<1>1. AnyRun \in RunId /\ 0 \in 0 .. MaxRefusals /\ None \in None .. N
  BY WorkflowAssumption DEF AnyRun, None
<1>2. TypeOK
  BY <1>1, AbsentType DEF Init, TypeOK, PC, After
<1> HIDE DEF Init
<1>3. /\ store = [r \in RunId |-> Absent] /\ pc = [t \in Task |-> "idle"]
      /\ copy = [t \in Task |-> Absent]
  BY DEF Init
<1> QED BY <1>2, <1>3, AbsentType DEF IInv, TaskOK

\* A task that awaits a save.
LEMMA SavesIInv ==
  ASSUME IInv, NEW t \in Task, NEW run \in WorkflowRun, NEW next \in After,
         RowOK(run), Fits(run, next), Saves(t, run, next),
         store' \in [RunId -> WorkflowRun], \A r \in RunId : RowOK(store'[r]),
         rid' \in [Task -> RunId], target' = target, Books'
  PROVE  IInv'
<1>1. TypeOK'
  BY DEF IInv, TypeOK, Saves, PC, Books
<1>2. ASSUME NEW u \in Task PROVE TaskOK(u)'
  <2>1. CASE u = t
    BY <2>1 DEF IInv, TypeOK, Saves, TaskOK, RowOK, Fits
  <2>2. CASE u # t
    BY <2>2 DEF IInv, TypeOK, TaskOK, Saves, RowOK, Fits
  <2> QED BY <2>1, <2>2
<1> QED BY <1>1, <1>2 DEF IInv, RowOK

\* A task that is done.
LEMMA IdleIInv ==
  ASSUME IInv, NEW t \in Task, GoesIdle(t), Books',
         store' \in [RunId -> WorkflowRun], \A r \in RunId : RowOK(store'[r])
  PROVE  IInv'
<1>1. AnyRun \in RunId /\ None \in None .. N
  BY WorkflowAssumption DEF AnyRun, None
<1>2. TypeOK'
  BY <1>1, AbsentType DEF IInv, TypeOK, GoesIdle, PC, After, Books
<1>3. ASSUME NEW u \in Task PROVE TaskOK(u)'
  <2>1. CASE u = t
    BY <2>1, AbsentType DEF IInv, TypeOK, GoesIdle, TaskOK, RowOK
  <2>2. CASE u # t
    BY <2>2 DEF IInv, TypeOK, TaskOK, GoesIdle, RowOK, Fits
  <2> QED BY <2>1, <2>2
<1> QED BY <1>2, <1>3 DEF IInv, RowOK

LEMMA EffectTypes ==
  ASSUME IInv, NEW t \in Task, NEW i \in Step, effects' = effects \/ Executes(t, i)
  PROVE  effects' \in [RunId -> [Step -> 0 .. 2]]
<1>1. effects \in [RunId -> [Step -> 0 .. 2]] /\ rid[t] \in RunId
  BY DEF IInv, TypeOK
<1>2. CASE effects' = effects
  BY <1>1, <1>2
<1>3. CASE Executes(t, i)
  BY <1>1, <1>3 DEF Executes
<1> QED BY <1>2, <1>3

\* What a save leaves to its task: the next step, a last save, or nothing.
GoesOnToStep(t) ==
  /\ after[t] \in {"start", "checkpoint"} /\ copy[t].cur \in Step /\ store'[rid[t]] = copy[t]
  /\ pc' = [pc EXCEPT ![t] = "exec"] /\ UNCHANGED <<rid, copy, after, target>>

EndsRun(t) ==
  /\ after[t] \in {"start", "checkpoint", "suspended"}
  /\ \E s \in {"completed", "failed"} : Saves(t, Finished(copy[t], s), "final")
  /\ UNCHANGED <<rid, target>>

LEMMA SaveForms ==
  ASSUME IInv, NEW t \in Task, SaveEnds(t)
  PROVE  /\ pc[t] = "save" /\ Turn(t) /\ UNCHANGED <<contended, effects>> /\ Books'
         /\ Writes(t) \/ Refuses(t)
         /\ GoesOnToStep(t) \/ EndsRun(t) \/ GoesIdle(t)
<1>1. /\ pc[t] = "save" /\ Turn(t) /\ UNCHANGED <<contended, effects>>
      /\ Writes(t) \/ Refuses(t)
  BY DEF SaveEnds, Save, GoesOn, Returns, Recovers, CheckpointRefused, FailsRun, Raises, Writes, Refuses
<1>2. refusals' \in 0 .. MaxRefusals
  BY <1>1, WorkflowAssumption DEF Writes, Refuses, IInv, TypeOK
<1>3. rid[t] \in RunId /\ lost \subseteq RunId /\ rejected \subseteq RunId
  BY DEF IInv, TypeOK
<1>4. rejected' \subseteq RunId
  BY <1>1, <1>3 DEF Writes, Refuses
<1>5. lost' \subseteq RunId
  <2>1. lost' \in {lost, lost \cup {rid[t]}, lost \ {rid[t]}}
    BY DEF SaveEnds, Save, GoesOn, Returns, Recovers, CheckpointRefused, FailsRun, Raises, Writes
  <2> QED BY <1>3, <2>1
<1>6. Books'
  BY <1>1, <1>2, <1>4, <1>5 DEF Books, IInv, TypeOK
<1>7. GoesOnToStep(t) \/ EndsRun(t) \/ GoesIdle(t)
  <2>1. CASE GoesOn(t)
    <3>1. CASE copy[t].cur \in Step
      BY <2>1, <3>1 DEF GoesOn, Writes, GoesOnToStep, IInv, TypeOK
    <3>2. CASE copy[t].cur \notin Step
      BY <2>1, <3>2 DEF GoesOn, EndsRun
    <3> QED BY <3>1, <3>2
  <2>2. CASE Recovers(t)
    BY <2>2 DEF Recovers, CheckpointRefused, FailsRun, EndsRun
  <2> QED BY <2>1, <2>2 DEF SaveEnds, Save, Returns, Raises
<1> QED BY <1>1, <1>6, <1>7

LEMMA WrittenRows ==
  ASSUME IInv, NEW t \in Task, Writes(t) \/ Refuses(t)
  PROVE  /\ store' \in [RunId -> WorkflowRun] /\ \A r \in RunId : RowOK(store'[r])
         /\ \A r \in RunId : store'[r] = store[r] \/ (r = rid[t] /\ store'[r] = copy[t])
<1>1. /\ rid[t] \in RunId /\ copy[t] \in WorkflowRun /\ RowOK(copy[t])
      /\ store \in [RunId -> WorkflowRun] /\ \A r \in RunId : RowOK(store[r])
  BY DEF IInv, TypeOK, TaskOK
<1>2. store' = store \/ store' = [store EXCEPT ![rid[t]] = copy[t]]
  BY DEF Writes, Refuses
<1> QED BY <1>1, <1>2

LEMMA SaveIInv ==
  ASSUME IInv, NEW t \in Task, SaveEnds(t)
  PROVE  IInv'
<1>1. /\ pc[t] = "save" /\ Books' /\ UNCHANGED <<contended, effects>> /\ (Writes(t) \/ Refuses(t))
      /\ GoesOnToStep(t) \/ EndsRun(t) \/ GoesIdle(t)
  BY SaveForms
<1>2. store' \in [RunId -> WorkflowRun] /\ \A r \in RunId : RowOK(store'[r])
  BY <1>1, WrittenRows
<1>3. CASE GoesOnToStep(t)
  <2>1. copy[t].status = "running"
    BY <1>1, <1>3 DEF IInv, TypeOK, TaskOK, Fits, GoesOnToStep
  <2>2. TypeOK'
    BY <1>1, <1>2, <1>3 DEF IInv, TypeOK, PC, Books, GoesOnToStep
  <2>3. ASSUME NEW u \in Task PROVE TaskOK(u)'
    BY <1>3, <2>1 DEF IInv, TypeOK, TaskOK, GoesOnToStep, RowOK, Fits
  <2> QED BY <1>2, <2>2, <2>3 DEF IInv, RowOK
<1>4. CASE EndsRun(t)
  <2>1. PICK s \in {"completed", "failed"} : Saves(t, Finished(copy[t], s), "final")
    BY <1>4 DEF EndsRun
  <2> DEFINE run == Finished(copy[t], s)
  <2>2. run \in WorkflowRun /\ run.status = s
    BY FinishedType DEF IInv, TypeOK, Terminal
  <2>3. Saves(t, run, "final")
    BY <2>1
  <2> HIDE DEF run
  <2>4. Fits(run, "final") /\ RowOK(run) /\ "final" \in After
    BY <2>2 DEF Fits, Terminal, After, RowOK
  <2> QED BY <1>1, <1>2, <1>4, <2>2, <2>3, <2>4, SavesIInv DEF EndsRun, IInv, TypeOK
<1>5. CASE GoesIdle(t)
  BY <1>1, <1>2, <1>5, IdleIInv
<1> QED BY <1>1, <1>3, <1>4, <1>5

LEMMA StepIInv == IInv /\ [Next]_vars => IInv'
<1> SUFFICES ASSUME IInv, [Next]_vars PROVE IInv' OBVIOUS
<1>0. store \in [RunId -> WorkflowRun] /\ \A r \in RunId : RowOK(store[r])
  BY DEF IInv, TypeOK
<1>1. CASE UNCHANGED vars
  BY <1>1 DEF vars, history, IInv, TypeOK, TaskOK, RowOK, Fits
<1>2. CASE Next
  <2>1. PICK t \in Task : Form(t)
    BY <1>2, NextForms
  <2>2. CASE Proposes(t)
    <3>1. PICK run \in WorkflowRun, next \in {"checkpoint", "suspended", "final", "raise"} :
            RowOK(run) /\ Fits(run, next) /\ Saves(t, run, next)
      BY <2>2 DEF Proposes
    <3>2. effects' \in [RunId -> [Step -> 0 .. 2]]
      BY <2>2, AtStep, EffectTypes DEF Proposes
    <3>3. Quiet
      BY <2>2 DEF Proposes
    <3>4. Books'
      BY <3>2, <3>3 DEF Books, Quiet, IInv, TypeOK
    <3> QED BY <1>0, <3>1, <3>3, <3>4, SavesIInv DEF Quiet, IInv, TypeOK, After
  <2>3. CASE Jumps(t)
    <3>1. PICK g \in Step : SwitchJumps(t, g)
      BY <2>3 DEF Jumps
    <3> DEFINE run == Recorded(copy[t], Current(t), "output")
    <3>4. run \in WorkflowRun /\ run.status = "running" /\ run.cur = copy[t].cur /\ run.cur \in Step
      <4>1. pc[t] \in {"exec", "goto"} /\ "output" \in Output
        BY <3>1 DEF SwitchJumps, Output
      <4>2. copy[t] \in WorkflowRun /\ copy[t].status = "running" /\ Current(t) \in Step
        BY <4>1, AtStep
      <4> QED BY <4>1, <4>2, RecordedType DEF Current
    <3>5. copy' = [copy EXCEPT ![t] = run]
      BY <3>1 DEF SwitchJumps
    <3> HIDE DEF run
    <3>7. g \in None .. N /\ RowOK(run)
      BY <3>4, StepTypes DEF RowOK
    <3>8. TypeOK'
      BY <3>1, <3>4, <3>5, <3>7 DEF IInv, TypeOK, SwitchJumps, PC, history
    <3>9. ASSUME NEW u \in Task PROVE TaskOK(u)'
      <4>1. CASE u = t
        BY <3>1, <3>4, <3>5, <3>7, <4>1 DEF IInv, TypeOK, SwitchJumps, TaskOK, RowOK
      <4>2. CASE u # t
        BY <3>1, <3>5, <4>2 DEF IInv, TypeOK, TaskOK, SwitchJumps, RowOK, Fits
      <4> QED BY <4>1, <4>2
    <3> QED BY <1>0, <3>1, <3>8, <3>9 DEF SwitchJumps, IInv, RowOK
  <2>4. CASE \E r \in RunId : Takes(t, r)
    <3>1. PICK r \in RunId : Takes(t, r)
      BY <2>4
    <3>2. PICK run \in WorkflowRun, next \in {"start", "final"} :
            RowOK(run) /\ Fits(run, next) /\ Saves(t, run, next)
      BY <3>1 DEF Takes
    <3>3. Claims(t, r)
      BY <3>1 DEF Takes
    <3>4. rid' \in [Task -> RunId] /\ store' = store /\ target' = target
      BY <3>3 DEF Claims, IInv, TypeOK
    <3>5. Books'
      <4>1. contended' \subseteq RunId
        BY <3>3 DEF Claims, IInv, TypeOK
      <4> QED BY <3>3, <4>1 DEF Claims, Books, IInv, TypeOK
    <3> QED BY <1>0, <3>2, <3>4, <3>5, SavesIInv DEF After
  <2>5. CASE SaveEnds(t)
    BY <2>5, SaveIInv
  <2> QED BY <2>1, <2>2, <2>3, <2>4, <2>5 DEF Form
<1> QED BY <1>1, <1>2

(* Every state of the engine is well typed, for every workflow and store.  *)
THEOREM TypeCorrect == Spec => []TypeOK
<1>1. IInv => TypeOK BY DEF IInv
<1> QED BY <1>1, InitIInv, StepIInv, PTL DEF Spec

(* The approval queue is exact with every store, under any interleaving    *)
(* and for every workflow.                                                 *)
LEMMA RowsExact == IInv => ApprovalQueueExact
BY DEF IInv, ApprovalQueueExact, RowOK

THEOREM ApprovalQueue == Spec => []ApprovalQueueExact
BY RowsExact, InitIInv, StepIInv, PTL DEF Spec


-----------------------------------------------------------------------------
(* A running run is driven by a task that does more than begin with it.    *)

Tends(t, r) == Drives(t, r) /\ ~(pc[t] = "save" /\ after[t] = "start")

RunTended(r) ==
  r \notin lost /\ store[r].status = "running" => \E t \in Task : Tends(t, r)

Tended == \A r \in RunId : RunTended(r)

LEMMA SaveCases ==
  ASSUME IInv, NEW t \in Task, SaveEnds(t)
  PROVE  /\ ~(Writes(t) /\ Refuses(t))
         /\ \/ Writes(t) /\ GoesOn(t)
            \/ Writes(t) /\ after[t] \in {"suspended", "final", "raise"} /\ GoesIdle(t)
            \/ Refuses(t) /\ Recovers(t)
            \/ /\ Refuses(t) /\ after[t] \in {"start", "final", "raise"} /\ GoesIdle(t)
               /\ lost' = IF after[t] = "start" THEN lost ELSE lost \cup {rid[t]}
<1>1. ~(Writes(t) /\ Refuses(t))
  <2> SUFFICES ASSUME Writes(t), Refuses(t) PROVE FALSE OBVIOUS
  <2>1. refusals' = refusals /\ refusals' = refusals + 1 /\ refusals \in Int
    BY WorkflowAssumption DEF Writes, Refuses, IInv, TypeOK
  <2> QED BY <2>1
<1> QED BY <1>1, Zenon DEF SaveEnds, Save, GoesOn, Returns, Recovers, CheckpointRefused, FailsRun, Raises

\* What the save of t leaves of the run it saved.
LEMMA SaveTends ==
  ASSUME IInv, NEW t \in Task, SaveEnds(t), NEW r \in RunId, r = rid[t], r \notin lost',
         store'[r].status = "running"
  PROVE  \/ Tends(t, r)'
         \/ /\ after[t] = "start" /\ store' = store /\ lost' = lost
<1>1. /\ pc[t] = "save" /\ Fits(copy[t], after[t]) /\ after[t] \in After
      /\ pc \in [Task -> PC] /\ after \in [Task -> After] /\ rid[t] \in RunId
      /\ store \in [RunId -> WorkflowRun]
  BY SaveForms DEF IInv, TaskOK, TypeOK
<1>2. CASE Writes(t)
  <2>1. copy[t].status = "running"
    BY <1>1, <1>2 DEF Writes
  <2>2. after[t] \in {"start", "checkpoint"}
    BY <1>1, <2>1 DEF Fits, After, Terminal
  <2>3. GoesOn(t)
    BY <1>2, <2>2, SaveCases
  <2> QED BY <1>1, <2>3 DEF GoesOn, Saves, Tends, Drives
<1>3. CASE ~Writes(t)
  <2>1. CASE Recovers(t)
    BY <1>1, <2>1 DEF Recovers, CheckpointRefused, FailsRun, Saves, Tends, Drives
  <2>2. CASE Refuses(t) /\ lost' = IF after[t] = "start" THEN lost ELSE lost \cup {rid[t]}
    BY <1>1, <2>2 DEF Refuses
  <2> QED BY <1>3, <2>1, <2>2, SaveCases
<1> QED BY <1>2, <1>3

LEMMA StepTends ==
  ASSUME IInv, NEW r \in RunId, RunTended(r), [Next]_vars, r \notin lost', store'[r].status = "running"
  PROVE  \E t \in Task : Tends(t, r)'
<1>0. pc \in [Task -> PC] /\ rid \in [Task -> RunId] /\ after \in [Task -> After]
  BY DEF IInv, TypeOK
<1>1. CASE UNCHANGED vars
  BY <1>1 DEF vars, history, RunTended, Tends, Drives
<1>2. CASE Next
  <2>1. PICK t \in Task : Form(t)
    BY <1>2, NextForms
  <2>2. ASSUME store' = store, lost' = lost, UNCHANGED <<after, rid>> \/ pc[t] = "idle" \/ ~(pc'[t] = "save" /\ after'[t] = "start"),
               pc'[t] # "idle", pc[t] # "idle" => rid' = rid,
               \A u \in Task \ {t} : pc'[u] = pc[u] /\ rid'[u] = rid[u] /\ after'[u] = after[u],
               pc[t] # "idle" => ~(pc'[t] = "save" /\ after'[t] = "start")
        PROVE  \E u \in Task : Tends(u, r)'
    BY <2>2 DEF RunTended, Tends, Drives
  <2>3. CASE Proposes(t)
    <3>1. /\ pc' = [pc EXCEPT ![t] = "save"] /\ pc[t] # "idle"
          /\ \E next \in {"checkpoint", "suspended", "final", "raise"} : after' = [after EXCEPT ![t] = next]
          /\ UNCHANGED <<store, lost, rid>>
      BY <2>3 DEF Proposes, Saves, Quiet
    <3> QED BY <1>0, <3>1, <2>2
  <2>4. CASE Jumps(t)
    <3>1. /\ pc' = [pc EXCEPT ![t] = "goto"] /\ pc[t] # "idle"
          /\ UNCHANGED <<store, lost, rid, after>>
      BY <2>4 DEF Jumps, SwitchJumps, history
    <3> QED BY <1>0, <3>1, <2>2
  <2>5. CASE \E q \in RunId : Takes(t, q)
    <3>1. PICK q \in RunId : Takes(t, q)
      BY <2>5
    <3>2. /\ pc' = [pc EXCEPT ![t] = "save"] /\ pc[t] = "idle"
          /\ \E next \in {"start", "final"} : after' = [after EXCEPT ![t] = next]
          /\ UNCHANGED <<store, lost>> /\ rid' = [rid EXCEPT ![t] = q]
      BY <3>1 DEF Takes, Saves, Claims
    <3> QED BY <1>0, <3>2, <2>2
  <2>6. CASE SaveEnds(t)
    <3>1. /\ pc[t] = "save" /\ (Writes(t) \/ Refuses(t))
          /\ GoesOnToStep(t) \/ EndsRun(t) \/ GoesIdle(t)
      BY <2>6, SaveForms
    <3>2. \A u \in Task \ {t} : pc'[u] = pc[u] /\ rid'[u] = rid[u] /\ after'[u] = after[u]
      BY <1>0, <3>1 DEF GoesOnToStep, EndsRun, GoesIdle, Saves
    <3>3. CASE r = rid[t]
      <4>1. CASE after[t] = "start" /\ store' = store /\ lost' = lost
        <5>1. PICK u \in Task : Tends(u, r)
          BY <4>1 DEF RunTended
        <5>2. u # t
          BY <3>1, <4>1, <5>1 DEF Tends
        <5> QED BY <3>2, <5>1, <5>2 DEF Tends, Drives
      <4> QED BY <2>6, <3>3, <4>1, SaveTends
    <3>4. CASE r # rid[t]
      <4>1. store'[r] = store[r]
        BY <3>1, <3>4, WrittenRows
      <4>2. r \notin lost
        BY <2>6, <3>4
        DEF SaveEnds, Save, GoesOn, Returns, Recovers, CheckpointRefused, FailsRun, Raises, Writes
      <4>3. PICK u \in Task : Tends(u, r)
        BY <4>1, <4>2 DEF RunTended
      <4>4. u # t
        BY <3>4, <4>3 DEF Tends, Drives
      <4> QED BY <3>2, <4>3, <4>4 DEF Tends, Drives
    <3> QED BY <3>3, <3>4
  <2> QED BY <2>1, <2>3, <2>4, <2>5, <2>6 DEF Form
<1> QED BY <1>1, <1>2

LEMMA StepTended == IInv /\ Tended /\ [Next]_vars => Tended'
BY StepTends DEF Tended, RunTended

(* With every store, under any interleaving and whatever the database      *)
(* refuses, a run the store shows as running has a call at work on it or   *)
(* is one whose last save was refused.                                     *)
THEOREM NoneStranded == Spec => []NoStrandedRun
<1>1. Init => Tended
  BY AbsentType DEF Init, Tended, RunTended
<1>2. Tended => NoStrandedRun
  BY DEF Tended, RunTended, NoStrandedRun, Tends
<1> QED BY <1>1, <1>2, InitIInv, StepIInv, StepTended, PTL DEF Spec

-----------------------------------------------------------------------------
(* One driver per run, as long as no two operations met on it.             *)

\* The run of t is its own, and has not ended.
Own(t) ==
  /\ \A u \in Task : Drives(u, rid[t]) => u = t
  /\ \/ store[rid[t]].status = "running"
     \/ /\ store[rid[t]].status \in {"none", "suspended"}
        /\ pc[t] = "save" /\ after[t] \in {"start", "final"}

Sole ==
  /\ \A t \in Task : pc[t] # "idle" /\ rid[t] \notin contended => Own(t)
  /\ RejectionStops

LEMMA InitSole == Init => Sole
BY DEF Init, Sole, RejectionStops

LEMMA SoleTakes ==
  ASSUME IInv, Sole, NEW t \in Task, NEW r \in RunId, Takes(t, r)
  PROVE  Sole'
<1>1. /\ pc[t] = "idle" /\ store[r].status \in {"none", "suspended"} /\ Claims(t, r)
      /\ pc \in [Task -> PC] /\ rid \in [Task -> RunId] /\ after \in [Task -> After]
  BY DEF Takes, IInv, TypeOK
<1>2. PICK next \in {"start", "final"} :
        pc' = [pc EXCEPT ![t] = "save"] /\ after' = [after EXCEPT ![t] = next]
  BY DEF Takes, Saves
<1>3. /\ rid' = [rid EXCEPT ![t] = r] /\ UNCHANGED <<store, rejected>>
      /\ contended \subseteq contended'
      /\ r \notin contended' => \A u \in Task \ {t} : ~Drives(u, r)
  BY <1>1 DEF Claims, Drives
<1>4. ASSUME NEW u \in Task, pc'[u] # "idle", rid'[u] \notin contended' PROVE Own(u)'
  <2>1. CASE u = t
    BY <1>1, <1>2, <1>3, <1>4, <2>1 DEF Own, Drives
  <2>2. CASE u # t
    <3>1. rid'[u] = rid[u] /\ pc'[u] = pc[u] /\ after'[u] = after[u] /\ Own(u)
      BY <1>1, <1>2, <1>3, <1>4, <2>2 DEF Sole
    <3>2. rid[u] # r
      BY <1>3, <1>4, <2>2, <3>1 DEF Drives
    <3> QED BY <1>1, <1>2, <1>3, <3>1, <3>2 DEF Own, Drives
  <2> QED BY <2>1, <2>2
<1>5. ASSUME NEW q \in rejected' \ contended' PROVE Stopped(q)'
  <2>1. Stopped(q)
    BY <1>3, <1>5 DEF Sole, RejectionStops
  <2>2. q # r
    BY <1>1, <2>1 DEF Stopped
  <2> QED BY <1>1, <1>2, <1>3, <2>1, <2>2 DEF Stopped, Drives
<1> QED BY <1>4, <1>5 DEF Sole, RejectionStops

\* A step of a task that keeps its run and leaves the store alone.
LEMMA SoleKeeps ==
  ASSUME IInv, Sole, NEW t \in Task, pc[t] \in {"exec", "goto"}, pc'[t] # "idle",
         \A u \in Task \ {t} : pc'[u] = pc[u] /\ after'[u] = after[u],
         UNCHANGED <<store, rid, contended, rejected>>
  PROVE  Sole'
<1>1. ASSUME NEW u \in Task, pc'[u] # "idle", rid'[u] \notin contended' PROVE Own(u)'
  <2>1. Own(u)
    BY <1>1 DEF Sole
  <2> QED BY <2>1 DEF Own, Drives
<1>2. ASSUME NEW q \in rejected' \ contended' PROVE Stopped(q)'
  BY <1>2 DEF Sole, RejectionStops, Stopped, Drives
<1> QED BY <1>1, <1>2 DEF Sole, RejectionStops

LEMMA SoleSave ==
  ASSUME IInv, Sole, NEW t \in Task, SaveEnds(t)
  PROVE  Sole'
<1>1. /\ pc[t] = "save" /\ contended' = contended /\ (Writes(t) \/ Refuses(t))
      /\ GoesOnToStep(t) \/ EndsRun(t) \/ GoesIdle(t)
      /\ pc \in [Task -> PC] /\ rid \in [Task -> RunId] /\ after \in [Task -> After]
      /\ store \in [RunId -> WorkflowRun] /\ Fits(copy[t], after[t])
  BY SaveForms DEF IInv, TypeOK, TaskOK
<1>2. \A q \in RunId : store'[q] = store[q] \/ (q = rid[t] /\ store'[q] = copy[t])
  BY <1>1, WrittenRows
<1>3. \A u \in Task \ {t} : pc'[u] = pc[u] /\ rid'[u] = rid[u] /\ after'[u] = after[u]
  BY <1>1 DEF GoesOnToStep, EndsRun, GoesIdle, Saves
<1>4. pc'[t] = "idle" \/ rid'[t] = rid[t]
  BY <1>1 DEF GoesOnToStep, EndsRun, GoesIdle, Saves
<1>5. ASSUME NEW u \in Task, u # t, pc'[u] # "idle", rid'[u] \notin contended' PROVE Own(u)'
  <2>1. Own(u) /\ rid'[u] = rid[u] /\ rid[u] # rid[t]
    BY <1>1, <1>3, <1>5 DEF Sole, Own, Drives
  <2>2. store'[rid[u]] = store[rid[u]]
    BY <1>1, <1>2, <2>1
  <2> QED BY <1>3, <1>4, <1>5, <2>1, <2>2 DEF Own, Drives
<1>6. ASSUME pc'[t] # "idle", rid'[t] \notin contended' PROVE Own(t)'
  <2>1. Own(t) /\ rid'[t] = rid[t]
    BY <1>1, <1>4, <1>6 DEF Sole
  <2>2. \A u \in Task : Drives(u, rid[t])' => u = t
    BY <1>3, <2>1 DEF Own, Drives
  <2>3. CASE Writes(t)
    <3>1. GoesOn(t)
      BY <1>1, <1>6, <2>3, SaveCases DEF GoesIdle
    <3>2. store'[rid[t]].status = "running"
      BY <1>1, <2>3, <3>1 DEF GoesOn, Writes, Fits
    <3> QED BY <2>1, <2>2, <3>2 DEF Own
  <2>4. CASE ~Writes(t)
    <3>1. Recovers(t)
      BY <1>1, <1>6, <2>4, SaveCases DEF GoesIdle
    <3>2. store' = store /\ after[t] \notin {"start", "final"}
      BY <3>1 DEF Recovers, CheckpointRefused, FailsRun, Refuses
    <3> QED BY <2>1, <2>2, <3>2 DEF Own
  <2> QED BY <2>3, <2>4
<1>7. ASSUME NEW q \in rejected' \ contended' PROVE Stopped(q)'
  <2>1. CASE q \in rejected
    <3>1. Stopped(q)
      BY <1>1, <1>7, <2>1 DEF Sole, RejectionStops
    <3>2. q # rid[t] /\ q \in RunId
      BY <1>1, <3>1, <2>1 DEF Stopped, Drives, IInv, TypeOK
    <3> QED BY <1>2, <1>3, <1>4, <3>1, <3>2 DEF Stopped, Drives
  <2>2. CASE q \notin rejected
    <3>1. Writes(t) /\ q = rid[t] /\ after[t] = "final" /\ copy[t].status = "rejected"
      BY <1>1, <1>7, <2>2 DEF Writes, Refuses
    <3>2. Own(t)
      BY <1>1, <1>7, <3>1 DEF Sole
    <3>3. GoesIdle(t)
      BY <3>1, SaveCases DEF GoesOn
    <3>4. pc'[t] = "idle" /\ store'[q].status = "rejected"
      BY <1>1, <3>1, <3>3 DEF GoesIdle, Writes
    <3> QED BY <1>1, <1>3, <3>1, <3>2, <3>4 DEF Own, Stopped, Drives
  <2> QED BY <2>1, <2>2
<1> QED BY <1>5, <1>6, <1>7 DEF Sole, RejectionStops

LEMMA StepSole == IInv /\ Sole /\ [Next]_vars => Sole'
<1> SUFFICES ASSUME IInv, Sole, [Next]_vars PROVE Sole' OBVIOUS
<1>0. pc \in [Task -> PC] /\ after \in [Task -> After]
  BY DEF IInv, TypeOK
<1>1. CASE UNCHANGED vars
  BY <1>1 DEF vars, history, Sole, Own, Drives, RejectionStops, Stopped
<1>2. CASE Next
  <2>1. PICK t \in Task : Form(t)
    BY <1>2, NextForms
  <2>2. CASE Proposes(t)
    BY <1>0, <2>2, SoleKeeps DEF Proposes, Saves, Quiet
  <2>3. CASE Jumps(t)
    BY <1>0, <2>3, SoleKeeps DEF Jumps, SwitchJumps, history
  <2> QED BY <2>1, <2>2, <2>3, SoleTakes, SoleSave DEF Form
<1> QED BY <1>1, <1>2

(* A rejection that was acknowledged as the end of its run is the end of   *)
(* it: nobody works on the run again and its row stays rejected, with      *)
(* every store and for every workflow.  The runs that two operations       *)
(* worked on at once are left out: there the second save decides.          *)
THEOREM RejectionEnds == Spec => []RejectionStops
<1>1. Sole => RejectionStops BY DEF Sole
<1> QED BY <1>1, InitIInv, StepIInv, InitSole, StepSole, PTL DEF Spec

-----------------------------------------------------------------------------
(* What follows from one driver per run.                                   *)

\* Only a save writes a row, and only the row of the run it drives.
LEMMA OnlySavesWrite ==
  ASSUME IInv, Next, NEW r \in RunId, store'[r] # store[r]
  PROVE  \E t \in Task : pc[t] = "save" /\ rid[t] = r /\ store'[r] = copy[t]
<1>1. PICK t \in Task : Form(t) BY NextForms
<1>2. CASE SaveEnds(t)
  BY <1>2, SaveForms, WrittenRows
<1> QED BY <1>1, <1>2 DEF Form, Proposes, Quiet, Jumps, SwitchJumps, Takes, Claims

(* A run that has ended is never written again, with every store, unless   *)
(* two operations have worked on it at once.                               *)
THEOREM EndIsFinal ==
  Spec => [][\A r \in RunId \ contended :
               store[r].status \in Terminal => store'[r] = store[r]]_vars
<1>1. IInv /\ Sole /\ [Next]_vars =>
        [\A r \in RunId \ contended :
           store[r].status \in Terminal => store'[r] = store[r]]_vars
  <2> SUFFICES ASSUME IInv, Sole, Next, NEW r \in RunId \ contended,
                      store[r].status \in Terminal
               PROVE  store'[r] = store[r]
    OBVIOUS
  <2> QED BY OnlySavesWrite DEF Sole, Own, Terminal
<1> QED BY <1>1, InitIInv, StepIInv, InitSole, StepSole, PTL DEF Spec

Uncontended == contended = {}

\* In memory nobody runs between a load and the save that follows it, so a
\* run at work shows as running and no call takes it.
LEMMA StepUncontended ==
  ASSUME ~Durable, IInv, Sole, Uncontended, [Next]_vars
  PROVE  Uncontended'
<1>1. CASE UNCHANGED vars
  BY <1>1 DEF vars, history, Uncontended
<1>2. CASE Next
  <2>1. PICK t \in Task : Form(t) BY <1>2, NextForms
  <2>2. ASSUME NEW r \in RunId, Takes(t, r) PROVE Uncontended'
    <3>1. \A u \in Task \ {t} : pc[u] # "idle" => rid[u] # r
      BY <2>2 DEF Takes, Turn, Sole, Own, Uncontended
    <3> QED BY <2>2, <3>1 DEF Takes, Claims, Uncontended
  <2>3. ASSUME SaveEnds(t) PROVE Uncontended'
    BY <2>3, SaveForms DEF Uncontended
  <2> QED BY <2>1, <2>2, <2>3 DEF Form, Proposes, Quiet, Jumps, SwitchJumps, history, Uncontended
<1> QED BY <1>1, <1>2

LEMMA InMemory ==
  ASSUME ~Durable
  PROVE  Spec => [](IInv /\ Sole /\ Uncontended)
<1>1. Init => Uncontended
  BY DEF Init, Uncontended
<1>2. IInv /\ Sole /\ Uncontended /\ [Next]_vars => Uncontended'
  BY StepUncontended
<1> QED BY <1>1, <1>2, InitIInv, StepIInv, InitSole, StepSole, PTL DEF Spec

(* With the in-memory store no two calls ever drive one run.               *)
THEOREM OneDriver == ASSUME ~Durable PROVE Spec => []SingleDriver
<1>1. Sole /\ Uncontended => SingleDriver
  BY DEF Sole, Own, Drives, SingleDriver, Uncontended
<1> QED BY <1>1, InMemory, PTL

(* With the in-memory store an ended run is never written again.           *)
THEOREM EndsInMemory == ASSUME ~Durable PROVE Spec => TerminalIsFinal
<1>1. Uncontended /\ [\A r \in RunId \ contended :
                           store[r].status \in Terminal => store'[r] = store[r]]_vars
        => [\A r \in RunId : store[r].status \in Terminal => store'[r] = store[r]]_vars
  BY DEF Uncontended
<1> QED BY <1>1, EndIsFinal, InMemory, PTL DEF TerminalIsFinal

-----------------------------------------------------------------------------
(* The checkpoint of a step in progress.                                   *)

ExactFor(t) ==
  /\ pc[t] = "exec" => store[rid[t]] = copy[t]
  /\ pc[t] = "goto" =>
       \E out \in Output : store[rid[t]] = Recorded(copy[t], Current(t), out)

Exact == \A t \in Task : rid[t] \notin contended => ExactFor(t)

LEMMA StepExact == IInv /\ Sole /\ Exact /\ [Next]_vars => Exact'
<1> SUFFICES ASSUME IInv, Sole, Exact, [Next]_vars PROVE Exact' OBVIOUS
<1>0. /\ pc \in [Task -> PC] /\ copy \in [Task -> WorkflowRun] /\ rid \in [Task -> RunId]
  BY DEF IInv, TypeOK
<1>1. CASE UNCHANGED vars
  BY <1>1 DEF vars, history, Exact, ExactFor, Current
<1>2. CASE Next
  <2>1. PICK t \in Task : Form(t) BY <1>2, NextForms
\* The others keep what they hold, and nobody writes the rows of their runs.
  <2>2. ASSUME contended \subseteq contended',
               \A u \in Task \ {t} : pc'[u] = pc[u] /\ copy'[u] = copy[u] /\ rid'[u] = rid[u],
               \A r \in RunId : store'[r] = store[r] \/ (pc[t] = "save" /\ r = rid[t]),
               rid'[t] \notin contended' => ExactFor(t)'
        PROVE  Exact'
    <3> SUFFICES ASSUME NEW u \in Task, u # t, rid'[u] \notin contended' PROVE ExactFor(u)'
      BY <2>2 DEF Exact
    <3>1. ExactFor(u) /\ rid'[u] = rid[u] /\ pc'[u] = pc[u] /\ copy'[u] = copy[u]
      BY <2>2 DEF Exact
    <3>2. pc[u] # "idle" => store'[rid[u]] = store[rid[u]]
      BY <1>0, <2>2, <3>1 DEF Sole, Own, Drives
    <3> QED BY <3>1, <3>2 DEF ExactFor, Current
  <2>3. CASE Proposes(t)
    BY <1>0, <2>2, <2>3 DEF Proposes, Saves, Quiet, ExactFor
  <2>4. CASE Jumps(t)
    <3>1. PICK g \in Step : SwitchJumps(t, g) BY <2>4 DEF Jumps
    <3> DEFINE i == Current(t)
               out == copy[t].ctx[i]
    <3>2. copy[t] \in WorkflowRun /\ i \in Step /\ pc[t] = "exec"
          /\ (rid[t] \notin contended => store[rid[t]] = copy[t])
      BY <3>1, AtStep DEF SwitchJumps, Exact, ExactFor
    <3>3. /\ out \in Output
          /\ Recorded(Recorded(copy[t], i, "output"), i, out) = copy[t]
      BY <3>2 DEF WorkflowRun, Recorded
    <3>4. copy'[t] = Recorded(copy[t], i, "output") /\ Current(t)' = i
      BY <1>0, <3>1, <3>2 DEF SwitchJumps, Current, Recorded, WorkflowRun
    <3>5. rid'[t] \notin contended' =>
            pc'[t] = "goto" /\ store'[rid'[t]] = Recorded(copy'[t], Current(t)', out)
      BY <1>0, <3>1, <3>2, <3>3, <3>4 DEF SwitchJumps, history
    <3>6. rid'[t] \notin contended' => ExactFor(t)'
      BY <3>3, <3>5 DEF ExactFor
    <3> QED BY <1>0, <2>2, <3>1, <3>6 DEF SwitchJumps, history
  <2>5. CASE \E r \in RunId : Takes(t, r)
    BY <1>0, <2>2, <2>5 DEF Takes, Saves, Claims, ExactFor
  <2>6. CASE SaveEnds(t)
    <3>1. /\ pc[t] = "save" /\ contended' = contended /\ (Writes(t) \/ Refuses(t))
          /\ GoesOnToStep(t) \/ EndsRun(t) \/ GoesIdle(t)
      BY <2>6, SaveForms
    <3>2. \A r \in RunId : store'[r] = store[r] \/ (pc[t] = "save" /\ r = rid[t])
      BY <3>1, WrittenRows
    <3>3. \A u \in Task \ {t} : pc'[u] = pc[u] /\ copy'[u] = copy[u] /\ rid'[u] = rid[u]
      BY <1>0, <3>1 DEF GoesOnToStep, EndsRun, GoesIdle, Saves
    <3>4. ExactFor(t)'
      BY <1>0, <3>1 DEF GoesOnToStep, EndsRun, GoesIdle, Saves, ExactFor
    <3> QED BY <2>2, <3>1, <3>2, <3>3, <3>4
  <2> QED BY <2>1, <2>3, <2>4, <2>5, <2>6 DEF Form
<1> QED BY <1>1, <1>2

LEMMA InitExact == Init => Exact
BY DEF Init, Exact, ExactFor

(* Each step of a call runs against the checkpoint in the store, which     *)
(* nobody wrote since, with every store: but for runs that two operations  *)
(* worked on at once.                                                      *)
THEOREM Checkpointed ==
  Spec => [](\A t \in Task : rid[t] \notin contended => ExactFor(t))
BY InitIInv, StepIInv, InitSole, StepSole, InitExact, StepExact, PTL DEF Spec, Exact

(* ... with the in-memory store, of every run.                             *)
THEOREM CheckpointedInMemory == ASSUME ~Durable PROVE Spec => []CheckpointExact
<1>1. Exact /\ Uncontended => CheckpointExact
  BY DEF Exact, ExactFor, CheckpointExact, Uncontended
<1> QED BY <1>1, InMemory, InitIInv, StepIInv, InitSole, StepSole, InitExact, StepExact, PTL
        DEF Spec

-----------------------------------------------------------------------------
(* The engine implements the life cycle.                                   *)

\* No call expires a run: only a sweep does.
Unexpired == \A t \in Task : copy[t].status # "expired"

LEMMA InitUnexpired == Init => Unexpired
BY AbsentType DEF Init, Unexpired

LEMMA StepUnexpired == IInv /\ Unexpired /\ [Next]_vars => Unexpired'
<1> SUFFICES ASSUME IInv, Unexpired, [Next]_vars PROVE Unexpired' OBVIOUS
<1>0. copy \in [Task -> WorkflowRun] /\ "output" \in Output
  BY DEF IInv, TypeOK, Output
<1>1. CASE UNCHANGED vars
  BY <1>1 DEF vars, Unexpired
<1>2. CASE Next
  <2>1. PICK t \in Task : Form(t) BY <1>2, NextForms
  <2>2. ASSUME NEW run \in WorkflowRun, run.status # "expired", copy' = [copy EXCEPT ![t] = run]
        PROVE  Unexpired'
    BY <1>0, <2>2 DEF Unexpired
  <2>3. CASE Proposes(t)
    BY <2>2, <2>3 DEF Proposes, Saves
  <2>4. CASE \E r \in RunId : Takes(t, r)
    BY <2>2, <2>4 DEF Takes, Saves
  <2>5. CASE Jumps(t)
    <3>1. PICK g \in Step : SwitchJumps(t, g) BY <2>5 DEF Jumps
    <3>2. copy[t] \in WorkflowRun /\ copy[t].status = "running" /\ Current(t) \in Step
      BY <3>1, AtStep DEF SwitchJumps
    <3> DEFINE run == Recorded(copy[t], Current(t), "output")
    <3>3. run \in WorkflowRun /\ run.status = "running"
      BY <1>0, <3>2, RecordedType
    <3>4. copy' = [copy EXCEPT ![t] = run]
      BY <3>1 DEF SwitchJumps
    <3> HIDE DEF run
    <3> QED BY <2>2, <3>3, <3>4
  <2>6. CASE SaveEnds(t)
    <3>1. CASE GoesOnToStep(t)
      BY <3>1 DEF GoesOnToStep, Unexpired
    <3>2. CASE EndsRun(t)
      <4>1. PICK s \in {"completed", "failed"} : Saves(t, Finished(copy[t], s), "final")
        BY <3>2 DEF EndsRun
      <4> DEFINE run == Finished(copy[t], s)
      <4>2. run \in WorkflowRun /\ run.status = s
        BY <1>0, FinishedType DEF Terminal
      <4>3. copy' = [copy EXCEPT ![t] = run]
        BY <4>1 DEF Saves
      <4> HIDE DEF run
      <4> QED BY <2>2, <4>2, <4>3
    <3>3. CASE GoesIdle(t)
      <4>1. copy' = [copy EXCEPT ![t] = Absent]
        BY <3>3 DEF GoesIdle
      <4> QED BY <2>2, <4>1, AbsentType
    <3> QED BY <2>6, <3>1, <3>2, <3>3, SaveForms
  <2> QED BY <2>1, <2>3, <2>4, <2>5, <2>6 DEF Form
<1> QED BY <1>1, <1>2

Driven == {r \in RunId : \E t \in Task : Drives(t, r)}
Statuses == [r \in RunId |-> store[r].status]

LEMMA InitLifecycle == Init => Lifecycle!Init
BY DEF Init, Lifecycle!Init, Drives, Absent

LEMMA StepLifecycle ==
  ASSUME ~Durable, IInv, Sole, Uncontended, Uncontended', Unexpired, [Next]_vars
  PROVE  [Lifecycle!Next]_(Lifecycle!vars)
<1> DEFINE Stutter == Statuses' = Statuses /\ Driven' = Driven
<1>0. ASSUME Stutter PROVE [Lifecycle!Next]_(Lifecycle!vars)
  BY <1>0 DEF Lifecycle!vars, Statuses, Driven
<1>a. ASSUME NEW r \in RunId, Lifecycle!Claim(r) \/ Lifecycle!Advance(r) \/ Lifecycle!Release(r)
      PROVE  [Lifecycle!Next]_(Lifecycle!vars)
  BY <1>a DEF Lifecycle!Next
<1>1. CASE UNCHANGED vars
  BY <1>0, <1>1 DEF vars, Statuses, Driven, Drives
<1>2. CASE Next
  <2>1. PICK t \in Task : Form(t) BY <1>2, NextForms
  <2>0. /\ pc \in [Task -> PC] /\ copy \in [Task -> WorkflowRun]
        /\ rid \in [Task -> RunId] /\ store \in [RunId -> WorkflowRun]
    BY DEF IInv, TypeOK
  <2>2. CASE Proposes(t) \/ Jumps(t)
    <3>1. pc[t] # "idle" /\ (\E p \in PC \ {"idle"} : pc' = [pc EXCEPT ![t] = p])
          /\ UNCHANGED <<store, rid>>
      BY <2>2 DEF Proposes, Quiet, Jumps, SwitchJumps, Saves, PC
    <3> QED BY <2>0, <3>1, <1>0 DEF Statuses, Driven, Drives
  <2>3. CASE \E r \in RunId : Takes(t, r)
    <3>1. PICK r \in RunId : Takes(t, r) BY <2>3
    <3>2. /\ pc[t] = "idle" /\ pc' = [pc EXCEPT ![t] = "save"]
          /\ rid' = [rid EXCEPT ![t] = r] /\ UNCHANGED store
          /\ store[r].status \in {"none", "suspended"}
      BY <3>1 DEF Takes, Saves, Claims
    <3>3. r \notin Driven
      BY <3>1, <3>2 DEF Takes, Claims, Driven, Drives, Uncontended
    <3>4. Driven' = Driven \cup {r}
      BY <2>0, <3>2 DEF Driven, Drives
    <3>5. Lifecycle!Claim(r)
      BY <3>2, <3>3, <3>4 DEF Lifecycle!Claim, Driven
    <3> QED BY <3>5, <1>a
  <2>4. CASE SaveEnds(t)
    <3>0. PICK r \in RunId : r = rid[t] BY <2>0
    <3>1. /\ pc[t] = "save" /\ r \in Driven /\ Fits(copy[t], after[t])
          /\ store' = [store EXCEPT ![r] = copy[t]]
          /\ GoesOn(t) \/ (after[t] \in {"suspended", "final", "raise"} /\ GoesIdle(t))
      <4>1. ~Refuses(t)
        BY DEF Refuses, Savable
      <4>2. pc[t] = "save" /\ Fits(copy[t], after[t])
        BY <2>4, SaveForms DEF IInv, TaskOK
      <4> QED BY <2>4, <3>0, <4>1, <4>2, SaveCases DEF Writes, Driven, Drives
    <3>2. Statuses' = [Statuses EXCEPT ![r] = copy[t].status]
      BY <2>0, <3>1 DEF Statuses
    <3>3. CASE GoesOn(t)
      <4>0. \E p \in PC \ {"idle"} : pc' = [pc EXCEPT ![t] = p] /\ UNCHANGED rid
        BY <3>3 DEF GoesOn, Saves, PC
      <4>1. copy[t].status = "running" BY <3>1, <3>3 DEF GoesOn, Fits
      <4>2. Driven' = Driven BY <2>0, <3>0, <3>1, <4>0 DEF Driven, Drives
      <4>3. Lifecycle!Advance(r)
        BY <3>1, <3>2, <4>1, <4>2 DEF Lifecycle!Advance, Statuses, Driven
      <4> QED BY <3>1, <4>3, <1>a
    <3>4. CASE after[t] \in {"suspended", "final", "raise"} /\ GoesIdle(t)
      <4>1. copy[t].status \in {"suspended", "completed", "failed", "rejected"}
        BY <3>1, <3>4 DEF Fits, Terminal, Unexpired
      <4>2. \A u \in Task \ {t} : pc[u] # "idle" => rid[u] # r
        BY <3>0, <3>1 DEF Sole, Own, Drives, Uncontended
      <4>3. Driven' = Driven \ {r}
        BY <2>0, <3>0, <3>1, <3>4, <4>2 DEF Driven, Drives, GoesIdle
      <4>4. Lifecycle!Release(r)
        BY <3>1, <3>2, <4>1, <4>3 DEF Lifecycle!Release, Lifecycle!Ended, Statuses, Driven
      <4> QED BY <3>1, <4>4, <1>a
    <3> QED BY <3>1, <3>3, <3>4
  <2> QED BY <2>1, <2>2, <2>3, <2>4 DEF Form
<1> QED BY <1>1, <1>2

(* With the in-memory store the engine implements RunLifecycle.            *)
THEOREM Implementation == ASSUME ~Durable PROVE Spec => ImplementsLifecycle
<1>1. IInv /\ Sole /\ Uncontended /\ Uncontended' /\ Unexpired /\ [Next]_vars =>
        [Lifecycle!Next]_(Lifecycle!vars)
  BY StepLifecycle
<1>2. Spec => [](IInv /\ Sole /\ Uncontended) BY InMemory
<1> QED BY <1>1, <1>2, InitIInv, StepIInv, InitUnexpired, StepUnexpired, InitLifecycle, PTL
        DEF Spec, ImplementsLifecycle, Lifecycle!Spec

-----------------------------------------------------------------------------
(* At most once.  What a run executed lies before the step it is at.       *)

Unexecuted(r, i) == \A j \in Step : j >= i => effects[r][j] = 0

OnceInv ==
  /\ StepAtMostOnce
  /\ \A t \in Task :
       pc[t] # "idle" /\ rid[t] \notin contended /\ copy[t].status \in {"running", "suspended"} =>
         Unexecuted(rid[t], Where(t))
  /\ \A r \in RunId \ contended :
       /\ store[r].status = "none" => \A i \in Step : effects[r][i] = 0
       /\ store[r].status = "suspended" => Unexecuted(r, store[r].cur)

LEMMA InitOnce == Init => OnceInv
BY AbsentType DEF Init, OnceInv, StepAtMostOnce

LEMMA OnceProposes ==
  ASSUME Forward, IInv, Sole, OnceInv, NEW t \in Task, Proposes(t)
  PROVE  OnceInv'
<1>0. /\ pc \in [Task -> PC] /\ copy \in [Task -> WorkflowRun]
      /\ rid \in [Task -> RunId] /\ store \in [RunId -> WorkflowRun]
      /\ effects \in [RunId -> [Step -> 0 .. 2]]
  BY DEF IInv, TypeOK
<1>1. PICK run \in WorkflowRun, next \in {"checkpoint", "suspended", "final", "raise"} :
        Fits(run, next) /\ Saves(t, run, next)
          /\ (next \in {"checkpoint", "suspended"} => run.cur > Where(t))
  BY DEF Proposes
<1>2. /\ pc[t] \in {"exec", "goto"} /\ UNCHANGED <<store, rid, target, contended>>
      /\ effects' = effects \/ Executes(t, Where(t))
  BY DEF Proposes, Quiet
<1>3. PICK i \in Step : i = Where(t)
  BY <1>2, AtStep
<1>4. PICK q \in RunId : q = rid[t]
  BY <1>0
<1>5. \A r \in RunId \ {q} : effects'[r] = effects[r]
  BY <1>0, <1>2, <1>4 DEF Executes
<1>6. ASSUME q \notin contended
      PROVE  /\ Unexecuted(q, i) /\ store[q].status = "running"
             /\ \A j \in Step : j # i => effects'[q][j] = effects[q][j]
             /\ effects'[q][i] \in {0, 1}
  <2>1. Unexecuted(q, i)
    BY <1>2, <1>3, <1>4, <1>6, AtStep DEF OnceInv
  <2>2. store[q].status = "running"
    BY <1>2, <1>4, <1>6 DEF Sole, Own
  <2>3. effects[q][i] = 0
    BY <2>1, StepTypes DEF Unexecuted
  <2>4. CASE effects' = effects
    BY <2>1, <2>2, <2>3, <2>4
  <2>5. CASE Executes(t, i)
    BY <1>0, <1>4, <2>1, <2>2, <2>3, <2>5 DEF Executes
  <2> QED BY <1>2, <1>3, <2>4, <2>5
<1>7. StepAtMostOnce'
  <2> SUFFICES ASSUME NEW r \in RunId, r \notin contended', NEW j \in Step PROVE effects'[r][j] <= 1
    BY DEF StepAtMostOnce
  <2>1. effects[r][j] <= 1
    BY <1>2 DEF OnceInv, StepAtMostOnce
  <2> QED BY <1>2, <1>5, <1>6, <2>1
<1>8. ASSUME NEW u \in Task, pc'[u] # "idle", rid'[u] \notin contended',
             copy'[u].status \in {"running", "suspended"}
      PROVE  Unexecuted(rid[u], Where(u))'
  <2>1. CASE u = t
    <3>1. Where(u)' = run.cur /\ copy'[u] = run /\ run.cur \in Int
      BY <1>0, <1>1, <2>1 DEF Saves, Where, WorkflowRun
    <3>2. run.cur > i
      BY <1>1, <1>3, <1>8, <3>1 DEF Fits, Terminal
    <3>3. \A j \in Step : j >= run.cur => j # i /\ j >= i
      BY <3>1, <3>2 DEF Step
    <3> QED BY <1>2, <1>4, <1>6, <1>8, <2>1, <3>1, <3>3 DEF Unexecuted
  <2>2. CASE u # t
    <3>1. /\ pc'[u] = pc[u] /\ copy'[u] = copy[u] /\ rid'[u] = rid[u] /\ Where(u)' = Where(u)
      BY <1>0, <1>1, <1>2, <2>2 DEF Saves, Where
    <3>2. rid[u] # q
      BY <1>2, <1>4, <1>8, <2>2, <3>1 DEF Sole, Own, Drives
    <3>3. Unexecuted(rid[u], Where(u))
      BY <1>2, <1>8, <3>1 DEF OnceInv
    <3> QED BY <1>0, <1>5, <3>1, <3>2, <3>3 DEF Unexecuted
  <2> QED BY <2>1, <2>2
<1>9. ASSUME NEW r \in RunId, r \notin contended'
      PROVE  /\ store'[r].status = "none" => \A j \in Step : effects'[r][j] = 0
             /\ store'[r].status = "suspended" => Unexecuted(r, store[r].cur)'
  <2>1. CASE r = q
    BY <1>2, <1>6, <1>9, <2>1
  <2>2. CASE r # q
    BY <1>2, <1>5, <1>9, <2>2 DEF OnceInv, Unexecuted
  <2> QED BY <2>1, <2>2
<1> QED BY <1>7, <1>8, <1>9 DEF OnceInv

LEMMA OnceTakes ==
  ASSUME Forward, IInv, Sole, OnceInv, NEW t \in Task, NEW r \in RunId, Takes(t, r)
  PROVE  OnceInv'
<1>0. /\ pc \in [Task -> PC] /\ copy \in [Task -> WorkflowRun]
      /\ rid \in [Task -> RunId] /\ store \in [RunId -> WorkflowRun]
  BY DEF IInv, TypeOK
<1>1. PICK run \in WorkflowRun, next \in {"start", "final"} :
        /\ Fits(run, next) /\ Saves(t, run, next)
        /\ next = "start" /\ store[r].status = "suspended" => run.cur >= store[r].cur
  BY DEF Takes
<1>2. /\ rid' = [rid EXCEPT ![t] = r] /\ UNCHANGED <<store, target, effects>>
      /\ store[r].status \in {"none", "suspended"} /\ contended \subseteq contended'
  BY DEF Takes, Claims
<1>3. run.cur \in Int /\ store[r].cur \in Int
  BY <1>0 DEF WorkflowRun
<1>4. r \notin contended /\ run.status \in {"running", "suspended"} => Unexecuted(r, run.cur)
  <2> SUFFICES ASSUME r \notin contended, run.status \in {"running", "suspended"},
                      NEW j \in Step, j >= run.cur
               PROVE  effects[r][j] = 0
    BY DEF Unexecuted
  <2>1. next = "start"
    BY <1>1 DEF Fits, Terminal
  <2>2. CASE store[r].status = "none"
    BY <2>2 DEF OnceInv
  <2>3. CASE store[r].status = "suspended"
    <3>1. j >= store[r].cur
      BY <1>1, <1>3, <2>1, <2>3 DEF Step
    <3> QED BY <2>3, <3>1 DEF OnceInv, Unexecuted
  <2> QED BY <1>2, <2>2, <2>3
<1>5. ASSUME NEW u \in Task, pc'[u] # "idle", rid'[u] \notin contended',
             copy'[u].status \in {"running", "suspended"}
      PROVE  Unexecuted(rid[u], Where(u))'
  <2>1. CASE u = t
    BY <1>0, <1>1, <1>2, <1>4, <1>5, <2>1 DEF Saves, Where, Unexecuted
  <2>2. CASE u # t
    BY <1>0, <1>1, <1>2, <1>5, <2>2 DEF OnceInv, Saves, Where, Unexecuted
  <2> QED BY <2>1, <2>2
<1> QED BY <1>2, <1>5 DEF OnceInv, StepAtMostOnce, Unexecuted

LEMMA OnceJumps ==
  ASSUME Forward, IInv, Sole, OnceInv, NEW t \in Task, NEW g \in Step, SwitchJumps(t, g)
  PROVE  OnceInv'
<1>0. /\ pc \in [Task -> PC] /\ copy \in [Task -> WorkflowRun] /\ rid \in [Task -> RunId]
      /\ target \in [Task -> None .. N]
  BY DEF IInv, TypeOK
<1>2. PICK i \in Step : i = Current(t) /\ i = Where(t) /\ g \in Wf[i].goto
  BY AtStep DEF SwitchJumps
<1>3. \A j \in Step : j >= g => j >= i
  BY <1>2 DEF Forward, Step
<1>4. UNCHANGED <<store, rid, effects, contended>> /\ Where(t)' = g
      /\ \A u \in Task \ {t} : pc'[u] = pc[u] /\ copy'[u] = copy[u] /\ Where(u)' = Where(u)
  BY <1>0 DEF SwitchJumps, Where, history
<1>5. ASSUME NEW u \in Task, pc'[u] # "idle", rid'[u] \notin contended',
             copy'[u].status \in {"running", "suspended"}
      PROVE  Unexecuted(rid[u], Where(u))'
  <2>1. CASE u = t
    <3>1. Unexecuted(rid[t], i)
      BY <1>2, <1>4, <1>5, <2>1, AtStep DEF OnceInv, SwitchJumps
    <3> QED BY <1>3, <1>4, <2>1, <3>1 DEF Unexecuted
  <2>2. CASE u # t
    BY <1>4, <1>5, <2>2 DEF OnceInv, Unexecuted
  <2> QED BY <2>1, <2>2
<1> QED BY <1>4, <1>5 DEF OnceInv, StepAtMostOnce, Unexecuted

LEMMA OnceSave ==
  ASSUME IInv, Sole, OnceInv, NEW t \in Task, SaveEnds(t)
  PROVE  OnceInv'
<1>0. /\ pc \in [Task -> PC] /\ copy \in [Task -> WorkflowRun] /\ rid \in [Task -> RunId]
      /\ target \in [Task -> None .. N] /\ after \in [Task -> After]
  BY DEF IInv, TypeOK
<1>1. /\ pc[t] = "save" /\ UNCHANGED <<contended, effects>> /\ (Writes(t) \/ Refuses(t))
      /\ GoesOnToStep(t) \/ EndsRun(t) \/ GoesIdle(t)
  BY SaveForms
<1>2. \A r \in RunId : store'[r] = store[r] \/ (r = rid[t] /\ store'[r] = copy[t])
  BY <1>1, WrittenRows
<1>3. \A u \in Task \ {t} : pc'[u] = pc[u] /\ copy'[u] = copy[u] /\ rid'[u] = rid[u]
                            /\ target'[u] = target[u]
  BY <1>0, <1>1 DEF GoesOnToStep, EndsRun, GoesIdle, Saves
<1>4. pc'[t] # "idle" /\ rid'[t] \notin contended' /\ copy'[t].status \in {"running", "suspended"} =>
        Unexecuted(rid[t], Where(t))'
  <2>1. CASE GoesOnToStep(t)
    BY <1>0, <1>1, <2>1 DEF GoesOnToStep, OnceInv, Where, Unexecuted
  <2>2. CASE EndsRun(t)
    BY <1>0, <2>2 DEF EndsRun, Saves, Finished, WorkflowRun
  <2>3. CASE GoesIdle(t)
    BY <1>0, <2>3 DEF GoesIdle
  <2> QED BY <1>1, <2>1, <2>2, <2>3
<1>5. ASSUME NEW u \in Task, pc'[u] # "idle", rid'[u] \notin contended',
             copy'[u].status \in {"running", "suspended"}
      PROVE  Unexecuted(rid[u], Where(u))'
  <2>1. CASE u = t
    BY <1>4, <1>5, <2>1
  <2>2. CASE u # t
    BY <1>1, <1>3, <1>5, <2>2 DEF OnceInv, Unexecuted, Where
  <2> QED BY <2>1, <2>2
<1>6. ASSUME NEW r \in RunId, r \notin contended'
      PROVE  /\ store'[r].status = "none" => \A j \in Step : effects'[r][j] = 0
             /\ store'[r].status = "suspended" => Unexecuted(r, store[r].cur)'
  <2>1. CASE store'[r] = store[r]
    BY <1>1, <1>6, <2>1 DEF OnceInv, Unexecuted
  <2>2. CASE r = rid[t] /\ store'[r] = copy[t]
    <3>1. copy[t].status # "none"
      BY <1>0, <1>1 DEF IInv, TaskOK, After, Fits, Terminal
    <3>2. copy[t].status = "suspended" => Unexecuted(r, copy[t].cur)
      BY <1>1, <1>6, <2>2 DEF OnceInv, Where
    <3> QED BY <1>1, <2>2, <3>1, <3>2 DEF Unexecuted
  <2> QED BY <1>2, <2>1, <2>2
<1>7. StepAtMostOnce'
  BY <1>1 DEF OnceInv, StepAtMostOnce
<1> QED BY <1>5, <1>6, <1>7 DEF OnceInv

LEMMA StepOnce == ASSUME Forward PROVE IInv /\ Sole /\ OnceInv /\ [Next]_vars => OnceInv'
<1> SUFFICES ASSUME IInv, Sole, OnceInv, [Next]_vars PROVE OnceInv' OBVIOUS
<1>1. CASE UNCHANGED vars
  BY <1>1 DEF vars, history, OnceInv, StepAtMostOnce, Unexecuted, Where
<1>2. CASE Next
  <2>1. PICK t \in Task : Form(t) BY <1>2, NextForms
  <2> QED BY <2>1, OnceProposes, OnceTakes, OnceJumps, OnceSave DEF Form, Jumps
<1> QED BY <1>1, <1>2

(* No step of a workflow whose jumps go forward is executed twice, with    *)
(* every store and however many calls overlap, in a run that no two        *)
(* operations worked on at once.                                           *)
THEOREM Once == ASSUME Forward PROVE Spec => []StepAtMostOnce
<1>1. OnceInv => StepAtMostOnce BY DEF OnceInv
<1>2. IInv /\ Sole /\ OnceInv /\ [Next]_vars => OnceInv' BY StepOnce
<1> QED BY <1>1, <1>2, InitIInv, StepIInv, InitSole, StepSole, InitOnce, PTL DEF Spec

-----------------------------------------------------------------------------
(* Crashes, restarts and sweeps.  A sweep lists whole rows and writes them *)
(* back with another status, so it keeps what holds of every row.          *)

\* At most one task boots a process, and a process that is down sweeps nothing.
SweepInv ==
  \A t \in Task :
    /\ \A e \in todo[t] : RowOK(e.run) /\ e.run.status \in {"running", "suspended"}
    /\ sweep[t] = "no" => todo[t] = {}
    /\ mode[Home[t]] \in {"down", "off"} => sweep[t] = "no"
    /\ InMode(t, "boot") =>
         \A u \in Task : Home[u] = Home[t] /\ sweep[t] # "no" /\ sweep[u] # "no" => u = t

RInv == RecoveryTypeOK /\ IInv /\ SweepInv

\* A sweep that writes back a listed run.
Marks(t, e) ==
  \/ Overwrites(t, "orphans", e, "failed")
  \/ Overwrites(t, "expired", e, "expired")

\* What a step does to the runs and their calls.
LEMMA RecoveryForms ==
  ASSUME RecoveryTypeOK, [RecoveryNext]_allvars
  PROVE  \/ [Next]_vars
         \/ \E t \in Task : \E e \in todo[t] : Marks(t, e)
         \/ \E t \in Task : SweepAborts(t)
         \/ \E p \in Proc : Crash(p)
         \/ \E r \in RunId : TimePasses(r)
<1>1. ASSUME UNCHANGED allvars PROVE UNCHANGED vars
  BY <1>1 DEF allvars
<1>2. ASSUME NEW t \in Task, Boot(t) \/ StartOrphanSweep(t) \/ StartExpirySweep(t) \/ SweepEnds(t)
      PROVE  UNCHANGED vars
  BY <1>2 DEF Boot, StartOrphanSweep, StartExpirySweep, SweepEnds
<1>4. ASSUME NEW t \in Task, NEW e \in todo[t], MarkOrphanFailed(t, e) \/ ExpireWait(t, e)
      PROVE  Marks(t, e)
  BY <1>4 DEF MarkOrphanFailed, ExpireWait, Marks
<1>5. ASSUME NEW t \in Task, NEW e \in todo[t], ExpireApproval(t, e) PROVE Next
  <2>1. e.id \in RunId
    BY DEF RecoveryTypeOK, Listed
  <2> QED BY <1>5, <2>1 DEF ExpireApproval, Next, Call
<1>6. ASSUME NEW p \in Proc, Register(p) PROVE UNCHANGED vars
  BY <1>6 DEF Register
<1>7. ASSUME NEW t \in Task, Works(t) \/ Serve(t) PROVE Next
  BY <1>7 DEF Works, Serve, Next
<1>8. CASE RecoveryNext
  BY <1>2, <1>4, <1>5, <1>6, <1>7, <1>8 DEF RecoveryNext, SweepStep
<1> QED BY <1>1, <1>8

LEMMA InitRInv == RecoveryInit => RInv
<1>1. RecoveryInit => RecoveryTypeOK
  <2> SUFFICES ASSUME RecoveryInit PROVE RecoveryTypeOK OBVIOUS
  <2>1. TypeOK
    BY InitIInv DEF RecoveryInit, IInv
  <2> QED BY <2>1, RecoveryAssumption DEF RecoveryInit, RecoveryTypeOK
<1>2. RecoveryInit => IInv
  BY InitIInv DEF RecoveryInit
<1>3. RecoveryInit => SweepInv
  BY DEF RecoveryInit, SweepInv
<1> QED BY <1>1, <1>2, <1>3 DEF RInv

LEMMA MarkedRow ==
  ASSUME RInv, NEW t \in Task, NEW e \in todo[t], NEW s \in {"failed", "expired"}
  PROVE  LET run == [e.run EXCEPT !.status = s] IN
         run \in WorkflowRun /\ run.status = s /\ RowOK(run)
<1> DEFINE run == [e.run EXCEPT !.status = s]
<1>1. e.run \in WorkflowRun
  BY DEF RInv, RecoveryTypeOK, Listed
<1>2. run \in WorkflowRun /\ run.status = s
  BY <1>1 DEF WorkflowRun, Status, Terminal
<1> HIDE DEF run
<1>3. RowOK(run)
  BY <1>2 DEF RowOK
<1> QED BY <1>2, <1>3 DEF run

LEMMA RecoveryIInv ==
  ASSUME RInv, [RecoveryNext]_allvars
  PROVE  IInv'
<1>0. IInv /\ RecoveryTypeOK
  BY DEF RInv
<1>1. CASE [Next]_vars
  BY <1>0, <1>1, StepIInv
<1>2. CASE \E t \in Task : \E e \in todo[t] : Marks(t, e)
  <2>0. PICK t \in Task : \E e \in todo[t] : Marks(t, e)
    BY <1>2
  <2>1. PICK e \in todo[t] : Marks(t, e)
    BY <2>0
  <2>2. PICK s \in {"failed", "expired"} :
          /\ Saves(t, [e.run EXCEPT !.status = s], "final")
          /\ rid' = [rid EXCEPT ![t] = e.id]
          /\ UNCHANGED <<store, target, refusals, effects, rejected, lost>>
          /\ contended' \in {contended, contended \cup {e.id}}
    BY <2>1 DEF Marks, Overwrites
  <2> DEFINE run == [e.run EXCEPT !.status = s]
  <2>3. run \in WorkflowRun /\ run.status = s /\ RowOK(run)
    BY <2>1, <2>2, MarkedRow
  <2>4. Saves(t, run, "final")
    BY <2>2
  <2> HIDE DEF run
  <2>5. Fits(run, "final") /\ "final" \in After
    BY <2>3 DEF Fits, Terminal, After
  <2>6. rid' \in [Task -> RunId] /\ Books'
    BY <1>0, <2>2 DEF RecoveryTypeOK, Listed, TypeOK, Books
  <2> QED BY <1>0, <2>2, <2>3, <2>4, <2>5, <2>6, SavesIInv DEF IInv, TypeOK
<1>3. CASE \E p \in Proc : Crash(p)
  <2>1. PICK p \in Proc : Crash(p)
    BY <1>3
  <2>2. AnyRun \in RunId /\ None \in None .. N
    BY WorkflowAssumption DEF AnyRun, None
  <2>3. /\ store' \in [RunId -> WorkflowRun] /\ Books'
        /\ \A r \in RunId : RowOK(store'[r])
    <3>1. CASE Durable
      BY <1>0, <2>1, <3>1 DEF Crash, IInv, TypeOK, history, Books
    <3>2. CASE ~Durable
      BY <1>0, <2>1, <3>2, AbsentType DEF Crash, IInv, TypeOK, Books
    <3> QED BY <3>1, <3>2
  <2>4. TypeOK'
    BY <1>0, <2>1, <2>2, <2>3, AbsentType DEF Crash, IInv, TypeOK, PC, After, Books
  <2>5. ASSUME NEW t \in Task PROVE TaskOK(t)'
    <3>1. \/ pc'[t] = "idle" /\ copy'[t] = Absent
          \/ pc'[t] = pc[t] /\ copy'[t] = copy[t] /\ after'[t] = after[t] /\ target'[t] = target[t]
      BY <2>1 DEF Crash
    <3>2. RowOK(copy[t]) /\ RowOK(Absent)
      BY <1>0, AbsentType DEF IInv, TaskOK
    <3> QED BY <1>0, <3>1, <3>2 DEF IInv, TaskOK, RowOK, Fits
  <2> QED BY <2>3, <2>4, <2>5 DEF IInv, RowOK
<1>4. CASE \E r \in RunId : TimePasses(r)
  <2>1. PICK r \in RunId : TimePasses(r)
    BY <1>4
  <2> DEFINE run == [store[r] EXCEPT !.updated = "stale",
                                     !.expires = IF @ = "armed" THEN "due" ELSE @]
  <2>2. store[r] \in WorkflowRun /\ RowOK(store[r])
    BY <1>0 DEF IInv, TypeOK
  <2>3. store' = [store EXCEPT ![r] = run]
    BY <1>0, <2>1 DEF TimePasses, IInv, TypeOK, WorkflowRun
  <2>4. /\ run \in WorkflowRun /\ run.status = store[r].status /\ run.cur = store[r].cur
        /\ run.pending = store[r].pending
    BY <2>2 DEF WorkflowRun
  <2> HIDE DEF run
  <2>5. RowOK(run)
    BY <2>2, <2>4 DEF RowOK
  <2>6. store' \in [RunId -> WorkflowRun] /\ \A q \in RunId : RowOK(store'[q])
    BY <1>0, <2>3, <2>4, <2>5 DEF IInv, TypeOK
  <2>7. UNCHANGED <<pc, rid, copy, after, target, refusals, history>>
    BY <2>1 DEF TimePasses
  <2>8. TypeOK'
    BY <1>0, <2>6, <2>7 DEF IInv, TypeOK, history
  <2>9. \A t \in Task : TaskOK(t)'
    BY <1>0, <2>7 DEF IInv, TaskOK, RowOK, Fits
  <2> QED BY <2>6, <2>8, <2>9 DEF IInv, RowOK
<1>5. CASE \E t \in Task : SweepAborts(t)
  <2>1. refusals' \in 0 .. MaxRefusals /\ UNCHANGED <<store, pc, rid, copy, after, target, history>>
    BY <1>0, <1>5, WorkflowAssumption DEF SweepAborts, IInv, TypeOK
  <2> QED BY <1>0, <2>1 DEF IInv, TypeOK, TaskOK, RowOK, Fits, history
<1> QED BY <1>0, <1>1, <1>2, <1>3, <1>4, <1>5, RecoveryForms

\* What a sweep lists: the rows as they are.
LEMMA ListTypes ==
  ASSUME TypeOK
  PROVE  /\ List(IsRunning) = {[id |-> r, run |-> store[r]] :
                                 r \in {q \in RunId : store[q].status = "running"}}
         /\ List(IsOrphan) \subseteq List(IsRunning)
         /\ \A e \in List(IsRunning) : e \in Listed /\ e.run = store[e.id] /\ e.run.status = "running"
         /\ \A e \in List(IsExpired) : e \in Listed /\ e.run = store[e.id] /\ e.run.status = "suspended"
         /\ \A e, f \in List(IsExpired) : e.id = f.id => e = f
BY DEF List, IsRunning, IsOrphan, IsExpired, Listed, TypeOK

LEMMA RecoveryTypes ==
  ASSUME RInv, [RecoveryNext]_allvars
  PROVE  RecoveryTypeOK'
<1>0. TypeOK /\ RecoveryTypeOK
  BY DEF RInv, RecoveryTypeOK
<1>1. TypeOK'
  BY RecoveryIInv DEF IInv
<1>2. \A L \in {List(IsRunning), List(IsOrphan), List(IsExpired), {}} : L \in SUBSET Listed
  BY <1>0, ListTypes
<1>3. ASSUME NEW t \in Task, NEW L \in SUBSET Listed, NEW k \in {"no", "orphans", "expired"},
             Sweeps(t, k, L)
      PROVE  sweep' \in [Task -> {"no", "orphans", "expired"}] /\ todo' \in [Task -> SUBSET Listed]
  BY <1>0, <1>3 DEF RecoveryTypeOK, Sweeps
<1>4. ASSUME NEW t \in Task, NEW e, todo' = [todo EXCEPT ![t] = @ \ {e}]
      PROVE  todo' \in [Task -> SUBSET Listed]
  BY <1>0, <1>4 DEF RecoveryTypeOK
<1>5. CASE UNCHANGED rvars
  BY <1>0, <1>1, <1>5 DEF RecoveryTypeOK, rvars
<1>6. ASSUME NEW t \in Task, Boot(t) PROVE RecoveryTypeOK'
  BY <1>0, <1>1, <1>2, <1>3, <1>6 DEF RecoveryTypeOK, Boot
<1>7. ASSUME NEW t \in Task, StartOrphanSweep(t) PROVE RecoveryTypeOK'
  BY <1>0, <1>1, <1>2, <1>3, <1>7 DEF RecoveryTypeOK, StartOrphanSweep
<1>8. ASSUME NEW t \in Task, StartExpirySweep(t) PROVE RecoveryTypeOK'
  BY <1>0, <1>1, <1>2, <1>3, <1>8 DEF RecoveryTypeOK, StartExpirySweep
<1>9. ASSUME NEW t \in Task, SweepEnds(t) PROVE RecoveryTypeOK'
  BY <1>0, <1>1, <1>2, <1>3, <1>9 DEF RecoveryTypeOK, SweepEnds
<1>10. ASSUME NEW t \in Task, NEW e \in todo[t],
              MarkOrphanFailed(t, e) \/ ExpireWait(t, e) \/ ExpireApproval(t, e)
       PROVE  RecoveryTypeOK'
  BY <1>0, <1>1, <1>4, <1>10 DEF RecoveryTypeOK, MarkOrphanFailed, ExpireWait, ExpireApproval, Overwrites
<1>11. ASSUME NEW t \in Task, Abandons(t) PROVE RecoveryTypeOK'
  BY <1>0, <1>1, <1>2, <1>3, <1>11 DEF RecoveryTypeOK, Abandons
<1>11a. ASSUME NEW t \in Task, SweepAborts(t) \/ Works(t) PROVE RecoveryTypeOK'
  BY <1>5, <1>11, <1>11a DEF SweepAborts, Works
<1>12. ASSUME NEW p \in Proc, Crash(p) PROVE RecoveryTypeOK'
  <2>1. crashes' \in 0 .. MaxCrashes
    BY <1>0, <1>12, RecoveryAssumption DEF RecoveryTypeOK, Crash
  <2> QED BY <1>0, <1>1, <1>12, <2>1, RecoveryAssumption DEF RecoveryTypeOK, Crash
<1>13. ASSUME NEW p \in Proc, Register(p) PROVE RecoveryTypeOK'
  BY <1>0, <1>1, <1>13 DEF RecoveryTypeOK, Register
<1>14. ASSUME NEW r \in RunId, TimePasses(r) PROVE RecoveryTypeOK'
  BY <1>5, <1>14 DEF TimePasses
<1>15. CASE UNCHANGED allvars
  BY <1>5, <1>15 DEF allvars
<1>16. CASE RecoveryNext
  BY <1>5, <1>6, <1>7, <1>8, <1>9, <1>10, <1>11a, <1>12, <1>13, <1>14, <1>16
     DEF RecoveryNext, SweepStep
<1> QED BY <1>15, <1>16

LEMMA RecoverySweeps ==
  ASSUME RInv, [RecoveryNext]_allvars
  PROVE  SweepInv'
<1>0. TypeOK /\ RecoveryTypeOK /\ IInv /\ SweepInv
  BY DEF RInv, RecoveryTypeOK
<1>1. \A L \in {List(IsRunning), List(IsOrphan), List(IsExpired), {}} :
        \A e \in L : RowOK(e.run) /\ e.run.status \in {"running", "suspended"}
  BY <1>0, ListTypes DEF IInv, Listed
\* A task that starts a sweep, or ends one.
<1>2. ASSUME NEW t \in Task, NEW L, NEW k \in {"orphans", "expired"}, Sweeps(t, k, L),
             NEW m \in {"boot", "up"}, mode' = [mode EXCEPT ![Home[t]] = m],
             \A e \in L : RowOK(e.run) /\ e.run.status \in {"running", "suspended"},
             m = "boot" => \A u \in Task \ {t} : Home[u] = Home[t] => sweep[u] = "no"
      PROVE  SweepInv'
  <2> SUFFICES ASSUME NEW u \in Task
               PROVE  /\ \A e \in todo'[u] : RowOK(e.run) /\ e.run.status \in {"running", "suspended"}
                      /\ sweep'[u] = "no" => todo'[u] = {}
                      /\ mode'[Home[u]] \in {"down", "off"} => sweep'[u] = "no"
                      /\ mode'[Home[u]] = "boot" =>
                           \A v \in Task : Home[v] = Home[u] /\ sweep'[u] # "no" /\ sweep'[v] # "no" => v = u
    BY DEF SweepInv, InMode, RowOK
  <2>1. /\ todo'[u] = IF u = t THEN L ELSE todo[u]
        /\ \A v \in Task : sweep'[v] = IF v = t THEN k ELSE sweep[v]
    BY <1>0, <1>2 DEF Sweeps, RecoveryTypeOK
  <2>2. mode'[Home[u]] = IF Home[u] = Home[t] THEN m ELSE mode[Home[u]]
    BY <1>0, <1>2, RecoveryAssumption DEF RecoveryTypeOK
  <2> QED BY <1>0, <1>2, <2>1, <2>2 DEF SweepInv, InMode
<1>2a. ASSUME NEW t \in Task, Sweeps(t, "no", {}),
              NEW m \in {"off", "up"}, mode' = [mode EXCEPT ![Home[t]] = m],
              m = "off" => \A u \in Task \ {t} : Home[u] = Home[t] => sweep[u] = "no"
       PROVE  SweepInv'
  <2> SUFFICES ASSUME NEW u \in Task
               PROVE  /\ \A e \in todo'[u] : RowOK(e.run) /\ e.run.status \in {"running", "suspended"}
                      /\ sweep'[u] = "no" => todo'[u] = {}
                      /\ mode'[Home[u]] \in {"down", "off"} => sweep'[u] = "no"
                      /\ mode'[Home[u]] = "boot" =>
                           \A v \in Task : Home[v] = Home[u] /\ sweep'[u] # "no" /\ sweep'[v] # "no" => v = u
    BY DEF SweepInv, InMode, RowOK
  <2>1. /\ todo'[u] = IF u = t THEN {} ELSE todo[u]
        /\ \A v \in Task : sweep'[v] = IF v = t THEN "no" ELSE sweep[v]
    BY <1>0, <1>2a DEF Sweeps, RecoveryTypeOK
  <2>2. mode'[Home[u]] = IF Home[u] = Home[t] THEN m ELSE mode[Home[u]]
    BY <1>0, <1>2a, RecoveryAssumption DEF RecoveryTypeOK
  <2> QED BY <1>0, <1>2a, <2>1, <2>2 DEF SweepInv, InMode
\* A task that handles a listed run.
<1>3. ASSUME NEW t \in Task, NEW e, todo' = [todo EXCEPT ![t] = @ \ {e}], UNCHANGED <<mode, sweep>>
      PROVE  SweepInv'
  <2>1. \A u \in Task : todo'[u] \subseteq todo[u]
    BY <1>0, <1>3 DEF RecoveryTypeOK
  <2> QED BY <1>0, <1>3, <2>1 DEF SweepInv, InMode, RowOK
<1>4. CASE UNCHANGED <<mode, sweep, todo>>
  BY <1>0, <1>4 DEF SweepInv, InMode, RowOK
<1>5. \A t \in Task, m \in {"down", "boot", "up", "off"} : InMode(t, m) => mode = [mode EXCEPT ![Home[t]] = m]
  BY <1>0, RecoveryAssumption DEF InMode, RecoveryTypeOK
<1>6. ASSUME NEW t \in Task, Boot(t) PROVE SweepInv'
  <2>1. \A u \in Task : Home[u] = Home[t] => sweep[u] = "no"
    BY <1>0, <1>6 DEF Boot, SweepInv
  <2> QED BY <1>1, <1>2, <1>6, <2>1 DEF Boot
<1>7. ASSUME NEW t \in Task, StartOrphanSweep(t) PROVE SweepInv'
  BY <1>1, <1>2, <1>5, <1>7 DEF StartOrphanSweep
<1>8. ASSUME NEW t \in Task, StartExpirySweep(t) PROVE SweepInv'
  BY <1>1, <1>2, <1>5, <1>8 DEF StartExpirySweep
<1>9. ASSUME NEW t \in Task, sweep[t] # "no", InMode(t, "boot")
      PROVE  \A u \in Task \ {t} : Home[u] = Home[t] => sweep[u] = "no"
  BY <1>0, <1>9 DEF SweepInv
<1>10. ASSUME NEW t \in Task, SweepEnds(t) PROVE SweepInv'
  <2>1. CASE InMode(t, "boot") /\ Sweeps(t, "expired", List(IsExpired)) /\ UNCHANGED mode
    BY <1>1, <1>2, <1>5, <1>9, <1>10, <2>1 DEF SweepEnds
  <2>2. CASE Sweeps(t, "no", {}) /\ mode' = [mode EXCEPT ![Home[t]] = "up"]
    BY <1>2a, <2>2
  <2> QED BY <1>10, <2>1, <2>2 DEF SweepEnds
<1>11. ASSUME NEW t \in Task, NEW e \in todo[t],
              MarkOrphanFailed(t, e) \/ ExpireWait(t, e) \/ ExpireApproval(t, e)
       PROVE  SweepInv'
  BY <1>3, <1>11 DEF MarkOrphanFailed, ExpireWait, ExpireApproval, Overwrites
<1>12. ASSUME NEW t \in Task, sweep[t] # "no", Abandons(t) PROVE SweepInv'
  <2>1. PICK m \in {"down", "boot", "up", "off"} : InMode(t, m)
    BY <1>0, RecoveryAssumption DEF InMode, RecoveryTypeOK
  <2>2. m \notin {"down", "off"}
    BY <1>0, <1>12, <2>1 DEF InMode, SweepInv
  <2>5. Sweeps(t, "no", {})
    BY <1>12 DEF Abandons
  <2>3. CASE m = "boot"
    <3>1. mode' = [mode EXCEPT ![Home[t]] = "off"]
      BY <1>0, <1>12, <2>1, <2>3, RecoveryAssumption DEF Abandons, InMode, RecoveryTypeOK
    <3> QED BY <1>2a, <1>9, <1>12, <2>1, <2>3, <2>5, <3>1
  <2>4. CASE m = "up"
    <3>1. mode' = [mode EXCEPT ![Home[t]] = "up"]
      BY <1>0, <1>12, <2>1, <2>4, RecoveryAssumption DEF Abandons, InMode, RecoveryTypeOK
    <3> QED BY <1>2a, <2>5, <3>1
  <2> QED BY <2>2, <2>3, <2>4
<1>12a. ASSUME NEW t \in Task, SweepAborts(t) \/ Works(t) PROVE SweepInv'
  BY <1>4, <1>12, <1>12a DEF SweepAborts, Works, rvars
<1>13. ASSUME NEW p \in Proc, Crash(p) PROVE SweepInv'
  <2>1. ASSUME NEW v \in Task
        PROVE  /\ todo'[v] = {} \/ todo'[v] = todo[v]
               /\ Home[v] = p => todo'[v] = {} /\ sweep'[v] = "no"
               /\ Home[v] # p => todo'[v] = todo[v] /\ sweep'[v] = sweep[v]
    BY <1>13 DEF Crash
  <2>2. ASSUME NEW v \in Task PROVE mode'[Home[v]] = IF Home[v] = p THEN "down" ELSE mode[Home[v]]
    BY <1>0, <1>13, RecoveryAssumption DEF Crash, RecoveryTypeOK
  <2>3. ASSUME NEW u \in Task
        PROVE  /\ \A e \in todo'[u] : RowOK(e.run) /\ e.run.status \in {"running", "suspended"}
               /\ sweep'[u] = "no" => todo'[u] = {}
               /\ mode'[Home[u]] \in {"down", "off"} => sweep'[u] = "no"
    BY <1>0, <2>1, <2>2 DEF SweepInv, InMode
  <2>4. ASSUME NEW u \in Task, mode'[Home[u]] = "boot", NEW v \in Task, Home[v] = Home[u],
               sweep'[u] # "no", sweep'[v] # "no"
        PROVE  v = u
    BY <1>0, <2>1, <2>2, <2>4 DEF SweepInv, InMode
  <2> QED BY <2>3, <2>4 DEF SweepInv, InMode, RowOK
<1>14. ASSUME NEW p \in Proc, Register(p) PROVE SweepInv'
  BY <1>4, <1>14 DEF Register
<1>15. ASSUME NEW r \in RunId, TimePasses(r) PROVE SweepInv'
  BY <1>4, <1>15 DEF TimePasses, rvars
<1>16. CASE UNCHANGED allvars \/ UNCHANGED rvars
  BY <1>4, <1>16 DEF allvars, rvars
<1>17. CASE RecoveryNext
  BY <1>6, <1>7, <1>8, <1>10, <1>11, <1>12a, <1>13, <1>14, <1>15, <1>16, <1>17
     DEF RecoveryNext, SweepStep
<1> QED BY <1>16, <1>17

LEMMA StepRInv == RInv /\ [RecoveryNext]_allvars => RInv'
BY RecoveryTypes, RecoveryIInv, RecoverySweeps DEF RInv

(* Every state of processes that crash, restart and sweep is well typed.   *)
THEOREM RecoveryTyped == RecoverySpec => []RecoveryTypeOK
<1>1. RInv => RecoveryTypeOK BY DEF RInv
<1> QED BY <1>1, InitRInv, StepRInv, PTL DEF RecoverySpec

(* The approval queue stays exact through crashes, restarts and sweeps.    *)
THEOREM QueueSurvives == RecoverySpec => []ApprovalQueueExact
<1>1. RInv => ApprovalQueueExact BY RowsExact DEF RInv
<1> QED BY <1>1, InitRInv, StepRInv, PTL DEF RecoverySpec

-----------------------------------------------------------------------------
(* No run a crash cut short is left running: somebody drives it, a process *)
(* does not serve, or a boot has it on the list of orphans.                *)

\* A boot that has run r on its list.
Orphaned(r) ==
  \E t \in Task : InMode(t, "boot") /\ sweep[t] = "orphans" /\ \E e \in todo[t] : e.id = r

Accounted ==
  (\E p \in Proc : mode[p] \in {"down", "off"}) \/ \A r \in RunId : RunTended(r) \/ Orphaned(r)

LEMMA InitAccounted == RecoveryInit => Accounted
BY AbsentType DEF RecoveryInit, Init, Accounted, RunTended

\* A run that is tended stays so until its process crashes.
LEMMA StaysTended ==
  ASSUME RInv, [RecoveryNext]_allvars, NEW r \in RunId, RunTended(r), \A p \in Proc : ~Crash(p)
  PROVE  RunTended(r)'
<1>0. IInv /\ RecoveryTypeOK /\ TypeOK
  BY DEF RInv, RecoveryTypeOK
<1> SUFFICES ASSUME r \notin lost', store'[r].status = "running"
             PROVE  \E t \in Task : Tends(t, r)'
  BY DEF RunTended
<1>1. CASE [Next]_vars
  BY <1>0, <1>1, StepTends
<1>2. CASE \E t \in Task : \E e \in todo[t] : Marks(t, e)
  <2>1. PICK t \in Task : \E e \in todo[t] : Marks(t, e)
    BY <1>2
  <2>2. PICK e \in todo[t] : Marks(t, e)
    BY <2>1
  <2>3. /\ pc[t] = "idle" /\ pc' = [pc EXCEPT ![t] = "save"] /\ after' = [after EXCEPT ![t] = "final"]
        /\ rid' = [rid EXCEPT ![t] = e.id] /\ UNCHANGED <<store, lost>>
    BY <2>2 DEF Marks, Overwrites, Saves
  <2> QED BY <1>0, <2>3 DEF RunTended, Tends, Drives, TypeOK
<1>3. CASE \E q \in RunId : TimePasses(q)
  <2>1. PICK q \in RunId : TimePasses(q)
    BY <1>3
  <2> QED BY <1>0, <2>1 DEF TimePasses, RunTended, Tends, Drives, TypeOK, WorkflowRun, history
<1>4. CASE \E t \in Task : SweepAborts(t)
  BY <1>4 DEF SweepAborts, RunTended, Tends, Drives, history
<1> QED BY <1>0, <1>1, <1>2, <1>3, <1>4, RecoveryForms

LEMMA StepAccounted ==
  ASSUME RInv, Accounted, [RecoveryNext]_allvars
  PROVE  Accounted'
<1>0. IInv /\ RecoveryTypeOK /\ TypeOK /\ SweepInv
  BY DEF RInv, RecoveryTypeOK
<1> SUFFICES ASSUME \A p \in Proc : mode'[p] \notin {"down", "off"},
                    NEW r \in RunId, ~RunTended(r)'
             PROVE  Orphaned(r)'
  BY DEF Accounted
<1>1. \A p \in Proc : ~Crash(p)
  BY <1>0 DEF Crash, RecoveryTypeOK
<1>2. ~RunTended(r)
  BY <1>1, StaysTended
\* Unless the step is a boot, somebody had the run on a list.
<1>3. ASSUME mode' = mode PROVE Orphaned(r)
  BY <1>2, <1>3 DEF Accounted
<1>4. CASE UNCHANGED rvars
  BY <1>3, <1>4 DEF rvars, Orphaned, InMode
<1>5. ASSUME NEW t \in Task, Boot(t) PROVE Orphaned(r)'
  <2>1. [id |-> r, run |-> store[r]] \in List(IsRunning)
    BY <1>0, <1>2, ListTypes DEF RunTended
  <2>2. sweep'[t] = "orphans" /\ todo'[t] = List(IsRunning) /\ mode'[Home[t]] = "boot"
    BY <1>0, <1>5, RecoveryAssumption DEF Boot, Sweeps, RecoveryTypeOK
  <2> QED BY <2>1, <2>2 DEF Orphaned, InMode
\* A task whose list changes did not have it on one.
<1>6. ASSUME Orphaned(r), NEW t \in Task,
             ~(InMode(t, "boot") /\ sweep[t] = "orphans" /\ \E e \in todo[t] : e.id = r),
             \A u \in Task \ {t} : sweep'[u] = sweep[u] /\ todo'[u] = todo[u],
             \A u \in Task \ {t} : sweep[u] # "no" => mode'[Home[u]] = mode[Home[u]]
      PROVE  Orphaned(r)'
  BY <1>6 DEF Orphaned, InMode
<1>7. ASSUME NEW t \in Task, StartOrphanSweep(t) \/ StartExpirySweep(t) PROVE Orphaned(r)'
  <2>1. \A u \in Task \ {t} : sweep'[u] = sweep[u] /\ todo'[u] = todo[u]
    BY <1>0, <1>7 DEF StartOrphanSweep, StartExpirySweep, Sweeps, RecoveryTypeOK
  <2>2. mode' = mode /\ sweep[t] = "no"
    BY <1>7 DEF StartOrphanSweep, StartExpirySweep
  <2> QED BY <1>3, <1>6, <2>1, <2>2
<1>8. ASSUME NEW t \in Task, SweepEnds(t) PROVE Orphaned(r)'
  <2>1. \A u \in Task \ {t} : sweep'[u] = sweep[u] /\ todo'[u] = todo[u]
    BY <1>0, <1>8 DEF SweepEnds, Sweeps, RecoveryTypeOK
  <2>2. todo[t] = {} /\ sweep[t] # "no"
    BY <1>8 DEF SweepEnds
  <2>3. \A p \in Proc : mode[p] \notin {"down", "off"}
    BY <1>0, <1>8, <2>2, RecoveryAssumption DEF SweepEnds, SweepInv, InMode, RecoveryTypeOK
  <2>4. Orphaned(r)
    BY <1>2, <2>3 DEF Accounted
  <2>5. ASSUME NEW u \in Task \ {t}, sweep[u] # "no", InMode(u, "boot") PROVE Home[u] # Home[t]
    BY <1>0, <2>2, <2>5 DEF SweepInv, InMode
  <2>6. PICK u \in Task \ {t} : InMode(u, "boot") /\ sweep[u] = "orphans" /\ \E e \in todo[u] : e.id = r
    BY <2>2, <2>4 DEF Orphaned
  <2>7. mode'[Home[u]] = mode[Home[u]]
    BY <1>0, <1>8, <2>5, <2>6, RecoveryAssumption DEF SweepEnds, RecoveryTypeOK
  <2> QED BY <2>1, <2>6, <2>7 DEF Orphaned, InMode
<1>9. ASSUME NEW t \in Task, NEW e \in todo[t], MarkOrphanFailed(t, e) \/ ExpireWait(t, e)
      PROVE  Orphaned(r)'
  <2>1. Tends(t, e.id)'
    BY <1>0, <1>9 DEF MarkOrphanFailed, ExpireWait, Overwrites, Saves, Tends, Drives, TypeOK
  <2>2. /\ e.id # r /\ mode' = mode /\ sweep' = sweep
        /\ todo' = [todo EXCEPT ![t] = @ \ {e}]
    BY <1>9, <2>1 DEF MarkOrphanFailed, ExpireWait, Overwrites, RunTended
  <2>3. \A u \in Task : \A f \in todo[u] : f.id = r => f \in todo'[u]
    BY <1>0, <2>2 DEF RecoveryTypeOK
  <2> QED BY <1>3, <2>2, <2>3 DEF Orphaned, InMode
<1>10. ASSUME NEW t \in Task, NEW e \in todo[t], ExpireApproval(t, e) PROVE Orphaned(r)'
  <2>1. sweep[t] = "expired" /\ mode' = mode /\ sweep' = sweep
        /\ \A u \in Task \ {t} : todo'[u] = todo[u]
    BY <1>0, <1>10 DEF ExpireApproval, RecoveryTypeOK
  <2> QED BY <1>3, <1>6, <2>1
<1>11. ASSUME NEW t \in Task, Abandons(t), sweep[t] # "no" PROVE Orphaned(r)'
  <2>1. \A u \in Task \ {t} : sweep'[u] = sweep[u] /\ todo'[u] = todo[u]
    BY <1>0, <1>11 DEF Abandons, Sweeps, RecoveryTypeOK
  <2>2. mode' = mode /\ ~InMode(t, "boot")
    BY <1>0, <1>11, RecoveryAssumption DEF Abandons, RecoveryTypeOK, InMode
  <2> QED BY <1>3, <1>6, <2>1, <2>2
<1>11a. ASSUME NEW t \in Task, SweepAborts(t) \/ Works(t) PROVE Orphaned(r)'
  BY <1>4, <1>11, <1>11a DEF SweepAborts, Works
<1>12. ASSUME NEW p \in Proc, Register(p) PROVE Orphaned(r)'
  BY <1>3, <1>12 DEF Register, Orphaned, InMode
<1>13. ASSUME NEW q \in RunId, TimePasses(q) PROVE Orphaned(r)'
  BY <1>4, <1>13 DEF TimePasses
<1>14. CASE UNCHANGED allvars
  BY <1>4, <1>14 DEF allvars
<1>15. CASE RecoveryNext
  BY <1>1, <1>4, <1>5, <1>7, <1>8, <1>9, <1>10, <1>11a, <1>12, <1>13, <1>15
     DEF RecoveryNext, SweepStep
<1> QED BY <1>14, <1>15

(* A run that shows as running while every process serves is driven by a   *)
(* call, or is one whose last save was refused: whatever crashed before,   *)
(* bootstrap has failed the rest.                                          *)
THEOREM CrashesAccounted == RecoverySpec => []CrashedRunsFailed
<1>1. RInv /\ Accounted => CrashedRunsFailed
  <2> SUFFICES ASSUME RInv, Accounted, AllUp, NEW r \in RunId \ lost, store[r].status = "running"
               PROVE  \E t \in Task : Drives(t, r)
    BY DEF CrashedRunsFailed, NoStrandedRun
  <2>1. \A t \in Task : ~InMode(t, "boot")
    BY RecoveryAssumption DEF AllUp, InMode
  <2> QED BY <2>1, RecoveryAssumption DEF Accounted, AllUp, Orphaned, RunTended, Tends
<1>2. RInv /\ Accounted /\ [RecoveryNext]_allvars => Accounted'
  BY StepAccounted
<1> QED BY <1>1, <1>2, InitRInv, StepRInv, InitAccounted, PTL DEF RecoverySpec

-----------------------------------------------------------------------------
(* Sweeps beside calls.  A sweep that writes back a row which moved on     *)
(* since it was listed, or which somebody works on, leaves the run to the  *)
(* contended ones; the others keep one driver at a time.                   *)

\* The store may be lost with every task that used it, and with nothing else.
LEMMA CrashEnds ==
  ASSUME NEW p \in Proc, Crash(p)
  PROVE  /\ \A t \in Task : pc'[t] = "idle"
              \/ (pc'[t] = pc[t] /\ rid'[t] = rid[t] /\ copy'[t] = copy[t] /\ after'[t] = after[t]
                  /\ target'[t] = target[t])
         /\ \/ UNCHANGED <<store, history>>
            \/ /\ \A t \in Task : pc'[t] = "idle"
               /\ \A r \in RunId : store'[r].status = "none" /\ \A i \in Step : effects'[r][i] = 0
               /\ rejected' = {}
<1>1. Durable \/ \A t \in Task : Home[t] = p
  BY RecoveryAssumption
<1> QED BY <1>1, AbsentType DEF Crash

LEMMA RecoverySole == RInv /\ Sole /\ [RecoveryNext]_allvars => Sole'
<1> SUFFICES ASSUME RInv, Sole, [RecoveryNext]_allvars PROVE Sole' OBVIOUS
<1>0. IInv /\ TypeOK /\ RecoveryTypeOK /\ SweepInv
  BY DEF RInv, RecoveryTypeOK
<1>1. CASE [Next]_vars
  BY <1>0, <1>1, StepSole
<1>2. CASE \E t \in Task : \E e \in todo[t] : Marks(t, e)
  <2>0. PICK t \in Task : \E e \in todo[t] : Marks(t, e)
    BY <1>2
  <2>1. PICK e \in todo[t] : Marks(t, e)
    BY <2>0
  <2>2. PICK r \in RunId : r = e.id
    BY <1>0 DEF RecoveryTypeOK, Listed
  <2>3. /\ pc[t] = "idle" /\ pc' = [pc EXCEPT ![t] = "save"] /\ after' = [after EXCEPT ![t] = "final"]
        /\ rid' = [rid EXCEPT ![t] = r] /\ UNCHANGED <<store, rejected>>
        /\ contended' = IF Moved(e) \/ \E u \in Task \ {t} : Drives(u, r)
                        THEN contended \cup {r} ELSE contended
    BY <2>1, <2>2 DEF Marks, Overwrites, Saves
  <2>4. r \notin contended' =>
          /\ \A u \in Task \ {t} : ~Drives(u, r)
          /\ store[r].status \in {"running", "suspended"}
    <3>1. e.run.status \in {"running", "suspended"}
      BY <1>0 DEF SweepInv
    <3>2. ~Moved(e) => store[r].status = e.run.status
      BY <2>2 DEF Moved
    <3> QED BY <2>3, <3>1, <3>2
  <2>5. ASSUME NEW u \in Task, pc'[u] # "idle", rid'[u] \notin contended' PROVE Own(u)'
    <3>1. CASE u = t
      BY <1>0, <2>3, <2>4, <2>5, <3>1 DEF Own, Drives, TypeOK
    <3>2. CASE u # t
      <4>1. rid'[u] = rid[u] /\ pc'[u] = pc[u] /\ after'[u] = after[u] /\ Own(u)
        BY <1>0, <2>3, <2>5, <3>2 DEF Sole, TypeOK
      <4>2. rid[u] # r
        BY <2>4, <2>5, <3>2, <4>1 DEF Drives
      <4> QED BY <1>0, <2>3, <4>1, <4>2 DEF Own, Drives, TypeOK
    <3> QED BY <3>1, <3>2
  <2>6. ASSUME NEW q \in rejected' \ contended' PROVE Stopped(q)'
    <3>1. Stopped(q)
      BY <2>3, <2>6 DEF Sole, RejectionStops
    <3>2. q # r
      BY <2>4, <2>6, <3>1 DEF Stopped
    <3> QED BY <1>0, <2>3, <3>1, <3>2 DEF Stopped, Drives, TypeOK
  <2> QED BY <2>5, <2>6 DEF Sole, RejectionStops
<1>3. CASE \E p \in Proc : Crash(p)
  <2>1. PICK p \in Proc : Crash(p)
    BY <1>3
  <2> QED BY <2>1, CrashEnds DEF Sole, Own, Drives, RejectionStops, Stopped, history
<1>4. CASE \E r \in RunId : TimePasses(r)
  <2>1. PICK r \in RunId : TimePasses(r)
    BY <1>4
  <2>2. \A q \in RunId : store'[q].status = store[q].status
    BY <1>0, <2>1 DEF TimePasses, TypeOK, WorkflowRun
  <2> QED BY <1>0, <2>1, <2>2 DEF TimePasses, Sole, Own, Drives, RejectionStops, Stopped, history, TypeOK
<1>5. CASE \E t \in Task : SweepAborts(t)
  BY <1>5 DEF SweepAborts, Sole, Own, Drives, RejectionStops, Stopped, history
<1> QED BY <1>0, <1>1, <1>2, <1>3, <1>4, <1>5, RecoveryForms

(* An acknowledged rejection survives crashes, restarts and sweeps: unless *)
(* another operation was at work on the run beside one that decided it, no *)
(* sweep and no restart revives it.                                        *)
THEOREM RejectionSurvives == RecoverySpec => []RejectionStops
<1>1. RecoveryInit => Sole
  BY InitSole DEF RecoveryInit
<1>2. Sole => RejectionStops BY DEF Sole
<1> QED BY <1>1, <1>2, InitRInv, StepRInv, RecoverySole, PTL DEF RecoverySpec

LEMMA RecoveryOnce == ASSUME Forward PROVE RInv /\ Sole /\ OnceInv /\ [RecoveryNext]_allvars => OnceInv'
<1> SUFFICES ASSUME RInv, Sole, OnceInv, [RecoveryNext]_allvars PROVE OnceInv' OBVIOUS
<1>0. IInv /\ TypeOK /\ RecoveryTypeOK
  BY DEF RInv, RecoveryTypeOK
<1>1. CASE [Next]_vars
  BY <1>0, <1>1, StepOnce
<1>2. CASE \E t \in Task : \E e \in todo[t] : Marks(t, e)
  <2>1. PICK t \in Task : \E e \in todo[t] : Marks(t, e)
    BY <1>2
  <2>2. PICK e \in todo[t], s \in {"failed", "expired"} :
          /\ Saves(t, [e.run EXCEPT !.status = s], "final")
          /\ rid' = [rid EXCEPT ![t] = e.id] /\ UNCHANGED <<store, target, effects>>
          /\ contended \subseteq contended'
    BY <2>1 DEF Marks, Overwrites
  <2>3. copy'[t].status \in {"failed", "expired"}
    <3>1. [e.run EXCEPT !.status = s].status = s
      BY <1>0 DEF RecoveryTypeOK, Listed, WorkflowRun
    <3> QED BY <1>0, <2>2, <3>1 DEF Saves, TypeOK
  <2>4. ASSUME NEW u \in Task, pc'[u] # "idle", rid'[u] \notin contended',
               copy'[u].status \in {"running", "suspended"}
        PROVE  Unexecuted(rid[u], Where(u))'
    BY <1>0, <2>2, <2>3, <2>4 DEF TypeOK, OnceInv, Saves, Where, Unexecuted
  <2> QED BY <2>2, <2>4 DEF OnceInv, StepAtMostOnce, Unexecuted
<1>3. CASE \E p \in Proc : Crash(p)
  <2>1. PICK p \in Proc : Crash(p)
    BY <1>3
  <2>2. CASE UNCHANGED <<store, history>>
    BY <2>1, <2>2, CrashEnds DEF OnceInv, StepAtMostOnce, Unexecuted, Where, history
  <2>3. CASE /\ \A t \in Task : pc'[t] = "idle"
             /\ \A r \in RunId : store'[r].status = "none" /\ \A i \in Step : effects'[r][i] = 0
    BY <2>3 DEF OnceInv, StepAtMostOnce
  <2> QED BY <2>1, <2>2, <2>3, CrashEnds
<1>4. CASE \E r \in RunId : TimePasses(r)
  <2>1. PICK r \in RunId : TimePasses(r)
    BY <1>4
  <2>2. \A q \in RunId : store'[q].status = store[q].status /\ store'[q].cur = store[q].cur
    BY <1>0, <2>1 DEF TimePasses, TypeOK, WorkflowRun
  <2> QED BY <1>0, <2>1, <2>2 DEF TimePasses, OnceInv, StepAtMostOnce, Unexecuted, Where, history
<1>5. CASE \E t \in Task : SweepAborts(t)
  BY <1>5 DEF SweepAborts, OnceInv, StepAtMostOnce, Unexecuted, Where, history
<1> QED BY <1>0, <1>1, <1>2, <1>3, <1>4, <1>5, RecoveryForms

(* No step of a workflow whose jumps go forward is executed twice, however *)
(* many crashes, restarts and sweeps come between its checkpoints, unless  *)
(* two operations worked on the run at once.                               *)
THEOREM OnceAcrossCrashes == ASSUME Forward PROVE RecoverySpec => []StepAtMostOnce
<1>1. RecoveryInit => Sole /\ OnceInv
  BY InitSole, InitOnce DEF RecoveryInit
<1>2. OnceInv => StepAtMostOnce BY DEF OnceInv
<1>3. RInv /\ Sole /\ OnceInv /\ [RecoveryNext]_allvars => OnceInv'
  BY RecoveryOnce
<1> QED BY <1>1, <1>2, <1>3, InitRInv, StepRInv, RecoverySole, PTL DEF RecoverySpec
====
