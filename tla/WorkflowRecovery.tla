-------------------------- MODULE WorkflowRecovery --------------------------
(***************************************************************************)
(* Processes that share a run store and crash, restart and sweep it.       *)
(*                                                                         *)
(* bootstrap() marks every running run failed, then expires the waits and  *)
(* approvals whose deadline passed; a sweep that raises fails the          *)
(* bootstrap, and main.py leaves the process without an engine ("off")     *)
(* until somebody restarts it.                                             *)
(* With Periodic the two sweeps are also called while the process serves,  *)
(* the second use mark_orphaned_failed documents.                          *)
(***************************************************************************)
EXTENDS WorkflowEngine

CONSTANTS
  Proc,       \* processes over one store
  Home,       \* the process each task belongs to
  MaxCrashes, \* bound on the crashes of a behaviour
  Dynamic,    \* TRUE: the workflow is registered by POST /register, not on disk
  Periodic    \* TRUE: the sweeps are also called by a serving process

ASSUME RecoveryAssumption ==
  /\ Home \in [Task -> Proc]
  /\ Durable \/ \A p, q \in Proc : p = q  \* a store in memory has one process
  /\ MaxCrashes \in Nat
  /\ Dynamic \in BOOLEAN /\ Periodic \in BOOLEAN

VARIABLES
  mode,    \* per process: down, in bootstrap, serving, or without an engine
  known,   \* per process: its _workflows has the workflow
  sweep,   \* per task: the sweep it runs
  todo,    \* per task: the listed runs the sweep has not handled, as listed
  crashes  \* crashes so far

rvars == <<mode, known, sweep, todo, crashes>>
allvars == <<vars, rvars>>

Listed == [id : RunId, run : WorkflowRun]

RecoveryTypeOK ==
  /\ TypeOK
  /\ mode  \in [Proc -> {"down", "boot", "up", "off"}]
  /\ known \in [Proc -> BOOLEAN]
  /\ sweep \in [Task -> {"no", "orphans", "expired"}]
  /\ todo  \in [Task -> SUBSET Listed]
  /\ crashes \in 0 .. MaxCrashes

RecoveryInit ==
  /\ Init
  /\ mode  = [p \in Proc |-> "up"]
  /\ known = [p \in Proc |-> TRUE]
  /\ sweep = [t \in Task |-> "no"]
  /\ todo  = [t \in Task |-> {}]
  /\ crashes = 0

InMode(t, m) == mode[Home[t]] = m

\* store.list_by_status(status), filtered.
List(Wanted(_)) == {[id |-> r, run |-> store[r]] : r \in {q \in RunId : Wanted(store[q])}}

IsOrphan(run)  == run.status = "running" /\ run.updated # "fresh"
IsRunning(run) == run.status = "running"

\* Fault: every run past its deadline, whatever its status.
IsOverdue(run) == run.expires = "due"

IsExpired(run) == run.status = "suspended" /\ run.expires = "due"

Sweeps(t, kind, runs) ==
  /\ sweep' = [sweep EXCEPT ![t] = kind]
  /\ todo'  = [todo EXCEPT ![t] = runs]

-----------------------------------------------------------------------------
(* Processes.                                                              *)

\* Tasks die with their process; an in-memory store dies with it too.
Crash(p) ==
  /\ mode[p] # "down" /\ crashes < MaxCrashes
  /\ crashes' = crashes + 1
  /\ mode' = [mode EXCEPT ![p] = "down"]
  /\ known' = [known EXCEPT ![p] = ~Dynamic]
  /\ LET dead(t) == Home[t] = p IN
     /\ pc'     = [t \in Task |-> IF dead(t) THEN "idle" ELSE pc[t]]
     /\ rid'    = [t \in Task |-> IF dead(t) THEN AnyRun ELSE rid[t]]
     /\ copy'   = [t \in Task |-> IF dead(t) THEN Absent ELSE copy[t]]
     /\ after'  = [t \in Task |-> IF dead(t) THEN "start" ELSE after[t]]
     /\ target' = [t \in Task |-> IF dead(t) THEN None ELSE target[t]]
     /\ sweep'  = [t \in Task |-> IF dead(t) THEN "no" ELSE sweep[t]]
     /\ todo'   = [t \in Task |-> IF dead(t) THEN {} ELSE todo[t]]
  /\ IF Durable
     THEN UNCHANGED <<store, history>>
     ELSE /\ store'   = [r \in RunId |-> Absent]
          /\ effects' = [r \in RunId |-> [i \in Step |-> 0]]
          /\ contended' = {} /\ rejected' = {} /\ lost' = {}
  /\ UNCHANGED refusals

\* The process is started; one without an engine is restarted.
Boot(t) ==
  /\ mode[Home[t]] \in {"down", "off"}
  /\ Turn(t)
  /\ mode' = [mode EXCEPT ![Home[t]] = "boot"]
  /\ Sweeps(t, "orphans", List(IsRunning))
  /\ UNCHANGED <<vars, known, crashes>>

Register(p) ==
  /\ mode[p] = "up" /\ ~known[p]
  /\ known' = [known EXCEPT ![p] = TRUE]
  /\ UNCHANGED <<vars, mode, sweep, todo, crashes>>

-----------------------------------------------------------------------------
(* The sweeps.  A task that sweeps has pc "idle" between two store calls.  *)

StartOrphanSweep(t) ==
  /\ Periodic /\ InMode(t, "up") /\ sweep[t] = "no" /\ pc[t] = "idle" /\ Turn(t)
  /\ Sweeps(t, "orphans", List(IsOrphan))
  /\ UNCHANGED <<vars, mode, known, crashes>>

StartExpirySweep(t) ==
  /\ Periodic /\ InMode(t, "up") /\ sweep[t] = "no" /\ pc[t] = "idle" /\ Turn(t)
  /\ Sweeps(t, "expired", List(IsExpired))
  /\ UNCHANGED <<vars, mode, known, crashes>>

\* The row moved on since the sweep listed it.
Moved(entry) ==
  \E field \in {"status", "cur", "pending", "ctx"} : store[entry.id][field] # entry.run[field]

\* The listed run is written back with its new status, whatever the store
\* says of it by now.
Overwrites(t, kind, entry, status) ==
  /\ pc[t] = "idle" /\ sweep[t] = kind /\ entry \in todo[t] /\ Turn(t)
  /\ rid' = [rid EXCEPT ![t] = entry.id]
  /\ contended' = IF Moved(entry) \/ \E u \in Task \ {t} : Drives(u, entry.id)
                  THEN contended \cup {entry.id} ELSE contended
  /\ Saves(t, [entry.run EXCEPT !.status = status], "final")
  /\ todo' = [todo EXCEPT ![t] = @ \ {entry}]
  /\ UNCHANGED <<store, target, refusals, effects, rejected, lost, mode, known, sweep, crashes>>

\* Fault: the run may be resumed where the crash left it.
MarkOrphanSuspended(t, entry) == Overwrites(t, "orphans", entry, "suspended")

MarkOrphanFailed(t, entry) == Overwrites(t, "orphans", entry, "failed")

ExpireWait(t, entry) ==
  entry.run.pending = None /\ Overwrites(t, "expired", entry, "expired")

\* reject() loads the run again.
ExpireApproval(t, entry) ==
  /\ sweep[t] = "expired" /\ entry \in todo[t] /\ entry.run.pending # None
  /\ known[Home[t]]
  /\ Reject(t, entry.id)
  /\ todo' = [todo EXCEPT ![t] = @ \ {entry}]
  /\ UNCHANGED <<mode, known, sweep, crashes>>

\* A sweep that raises is abandoned, and so is the bootstrap it is part of.
Abandons(t) ==
  /\ Sweeps(t, "no", {})
  /\ mode' = [mode EXCEPT ![Home[t]] = IF @ = "boot" THEN "off" ELSE @]
  /\ UNCHANGED <<known, crashes>>

\* reject() raises when the approval was decided meanwhile or its workflow is
\* unknown, and any call of the store when the database does.
SweepAborts(t) ==
  /\ pc[t] = "idle" /\ sweep[t] # "no" /\ Turn(t)
  /\ \/ /\ \E entry \in todo[t] :
             /\ sweep[t] = "expired" /\ entry.run.pending # None
             /\ (~AwaitsApproval(store[entry.id]) \/ ~known[Home[t]])
        /\ UNCHANGED refusals
     \/ Durable /\ refusals < MaxRefusals /\ refusals' = refusals + 1
  /\ Abandons(t)
  /\ UNCHANGED <<store, pc, rid, copy, after, target, history>>

\* A task at work; what a sweep's reject() or save raises ends the sweep.
Works(t) ==
  /\ Drive(t)
  /\ IF sweep[t] # "no" /\ Raises(t) THEN Abandons(t) ELSE UNCHANGED rvars

SweepEnds(t) ==
  /\ pc[t] = "idle" /\ sweep[t] # "no" /\ todo[t] = {} /\ Turn(t)
  /\ IF InMode(t, "boot") /\ sweep[t] = "orphans"
     THEN Sweeps(t, "expired", List(IsExpired)) /\ UNCHANGED mode
     ELSE /\ Sweeps(t, "no", {})
          /\ mode' = [mode EXCEPT ![Home[t]] = "up"]
  /\ UNCHANGED <<vars, known, crashes>>

SweepStep(t) ==
  \/ SweepEnds(t) \/ SweepAborts(t)
  \/ \E entry \in todo[t] :
       MarkOrphanFailed(t, entry) \/ ExpireWait(t, entry)
         \/ ExpireApproval(t, entry)

\* A deadline passes, or the last update of a run gets old: of one that is
\* suspended, or at a long step.
TimePasses(r) ==
  /\ store[r].status \in {"running", "suspended"}
  /\ store' = [store EXCEPT ![r].updated = "stale",
                            ![r].expires = IF @ = "armed" THEN "due" ELSE @]
  /\ UNCHANGED <<pc, rid, copy, after, target, refusals, history, rvars>>

-----------------------------------------------------------------------------

Serve(t) == InMode(t, "up") /\ known[Home[t]] /\ sweep[t] = "no" /\ Call(t)

RecoveryNext ==
  \/ \E t \in Task : \/ Works(t) \/ (Serve(t) /\ UNCHANGED rvars)
                     \/ Boot(t) \/ SweepStep(t)
                     \/ StartOrphanSweep(t) \/ StartExpirySweep(t)
  \/ \E p \in Proc : Crash(p) \/ Register(p)
  \/ \E r \in RunId : TimePasses(r)

\* Tasks keep running, and somebody starts a process that is down, or serves
\* without an engine, again.
RecoveryFairness ==
  \A t \in Task : /\ WF_allvars(Works(t))
                  /\ WF_allvars(SweepStep(t))
                  /\ WF_allvars(Boot(t))

RecoverySpec == RecoveryInit /\ [][RecoveryNext]_allvars /\ RecoveryFairness

-----------------------------------------------------------------------------

AllUp == \A p \in Proc : mode[p] = "up"

(* Once every process serves, no run a crash cut short is left running: it *)
(* is driven by a call, or bootstrap marked it failed, or the store        *)
(* refused the last save of a call since.                                  *)
CrashedRunsFailed == AllUp => NoStrandedRun

\* An approval past its deadline whose workflow the process does not know:
\* reject() raises, and every bootstrap with it.
Barred(p) ==
  ~known[p] /\ \E r \in RunId : AwaitsApproval(store[r]) /\ IsExpired(store[r])

(* Restarts bring the engine back, whatever a crash, a refused save or a   *)
(* sweep that raised has left, unless the process is barred.               *)
BootSucceeds == \A p \in Proc : []<>(mode[p] = "up" \/ Barred(p))
=============================================================================
