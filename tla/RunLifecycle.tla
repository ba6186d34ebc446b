---------------------------- MODULE RunLifecycle ----------------------------
(***************************************************************************)
(* What a caller of the workflow engine may rely on: a run is claimed by   *)
(* at most one call at a time, only a new or a suspended run is claimed,   *)
(* and a call lets go of its run suspended or ended, never running.  An    *)
(* ended run is never claimed again.                                       *)
(***************************************************************************)
CONSTANT RunId

VARIABLES
  status,   \* what the store says of each run
  driven    \* the runs some call is working on

vars == <<status, driven>>

Ended == {"completed", "failed", "rejected"}

Init == status = [r \in RunId |-> "none"] /\ driven = {}

Claim(r) ==
  /\ r \notin driven /\ status[r] \in {"none", "suspended"}
  /\ driven' = driven \cup {r}
  /\ UNCHANGED status

Advance(r) ==
  /\ r \in driven
  /\ status' = [status EXCEPT ![r] = "running"]
  /\ UNCHANGED driven

Release(r) ==
  /\ r \in driven
  /\ \E s \in {"suspended"} \cup Ended : status' = [status EXCEPT ![r] = s]
  /\ driven' = driven \ {r}

Next == \E r \in RunId : Claim(r) \/ Advance(r) \/ Release(r)

Spec == Init /\ [][Next]_vars
=============================================================================
