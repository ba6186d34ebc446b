------------------------- MODULE MCWorkflowRecovery -------------------------
(* Small workflows and process layouts for TLC.                            *)
EXTENDS WorkflowRecovery

ACall     == [kind |-> "call", guarded |-> FALSE, onError |-> None, goto |-> {None},
              onReject |-> None, timed |-> FALSE, opaque |-> FALSE]
AnApproval == [ACall EXCEPT !.kind = "approval", !.timed = TRUE]
AWait      == [ACall EXCEPT !.kind = "wait", !.timed = TRUE]

\* a switch past the wait; a wait; an approval that ends the run when
\* rejected; a call whose output may be unfit for the store
MCIntake == <<[ACall EXCEPT !.kind = "switch", !.goto = {None, 3}],
              AWait,
              AnApproval,
              [ACall EXCEPT !.opaque = TRUE, !.onError = Continue]>>

\* an approval that ends the run when rejected, then a call
MCSignOff == <<AnApproval, ACall>>

CONSTANTS p1
MCOneProcess == [t \in Task |-> p1]
=============================================================================
