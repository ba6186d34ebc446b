-------------------------- MODULE MCWorkflowEngine --------------------------
(* A workflow small enough for TLC, with every jump the engine makes.      *)
EXTENDS WorkflowEngine

ACall     == [kind |-> "call", guarded |-> FALSE, onError |-> None, goto |-> {None},
              onReject |-> None, timed |-> FALSE, opaque |-> FALSE]
AnApproval == [ACall EXCEPT !.kind = "approval", !.timed = TRUE]

\* approval (rejected: step 4); a guarded call; a switch; a guarded call;
\* an approval that ends the run when rejected, where the switch may end up
MCReview == <<[AnApproval EXCEPT !.onReject = 4],
              [ACall EXCEPT !.guarded = TRUE, !.onError = 4],
              [ACall EXCEPT !.kind = "switch", !.goto = {None, 4, 5}],
              [ACall EXCEPT !.guarded = TRUE, !.onError = Continue],
              AnApproval>>

=============================================================================
