------------------------- MODULE MCConfirmationGate -------------------------
(* Gated calls and runs are interchangeable: only safety is checked here.  *)
EXTENDS ConfirmationGate, TLC

MCSymmetry == Permutations(Run) \cup Permutations(Call)
=============================================================================
