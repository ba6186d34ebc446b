--------------------------- MODULE MCRemoteTasks ---------------------------
(* Two sessions in a dict with room for one, and two calls under way.      *)
EXTENDS RemoteTasks, TLC
Same == Permutations(Call) \cup Permutations(Session)
=============================================================================
