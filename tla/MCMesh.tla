------------------------------- MODULE MCMesh -------------------------------
(* Three nodes; the middle one is the seed of the others and its clock is  *)
(* ahead of theirs.                                                        *)
EXTENDS Mesh

MCSeeds == [i \in Node |-> IF i = 2 THEN {} ELSE {2}]
MCSkew  == [i \in Node |-> IF i = 2 THEN 1 ELSE 0]
=============================================================================
