--------------------------- MODULE MCModelRouter ---------------------------
(* Three providers; the dearest one is reliable and serves every demand.   *)
EXTENDS ModelRouter

MCPrice   == [p \in Provider |-> p]
MCDemands == {Provider, Provider \ {1}}
=============================================================================
