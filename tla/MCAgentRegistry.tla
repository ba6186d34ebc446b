-------------------------- MODULE MCAgentRegistry --------------------------
(* An agent a with a remote tool and a chain into b, and an agent b that   *)
(* does not build.  An update may put each of them under either name.      *)
EXTENDS AgentRegistry

CONSTANTS a, b

Remote == [name |-> a, builds |-> TRUE, timeout |-> TimeoutMax, next |-> b]
Broken == [name |-> b, builds |-> FALSE, timeout |-> 0, next |-> NoName]

MCConfig == {Remote, Broken}
=============================================================================
