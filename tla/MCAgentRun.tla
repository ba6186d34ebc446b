----------------------------- MODULE MCAgentRun -----------------------------
(* A run with up to three sub-agents, side by side or one below the other. *)
EXTENDS AgentRun

Is(pattern, limit) == [pattern |-> pattern, limit |-> limit]
None == Is("none", 0)

MCTeams ==
  {<<Is("loop", 2), Is("loop", 2), Is("loop", 0), None>>,
   <<Is("swarm", 0), Is("loop", 0), Is("swarm", 0), Is("loop", 0)>>,
   <<Is("fanout", 2), Is("loop", 0), Is("loop", 0), None>>,
   <<Is("swarm", 1), Is("wave", 1), Is("loop", 1), None>>,
   <<Is("loop", 1), Is("map", 1), None, None>>,
   <<Is("map", 1), Is("loop", 1), None, None>>}
=============================================================================
