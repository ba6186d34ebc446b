---------------------------- MODULE MCAgentChain ----------------------------
(* Chains of up to three levels: guarded, plain and default links in both  *)
(* modes, failure policies, a diamond, cycles and missing agents.          *)
EXTENDS AgentChain

CONSTANTS a, b, c, d

L(agent, when, input, onError) ==
  [agent |-> agent, when |-> when, input |-> input, default |-> FALSE, on_error |-> onError]
D(agent) ==
  [agent |-> agent, when |-> "none", input |-> "output", default |-> TRUE, on_error |-> "continue"]
Chain(mode, depth, links) == [mode |-> mode, max_depth |-> depth, links |-> links]

\* The chain of the agent that is called: one or two links to b and c, and a default.
Tops ==
  {Chain(m, n, q) : m \in {"sequential", "parallel"}, n \in {1, 3},
     q \in {<<L(b, t[1], t[2], e)>> \o r :
              t \in {<<"none", "output">>, <<"output", "trigger">>, <<"trigger", "output">>},
              e \in {"stop", "continue", a},
              r \in {<<>>, <<D(c)>>, <<L(c, "trigger", "trigger", "continue")>>,
                     <<L(c, "output", "output", "stop"), D(d)>>}}}

\* The chain of b, if it has one.
Nested ==
  {NoChain, Chain("sequential", 5, <<L(d, "none", "trigger", "stop")>>),
   Chain("parallel", 5, <<L(d, "trigger", "trigger", "continue"), D(c)>>),
   Chain("parallel", 5, <<L(d, "trigger", "trigger", "continue"), [D(c) EXCEPT !.on_error = a]>>),
   Chain("sequential", 5, <<L(d, "output", "trigger", "continue")>>),
   Chain("sequential", 5, <<L(a, "none", "output", "stop")>>)}

MCConfigs ==
  {(a :> t) @@ (b :> n) @@ (c :> x) @@ (d :> NoChain) :
     t \in Tops, n \in Nested,
     x \in {NoChain, Absent, Chain("sequential", 5, <<L(d, "none", "trigger", "continue")>>)}}

=============================================================================
