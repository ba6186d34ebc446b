----------------------------- MODULE AgentChain -----------------------------
(***************************************************************************)
(* Agent chains: `spec.chain` compiled into a workflow (src/astromesh/     *)
(* chain), the workflow driven step by step (workflow/executor.py and      *)
(* WorkflowEngine._drive) and the report of the run (api/routes/agents.py).*)
(*                                                                         *)
(* A template is kept as what it refers to: `output.` (the agent before),  *)
(* `steps.<name>.output.` (an earlier step), or only the trigger.  Step    *)
(* names are tuples: <<a>> is the step of the agent itself, <<p, a>> the   *)
(* step `p__a`.  Which agents answer and which guards hold is free.        *)
(***************************************************************************)
EXTENDS Integers, SequencesExt

CONSTANTS
  Agent,
  Root,       \* the agent that was called
  Absent,     \* no such agent
  NoChain,    \* an agent without spec.chain
  Fanout,     \* the second part of the name of a fan-out
  Configs,    \* the agent configurations considered: [Agent -> chain]
  Durable     \* the store serialises a run (SQLite, Postgres)

Template == {"none", "trigger", "output", "steps"}
Policy   == {"stop", "continue"} \cup Agent

Link == [agent : Agent, when : Template, input : Template \ {"none"},
         default : BOOLEAN, on_error : Policy]

\* ChainSpec: links is the list on_complete.
IsChain(c) ==
  /\ c.mode \in {"sequential", "parallel"} /\ c.max_depth \in Nat \ {0}
  /\ c.links \in Seq(Link)

ASSUME ChainAssumption ==
  /\ IsFiniteSet(Agent) /\ Root \in Agent
  /\ {"stop", "continue", Fanout} \cap Agent = {}
  /\ Absent # NoChain
  /\ \A cfg \in Configs : \A a \in Agent : cfg[a] \in {Absent, NoChain} \/ IsChain(cfg[a])
  /\ \A cfg \in Configs : cfg[Root] \notin {Absent, NoChain}
  /\ Durable \in BOOLEAN

HasChain(cfg, a) == cfg[a] \notin {Absent, NoChain}

-----------------------------------------------------------------------------
(* Compilation.                                                            *)

\* ChainSpec.from_dict raises otherwise.  (A parallel guard that names a
\* sibling's agent is refused; it is not among the templates.)
Parses(c) ==
  /\ c.links # <<>>
  /\ Cardinality({k \in DOMAIN c.links : c.links[k].default}) <= 1
  /\ \A l \in ToSet(c.links) : l.default => l.when = "none"

\* The paths of _expandir: from Root along links, no agent twice.
Paths(cfg) ==
  {p \in UNION {[1 .. n -> Agent] : n \in 1 .. Cardinality(Agent)} :
     /\ p[1] = Root
     /\ \A j, k \in DOMAIN p : p[j] = p[k] => j = k
     /\ \A k \in 1 .. Len(p) - 1 :
          HasChain(cfg, p[k]) /\ \E l \in ToSet(cfg[p[k]].links) : l.agent = p[k + 1]}

\* The paths whose chain is expanded.
Expansions(cfg) == {p \in Paths(cfg) : HasChain(cfg, Last(p))}

\* _expandir and _validar_destino: a chain too deep, a missing agent, a cycle.
Raises(cfg) ==
  \E p \in Expansions(cfg) :
    \/ Len(p) > cfg[Root].max_depth
    \/ ~Parses(cfg[Last(p)])
    \/ \E l \in ToSet(cfg[Last(p)].links) : cfg[l.agent] = Absent \/ l.agent \in ToSet(p)

Nowhere == <<>>   \* the name of no step

\* Fault: the reference is bound to the agent that was called.
RebindToRoot(expr, padre) ==
  [kind |-> IF expr \in {"output", "steps"} THEN "step" ELSE expr,
   name |-> IF expr = "output" THEN <<Root>> ELSE Nowhere]

\* `output.` becomes `steps.<padre>.output.`, also inside `steps.b.output.`,
\* which then reads `steps.b.steps.<padre>.output.` and names nothing.
Rebind(expr, padre) ==
  [kind |-> IF expr \in {"output", "steps"} THEN "step" ELSE expr,
   name |-> IF expr = "output" THEN <<padre>> ELSE Nowhere]

\* `path` is kept for the properties only.
AStep(l, p) ==
  [name |-> <<Last(p), l.agent>>, path |-> Append(p, l.agent),
   when |-> Rebind(l.when, Last(p)), input |-> Rebind(l.input, Last(p)),
   negates |-> <<>>, on_error |-> l.on_error, branches |-> <<>>]

RootStep ==
  [name |-> <<Root>>, path |-> <<Root>>, when |-> Rebind("none", Root),
   input |-> Rebind("trigger", Root), negates |-> <<>>, on_error |-> "stop", branches |-> <<>>]

FanoutStep(p, subs) ==
  [RootStep EXCEPT !.name = <<Last(p), Fanout>>, !.path = p, !.branches = subs]

\* The elements of a list at the places that are kept.
Kept(q, places) == FlattenSeq([k \in DOMAIN q |-> IF k \in places THEN <<q[k]>> ELSE <<>>])

Normals(c)  == Kept(c.links, {k \in DOMAIN c.links : ~c.links[k].default})
Defaults(c) == Kept(c.links, {k \in DOMAIN c.links : c.links[k].default})
Guarded(c)  == Kept(c.links, {k \in DOMAIN c.links : ~c.links[k].default /\ c.links[k].when # "none"})

\* The names that a default negates, and the step it becomes.
GuardNames(c, p) == [k \in DOMAIN Guarded(c) |-> <<Last(p), Guarded(c)[k].agent>>]

DefaultStep(l, c, p) == [AStep(l, p) EXCEPT !.negates = GuardNames(c, p)]

\* The steps of one chain: its links, and the default on its own behind them.
Level(c, p) ==
  LET subs == [k \in DOMAIN Normals(c) |-> AStep(Normals(c)[k], p)] IN
  (IF c.mode = "parallel" /\ subs # <<>> THEN <<FanoutStep(p, subs)>> ELSE subs)
  \o [k \in DOMAIN Defaults(c) |-> DefaultStep(Defaults(c)[k], c, p)]

\* The links whose own chains come next.
Followed(c) == Normals(c) \o Defaults(c)

Expanded(cfg) ==
  LET steps[p \in Expansions(cfg)] ==
        LET links  == Followed(cfg[Last(p)])
            nested == [k \in DOMAIN links |->
                         IF HasChain(cfg, links[k].agent) THEN steps[Append(p, links[k].agent)] ELSE <<>>]
        IN  Level(cfg[Last(p)], p) \o FlattenSeq(nested)
  IN  steps[<<Root>>]

CompileChain(cfg) == <<RootStep>> \o Expanded(cfg)

\* chain_graph, one path per entry: its agent, via and depth are read off it.
ChainGraph(cfg) == {p \in Paths(cfg) : Len(p) \in 2 .. cfg[Root].max_depth + 1}

-----------------------------------------------------------------------------
(* The run.                                                                *)

VARIABLES
  config,   \* _agent_configs when the chain was compiled
  plan,     \* the steps of the compiled workflow
  index,    \* current_index
  outputs,  \* context["steps"]: for each name, whether there is an output
  guards,   \* context["when"]
  results,  \* step_results: for each name, how the step ended
  status,   \* of the run; "refused": not compiled, "raised": no answer but an error
  history   \* how each place of the plan ended last, and what its guard last came to

chainVars == <<config, plan, index, outputs, guards, results, status, history>>

\* The step at a place that runs an agent: a step, or a branch of a fan-out.
StepAt(x)  == IF x[2] = 0 THEN plan[x[1]] ELSE plan[x[1]].branches[x[2]]
AgentPlaces ==
  {x \in UNION {{k} \X (0 .. Len(plan[k].branches)) : k \in DOMAIN plan} :
     StepAt(x).branches = <<>>}

Unrun == [status |-> "none", matched |-> "unset"]

Result == [status : {"none", "success", "error", "skipped"}, matched : {"unset", "yes", "no"}]

Override(f, g) == [n \in DOMAIN f \cup DOMAIN g |-> IF n \in DOMAIN g THEN g[n] ELSE f[n]]
Empty == [n \in {} |-> 0]

ChainInit ==
  /\ config \in Configs
  /\ plan = IF Raises(config) THEN <<>> ELSE CompileChain(config)
  /\ status = IF Raises(config) THEN "refused" ELSE "running"
  /\ index = 1
  /\ outputs = Empty /\ guards = Empty /\ results = Empty
  /\ history = [x \in AgentPlaces |-> Unrun]

Resolves(ref) == ref.kind = "step" => ref.name \in DOMAIN outputs

\* The guard of a default: no guard of its siblings held.  Jinja stops at the
\* first that did; one that is not there raises.
Negation(names) ==
  LET held(k) == names[k] \in DOMAIN guards /\ guards[names[k]]
      lost(k) == names[k] \notin DOMAIN guards
      first   == {k \in DOMAIN names : (held(k) \/ lost(k)) /\ \A j \in 1 .. k - 1 : ~held(j)}
  IN  IF \A k \in first : held(k) THEN IF first = {} THEN {"yes"} ELSE {"no"} ELSE {"error"}

\* A guard that finds what it reads may raise something other than
\* UndefinedError (a number compared with a text), which execute_step lets out.
GuardRaises(s) == s.negates = <<>> /\ s.when.kind # "none" /\ Resolves(s.when)

\* _eval_condition in the strict environment: what a guard may come to.
Evaluated(s) ==
  IF s.negates # <<>> THEN Negation(s.negates)
  ELSE IF s.when.kind = "none" THEN {"unset"}
  ELSE IF Resolves(s.when) THEN {"yes", "no", "error"} ELSE {"error"}

\* execute_step: how a step may end, after its last retry.  "expired" is
\* AgentRunTimeout, which nothing catches.
Endings(s) ==
  UNION {CASE v = "error" -> {[status |-> "error", matched |-> "no"]}
           [] v = "no"    -> {[status |-> "skipped", matched |-> "no"]}
           [] OTHER       -> {[status |-> e, matched |-> v] :
                                e \in {"error"} \cup IF Resolves(s.input) THEN {"success", "expired"} ELSE {}}
         : v \in Evaluated(s)}

\* A branch of a fan-out: gather keeps what its guard raises, and no
\* condition_matched with it.
BranchEndings(s) ==
  Endings(s) \cup IF GuardRaises(s) THEN {[status |-> "error", matched |-> "unset"]} ELSE {}

\* What the history keeps of a place: how it ended last, and what its guard
\* last came to.
Noted(h, r) == [r EXCEPT !.matched = IF r.matched = "unset" THEN h.matched ELSE r.matched]

\* What the context keeps of a result.
Output(r) == r.status = "success"
Verdict(n, r) == IF r.matched = "unset" THEN Empty ELSE [m \in {n} |-> r.matched = "yes"]

Stops == status' = "failed" /\ index' = index

\* Fault: a step that tolerates its failure is run again.
Repeats ==
  /\ index' = IF plan[index].on_error = "continue" THEN index ELSE index + 1
  /\ status' = IF index' > Len(plan) THEN "completed" ELSE "running"

Advances ==
  /\ index' = index + 1
  /\ status' = IF index = Len(plan) THEN "completed" ELSE "running"

\* A step by itself.  `on_error: <agent>` looks for a step of that name.
ExecuteStep(s, r) ==
  /\ results' = Override(results, [n \in {s.name} |-> r])
  /\ history' = [history EXCEPT ![<<index, 0>>] = Noted(history[<<index, 0>>], r)]
  /\ guards'  = Override(guards, Verdict(s.name, r))
  /\ outputs' = IF r.status = "error" /\ s.on_error = "stop" THEN outputs
                ELSE Override(outputs, [n \in {s.name} |-> Output(r)])
  /\ \/ /\ r.status \in {"success", "skipped"} \/ s.on_error = "continue"
        /\ Advances
     \/ /\ r.status = "error" /\ s.on_error # "continue"
        /\ IF \E k \in DOMAIN plan : plan[k].name = <<s.on_error>>
           THEN /\ index' = CHOOSE k \in DOMAIN plan : plan[k].name = <<s.on_error>>
                /\ status' = status
           ELSE Stops

\* Branches of one name share a slot, which the last one fills.
LastOf(s, set, n) ==
  CHOOSE b \in set : s.branches[b].name = n
                     /\ \A c \in set : s.branches[c].name = n => c <= b

\* Fault: the guards of the branches stay in the output of the fan-out.
MergedNot(s, rs) == Empty

\* The guards of the branches of a fan-out, by their names.
Merged(s, rs) ==
  LET set == {b \in DOMAIN rs : rs[b].matched # "unset"}
  IN  [n \in {s.branches[b].name : b \in set} |-> rs[LastOf(s, set, n)].matched = "yes"]

\* A fan-out: every branch sees the context of before.  Its output holds
\* objects that a durable store cannot serialise.
RunFanout(s, rs) ==
  LET byName == [n \in {s.branches[b].name : b \in DOMAIN rs} |-> rs[LastOf(s, DOMAIN rs, n)]]
  IN  /\ results' = Override(results, byName)
      /\ history' = [x \in DOMAIN history |-> IF x[1] = index THEN Noted(history[x], rs[x[2]]) ELSE history[x]]
      /\ guards'  = Override(guards, Merged(s, rs))
      /\ outputs' = Override(outputs, [n \in DOMAIN byName |-> Output(byName[n])])
      /\ IF \E b \in DOMAIN rs : rs[b].status = "error" /\ s.branches[b].on_error # "continue"
         THEN Stops
         ELSE IF Durable THEN status' = "raised" /\ index' = index
         ELSE Advances

Expires(rs) == \E b \in DOMAIN rs : rs[b].status = "expired"

\* What the guard of a step by itself raises ends the run.
Escapes(s) ==
  /\ s.branches = <<>> /\ GuardRaises(s)
  /\ Stops /\ UNCHANGED <<outputs, guards, results, history>>

\* One turn of the loop of _drive.
Drive ==
  /\ status = "running"
  /\ LET s == plan[index] IN
       \E rs \in IF s.branches = <<>> THEN [{1} -> Endings(s)]
                 ELSE {f \in [DOMAIN s.branches -> UNION {BranchEndings(s.branches[b]) : b \in DOMAIN s.branches}] :
                         \A b \in DOMAIN s.branches : f[b] \in BranchEndings(s.branches[b])} :
         \/ Escapes(s)
         \/ Expires(rs) /\ status' = "raised" /\ UNCHANGED <<index, outputs, guards, results, history>>
         \/ ~Expires(rs) /\ s.branches = <<>> /\ ExecuteStep(s, rs[1])
         \/ ~Expires(rs) /\ s.branches # <<>> /\ RunFanout(s, rs)
  /\ UNCHANGED <<config, plan>>

ChainSpec == ChainInit /\ [][Drive]_chainVars /\ WF_chainVars(Drive)

-----------------------------------------------------------------------------
(* The report.                                                             *)

\* Fault: every link is looked up under the agent that was called.
StepOfRoot(p) == <<Root, Last(p)>>

StepName(p) == <<p[Len(p) - 1], Last(p)>>

\* _construir_chain: the entry of a link, and the status of the chain.
Reported(p) ==
  IF StepName(p) \in DOMAIN results THEN results[StepName(p)].status ELSE "none"

ReportedStatus ==
  IF status = "failed" THEN "failed"
  ELSE IF \E p \in ChainGraph(config) : Reported(p) = "error" THEN "partial"
  ELSE "completed"

-----------------------------------------------------------------------------
(* What a chain promises.                                                  *)

Name == {<<a>> : a \in Agent} \cup (Agent \X Agent)

ChainTypeOK ==
  /\ config \in Configs
  /\ status \in {"refused", "running", "completed", "failed", "raised"}
  /\ status = "running" => index \in DOMAIN plan
  /\ DOMAIN outputs \subseteq Name /\ DOMAIN results \subseteq Name
  /\ \A n \in DOMAIN outputs : outputs[n] \in BOOLEAN
  /\ \A n \in DOMAIN results : results[n] \in Result
  /\ \A n \in DOMAIN guards : n \in DOMAIN results /\ guards[n] \in BOOLEAN
  /\ \A x \in DOMAIN history : history[x] \in Result

\* No step name twice: a diamond (a > b, a > c, b > d, c > d, d > e) has two.
UniqueNames ==
  \A x, y \in AgentPlaces : StepAt(x).name = StepAt(y).name => x = y

(* compiler.py:113-127: the default of a chain runs exactly when every     *)
(* guard of its siblings was evaluated in this run and none held when it   *)
(* last was, in both modes, wherever the chain hangs, also when a sibling  *)
(* failed.  A guard that raises in a fan-out was not evaluated.            *)
DefaultIffNoMatch ==
  [][\A x \in AgentPlaces :
       x[1] = index /\ StepAt(x).negates # <<>> /\ UniqueNames /\ status' # "raised" =>
         (history'[x].matched = "yes" <=>
            \A y \in AgentPlaces :
              Front(StepAt(y).path) = Front(StepAt(x).path) /\ StepAt(y).when.kind # "none"
                => history'[y].matched = "no")]_chainVars

\* What a place read, as its end shows: its guard, and its input if its agent ran.
ReadBy(x) ==
  {ref \in {StepAt(x).when} : history[x].status \in {"success", "skipped"}}
  \cup {ref \in {StepAt(x).input} : history[x].status = "success"}

(* `output` is an answer of this run only for the links of the agent that  *)
(* was called: there it is that agent's own answer.  A link further down   *)
(* that reads `output`, its parent's by the docs (and by default its       *)
(* input), never finds a step of the name _rebind gives it, so its guard   *)
(* decides nothing and its agent never answers, in any run.                *)
ReadsOnlyRoot ==
  \A x \in AgentPlaces : \A ref \in ReadBy(x) : ref.kind = "step" =>
    /\ ref.name = <<Root>> /\ Len(StepAt(x).path) = 2
    /\ ref.name \in DOMAIN outputs /\ outputs[ref.name]

(* The report of a run that ended has one entry for each link that the     *)
(* workflow runs and no other, and tells what happened to it; a chain is   *)
(* "completed" only if every link that ran succeeded, and "partial" only   *)
(* if one failed and the chain went on to its end.                         *)
ReportHonest ==
  status \in {"completed", "failed"} /\ UniqueNames =>
    LET errs == {x \in AgentPlaces : history[x].status = "error"} IN
    /\ {StepAt(x).path : x \in AgentPlaces} = ChainGraph(config) \cup {<<Root>>}
    /\ \A x \in AgentPlaces : Len(StepAt(x).path) > 1 =>
         Reported(StepAt(x).path) = history[x].status
    /\ ReportedStatus = "completed" => errs = {}
    /\ ReportedStatus = "partial" => errs # {} /\ status = "completed"

(* A run ends, however its agents fail, unless a link that fails jumps     *)
(* back to the agent that was called.                                      *)
ChainEnds == (\A x \in AgentPlaces : StepAt(x).on_error # Root) ~> status # "running"

=============================================================================
