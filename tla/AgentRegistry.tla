--------------------------- MODULE AgentRegistry ---------------------------
(***************************************************************************)
(* The registry of AgentRuntime (src/astromesh/runtime/engine.py): agents  *)
(* are registered, deployed, paused, updated and removed over the API,     *)
(* reloaded from disk on SIGHUP and loaded again after a restart, while    *)
(* runs under way keep the agent object they started with.                 *)
(*                                                                         *)
(* Every operation is a coroutine without an await, or a plain function:   *)
(* one action each.  A replaced agent may still be inside a remote A2A     *)
(* call, so its client is closed after a delay (_cerrar_reemplazados).     *)
(* Agent objects come from a pool and are named by their place in it.  A   *)
(* config keeps what these operations read: its metadata.name, whether it  *)
(* builds, the longest timeout of its a2a tools (0: it has none), and the  *)
(* agent its chain triggers.  The table of compiled chains is left out: a  *)
(* chain that does not compile stops a load, and Deploy raises after it    *)
(* has done everything else.                                               *)
(***************************************************************************)
EXTENDS Integers, FiniteSets, Functions

CONSTANTS
  Name,       \* of agents
  NoName,
  Config,     \* what a YAML or a request body may hold
  NoConfig,
  Garbled,    \* a file that is not YAML
  Run,        \* concurrent calls of AgentRuntime.run
  Pool,       \* bound on the agent objects alive at once
  TimeoutMax, \* TIMEOUT_TOPE of a2a.py
  PlazoMax,   \* _PLAZO_CIERRE_MAX
  Persist     \* ASTROMESH_PERSIST_AGENTS

ASSUME RegistryAssumption ==
  /\ NoName \notin Name
  /\ Pool \in Nat
  /\ TimeoutMax \in Nat /\ PlazoMax \in Nat /\ TimeoutMax <= PlazoMax
  /\ Config \subseteq [name : Name, builds : BOOLEAN, timeout : 0 .. TimeoutMax,
                      next : Name \cup {NoName}]
  /\ NoConfig \notin Config /\ Garbled \notin Config /\ Garbled # NoConfig
  /\ Persist \in BOOLEAN

Object == 1 .. Pool

None   == 0    \* no agent object
NotDue == -1   \* no close is scheduled
Margin == 1    \* _MARGEN_CIERRE

Agent == [config : Config \cup {NoConfig},
          open   : BOOLEAN,                   \* a RemoteAgent holds connections
          due    : NotDue .. PlazoMax + Margin, \* time until its close
          late   : BOOLEAN]                   \* history: called again after its close

\* A run, the agent it holds and its remote call: the time the call may still
\* take, and whether it began after the agent was replaced (history).
RunState == [agent : {None} \cup Object, call : {"none", "waiting", "cut"},
             left : 0 .. TimeoutMax, late : BOOLEAN]

Idle == [agent |-> None, call |-> "none", left |-> 0, late |-> FALSE]

VARIABLES
  up,       \* the process serves
  disk,     \* agents/*.agent.yaml, by the name of the file
  configs,  \* _agent_configs
  status,   \* _agent_status
  errors,   \* the names in _agent_errors
  served,   \* _agents
  mixed,    \* history: the names whose row and agent come from two configurations
  agents,   \* the agent objects
  run       \* runs under way

registry == <<configs, status, errors, served, mixed>>
vars == <<up, disk, configs, status, errors, served, mixed, agents, run>>

Status == {"none", "draft", "deployed", "paused"}

TypeOK ==
  /\ up \in BOOLEAN
  /\ disk    \in [Name -> Config \cup {NoConfig, Garbled}]
  /\ configs \in [Name -> Config \cup {NoConfig}]
  /\ status  \in [Name -> Status]
  /\ errors  \subseteq Name
  /\ served  \in [Name -> {None} \cup Object]
  /\ mixed   \subseteq Name
  /\ agents  \in [Object -> Agent]
  /\ run     \in [Run -> RunState]

Unused == [config |-> NoConfig, open |-> FALSE, due |-> NotDue, late |-> FALSE]

Init ==
  /\ up = FALSE
  /\ disk    = [n \in Name |-> NoConfig]
  /\ configs = [n \in Name |-> NoConfig]
  /\ status  = [n \in Name |-> "none"]
  /\ errors  = {}
  /\ served  = [n \in Name |-> None]
  /\ mixed   = {}
  /\ agents  = [a \in Object |-> Unused]
  /\ run     = [r \in Run |-> Idle]

-----------------------------------------------------------------------------
(* Agent objects.                                                          *)

Serving(a) == \E n \in Name : served[n] = a

\* An object nothing refers to is collected; a connection it left open stays.
Collected(ags, table, runs) ==
  [a \in Object |->
     IF ags[a].due # NotDue \/ (\E n \in Name : table[n] = a) \/ \E r \in Run : runs[r].agent = a
     THEN ags[a] ELSE [Unused EXCEPT !.open = ags[a].open, !.late = ags[a].open /\ ags[a].late]]

Free == {a \in Object : agents[a] = Unused}

\* The first places of the pool that are free: a new object takes one of them.
Spare(k) == {a \in Free : Cardinality({o \in Free : o < a}) < k}

Built(c) == [Unused EXCEPT !.config = c]

\* Fault: the client is closed as soon as its longest call may end.
DelayExact(c) == IF c.timeout < PlazoMax THEN c.timeout ELSE PlazoMax

Delay(c) == Margin + IF c.timeout < PlazoMax THEN c.timeout ELSE PlazoMax

\* Fault: every replacement starts the pending closes anew.
RetiredAnew(S) ==
  [a \in Object |-> IF (a \in S /\ agents[a].config.timeout > 0) \/ agents[a].due # NotDue
                    THEN [agents[a] EXCEPT !.due = Delay(agents[a].config)] ELSE agents[a]]

\* _cerrar_reemplazados for the objects in S.
Retired(S) ==
  [a \in Object |-> IF a \in S /\ agents[a].config.timeout > 0
                    THEN [agents[a] EXCEPT !.due = Delay(agents[a].config)] ELSE agents[a]]

-----------------------------------------------------------------------------
(* Chains.                                                                 *)

Chained(cs, n) == cs[n] # NoConfig /\ cs[n].next # NoName

\* compile_chain follows the chains from n; a missing agent or a cycle raises.
Compiles(cs, n) ==
  \A S \in SUBSET Name :
    (n \in S /\ \A m \in S : Chained(cs, m) => cs[m].next \in S) =>
      \E m \in S : cs[m] # NoConfig /\ ~Chained(cs, m)

AllCompile(cs) == \A n \in Name : Chained(cs, n) => Compiles(cs, n)

-----------------------------------------------------------------------------
(* The API.                                                                *)

\* The YAML is written last, and in place: a write that raises leaves the old
\* file or a truncated one.
Persisted(n, c, written) ==
  \/ ~Persist /\ written /\ UNCHANGED disk
  \/ Persist /\ written /\ disk' = [disk EXCEPT ![n] = c]
  \/ Persist /\ ~written /\ disk' \in {disk, [disk EXCEPT ![n] = Garbled]}

\* The configuration names the agent.
Register(n, c) ==
  /\ up
  /\ n = c.name
  /\ configs' = [configs EXCEPT ![n] = c]
  /\ status'  = [status EXCEPT ![n] = "draft"]
  /\ \E written \in BOOLEAN : Persisted(n, c, written)
  /\ UNCHANGED <<up, errors, served, mixed, agents, run>>

\* The agent serves under the name in its configuration, the row is the path's:
\* nothing checks that they agree.  What raises on the way leaves done what came
\* before it.
Deploy(n) ==
  /\ up
  /\ configs[n] # NoConfig /\ configs[n].builds
  /\ LET m == configs[n].name IN
       /\ \E a \in Spare(1) :
            /\ served' = [served EXCEPT ![m] = a]
            /\ agents' = Collected([Retired({served[m]}) EXCEPT ![a] = Built(configs[n])],
                                   served', run)
       /\ mixed' = IF m = n THEN mixed \ {n} ELSE mixed \cup {n, m}
  /\ status' = [status EXCEPT ![n] = "deployed"]
  /\ errors' = errors \ {n}
  /\ \E written \in BOOLEAN : Persisted(n, configs[n], written)
  /\ UNCHANGED <<up, configs, run>>

\* Fault: the agent leaves the table without a close.
WithdrawnOpen(n) ==
  /\ served' = [served EXCEPT ![n] = None]
  /\ agents' = Collected(agents, served', run)

\* Fault: the agent goes on serving.
WithdrawnLater(n) ==
  /\ agents' = Retired({served[n]})
  /\ UNCHANGED served

\* n leaves _agents; its client is closed later.
Withdrawn(n) ==
  /\ served' = [served EXCEPT ![n] = None]
  /\ agents' = Collected(Retired({served[n]}), served', run)

Pause(n) ==
  /\ up
  /\ status[n] = "deployed"
  /\ Withdrawn(n)
  /\ status' = [status EXCEPT ![n] = "paused"]
  /\ mixed'  = mixed \ {n}
  /\ UNCHANGED <<up, disk, configs, errors, run>>

\* c may name another agent than the path does.
Update(n, c) ==
  /\ up
  /\ configs[n] # NoConfig
  /\ IF status[n] = "deployed" THEN Withdrawn(n) /\ mixed' = mixed \ {n}
                               ELSE UNCHANGED <<served, mixed, agents>>
  /\ configs' = [configs EXCEPT ![n] = c]
  /\ status'  = [status EXCEPT ![n] = "draft"]
  /\ \E written \in BOOLEAN : Persisted(n, c, written)
  /\ UNCHANGED <<up, errors, run>>

Unregister(n) ==
  /\ up
  /\ served[n] # None \/ configs[n] # NoConfig
  /\ Withdrawn(n)
  /\ configs' = [configs EXCEPT ![n] = NoConfig]
  /\ status'  = [status EXCEPT ![n] = "none"]
  /\ errors'  = errors \ {n}
  /\ mixed'   = mixed \ {n}
  /\ disk' \in {disk} \cup IF Persist THEN {[disk EXCEPT ![n] = NoConfig]} ELSE {}
  /\ UNCHANGED <<up, run>>

-----------------------------------------------------------------------------
(* Disk.                                                                   *)

\* Before a load somebody may have changed a file.
Edited ==
  {disk} \cup {[disk EXCEPT ![n] = c] : n \in Name, c \in Config \cup {NoConfig, Garbled}}

\* What the files say of n; of two files that name it the last one read counts.
Files(d, n) == {c \in Config : c.name = n /\ \E f \in Name : d[f] = c}
Readings(d) ==
  {cs \in [Name -> Config \cup {NoConfig}] :
     \A n \in Name : IF Files(d, n) = {} THEN cs[n] = NoConfig ELSE cs[n] \in Files(d, n)}

\* An agent that is paused stays so, whatever its file says.
Kept(cs, n)  == cs[n] # NoConfig /\ status[n] = "paused"
Builds(cs)   == {n \in Name : cs[n] # NoConfig /\ cs[n].builds /\ ~Kept(cs, n)}
Fails(cs)    == {n \in Name : cs[n] # NoConfig /\ ~cs[n].builds /\ ~Kept(cs, n)}

\* The agents of made are built into place, an injection, and replace all others.
Loaded(cs, made, place, others) ==
  /\ configs' = cs
  /\ served'  = [n \in Name |-> IF n \in DOMAIN made THEN place[n] ELSE None]
  /\ status'  = [n \in Name |-> IF cs[n] = NoConfig THEN "none" ELSE IF Kept(cs, n) THEN "paused"
                                ELSE IF cs[n].builds THEN "deployed" ELSE "draft"]
  /\ errors'  = Fails(cs)
  /\ mixed'   = {n \in DOMAIN made : made[n] # cs[n]}
  /\ LET new(a) == {n \in DOMAIN made : place[n] = a} IN
       agents' = Collected([a \in Object |-> IF new(a) = {} THEN others[a]
                                            ELSE Built(made[CHOOSE n \in new(a) : TRUE])],
                           served', run')

\* Everything is built aside and put in place at once; a cycle or a chain that
\* does not compile raises before anything changes.
Reload ==
  /\ up /\ Persist
  /\ UNCHANGED run
  /\ disk' \in Edited
  /\ \E cs \in Readings(disk') :
       /\ AllCompile(cs)
       /\ \E place \in Injection(Builds(cs), Spare(Cardinality(Builds(cs)))) :
            Loaded(cs, [n \in Builds(cs) |-> cs[n]], place, Retired({served[n] : n \in Name}))
  /\ UNCHANGED up

\* bootstrap builds file by file: a file that does not build leaves in place the
\* agent of an earlier file of that name.  (Nothing is paused in a new process.)
Makings(d, cs) ==
  LET builders(n) == {c \in Files(d, n) : c.builds}
      N == {n \in Name : builders(n) # {} /\ ~Kept(cs, n)} IN
  {made \in [N -> Config] : \A n \in N : made[n] \in builders(n) /\ (cs[n].builds => made[n] = cs[n])}

\* bootstrap in a new process: a file that cannot be read, a cycle or a chain
\* that does not compile keep it from starting.
Boot ==
  /\ ~up
  /\ run' = [r \in Run |-> Idle]
  /\ disk' \in Edited
  /\ \A n \in Name : disk'[n] # Garbled
  /\ \E cs \in Readings(disk') :
       /\ AllCompile(cs)
       /\ \E made \in Makings(disk', cs) :
            \E place \in Injection(DOMAIN made, {a \in Object : a <= Cardinality(DOMAIN made)}) :
              Loaded(cs, made, place, [a \in Object |-> Unused])
  /\ up' = TRUE

Forgotten ==
  /\ up' = FALSE
  /\ configs' = [n \in Name |-> NoConfig]
  /\ status'  = [n \in Name |-> "none"]
  /\ errors'  = {}
  /\ served'  = [n \in Name |-> None]
  /\ mixed'   = {}
  /\ UNCHANGED disk

\* aclose: no run is left, and the scheduled closes are brought forward.
Shutdown ==
  /\ up
  /\ \A r \in Run : run[r] = Idle
  /\ agents' = [a \in Object |-> IF Serving(a) \/ agents[a].due # NotDue
                                 THEN [agents[a] EXCEPT !.open = FALSE, !.due = NotDue]
                                 ELSE agents[a]]
  /\ Forgotten
  /\ UNCHANGED run

Crash ==
  /\ up
  /\ agents' = [a \in Object |-> Unused]
  /\ run'    = [r \in Run |-> Idle]
  /\ Forgotten

-----------------------------------------------------------------------------
(* Runs.                                                                   *)

StartRun(r, n) ==
  /\ up
  /\ run[r] = Idle
  /\ served[n] # None
  /\ run' = [run EXCEPT ![r].agent = served[n]]
  /\ UNCHANGED <<up, disk, registry, agents>>

\* The run calls a remote agent; the client is made when there is none.
CallRemote(r) ==
  LET o == run[r].agent IN
  /\ o # None
  /\ run[r].call = "none"
  /\ agents[o].config.timeout > 0
  /\ run' = [run EXCEPT ![r].call = "waiting", ![r].left = agents[o].config.timeout,
                        ![r].late = ~Serving(o)]
  /\ agents' = [agents EXCEPT ![o].open = TRUE,
                              ![o].late = @ \/ (~Serving(o) /\ agents[o].due = NotDue)]
  /\ UNCHANGED <<up, disk, registry>>

\* The call ends by its timeout at the latest.
CallEnds(r) ==
  /\ run[r].call # "none"
  /\ run' = [run EXCEPT ![r].call = "none", ![r].left = 0, ![r].late = FALSE]
  /\ UNCHANGED <<up, disk, registry, agents>>

RunEnds(r) ==
  /\ run[r].agent # None
  /\ run[r].call = "none"
  /\ run' = [run EXCEPT ![r] = Idle]
  /\ agents' = Collected(agents, served, run')
  /\ UNCHANGED <<up, disk, registry>>

\* The scheduled close of a replaced agent's client.
Close(a) ==
  /\ agents[a].due = 0
  /\ run' = [r \in Run |-> IF run[r].agent = a /\ run[r].call = "waiting"
                           THEN [run[r] EXCEPT !.call = "cut", !.left = 0] ELSE run[r]]
  /\ agents' = Collected([agents EXCEPT ![a].due = NotDue, ![a].open = FALSE], served, run)
  /\ UNCHANGED <<up, disk, registry>>

Sooner(t) == IF t > 0 THEN t - 1 ELSE t

Tick ==
  /\ \A r \in Run : run[r].call = "waiting" => run[r].left > 0
  /\ \E a \in Object : agents[a].due > 0
  /\ agents' = [a \in Object |-> [agents[a] EXCEPT !.due = Sooner(@)]]
  /\ run'    = [r \in Run |-> [run[r] EXCEPT !.left = Sooner(@)]]
  /\ UNCHANGED <<up, disk, registry>>

Next ==
  \/ \E n \in Name : \/ \E c \in Config : Register(n, c) \/ Update(n, c)
                     \/ Deploy(n) \/ Pause(n) \/ Unregister(n)
                     \/ \E r \in Run : StartRun(r, n)
  \/ Reload \/ Boot \/ Shutdown \/ Crash \/ Tick
  \/ \E r \in Run : CallRemote(r) \/ CallEnds(r) \/ RunEnds(r)
  \/ \E a \in Object : Close(a)

\* The event loop: time passes, calls end by their timeout, timers fire.
Spec ==
  /\ Init /\ [][Next]_vars
  /\ WF_vars(Tick)
  /\ \A r \in Run : WF_vars(CallEnds(r))
  /\ \A a \in Object : WF_vars(Close(a))

-----------------------------------------------------------------------------
(* What the registry promises.                                             *)

(* Through any mix of API calls, reloads and restarts, also when a write   *)
(* fails half way: a deployed agent serves exactly its configuration, a    *)
(* paused one serves nobody, a build error belongs to a draft nobody is    *)
(* served by, and whatever serves has a row.  Every name keeps this but    *)
(* the two that a deploy mixed up -- the path's and the one in the         *)
(* configuration -- until they are deployed, paused or removed by          *)
(* themselves or loaded again, and a name that two files share at a boot.  *)
(* What serves always serves under the name its configuration gives it.    *)
ServesWhatIsConfigured ==
  \A n \in Name :
    /\ n \notin mixed =>
         /\ status[n] = "deployed" => served[n] # None /\ agents[served[n]].config = configs[n]
         /\ status[n] = "paused" => served[n] = None
         /\ n \in errors => served[n] = None
         /\ served[n] # None => configs[n] # NoConfig
    /\ n \in errors => status[n] = "draft"
    /\ served[n] # None => agents[served[n]].config.name = n

(* _cerrar_reemplazados: a remote call that was under way when its agent   *)
(* was replaced is never cut, whatever replaces the agent and whenever.    *)
(* Only a call that a run begins later may be.                             *)
CallNotCut == \A r \in Run : run[r].call = "cut" => run[r].late

(* No connection is forgotten: an open client belongs to an agent that     *)
(* serves or to one whose close is scheduled, and a shutdown closes both;  *)
(* the exception is a client that an old run opened again after the close. *)
OpenClientHasCloser ==
  \A a \in Object :
    agents[a].open => Serving(a) \/ agents[a].due # NotDue \/ agents[a].late

(* However often agents are replaced, the close of each one comes.         *)
OldClientsClose == \A a \in Object : agents[a].due # NotDue ~> agents[a].due = NotDue

=============================================================================
