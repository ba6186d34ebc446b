-------------------------------- MODULE Mesh --------------------------------
(***************************************************************************)
(* The mesh of src/astromesh/mesh: MeshManager (membership by gossip and   *)
(* heartbeats), LeaderElector and the handlers of api/routes/mesh.py, as   *)
(* run by the node daemon.  A node is one process with the id it drew at   *)
(* its start; a restarted process is another node.  Every node keeps its   *)
(* own table of entries [beat, status] and its own idea of the leader.     *)
(*                                                                         *)
(* Requests and replies are messages that are delivered in any order or    *)
(* lost; a handler and what a client does with a reply have no await       *)
(* inside and are one action each.  The requests of one gossip or          *)
(* heartbeat round are put in flight together, which allows more than the  *)
(* code's sending one after the other.                                     *)
(***************************************************************************)
EXTENDS Integers, FiniteSets

CONSTANTS
  N,               \* nodes
  Seeds,           \* the seeds of a node
  Skew,            \* how far the clock of a node runs ahead
  Fanout,          \* gossip_fanout
  FailureTimeout,  \* failure_timeout
  DeadTimeout,     \* dead_timeout
  MaxTime,         \* bound on the time, for TLC
  MaxFlight        \* bound on the messages in flight, for TLC

\* The ids, named by their rank in the order the election compares them in.
Node == 1..N

ASSUME MeshAssumption ==
  /\ N \in Nat
  /\ Seeds \in [Node -> SUBSET Node]
  /\ \A i \in Node : i \notin Seeds[i]
  /\ Skew \in [Node -> Nat]
  /\ FailureTimeout \in Nat /\ DeadTimeout \in Nat
  /\ Fanout \in Nat /\ MaxTime \in Nat /\ MaxFlight \in Nat

NoLeader == 0

Entry   == [beat : Nat \cup {-1}, status : {"alive", "suspect", "dead", "unknown"}]
Table   == [Node -> Entry]
Unknown == [beat |-> -1, status |-> "unknown"]
Nobody  == [n \in Node |-> Unknown]

Message == [kind : {"join", "welcome", "gossip", "reply", "heartbeat", "leave"},
            from : Node, to : Node, table : Table]

VARIABLES
  now,     \* the time
  phase,   \* off, joining, up, down
  view,    \* ClusterState.nodes of a node
  leader,  \* LeaderElector._leader_id of a node
  flight   \* messages in flight

vars == <<now, phase, view, leader, flight>>

TypeOK ==
  /\ now    \in Nat
  /\ phase  \in [Node -> {"off", "joining", "up", "down"}]
  /\ view   \in [Node -> Table]
  /\ leader \in [Node -> Node \cup {NoLeader}]
  /\ flight \subseteq Message

Init ==
  /\ now    = 0
  /\ phase  = [i \in Node |-> "off"]
  /\ view   = [i \in Node |-> Nobody]
  /\ leader = [i \in Node |-> NoLeader]
  /\ flight = {}

-----------------------------------------------------------------------------
(* ClusterState and LeaderElector.                                         *)

Clock(i) == now + Skew[i]

Known(v) == {n \in Node : v[n].status # "unknown"}
Alive(v) == {n \in Node : v[n].status = "alive"}

Only(n, e) == [Nobody EXCEPT ![n] = e]

\* The entry with the later heartbeat wins.
Merged(v, incoming) ==
  [n \in Node |-> IF incoming[n].beat > v[n].beat THEN incoming[n] ELSE v[n]]

\* update_node: node i takes the entry that n sent, whatever it had.
Updated(v, i, n, e) == [v EXCEPT ![n] = e]

\* Fault: the thresholds are compared the other way round.
AgedHasty(e, t) ==
  CASE e.status = "unknown" -> e
    [] e.status # "unknown" /\ t - e.beat > FailureTimeout -> [e EXCEPT !.status = "dead"]
    [] OTHER -> e

\* check_timeouts, for one entry.
Aged(e, t) ==
  CASE e.status # "unknown" /\ t - e.beat > DeadTimeout -> [e EXCEPT !.status = "dead"]
    [] e.status = "alive" /\ t - e.beat > FailureTimeout /\ t - e.beat <= DeadTimeout ->
         [e EXCEPT !.status = "suspect"]
    [] OTHER -> e

Checked(v, i) == [n \in Node |-> IF n = i THEN v[n] ELSE Aged(v[n], Clock(i))]

\* update_load and the assignment of last_heartbeat.
Fresh(v, i) == [v EXCEPT ![i].beat = Clock(i)]

\* The highest id that is alive.
Elected(v) ==
  IF Alive(v) = {} THEN NoLeader
  ELSE CHOOSE n \in Alive(v) : \A m \in Alive(v) : n >= m

\* Fault: a failed node is never reported to the elector.
Unreported(old, n, v) == old

\* on_node_failed: a new election if it was the leader.
AfterFailure(old, n, v) == IF n = old THEN Elected(v) ELSE old

\* get_gossip_targets: a sample of the others that are not dead.
Targets(v, i) ==
  LET others == {n \in Known(v) \ {i} : v[n].status # "dead"} IN
  {T \in SUBSET others :
     Cardinality(T) = IF Cardinality(others) < Fanout THEN Cardinality(others) ELSE Fanout}

-----------------------------------------------------------------------------
(* The network.                                                            *)

Requests(k, i, T, table) == {[kind |-> k, from |-> i, to |-> n, table |-> table] : n \in T}

Send(ms) ==
  /\ Cardinality(flight) + Cardinality(ms) <= MaxFlight
  /\ flight' = flight \cup ms

Answer(m, k, table) ==
  flight' = (flight \ {m}) \cup {[kind |-> k, from |-> m.to, to |-> m.from, table |-> table]}

Received(m, k, p) == m \in flight /\ m.kind = k /\ phase[m.to] = p

\* Lost, refused by a node that does not listen, or late for its client.
Lose(m) ==
  /\ flight' = flight \ {m}
  /\ UNCHANGED <<now, phase, view, leader>>

Tick ==
  /\ now < MaxTime
  /\ now' = now + 1
  /\ UNCHANGED <<phase, view, leader, flight>>

-----------------------------------------------------------------------------
(* The life of a node.                                                     *)

\* MeshManager.__init__ under the id just drawn.
Boot(i) ==
  /\ phase[i] = "off"
  /\ phase' = [phase EXCEPT ![i] = "joining"]
  /\ view'  = [view EXCEPT ![i] = Only(i, [beat |-> Clock(i), status |-> "alive"])]
  /\ UNCHANGED <<now, leader, flight>>

\* join() asks one seed after another.
AskSeed(i, s) ==
  /\ phase[i] = "joining" /\ s \in Seeds[i]
  /\ \A m \in flight : ~(m.kind \in {"join", "welcome"} /\ i \in {m.from, m.to})
  /\ Send(Requests("join", i, {s}, Only(i, view[i][i])))
  /\ UNCHANGED <<now, phase, view, leader>>

\* A reply of a seed, then the first election; the API listens from here on.
Joined(m) ==
  LET i == m.to  v == Merged(view[i], m.table) IN
  /\ Received(m, "welcome", "joining")
  /\ phase'  = [phase EXCEPT ![i] = "up"]
  /\ view'   = [view EXCEPT ![i] = v]
  /\ leader' = [leader EXCEPT ![i] = Elected(v)]
  /\ flight' = flight \ {m}
  /\ UNCHANGED now

\* No seed, or none that answers: a mesh of one.
StandAlone(i) ==
  /\ phase[i] = "joining"
  /\ phase'  = [phase EXCEPT ![i] = "up"]
  /\ leader' = [leader EXCEPT ![i] = Elected(view[i])]
  /\ UNCHANGED <<now, view, flight>>

\* gossip_once.
Gossip(i) ==
  LET v == Checked(Fresh(view[i], i), i) IN
  /\ phase[i] = "up"
  /\ view' = [view EXCEPT ![i] = v]
  /\ \E T \in Targets(v, i) : Send(Requests("gossip", i, T, v))
  /\ UNCHANGED <<now, phase, leader>>

\* heartbeat_once.
Heartbeat(i) ==
  LET v == Fresh(view[i], i) IN
  /\ phase[i] = "up"
  /\ view' = [view EXCEPT ![i] = v]
  /\ \E T \in Targets(v, i) : Send(Requests("heartbeat", i, T, Only(i, v[i])))
  /\ UNCHANGED <<now, phase, leader>>

\* What a client does with the answer to its gossip.
Learn(m) ==
  /\ Received(m, "reply", "up")
  /\ view'   = [view EXCEPT ![m.to] = Merged(@, m.table)]
  /\ flight' = flight \ {m}
  /\ UNCHANGED <<now, phase, leader>>

\* The process is gone; its last heartbeat is kept to state what others know.
Stops(i) ==
  /\ phase'  = [phase EXCEPT ![i] = "down"]
  /\ view'   = [view EXCEPT ![i] = Only(i, @[i])]
  /\ leader' = [leader EXCEPT ![i] = NoLeader]
  /\ UNCHANGED now

\* A clean stop: leave(), then nothing.
Leave(i) ==
  /\ phase[i] = "up"
  /\ \E T \in Targets(view[i], i) : Send(Requests("leave", i, T, Nobody))
  /\ Stops(i)

Crash(i) ==
  /\ phase[i] \in {"joining", "up"}
  /\ Stops(i)
  /\ UNCHANGED flight

-----------------------------------------------------------------------------
(* The handlers of api/routes/mesh.py.                                     *)

\* POST /join: on_node_joined elects.
MeshJoin(m) ==
  LET i == m.to  v == Updated(view[i], i, m.from, m.table[m.from]) IN
  /\ Received(m, "join", "up")
  /\ view'   = [view EXCEPT ![i] = v]
  /\ leader' = [leader EXCEPT ![i] = Elected(v)]
  /\ Answer(m, "welcome", v)
  /\ UNCHANGED <<now, phase>>

\* POST /leave.
MeshLeave(m) ==
  LET i == m.to  v == [view[i] EXCEPT ![m.from] = Unknown] IN
  /\ Received(m, "leave", "up")
  /\ view'   = [view EXCEPT ![i] = v]
  /\ leader' = [leader EXCEPT ![i] = AfterFailure(@, m.from, v)]
  /\ flight' = flight \ {m}
  /\ UNCHANGED <<now, phase>>

\* POST /heartbeat.
MeshHeartbeat(m) ==
  /\ Received(m, "heartbeat", "up")
  /\ view'   = [view EXCEPT ![m.to] = Updated(@, m.to, m.from, m.table[m.from])]
  /\ flight' = flight \ {m}
  /\ UNCHANGED <<now, phase, leader>>

\* POST /gossip.
MeshGossip(m) ==
  LET i == m.to  v == Merged(view[i], m.table) IN
  /\ Received(m, "gossip", "up")
  /\ view' = [view EXCEPT ![i] = v]
  /\ Answer(m, "reply", v)
  /\ UNCHANGED <<now, phase, leader>>

\* POST /election: no part of the code sends it, anyone may.
MeshElection(i) ==
  /\ phase[i] = "up"
  /\ leader' = [leader EXCEPT ![i] = Elected(view[i])]
  /\ UNCHANGED <<now, phase, view, flight>>

-----------------------------------------------------------------------------

Next ==
  \/ Tick
  \/ \E i \in Node : \/ Boot(i) \/ StandAlone(i) \/ Gossip(i) \/ Heartbeat(i)
                     \/ Leave(i) \/ Crash(i) \/ MeshElection(i)
                     \/ \E s \in Node : AskSeed(i, s)
  \/ \E m \in flight : \/ Joined(m) \/ Learn(m) \/ Lose(m)
                       \/ MeshJoin(m) \/ MeshLeave(m) \/ MeshHeartbeat(m) \/ MeshGossip(m)

Spec == Init /\ [][Next]_vars

-----------------------------------------------------------------------------
(* What the mesh guarantees whatever is lost, late or reordered.           *)

(* No table holds, and no message carries, a heartbeat of a node later     *)
(* than the one the node itself last made.                                 *)
Tables == {view[i] : i \in Node} \cup {m.table : m \in flight}

NoFutureBeat ==
  \A v \in Tables : \A n \in Node : v[n].beat <= view[n][n].beat

(* No node is called suspect or dead, at first or second hand, unless its  *)
(* heartbeat in that entry is older than the timeout by some node's clock. *)
Silent(e, timeout) == \E k \in Node : now + Skew[k] - e.beat > timeout

OnlySilentNodesFail ==
  \A v \in Tables : \A n \in Node :
    /\ v[n].status = "dead"    => Silent(v[n], DeadTimeout)
    /\ v[n].status = "suspect" => Silent(v[n], FailureTimeout)

(* What others think of a node never reaches its own entry: a running node *)
(* is alive in its own table, although gossip carries it back to itself.   *)
OwnEntryAlive ==
  \A i \in Node : phase[i] \in {"joining", "up"} => view[i][i].status = "alive"

(* A running node follows a leader it knows, that is not below itself.     *)
LeaderKnown ==
  \A i \in Node : phase[i] = "up" =>
    /\ leader[i] \in Known(view[i])
    /\ leader[i] >= i

=============================================================================
