----------------------------- MODULE MeshProofs -----------------------------
(* Proofs of what Mesh guarantees, for any number of nodes, any seeds,     *)
(* clocks, fanout and timeouts, and any loss and order of messages.        *)
EXTENDS Mesh, WellFoundedInduction, TLAPS

-----------------------------------------------------------------------------
(* The operations on tables and entries.                                   *)

LEMMA TableOps ==
  ASSUME NEW v \in Table, NEW i \in Node, NEW n \in Node, NEW e \in Entry, now \in Nat
  PROVE  /\ Clock(i) \in Nat
         /\ Nobody \in Table /\ Only(n, e) \in Table
         /\ Updated(v, i, n, e) \in Table
         /\ Fresh(v, i) \in Table
         /\ Aged(e, Clock(i)) \in Entry
<1>1. Clock(i) \in Nat
  BY MeshAssumption DEF Clock
<1>2. Nobody \in Table /\ Only(n, e) \in Table
  BY DEF Nobody, Only, Unknown, Table, Entry
<1>3. Updated(v, i, n, e) \in Table
  BY DEF Updated, Table
<1>4. Fresh(v, i) \in Table
  BY <1>1 DEF Fresh, Table, Entry
<1>5. Aged(e, Clock(i)) \in Entry
  <2>1. [e EXCEPT !.status = "dead"] \in Entry /\ [e EXCEPT !.status = "suspect"] \in Entry
    BY DEF Entry
  <2>. DEFINE t == Clock(i)
              D == e.status # "unknown" /\ t - e.beat > DeadTimeout
              S == e.status = "alive" /\ t - e.beat > FailureTimeout /\ t - e.beat <= DeadTimeout
  <2>2. ~(D /\ S)
    BY <1>1, MeshAssumption DEF Entry
  <2>. QED
    BY <2>1, <2>2 DEF Aged
<1>. QED
  BY <1>1, <1>2, <1>3, <1>4, <1>5

LEMMA MergeType ==
  ASSUME NEW v \in Table, NEW w \in Table
  PROVE  Merged(v, w) \in Table
BY DEF Merged, Table

LEMMA CheckType ==
  ASSUME NEW v \in Table, NEW i \in Node, now \in Nat
  PROVE  Checked(v, i) \in Table
<1>1. \A n \in Node : v[n] \in Entry
  BY DEF Table
<1>2. \A n \in Node : Aged(v[n], Clock(i)) \in Entry
  BY <1>1, TableOps
<1>. QED
  BY <1>1, <1>2 DEF Checked, Table

(* What check_timeouts does to an entry.                                   *)
LEMMA AgedEntry ==
  ASSUME NEW e \in Entry, NEW t \in Nat
  PROVE  LET a == Aged(e, t) IN
         /\ a.beat = e.beat
         /\ a.status = "dead" => e.status = "dead" \/ t - e.beat > DeadTimeout
         /\ a.status = "suspect" => e.status = "suspect" \/ t - e.beat > FailureTimeout
         /\ (a.status = "unknown") = (e.status = "unknown")
<1>. DEFINE D == e.status # "unknown" /\ t - e.beat > DeadTimeout
            S == e.status = "alive" /\ t - e.beat > FailureTimeout /\ t - e.beat <= DeadTimeout
<1>1. CASE D
  <2>1. ~S
    BY <1>1, MeshAssumption DEF Entry
  <2>2. Aged(e, t) = [e EXCEPT !.status = "dead"]
    BY <1>1, <2>1 DEF Aged
  <2>. QED
    BY <1>1, <2>2 DEF Entry
<1>2. CASE ~D /\ S
  <2>1. Aged(e, t) = [e EXCEPT !.status = "suspect"]
    BY <1>2 DEF Aged
  <2>. QED
    BY <1>2, <2>1 DEF Entry
<1>3. CASE ~D /\ ~S
  <2>1. Aged(e, t) = e
    BY <1>3 DEF Aged
  <2>. QED
    BY <2>1
<1>. QED
  BY <1>1, <1>2, <1>3

Less == {ss \in Nat \X Nat : ss[1] < ss[2]}

LEMMA LessWellFounded == IsWellFoundedOn(Less, Nat)
BY NatLessThanWellFounded DEF OpToRel, Less

(* The election finds the highest node that is alive.                      *)
LEMMA Highest ==
  ASSUME NEW v, Alive(v) # {}
  PROVE  /\ Elected(v) \in Alive(v)
         /\ \A m \in Alive(v) : Elected(v) >= m
<1>. DEFINE A == {N - n : n \in Alive(v)}
<1>1. N \in Nat /\ Alive(v) \subseteq 1..N
  BY MeshAssumption DEF Alive, Node
<1>2. A \subseteq Nat /\ A # {}
  BY <1>1
<1>3. PICK x \in A : \A y \in A : ~(<<y, x>> \in Less)
  BY <1>2, LessWellFounded, WFMin
<1>4. \A y \in A : x <= y
  <2>. SUFFICES ASSUME NEW y \in A PROVE x <= y
    OBVIOUS
  <2>1. x \in Nat /\ y \in Nat /\ <<y, x>> \notin Less
    BY <1>2, <1>3
  <2>2. ~(y < x)
    BY <2>1 DEF Less
  <2>. QED
    BY <2>1, <2>2
<1>5. PICK n \in Alive(v) : x = N - n
  OBVIOUS
<1>6. \A m \in Alive(v) : n >= m
  <2>. SUFFICES ASSUME NEW m \in Alive(v) PROVE n >= m
    OBVIOUS
  <2>1. N - m \in A
    OBVIOUS
  <2>. QED
    BY <1>1, <1>4, <1>5, <2>1
<1>. QED
  BY <1>6 DEF Elected

LEMMA ElectedType ==
  ASSUME NEW v
  PROVE  Elected(v) \in Node \cup {NoLeader}
BY Highest DEF Elected, Alive

-----------------------------------------------------------------------------
(* Type correctness.                                                       *)

LEMMA MessageTable == \A m \in Message : m.table \in Table /\ m.from \in Node /\ m.to \in Node
BY DEF Message

LEMMA RequestsType ==
  ASSUME NEW k \in {"join", "gossip", "heartbeat", "leave"}, NEW i \in Node,
         NEW T \in SUBSET Node, NEW v \in Table
  PROVE  Requests(k, i, T, v) \subseteq Message
BY DEF Requests, Message

LEMMA TargetsType ==
  ASSUME NEW v, NEW i \in Node, NEW T \in Targets(v, i)
  PROVE  T \subseteq Node /\ i \notin T
BY DEF Targets, Known

LEMMA StepMeshType == TypeOK /\ [Next]_vars => TypeOK'
<1>. SUFFICES ASSUME TypeOK, [Next]_vars PROVE TypeOK'
  OBVIOUS
<1>. USE DEF TypeOK
<1>0. /\ \A i \in Node : view[i] \in Table
      /\ \A m \in flight : m \in Message /\ m.table \in Table /\ m.from \in Node /\ m.to \in Node
  BY MessageTable
<1>1. CASE Tick
  BY <1>1 DEF Tick
<1>2. ASSUME NEW i \in Node, Boot(i)
      PROVE  TypeOK'
  <2>1. [beat |-> Clock(i), status |-> "alive"] \in Entry
    BY MeshAssumption DEF Clock, Entry
  <2>2. Only(i, [beat |-> Clock(i), status |-> "alive"]) \in Table
    BY <1>0, <2>1, TableOps
  <2>. QED
    BY <1>2, <2>2 DEF Boot
<1>3. ASSUME NEW i \in Node, StandAlone(i) \/ MeshElection(i)
      PROVE  TypeOK'
  BY <1>3, ElectedType DEF StandAlone, MeshElection
<1>4. ASSUME NEW i \in Node, Gossip(i)
      PROVE  TypeOK'
  <2>. DEFINE v == Checked(Fresh(view[i], i), i)
  <2>1. v \in Table
    <3>1. [beat |-> 0, status |-> "alive"] \in Entry
      BY DEF Entry
    <3>2. Fresh(view[i], i) \in Table
      BY <1>0, <3>1, TableOps
    <3>. QED
      BY <3>2, CheckType
  <2>2. PICK T \in Targets(v, i) : Send(Requests("gossip", i, T, v))
    BY <1>4 DEF Gossip
  <2>3. Requests("gossip", i, T, v) \subseteq Message
    BY <2>1, TargetsType, RequestsType
  <2>. QED
    BY <1>4, <2>1, <2>2, <2>3 DEF Gossip, Send
<1>5. ASSUME NEW i \in Node, Heartbeat(i)
      PROVE  TypeOK'
  <2>. DEFINE v == Fresh(view[i], i)
  <2>1. [beat |-> 0, status |-> "alive"] \in Entry
    BY DEF Entry
  <2>2. v \in Table
    BY <1>0, <2>1, TableOps
  <2>3. Only(i, v[i]) \in Table
    <3>1. v[i] \in Entry
      BY <2>2 DEF Table
    <3>. QED
      BY <2>2, <3>1, TableOps
  <2>4. PICK T \in Targets(v, i) : Send(Requests("heartbeat", i, T, Only(i, v[i])))
    BY <1>5 DEF Heartbeat
  <2>5. Requests("heartbeat", i, T, Only(i, v[i])) \subseteq Message
    BY <2>3, TargetsType, RequestsType
  <2>. QED
    BY <1>5, <2>2, <2>4, <2>5 DEF Heartbeat, Send
<1>6. ASSUME NEW i \in Node, Leave(i) \/ Crash(i)
      PROVE  TypeOK'
  <2>1. Only(i, view[i][i]) \in Table
    <3>1. view[i][i] \in Entry
      BY DEF Table
    <3>. QED
      BY <1>0, <3>1, TableOps
  <2>2. flight' \subseteq Message
    <3>1. CASE Leave(i)
      <4>1. PICK T \in Targets(view[i], i) : Send(Requests("leave", i, T, Nobody))
        BY <3>1 DEF Leave
      <4>2. Nobody \in Table
        BY DEF Nobody, Unknown, Table, Entry
      <4>3. Requests("leave", i, T, Nobody) \subseteq Message
        BY <4>2, TargetsType, RequestsType
      <4>. QED
        BY <4>1, <4>3 DEF Send
    <3>2. CASE Crash(i)
      BY <3>2 DEF Crash
    <3>. QED
      BY <1>6, <3>1, <3>2
  <2>. QED
    BY <1>6, <2>1, <2>2 DEF Leave, Crash, Stops
<1>7. ASSUME NEW i \in Node, NEW s \in Node, AskSeed(i, s)
      PROVE  TypeOK'
  <2>1. Only(i, view[i][i]) \in Table
    <3>1. view[i][i] \in Entry
      BY DEF Table
    <3>. QED
      BY <1>0, <3>1, TableOps
  <2>2. Requests("join", i, {s}, Only(i, view[i][i])) \subseteq Message
    BY <2>1, RequestsType
  <2>. QED
    BY <1>7, <2>2 DEF AskSeed, Send
<1>8. ASSUME NEW m \in flight, Joined(m) \/ Learn(m) \/ MeshGossip(m)
      PROVE  TypeOK'
  <2>1. Merged(view[m.to], m.table) \in Table
    BY <1>0, MergeType
  <2>2. flight' \subseteq Message
    BY <1>0, <1>8, <2>1 DEF Joined, Learn, MeshGossip, Answer, Message
  <2>. QED
    BY <1>0, <1>8, <2>1, <2>2, ElectedType DEF Joined, Learn, MeshGossip
<1>9. ASSUME NEW m \in flight, MeshJoin(m) \/ MeshHeartbeat(m)
      PROVE  TypeOK'
  <2>1. Updated(view[m.to], m.to, m.from, m.table[m.from]) \in Table
    <3>1. m.table[m.from] \in Entry
      BY <1>0 DEF Table
    <3>. QED
      BY <1>0, <3>1, TableOps
  <2>2. flight' \subseteq Message
    BY <1>0, <1>9, <2>1 DEF MeshJoin, MeshHeartbeat, Answer, Message
  <2>. QED
    BY <1>0, <1>9, <2>1, <2>2, ElectedType DEF MeshJoin, MeshHeartbeat
<1>10. ASSUME NEW m \in flight, MeshLeave(m)
       PROVE  TypeOK'
  <2>1. [view[m.to] EXCEPT ![m.from] = Unknown] \in Table
    BY <1>0 DEF Table, Unknown, Entry
  <2>2. leader' \in [Node -> Node \cup {NoLeader}]
    BY <1>0, <1>10, ElectedType DEF MeshLeave, AfterFailure
  <2>. QED
    BY <1>0, <1>10, <2>1, <2>2 DEF MeshLeave
<1>11. ASSUME NEW m \in flight, Lose(m)
       PROVE  TypeOK'
  BY <1>11 DEF Lose
<1>12. CASE UNCHANGED vars
  BY <1>12 DEF vars
<1>. QED
  BY <1>1, <1>2, <1>3, <1>4, <1>5, <1>6, <1>7, <1>8, <1>9, <1>10, <1>11, <1>12 DEF Next

(* Every state of the mesh is well typed.                                  *)
THEOREM MeshTypeCorrect == Spec => []TypeOK
<1>1. Init => TypeOK
  BY DEF Init, TypeOK, Nobody, Unknown, Table, Entry
<1>. QED
  BY <1>1, StepMeshType, PTL DEF Spec

-----------------------------------------------------------------------------
(* The inductive invariant.                                                *)

(* An entry about a node whose own last heartbeat is own, at time t.       *)
SoundEntry(e, own, t) ==
  /\ e.beat <= own
  /\ e.status = "dead"    => \E k \in Node : t + Skew[k] - e.beat > DeadTimeout
  /\ e.status = "suspect" => \E k \in Node : t + Skew[k] - e.beat > FailureTimeout
  /\ e.status = "unknown" => e.beat = -1

Sound ==
  \A n \in Node :
    /\ \A i \in Node : SoundEntry(view[i][n], view[n][n].beat, now)
    /\ \A m \in flight : SoundEntry(m.table[n], view[n][n].beat, now)

(* Nobody writes to itself, and who writes calls itself alive.             *)
Courteous ==
  \A m \in flight :
    /\ m.from # m.to
    /\ m.kind \in {"join", "heartbeat"} => m.table[m.from].status = "alive"

Past == \A n \in Node : view[n][n].beat <= Clock(n)

MeshInv == TypeOK /\ Sound /\ Courteous /\ Past /\ OwnEntryAlive /\ LeaderKnown

LEMMA StaysSound ==
  ASSUME NEW e \in Entry, NEW own \in Nat \cup {-1}, NEW own2 \in Nat \cup {-1}, own <= own2,
         NEW t \in Nat, NEW t2 \in Nat, t <= t2, SoundEntry(e, own, t)
  PROVE  SoundEntry(e, own2, t2)
<1>1. e.beat \in Int
  BY DEF Entry
<1>2. ASSUME NEW k \in Node, NEW d \in Nat, t + Skew[k] - e.beat > d
      PROVE  t2 + Skew[k] - e.beat > d
  BY <1>1, <1>2, MeshAssumption
<1>3. e.beat <= own2
  BY <1>1 DEF SoundEntry
<1>. QED
  BY <1>2, <1>3, MeshAssumption DEF SoundEntry

(* A node's own heartbeat only moves forward: time does, and nobody else   *)
(* has a later one to overwrite it with.                                   *)
LEMMA Growth ==
  ASSUME TypeOK, Sound, Courteous, Past, [Next]_vars
  PROVE  \A n \in Node : now <= now' /\ view[n][n].beat <= view'[n][n].beat
<1>. USE DEF TypeOK
<1>0. /\ \A i, n \in Node : view[i][n] \in Entry /\ view[i][n].beat \in Int
      /\ \A i \in Node : Clock(i) \in Nat
  BY MeshAssumption DEF Table, Entry, Clock
<1>. SUFFICES ASSUME NEW n \in Node
              PROVE  now <= now' /\ view[n][n].beat <= view'[n][n].beat
  OBVIOUS
<1>1. CASE Tick
  BY <1>0, <1>1 DEF Tick
<1>2. ASSUME NEW i \in Node, Boot(i)
      PROVE  now <= now' /\ view[n][n].beat <= view'[n][n].beat
  <2>1. Only(i, [beat |-> Clock(i), status |-> "alive"])[i].beat = Clock(i)
    BY DEF Only, Nobody
  <2>. QED
    BY <1>0, <1>2, <2>1 DEF Boot, Past
<1>3. ASSUME NEW i \in Node, StandAlone(i) \/ MeshElection(i)
      PROVE  now <= now' /\ view[n][n].beat <= view'[n][n].beat
  BY <1>0, <1>3 DEF StandAlone, MeshElection
<1>4. ASSUME NEW i \in Node, Gossip(i) \/ Heartbeat(i)
      PROVE  now <= now' /\ view[n][n].beat <= view'[n][n].beat
  <2>1. /\ Fresh(view[i], i)[i].beat = Clock(i)
        /\ Checked(Fresh(view[i], i), i)[i].beat = Clock(i)
    BY DEF Checked, Fresh, Table
  <2>. QED
    BY <1>0, <1>4, <2>1 DEF Gossip, Heartbeat, Past
<1>5. ASSUME NEW i \in Node, Leave(i) \/ Crash(i)
      PROVE  now <= now' /\ view[n][n].beat <= view'[n][n].beat
  <2>1. Only(i, view[i][i])[i] = view[i][i]
    BY DEF Only, Nobody
  <2>. QED
    BY <1>0, <1>5, <2>1 DEF Leave, Crash, Stops
<1>6. ASSUME NEW i \in Node, NEW s \in Node, AskSeed(i, s)
      PROVE  now <= now' /\ view[n][n].beat <= view'[n][n].beat
  BY <1>0, <1>6 DEF AskSeed
<1>7. ASSUME NEW m \in flight, Joined(m) \/ Learn(m) \/ MeshGossip(m)
      PROVE  now <= now' /\ view[n][n].beat <= view'[n][n].beat
  <2>1. m \in Message /\ m.to \in Node /\ m.table \in Table
    BY MessageTable
  <2>2. view[n][n].beat <= Merged(view[n], m.table)[n].beat
    <3>1. /\ m.table[n].beat \in Int
          /\ Merged(view[n], m.table)[n] = IF m.table[n].beat > view[n][n].beat
                                           THEN m.table[n] ELSE view[n][n]
      BY <2>1 DEF Merged, Table, Entry
    <3>. QED
      BY <1>0, <3>1
  <2>. QED
    BY <1>0, <1>7, <2>1, <2>2 DEF Joined, Learn, MeshGossip
<1>8. ASSUME NEW m \in flight, MeshJoin(m) \/ MeshHeartbeat(m) \/ MeshLeave(m)
      PROVE  now <= now' /\ view[n][n].beat <= view'[n][n].beat
  <2>1. m.to \in Node /\ m.from \in Node /\ m.from # m.to
    BY MessageTable DEF Courteous
  <2>2. view'[n][n] = view[n][n] /\ now' = now
    BY <1>8, <2>1 DEF MeshJoin, MeshHeartbeat, MeshLeave, Updated, Table
  <2>. QED
    BY <1>0, <2>2
<1>9. ASSUME NEW m \in flight, Lose(m)
      PROVE  now <= now' /\ view[n][n].beat <= view'[n][n].beat
  BY <1>0, <1>9 DEF Lose
<1>10. CASE UNCHANGED vars
  BY <1>0, <1>10 DEF vars
<1>. QED
  BY <1>1, <1>2, <1>3, <1>4, <1>5, <1>6, <1>7, <1>8, <1>9, <1>10 DEF Next

LEMMA UnknownSound ==
  ASSUME NEW own \in Nat \cup {-1}, NEW t
  PROVE  SoundEntry(Unknown, own, t)
BY DEF SoundEntry, Unknown

LEMMA StepSound ==
  ASSUME TypeOK, Sound, Courteous, Past, OwnEntryAlive, [Next]_vars, TypeOK'
  PROVE  Sound'
<1>. USE DEF TypeOK
<1>0. /\ \A i, n \in Node : view[i][n] \in Entry /\ view'[i][n] \in Entry
      /\ \A i, n \in Node : view[i][n].beat \in Nat \cup {-1} /\ view'[i][n].beat \in Nat \cup {-1}
      /\ \A m \in flight, n \in Node : m.table[n] \in Entry
      /\ \A m \in flight : m.table \in Table /\ m.to \in Node /\ m.from \in Node
      /\ \A i \in Node : Clock(i) \in Nat
  BY MessageTable, MeshAssumption DEF Table, Entry, Clock
<1>. DEFINE Fit(e, n) == SoundEntry(e, view'[n][n].beat, now')
<1>a. ASSUME NEW n \in Node, NEW e \in Entry, SoundEntry(e, view[n][n].beat, now)
      PROVE  Fit(e, n)
  <2>1. now <= now' /\ view[n][n].beat <= view'[n][n].beat
    BY Growth
  <2>2. /\ now \in Nat /\ now' \in Nat
        /\ view[n][n].beat \in Nat \cup {-1} /\ view'[n][n].beat \in Nat \cup {-1}
    BY <1>0
  <2>. HIDE DEF TypeOK
  <2>. QED
    BY <1>a, <2>1, <2>2, StaysSound
<1>b. /\ \A n, i \in Node : Fit(view[i][n], n)
      /\ \A n \in Node : \A m \in flight : Fit(m.table[n], n)
      /\ \A n \in Node : Fit(Unknown, n)
  <2>1. ASSUME NEW n \in Node, NEW i \in Node PROVE Fit(view[i][n], n)
    BY <1>0, <1>a DEF Sound
  <2>2. ASSUME NEW n \in Node, NEW m \in flight PROVE Fit(m.table[n], n)
    BY <1>0, <1>a DEF Sound
  <2>3. ASSUME NEW n \in Node PROVE Fit(Unknown, n)
    BY <1>0, UnknownSound
  <2>. QED
    BY <2>1, <2>2, <2>3
<1>. HIDE DEF Fit
<1>c. SUFFICES /\ \A i, n \in Node : Fit(view'[i][n], n)
               /\ \A m \in flight' : \A n \in Node : Fit(m.table[n], n)
  BY DEF Sound, Fit
<1>1. CASE Tick \/ UNCHANGED vars
  BY <1>1, <1>b DEF Tick, vars
<1>2. ASSUME NEW i \in Node, Boot(i)
      PROVE  /\ \A j, n \in Node : Fit(view'[j][n], n)
             /\ \A m \in flight' : \A n \in Node : Fit(m.table[n], n)
  <2>. DEFINE e == [beat |-> Clock(i), status |-> "alive"]
  <2>1. view'[i] = Only(i, e) /\ Only(i, e)[i] = e
    BY <1>2 DEF Boot, Only, Nobody
  <2>2. Fit(e, i)
    BY <1>0, <2>1 DEF Fit, SoundEntry
  <2>3. \A n \in Node : Only(i, e)[n] = IF n = i THEN e ELSE Unknown
    BY DEF Only, Nobody
  <2>4. \A j \in Node \ {i} : view'[j] = view[j]
    BY <1>2 DEF Boot
  <2>. HIDE DEF e
  <2>5. \A j, n \in Node : Fit(view'[j][n], n)
    BY <1>b, <2>1, <2>2, <2>3, <2>4
  <2>. QED
    BY <1>2, <1>b, <2>5 DEF Boot
<1>3. ASSUME NEW i \in Node, StandAlone(i) \/ MeshElection(i)
      PROVE  /\ \A j, n \in Node : Fit(view'[j][n], n)
             /\ \A m \in flight' : \A n \in Node : Fit(m.table[n], n)
  BY <1>3, <1>b DEF StandAlone, MeshElection
<1>4. ASSUME NEW i \in Node, Gossip(i)
      PROVE  /\ \A j, n \in Node : Fit(view'[j][n], n)
             /\ \A m \in flight' : \A n \in Node : Fit(m.table[n], n)
  <2>. DEFINE v == Fresh(view[i], i)
              c == Checked(v, i)
  <2>1. /\ view' = [view EXCEPT ![i] = c] /\ now' = now /\ view[i][i].status = "alive"
        /\ v[i] = [view[i][i] EXCEPT !.beat = Clock(i)]
        /\ c[i] = v[i]
        /\ \A n \in Node \ {i} : c[n] = Aged(view[i][n], Clock(i))
    BY <1>4 DEF Gossip, Checked, Fresh, Table, OwnEntryAlive
  <2>2. Fit(c[i], i)
    <3>1. c[i].beat = Clock(i) /\ c[i].status = "alive"
      BY <1>0, <2>1 DEF Entry
    <3>2. view'[i][i].beat = Clock(i)
      BY <2>1, <3>1
    <3>. QED
      BY <1>0, <3>1, <3>2 DEF Fit, SoundEntry
  <2>3. ASSUME NEW n \in Node \ {i}
        PROVE  Fit(c[n], n)
    <3>. DEFINE e == view[i][n]
                a == Aged(e, Clock(i))
    <3>1. e \in Entry /\ Clock(i) \in Nat /\ c[n] = a /\ Fit(e, n)
      BY <1>0, <1>b, <2>1, <2>3
    <3>2. /\ a.beat = e.beat
          /\ a.status = "dead" => e.status = "dead" \/ Clock(i) - e.beat > DeadTimeout
          /\ a.status = "suspect" => e.status = "suspect" \/ Clock(i) - e.beat > FailureTimeout
          /\ (a.status = "unknown") = (e.status = "unknown")
      BY <3>1, AgedEntry
    <3>3. Clock(i) = now' + Skew[i]
      BY <2>1 DEF Clock
    <3>5. e.beat \in Int /\ Skew[i] \in Nat /\ now' \in Nat
      BY <3>1, MeshAssumption DEF Entry
    <3>. HIDE DEF e, a, TypeOK
    <3>4. SoundEntry(a, view'[n][n].beat, now')
      <4>1. SoundEntry(e, view'[n][n].beat, now')
        BY <3>1 DEF Fit
      <4>2. a.beat <= view'[n][n].beat /\ (a.status = "unknown" => a.beat = -1)
        BY <3>2, <4>1 DEF SoundEntry
      <4>3. ASSUME a.status = "dead"
            PROVE  \E k \in Node : now' + Skew[k] - a.beat > DeadTimeout
        <5>1. CASE e.status = "dead"
          <6>1. PICK k \in Node : now' + Skew[k] - e.beat > DeadTimeout
            BY <4>1, <5>1 DEF SoundEntry
          <6>2. now' + Skew[k] - a.beat > DeadTimeout
            BY <3>2, <6>1
          <6>. QED
            BY <6>2
        <5>2. CASE Clock(i) - e.beat > DeadTimeout
          <6>1. now' + Skew[i] - a.beat > DeadTimeout
            BY <3>2, <3>3, <3>5, <5>2
          <6>. QED
            BY <6>1
        <5>. QED
          BY <3>2, <4>3, <5>1, <5>2
      <4>4. ASSUME a.status = "suspect"
            PROVE  \E k \in Node : now' + Skew[k] - a.beat > FailureTimeout
        <5>1. CASE e.status = "suspect"
          <6>1. PICK k \in Node : now' + Skew[k] - e.beat > FailureTimeout
            BY <4>1, <5>1 DEF SoundEntry
          <6>2. now' + Skew[k] - a.beat > FailureTimeout
            BY <3>2, <6>1
          <6>. QED
            BY <6>2
        <5>2. CASE Clock(i) - e.beat > FailureTimeout
          <6>1. now' + Skew[i] - a.beat > FailureTimeout
            BY <3>2, <3>3, <3>5, <5>2
          <6>. QED
            BY <6>1
        <5>. QED
          BY <3>2, <4>4, <5>1, <5>2
      <4>. QED
        BY <4>2, <4>3, <4>4 DEF SoundEntry
    <3>. QED
      BY <3>1, <3>4 DEF Fit
  <2>4. \A m \in flight' : m \in flight \/ m.table = c
    BY <1>4 DEF Gossip, Send, Requests
  <2>. HIDE DEF c
  <2>5. \A n \in Node : Fit(c[n], n)
    BY <2>2, <2>3
  <2>. QED
    BY <1>b, <2>1, <2>4, <2>5
<1>5. ASSUME NEW i \in Node, Heartbeat(i)
      PROVE  /\ \A j, n \in Node : Fit(view'[j][n], n)
             /\ \A m \in flight' : \A n \in Node : Fit(m.table[n], n)
  <2>. DEFINE c == Fresh(view[i], i)
              o == Only(i, c[i])
  <2>1. /\ view' = [view EXCEPT ![i] = c] /\ view[i][i].status = "alive"
        /\ c[i] = [view[i][i] EXCEPT !.beat = Clock(i)]
        /\ \A n \in Node \ {i} : c[n] = view[i][n]
    BY <1>5 DEF Heartbeat, Fresh, Table, OwnEntryAlive
  <2>2. Fit(c[i], i)
    <3>1. c[i].beat = Clock(i) /\ c[i].status = "alive"
      BY <1>0, <2>1 DEF Entry
    <3>2. view'[i][i].beat = Clock(i)
      BY <2>1, <3>1
    <3>. QED
      BY <1>0, <3>1, <3>2 DEF Fit, SoundEntry
  <2>3. \A n \in Node : o[n] = IF n = i THEN c[i] ELSE Unknown
    BY DEF Only, Nobody
  <2>4. \A m \in flight' : m \in flight \/ m.table = o
    BY <1>5 DEF Heartbeat, Send, Requests
  <2>. HIDE DEF c, o
  <2>5. \A n \in Node : Fit(c[n], n) /\ Fit(o[n], n)
    BY <1>b, <2>1, <2>2, <2>3
  <2>. QED
    BY <1>b, <2>1, <2>4, <2>5
<1>6. ASSUME NEW i \in Node, Leave(i) \/ Crash(i)
      PROVE  /\ \A j, n \in Node : Fit(view'[j][n], n)
             /\ \A m \in flight' : \A n \in Node : Fit(m.table[n], n)
  <2>. DEFINE o == Only(i, view[i][i])
  <2>1. view' = [view EXCEPT ![i] = o]
    BY <1>6 DEF Leave, Crash, Stops
  <2>2. \A n \in Node : o[n] = (IF n = i THEN view[i][i] ELSE Unknown) /\ Nobody[n] = Unknown
    BY DEF Only, Nobody
  <2>3. \A m \in flight' : m \in flight \/ m.table = Nobody
    <3>1. CASE Leave(i)
      BY <3>1 DEF Leave, Send, Requests
    <3>2. CASE Crash(i)
      BY <3>2 DEF Crash
    <3>. QED
      BY <1>6, <3>1, <3>2
  <2>. HIDE DEF o
  <2>. QED
    BY <1>b, <2>1, <2>2, <2>3
<1>7. ASSUME NEW i \in Node, NEW s \in Node, AskSeed(i, s)
      PROVE  /\ \A j, n \in Node : Fit(view'[j][n], n)
             /\ \A m \in flight' : \A n \in Node : Fit(m.table[n], n)
  <2>. DEFINE o == Only(i, view[i][i])
  <2>1. \A n \in Node : o[n] = IF n = i THEN view[i][i] ELSE Unknown
    BY DEF Only, Nobody
  <2>2. view' = view /\ \A m \in flight' : m \in flight \/ m.table = o
    BY <1>7 DEF AskSeed, Send, Requests
  <2>. HIDE DEF o
  <2>. QED
    BY <1>b, <2>1, <2>2
<1>8. ASSUME NEW m \in flight, Joined(m) \/ Learn(m) \/ MeshGossip(m)
      PROVE  /\ \A j, n \in Node : Fit(view'[j][n], n)
             /\ \A k \in flight' : \A n \in Node : Fit(k.table[n], n)
  <2>. DEFINE c == Merged(view[m.to], m.table)
  <2>1. view' = [view EXCEPT ![m.to] = c]
    BY <1>8 DEF Joined, Learn, MeshGossip
  <2>2. \A k \in flight' : k \in flight \/ k.table = c
    BY <1>8 DEF Joined, Learn, MeshGossip, Answer
  <2>3. \A n \in Node : c[n] = m.table[n] \/ c[n] = view[m.to][n]
    BY DEF Merged
  <2>. HIDE DEF c
  <2>. QED
    BY <1>0, <1>b, <2>1, <2>2, <2>3
<1>9. ASSUME NEW m \in flight, MeshJoin(m) \/ MeshHeartbeat(m) \/ MeshLeave(m)
      PROVE  /\ \A j, n \in Node : Fit(view'[j][n], n)
             /\ \A k \in flight' : \A n \in Node : Fit(k.table[n], n)
  <2>. DEFINE e == IF m.kind = "leave" THEN Unknown ELSE m.table[m.from]
              c == [view[m.to] EXCEPT ![m.from] = e]
  <2>1. view' = [view EXCEPT ![m.to] = c]
    BY <1>9 DEF MeshJoin, MeshHeartbeat, MeshLeave, Received, Updated
  <2>2. \A k \in flight' : k \in flight \/ k.table = c
    BY <1>9 DEF MeshJoin, MeshHeartbeat, MeshLeave, Received, Updated, Answer
  <2>3. \A n \in Node : Fit(c[n], n)
    <3>1. Fit(e, m.from)
      BY <1>0, <1>b
    <3>2. view[m.to] \in Table
      BY <1>0
    <3>3. \A n \in Node : c[n] = IF n = m.from THEN e ELSE view[m.to][n]
      BY <3>2 DEF Table
    <3>. QED
      BY <1>0, <1>b, <3>1, <3>3
  <2>. HIDE DEF c
  <2>. QED
    BY <1>0, <1>b, <2>1, <2>2, <2>3
<1>10. ASSUME NEW m \in flight, Lose(m)
       PROVE  /\ \A j, n \in Node : Fit(view'[j][n], n)
             /\ \A k \in flight' : \A n \in Node : Fit(k.table[n], n)
  BY <1>10, <1>b DEF Lose
<1>. QED
  BY <1>1, <1>2, <1>3, <1>4, <1>5, <1>6, <1>7, <1>8, <1>9, <1>10 DEF Next

(* A node's own entry is only ever written by itself: it is renewed, alive *)
(* and with the current time, or kept.                                     *)
Renewed(n) == now' = now /\ view'[n][n].beat = Clock(n) /\ view'[n][n].status = "alive"

Kept(n) ==
  /\ now <= now' /\ view'[n][n] = view[n][n]
  /\ phase'[n] \in {"joining", "up"} => phase[n] \in {"joining", "up"}

LEMMA OwnEntry ==
  ASSUME TypeOK, Sound, Courteous, OwnEntryAlive, [Next]_vars, NEW n \in Node
  PROVE  Renewed(n) \/ Kept(n)
<1>. USE DEF TypeOK
<1>0. /\ \A i, k \in Node : view[i][k] \in Entry
      /\ \A m \in flight : m.table \in Table /\ m.to \in Node /\ m.from \in Node
  BY MessageTable DEF Table
<1>1. CASE Tick \/ UNCHANGED vars
  BY <1>1 DEF Tick, vars, Kept
<1>2. ASSUME NEW i \in Node, Boot(i)
      PROVE  Renewed(n) \/ Kept(n)
  <2>1. Only(i, [beat |-> Clock(i), status |-> "alive"])[i] = [beat |-> Clock(i), status |-> "alive"]
    BY DEF Only, Nobody
  <2>. QED
    BY <1>2, <2>1 DEF Boot, Renewed, Kept
<1>3. ASSUME NEW i \in Node, StandAlone(i) \/ MeshElection(i)
      PROVE  Renewed(n) \/ Kept(n)
  BY <1>3 DEF StandAlone, MeshElection, Kept
<1>4. ASSUME NEW i \in Node, Gossip(i) \/ Heartbeat(i)
      PROVE  Renewed(n) \/ Kept(n)
  <2>1. view[i][i].status = "alive"
    BY <1>4 DEF Gossip, Heartbeat, OwnEntryAlive
  <2>2. /\ Fresh(view[i], i)[i] = [view[i][i] EXCEPT !.beat = Clock(i)]
        /\ Checked(Fresh(view[i], i), i)[i] = [view[i][i] EXCEPT !.beat = Clock(i)]
    BY DEF Checked, Fresh, Table
  <2>3. [view[i][i] EXCEPT !.beat = Clock(i)].beat = Clock(i)
        /\ [view[i][i] EXCEPT !.beat = Clock(i)].status = "alive"
    BY <1>0, <2>1 DEF Entry
  <2>4. CASE n = i
    <3>1. now' = now /\ view'[i][i] = [view[i][i] EXCEPT !.beat = Clock(i)]
      BY <1>4, <2>2 DEF Gossip, Heartbeat
    <3>. QED
      BY <2>3, <2>4, <3>1 DEF Renewed
  <2>5. CASE n # i
    BY <1>4, <2>5 DEF Gossip, Heartbeat, Kept
  <2>. QED
    BY <2>4, <2>5
<1>5. ASSUME NEW i \in Node, Leave(i) \/ Crash(i)
      PROVE  Renewed(n) \/ Kept(n)
  <2>1. Only(i, view[i][i])[i] = view[i][i]
    BY DEF Only, Nobody
  <2>. QED
    BY <1>5, <2>1 DEF Leave, Crash, Stops, Kept
<1>6. ASSUME NEW i \in Node, NEW s \in Node, AskSeed(i, s)
      PROVE  Renewed(n) \/ Kept(n)
  BY <1>6 DEF AskSeed, Kept
<1>7. ASSUME NEW m \in flight, Joined(m) \/ Learn(m) \/ MeshGossip(m)
      PROVE  Renewed(n) \/ Kept(n)
  <2>1. ~(m.table[n].beat > view[n][n].beat)
    <3>1. m.table[n].beat <= view[n][n].beat
      BY DEF Sound, SoundEntry
    <3>2. m.table[n].beat \in Int /\ view[n][n].beat \in Int
      BY <1>0 DEF Table, Entry
    <3>. QED
      BY <3>1, <3>2
  <2>2. Merged(view[n], m.table)[n] = view[n][n]
    BY <2>1 DEF Merged
  <2>. QED
    BY <1>0, <1>7, <2>2 DEF Joined, Learn, MeshGossip, Received, Kept
<1>8. ASSUME NEW m \in flight, MeshJoin(m) \/ MeshHeartbeat(m) \/ MeshLeave(m)
      PROVE  Renewed(n) \/ Kept(n)
  <2>1. m.from # m.to
    BY DEF Courteous
  <2>. QED
    BY <1>0, <1>8, <2>1 DEF MeshJoin, MeshHeartbeat, MeshLeave, Updated, Table, Kept
<1>9. ASSUME NEW m \in flight, Lose(m)
      PROVE  Renewed(n) \/ Kept(n)
  BY <1>9 DEF Lose, Kept
<1>. QED
  BY <1>1, <1>2, <1>3, <1>4, <1>5, <1>6, <1>7, <1>8, <1>9 DEF Next

LEMMA StepOwn ==
  ASSUME TypeOK, Sound, Courteous, Past, OwnEntryAlive, [Next]_vars, TypeOK'
  PROVE  Past' /\ OwnEntryAlive'
<1>1. ASSUME NEW n \in Node
      PROVE  /\ view'[n][n].beat <= Clock(n)'
             /\ phase'[n] \in {"joining", "up"} => view'[n][n].status = "alive"
  <2>1. Skew[n] \in Nat /\ now \in Nat /\ now' \in Nat /\ view[n][n].beat \in Int
    BY MeshAssumption DEF TypeOK, Table, Entry
  <2>2. CASE Renewed(n)
    BY <2>1, <2>2 DEF Renewed, Clock
  <2>3. CASE Kept(n)
    BY <2>1, <2>3 DEF Kept, Clock, Past, OwnEntryAlive
  <2>. QED
    BY <2>2, <2>3, OwnEntry
<1>. QED
  BY <1>1 DEF Past, OwnEntryAlive

LEMMA StepCourteous ==
  ASSUME TypeOK, Courteous, OwnEntryAlive, [Next]_vars
  PROVE  Courteous'
<1>. USE DEF TypeOK
<1>1. ASSUME NEW k \in flight', k \notin flight
      PROVE  k.from # k.to /\ (k.kind \in {"join", "heartbeat"} => k.table[k.from].status = "alive")
  <2>1. ASSUME NEW i \in Node, Gossip(i)
        PROVE  k.kind = "gossip" /\ k.from # k.to
    BY <1>1, <2>1, TargetsType DEF Gossip, Send, Requests
  <2>2. ASSUME NEW i \in Node, Heartbeat(i)
        PROVE  k.from # k.to /\ k.table[k.from].status = "alive"
    <3>. DEFINE v == Fresh(view[i], i)
    <3>1. v[i].status = "alive"
      BY <2>2 DEF Heartbeat, Fresh, Table, Entry, OwnEntryAlive
    <3>2. k.from = i /\ k.to # i /\ k.table = Only(i, v[i])
      BY <1>1, <2>2, TargetsType DEF Heartbeat, Send, Requests
    <3>3. Only(i, v[i])[i] = v[i]
      BY DEF Only, Nobody
    <3>. QED
      BY <3>1, <3>2, <3>3
  <2>3. ASSUME NEW i \in Node, Leave(i)
        PROVE  k.kind = "leave" /\ k.from # k.to
    BY <1>1, <2>3, TargetsType DEF Leave, Send, Requests
  <2>4. ASSUME NEW i \in Node, NEW s \in Node, AskSeed(i, s)
        PROVE  k.from # k.to /\ k.table[k.from].status = "alive"
    <3>1. k.from = i /\ k.to = s /\ k.table = Only(i, view[i][i])
      BY <1>1, <2>4 DEF AskSeed, Send, Requests
    <3>2. Only(i, view[i][i])[i] = view[i][i]
      BY DEF Only, Nobody
    <3>3. s # i /\ view[i][i].status = "alive"
      BY <2>4, MeshAssumption DEF AskSeed, OwnEntryAlive
    <3>. QED
      BY <3>1, <3>2, <3>3
  <2>5. ASSUME NEW m \in flight, MeshJoin(m) \/ MeshGossip(m)
        PROVE  k.kind \in {"welcome", "reply"} /\ k.from # k.to
    BY <1>1, <2>5 DEF MeshJoin, MeshGossip, Answer, Courteous
  <2>6. \/ \E i \in Node : Gossip(i) \/ Heartbeat(i) \/ Leave(i) \/ \E s \in Node : AskSeed(i, s)
        \/ \E m \in flight : MeshJoin(m) \/ MeshGossip(m)
    BY <1>1 DEF Next, vars, Tick, Boot, StandAlone, Crash, MeshElection, Joined, Learn, Lose,
       MeshLeave, MeshHeartbeat
  <2>. QED
    BY <2>1, <2>2, <2>3, <2>4, <2>5, <2>6
<1>. QED
  BY <1>1 DEF Courteous

(* A running node goes on knowing the leader it follows.                   *)
LEMMA StepLeader ==
  ASSUME MeshInv, [Next]_vars, TypeOK', Sound', OwnEntryAlive'
  PROVE  LeaderKnown'
<1>. USE DEF TypeOK
<1>. SUFFICES ASSUME NEW n \in Node, phase'[n] = "up"
              PROVE  view'[n][leader'[n]].status # "unknown" /\ leader'[n] \in Node /\ leader'[n] >= n
  BY DEF LeaderKnown, Known
<1>. DEFINE Follows == /\ view'[n][leader'[n]].status # "unknown"
                       /\ leader'[n] \in Node /\ leader'[n] >= n
<1>0. /\ \A i, k \in Node : view[i][k] \in Entry
      /\ \A m \in flight : m.table \in Table /\ m.to \in Node /\ m.from \in Node
  BY MessageTable DEF MeshInv, Table
\* An election among entries in which the node itself is alive.
<1>a. ASSUME leader'[n] = Elected(view'[n])
      PROVE  Follows
  <2>1. n \in Alive(view'[n])
    BY DEF OwnEntryAlive, Alive
  <2>2. Elected(view'[n]) \in Alive(view'[n]) /\ Elected(view'[n]) >= n
    BY <2>1, Highest
  <2>. QED
    BY <1>a, <2>2 DEF Alive
\* No election, and no known entry is forgotten.
<1>b. ASSUME phase[n] = "up", leader'[n] = leader[n],
             \A k \in Node : view'[n][k].status = "unknown" =>
                view[n][k].status = "unknown" \/ k # leader[n]
      PROVE  Follows
  BY <1>b DEF MeshInv, LeaderKnown, Known
<1>1. CASE Tick \/ UNCHANGED vars
  BY <1>1, <1>b DEF Tick, vars
<1>2. ASSUME NEW i \in Node, Boot(i) \/ Leave(i) \/ Crash(i)
      PROVE  Follows
  <2>1. n # i /\ phase[n] = "up" /\ leader'[n] = leader[n] /\ view'[n] = view[n]
    BY <1>2 DEF Boot, Leave, Crash, Stops, MeshInv
  <2>. QED
    BY <2>1, <1>b
<1>3. ASSUME NEW i \in Node, StandAlone(i) \/ MeshElection(i)
      PROVE  Follows
  <2>1. CASE n = i
    BY <1>3, <2>1, <1>a DEF StandAlone, MeshElection, MeshInv
  <2>2. CASE n # i
    BY <1>3, <2>2, <1>b DEF StandAlone, MeshElection, MeshInv
  <2>. QED
    BY <2>1, <2>2
<1>4. ASSUME NEW i \in Node, Gossip(i) \/ Heartbeat(i)
      PROVE  Follows
  <2>1. now \in Nat /\ Clock(i) \in Nat
    BY MeshAssumption DEF MeshInv, Clock
  <2>2. ASSUME NEW k \in Node
        PROVE  /\ Fresh(view[i], i)[k].status = view[i][k].status
               /\ (Checked(Fresh(view[i], i), i)[k].status = "unknown") = (view[i][k].status = "unknown")
    <3>1. view[i][k] \in Entry /\ view[i] \in Table
      BY <1>0 DEF MeshInv
    <3>2. Fresh(view[i], i)[k] = IF k = i THEN [view[i][k] EXCEPT !.beat = Clock(i)]
                                         ELSE view[i][k]
      BY <3>1 DEF Fresh, Table
    <3>3. Fresh(view[i], i)[k] \in Entry /\ Fresh(view[i], i)[k].status = view[i][k].status
      <4>1. CASE k = i
        BY <2>1, <3>1, <3>2, <4>1 DEF Entry
      <4>2. CASE k # i
        BY <3>1, <3>2, <4>2
      <4>. QED
        BY <4>1, <4>2
    <3>. QED
      BY <2>1, <3>3, AgedEntry DEF Checked
  <2>3. phase[n] = "up" /\ leader'[n] = leader[n]
    BY <1>4 DEF Gossip, Heartbeat
  <2>4. ASSUME NEW k \in Node, view'[n][k].status = "unknown"
        PROVE  view[n][k].status = "unknown"
    BY <1>4, <2>2, <2>4 DEF Gossip, Heartbeat, MeshInv
  <2>. QED
    BY <2>3, <2>4, <1>b
<1>5. ASSUME NEW i \in Node, NEW s \in Node, AskSeed(i, s)
      PROVE  Follows
  BY <1>5, <1>b DEF AskSeed
<1>6. ASSUME NEW m \in flight, Joined(m) \/ MeshJoin(m)
      PROVE  Follows
  <2>1. CASE n = m.to
    BY <1>0, <1>6, <2>1, <1>a DEF Joined, MeshJoin, MeshInv
  <2>2. CASE n # m.to
    BY <1>0, <1>6, <2>2, <1>b DEF Joined, MeshJoin, MeshInv
  <2>. QED
    BY <2>1, <2>2
<1>7. ASSUME NEW m \in flight, Learn(m) \/ MeshGossip(m)
      PROVE  Follows
  <2>1. phase[n] = "up" /\ leader'[n] = leader[n]
    BY <1>7 DEF Learn, MeshGossip
  <2>2. ASSUME NEW k \in Node, view'[n][k].status = "unknown"
        PROVE  view[n][k].status = "unknown"
    <3>1. view'[n][k].beat = -1
      BY <2>2 DEF Sound, SoundEntry
    <3>2. CASE n = m.to
      <4>1. view'[n] = Merged(view[n], m.table)
        BY <1>0, <1>7, <3>2 DEF Learn, MeshGossip, MeshInv
      <4>2. m.table[k].beat \in Nat \cup {-1} /\ view[n][k].beat \in Nat \cup {-1}
        BY <1>0 DEF Table, Entry
      <4>3. ~(m.table[k].beat > view[n][k].beat)
        BY <3>1, <4>1, <4>2 DEF Merged
      <4>. QED
        BY <2>2, <4>1, <4>3 DEF Merged
    <3>3. CASE n # m.to
      BY <1>0, <1>7, <2>2, <3>3 DEF Learn, MeshGossip, MeshInv
    <3>. QED
      BY <3>2, <3>3
  <2>. QED
    BY <2>1, <2>2, <1>b
<1>8. ASSUME NEW m \in flight, MeshLeave(m)
      PROVE  Follows
  <2>1. phase[n] = "up" /\ view[m.to] \in Table
    BY <1>0, <1>8 DEF MeshLeave, MeshInv
  <2>2. CASE n # m.to
    BY <1>0, <1>8, <2>1, <2>2, <1>b DEF MeshLeave, MeshInv
  <2>3. CASE n = m.to /\ m.from = leader[n]
    BY <1>0, <1>8, <2>3, <1>a DEF MeshLeave, AfterFailure, MeshInv
  <2>4. CASE n = m.to /\ m.from # leader[n]
    <3>1. leader'[n] = leader[n]
      BY <1>0, <1>8, <2>4 DEF MeshLeave, AfterFailure, MeshInv
    <3>2. \A k \in Node : k # m.from => view'[n][k] = view[n][k]
      BY <1>0, <1>8, <2>1, <2>4 DEF MeshLeave, MeshInv, Table
    <3>. QED
      BY <2>1, <2>4, <3>1, <3>2, <1>b
  <2>. QED
    BY <2>2, <2>3, <2>4
<1>9. ASSUME NEW m \in flight, MeshHeartbeat(m)
      PROVE  Follows
  <2>1. phase[n] = "up" /\ leader'[n] = leader[n] /\ view[m.to] \in Table
    BY <1>0, <1>9 DEF MeshHeartbeat, MeshInv
  <2>2. m.table[m.from].status = "alive"
    BY <1>9 DEF MeshHeartbeat, Received, MeshInv, Courteous
  <2>3. \A k \in Node : view'[n][k] = view[n][k] \/ view'[n][k].status = "alive"
    BY <1>0, <1>9, <2>1, <2>2 DEF MeshHeartbeat, Updated, MeshInv, Table
  <2>. QED
    BY <2>1, <2>3, <1>b
<1>10. ASSUME NEW m \in flight, Lose(m)
       PROVE  Follows
  BY <1>10, <1>b DEF Lose
<1>. QED
  BY <1>1, <1>2, <1>3, <1>4, <1>5, <1>6, <1>7, <1>8, <1>9, <1>10 DEF Next

-----------------------------------------------------------------------------
(* The theorems.                                                           *)

LEMMA InitMesh == Init => MeshInv
<1>. SUFFICES ASSUME Init PROVE MeshInv
  OBVIOUS
<1>1. \A n \in Node, i \in Node : view[i][n] = Unknown
  BY DEF Init, Nobody
<1>2. TypeOK
  BY DEF Init, TypeOK, Nobody, Unknown, Table, Entry
<1>3. Past
  BY <1>1, MeshAssumption DEF Init, Past, Unknown, Clock
<1>. QED
  BY <1>1, <1>2, <1>3 DEF Init, MeshInv, Sound, SoundEntry, Courteous, OwnEntryAlive, LeaderKnown,
     Unknown

LEMMA StepMesh == MeshInv /\ [Next]_vars => MeshInv'
<1>. SUFFICES ASSUME MeshInv, [Next]_vars PROVE MeshInv'
  OBVIOUS
<1>1. TypeOK'
  BY StepMeshType DEF MeshInv
<1>2. Sound'
  BY <1>1, StepSound DEF MeshInv
<1>3. Past' /\ OwnEntryAlive'
  BY <1>1, StepOwn DEF MeshInv
<1>4. Courteous'
  BY StepCourteous DEF MeshInv
<1>5. LeaderKnown'
  BY <1>1, <1>2, <1>3, StepLeader
<1>. QED
  BY <1>1, <1>2, <1>3, <1>4, <1>5 DEF MeshInv

LEMMA MeshSafe == Spec => []MeshInv
BY InitMesh, StepMesh, PTL DEF Spec

(* No table and no message is ahead of a node's own heartbeat.             *)
THEOREM BeatsAreReal == Spec => []NoFutureBeat
<1>1. MeshInv => NoFutureBeat
  BY DEF MeshInv, Sound, SoundEntry, NoFutureBeat, Tables
<1>. QED
  BY <1>1, MeshSafe, PTL

(* Suspicion and death, wherever they were decided, rest on a silence of   *)
(* at least the timeout.                                                   *)
THEOREM FailureIsSilence == Spec => []OnlySilentNodesFail
<1>1. MeshInv => OnlySilentNodesFail
  BY DEF MeshInv, Sound, SoundEntry, OnlySilentNodesFail, Silent, Tables
<1>. QED
  BY <1>1, MeshSafe, PTL

(* A running node is alive in its own table.                               *)
THEOREM AliveToItself == Spec => []OwnEntryAlive
<1>1. MeshInv => OwnEntryAlive
  BY DEF MeshInv
<1>. QED
  BY <1>1, MeshSafe, PTL

(* A running node follows a known leader that is not below itself.         *)
THEOREM FollowsAKnownLeader == Spec => []LeaderKnown
<1>1. MeshInv => LeaderKnown
  BY DEF MeshInv
<1>. QED
  BY <1>1, MeshSafe, PTL
=============================================================================
