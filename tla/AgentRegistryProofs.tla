------------------------ MODULE AgentRegistryProofs ------------------------
(***************************************************************************)
(* Proofs about AgentRegistry, for any agents, configurations and runs and *)
(* any pool of objects: types, that what is served is what is configured,  *)
(* that no call under way is cut and that no connection is forgotten.      *)
(*                                                                         *)
(* The inductive invariant adds to the properties what relates the tables, *)
(* the agent objects and the runs: Sound.                                  *)
(***************************************************************************)
EXTENDS AgentRegistry, TLAPS

Table == [Name -> {None} \cup Object]

\* A served object was built, waits for no close and is served under one name.
SoundTable(ags, table) ==
  /\ \A n \in Name : table[n] # None => ags[table[n]].config \in Config
                                        /\ ags[table[n]].due = NotDue
  /\ \A n, m \in Name : table[n] # None /\ table[n] = table[m] => n = m

\* A run holds an object that was built; a call that its run began while the
\* agent served ends before the close.
SoundRuns(ags, runs) ==
  \A r \in Run :
    /\ runs[r].agent # None => ags[runs[r].agent].config \in Config
    /\ runs[r].call # "none" => runs[r].agent # None
    /\ runs[r].call = "waiting" => runs[r].left <= ags[runs[r].agent].config.timeout
    /\ runs[r].call = "waiting" /\ ~runs[r].late /\ ags[runs[r].agent].due # NotDue
         => runs[r].left < ags[runs[r].agent].due

\* An open client is in a table or will be closed.
SoundClients(ags, table) ==
  \A a \in Object : ags[a].open /\ ~ags[a].late =>
    /\ ags[a].config \in Config /\ ags[a].config.timeout > 0
    /\ (\E n \in Name : table[n] = a) \/ ags[a].due # NotDue

Sound(ags, table, runs) ==
  SoundTable(ags, table) /\ SoundRuns(ags, runs) /\ SoundClients(ags, table)

IInv == TypeOK /\ ServesWhatIsConfigured /\ CallNotCut /\ Sound(agents, served, run)

-----------------------------------------------------------------------------
(* Constants and helpers.                                                  *)

LEMMA Bounds ==
  /\ NoName \notin Name /\ Pool \in Nat /\ TimeoutMax \in Nat /\ PlazoMax \in Nat
  /\ TimeoutMax <= PlazoMax /\ NoConfig \notin Config /\ Garbled \notin Config
  /\ \A c \in Config : c.name \in Name /\ c.builds \in BOOLEAN /\ c.timeout \in 0 .. TimeoutMax
  /\ None \notin Object /\ Object \subseteq Int
BY RegistryAssumption DEF None, Object

LEMMA DelayIsLong ==
  ASSUME NEW c \in Config
  PROVE  Delay(c) \in 1 .. PlazoMax + Margin /\ Delay(c) > c.timeout
BY Bounds DEF Delay, Margin

LEMMA UnusedIsAgent ==
  Unused \in Agent /\ Unused.config = NoConfig /\ Unused.open = FALSE /\ Unused.due = NotDue
BY Bounds DEF Unused, Agent, NotDue, Margin

LEMMA BuiltIsNew ==
  ASSUME NEW c \in Config
  PROVE  /\ Built(c) \in Agent /\ Built(c).config = c /\ Built(c).due = NotDue
         /\ Built(c).open = FALSE
BY UnusedIsAgent DEF Built, Agent

LEMMA IdleIsRun == Idle \in RunState
BY Bounds DEF Idle, RunState, None

\* Collection leaves what somebody refers to, and no client that was not
\* already forgotten.
LEMMA CollectedSound ==
  ASSUME NEW ags \in [Object -> Agent], NEW table \in Table, NEW runs \in [Run -> RunState],
         Sound(ags, table, runs)
  PROVE  /\ Collected(ags, table, runs) \in [Object -> Agent]
         /\ Sound(Collected(ags, table, runs), table, runs)
         /\ \A n \in Name : table[n] # None =>
              Collected(ags, table, runs)[table[n]] = ags[table[n]]
<1>. DEFINE C == Collected(ags, table, runs)
            Gone(a) == [Unused EXCEPT !.open = ags[a].open, !.late = ags[a].open /\ ags[a].late]
            Held(a) == ags[a].due # NotDue \/ (\E n \in Name : table[n] = a)
                         \/ \E r \in Run : runs[r].agent = a
<1>1. \A a \in Object : C[a] = IF Held(a) THEN ags[a] ELSE Gone(a)
  BY DEF Collected
<1>2. \A a \in Object : Gone(a) \in Agent /\ Gone(a).open = ags[a].open
                        /\ Gone(a).late = (ags[a].open /\ ags[a].late)
  BY UnusedIsAgent DEF Agent, Unused
<1>3. C \in [Object -> Agent]
  BY <1>2 DEF Collected
<1>4. \A n \in Name : table[n] # None => table[n] \in Object /\ C[table[n]] = ags[table[n]]
  BY <1>1 DEF Table
<1>5. \A r \in Run : runs[r].agent # None =>
        runs[r].agent \in Object /\ C[runs[r].agent] = ags[runs[r].agent]
  BY <1>1 DEF RunState
<1>. HIDE DEF C, Gone, Held
<1>6. SoundTable(C, table)
  BY <1>4 DEF Sound, SoundTable
<1>7. SoundRuns(C, runs)
  BY <1>5 DEF Sound, SoundRuns
<1>8. SoundClients(C, table)
  <2>. SUFFICES ASSUME NEW a \in Object, C[a].open, ~C[a].late
                PROVE  /\ C[a].config \in Config /\ C[a].config.timeout > 0
                       /\ (\E n \in Name : table[n] = a) \/ C[a].due # NotDue
    BY DEF SoundClients
  <2>1. ags[a].open /\ ~ags[a].late
    BY <1>1, <1>2
  <2>2. Held(a)
    BY <2>1 DEF Sound, SoundClients, Held
  <2>. QED
    BY <1>1, <2>1, <2>2 DEF Sound, SoundClients
<1>. QED
  BY <1>3, <1>4, <1>6, <1>7, <1>8 DEF Sound, C

\* Objects that nobody else refers to take their places in the table.
LEMMA PlacedSound ==
  ASSUME NEW ags \in [Object -> Agent], NEW new \in [Object -> Agent],
         NEW old \in Table, NEW table \in Table, NEW runs \in [Run -> RunState],
         Sound(ags, old, runs), NEW N \in SUBSET Name,
         \A n \in Name \ N : table[n] = old[n],
         \A n \in N : /\ old[n] = None
                      /\ table[n] \in Object
                      /\ ags[table[n]] = Unused
                      /\ new[table[n]].config \in Config /\ new[table[n]].due = NotDue
                      /\ ~new[table[n]].open,
         \A n, m \in N : table[n] = table[m] => n = m,
         \A a \in Object : (\A n \in N : table[n] # a) => new[a] = ags[a]
  PROVE  Sound(new, table, runs)
<1>. USE DEF Sound
<1>1. \A n \in Name \ N : \A m \in N : table[n] # None => table[n] # table[m]
  BY Bounds DEF SoundTable, Unused
<1>2. \A r \in Run : runs[r].agent # None =>
        runs[r].agent \in Object /\ new[runs[r].agent] = ags[runs[r].agent]
  <2>. SUFFICES ASSUME NEW r \in Run, runs[r].agent # None
                PROVE  /\ runs[r].agent \in Object
                       /\ new[runs[r].agent] = ags[runs[r].agent]
    OBVIOUS
  <2>1. runs[r].agent \in Object
    BY DEF RunState
  <2>2. ags[runs[r].agent] # Unused
    BY Bounds, UnusedIsAgent DEF SoundRuns
  <2>. QED
    BY <2>1, <2>2
<1>3. SoundTable(new, table)
  BY <1>1 DEF SoundTable, Table
<1>4. SoundRuns(new, runs)
  BY <1>2 DEF SoundRuns
<1>5. SoundClients(new, table)
  <2>. SUFFICES ASSUME NEW a \in Object, new[a].open, ~new[a].late
                PROVE  /\ new[a].config \in Config /\ new[a].config.timeout > 0
                       /\ (\E n \in Name : table[n] = a) \/ new[a].due # NotDue
    BY DEF SoundClients
  <2>1. \A n \in N : table[n] # a
    OBVIOUS
  <2>2. new[a] = ags[a]
    BY <2>1
  <2>3. \A n \in Name : old[n] = a => table[n] = a
    BY Bounds
  <2>. QED
    BY <2>2, <2>3 DEF SoundClients
<1>. QED
  BY <1>3, <1>4, <1>5

\* Served objects leave the table and wait for their close.
LEMMA RetiredSound ==
  ASSUME TypeOK, Sound(agents, served, run), NEW S, NEW table \in Table,
         \A n \in Name : table[n] = served[n] \/ table[n] = None,
         \A n \in Name : served[n] # None => (served[n] \in S <=> table[n] = None),
         \A a \in S : a = None \/ \E n \in Name : served[n] = a
  PROVE  /\ Retired(S) \in [Object -> Agent]
         /\ Sound(Retired(S), table, run)
         /\ \A a \in Object : agents[a] = Unused => Retired(S)[a] = Unused
         /\ \A a \in Object : Retired(S)[a].config = agents[a].config
<1>. DEFINE R == Retired(S)
<1>. USE DEF Sound
<1>1. \A a \in Object : R[a] = IF a \in S /\ agents[a].config.timeout > 0
                     THEN [agents[a] EXCEPT !.due = Delay(agents[a].config)] ELSE agents[a]
  BY DEF Retired
<1>2. \A a \in Object : a \in S => agents[a].config \in Config /\ agents[a].due = NotDue
  BY Bounds DEF SoundTable
<1>3. \A a \in Object : /\ R[a] \in Agent /\ R[a].config = agents[a].config
                        /\ R[a].open = agents[a].open /\ R[a].late = agents[a].late
                        /\ R[a].due = IF a \in S /\ agents[a].config.timeout > 0
                                      THEN Delay(agents[a].config) ELSE agents[a].due
  <2>. TAKE a \in Object
  <2>1. agents[a] \in Agent
    BY DEF TypeOK
  <2>2. CASE a \in S /\ agents[a].config.timeout > 0
    <3>. DEFINE d == Delay(agents[a].config)
    <3>1. d \in NotDue .. PlazoMax + Margin
      BY <1>2, <2>2, DelayIsLong, Bounds DEF NotDue, Margin
    <3>2. R[a] = [agents[a] EXCEPT !.due = d]
      BY <1>1, <2>2
    <3>. HIDE DEF d
    <3>3. /\ R[a] \in Agent /\ R[a].config = agents[a].config
          /\ R[a].open = agents[a].open /\ R[a].late = agents[a].late /\ R[a].due = d
      BY <2>1, <3>1, <3>2 DEF Agent
    <3>. QED
      BY <2>2, <3>3 DEF d
  <2>3. CASE ~(a \in S /\ agents[a].config.timeout > 0)
    BY <1>1, <2>1, <2>3
  <2>. QED
    BY <2>2, <2>3
<1>4. R \in [Object -> Agent]
  BY <1>3 DEF Retired
<1>5. \A a \in Object : agents[a] = Unused => R[a] = Unused
  BY <1>1, <1>2, Bounds, UnusedIsAgent
<1>. HIDE DEF R
<1>6. SoundTable(R, table)
  BY <1>3 DEF SoundTable, TypeOK
<1>7. SoundRuns(R, run)
  <2>. SUFFICES ASSUME NEW r \in Run
                PROVE  SoundRuns(R, run)!(r)
    BY DEF SoundRuns
  <2>. DEFINE a == run[r].agent
  <2>1. run[r] \in RunState /\ (a = None \/ a \in Object)
    BY DEF TypeOK, RunState
  <2>2. CASE a \in Object
    <3>1. R[a].config = agents[a].config
      BY <1>3, <2>2
    <3>2. CASE R[a].due = agents[a].due
      BY <2>2, <3>1, <3>2 DEF SoundRuns
    <3>3. CASE R[a].due = Delay(agents[a].config) /\ a \in S
      <4>1. agents[a].config \in Config
        BY <1>2, <2>2, <3>3
      <4>2. Delay(agents[a].config) \in Nat /\ Delay(agents[a].config) > agents[a].config.timeout
        BY <4>1, DelayIsLong, Bounds DEF Margin
      <4>3. agents[a].config.timeout \in Nat /\ run[r].left \in Nat
        BY <2>1, <4>1, Bounds DEF RunState
      <4>. QED
        BY <2>2, <3>1, <3>3, <4>2, <4>3 DEF SoundRuns
    <3>. QED
      BY <1>3, <2>2, <3>2, <3>3
  <2>3. CASE a = None
    BY <2>3 DEF SoundRuns
  <2>. QED
    BY <2>1, <2>2, <2>3
<1>8. SoundClients(R, table)
  BY <1>2, <1>3, DelayIsLong DEF SoundClients, NotDue, TypeOK
<1>. QED
  BY <1>3, <1>4, <1>5, <1>6, <1>7, <1>8 DEF R

LEMMA PersistedType ==
  ASSUME TypeOK, NEW n \in Name, NEW c \in Config, NEW written \in BOOLEAN,
         Persisted(n, c, written)
  PROVE  disk' \in [Name -> Config \cup {NoConfig, Garbled}]
BY DEF TypeOK, Persisted

\* An agent that leaves the table takes nobody else's object with it.
LEMMA WithdrawnSound ==
  ASSUME IInv, NEW n \in Name, Withdrawn(n)
  PROVE  /\ served' \in Table /\ served' = [served EXCEPT ![n] = None]
         /\ agents' \in [Object -> Agent]
         /\ Sound(agents', served', run)
         /\ \A m \in Name : served'[m] # None =>
              agents'[served'[m]].config = agents[served[m]].config
<1>. DEFINE S == {served[n]}
<1>1. served' = [served EXCEPT ![n] = None] /\ served' \in Table
  BY DEF Withdrawn, IInv, TypeOK, Table
<1>2. /\ \A m \in Name : served'[m] = served[m] \/ served'[m] = None
      /\ \A m \in Name : served[m] # None => (served[m] \in S <=> served'[m] = None)
      /\ \A a \in S : a = None \/ \E m \in Name : served[m] = a
  BY <1>1 DEF IInv, TypeOK, Sound, SoundTable
<1>3. /\ Retired(S) \in [Object -> Agent] /\ Sound(Retired(S), served', run)
      /\ \A a \in Object : Retired(S)[a].config = agents[a].config
  BY <1>1, <1>2, RetiredSound DEF IInv
<1>4. agents' = Collected(Retired(S), served', run)
  BY DEF Withdrawn
<1>5. run \in [Run -> RunState]
  BY DEF IInv, TypeOK
<1>. HIDE DEF S
<1>6. /\ agents' \in [Object -> Agent] /\ Sound(agents', served', run)
      /\ \A m \in Name : served'[m] # None =>
           agents'[served'[m]] = Retired(S)[served'[m]]
  <2>. DEFINE R == Retired(S)
  <2>. HIDE DEF R
  <2>1. R \in [Object -> Agent] /\ Sound(R, served', run)
    BY <1>3 DEF R
  <2>2. agents' = Collected(R, served', run)
    BY <1>4 DEF R
  <2>. QED
    BY <1>1, <1>5, <2>1, <2>2, CollectedSound DEF R
<1>7. \A m \in Name : served'[m] # None => served'[m] \in Object /\ served'[m] = served[m]
  BY <1>1, <1>2 DEF Table
<1>. QED
  BY <1>1, <1>3, <1>6, <1>7

\* What the API does to the tables.
LEMMA InitInv == Init => IInv
<1>. SUFFICES ASSUME Init PROVE IInv
  OBVIOUS
<1>1. TypeOK
  BY UnusedIsAgent, IdleIsRun DEF Init, TypeOK, Status
<1>2. ServesWhatIsConfigured /\ CallNotCut
  BY DEF Init, ServesWhatIsConfigured, CallNotCut, Idle
<1>3. Sound(agents, served, run)
  BY UnusedIsAgent DEF Init, Sound, SoundTable, SoundRuns, SoundClients, Idle
<1>. QED
  BY <1>1, <1>2, <1>3 DEF IInv

LEMMA RegisterInv ==
  ASSUME IInv, NEW n \in Name, NEW c \in Config, Register(n, c)
  PROVE  IInv'
<1>. USE DEF Register, IInv
<1>1. TypeOK'
  BY PersistedType DEF TypeOK, Status
<1>2. ServesWhatIsConfigured'
  BY Bounds DEF ServesWhatIsConfigured, TypeOK
<1>3. CallNotCut'
  BY DEF CallNotCut
<1>. QED
  BY <1>1, <1>2, <1>3

LEMMA PauseInv ==
  ASSUME IInv, NEW n \in Name, Pause(n)
  PROVE  IInv'
<1>. USE DEF Pause
<1>1. TypeOK'
  BY WithdrawnSound DEF TypeOK, Status, Table, IInv
<1>2. ServesWhatIsConfigured'
  BY WithdrawnSound DEF ServesWhatIsConfigured, TypeOK, IInv
<1>3. CallNotCut'
  BY DEF CallNotCut, IInv
<1>4. Sound(agents', served', run')
  BY WithdrawnSound
<1>. QED
  BY <1>1, <1>2, <1>3, <1>4 DEF IInv

LEMMA UpdateInv ==
  ASSUME IInv, NEW n \in Name, NEW c \in Config, Update(n, c)
  PROVE  IInv'
<1>. USE DEF Update
<1>1. /\ served' \in Table /\ agents' \in [Object -> Agent] /\ Sound(agents', served', run)
      /\ \A m \in Name : served'[m] = served[m] \/ served'[m] = None
      /\ \A m \in Name \ {n} : served'[m] = served[m]
      /\ \A m \in Name : served'[m] # None =>
           agents'[served'[m]].config = agents[served[m]].config
  BY WithdrawnSound DEF IInv, TypeOK, Table
<1>2. TypeOK'
  BY <1>1, PersistedType DEF TypeOK, Status, Table, IInv
<1>3. ServesWhatIsConfigured'
  BY <1>1, Bounds DEF ServesWhatIsConfigured, TypeOK, IInv
<1>4. CallNotCut'
  BY DEF CallNotCut, IInv
<1>. QED
  BY <1>1, <1>2, <1>3, <1>4 DEF IInv

LEMMA UnregisterInv ==
  ASSUME IInv, NEW n \in Name, Unregister(n)
  PROVE  IInv'
<1>. USE DEF Unregister
<1>1. TypeOK'
  BY WithdrawnSound DEF TypeOK, Status, Table, IInv
<1>2. ServesWhatIsConfigured'
  BY WithdrawnSound DEF ServesWhatIsConfigured, TypeOK, IInv
<1>3. CallNotCut'
  BY DEF CallNotCut, IInv
<1>. QED
  BY <1>1, <1>2, <1>3, WithdrawnSound DEF IInv

\* The new object is free, so nobody holds it yet.
LEMMA DeployInv ==
  ASSUME IInv, NEW n \in Name, Deploy(n)
  PROVE  IInv'
<1>. DEFINE c == configs[n]
            m == c.name
            S == {served[m]}
            old == [served EXCEPT ![m] = None]
<1>0. c \in Config /\ m \in Name
  BY Bounds DEF Deploy, IInv, TypeOK
<1>1. PICK a \in Spare(1) :
        /\ served' = [served EXCEPT ![m] = a]
        /\ agents' = Collected([Retired(S) EXCEPT ![a] = Built(c)], served', run)
  BY DEF Deploy
<1>2. a \in Object /\ agents[a] = Unused
  BY DEF Spare, Free
<1>3. old \in Table /\ served' \in Table /\ run \in [Run -> RunState]
  BY <1>0, <1>1, <1>2 DEF IInv, TypeOK, Table
<1>4. /\ \A k \in Name : old[k] = served[k] \/ old[k] = None
      /\ \A k \in Name : served[k] # None => (served[k] \in S <=> old[k] = None)
      /\ \A o \in S : o = None \/ \E k \in Name : served[k] = o
  <2>. HIDE DEF m
  <2>. QED
    BY <1>0 DEF IInv, TypeOK, Sound, SoundTable
<1>5. /\ Retired(S) \in [Object -> Agent] /\ Sound(Retired(S), old, run)
      /\ Retired(S)[a] = Unused
      /\ \A o \in Object : Retired(S)[o].config = agents[o].config
  <2>. HIDE DEF S, old
  <2>. QED
    BY <1>2, <1>3, <1>4, RetiredSound DEF IInv
<1>. DEFINE new == [Retired(S) EXCEPT ![a] = Built(c)]
<1>6. new \in [Object -> Agent] /\ new[a] = Built(c)
      /\ \A o \in Object : o # a => new[o] = Retired(S)[o]
  BY <1>0, <1>2, <1>5, BuiltIsNew
<1>7. /\ \A k \in Name \ {m} : served'[k] = old[k]
      /\ old[m] = None /\ served'[m] = a
  <2>. HIDE DEF m
  <2>. QED
    BY <1>0, <1>1, <1>3 DEF IInv, TypeOK
<1>8. agents' = Collected(new, served', run)
  BY <1>1
<1>a. m = c.name
  OBVIOUS
<1>. HIDE DEF new, old, S, m
<1>9. Sound(new, served', run')
  <2>. DEFINE R == Retired(S)
              N == {m}
  <2>1. R \in [Object -> Agent] /\ Sound(R, old, run) /\ N \in SUBSET Name
    BY <1>0, <1>5
  <2>2. \A k \in Name \ N : served'[k] = old[k]
    BY <1>7
  <2>3. \A k \in N : /\ old[k] = None /\ served'[k] \in Object /\ R[served'[k]] = Unused
                     /\ new[served'[k]].config \in Config /\ new[served'[k]].due = NotDue
                     /\ ~new[served'[k]].open
    BY <1>0, <1>2, <1>5, <1>6, <1>7, BuiltIsNew
  <2>4. \A k, l \in N : served'[k] = served'[l] => k = l
    OBVIOUS
  <2>5. \A o \in Object : (\A k \in N : served'[k] # o) => new[o] = R[o]
    BY <1>6, <1>7
  <2>6. run' = run
    BY DEF Deploy
  <2>. HIDE DEF R, N
  <2>. QED
    <3>1. Sound(new, served', run)
      BY <1>3, <1>6, <2>1, <2>2, <2>3, <2>4, <2>5, PlacedSound, SMTT(90)
    <3>. QED
      BY <2>6, <3>1
<1>10. /\ agents' \in [Object -> Agent] /\ Sound(agents', served', run')
       /\ \A k \in Name : served'[k] # None => agents'[served'[k]] = new[served'[k]]
  <2>1. run' = run
    BY DEF Deploy
  <2>. QED
    BY <1>3, <1>6, <1>8, <1>9, <2>1, CollectedSound
<1>11. /\ agents'[served'[m]].config = c /\ served'[m] # None
       /\ \A k \in Name \ {m} : served'[k] = served[k] /\ (served'[k] # None =>
            agents'[served'[k]].config = agents[served[k]].config)
  <2>1. served'[m] = a /\ a # None /\ new[a].config = c
    BY <1>0, <1>2, <1>6, <1>7, BuiltIsNew, Bounds
  <2>2. \A k \in Name \ {m} : served'[k] = served[k] /\ (served[k] # None => served[k] # a)
    BY <1>0, <1>1, <1>2, <1>3, UnusedIsAgent, Bounds DEF IInv, TypeOK, Sound, SoundTable
  <2>3. \A k \in Name : served[k] # None => served[k] \in Object
    BY DEF IInv, TypeOK
  <2>. QED
    BY <1>0, <1>5, <1>6, <1>10, <2>1, <2>2, <2>3
<1>12. /\ status' = [status EXCEPT ![n] = "deployed"] /\ errors' = errors \ {n}
       /\ disk' \in [Name -> Config \cup {NoConfig, Garbled}]
       /\ mixed' = IF m = n THEN mixed \ {n} ELSE mixed \cup {n, m}
       /\ UNCHANGED <<up, configs, run>>
  BY <1>0, <1>a, PersistedType DEF Deploy, IInv, TypeOK
<1>13. TypeOK'
  BY <1>0, <1>3, <1>10, <1>12 DEF TypeOK, Status, Table, IInv
<1>14. ServesWhatIsConfigured'
  <2>. SUFFICES ASSUME NEW k \in Name
                PROVE  ServesWhatIsConfigured!(k)'
    BY DEF ServesWhatIsConfigured
  <2>1. ServesWhatIsConfigured!(k)
    BY DEF IInv, ServesWhatIsConfigured
  <2>2. n \notin errors' /\ status'[n] = "deployed" /\ configs'[n] = c
    BY <1>12 DEF IInv, TypeOK
  <2>3. k # n => (status'[k] = status[k] /\ configs'[k] = configs[k] /\ (k \in errors' <=> k \in errors))
    BY <1>12 DEF IInv, TypeOK
  <2>4. CASE k = m /\ m = n
    BY <1>0, <1>11, <1>a, <2>2, <2>4, Bounds
  <2>5. CASE k = m /\ m # n
    BY <1>11, <1>12, <1>a, <2>1, <2>3, <2>5
  <2>6. CASE k # m /\ k = n
    <3>1. k \in mixed' /\ k \notin errors'
      BY <1>12, <2>2, <2>6
    <3>. QED
      BY <1>11, <2>1, <2>6, <3>1
  <2>7. CASE k # m /\ k # n
    <3>1. k \in mixed => k \in mixed'
      BY <1>12, <2>7
    <3>. QED
      BY <1>11, <2>1, <2>3, <2>7, <3>1
  <2>. QED
    BY <2>4, <2>5, <2>6, <2>7
<1>15. CallNotCut'
  BY <1>12 DEF CallNotCut, IInv
<1>. QED
  BY <1>10, <1>12, <1>13, <1>14, <1>15 DEF IInv

-----------------------------------------------------------------------------
(* Loading and stopping.                                                   *)

\* A load puts new objects, one per agent that builds, in an empty table.
Loadable(cs, N, made, place, others) ==
  /\ cs \in [Name -> Config \cup {NoConfig}]
  /\ N \in SUBSET Name
  /\ made \in [N -> Config]
  /\ \A n \in N : made[n].name = n /\ made[n].builds = TRUE /\ cs[n] # NoConfig /\ ~Kept(cs, n)
  /\ \A n \in Builds(cs) : n \in N /\ made[n] = cs[n]
  /\ place \in [N -> Object]
  /\ \A n, m \in N : place[n] = place[m] => n = m
  /\ others \in [Object -> Agent]
  /\ \A n \in N : others[place[n]] = Unused

LEMMA LoadedInv ==
  ASSUME TypeOK, NEW cs, NEW N, NEW made, NEW place, NEW others,
         Loadable(cs, N, made, place, others),
         run' \in [Run -> RunState],
         Sound(others, [n \in Name |-> None], run'),
         Loaded(cs, made, place, others)
  PROVE  /\ configs' \in [Name -> Config \cup {NoConfig}] /\ status' \in [Name -> Status]
         /\ errors' \subseteq Name /\ mixed' \subseteq Name
         /\ served' \in Table /\ agents' \in [Object -> Agent]
         /\ Sound(agents', served', run')
         /\ ServesWhatIsConfigured'
<1>. DEFINE none == [n \in Name |-> None]
            takers(a) == {n \in N : place[n] = a}
            new == [a \in Object |-> IF takers(a) = {} THEN others[a]
                                     ELSE Built(made[CHOOSE n \in takers(a) : TRUE])]
<1>a. /\ cs \in [Name -> Config \cup {NoConfig}] /\ N \in SUBSET Name /\ made \in [N -> Config]
      /\ \A n \in N : made[n].name = n /\ made[n].builds = TRUE /\ cs[n] # NoConfig /\ ~Kept(cs, n)
      /\ \A n \in Builds(cs) : n \in N /\ made[n] = cs[n]
      /\ place \in [N -> Object]
      /\ \A n, m \in N : place[n] = place[m] => n = m
      /\ others \in [Object -> Agent]
      /\ \A n \in N : others[place[n]] = Unused
  BY DEF Loadable
<1>1. /\ configs' = cs
      /\ served' = [n \in Name |-> IF n \in N THEN place[n] ELSE None]
      /\ status' = [n \in Name |-> IF cs[n] = NoConfig THEN "none"
                                   ELSE IF Kept(cs, n) THEN "paused"
                                   ELSE IF cs[n].builds THEN "deployed" ELSE "draft"]
      /\ errors' = Fails(cs)
      /\ mixed' = {n \in N : made[n] # cs[n]}
      /\ agents' = Collected(new, served', run')
  BY <1>a DEF Loaded
<1>2. \A n \in N : made[n] \in Config
  BY <1>a
<1>3. \A n \in N : takers(place[n]) = {n} /\ new[place[n]] = Built(made[n])
  <2>. TAKE n \in N
  <2>1. takers(place[n]) = {n}
    BY <1>a
  <2>2. (CHOOSE m \in takers(place[n]) : TRUE) = n
    BY <2>1
  <2>3. place[n] \in Object
    BY <1>a
  <2>. QED
    BY <2>1, <2>2, <2>3
<1>4. \A a \in Object : (\A n \in N : place[n] # a) => new[a] = others[a]
  OBVIOUS
<1>5. new \in [Object -> Agent]
  <2>. SUFFICES ASSUME NEW a \in Object PROVE new[a] \in Agent
    OBVIOUS
  <2>1. CASE \E n \in N : place[n] = a
    BY <1>2, <1>3, <2>1, BuiltIsNew
  <2>2. CASE \A n \in N : place[n] # a
    BY <1>4, <1>a, <2>2
  <2>. QED
    BY <2>1, <2>2
<1>. HIDE DEF takers, new
<1>0. \A n \in N : /\ served'[n] = place[n] /\ place[n] \in Object /\ place[n] # None
                   /\ new[place[n]].config = made[n] /\ new[place[n]].due = NotDue
                   /\ new[place[n]].open = FALSE
  <2>1. \A n \in N : served'[n] = place[n] /\ place[n] \in Object
    BY <1>1, <1>a
  <2>. SUFFICES ASSUME NEW n \in N
                PROVE  /\ place[n] # None
                       /\ new[place[n]].config = made[n] /\ new[place[n]].due = NotDue
                       /\ new[place[n]].open = FALSE
    BY <2>1
  <2>. DEFINE c == made[n]
  <2>2. c \in Config /\ new[place[n]] = Built(c) /\ place[n] # None
    BY <1>2, <1>3, <2>1, Bounds
  <2>. HIDE DEF c
  <2>3. new[place[n]].config = c /\ new[place[n]].due = NotDue /\ new[place[n]].open = FALSE
    BY <2>2, BuiltIsNew
  <2>. QED
    BY <2>2, <2>3 DEF c
<1>6. none \in Table /\ served' \in Table
  BY <1>1, <1>a DEF Table
<1>7. Sound(new, served', run')
  <2>1. \A n \in Name \ N : served'[n] = none[n]
    BY <1>1
  <2>2. \A n \in N : /\ none[n] = None /\ served'[n] \in Object /\ others[served'[n]] = Unused
                     /\ new[served'[n]].config \in Config /\ new[served'[n]].due = NotDue
                     /\ ~new[served'[n]].open
    BY <1>0, <1>2, <1>a
  <2>3. \A n, m \in N : served'[n] = served'[m] => n = m
    BY <1>1, <1>a
  <2>4. \A a \in Object : (\A n \in N : served'[n] # a) => new[a] = others[a]
    BY <1>1, <1>4, <1>a
  <2>5. Sound(others, none, run')
    OBVIOUS
  <2>. HIDE DEF none
  <2>. QED
    BY <1>5, <1>6, <1>a, <2>1, <2>2, <2>3, <2>4, <2>5, PlacedSound, SMTT(90)
<1>8. /\ agents' \in [Object -> Agent] /\ Sound(agents', served', run')
      /\ \A n \in Name : served'[n] # None => agents'[served'[n]] = new[served'[n]]
  BY <1>1, <1>5, <1>6, <1>7, CollectedSound
<1>9. ServesWhatIsConfigured'
  <2>. SUFFICES ASSUME NEW n \in Name
                PROVE  ServesWhatIsConfigured!(n)'
    BY DEF ServesWhatIsConfigured
  <2>0. n \in errors' => status'[n] = "draft" /\ n \notin Builds(cs)
    BY <1>1 DEF Fails, Builds
  <2>1. CASE n \in N
    <3>1. served'[n] = place[n] /\ place[n] # None /\ new[place[n]].config = made[n]
      BY <1>0, <2>1
    <3>2. agents'[served'[n]].config = made[n] /\ made[n].name = n
      BY <1>8, <1>a, <2>1, <3>1
    <3>3. cs[n] # NoConfig /\ ~Kept(cs, n) /\ (n \notin mixed' => made[n] = cs[n])
      BY <1>1, <1>a, <2>1
    <3>4. status'[n] # "paused"
      BY <1>1, <3>3
    <3>5. n \in errors' => n \in mixed'
      <4>1. n \in errors' => cs[n].builds = FALSE /\ cs[n] \in Config
        BY <1>1, <1>a, Bounds DEF Fails
      <4>2. made[n].builds = TRUE => (n \in errors' => made[n] # cs[n])
        BY <4>1
      <4>. QED
        BY <1>1, <1>a, <2>1, <4>2
    <3>. QED
      BY <1>1, <2>0, <3>1, <3>2, <3>3, <3>4, <3>5
  <2>2. CASE n \notin N
    <3>1. served'[n] = None
      BY <1>1, <2>2
    <3>2. status'[n] # "deployed"
      BY <1>1, <1>a, <2>2 DEF Builds
    <3>. QED
      BY <2>0, <3>1, <3>2
  <2>. QED
    BY <2>1, <2>2
<1>10. status' \in [Name -> Status] /\ errors' \subseteq Name /\ mixed' \subseteq Name
  BY <1>1, <1>a DEF Fails, Status
<1>. QED
  BY <1>1, <1>6, <1>8, <1>9, <1>10, <1>a

LEMMA ReloadInv ==
  ASSUME IInv, Reload
  PROVE  IInv'
<1>. DEFINE S == {served[n] : n \in Name}
            none == [n \in Name |-> None]
<1>1. disk' \in [Name -> Config \cup {NoConfig, Garbled}]
  BY DEF Reload, Edited, IInv, TypeOK
<1>a. PICK cs \in Readings(disk') :
        \E place \in Injection(Builds(cs), Spare(Cardinality(Builds(cs)))) :
          Loaded(cs, [n \in Builds(cs) |-> cs[n]], place, Retired(S))
  BY DEF Reload
<1>. DEFINE made == [n \in Builds(cs) |-> cs[n]]
<1>2. cs \in [Name -> Config \cup {NoConfig}]
  BY DEF Readings
<1>b. /\ Builds(cs) \in SUBSET Name /\ made \in [Builds(cs) -> Config]
      /\ \A n \in Builds(cs) : /\ made[n].name = n /\ made[n].builds = TRUE
                                /\ cs[n] # NoConfig /\ ~Kept(cs, n) /\ made[n] = cs[n]
  <2>. SUFFICES ASSUME NEW n \in Builds(cs)
                PROVE  /\ cs[n] \in Config /\ cs[n].name = n /\ cs[n].builds = TRUE
                       /\ cs[n] # NoConfig /\ ~Kept(cs, n)
    BY DEF Builds
  <2>1. n \in Name /\ cs[n] # NoConfig /\ cs[n].builds /\ ~Kept(cs, n)
    BY DEF Builds
  <2>2. cs[n] \in Files(disk', n)
    BY <2>1 DEF Readings
  <2>. QED
    BY <2>1, <2>2, Bounds DEF Files
<1>3. PICK place \in Injection(Builds(cs), Spare(Cardinality(Builds(cs)))) :
        Loaded(cs, made, place, Retired(S))
  BY <1>a
<1>4. /\ place \in [Builds(cs) -> Object]
      /\ \A n, m \in Builds(cs) : place[n] = place[m] => n = m
      /\ \A n \in Builds(cs) : agents[place[n]] = Unused
  BY <1>3 DEF Injection, IsInjective, Spare, Free
<1>5. /\ none \in Table
      /\ \A n \in Name : none[n] = served[n] \/ none[n] = None
      /\ \A n \in Name : served[n] # None => (served[n] \in S <=> none[n] = None)
      /\ \A a \in S : a = None \/ \E n \in Name : served[n] = a
  BY DEF Table
<1>. HIDE DEF S, none, made
<1>6. /\ Retired(S) \in [Object -> Agent] /\ Sound(Retired(S), none, run)
      /\ \A n \in Builds(cs) : Retired(S)[place[n]] = Unused
  <2>1. /\ Retired(S) \in [Object -> Agent] /\ Sound(Retired(S), none, run)
        /\ \A a \in Object : agents[a] = Unused => Retired(S)[a] = Unused
    BY <1>5, RetiredSound DEF IInv
  <2>. QED
    BY <1>4, <2>1
<1>7. run' = run /\ up' = up /\ run' \in [Run -> RunState]
  BY DEF Reload, IInv, TypeOK
<1>8. /\ configs' \in [Name -> Config \cup {NoConfig}] /\ status' \in [Name -> Status]
      /\ errors' \subseteq Name /\ mixed' \subseteq Name
      /\ served' \in Table /\ agents' \in [Object -> Agent]
      /\ Sound(agents', served', run')
      /\ ServesWhatIsConfigured'
  <2>. DEFINE R == Retired(S)
  <2>1. Sound(R, [n \in Name |-> None], run')
    BY <1>6, <1>7 DEF none
  <2>2. R \in [Object -> Agent] /\ Loaded(cs, made, place, R) /\ \A n \in Builds(cs) : R[place[n]] = Unused
    BY <1>3, <1>6
  <2>. HIDE DEF R
  <2>. DEFINE N == Builds(cs)
  <2>3. Loadable(cs, N, made, place, R)
    <3>1. \A n \in N : R[place[n]] = Unused
      BY <2>2
    <3>. QED
      BY <1>2, <1>4, <1>b, <2>2, <3>1 DEF Loadable
  <2>4. TypeOK
    BY DEF IInv
  <2>. HIDE DEF N
  <2>. QED
    BY <1>7, <2>1, <2>2, <2>3, <2>4, LoadedInv
<1>9. TypeOK'
  BY <1>1, <1>7, <1>8 DEF TypeOK, IInv, Table
<1>10. CallNotCut'
  BY <1>7 DEF CallNotCut, IInv
<1>. QED
  BY <1>8, <1>9, <1>10 DEF IInv

LEMMA BootInv ==
  ASSUME IInv, Boot
  PROVE  IInv'
<1>. DEFINE unused == [a \in Object |-> Unused]
<1>1. disk' \in [Name -> Config \cup {NoConfig, Garbled}]
  BY DEF Boot, Edited, IInv, TypeOK
<1>0. PICK cs \in Readings(disk') : \E made \in Makings(disk', cs) :
        \E place \in Injection(DOMAIN made, {a \in Object : a <= Cardinality(DOMAIN made)}) :
          Loaded(cs, made, place, unused)
  BY DEF Boot
<1>2. PICK made \in Makings(disk', cs) :
        \E place \in Injection(DOMAIN made, {a \in Object : a <= Cardinality(DOMAIN made)}) :
          Loaded(cs, made, place, unused)
  BY <1>0
<1>. DEFINE N == {n \in Name : {c \in Files(disk', n) : c.builds} # {} /\ ~Kept(cs, n)}
<1>3. /\ N \in SUBSET Name /\ made \in [N -> Config]
      /\ \A n \in N : /\ made[n] \in Files(disk', n) /\ made[n].builds
                      /\ cs[n].builds => made[n] = cs[n]
  BY DEF Makings
<1>a. DOMAIN made = N
  BY <1>3
<1>b. PICK place \in Injection(N, {a \in Object : a <= Cardinality(N)}) :
        Loaded(cs, made, place, unused)
  BY <1>2, <1>a
<1>c. cs \in [Name -> Config \cup {NoConfig}]
  BY DEF Readings
<1>f. \A n \in N : /\ made[n].name = n /\ made[n].builds = TRUE
                   /\ cs[n] # NoConfig /\ ~Kept(cs, n)
  <2>. SUFFICES ASSUME NEW n \in N
                PROVE  /\ made[n].name = n /\ made[n].builds = TRUE
                       /\ cs[n] # NoConfig /\ ~Kept(cs, n)
    OBVIOUS
  <2>1. made[n] \in Config /\ made[n].name = n /\ made[n].builds = TRUE /\ Files(disk', n) # {}
    BY <1>3, Bounds DEF Files
  <2>2. cs[n] \in Files(disk', n)
    BY <2>1 DEF Readings
  <2>. QED
    BY <2>1, <2>2, Bounds DEF Files
<1>g. \A n \in Builds(cs) : n \in N /\ made[n] = cs[n]
  <2>. SUFFICES ASSUME NEW n \in Builds(cs) PROVE n \in N /\ made[n] = cs[n]
    OBVIOUS
  <2>1. n \in Name /\ cs[n] # NoConfig /\ cs[n].builds /\ ~Kept(cs, n)
    BY DEF Builds
  <2>2. cs[n] \in Files(disk', n)
    BY <2>1 DEF Readings
  <2>. QED
    BY <1>3, <2>1, <2>2
<1>4. /\ place \in [N -> Object]
      /\ \A n, m \in N : place[n] = place[m] => n = m
  BY <1>b DEF Injection, IsInjective
<1>5. unused \in [Object -> Agent] /\ (\A n \in N : unused[place[n]] = Unused)
  BY <1>4, UnusedIsAgent
<1>6. run' = [r \in Run |-> Idle] /\ run' \in [Run -> RunState]
  BY IdleIsRun DEF Boot
<1>7. Sound(unused, [n \in Name |-> None], run')
  BY <1>6, UnusedIsAgent DEF Sound, SoundTable, SoundRuns, SoundClients, Idle
<1>. HIDE DEF unused, N
<1>8. /\ configs' \in [Name -> Config \cup {NoConfig}] /\ status' \in [Name -> Status]
      /\ errors' \subseteq Name /\ mixed' \subseteq Name
      /\ served' \in Table /\ agents' \in [Object -> Agent]
      /\ Sound(agents', served', run')
      /\ ServesWhatIsConfigured'
  <2>1. Loadable(cs, N, made, place, unused)
    BY <1>3, <1>4, <1>5, <1>c, <1>f, <1>g DEF Loadable
  <2>2. TypeOK
    BY DEF IInv
  <2>. QED
    BY <1>6, <1>7, <1>b, <2>1, <2>2, LoadedInv
<1>9. up' = TRUE
  BY DEF Boot
<1>10. TypeOK'
  BY <1>1, <1>6, <1>8, <1>9 DEF TypeOK, Table
<1>11. CallNotCut'
  BY <1>6 DEF CallNotCut, Idle
<1>. QED
  BY <1>8, <1>10, <1>11 DEF IInv

LEMMA ShutdownInv ==
  ASSUME IInv, Shutdown
  PROVE  IInv'
<1>1. /\ agents' \in [Object -> Agent]
      /\ \A a \in Object : /\ agents'[a].config = agents[a].config
                          /\ \/ agents'[a].open = FALSE
                             \/ ~Serving(a) /\ agents[a].due = NotDue /\ agents'[a] = agents[a]
  <2>1. \A a \in Object :
          agents'[a] = IF Serving(a) \/ agents[a].due # NotDue
                       THEN [agents[a] EXCEPT !.open = FALSE, !.due = NotDue] ELSE agents[a]
    BY DEF Shutdown
  <2>2. \A a \in Object : agents[a] \in Agent /\ NotDue \in NotDue .. PlazoMax + Margin
    BY Bounds DEF IInv, TypeOK, NotDue, Margin
  <2>3. \A a \in Object :
          LET closed == [agents[a] EXCEPT !.open = FALSE, !.due = NotDue]
          IN  closed \in Agent /\ closed.config = agents[a].config /\ closed.open = FALSE
    BY <2>2 DEF Agent
  <2>4. agents' \in [Object -> Agent]
    BY <2>2, <2>3 DEF Shutdown
  <2>. QED
    BY <2>1, <2>2, <2>3, <2>4
<1>2. run' = run /\ \A r \in Run : run[r] = Idle
  BY DEF Shutdown
<1>3. TypeOK'
  BY <1>1, <1>2 DEF Shutdown, Forgotten, IInv, TypeOK, Status
<1>4. ServesWhatIsConfigured' /\ CallNotCut'
  BY <1>2 DEF Shutdown, Forgotten, ServesWhatIsConfigured, CallNotCut, IInv, TypeOK, Idle
<1>5. \A a \in Object : agents'[a].open => agents'[a].late
  <2>. SUFFICES ASSUME NEW a \in Object, agents'[a].open, ~agents'[a].late
                PROVE  FALSE
    OBVIOUS
  <2>1. agents'[a] = agents[a] /\ ~Serving(a) /\ agents[a].due = NotDue
    BY <1>1
  <2>. QED
    BY <2>1 DEF IInv, Sound, SoundClients, Serving
<1>6. Sound(agents', served', run')
  <2>0. served' = [n \in Name |-> None]
    BY DEF Shutdown, Forgotten
  <2>1. \A r \in Run : run'[r].agent = None /\ run'[r].call = "none"
    <3>1. \A r \in Run : run'[r] = Idle
      BY <1>2
    <3>. QED
      BY <3>1 DEF Idle
  <2>. QED
    BY <1>5, <2>0, <2>1 DEF Sound, SoundTable, SoundRuns, SoundClients
<1>. QED
  BY <1>3, <1>4, <1>6 DEF IInv

LEMMA CrashInv ==
  ASSUME IInv, Crash
  PROVE  IInv'
<1>. USE DEF Crash, Forgotten
<1>1. TypeOK'
  BY UnusedIsAgent, IdleIsRun DEF IInv, TypeOK, Status
<1>2. ServesWhatIsConfigured' /\ CallNotCut'
  BY DEF ServesWhatIsConfigured, CallNotCut, Idle
<1>3. Sound(agents', served', run')
  BY UnusedIsAgent DEF Sound, SoundTable, SoundRuns, SoundClients, Idle
<1>. QED
  BY <1>1, <1>2, <1>3 DEF IInv

-----------------------------------------------------------------------------
(* Runs and time.                                                          *)

\* A run that lets go of its object changes nobody else's.
LEMMA RunSound ==
  ASSUME IInv, NEW r \in Run, NEW x \in RunState, NEW ags \in [Object -> Agent],
         SoundTable(ags, served), SoundClients(ags, served),
         \A a \in Object : ags[a].config = agents[a].config /\ ags[a].due = agents[a].due,
         /\ x.agent # None => agents[x.agent].config \in Config
         /\ x.call # "none" => x.agent # None
         /\ x.call = "waiting" => x.left <= agents[x.agent].config.timeout
         /\ x.call = "waiting" /\ ~x.late /\ agents[x.agent].due # NotDue
              => x.left < agents[x.agent].due
  PROVE  Sound(ags, served, [run EXCEPT ![r] = x])
<1>. DEFINE runs == [run EXCEPT ![r] = x]
<1>1. /\ runs[r] = x /\ \A q \in Run \ {r} : runs[q] = run[q]
      /\ \A q \in Run : runs[q].agent = None \/ runs[q].agent \in Object
  BY DEF IInv, TypeOK, RunState
<1>. HIDE DEF runs
<1>2. SoundRuns(ags, runs)
  <2>. SUFFICES ASSUME NEW q \in Run
                PROVE  SoundRuns(ags, runs)!(q)
    BY DEF SoundRuns
  <2>. DEFINE o == runs[q].agent
  <2>1. o # None => ags[o].config = agents[o].config /\ ags[o].due = agents[o].due
    BY <1>1
  <2>2. CASE q = r
    BY <1>1, <2>1, <2>2
  <2>3. CASE q # r
    <3>1. runs[q] = run[q]
      BY <1>1, <2>3
    <3>2. SoundRuns(agents, run)!(q)
      BY DEF IInv, Sound, SoundRuns
    <3>. QED
      BY <2>1, <3>1, <3>2
  <2>. QED
    BY <2>2, <2>3
<1>. QED
  BY <1>2 DEF Sound, runs

LEMMA StartRunInv ==
  ASSUME IInv, NEW r \in Run, NEW n \in Name, StartRun(r, n)
  PROVE  IInv'
<1>. DEFINE x == [Idle EXCEPT !.agent = served[n]]
<1>1. /\ x \in RunState /\ x.agent = served[n] /\ x.call = "none"
      /\ run' = [run EXCEPT ![r] = x]
  BY IdleIsRun DEF StartRun, IInv, TypeOK, RunState, Idle
<1>2. agents[served[n]].config \in Config
  BY DEF StartRun, IInv, Sound, SoundTable
<1>. HIDE DEF x
<1>3. Sound(agents', served', run')
  <2>1. Sound(agents, served, [run EXCEPT ![r] = x])
    BY <1>1, <1>2, RunSound DEF IInv, TypeOK, Sound
  <2>. QED
    BY <1>1, <2>1 DEF StartRun, registry
<1>4. TypeOK' /\ ServesWhatIsConfigured' /\ CallNotCut'
  BY <1>1 DEF StartRun, registry, IInv, TypeOK, ServesWhatIsConfigured, CallNotCut
<1>. QED
  BY <1>3, <1>4 DEF IInv

LEMMA CallRemoteInv ==
  ASSUME IInv, NEW r \in Run, CallRemote(r)
  PROVE  IInv'
<1>. DEFINE a == run[r].agent
            c == agents[a].config
            x == [run[r] EXCEPT !.call = "waiting", !.left = c.timeout, !.late = ~Serving(a)]
            lost == agents[a].late \/ (~Serving(a) /\ agents[a].due = NotDue)
            called == [agents[a] EXCEPT !.open = TRUE, !.late = lost]
            ags == [agents EXCEPT ![a] = called]
<1>1. a \in Object /\ c \in Config /\ c.timeout > 0 /\ c.timeout \in 0 .. TimeoutMax
  BY Bounds DEF CallRemote, IInv, TypeOK, RunState, Sound, SoundRuns
<1>2. run' = [run EXCEPT ![r] = x] /\ agents' = ags
  BY DEF CallRemote, IInv, TypeOK
<1>3. run[r] \in RunState /\ agents[a] \in Agent
  BY <1>1 DEF IInv, TypeOK
<1>4. /\ x \in RunState /\ x.agent = a /\ x.call = "waiting" /\ x.left = c.timeout
      /\ x.late \/ Serving(a)
  BY <1>1, <1>3 DEF RunState, Serving
<1>5. /\ called \in Agent /\ called.config = c /\ called.due = agents[a].due
      /\ called.late = lost
  BY <1>1, <1>3 DEF Agent, Serving
<1>. HIDE DEF called, x, lost
<1>6. /\ ags \in [Object -> Agent] /\ ags[a] = called
      /\ \A o \in Object : o # a => ags[o] = agents[o]
  BY <1>1, <1>5 DEF IInv, TypeOK
<1>. HIDE DEF ags
<1>7. \A o \in Object : ags[o].config = agents[o].config /\ ags[o].due = agents[o].due
  BY <1>5, <1>6
<1>8. SoundTable(ags, served)
  BY <1>7 DEF IInv, Sound, SoundTable, TypeOK
<1>9. SoundClients(ags, served)
  <2>. SUFFICES ASSUME NEW o \in Object, ags[o].open, ~ags[o].late
                PROVE  /\ ags[o].config \in Config /\ ags[o].config.timeout > 0
                       /\ (\E n \in Name : served[n] = o) \/ ags[o].due # NotDue
    BY DEF SoundClients
  <2>1. CASE o = a
    BY <1>1, <1>5, <1>6, <2>1 DEF lost, Serving
  <2>2. CASE o # a
    BY <1>6, <2>2 DEF IInv, Sound, SoundClients
  <2>. QED
    BY <2>1, <2>2
<1>10. ~x.late => agents[a].due = NotDue
  BY <1>1, <1>4, Bounds DEF Serving, IInv, Sound, SoundTable, TypeOK
<1>11. /\ x.agent # None => agents[x.agent].config \in Config
       /\ x.call # "none" => x.agent # None
       /\ x.call = "waiting" => x.left <= agents[x.agent].config.timeout
       /\ x.call = "waiting" /\ ~x.late /\ agents[x.agent].due # NotDue
            => x.left < agents[x.agent].due
  BY <1>1, <1>4, <1>10, Bounds
<1>. HIDE DEF a, c
<1>12. Sound(ags, served, [run EXCEPT ![r] = x])
  BY <1>4, <1>6, <1>7, <1>8, <1>9, <1>11, RunSound
<1>13. UNCHANGED <<up, disk, configs, status, errors, served, mixed>>
  BY DEF CallRemote, registry
<1>14. TypeOK'
  BY <1>2, <1>4, <1>6, <1>13 DEF IInv, TypeOK
<1>15. CallNotCut'
  BY <1>2, <1>4, <1>13 DEF IInv, TypeOK, CallNotCut
<1>16. ServesWhatIsConfigured'
  BY <1>2, <1>7, <1>13 DEF IInv, TypeOK, ServesWhatIsConfigured
<1>. QED
  BY <1>2, <1>12, <1>13, <1>14, <1>15, <1>16 DEF IInv

LEMMA CallEndsInv ==
  ASSUME IInv, NEW r \in Run, CallEnds(r)
  PROVE  IInv'
<1>. DEFINE x == [run[r] EXCEPT !.call = "none", !.left = 0, !.late = FALSE]
<1>1. run' = [run EXCEPT ![r] = x]
  BY DEF CallEnds, IInv, TypeOK
<1>2. x \in RunState /\ x.agent = run[r].agent /\ x.call = "none"
  <2>1. run[r] \in RunState /\ 0 \in 0 .. TimeoutMax
    BY Bounds DEF IInv, TypeOK
  <2>. QED
    BY <2>1 DEF RunState
<1>. HIDE DEF x
<1>3. Sound(agents, served, [run EXCEPT ![r] = x])
  BY <1>2, RunSound DEF IInv, TypeOK, Sound, SoundRuns
<1>4. UNCHANGED <<up, disk, configs, status, errors, served, mixed, agents>>
  BY DEF CallEnds, registry
<1>5. TypeOK' /\ ServesWhatIsConfigured' /\ CallNotCut'
  BY <1>1, <1>2, <1>4 DEF IInv, TypeOK, ServesWhatIsConfigured, CallNotCut
<1>. QED
  BY <1>1, <1>3, <1>4, <1>5 DEF IInv

LEMMA RunEndsInv ==
  ASSUME IInv, NEW r \in Run, RunEnds(r)
  PROVE  IInv'
<1>1. run' = [run EXCEPT ![r] = Idle] /\ agents' = Collected(agents, served, run')
  BY DEF RunEnds
<1>2. Sound(agents, served, run') /\ run' \in [Run -> RunState]
  BY <1>1, IdleIsRun, RunSound DEF IInv, TypeOK, Sound, Idle
<1>3. /\ agents' \in [Object -> Agent] /\ Sound(agents', served, run')
      /\ \A n \in Name : served[n] # None => agents'[served[n]] = agents[served[n]]
  <2>. DEFINE C == Collected(agents, served, run')
  <2>1. /\ C \in [Object -> Agent] /\ Sound(C, served, run')
        /\ \A n \in Name : served[n] # None => C[served[n]] = agents[served[n]]
    BY <1>2, CollectedSound DEF IInv, TypeOK, Table
  <2>. QED
    BY <1>1, <2>1
<1>4. UNCHANGED <<up, disk, configs, status, errors, served, mixed>>
  BY DEF RunEnds, registry
<1>5. TypeOK' /\ ServesWhatIsConfigured'
  BY <1>2, <1>3, <1>4 DEF IInv, TypeOK, ServesWhatIsConfigured
<1>6. CallNotCut'
  BY <1>1 DEF IInv, TypeOK, CallNotCut, Idle
<1>. QED
  BY <1>3, <1>4, <1>5, <1>6 DEF IInv

\* A call that its run began while the agent served has ended by now.
LEMMA CloseInv ==
  ASSUME IInv, NEW a \in Object, Close(a)
  PROVE  IInv'
<1>. DEFINE cut(r) == run[r].agent = a /\ run[r].call = "waiting"
            closed == [agents[a] EXCEPT !.due = NotDue, !.open = FALSE]
            ags == [agents EXCEPT ![a] = closed]
<1>1. \A r \in Run : /\ run[r] \in RunState /\ run'[r] \in RunState
                     /\ \/ run'[r] = run[r] /\ ~cut(r)
                        \/ /\ cut(r) /\ run'[r].agent = run[r].agent
                           /\ run'[r].late = run[r].late /\ run'[r].call = "cut"
  <2>. TAKE r \in Run
  <2>1. run[r] \in RunState /\ 0 \in 0 .. TimeoutMax
    BY Bounds DEF IInv, TypeOK
  <2>2. CASE cut(r)
    <3>1. run'[r] = [run[r] EXCEPT !.call = "cut", !.left = 0]
      BY <2>2 DEF Close
    <3>. QED
      BY <2>1, <2>2, <3>1 DEF RunState
  <2>3. CASE ~cut(r)
    <3>1. run'[r] = run[r]
      BY <2>3 DEF Close
    <3>. QED
      BY <2>1, <2>3, <3>1
  <2>. QED
    BY <2>2, <2>3
<1>2. run' \in [Run -> RunState]
  BY <1>1 DEF Close
<1>3. \A r \in Run : cut(r) => run[r].late
  <2>. SUFFICES ASSUME NEW r \in Run, cut(r), ~run[r].late
                PROVE  FALSE
    OBVIOUS
  <2>1. agents[a].due = 0 /\ agents[a].due # NotDue
    <3>1. agents[a].due = 0
      BY DEF Close
    <3>. QED
      BY <3>1 DEF NotDue
  <2>2. SoundRuns(agents, run)!(r)
    BY DEF IInv, Sound, SoundRuns
  <2>3. run[r].left < agents[a].due
    BY <2>1, <2>2
  <2>4. run[r].left \in Nat
    BY <1>1, Bounds DEF RunState
  <2>. QED
    BY <2>1, <2>3, <2>4
<1>4. agents[a] \in Agent /\ closed \in Agent /\ closed.config = agents[a].config
      /\ closed.due = NotDue /\ closed.open = FALSE
  <2>1. agents[a] \in Agent /\ NotDue \in NotDue .. PlazoMax + Margin
    BY Bounds DEF IInv, TypeOK, NotDue, Margin
  <2>. QED
    BY <2>1 DEF Agent
<1>. HIDE DEF closed
<1>5. /\ ags \in [Object -> Agent] /\ ags[a] = closed
      /\ \A o \in Object : o # a => ags[o] = agents[o]
  BY <1>4 DEF IInv, TypeOK
<1>6. agents' = Collected(ags, served, run)
  BY DEF Close, closed
<1>. HIDE DEF ags
<1>7. SoundTable(ags, served)
  BY <1>4, <1>5 DEF IInv, Sound, SoundTable, TypeOK
<1>8. SoundClients(ags, served)
  BY <1>4, <1>5 DEF IInv, Sound, SoundClients
<1>9. \A o \in Object : /\ ags[o].config = agents[o].config
                        /\ ags[o].due # NotDue => ags[o].due = agents[o].due
  BY <1>4, <1>5
<1>10. SoundRuns(ags, run)
  <2>. SUFFICES ASSUME NEW r \in Run
                PROVE  SoundRuns(ags, run)!(r)
    BY DEF SoundRuns
  <2>1. run[r].agent = None \/ run[r].agent \in Object
    BY <1>1 DEF RunState
  <2>2. SoundRuns(agents, run)!(r)
    BY DEF IInv, Sound, SoundRuns
  <2>. QED
    BY <1>9, <2>1, <2>2
<1>11. /\ agents' \in [Object -> Agent] /\ Sound(agents', served, run)
       /\ \A n \in Name : served[n] # None => agents'[served[n]] = ags[served[n]]
  BY <1>5, <1>6, <1>7, <1>8, <1>10, CollectedSound DEF IInv, TypeOK, Table, Sound
<1>12. SoundRuns(agents', run')
  <2>. SUFFICES ASSUME NEW r \in Run
                PROVE  SoundRuns(agents', run')!(r)
    BY DEF SoundRuns
  <2>1. SoundRuns(agents', run)!(r)
    BY <1>11 DEF Sound, SoundRuns
  <2>. QED
    BY <1>1, <2>1
<1>13. UNCHANGED <<up, disk, configs, status, errors, served, mixed>>
  BY DEF Close, registry
<1>14. TypeOK'
  BY <1>2, <1>11, <1>13 DEF IInv, TypeOK
<1>15. CallNotCut'
  BY <1>1, <1>3 DEF IInv, CallNotCut
<1>16. ServesWhatIsConfigured'
  BY <1>9, <1>11, <1>13 DEF IInv, TypeOK, ServesWhatIsConfigured
<1>. QED
  BY <1>11, <1>12, <1>13, <1>14, <1>15, <1>16 DEF IInv, Sound

\* Time brings the end of every call and the close as near.
LEMMA TickInv ==
  ASSUME IInv, Tick
  PROVE  IInv'
<1>1. \A a \in Object :
        /\ agents[a] \in Agent /\ agents'[a] \in Agent
        /\ agents'[a].config = agents[a].config /\ agents'[a].open = agents[a].open
        /\ agents'[a].late = agents[a].late
        /\ agents'[a].due = Sooner(agents[a].due)
  <2>. TAKE a \in Object
  <2>1. agents[a] \in Agent /\ agents'[a] = [agents[a] EXCEPT !.due = Sooner(agents[a].due)]
    BY DEF Tick, IInv, TypeOK
  <2>2. Sooner(agents[a].due) \in NotDue .. PlazoMax + Margin
    BY <2>1, Bounds DEF Agent, Sooner, NotDue, Margin
  <2>. QED
    BY <2>1, <2>2 DEF Agent
<1>2. \A r \in Run :
        /\ run[r] \in RunState /\ run'[r] \in RunState
        /\ run'[r].agent = run[r].agent /\ run'[r].call = run[r].call
        /\ run'[r].late = run[r].late /\ run'[r].left = Sooner(run[r].left)
        /\ run[r].left \in Nat
  <2>. TAKE r \in Run
  <2>1. run[r] \in RunState /\ run'[r] = [run[r] EXCEPT !.left = Sooner(run[r].left)]
    BY DEF Tick, IInv, TypeOK
  <2>2. Sooner(run[r].left) \in 0 .. TimeoutMax /\ run[r].left \in Nat
    BY <2>1, Bounds DEF RunState, Sooner
  <2>. QED
    BY <2>1, <2>2 DEF RunState
<1>3. agents' \in [Object -> Agent] /\ run' \in [Run -> RunState]
  BY <1>1, <1>2 DEF Tick
<1>4. UNCHANGED <<up, disk, configs, status, errors, served, mixed>>
  BY DEF Tick, registry
<1>5. \A a \in Object : (agents[a].due = NotDue <=> agents'[a].due = NotDue)
                        /\ agents[a].due \in Int
  BY <1>1, Bounds DEF Agent, Sooner, NotDue, Margin
<1>6. SoundTable(agents', served')
  BY <1>1, <1>4, <1>5 DEF IInv, Sound, SoundTable, TypeOK
<1>7. SoundClients(agents', served')
  BY <1>1, <1>4, <1>5 DEF IInv, Sound, SoundClients
<1>8. SoundRuns(agents', run')
  <2>. SUFFICES ASSUME NEW r \in Run
                PROVE  SoundRuns(agents', run')!(r)
    BY DEF SoundRuns
  <2>. DEFINE a == run[r].agent
  <2>1. SoundRuns(agents, run)!(r) /\ (a = None \/ a \in Object)
    BY <1>2 DEF IInv, Sound, SoundRuns, RunState
  <2>2. CASE a = None
    BY <1>2, <2>1, <2>2
  <2>3. CASE a \in Object /\ run[r].call # "waiting"
    BY <1>1, <1>2, <2>1, <2>3
  <2>4. CASE a \in Object /\ run[r].call = "waiting"
    <3>1. run[r].left > 0 /\ run'[r].left = run[r].left - 1
      BY <1>2, <2>4 DEF Tick, Sooner
    <3>2. /\ agents[a].config \in Config /\ agents[a].config.timeout \in Nat
          /\ a # None
      BY <2>1, <2>4, Bounds
    <3>3. run'[r].left <= agents'[a].config.timeout
      BY <1>1, <1>2, <2>1, <2>4, <3>1, <3>2
    <3>4. ~run[r].late /\ agents'[a].due # NotDue => run'[r].left < agents'[a].due
      <4>. SUFFICES ASSUME ~run[r].late, agents'[a].due # NotDue
                    PROVE  run'[r].left < agents'[a].due
        OBVIOUS
      <4>1. run[r].left < agents[a].due /\ agents[a].due \in Int
        BY <1>5, <2>1, <2>4
      <4>2. agents'[a].due = agents[a].due - 1
        BY <1>1, <1>2, <2>4, <4>1 DEF Sooner
      <4>. QED
        BY <1>2, <3>1, <4>1, <4>2
    <3>. QED
      BY <1>1, <1>2, <2>4, <3>2, <3>3, <3>4
  <2>. QED
    BY <2>1, <2>2, <2>3, <2>4
<1>9. TypeOK'
  BY <1>3, <1>4 DEF IInv, TypeOK
<1>10. CallNotCut'
  BY <1>2 DEF IInv, CallNotCut
<1>11. ServesWhatIsConfigured'
  BY <1>1, <1>4 DEF IInv, TypeOK, ServesWhatIsConfigured
<1>. QED
  BY <1>6, <1>7, <1>8, <1>9, <1>10, <1>11 DEF IInv, Sound

LEMMA StutterInv ==
  ASSUME IInv, UNCHANGED vars
  PROVE  IInv'
BY DEF vars, IInv, TypeOK, ServesWhatIsConfigured, CallNotCut, Sound, SoundTable, SoundRuns,
       SoundClients

LEMMA NextInv == IInv /\ [Next]_vars => IInv'
<1>. SUFFICES ASSUME IInv, [Next]_vars PROVE IInv'
  OBVIOUS
<1>1. ASSUME NEW n \in Name, NEW c \in Config, Register(n, c) \/ Update(n, c) PROVE IInv'
  BY <1>1, RegisterInv, UpdateInv
<1>2. ASSUME NEW n \in Name, Deploy(n) \/ Pause(n) \/ Unregister(n) PROVE IInv'
  BY <1>2, DeployInv, PauseInv, UnregisterInv
<1>3. ASSUME NEW n \in Name, NEW r \in Run, StartRun(r, n) PROVE IInv'
  BY <1>3, StartRunInv
<1>4. CASE Reload \/ Boot \/ Shutdown \/ Crash \/ Tick
  BY <1>4, ReloadInv, BootInv, ShutdownInv, CrashInv, TickInv
<1>5. ASSUME NEW r \in Run, CallRemote(r) \/ CallEnds(r) \/ RunEnds(r) PROVE IInv'
  BY <1>5, CallRemoteInv, CallEndsInv, RunEndsInv
<1>6. ASSUME NEW a \in Object, Close(a) PROVE IInv'
  BY <1>6, CloseInv
<1>. QED
  BY <1>1, <1>2, <1>3, <1>4, <1>5, <1>6, StutterInv DEF Next

-----------------------------------------------------------------------------
(* What holds in every behaviour.                                          *)

\* The inductive invariant.
THEOREM RegistryInvariant == Spec => []IInv
<1>. QED
  BY InitInv, NextInv, PTL DEF Spec

\* The tables, the agent objects and the runs keep their types.
THEOREM RegistryTypeCorrect == Spec => []TypeOK
<1>1. IInv => TypeOK
  BY DEF IInv
<1>. QED
  BY <1>1, RegistryInvariant, PTL

\* engine.py:543-733, 1613-1672: what is deployed serves its configuration,
\* through every mix of API calls, reloads and restarts, and a configuration
\* that names another agent than its path mixes up no name but those two.
THEOREM DeployedServesItsConfig == Spec => []ServesWhatIsConfigured
<1>1. IInv => ServesWhatIsConfigured
  BY DEF IInv
<1>. QED
  BY <1>1, RegistryInvariant, PTL

\* engine.py:599-627: the delay of _cerrar_reemplazados is long enough for
\* every call that was under way, whatever the timeouts of the agent's tools.
THEOREM ReplacedAgentsFinishTheirCalls == Spec => []CallNotCut
<1>1. IInv => CallNotCut
  BY DEF IInv
<1>. QED
  BY <1>1, RegistryInvariant, PTL

\* engine.py:580-597: no client of an agent that was replaced, paused or
\* removed stays open without a close to come, but for one opened after it.
THEOREM NoClientForgotten == Spec => []OpenClientHasCloser
<1>1. IInv => OpenClientHasCloser
  BY DEF IInv, Sound, SoundClients, OpenClientHasCloser, Serving
<1>. QED
  BY <1>1, RegistryInvariant, PTL

=============================================================================
