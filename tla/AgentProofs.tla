---------------------------- MODULE AgentProofs ----------------------------
(***************************************************************************)
(* Proofs about AgentRun, for every team, cost, width and limit; about     *)
(* ModelRouter, which a run asks for its models, for any number of         *)
(* providers and requests and every strategy; and about AgentChain, which  *)
(* runs agents one after another, for any agents and chains of them.       *)
(***************************************************************************)
EXTENDS AgentRun, ModelRouter, AgentChain, SequenceTheorems, FiniteSetTheorems, WellFoundedInduction, TLAPS

-----------------------------------------------------------------------------
(* Sums over finite sets.                                                  *)

\* A set of subsets of a finite set S that some subset is not in misses one
\* whose strict subsets it all has.
LEMMA SmallestMissing ==
  ASSUME NEW S, IsFiniteSet(S), NEW G, NEW A \in SUBSET S, A \notin G
  PROVE  \E M \in SUBSET S : M \notin G /\ \A K \in SUBSET M : K # M => K \in G
<1> DEFINE Missing == {K \in SUBSET S : K \notin G}
<1>1. Missing \subseteq FiniteSubsetsOf(S) /\ Missing # {}
  BY FS_FiniteSubsetsOfFinite, Zenon
<1>2. PICK M \in Missing : \A K \in Missing : ~(<<K, M>> \in StrictSubsetOrdering(S))
  <2> HIDE DEF Missing
  <2> QED BY <1>1, WFMin, FS_StrictSubsetOrderingWellFounded, Zenon
<1>3. \A K \in SUBSET M : K # M /\ K \notin G => FALSE
  <2> SUFFICES ASSUME NEW K \in SUBSET M, K # M, K \notin G PROVE FALSE
    OBVIOUS
  <2>1. K \in Missing OBVIOUS
  <2>2. <<K, M>> \in StrictSubsetOrdering(S) BY <1>2, <2>1 DEF StrictSubsetOrdering
  <2> QED BY <1>2, <2>1, <2>2
<1> QED BY <1>2, <1>3

Picked(s) == CHOOSE x \in s : TRUE

\* What g is for every subset of S when it sums v.
Summing(v, g, S) ==
  [s \in SUBSET S |-> IF s = {} THEN 0 ELSE v[Picked(s)] + g[s \ {Picked(s)}]]

SumsOf(v, S) == CHOOSE g : g = Summing(v, g, S)

LEMMA SumIs == ASSUME NEW v, NEW S PROVE SumFunctionOnSet(v, S) = SumsOf(v, S)[S]
BY DEF SumFunctionOnSet, FoldFunctionOnSet, MapThenFoldSet, SumsOf, Summing, Picked

\* Two functions that sum what agrees on S agree on the subsets of S.
LEMMA SumsAgree ==
  ASSUME NEW v, NEW w, NEW T, IsFiniteSet(T), NEW S \in SUBSET T, \A x \in S : v[x] = w[x],
         NEW g, NEW h, g = Summing(v, g, S), h = Summing(w, h, T)
  PROVE  \A s \in SUBSET S : g[s] = h[s]
<1> DEFINE Same == {s \in SUBSET S : g[s] = h[s]}
<1>0. IsFiniteSet(S) BY FS_Subset
<1> SUFFICES ASSUME NEW A \in SUBSET S, A \notin Same PROVE FALSE
  OBVIOUS
<1>1. PICK M \in SUBSET S : M \notin Same /\ \A K \in SUBSET M : K # M => K \in Same
  <2> HIDE DEF Same
  <2> QED BY <1>0, SmallestMissing
<1>2. g[M] = IF M = {} THEN 0 ELSE v[Picked(M)] + g[M \ {Picked(M)}]
  BY DEF Summing
<1>3. h[M] = IF M = {} THEN 0 ELSE w[Picked(M)] + h[M \ {Picked(M)}]
  BY DEF Summing
<1>4. CASE M = {} BY <1>1, <1>2, <1>3, <1>4
<1>5. CASE M # {}
  <2>1. Picked(M) \in M BY <1>5 DEF Picked
  <2>2. M \ {Picked(M)} \in Same BY <1>1, <2>1
  <2> QED BY <1>1, <1>2, <1>3, <1>5, <2>1, <2>2
<1> QED BY <1>4, <1>5

LEMMA SumsMeet ==
  ASSUME NEW v, NEW T, IsFiniteSet(T), NEW S \in SUBSET T,
         SumsOf(v, S) = Summing(v, SumsOf(v, S), S), SumsOf(v, T) = Summing(v, SumsOf(v, T), T)
  PROVE  SumsOf(v, S)[S] = SumsOf(v, T)[S]
<1>1. \A x \in S : v[x] = v[x] OBVIOUS
<1>2. \A s \in SUBSET S : SumsOf(v, S)[s] = SumsOf(v, T)[s] BY <1>1, SumsAgree
<1> QED BY <1>2

LEMMA SumsExist ==
  ASSUME NEW v, NEW S, IsFiniteSet(S)
  PROVE  \E g : g = Summing(v, g, S)
<1> DEFINE Has == {T \in SUBSET S : \E g : g = Summing(v, g, T)}
<1> SUFFICES ASSUME S \notin Has PROVE FALSE
  OBVIOUS
<1>1. PICK M \in SUBSET S : M \notin Has /\ \A K \in SUBSET M : K # M => K \in Has
  <2> HIDE DEF Has
  <2> QED BY SmallestMissing
<1>2. IsFiniteSet(M) BY FS_Subset
\* every strict subset has one, and they agree
<1> DEFINE f(K) == SumsOf(v, K)
           e == [s \in SUBSET M |->
                   IF s = {} THEN 0 ELSE v[Picked(s)] + SumsOf(v, s \ {Picked(s)})[s \ {Picked(s)}]]
<1>3. \A K \in SUBSET M : K # M => SumsOf(v, K) = Summing(v, SumsOf(v, K), K)
  <2> SUFFICES ASSUME NEW K \in SUBSET M, K # M PROVE SumsOf(v, K) = Summing(v, SumsOf(v, K), K)
    OBVIOUS
  <2>1. \E g : g = Summing(v, g, K) BY <1>1
  <2> QED BY <2>1 DEF SumsOf
<1>4. ASSUME NEW s \in SUBSET M, s # {}
      PROVE  e[s \ {Picked(s)}] = SumsOf(v, s \ {Picked(s)})[s \ {Picked(s)}]
  <2> DEFINE K == s \ {Picked(s)}
  <2>0. Picked(s) \in s BY <1>4 DEF Picked
  <2>1. K \in SUBSET M /\ K # M BY <2>0
  <2>2. SumsOf(v, K)[K] = IF K = {} THEN 0 ELSE v[Picked(K)] + SumsOf(v, K)[K \ {Picked(K)}]
    <3>1. SumsOf(v, K) = Summing(v, SumsOf(v, K), K) BY <1>3, <2>1
    <3> HIDE DEF K
    <3>2. Summing(v, SumsOf(v, K), K)[K] = IF K = {} THEN 0 ELSE v[Picked(K)] + SumsOf(v, K)[K \ {Picked(K)}]
      BY DEF Summing
    <3> QED BY <3>1, <3>2
  <2>3. CASE K = {} BY <2>1, <2>2, <2>3
  <2>4. CASE K # {}
    <3> DEFINE L == K \ {Picked(K)}
    <3>0. Picked(K) \in K BY <2>4 DEF Picked
    <3>1. L \in SUBSET K /\ L \in SUBSET M /\ L # M BY <2>1, <3>0
    <3>2. SumsOf(v, L) = Summing(v, SumsOf(v, L), L) /\ SumsOf(v, K) = Summing(v, SumsOf(v, K), K)
      BY <1>3, <2>1, <3>1
    <3>3. IsFiniteSet(K) BY <1>2, <2>1, FS_Subset
    <3> HIDE DEF L, K
    <3>4. SumsOf(v, L)[L] = SumsOf(v, K)[L]
      BY <3>1, <3>2, <3>3, SumsMeet
    <3>5. e[K] = v[Picked(K)] + SumsOf(v, L)[L] BY <2>1, <2>4 DEF L
    <3>6. SumsOf(v, K)[K] = v[Picked(K)] + SumsOf(v, K)[L] BY <2>2, <2>4 DEF L
    <3>7. e[K] = SumsOf(v, K)[K] BY <3>4, <3>5, <3>6
    <3> QED BY <3>7 DEF K
  <2> QED BY <2>3, <2>4
<1>5. e = Summing(v, e, M)
  BY <1>4 DEF Summing
<1>6. M \in Has BY <1>5
<1> QED BY <1>1, <1>6

LEMMA SumsAre ==
  ASSUME NEW v, NEW S, IsFiniteSet(S), NEW s \in SUBSET S
  PROVE  /\ SumsOf(v, S) = Summing(v, SumsOf(v, S), S)
         /\ SumFunctionOnSet(v, s) = SumsOf(v, S)[s]
<1>1. \A T \in SUBSET S : SumsOf(v, T) = Summing(v, SumsOf(v, T), T)
  BY SumsExist, FS_Subset DEF SumsOf
<1>2. SumsOf(v, s)[s] = SumsOf(v, S)[s]
  BY <1>1, SumsMeet
<1> QED BY <1>1, <1>2, SumIs

\* Sums of what agrees are equal.
LEMMA SumSame ==
  ASSUME NEW S, IsFiniteSet(S), NEW v, NEW w, \A x \in S : v[x] = w[x]
  PROVE  SumFunctionOnSet(v, S) = SumFunctionOnSet(w, S)
<1>1. SumsOf(v, S) = Summing(v, SumsOf(v, S), S) /\ SumsOf(w, S) = Summing(w, SumsOf(w, S), S)
  BY SumsAre
<1>2. \A s \in SUBSET S : SumsOf(v, S)[s] = SumsOf(w, S)[s] BY <1>1, SumsAgree
<1> QED BY <1>2, SumIs

LEMMA SumEmpty == ASSUME NEW v PROVE SumFunctionOnSet(v, {}) = 0
<1>1. IsFiniteSet({}) BY FS_EmptySet
<1> QED BY <1>1, SumsAre, SumIs DEF Summing

\* A sum of naturals is one.
LEMMA SumType ==
  ASSUME NEW S, IsFiniteSet(S), NEW v, \A x \in S : v[x] \in Nat
  PROVE  SumFunctionOnSet(v, S) \in Nat
<1> DEFINE Typed == {s \in SUBSET S : SumsOf(v, S)[s] \in Nat}
<1>1. SumsOf(v, S) = Summing(v, SumsOf(v, S), S) BY SumsAre
<1> SUFFICES ASSUME S \notin Typed PROVE FALSE
  BY SumIs
<1>2. PICK M \in SUBSET S : M \notin Typed /\ \A K \in SUBSET M : K # M => K \in Typed
  <2> HIDE DEF Typed
  <2> QED BY SmallestMissing
<1>3. SumsOf(v, S)[M] = IF M = {} THEN 0 ELSE v[Picked(M)] + SumsOf(v, S)[M \ {Picked(M)}]
  BY <1>1 DEF Summing
<1>4. CASE M = {} BY <1>2, <1>3, <1>4
<1>5. CASE M # {}
  <2>1. Picked(M) \in M BY <1>5 DEF Picked
  <2>2. M \ {Picked(M)} \in Typed BY <1>2, <2>1
  <2> QED BY <1>2, <1>3, <1>5, <2>1, <2>2
<1> QED BY <1>4, <1>5

\* Any element may be taken out of a sum first.
LEMMA SumPick ==
  ASSUME NEW S, IsFiniteSet(S), NEW v, \A x \in S : v[x] \in Nat, NEW y \in S
  PROVE  SumFunctionOnSet(v, S) = v[y] + SumFunctionOnSet(v, S \ {y})
<1> DEFINE g == SumsOf(v, S)
           Free == {s \in SUBSET S : \A x \in s : g[s] = v[x] + g[s \ {x}]}
<1>1. g = Summing(v, g, S) BY SumsAre
<1>2. \A s \in SUBSET S : g[s] = SumFunctionOnSet(v, s) /\ g[s] \in Nat
  <2> TAKE s \in SUBSET S
  <2>1. IsFiniteSet(s) BY FS_Subset
  <2> QED BY <2>1, SumsAre, SumType
<1> SUFFICES ASSUME S \notin Free PROVE FALSE
  BY <1>2
<1>3. PICK M \in SUBSET S : M \notin Free /\ \A K \in SUBSET M : K # M => K \in Free
  <2> HIDE DEF Free
  <2> QED BY SmallestMissing
<1>a. ASSUME NEW s \in SUBSET S, s # {} PROVE g[s] = v[Picked(s)] + g[s \ {Picked(s)}]
  <2> HIDE DEF g
  <2> QED BY <1>1, <1>a DEF Summing
<1> HIDE DEF g
<1>4. PICK x \in M : g[M] # v[x] + g[M \ {x}] BY <1>3
<1> DEFINE p == Picked(M)
<1>5. p \in M BY DEF Picked
<1>6. g[M] = v[p] + g[M \ {p}] BY <1>a
<1>7. x # p BY <1>4, <1>6
<1>8. g[M \ {p}] = v[x] + g[(M \ {p}) \ {x}] BY <1>3, <1>5, <1>7
<1>9. g[M \ {x}] = v[p] + g[(M \ {p}) \ {x}]
  <2>1. (M \ {p}) \ {x} = (M \ {x}) \ {p} OBVIOUS
  <2>2. g[M \ {x}] = v[p] + g[(M \ {x}) \ {p}] BY <1>3, <1>5, <1>7
  <2> QED BY <2>1, <2>2
<1>11. v[p] \in Nat /\ v[x] \in Nat /\ g[(M \ {p}) \ {x}] \in Nat BY <1>2, <1>5
<1>12. \A a, b, c \in Nat : a + (b + c) = b + (a + c) OBVIOUS
<1>13. v[p] + (v[x] + g[(M \ {p}) \ {x}]) = v[x] + (v[p] + g[(M \ {p}) \ {x}])
  BY <1>11, <1>12, Zenon
<1> HIDE DEF p
<1> QED BY <1>4, <1>6, <1>8, <1>9, <1>13, Zenon

\* Elements that are worth nothing may be left out.
LEMMA SumZero ==
  ASSUME NEW T, IsFiniteSet(T), NEW v, \A x \in T : v[x] \in Nat,
         NEW S \in SUBSET T, \A x \in T \ S : v[x] = 0
  PROVE  SumFunctionOnSet(v, T) = SumFunctionOnSet(v, S)
<1> DEFINE R == T \ S
           Same == {A \in SUBSET R : SumFunctionOnSet(v, S \cup A) = SumFunctionOnSet(v, S)}
<1>0. IsFiniteSet(R) BY FS_Subset
<1> SUFFICES ASSUME R \notin Same PROVE FALSE
  <2>1. S \cup R = T OBVIOUS
  <2> QED BY <2>1
<1>1. PICK M \in SUBSET R : M \notin Same /\ \A K \in SUBSET M : K # M => K \in Same
  <2> HIDE DEF Same, R
  <2> QED BY <1>0, SmallestMissing
<1>2. M # {}
  <2>1. S \cup {} = S OBVIOUS
  <2> QED BY <2>1, <1>1
<1>3. PICK y \in M : TRUE BY <1>2
<1>4. M \ {y} \in Same BY <1>1
<1>5. IsFiniteSet(S \cup M) BY FS_Subset
<1>6. SumFunctionOnSet(v, S \cup M) = v[y] + SumFunctionOnSet(v, (S \cup M) \ {y})
  BY <1>5, SumPick
<1>7. (S \cup M) \ {y} = S \cup (M \ {y}) /\ v[y] = 0 OBVIOUS
<1>8. SumFunctionOnSet(v, S \cup (M \ {y})) \in Nat
  <2>1. IsFiniteSet(S \cup (M \ {y})) BY FS_Subset
  <2> QED BY <2>1, SumType
<1>9. SumFunctionOnSet(v, S \cup M) = SumFunctionOnSet(v, S \cup (M \ {y}))
  <2>1. \A n \in Nat : 0 + n = n OBVIOUS
  <2> QED BY <1>6, <1>7, <1>8, <2>1, Zenon
<1> QED BY <1>1, <1>4, <1>9

-----------------------------------------------------------------------------
(* The inductive invariant.                                                *)

Most  == Max(Cost)
Still == {"off", "done", "failed"}
Busy  == {"ready", "acting", "model", "tool"}

\* Of the tasks of one run.
AtModel(x) == {t \in Task : x.task[t] = "model"}
Clear(x)   == \A t \in Task \ {0} : x.task[t] \in Still
Tears(x)   == x.pattern = "map" /\ x.left /\ \E t \in Task \ {0} : x.task[t] = "failed"
Fresh(x)   == x.task = [t \in Task |-> IF t = 0 THEN "ready" ELSE "off"]

Counted(x)   == x.hops = x.handoffs /\ x.handoffs <= MaxHandoffs
Lone(x)      == IF x.pattern \in {"loop", "swarm"} THEN \A t \in Task \ {0} : x.task[t] = "off"
                ELSE x.task[0] \notin {"acting", "tool"}
Unwound(x)   == x.phase = "unwinding" =>
                  /\ x.task[0] \in Still \cup {"tool", "waiting"}
                  /\ x.task[0] = "waiting" => \A t \in Task \ {0} : x.task[t] \in Still \cup {"tool"}
\* The pattern goes on while what it runs side by side works only when a map tore.
Waits(x)     == x.task[0] # "waiting" => Clear(x) \/ Tears(x)
Concluded(x) == x.phase \in {"saving", "rejecting", "ended"} => x.task[0] \notin {"tool", "waiting"}
Unused(x)    == /\ x.phase \in {"idle", "building"} => Fresh(x)
                /\ x.phase = "idle" => x.used = 0 /\ x.told = 0
                /\ x.pattern = "none" => x.phase = "idle"
Open(x)      == /\ x.phase # "ended" => x.outcome = "none" /\ x.delivered = 0
                /\ x.phase = "ended" /\ x.parent # NoRun => x.reported = x.used \/ Tears(x)
ShapeOK(x) == Counted(x) /\ Lone(x) /\ Unwound(x) /\ Waits(x) /\ Concluded(x) /\ Unused(x) /\ Open(x)

\* What the calls in flight may still use is within the overrun.
Within(x) ==
  x.limit # 0 => x.used + Cardinality(AtModel(x)) * Most <= x.limit - 1 + Width * Most

FineRows(f) == f \in [Run -> Runs] /\ \A r \in Run : ShapeOK(f[r]) /\ Within(f[r])

\* The runs are a tree below run 1.
Called ==
  /\ run[1].parent = NoRun
  /\ \A c \in Run : c # 1 => (run[c].parent = NoRun <=> run[c].phase = "idle")
  /\ \A c \in Run : run[c].parent = NoRun => run[c].linaje = {}
  /\ \A c \in Run : run[c].parent # NoRun =>
       /\ run[c].parent # c /\ run[run[c].parent].phase # "idle" /\ 1 \in run[c].linaje
       /\ run[c].linaje = run[run[c].parent].linaje \cup {run[c].parent}

Chained ==
  \A c \in Run : \A q \in run[c].linaje :
    /\ run[q].phase # "idle"
    /\ q = run[c].parent \/ \E d \in run[c].linaje : run[d].parent = q
    /\ run[q].linaje \subseteq run[c].linaje

\* A task waits for each working sub-agent, and for no other.
Awaited ==
  \A c \in Run : Active(run, c) /\ run[c].parent # NoRun =>
    /\ run[run[c].parent].task[run[c].at] = "tool"
    /\ \A d \in Run :
         Active(run, d) /\ run[d].parent = run[c].parent /\ run[d].at = run[c].at => d = c

Tore(x) == x.phase = "ended" /\ Tears(x)

\* A working run below an ended one is below a map that tore and ended, and
\* that is the ended one or below it.
LeftByMap ==
  \A c \in Run : \A q \in run[c].linaje : Active(run, c) /\ run[q].phase = "ended" =>
    \E m \in run[c].linaje : Tore(run[m]) /\ (m = q \/ q \in run[m].linaje)

Told(f) == SumFunctionOnSet([c \in Run |-> f[c].told], Run)

Listed ==
  /\ \A r \in Run : run[r].list \in {1, NoRun} /\ (r # 1 => run[r].listed = 0)
  /\ Told(run) = run[1].listed

Delivered ==
  run[1].phase = "ended" /\ run[1].outcome \in {"ok", "blocked"} =>
    run[1].delivered = run[1].listed \/ \E m \in Run : Tore(run[m])

Billed ==
  run[1].phase = "ended" => run[1].billed = UsedBy(run, Run) \/ \E m \in Run : Tore(run[m])

TreeInv == Called /\ Chained /\ Awaited /\ LeftByMap
RunInv  == FineRows(run) /\ TreeInv /\ Listed /\ Delivered /\ Billed

-----------------------------------------------------------------------------
(* Rows.                                                                   *)

LEMMA MostType == Most \in Nat /\ \A cost \in Cost : cost \in Nat /\ cost <= Most
BY RunAssumption DEF Most, Max

LEMMA ModelsType ==
  ASSUME NEW x
  PROVE  IsFiniteSet(AtModel(x)) /\ Cardinality(AtModel(x)) \in Nat /\ IsFiniteSet(Task)
<1>1. IsFiniteSet(Task) BY FS_Interval, RunAssumption DEF Task
<1>2. AtModel(x) \subseteq Task BY DEF AtModel
<1>3. IsFiniteSet(AtModel(x)) BY <1>1, <1>2, FS_Subset
<1> QED BY <1>1, <1>3, FS_CardinalityType

LEMMA Times ==
  /\ \A a, b, m \in Nat : a <= b => a * m <= b * m
  /\ \A a, m \in Nat : a # 0 => (a - 1) * m + m = a * m
  /\ \A a, m \in Nat : a * m \in Nat
OBVIOUS

\* What a task may do to the calls in flight, the usage being the same.
LEMMA WithinLess ==
  ASSUME NEW x \in Runs, NEW y \in Runs, Within(x), y.limit = x.limit, y.used = x.used,
         AtModel(y) \subseteq AtModel(x)
  PROVE  Within(y)
<1>1. Cardinality(AtModel(y)) <= Cardinality(AtModel(x)) BY ModelsType, FS_Subset
<1>2. Cardinality(AtModel(y)) * Most <= Cardinality(AtModel(x)) * Most
  BY <1>1, ModelsType, MostType, Times
<1>3. Cardinality(AtModel(y)) * Most \in Nat /\ Cardinality(AtModel(x)) * Most \in Nat
      /\ Width * Most \in Nat
  BY ModelsType, MostType, Times, RunAssumption
<1>4. x.used \in Nat /\ x.limit \in Nat BY DEF Runs
<1> QED BY <1>2, <1>3, <1>4 DEF Within

\* A call of the model within the budget.
LEMMA WithinCall ==
  ASSUME NEW x \in Runs, NEW y \in Runs, y.limit = x.limit, y.used = x.used,
         x.limit # 0 => x.used < x.limit, \E t \in Task : t \notin AtModel(y)
  PROVE  Within(y)
<1>1. PICK t \in Task : t \notin AtModel(y) OBVIOUS
<1>2. AtModel(y) \subseteq Task \ {t} BY <1>1 DEF AtModel
<1>3. IsFiniteSet(Task \ {t}) /\ Cardinality(Task \ {t}) = Cardinality(Task) - 1
  BY ModelsType, FS_RemoveElement
<1>4. Cardinality(Task) = Width + 1 BY FS_Interval, RunAssumption DEF Task
<1>5. Cardinality(AtModel(y)) <= Width
  <2>1. Cardinality(AtModel(y)) <= Cardinality(Task \ {t}) BY <1>2, <1>3, FS_Subset
  <2> QED BY <2>1, <1>3, <1>4, RunAssumption
<1>6. Cardinality(AtModel(y)) * Most <= Width * Most
  BY <1>5, ModelsType, MostType, Times, RunAssumption
<1>7. Cardinality(AtModel(y)) * Most \in Nat /\ Width * Most \in Nat
  BY ModelsType, MostType, Times, RunAssumption
<1>8. x.used \in Nat /\ x.limit \in Nat BY DEF Runs
<1> QED BY <1>6, <1>7, <1>8 DEF Within

\* The model answers.
LEMMA WithinAnswer ==
  ASSUME NEW x \in Runs, NEW y \in Runs, Within(x), y.limit = x.limit, NEW cost \in Cost,
         y.used = x.used + cost, NEW t \in AtModel(x), AtModel(y) \subseteq AtModel(x) \ {t}
  PROVE  Within(y)
<1>1. /\ Cardinality(AtModel(x) \ {t}) = Cardinality(AtModel(x)) - 1
      /\ IsFiniteSet(AtModel(x) \ {t})
  BY ModelsType, FS_RemoveElement
<1>2. Cardinality(AtModel(y)) <= Cardinality(AtModel(x)) - 1 BY <1>1, ModelsType, FS_Subset
<1> DEFINE n == Cardinality(AtModel(x))
           k == Cardinality(AtModel(y))
<1>3. n \in Nat /\ k \in Nat /\ k <= n - 1 /\ n # 0 /\ n - 1 \in Nat
  BY <1>2, ModelsType
<1>5. x.used \in Nat /\ x.limit \in Nat BY DEF Runs
<1>6. cost \in Nat /\ cost <= Most /\ Most \in Nat BY MostType
<1> HIDE DEF n, k
<1>7. k * Most <= (n - 1) * Most /\ (n - 1) * Most + Most = n * Most
  BY <1>3, <1>6, Times
<1>8. k * Most \in Nat /\ (n - 1) * Most \in Nat /\ n * Most \in Nat /\ Width * Most \in Nat
  BY <1>3, <1>6, Times, RunAssumption
<1>9. x.limit # 0 => x.used + n * Most <= x.limit - 1 + Width * Most BY DEF Within, n
<1>10. x.limit # 0 => (x.used + cost) + k * Most <= x.limit - 1 + Width * Most
  BY <1>5, <1>6, <1>7, <1>8, <1>9
<1> QED BY <1>10 DEF Within, k

\* What stays of a run once it is called.
Fixed(x, y) ==
  /\ y.pattern = x.pattern /\ y.limit = x.limit /\ y.parent = x.parent /\ y.at = x.at
  /\ y.linaje = x.linaje /\ y.list = x.list /\ y.handoffs = x.handoffs /\ y.hops = x.hops

Same(x, y) ==
  Fixed(x, y) /\ y.phase = x.phase /\ y.outcome = x.outcome /\ y.delivered = x.delivered
  /\ y.reported = x.reported /\ y.left = x.left

\* Task t of a run may go on: the run does, or a map of it left the task.
GoesFor(x, t) == x.phase = "running" \/ Loose(x, t)

\* Only a map that tore has left a task at work.
LEMMA LooseTore ==
  ASSUME NEW x \in Runs, ShapeOK(x), NEW t \in Task, x.task[t] \in Busy, Loose(x, t)
  PROVE  Tears(x) /\ x.pattern = "map" /\ x.phase \notin {"idle", "building"}
<1>1. t # 0 /\ x.task[0] # "waiting" BY DEF Loose
<1>2. ~Clear(x) BY <1>1 DEF Clear, Busy, Still
<1>3. Tears(x) BY <1>1, <1>2 DEF ShapeOK, Waits
<1>4. ~Fresh(x) BY <1>1 DEF Fresh, Busy
<1> QED BY <1>3, <1>4 DEF Tears, ShapeOK, Unused

\* One task goes on, ends or fails.
LEMMA ShapeSet ==
  ASSUME NEW x \in Runs, NEW y \in Runs, ShapeOK(x), Same(x, y),
         NEW t \in Task, NEW s \in {"failed", "done", "acting", "model", "tool"},
         y.task = [x.task EXCEPT ![t] = s], x.task[t] \in Busy,
         x.phase \notin {"idle", "building"}, GoesFor(x, t) \/ s = "failed",
         GoesFor(x, t) \/ y.used = x.used,
         t = 0 /\ s \in {"acting", "tool"} => x.pattern \in {"loop", "swarm"}
  PROVE  ShapeOK(y)
<1>1. x.task \in [Task -> State] BY DEF Runs
<1>2. Tears(x) => Tears(y) BY <1>1 DEF Tears, Same, Fixed, Busy
<1>3. Counted(y) /\ Unused(y) BY DEF ShapeOK, Same, Fixed, Counted, Unused
<1>4. Open(y)
  <2>1. x.phase = "ended" => y.used = x.used \/ Tears(x) BY LooseTore DEF GoesFor
  <2>2. y.phase = x.phase /\ y.outcome = x.outcome /\ y.delivered = x.delivered
        /\ y.reported = x.reported /\ y.parent = x.parent
    BY DEF Same, Fixed
  <2> QED BY <1>2, <2>1, <2>2 DEF ShapeOK, Open
<1>5. Lone(y) BY <1>1 DEF ShapeOK, Same, Fixed, Lone, Busy
<1>6. Unwound(y) BY <1>1 DEF ShapeOK, Same, Fixed, Unwound, Still, Busy, GoesFor, Loose
<1>7. Waits(y)
  <2>1. y.task[0] # "waiting" => x.task[0] # "waiting" BY <1>1, RunAssumption DEF Busy, Task
  <2>2. Clear(x) => Clear(y) BY <1>1 DEF Clear, Still, Busy
  <2> QED BY <1>2, <2>1, <2>2 DEF ShapeOK, Waits
<1>8. Concluded(y) BY <1>1 DEF ShapeOK, Same, Fixed, Concluded, GoesFor, Loose
<1> QED BY <1>3, <1>4, <1>5, <1>6, <1>7, <1>8 DEF ShapeOK

\* Another phase, with the same tasks.
LEMMA UnwindingRow ==
  ASSUME NEW x \in Runs, ShapeOK(x), Within(x), x.phase \notin {"idle", "ended"},
         NEW why \in Outcome, NEW y, y = Unwinding(x, why)
  PROVE  /\ y \in Runs /\ ShapeOK(y) /\ Within(y) /\ Fixed(x, y) /\ y.phase = "unwinding"
         /\ \A t \in Task : x.task[t] = "tool" => y.task[t] = "tool"
         /\ y.used = x.used /\ y.told = x.told /\ y.listed = x.listed
<1>1. x.task \in [Task -> State] BY DEF Runs
<1> DEFINE z == Stopped(x)
<1>0. 0 \in Task BY RunAssumption DEF Task
<1>2. /\ z \in [Task -> State] /\ 0 \in Task
      /\ \A t \in Task : z[t] \in {x.task[t], "failed"} /\ (x.task[t] = "tool" => z[t] = "tool")
      /\ z[0] \in Still \cup {"tool", "waiting"} /\ (z[0] = "waiting" <=> x.task[0] = "waiting")
      /\ x.task[0] = "waiting" => \A t \in Task \ {0} : z[t] \in Still \cup {"tool"}
      /\ x.task[0] # "waiting" => \A t \in Task \ {0} : z[t] = x.task[t]
      /\ \A t \in Task \ {0} : x.task[t] \in {"off", "failed"} => z[t] = x.task[t]
  BY <1>0, <1>1 DEF Stopped, Still, State, Loose
<1>3. y = [x EXCEPT !.phase = "unwinding", !.cause = why, !.task = z] BY DEF Unwinding
<1> HIDE DEF z
<1>4. y \in Runs
  <2>1. "unwinding" \in Phase BY DEF Phase
  <2>2. z \in [Task -> State] BY <1>2
  <2>3. [x EXCEPT !.phase = "unwinding", !.cause = why, !.task = z] \in Runs
    BY <2>1, <2>2, Zenon DEF Runs
  <2> QED BY <2>3, <1>3
<1>5. /\ y.phase = "unwinding" /\ y.task = z /\ Fixed(x, y)
      /\ y.used = x.used /\ y.told = x.told /\ y.listed = x.listed
      /\ y.outcome = x.outcome /\ y.delivered = x.delivered /\ y.left = x.left
  <2>1. /\ y.phase = "unwinding" /\ y.task = z
        /\ y.pattern = x.pattern /\ y.limit = x.limit /\ y.parent = x.parent /\ y.at = x.at
        /\ y.linaje = x.linaje /\ y.list = x.list /\ y.handoffs = x.handoffs /\ y.hops = x.hops
        /\ y.used = x.used /\ y.told = x.told /\ y.listed = x.listed
        /\ y.outcome = x.outcome /\ y.delivered = x.delivered /\ y.left = x.left
    BY <1>3 DEF Runs
  <2> QED BY <2>1 DEF Fixed
<1>6. ShapeOK(y)
  <2>1. Counted(y) /\ Open(y) /\ Unused(y) /\ Concluded(y)
    BY <1>5 DEF ShapeOK, Fixed, Counted, Open, Unused, Concluded
  <2>2. Lone(y) BY <1>2, <1>5 DEF ShapeOK, Fixed, Lone
  <2>3. Unwound(y) BY <1>2, <1>5 DEF Unwound
  <2>4. Waits(y)
    <3>1. SUFFICES ASSUME x.task[0] # "waiting" PROVE Clear(y) \/ Tears(y)
      BY <1>2, <1>5 DEF Waits
    <3>2. Clear(x) \/ Tears(x) BY <3>1 DEF ShapeOK, Waits
    <3> QED BY <1>2, <1>5, <3>1, <3>2 DEF Clear, Tears, Fixed
  <2> QED BY <2>1, <2>2, <2>3, <2>4 DEF ShapeOK
<1>7. AtModel(y) \subseteq AtModel(x) BY <1>2, <1>5 DEF AtModel
<1>8. Within(y) BY <1>4, <1>5, <1>7, WithinLess DEF Fixed
<1> QED BY <1>2, <1>4, <1>5, <1>6, <1>8

-----------------------------------------------------------------------------
(* Steps of many runs at once.                                             *)

Evolves(f, g) ==
  \A d \in Run :
    /\ Fixed(f[d], g[d])
    /\ f[d].phase = "idle" \/ g[d].phase = "idle" => g[d] = f[d]
    /\ f[d].phase = "ended" =>
         /\ g[d].phase = "ended" /\ g[d].outcome = f[d].outcome
         /\ g[d].delivered = f[d].delivered /\ g[d].billed = f[d].billed
         /\ Tears(f[d]) => Tears(g[d])

NoneEnds(f, g) == \A d \in Run : g[d].phase = "ended" => f[d].phase = "ended"

\* Tasks go on waiting for sub-agents, but for task t of run p.
StillWait(f, g, p, t) ==
  \A d \in Run : \A s \in Task :
    f[d].task[s] = "tool" /\ ~(d = p /\ s = t) => g[d].task[s] = "tool"

SameLedger(f, g) ==
  \A d \in Run : g[d].used = f[d].used /\ g[d].told = f[d].told /\ g[d].listed = f[d].listed

\* What a step that calls nobody is like; p and t are the task that gets an answer.
Moves(f, g, p, t) == FineRows(g) /\ Evolves(f, g) /\ NoneEnds(f, g) /\ StillWait(f, g, p, t)

Goes(f, g, p, t) == Moves(f, g, p, t) /\ SameLedger(f, g)

LEMMA MovesOn ==
  ASSUME NEW f, NEW g, NEW h, NEW p, NEW t, Moves(f, g, p, t), Moves(g, h, p, t)
  PROVE  Moves(f, h, p, t)
<1>1. FineRows(h) BY DEF Moves
<1>2. Evolves(f, h) BY DEF Moves, Evolves, Fixed
<1>3. NoneEnds(f, h) /\ StillWait(f, h, p, t) BY DEF Moves, NoneEnds, StillWait
<1> QED BY <1>1, <1>2, <1>3 DEF Moves

LEMMA GoesOn ==
  ASSUME NEW f, NEW g, NEW h, NEW p, NEW t, Goes(f, g, p, t), Goes(g, h, p, t)
  PROVE  Goes(f, h, p, t)
<1>1. Moves(f, h, p, t) BY MovesOn DEF Goes
<1>2. SameLedger(f, h) BY DEF Goes, SameLedger
<1> QED BY <1>1, <1>2 DEF Goes

LEMMA NoStep == ASSUME NEW f, FineRows(f), NEW p, NEW t PROVE Goes(f, f, p, t)
BY DEF Goes, Moves, Evolves, Fixed, NoneEnds, StillWait, SameLedger

With(f, r, y) == [f EXCEPT ![r] = y]

\* One run is written, and goes on.
LEMMA OneMoves ==
  ASSUME NEW f, FineRows(f), NEW r \in Run, NEW y \in Runs, ShapeOK(y), Within(y), Fixed(f[r], y),
         f[r].phase # "idle", y.phase \notin {"idle", "ended"} \/ y.phase = f[r].phase,
         f[r].phase = "ended" =>
           /\ y.phase = "ended" /\ y.outcome = f[r].outcome /\ y.delivered = f[r].delivered
           /\ y.billed = f[r].billed /\ (Tears(f[r]) => Tears(y)),
         NEW p, NEW t, \A s \in Task : f[r].task[s] = "tool" /\ ~(r = p /\ s = t) => y.task[s] = "tool",
         NEW g, g = With(f, r, y)
  PROVE  Moves(f, g, p, t) /\ g[r] = y /\ \A d \in Run : d # r => g[d] = f[d]
<1>1. f \in [Run -> Runs] BY DEF FineRows
<1>2. g \in [Run -> Runs] /\ g[r] = y /\ \A d \in Run : d # r => g[d] = f[d] BY <1>1 DEF With
<1>3. FineRows(g) BY <1>2 DEF FineRows
<1>4. Evolves(f, g)
  <2> SUFFICES ASSUME NEW d \in Run
               PROVE  /\ Fixed(f[d], g[d])
                      /\ f[d].phase = "idle" \/ g[d].phase = "idle" => g[d] = f[d]
                      /\ f[d].phase = "ended" =>
                           /\ g[d].phase = "ended" /\ g[d].outcome = f[d].outcome
                           /\ g[d].delivered = f[d].delivered /\ g[d].billed = f[d].billed
                           /\ Tears(f[d]) => Tears(g[d])
    BY DEF Evolves
  <2>1. CASE d = r BY <1>2, <2>1
  <2>2. CASE d # r BY <1>2, <2>2 DEF Fixed
  <2> QED BY <2>1, <2>2
<1>5. NoneEnds(f, g) BY <1>2 DEF NoneEnds
<1>6. StillWait(f, g, p, t) BY <1>2 DEF StillWait
<1> QED BY <1>2, <1>3, <1>4, <1>5, <1>6 DEF Moves

LEMMA OneGoes ==
  ASSUME NEW f, FineRows(f), NEW r \in Run, NEW y \in Runs, ShapeOK(y), Within(y), Fixed(f[r], y),
         f[r].phase # "idle", y.phase \notin {"idle", "ended"} \/ y.phase = f[r].phase,
         f[r].phase = "ended" =>
           /\ y.phase = "ended" /\ y.outcome = f[r].outcome /\ y.delivered = f[r].delivered
           /\ y.billed = f[r].billed /\ (Tears(f[r]) => Tears(y)),
         NEW p, NEW t, \A s \in Task : f[r].task[s] = "tool" /\ ~(r = p /\ s = t) => y.task[s] = "tool",
         NEW g, g = With(f, r, y), y.used = f[r].used, y.told = f[r].told, y.listed = f[r].listed
  PROVE  Goes(f, g, p, t)
<1>1. Moves(f, g, p, t) /\ g[r] = y /\ \A d \in Run : d # r => g[d] = f[d] BY OneMoves
<1>2. SameLedger(f, g) BY <1>1 DEF SameLedger
<1> QED BY <1>1, <1>2 DEF Goes

LEMMA InterruptedGoes ==
  ASSUME NEW f, FineRows(f), NEW r \in Run, Active(f, r), NEW why \in Outcome, NEW p, NEW t,
         NEW g, g = Interrupted(f, r, why)
  PROVE  Goes(f, g, p, t)
<1> DEFINE Unwinds1(d) == \E w \in Outcome : Active(f, d) /\ g[d] = Unwinding(f[d], w)
<1>1. "cancelled" \in Outcome BY DEF Outcome
<1>2. g = [d \in Run |-> g[d]] /\ \A d \in Run : Unwinds1(d) \/ g[d] = f[d]
  BY <1>1 DEF Interrupted, Inside
<1>3. \A d \in Run :
        /\ g[d] \in Runs /\ ShapeOK(g[d]) /\ Within(g[d]) /\ Fixed(f[d], g[d])
        /\ g[d] = f[d] \/ (f[d].phase \notin {"idle", "ended"} /\ g[d].phase = "unwinding")
        /\ \A s \in Task : f[d].task[s] = "tool" => g[d].task[s] = "tool"
        /\ g[d].used = f[d].used /\ g[d].told = f[d].told /\ g[d].listed = f[d].listed
  <2> SUFFICES ASSUME NEW d \in Run
               PROVE  /\ g[d] \in Runs /\ ShapeOK(g[d]) /\ Within(g[d]) /\ Fixed(f[d], g[d])
                      /\ g[d] = f[d] \/ (f[d].phase \notin {"idle", "ended"} /\ g[d].phase = "unwinding")
                      /\ \A s \in Task : f[d].task[s] = "tool" => g[d].task[s] = "tool"
                      /\ g[d].used = f[d].used /\ g[d].told = f[d].told /\ g[d].listed = f[d].listed
    OBVIOUS
  <2>0. f[d] \in Runs /\ ShapeOK(f[d]) /\ Within(f[d]) BY DEF FineRows
  <2>1. CASE g[d] = f[d] BY <2>0, <2>1 DEF Fixed
  <2>2. CASE Unwinds1(d)
    <3>1. PICK w \in Outcome : Active(f, d) /\ g[d] = Unwinding(f[d], w) BY <2>2
    <3>2. f[d].phase \notin {"idle", "ended"} BY <3>1 DEF Active
    <3> QED BY <2>0, <3>1, <3>2, UnwindingRow
  <2> QED BY <1>2, <2>1, <2>2
<1> HIDE DEF Unwinds1
<1>4. FineRows(g)
  <2>1. g \in [Run -> Runs] BY <1>2, <1>3
  <2> QED BY <2>1, <1>3 DEF FineRows
<1>5. Evolves(f, g) BY <1>3 DEF Evolves
<1>6. NoneEnds(f, g) /\ StillWait(f, g, p, t) /\ SameLedger(f, g)
  BY <1>3 DEF NoneEnds, StillWait, SameLedger
<1> QED BY <1>4, <1>5, <1>6 DEF Goes, Moves

Put(x, t, s)      == [x EXCEPT !.task[t] = s]
PutIn(f, r, t, s) == [f EXCEPT ![r].task[t] = s]

LEMMA TaskRow ==
  ASSUME NEW x \in Runs, NEW t \in Task, NEW s \in State, NEW y, y = Put(x, t, s)
  PROVE  /\ y \in Runs /\ y.task = [x.task EXCEPT ![t] = s] /\ Same(x, y)
         /\ y.used = x.used /\ y.told = x.told /\ y.listed = x.listed /\ y.billed = x.billed
<1>1. x.task \in [Task -> State] BY DEF Runs
<1>2. [x.task EXCEPT ![t] = s] \in [Task -> State] BY <1>1
<1> DEFINE z == [x.task EXCEPT ![t] = s]
<1>3. y = [x EXCEPT !.task = z] BY DEF Put
<1>4. z \in [Task -> State] BY <1>2
<1> HIDE DEF z
<1>5. [x EXCEPT !.task = z] \in Runs BY <1>4, Zenon DEF Runs
<1>6. /\ y.task = z /\ y.phase = x.phase
      /\ y.pattern = x.pattern /\ y.limit = x.limit /\ y.parent = x.parent /\ y.at = x.at
      /\ y.linaje = x.linaje /\ y.list = x.list /\ y.handoffs = x.handoffs /\ y.hops = x.hops
      /\ y.used = x.used /\ y.told = x.told /\ y.listed = x.listed /\ y.billed = x.billed
      /\ y.outcome = x.outcome /\ y.delivered = x.delivered /\ y.reported = x.reported
      /\ y.left = x.left
  BY <1>3 DEF Runs
<1> QED BY <1>3, <1>5, <1>6 DEF z, Same, Fixed

\* The pattern goes on.
LEMMA ShapeReady ==
  ASSUME NEW x \in Runs, NEW y \in Runs, ShapeOK(x), Fixed(x, y), x.phase = "running",
         y.phase = "running", y.outcome = x.outcome, y.delivered = x.delivered,
         y.task = [x.task EXCEPT ![0] = "ready"], Clear(y) \/ Tears(y)
  PROVE  ShapeOK(y)
<1>1. x.task \in [Task -> State] /\ 0 \in Task BY RunAssumption DEF Runs, Task
<1>2. \A t \in Task \ {0} : y.task[t] = x.task[t] BY <1>1
<1>3. y.task[0] = "ready" BY <1>1
<1>4. Counted(y) /\ Open(y) /\ Unused(y) /\ Unwound(y) /\ Concluded(y)
  BY DEF ShapeOK, Fixed, Counted, Open, Unused, Unwound, Concluded
<1>5. Lone(y) /\ Waits(y) BY <1>2, <1>3 DEF ShapeOK, Fixed, Lone, Waits
<1> QED BY <1>4, <1>5 DEF ShapeOK

LEMMA TaskGoes ==
  ASSUME NEW f, FineRows(f), NEW r \in Run, NEW t \in Task,
         NEW s \in {"failed", "done", "acting"}, f[r].task[t] \in Busy,
         f[r].phase \notin {"idle", "building"}, GoesFor(f[r], t) \/ s = "failed",
         t = 0 /\ s = "acting" => f[r].pattern \in {"loop", "swarm"},
         NEW g, g = PutIn(f, r, t, s)
  PROVE  /\ Goes(f, g, r, t) /\ g[r].phase = f[r].phase
         /\ g[r].task[t] = s /\ \A u \in Task \ {t} : g[r].task[u] = f[r].task[u]
         /\ g[r].left = f[r].left
<1> DEFINE x == f[r]
           y == Put(x, t, s)
<1>1. f \in [Run -> Runs] /\ x \in Runs /\ ShapeOK(x) /\ Within(x) BY DEF FineRows
<1>2. s \in State /\ s \in {"failed", "done", "acting", "model", "tool"} BY DEF State
<1>3. g = With(f, r, y) BY <1>1 DEF Put, PutIn, With
<1>4. /\ y \in Runs /\ y.task = [x.task EXCEPT ![t] = s] /\ Same(x, y)
      /\ y.used = x.used /\ y.told = x.told /\ y.listed = x.listed /\ y.billed = x.billed
  BY <1>1, <1>2, TaskRow
<1> HIDE DEF y
<1>5. ShapeOK(y) BY <1>1, <1>2, <1>4, ShapeSet DEF x
<1>6. x.task \in [Task -> State] BY <1>1 DEF Runs
<1>7. AtModel(y) \subseteq AtModel(x) BY <1>4, <1>6 DEF AtModel
<1>8. Within(y) BY <1>1, <1>4, <1>7, WithinLess DEF Same, Fixed
<1>9. Tears(x) => Tears(y)
  BY <1>4, <1>6 DEF Tears, Same, Fixed, Busy
<1>10. \A u \in Task : x.task[u] = "tool" /\ u # t => y.task[u] = "tool"
  BY <1>4, <1>6
<1>11. /\ Fixed(x, y) /\ y.phase = x.phase /\ y.outcome = x.outcome /\ y.delivered = x.delivered
  BY <1>4 DEF Same
<1>12. Goes(f, g, r, t)
  BY <1>3, <1>4, <1>5, <1>8, <1>9, <1>10, <1>11, OneGoes DEF x
<1>13. g[r] = y BY <1>1, <1>3 DEF With
<1> QED BY <1>4, <1>6, <1>11, <1>12, <1>13 DEF x, Same

\* A map has left its items, or not.
LeftTo(x, z, b) == [x EXCEPT !.task = z, !.left = b]

LEMMA LeftRow ==
  ASSUME NEW x \in Runs, NEW z \in [Task -> State], NEW b \in BOOLEAN, NEW y, y = LeftTo(x, z, b)
  PROVE  /\ y \in Runs /\ y.task = z /\ Fixed(x, y) /\ y.phase = x.phase /\ y.left = b
         /\ y.used = x.used /\ y.told = x.told /\ y.listed = x.listed /\ y.billed = x.billed
         /\ y.outcome = x.outcome /\ y.delivered = x.delivered /\ y.reported = x.reported
         /\ y.cause = x.cause
<1>1. [x EXCEPT !.task = z, !.left = b] \in Runs BY Zenon DEF Runs
<1>2. /\ y.task = z /\ y.phase = x.phase /\ y.left = b /\ y.cause = x.cause
      /\ y.pattern = x.pattern /\ y.limit = x.limit /\ y.parent = x.parent /\ y.at = x.at
      /\ y.linaje = x.linaje /\ y.list = x.list /\ y.handoffs = x.handoffs /\ y.hops = x.hops
      /\ y.used = x.used /\ y.told = x.told /\ y.listed = x.listed /\ y.billed = x.billed
      /\ y.outcome = x.outcome /\ y.delivered = x.delivered /\ y.reported = x.reported
  BY DEF LeftTo, Runs
<1> QED BY <1>1, <1>2 DEF LeftTo, Fixed

LEMMA ReadyGoes ==
  ASSUME NEW f, FineRows(f), NEW r \in Run, f[r].phase = "running", f[r].task[0] # "tool",
         NEW b \in BOOLEAN, f[r].left => b,
         Clear(f[r]) \/ (b /\ f[r].pattern = "map" /\ \E u \in Task \ {0} : f[r].task[u] = "failed"),
         NEW p, NEW t,
         NEW g, g = With(f, r, LeftTo(f[r], [f[r].task EXCEPT ![0] = "ready"], b))
  PROVE  Goes(f, g, p, t)
<1> DEFINE x == f[r]
           z == [x.task EXCEPT ![0] = "ready"]
           y == LeftTo(x, z, b)
<1>1. f \in [Run -> Runs] /\ x \in Runs /\ ShapeOK(x) /\ Within(x) BY DEF FineRows
<1>2. "ready" \in State /\ 0 \in Task BY RunAssumption DEF State, Task
<1>3. g = With(f, r, y) OBVIOUS
<1>6. x.task \in [Task -> State] BY <1>1 DEF Runs
<1>c. z \in [Task -> State] BY <1>2, <1>6
<1>4. /\ y \in Runs /\ y.task = z /\ Fixed(x, y) /\ y.phase = x.phase /\ y.left = b
      /\ y.used = x.used /\ y.told = x.told /\ y.listed = x.listed /\ y.billed = x.billed
      /\ y.outcome = x.outcome /\ y.delivered = x.delivered
  BY <1>1, <1>c, LeftRow
<1> HIDE DEF y
<1>5. ShapeOK(y)
  <2>1. \A u \in Task \ {0} : y.task[u] = x.task[u] BY <1>4, <1>6
  <2>2. Clear(y) \/ Tears(y) BY <1>4, <2>1 DEF Clear, Tears, Fixed, x
  <2>3. x.phase = "running" /\ y.phase = "running" BY <1>4 DEF x
  <2>4. y.task = [x.task EXCEPT ![0] = "ready"] BY <1>4
  <2> HIDE DEF x
  <2> QED BY <1>1, <1>4, <2>2, <2>3, <2>4, ShapeReady
<1>7. AtModel(y) \subseteq AtModel(x) BY <1>4, <1>6 DEF AtModel
<1>8. Within(y) BY <1>1, <1>4, <1>7, WithinLess DEF Fixed
<1>9. \A u \in Task : x.task[u] = "tool" => y.task[u] = "tool"
  BY <1>4, <1>6 DEF x
<1> QED BY <1>3, <1>4, <1>5, <1>8, <1>9, OneGoes DEF x

LEMMA JoinedGoes ==
  ASSUME NEW f, FineRows(f), NEW r \in Run, f[r].phase = "running", f[r].task[0] # "tool",
         NEW p, NEW t, NEW g, g = Joined(f, r)
  PROVE  Goes(f, g, p, t)
<1>0. f \in [Run -> Runs] /\ f[r] \in Runs /\ f[r].left \in BOOLEAN BY DEF FineRows, Runs
<1>1. CASE \A u \in Task \ {0} : f[r].task[u] \in {"off", "done", "failed"}
  <2>1. g = With(f, r, LeftTo(f[r], [f[r].task EXCEPT ![0] = "ready"], f[r].left))
    <3>1. g = [f EXCEPT ![r] = [f[r] EXCEPT !.task[0] = "ready"]] BY <1>0, <1>1 DEF Joined
    <3>2. [f[r] EXCEPT !.task[0] = "ready"] = LeftTo(f[r], [f[r].task EXCEPT ![0] = "ready"], f[r].left)
      BY <1>0 DEF LeftTo, Runs
    <3> QED BY <3>1, <3>2 DEF With
  <2>2. Clear(f[r]) BY <1>1 DEF Clear, Still
  <2> QED BY <1>0, <2>1, <2>2, ReadyGoes
<1>2. CASE ~\A u \in Task \ {0} : f[r].task[u] \in {"off", "done", "failed"}
  <2>1. g = f BY <1>2 DEF Joined
  <2> QED BY <2>1, NoStep
<1> QED BY <1>1, <1>2

LEMMA RaisedGoes ==
  ASSUME NEW f, FineRows(f), NEW r \in Run, NEW t \in Task, GoesFor(f[r], t),
         f[r].phase \notin {"idle", "building"},
         f[r].task[t] \in Busy, NEW why \in Outcome, NEW h, h = Raised(f, r, t, why)
  PROVE  Goes(f, h, r, t)
<1>0. PICK g : g = PutIn(f, r, t, "failed") OBVIOUS
<1>1. /\ Goes(f, g, r, t) /\ g[r].phase = f[r].phase /\ g[r].left = f[r].left
      /\ g[r].task[t] = "failed" /\ \A u \in Task \ {t} : g[r].task[u] = f[r].task[u]
  <2>1. "failed" \in {"failed", "done", "acting"} OBVIOUS
  <2>2. GoesFor(f[r], t) \/ "failed" = "failed" OBVIOUS
  <2>3. t = 0 /\ "failed" = "acting" => f[r].pattern \in {"loop", "swarm"} OBVIOUS
  <2> QED BY <1>0, <2>1, <2>2, <2>3, TaskGoes
<1>2. /\ FineRows(g) /\ f[r] \in Runs /\ ShapeOK(f[r]) /\ g \in [Run -> Runs] /\ g[r] \in Runs
      /\ g[r].left \in BOOLEAN
  BY <1>1 DEF Goes, Moves, FineRows, Runs
<1>3. g[r].pattern = f[r].pattern BY <1>1 DEF Goes, Moves, Evolves, Fixed
<1>4. f[r].task \in [Task -> State] /\ 0 \in Task
  <2>1. 0 \in Task BY RunAssumption DEF Task
  <2> QED BY <1>2, <2>1 DEF Runs
<1>5. h = CASE t = 0 \/ f[r].pattern = "fanout" -> Interrupted(g, r, why)
            [] t # 0 /\ f[r].pattern = "wave" -> Joined(g, r)
            [] OTHER -> IF f[r].task[0] = "waiting"
                        THEN [g EXCEPT ![r].task[0] = "ready", ![r].left = TRUE] ELSE g
  BY <1>0 DEF Raised, PutIn
<1>a. t = 0 \/ f[r].pattern # "map" => f[r].phase = "running"
  BY <1>2, LooseTore DEF GoesFor, Loose
<1>6. CASE t = 0 \/ f[r].pattern = "fanout"
  <2>1. h = Interrupted(g, r, why) BY <1>5, <1>6
  <2>2. Active(g, r) BY <1>1, <1>6, <1>a DEF Active
  <2>3. Goes(g, h, r, t) BY <1>2, <2>1, <2>2, InterruptedGoes
  <2> QED BY <1>1, <2>3, GoesOn
<1>7. CASE t # 0 /\ f[r].pattern = "wave"
  <2>1. h = Joined(g, r) BY <1>5, <1>7
  <2>2. g[r].task[0] # "tool" /\ g[r].phase = "running"
    BY <1>1, <1>2, <1>4, <1>7, <1>a DEF ShapeOK, Lone
  <2>3. Goes(g, h, r, t) BY <1>2, <2>1, <2>2, JoinedGoes
  <2> QED BY <1>1, <2>3, GoesOn
<1>8. CASE t # 0 /\ f[r].pattern \notin {"fanout", "wave"}
  <2>1. h = IF f[r].task[0] = "waiting"
            THEN [g EXCEPT ![r].task[0] = "ready", ![r].left = TRUE] ELSE g
    BY <1>5, <1>8
  <2>2. CASE f[r].task[0] = "waiting"
    <3>1. f[r].pattern = "map"
      BY <1>2, <1>8 DEF ShapeOK, Lone, Unused, Runs, Pattern, Busy
    <3>2. g[r].pattern = "map" /\ \E u \in Task \ {0} : g[r].task[u] = "failed"
      BY <1>1, <1>3, <1>8, <3>1
    <3>3. g[r].task[0] # "tool" /\ g[r].phase = "running"
      BY <1>1, <1>4, <1>8, <2>2 DEF GoesFor, Loose
    <3>4. h = With(g, r, LeftTo(g[r], [g[r].task EXCEPT ![0] = "ready"], TRUE))
      BY <1>2, <2>1, <2>2 DEF With, LeftTo
    <3>5. TRUE \in BOOLEAN /\ (g[r].left => TRUE) OBVIOUS
    <3>6. Goes(g, h, r, t) BY <1>2, <3>2, <3>3, <3>4, <3>5, ReadyGoes
    <3> QED BY <1>1, <3>6, GoesOn
  <2>3. CASE f[r].task[0] # "waiting" BY <1>1, <2>1, <2>3
  <2> QED BY <2>2, <2>3
<1> QED BY <1>6, <1>7, <1>8

LEMMA ReturnedGoes ==
  ASSUME NEW f, FineRows(f), NEW c \in Run, f[c].outcome \in Outcome,
         f[c].parent # NoRun => f[c].parent \in Run /\ f[f[c].parent].task[f[c].at] = "tool",
         NEW h, h = Returned(f, c)
  PROVE  Goes(f, h, f[c].parent, f[c].at)
<1> DEFINE p == f[c].parent
           t == f[c].at
<1>1. CASE p = NoRun
  <2>1. h = f BY <1>1 DEF Returned
  <2> QED BY <2>1, NoStep
<1>2. CASE p # NoRun
  <2>1. p \in Run /\ f[p].task[t] = "tool" /\ f[p].task[t] \in Busy BY <1>2 DEF Busy
  <2>2. f[c] \in Runs /\ f[p] \in Runs /\ ShapeOK(f[p]) BY <2>1 DEF FineRows
  <2>3. t \in Task BY <2>2 DEF Runs
  <2>4. f[p].phase \notin {"idle", "building"} BY <2>1, <2>2, <2>3 DEF ShapeOK, Unused, Fresh
  <2>5. t = 0 => f[p].pattern \in {"loop", "swarm"} BY <2>1, <2>2 DEF ShapeOK, Lone
  <2>6. h = IF ~GoesFor(f[p], t) THEN PutIn(f, p, t, "failed")
            ELSE IF f[c].outcome \in {"ok", "blocked"}
            THEN PutIn(f, p, t, IF f[p].pattern = "swarm" THEN "done" ELSE "acting")
            ELSE Raised(f, p, t, f[c].outcome)
    BY <1>2 DEF Returned, PutIn, GoesFor
  <2> HIDE DEF p, t
  <2>7. CASE ~GoesFor(f[p], t)
    <3>1. "failed" \in {"failed", "done", "acting"} OBVIOUS
    <3>2. h = PutIn(f, p, t, "failed") BY <2>6, <2>7
    <3>3. (GoesFor(f[p], t) \/ "failed" = "failed")
          /\ (t = 0 /\ "failed" = "acting" => f[p].pattern \in {"loop", "swarm"})
      OBVIOUS
    <3>4. Goes(f, h, p, t) BY <2>1, <2>3, <2>4, <3>1, <3>2, <3>3, TaskGoes
    <3> QED BY <3>4 DEF p, t
  <2>8. CASE GoesFor(f[p], t) /\ f[c].outcome \in {"ok", "blocked"}
    <3>1. PICK s \in {"failed", "done", "acting"} : h = PutIn(f, p, t, s)
      BY <2>6, <2>8
    <3>2. (GoesFor(f[p], t) \/ s = "failed")
          /\ (t = 0 /\ s = "acting" => f[p].pattern \in {"loop", "swarm"})
      BY <2>5, <2>8
    <3>4. Goes(f, h, p, t) BY <2>1, <2>3, <2>4, <3>1, <3>2, TaskGoes
    <3> QED BY <3>4 DEF p, t
  <2>9. CASE GoesFor(f[p], t) /\ f[c].outcome \notin {"ok", "blocked"}
    <3>1. h = Raised(f, p, t, f[c].outcome) BY <2>6, <2>9
    <3>2. Goes(f, h, p, t) BY <2>1, <2>3, <2>4, <2>9, <3>1, RaisedGoes
    <3> QED BY <3>2 DEF p, t
  <2> QED BY <2>7, <2>8, <2>9
<1> QED BY <1>1, <1>2

LEMMA RunFinite == IsFiniteSet(Run) /\ 1 \in Run /\ 0 \in Task /\ NoRun \notin Run
BY FS_Interval, RunAssumption, TeamAssumption DEF Run, Task

LEMMA TypesOf ==
  ASSUME FineRows(run), NEW r \in Run
  PROVE  /\ run \in [Run -> Runs] /\ run[r] \in Runs /\ ShapeOK(run[r]) /\ Within(run[r])
         /\ run[r].task \in [Task -> State] /\ run[r].turns \in [Task -> 0 .. MaxIterations]
         /\ run[r].used \in Nat /\ run[r].told \in Nat /\ run[r].limit \in Nat
         /\ run[r].phase \in Phase /\ run[r].pattern \in Pattern /\ run[r].at \in Task
         /\ run[r].cause \in Outcome /\ run[r].parent \in Run \cup {NoRun}
BY DEF FineRows, Runs

LEMMA RecordedType ==
  ASSUME NEW r \in Run, FineRows(run)
  PROVE  Recorded(r) \in Nat
<1> DEFINE v == [c \in Run |-> run[c].reported]
           S == Below(run, r)
<1>1. S \subseteq Run /\ IsFiniteSet(S)
  <2>1. S \subseteq Run BY DEF Below
  <2> QED BY <2>1, RunFinite, FS_Subset
<1>2. \A x \in S : v[x] \in Nat BY <1>1 DEF FineRows, Runs
<1>3. Recorded(r) = SumFunctionOnSet(v, S) BY DEF Recorded
<1> HIDE DEF v, S
<1> QED BY <1>1, <1>2, <1>3, SumType

\* A pattern that is over waits for nobody, and what works on is left by a map.
LEMMA OverRow ==
  ASSUME FineRows(run), NEW c \in Run, run[c].phase \notin {"idle", "running", "ended"},
         run[c].phase = "unwinding" => Awaits(c) = {} \/ Drops(c),
         NEW y, y = Over(c)
  PROVE  /\ y \in Runs /\ Fixed(run[c], y) /\ y.phase = run[c].phase
         /\ y.used = run[c].used /\ y.told = run[c].told /\ y.listed = run[c].listed
         /\ y.billed = run[c].billed /\ y.outcome = run[c].outcome
         /\ y.delivered = run[c].delivered /\ y.reported = run[c].reported
         /\ y.task[0] \notin {"tool", "waiting"} /\ (Clear(y) \/ Tears(y)) /\ Lone(y)
         /\ run[c].phase = "building" => y.task = run[c].task
         /\ \A t \in Task : run[c].task[t] = "tool" => y.task[t] = "tool"
         /\ AtModel(y) \subseteq AtModel(run[c])
<1> DEFINE x == run[c]
           z == [x.task EXCEPT ![0] = IF x.task[0] = "waiting" THEN "failed" ELSE x.task[0]]
           b == x.left \/ (x.pattern = "map" /\ Awaits(c) # {})
<1>1. x \in Runs /\ ShapeOK(x) /\ x.task \in [Task -> State] BY TypesOf
<1>2. x.left \in BOOLEAN /\ x.phase \in {"building", "unwinding", "saving", "rejecting"}
  BY <1>1 DEF Runs, Phase
<1>3. /\ z \in [Task -> State] /\ b \in BOOLEAN
      /\ z[0] = IF x.task[0] = "waiting" THEN "failed" ELSE x.task[0]
      /\ \A t \in Task \ {0} : z[t] = x.task[t]
  BY <1>1, <1>2, RunFinite DEF State
<1>4. y = LeftTo(x, z, b) BY <1>1 DEF Over, LeftTo, Runs
<1>a. Awaits(c) = {t \in Task : x.task[t] = "tool" /\ ~(t # 0 /\ x.task[0] # "waiting")}
  BY DEF Awaits, Loose
<1>b. x.phase = "unwinding" => Awaits(c) = {} \/ (x.pattern = "map" /\ \E t \in Task \ {0} : x.task[t] = "failed")
  BY DEF Drops
<1> HIDE DEF z, b, x
<1>5. /\ y \in Runs /\ y.task = z /\ Fixed(x, y) /\ y.phase = x.phase /\ y.left = b
      /\ y.used = x.used /\ y.told = x.told /\ y.listed = x.listed /\ y.billed = x.billed
      /\ y.outcome = x.outcome /\ y.delivered = x.delivered /\ y.reported = x.reported
      /\ y.pattern = x.pattern
  BY <1>1, <1>3, <1>4, LeftRow DEF Fixed
<1>6. x.task[0] # "tool" /\ (x.phase # "unwinding" => x.task[0] # "waiting")
  <2>1. CASE x.phase = "building" BY <1>1, <2>1, RunFinite DEF ShapeOK, Unused, Fresh
  <2>2. CASE x.phase \in {"saving", "rejecting"} BY <1>1, <2>2 DEF ShapeOK, Concluded
  <2>3. CASE x.phase = "unwinding"
    <3>1. CASE Awaits(c) = {} BY <1>a, <2>3, <3>1, RunFinite
    <3>2. CASE x.pattern = "map" BY <1>1, <2>3, <3>2 DEF ShapeOK, Lone
    <3> QED BY <1>b, <2>3, <3>1, <3>2
  <2> QED BY <1>2, <2>1, <2>2, <2>3
<1>7. y.task[0] \notin {"tool", "waiting"} BY <1>3, <1>5, <1>6
<1>8. Clear(y) \/ Tears(y)
  <2>1. CASE x.task[0] # "waiting"
    <3>1. Clear(x) \/ Tears(x) BY <1>1, <2>1 DEF ShapeOK, Waits
    <3>2. x.left => y.left BY <1>5 DEF b
    <3> QED BY <1>3, <1>5, <3>1, <3>2 DEF Clear, Tears
  <2>2. CASE x.task[0] = "waiting" /\ Awaits(c) = {}
    <3>1. \A t \in Task \ {0} : x.task[t] \in Still \cup {"tool"}
      BY <1>1, <1>6, <2>2 DEF ShapeOK, Unwound
    <3>2. \A t \in Task \ {0} : x.task[t] \in Still BY <1>a, <2>2, <3>1
    <3> QED BY <1>3, <1>5, <3>2 DEF Clear
  <2>3. CASE x.task[0] = "waiting" /\ Awaits(c) # {}
    <3>1. x.pattern = "map" /\ \E t \in Task \ {0} : x.task[t] = "failed" BY <1>6, <1>b, <2>3
    <3>2. y.left BY <1>5, <2>3, <3>1 DEF b
    <3> QED BY <1>3, <1>5, <3>1, <3>2 DEF Tears
  <2> QED BY <2>1, <2>2, <2>3
<1>9. Lone(y)
  <2>1. Lone(x) BY <1>1 DEF ShapeOK
  <2> QED BY <1>3, <1>5, <1>7, <2>1 DEF Lone
<1>10. x.phase = "building" => y.task = x.task
  <2>1. x.task[0] # "waiting" => z = x.task BY <1>1, RunFinite DEF z
  <2> QED BY <1>5, <1>6, <2>1
<1>11. \A t \in Task : x.task[t] = "tool" => y.task[t] = "tool" BY <1>3, <1>5, <1>6
<1>12. AtModel(y) \subseteq AtModel(x) BY <1>3, <1>5 DEF AtModel
<1> QED BY <1>5, <1>7, <1>8, <1>9, <1>10, <1>11, <1>12 DEF x

\* The row of a run that ends.
LEMMA ResponseRow ==
  ASSUME FineRows(run), NEW c \in Run, NEW how \in Outcome,
         run[c].phase \notin {"idle", "running", "ended"},
         run[c].phase = "unwinding" => Awaits(c) = {} \/ Drops(c),
         NEW y, y = Response(c, how)
  PROVE  /\ y \in Runs /\ ShapeOK(y) /\ Within(y) /\ Fixed(run[c], y) /\ y.phase = "ended"
         /\ y.outcome = how /\ \A t \in Task : run[c].task[t] = "tool" => y.task[t] = "tool"
         /\ y.used = run[c].used /\ y.told = run[c].told /\ y.listed = run[c].listed
         /\ y.parent = NoRun =>
              /\ how \in {"ok", "blocked"} => y.delivered = y.listed
              /\ y.billed = y.used + Recorded(c)
<1> DEFINE x == run[c]
           rep == IF Registered(c, how) THEN x.used ELSE 0
           del == IF how \in {"ok", "blocked"} /\ x.parent = NoRun THEN x.delivered + x.listed ELSE 0
           bil == IF x.parent = NoRun THEN x.used + Recorded(c) ELSE 0
<1>1. x \in Runs /\ ShapeOK(x) /\ Within(x) BY DEF FineRows
<1>2. x.used \in Nat /\ x.listed \in Nat /\ x.delivered \in Nat
  BY <1>1, RunAssumption DEF Runs
<1>3. rep \in Nat /\ del \in Nat /\ bil \in Nat BY <1>2, RecordedType
<1>w. PICK w : w = Over(c) OBVIOUS
<1>o. /\ w \in Runs /\ Fixed(x, w) /\ w.phase = x.phase
      /\ w.used = x.used /\ w.told = x.told /\ w.listed = x.listed
      /\ w.billed = x.billed /\ w.outcome = x.outcome
      /\ w.delivered = x.delivered /\ w.reported = x.reported
      /\ w.task[0] \notin {"tool", "waiting"} /\ (Clear(w) \/ Tears(w)) /\ Lone(w)
      /\ x.phase = "building" => w.task = x.task
      /\ \A t \in Task : x.task[t] = "tool" => w.task[t] = "tool"
      /\ AtModel(w) \subseteq AtModel(x)
  BY <1>w, OverRow
<1>4. y = [w EXCEPT !.phase = "ended", !.outcome = how, !.reported = rep, !.delivered = del,
             !.billed = bil]
  BY <1>w, <1>o DEF Response, Runs
<1>5. x.parent # NoRun => rep = x.used BY DEF Registered
<1>6. x.delivered = 0 BY <1>1 DEF ShapeOK, Open
<1>7. x.parent = NoRun => (how \in {"ok", "blocked"} => del = x.listed) /\ bil = x.used + Recorded(c)
  BY <1>2, <1>6
<1> HIDE DEF x, rep, del, bil
<1>8. y \in Runs
  <2>1. "ended" \in Phase BY DEF Phase
  <2>2. [w EXCEPT !.phase = "ended", !.outcome = how, !.reported = rep, !.delivered = del,
           !.billed = bil] \in Runs
    BY <1>o, <1>3, <2>1, Zenon DEF Runs
  <2> QED BY <2>2, <1>4
<1>9. /\ y.phase = "ended" /\ y.task = w.task /\ y.outcome = how
      /\ y.pattern = w.pattern /\ y.limit = w.limit /\ y.parent = w.parent /\ y.at = w.at
      /\ y.linaje = w.linaje /\ y.list = w.list /\ y.handoffs = w.handoffs /\ y.hops = w.hops
      /\ y.used = w.used /\ y.told = w.told /\ y.listed = w.listed /\ y.left = w.left
      /\ y.reported = rep /\ y.delivered = del /\ y.billed = bil
  BY <1>o, <1>4 DEF Runs
<1>f. Fixed(x, y) /\ y.used = x.used /\ y.told = x.told /\ y.listed = x.listed
  BY <1>9, <1>o DEF Fixed
<1>10. ShapeOK(y)
  <2>1. Counted(y) BY <1>1, <1>f DEF ShapeOK, Counted, Fixed
  <2>2. Open(y) BY <1>5, <1>9, <1>f DEF Open, Fixed
  <2>3. Lone(y) /\ Waits(y) /\ Concluded(y) /\ Unwound(y)
    BY <1>9, <1>o DEF Lone, Waits, Clear, Tears, Concluded, Unwound
  <2>4. Unused(y)
    <3>1. x.phase # "idle" BY DEF x
    <3>2. x.pattern # "none" BY <1>1, <3>1 DEF ShapeOK, Unused
    <3> QED BY <1>9, <1>f, <3>2 DEF Unused, Fixed
  <2> QED BY <2>1, <2>2, <2>3, <2>4 DEF ShapeOK
<1>11. AtModel(y) \subseteq AtModel(x) BY <1>9, <1>o DEF AtModel
<1>12. Within(y) BY <1>1, <1>8, <1>f, <1>11, WithinLess DEF Fixed
<1>13. /\ y.outcome = how /\ y.phase = "ended"
       /\ \A t \in Task : x.task[t] = "tool" => y.task[t] = "tool"
       /\ y.parent = NoRun =>
            /\ how \in {"ok", "blocked"} => y.delivered = y.listed
            /\ y.billed = y.used + Recorded(c)
  BY <1>7, <1>9, <1>f, <1>o DEF Fixed
<1> QED BY <1>8, <1>f, <1>10, <1>12, <1>13 DEF x

\* What a step that ends run c is like.
EndsOne(c) ==
  /\ Active(run, c) /\ run'[c].phase = "ended"
  /\ FineRows(run') /\ Evolves(run, run') /\ SameLedger(run, run')
  /\ \A d \in Run : d # c /\ run'[d].phase = "ended" => run[d].phase = "ended"
  /\ StillWait(run, run', run[c].parent, run[c].at)
  /\ run[c].parent = NoRun =>
       /\ run'[c].outcome \in {"ok", "blocked"} => run'[c].delivered = run[c].listed
       /\ run'[c].billed = run[c].used + Recorded(c)

LEMMA EndsForm ==
  ASSUME FineRows(run), Called, Awaited, NEW c \in Run, NEW how \in Outcome,
         run[c].phase \notin {"idle", "running", "ended"},
         run[c].phase = "unwinding" => Awaits(c) = {} \/ Drops(c),
         Ends(c, how)
  PROVE  EndsOne(c)
<1> DEFINE p == run[c].parent
           t == run[c].at
<1>1. PICK y : y = Response(c, how) OBVIOUS
<1>2. /\ y \in Runs /\ ShapeOK(y) /\ Within(y) /\ Fixed(run[c], y) /\ y.phase = "ended"
      /\ y.outcome = how /\ \A s \in Task : run[c].task[s] = "tool" => y.task[s] = "tool"
      /\ y.used = run[c].used /\ y.told = run[c].told /\ y.listed = run[c].listed
      /\ y.parent = NoRun =>
           /\ how \in {"ok", "blocked"} => y.delivered = y.listed
           /\ y.billed = y.used + Recorded(c)
  BY <1>1, ResponseRow
<1>3. PICK f : f = With(run, c, y) OBVIOUS
<1>4. run \in [Run -> Runs] /\ \A d \in Run : ShapeOK(run[d]) /\ Within(run[d]) BY DEF FineRows
<1>5. f \in [Run -> Runs] /\ f[c] = y /\ \A d \in Run : d # c => f[d] = run[d]
  BY <1>2, <1>3, <1>4 DEF With
<1>6. FineRows(f) BY <1>2, <1>4, <1>5 DEF FineRows
<1>7. Evolves(run, f)
  <2> SUFFICES ASSUME NEW d \in Run
               PROVE  /\ Fixed(run[d], f[d])
                      /\ run[d].phase = "idle" \/ f[d].phase = "idle" => f[d] = run[d]
                      /\ run[d].phase = "ended" =>
                           /\ f[d].phase = "ended" /\ f[d].outcome = run[d].outcome
                           /\ f[d].delivered = run[d].delivered /\ f[d].billed = run[d].billed
                           /\ Tears(run[d]) => Tears(f[d])
    BY DEF Evolves
  <2>1. CASE d = c BY <1>2, <1>5, <2>1
  <2>2. CASE d # c BY <1>5, <2>2 DEF Fixed
  <2> QED BY <2>1, <2>2
<1>8. p # NoRun => p \in Run /\ p # c /\ run[p].task[t] = "tool"
  <2>1. p \in Run \cup {NoRun} BY <1>4 DEF Runs
  <2>2. Active(run, c) BY DEF Active
  <2> QED BY <2>1, <2>2 DEF Called, Awaited
<1>9. /\ f[c].parent = p /\ f[c].at = t /\ f[c].outcome = how BY <1>2, <1>5 DEF Fixed
<1>10. run' = Returned(f, c) BY <1>1, <1>3 DEF Ends, With
<1>11. Goes(f, run', p, t)
  <2>1. f[c].parent # NoRun => f[c].parent \in Run /\ f[f[c].parent].task[f[c].at] = "tool"
    BY <1>5, <1>8, <1>9
  <2>2. Goes(f, run', f[c].parent, f[c].at) BY <1>6, <1>9, <1>10, <2>1, ReturnedGoes
  <2> QED BY <2>2, <1>9
<1>12. Evolves(run, run')
  <2>1. Evolves(f, run') BY <1>11 DEF Goes, Moves
  <2> QED BY <1>7, <2>1 DEF Evolves, Fixed
<1>13. SameLedger(run, run')
  <2>1. SameLedger(run, f) BY <1>2, <1>5 DEF SameLedger
  <2> QED BY <2>1, <1>11 DEF Goes, SameLedger
<1>14. StillWait(run, run', p, t)
  <2>1. StillWait(run, f, p, t) BY <1>2, <1>5 DEF StillWait
  <2> QED BY <2>1, <1>11 DEF Goes, Moves, StillWait
<1>15. \A d \in Run : d # c /\ run'[d].phase = "ended" => run[d].phase = "ended"
  BY <1>5, <1>11 DEF Goes, Moves, NoneEnds
<1>16. /\ run'[c].phase = "ended" /\ run'[c].outcome = y.outcome
       /\ run'[c].delivered = y.delivered /\ run'[c].billed = y.billed
  BY <1>2, <1>5, <1>11 DEF Goes, Moves, Evolves
<1>17. run[c].parent = NoRun =>
         /\ run'[c].outcome \in {"ok", "blocked"} => run'[c].delivered = run[c].listed
         /\ run'[c].billed = run[c].used + Recorded(c)
  BY <1>2, <1>16 DEF Fixed
<1>18. FineRows(run') /\ Active(run, c) BY <1>11 DEF Goes, Moves, Active
<1> HIDE DEF p, t
<1> QED BY <1>12, <1>13, <1>14, <1>15, <1>16, <1>17, <1>18 DEF EndsOne, p, t

-----------------------------------------------------------------------------
(* The actions.                                                            *)

Works == Moves(run, run', NoRun, 0)

\* What each row update leaves alone.
Kin(x, y) == Fixed(x, y) /\ y.outcome = x.outcome /\ y.delivered = x.delivered
             /\ y.reported = x.reported /\ y.left = x.left /\ y.billed = x.billed /\ y.listed = x.listed

LEMMA PhaseRow ==
  ASSUME NEW x \in Runs, NEW ph \in Phase, NEW y, y = [x EXCEPT !.phase = ph]
  PROVE  /\ y \in Runs /\ Kin(x, y) /\ y.phase = ph /\ y.task = x.task
         /\ y.used = x.used /\ y.told = x.told
<1>1. [x EXCEPT !.phase = ph] \in Runs BY Zenon DEF Runs
<1>2. /\ y.phase = ph /\ y.task = x.task
      /\ y.pattern = x.pattern /\ y.limit = x.limit /\ y.parent = x.parent /\ y.at = x.at
      /\ y.linaje = x.linaje /\ y.list = x.list /\ y.handoffs = x.handoffs /\ y.hops = x.hops
      /\ y.used = x.used /\ y.told = x.told /\ y.listed = x.listed /\ y.billed = x.billed
      /\ y.outcome = x.outcome /\ y.delivered = x.delivered /\ y.reported = x.reported
      /\ y.left = x.left
  BY DEF Runs
<1> QED BY <1>1, <1>2 DEF Kin, Fixed

LEMMA CutRow ==
  ASSUME NEW x \in Runs, NEW y, y = [x EXCEPT !.cut = TRUE]
  PROVE  /\ y \in Runs /\ Kin(x, y) /\ y.phase = x.phase /\ y.task = x.task
         /\ y.used = x.used /\ y.told = x.told
<1>1. [x EXCEPT !.cut = TRUE] \in Runs BY Zenon DEF Runs
<1>2. /\ y.phase = x.phase /\ y.task = x.task
      /\ y.pattern = x.pattern /\ y.limit = x.limit /\ y.parent = x.parent /\ y.at = x.at
      /\ y.linaje = x.linaje /\ y.list = x.list /\ y.handoffs = x.handoffs /\ y.hops = x.hops
      /\ y.used = x.used /\ y.told = x.told /\ y.listed = x.listed /\ y.billed = x.billed
      /\ y.outcome = x.outcome /\ y.delivered = x.delivered /\ y.reported = x.reported
      /\ y.left = x.left
  BY DEF Runs
<1> QED BY <1>1, <1>2 DEF Kin, Fixed

LEMMA TasksRow ==
  ASSUME NEW x \in Runs, NEW z \in [Task -> State], NEW y, y = [x EXCEPT !.task = z]
  PROVE  /\ y \in Runs /\ Kin(x, y) /\ y.phase = x.phase /\ y.task = z
         /\ y.used = x.used /\ y.told = x.told
<1>1. [x EXCEPT !.task = z] \in Runs BY Zenon DEF Runs
<1>2. /\ y.phase = x.phase /\ y.task = z
      /\ y.pattern = x.pattern /\ y.limit = x.limit /\ y.parent = x.parent /\ y.at = x.at
      /\ y.linaje = x.linaje /\ y.list = x.list /\ y.handoffs = x.handoffs /\ y.hops = x.hops
      /\ y.used = x.used /\ y.told = x.told /\ y.listed = x.listed /\ y.billed = x.billed
      /\ y.outcome = x.outcome /\ y.delivered = x.delivered /\ y.reported = x.reported
      /\ y.left = x.left
  BY DEF Runs
<1> QED BY <1>1, <1>2 DEF Kin, Fixed

UsedTo(x, u, z)  == [x EXCEPT !.used = u, !.task = z]
TurnsTo(x, z, n) == [x EXCEPT !.task = z, !.turns = n]

LEMMA UsedRow ==
  ASSUME NEW x \in Runs, NEW u \in Nat, NEW z \in [Task -> State], NEW y, y = UsedTo(x, u, z)
  PROVE  /\ y \in Runs /\ Kin(x, y) /\ y.phase = x.phase /\ y.task = z
         /\ y.used = u /\ y.told = x.told
<1>1. [x EXCEPT !.used = u, !.task = z] \in Runs BY Zenon DEF Runs
<1>2. /\ y.phase = x.phase /\ y.task = z
      /\ y.pattern = x.pattern /\ y.limit = x.limit /\ y.parent = x.parent /\ y.at = x.at
      /\ y.linaje = x.linaje /\ y.list = x.list /\ y.handoffs = x.handoffs /\ y.hops = x.hops
      /\ y.used = u /\ y.told = x.told /\ y.listed = x.listed /\ y.billed = x.billed
      /\ y.outcome = x.outcome /\ y.delivered = x.delivered /\ y.reported = x.reported
      /\ y.left = x.left
  BY DEF Runs, UsedTo, TurnsTo
<1> QED BY <1>1, <1>2 DEF Kin, Fixed, UsedTo, TurnsTo

LEMMA TurnsRow ==
  ASSUME NEW x \in Runs, NEW z \in [Task -> State], NEW n \in [Task -> 0 .. MaxIterations], NEW y, y = TurnsTo(x, z, n)
  PROVE  /\ y \in Runs /\ Kin(x, y) /\ y.phase = x.phase /\ y.task = z
         /\ y.used = x.used /\ y.told = x.told
<1>1. [x EXCEPT !.task = z, !.turns = n] \in Runs BY Zenon DEF Runs
<1>2. /\ y.phase = x.phase /\ y.task = z
      /\ y.pattern = x.pattern /\ y.limit = x.limit /\ y.parent = x.parent /\ y.at = x.at
      /\ y.linaje = x.linaje /\ y.list = x.list /\ y.handoffs = x.handoffs /\ y.hops = x.hops
      /\ y.used = x.used /\ y.told = x.told /\ y.listed = x.listed /\ y.billed = x.billed
      /\ y.outcome = x.outcome /\ y.delivered = x.delivered /\ y.reported = x.reported
      /\ y.left = x.left
  BY DEF Runs, UsedTo, TurnsTo
<1> QED BY <1>1, <1>2 DEF Kin, Fixed, UsedTo, TurnsTo

\* A task that waits for nobody gets no answer.
LEMMA NotWaiting ==
  ASSUME NEW r, NEW t, Goes(run, run', r, t), run[r].task[t] # "tool"
  PROVE  Works /\ SameLedger(run, run')
BY RunFinite DEF Works, Goes, Moves, StillWait

\* Another phase: the pattern starts, or has answered.
LEMMA PhaseWorks ==
  ASSUME FineRows(run), NEW r \in Run, NEW ph \in {"running", "saving", "rejecting"},
         ph = "running" => run[r].phase = "building",
         ph # "running" => run[r].phase = "running" /\ run[r].task[0] = "done",
         Update(r, [run[r] EXCEPT !.phase = ph])
  PROVE  Works /\ SameLedger(run, run')
<1> DEFINE x == run[r]
<1>1. x \in Runs /\ ShapeOK(x) /\ Within(x) /\ x.task \in [Task -> State] BY TypesOf
<1>2. ph \in Phase BY DEF Phase
<1>3. PICK y : y = [x EXCEPT !.phase = ph] OBVIOUS
<1>4. /\ y \in Runs /\ Kin(x, y) /\ y.phase = ph /\ y.task = x.task
      /\ y.used = x.used /\ y.told = x.told
  BY <1>1, <1>2, <1>3, PhaseRow
<1>5. run' = With(run, r, y) BY <1>3 DEF Update, With
<1> HIDE DEF x
<1>6. x.phase \in {"building", "running"} /\ (ph # "running" => x.task[0] = "done") BY DEF x
<1>7. ShapeOK(y)
  <2>1. Counted(y) /\ Lone(y) /\ Unwound(y)
    BY <1>1, <1>4 DEF ShapeOK, Kin, Fixed, Counted, Lone, Unwound
  <2>2. Open(y) BY <1>1, <1>4, <1>6 DEF ShapeOK, Kin, Fixed, Open
  <2>3. Waits(y) BY <1>1, <1>4 DEF ShapeOK, Kin, Fixed, Waits, Clear, Tears
  <2>4. Concluded(y) BY <1>4, <1>6 DEF Concluded
  <2>5. Unused(y) BY <1>1, <1>4, <1>6 DEF ShapeOK, Kin, Fixed, Unused
  <2> QED BY <2>1, <2>2, <2>3, <2>4, <2>5 DEF ShapeOK
<1>8. AtModel(y) \subseteq AtModel(x) BY <1>4 DEF AtModel
<1>9. Within(y) BY <1>1, <1>4, <1>8, WithinLess DEF Kin, Fixed
<1>10. Goes(run, run', NoRun, 0)
  <2>1. Fixed(run[r], y) /\ y.used = run[r].used /\ y.told = run[r].told /\ y.listed = run[r].listed
    BY <1>4 DEF Kin, x
  <2>2. run[r].phase \notin {"idle", "ended"} /\ y.phase \notin {"idle", "ended"} BY <1>4, <1>6 DEF x
  <2>3. \A s \in Task : run[r].task[s] = "tool" => y.task[s] = "tool" BY <1>4 DEF x
  <2> QED BY <1>4, <1>5, <1>7, <1>9, <2>1, <2>2, <2>3, OneGoes
<1> QED BY <1>10 DEF Goes, Works

\* The pattern has unwound, and the answer is the rejection.
LEMMA RejectsWorks ==
  ASSUME FineRows(run), NEW r \in Run, run[r].phase = "unwinding", Awaits(r) = {} \/ Drops(r),
         Update(r, [Over(r) EXCEPT !.phase = "rejecting"])
  PROVE  Works /\ SameLedger(run, run')
<1> DEFINE x == run[r]
<1>1. x \in Runs /\ ShapeOK(x) /\ Within(x) BY TypesOf
<1>2. PICK w : w = Over(r) OBVIOUS
<1>3. /\ w \in Runs /\ Fixed(x, w) /\ w.phase = x.phase
      /\ w.used = x.used /\ w.told = x.told /\ w.listed = x.listed
      /\ w.billed = x.billed /\ w.outcome = x.outcome
      /\ w.delivered = x.delivered /\ w.reported = x.reported
      /\ w.task[0] \notin {"tool", "waiting"} /\ (Clear(w) \/ Tears(w)) /\ Lone(w)
      /\ \A t \in Task : x.task[t] = "tool" => w.task[t] = "tool"
      /\ AtModel(w) \subseteq AtModel(x)
  <2>1. x.phase \notin {"idle", "running", "ended"} OBVIOUS
  <2> QED BY <1>2, <2>1, OverRow
<1>4. PICK y : y = [w EXCEPT !.phase = "rejecting"] OBVIOUS
<1>5. /\ y \in Runs /\ Kin(w, y) /\ y.phase = "rejecting" /\ y.task = w.task
      /\ y.used = w.used /\ y.told = w.told
  <2>1. "rejecting" \in Phase BY DEF Phase
  <2> QED BY <1>3, <1>4, <2>1, PhaseRow
<1>6. run' = With(run, r, y) BY <1>2, <1>4 DEF Update, With
<1> HIDE DEF x
<1>7. Fixed(x, y) /\ y.used = x.used /\ y.told = x.told /\ y.listed = x.listed
      /\ y.outcome = x.outcome /\ y.delivered = x.delivered
  BY <1>3, <1>5 DEF Kin, Fixed
<1>8. x.phase = "unwinding" BY DEF x
<1>9. ShapeOK(y)
  <2>1. Counted(y) BY <1>1, <1>7 DEF ShapeOK, Counted, Fixed
  <2>2. Open(y) BY <1>1, <1>5, <1>7, <1>8 DEF ShapeOK, Open
  <2>3. Lone(y) /\ Waits(y) /\ Concluded(y) /\ Unwound(y)
    BY <1>3, <1>5 DEF Kin, Fixed, Lone, Waits, Clear, Tears, Concluded, Unwound
  <2>4. Unused(y) BY <1>1, <1>5, <1>7, <1>8 DEF ShapeOK, Unused, Fixed
  <2> QED BY <2>1, <2>2, <2>3, <2>4 DEF ShapeOK
<1>10. AtModel(y) \subseteq AtModel(x) BY <1>3, <1>5 DEF AtModel
<1>11. Within(y) BY <1>1, <1>5, <1>7, <1>10, WithinLess DEF Fixed
<1>12. Goes(run, run', NoRun, 0)
  <2>1. Fixed(run[r], y) /\ y.used = run[r].used /\ y.told = run[r].told /\ y.listed = run[r].listed
    BY <1>7 DEF x
  <2>2. run[r].phase \notin {"idle", "ended"} /\ y.phase \notin {"idle", "ended"} BY <1>5, <1>8 DEF x
  <2>3. \A s \in Task : run[r].task[s] = "tool" => y.task[s] = "tool" BY <1>3, <1>5 DEF x
  <2> QED BY <1>5, <1>6, <1>9, <1>11, <2>1, <2>2, <2>3, OneGoes
<1> QED BY <1>12 DEF Goes, Works

Wrote(z, t, s) == [z EXCEPT ![t] = s]

\* A task goes on, and its model has answered or not.
LEMMA TaskWorks ==
  ASSUME FineRows(run), NEW r \in Run, NEW t \in Task, GoesFor(run[r], t),
         run[r].task[t] \in {"ready", "acting", "model"}, run[r].phase \notin {"idle", "building"},
         NEW y \in Runs, Kin(run[r], y),
         y.phase = run[r].phase, NEW s \in {"done", "acting", "model"},
         y.task = Wrote(run[r].task, t, s),
         t = 0 /\ s = "acting" => run[r].pattern \in {"loop", "swarm"},
         Within(y), NEW f, f = With(run, r, y)
  PROVE  /\ Moves(run, f, NoRun, 0) /\ f[r] = y /\ \A d \in Run : d # r => f[d] = run[d]
<1>1. run[r] \in Runs /\ ShapeOK(run[r]) /\ run[r].task \in [Task -> State] BY TypesOf
<1>2. s \in {"failed", "done", "acting", "model", "tool"} /\ run[r].task[t] \in Busy
      /\ Same(run[r], y)
  BY DEF Kin, Same, Busy
<1>3. ShapeOK(y)
  <2>1. /\ GoesFor(run[r], t) \/ s = "failed"
        /\ GoesFor(run[r], t) \/ y.used = run[r].used
        /\ t = 0 /\ s \in {"acting", "tool"} => run[r].pattern \in {"loop", "swarm"}
    OBVIOUS
  <2> QED BY <1>1, <1>2, <2>1, ShapeSet DEF Wrote
<1>4. \A u \in Task : run[r].task[u] = "tool" /\ ~(r = NoRun /\ u = 0) => y.task[u] = "tool"
  BY <1>1 DEF Wrote
<1>t. Tears(run[r]) => Tears(y) BY <1>1 DEF Tears, Wrote, Kin, Fixed
<1>5. /\ Fixed(run[r], y) /\ run[r].phase # "idle"
      /\ y.phase \notin {"idle", "ended"} \/ y.phase = run[r].phase
      /\ run[r].phase = "ended" =>
           /\ y.phase = "ended" /\ y.outcome = run[r].outcome /\ y.delivered = run[r].delivered
           /\ y.billed = run[r].billed /\ (Tears(run[r]) => Tears(y))
  BY <1>t DEF Kin
<1> QED BY <1>3, <1>4, <1>5, OneMoves

\* A task at work is of a working run, or of a map that tore and ended.
AtWork(r) == Active(run, r) \/ Tore(run[r])

LEMMA TaskAtWork ==
  ASSUME FineRows(run), NEW r \in Run, NEW t \in Task, NEW states \in SUBSET Busy,
         Working(r, t, states)
  PROVE  /\ GoesFor(run[r], t) /\ run[r].task[t] \in states /\ AtWork(r)
         /\ run[r].phase \notin {"idle", "building"}
         /\ t = 0 \/ run[r].task[0] = "waiting" => run[r].phase = "running"
<1>1. run[r] \in Runs /\ ShapeOK(run[r]) BY TypesOf
<1>2. GoesFor(run[r], t) /\ run[r].task[t] \in states /\ run[r].task[t] \in Busy
  BY DEF Working, GoesFor
<1>3. t = 0 \/ run[r].task[0] = "waiting" => run[r].phase = "running" BY <1>2 DEF GoesFor, Loose
<1>4. CASE run[r].phase = "running" BY <1>2, <1>3, <1>4 DEF AtWork, Active
<1>5. CASE run[r].phase # "running"
  <2>1. Tears(run[r]) /\ run[r].phase \notin {"idle", "building"}
    BY <1>1, <1>2, <1>5, LooseTore DEF GoesFor
  <2> QED BY <1>2, <1>3, <2>1 DEF AtWork, Active, Tore
<1> QED BY <1>4, <1>5

Quiet == Works /\ SameLedger(run, run')

LEMMA BuildForm ==
  ASSUME FineRows(run), Called, Awaited, NEW r \in Run, Build(r)
  PROVE  Quiet \/ EndsOne(r)
<1>1. run[r].phase = "building" BY DEF Build
<1>2. CASE Update(r, [run[r] EXCEPT !.phase = "running"])
  <2>1. "running" \in {"running", "saving", "rejecting"} OBVIOUS
  <2>2. "running" # "running" => run[r].phase = "running" /\ run[r].task[0] = "done"
    OBVIOUS
  <2> QED BY <1>1, <1>2, <2>1, <2>2, PhaseWorks DEF Quiet
<1>3. CASE \E how \in Outcome : Ends(r, how)
  <2>1. run[r].phase \notin {"idle", "running", "ended"} /\ run[r].phase # "unwinding" BY <1>1
  <2> QED BY <1>3, <2>1, EndsForm
<1>4. "blocked" \in Outcome /\ "error" \in Outcome BY DEF Outcome
<1> QED BY <1>2, <1>3, <1>4 DEF Build

LEMMA PersistForm ==
  ASSUME FineRows(run), Called, Awaited, NEW r \in Run, Persist(r)
  PROVE  EndsOne(r)
<1>1. run[r].phase \notin {"idle", "running", "ended"} /\ run[r].phase # "unwinding"
  BY DEF Persist
<1>2. PICK how \in Outcome : Ends(r, how) BY DEF Persist, Outcome
<1> QED BY <1>1, <1>2, EndsForm

LEMMA UnwindsForm ==
  ASSUME FineRows(run), Called, Awaited, NEW r \in Run, Unwinds(r)
  PROVE  Quiet \/ EndsOne(r)
<1>1. run[r].phase = "unwinding" /\ (Awaits(r) = {} \/ Drops(r)) BY DEF Unwinds
<1>2. CASE Update(r, [Over(r) EXCEPT !.phase = "rejecting"])
  BY <1>1, <1>2, RejectsWorks DEF Quiet
<1>3. CASE Ends(r, run[r].cause)
  <2>1. run[r].phase \notin {"idle", "running", "ended"} BY <1>1
  <2>2. run[r].cause \in Outcome BY TypesOf
  <2> QED BY <1>1, <1>3, <2>1, <2>2, EndsForm
<1> QED BY <1>2, <1>3 DEF Unwinds

LEMMA ConcludesForm ==
  ASSUME FineRows(run), NEW r \in Run, Concludes(r)
  PROVE  Quiet
<1>1. run[r].phase = "running" /\ run[r].task[0] = "done" BY DEF Concludes, Working, Loose
<1>2. PICK ph \in {"saving", "rejecting"} : Update(r, [run[r] EXCEPT !.phase = ph])
  BY DEF Concludes
<1>3. /\ ph \in {"running", "saving", "rejecting"} /\ (ph = "running" => run[r].phase = "building")
      /\ ph # "running" => run[r].phase = "running" /\ run[r].task[0] = "done"
  BY <1>1, <1>2
<1> QED BY <1>2, <1>3, PhaseWorks DEF Quiet

LEMMA ExpireForm ==
  ASSUME FineRows(run), NEW r \in Run, Expire(r)
  PROVE  Quiet
<1>1. Active(run, r) /\ run' = Interrupted(run, r, "timeout") BY DEF Expire, Active
<1>2. "timeout" \in Outcome BY DEF Outcome
<1>3. Goes(run, run', NoRun, 0) BY <1>1, <1>2, InterruptedGoes
<1> QED BY <1>3 DEF Goes, Quiet, Works

LEMMA FailsForm ==
  ASSUME FineRows(run), NEW r \in Run, NEW t \in Task, Fails(r, t)
  PROVE  Quiet
<1>1. /\ GoesFor(run[r], t) /\ run[r].task[t] \in Busy /\ run[r].task[t] # "tool"
      /\ run[r].phase \notin {"idle", "building"} /\ run' = Raised(run, r, t, "error")
  <2>1. {"model", "acting"} \in SUBSET Busy BY DEF Busy
  <2> QED BY <2>1, TaskAtWork DEF Fails, Busy
<1>2. "error" \in Outcome BY DEF Outcome
<1>3. Goes(run, run', r, t) BY <1>1, <1>2, RaisedGoes
<1> QED BY <1>1, <1>3, NotWaiting DEF Quiet

\* The tasks of a pattern start.
LEMMA SplitWorks ==
  ASSUME FineRows(run), NEW r \in Run, run[r].phase = "running", run[r].pattern \in Glyph \cup {"fanout"},
         \A t \in Task : run[r].task[t] # "tool",
         NEW y \in Runs, Kin(run[r], y), y.phase = "running", y.task[0] = "waiting",
         Within(y), NEW f, f = With(run, r, y)
  PROVE  /\ Moves(run, f, NoRun, 0) /\ f[r] = y /\ \A d \in Run : d # r => f[d] = run[d]
<1>1. run[r] \in Runs /\ ShapeOK(run[r]) BY TypesOf
<1>2. y.pattern \notin {"loop", "swarm"} BY DEF Kin, Fixed, Glyph
<1>3. ShapeOK(y)
  BY <1>1, <1>2 DEF ShapeOK, Kin, Fixed, Counted, Lone, Unwound, Waits, Concluded, Unused, Open
<1>4. \A u \in Task : run[r].task[u] = "tool" /\ ~(r = NoRun /\ u = 0) => y.task[u] = "tool"
  OBVIOUS
<1>5. /\ Fixed(run[r], y) /\ run[r].phase # "idle"
      /\ y.phase \notin {"idle", "ended"} \/ y.phase = run[r].phase
      /\ run[r].phase = "ended" =>
           /\ y.phase = "ended" /\ y.outcome = run[r].outcome /\ y.delivered = run[r].delivered
           /\ y.billed = run[r].billed /\ (Tears(run[r]) => Tears(y))
  BY DEF Kin
<1> QED BY <1>3, <1>4, <1>5, OneMoves

LEMMA SplitRow ==
  ASSUME NEW rec, NEW next \in Split(rec)
  PROVE  \E z \in [Task -> State] :
           /\ next = [rec EXCEPT !.task = z] /\ z[0] = "waiting"
           /\ \A t \in Task : z[t] # "model"
<1>1. PICK n \in 1 .. Width, s \in {"ready", "acting"} :
        next = [rec EXCEPT !.task = [t \in Task |-> IF t = 0 THEN "waiting" ELSE IF t <= n THEN s ELSE "off"]]
  BY DEF Split
<1> DEFINE z == [t \in Task |-> IF t = 0 THEN "waiting" ELSE IF t <= n THEN s ELSE "off"]
<1>2. z \in [Task -> State] BY DEF State
<1>3. z[0] = "waiting" /\ \A t \in Task : z[t] # "model" BY RunFinite
<1> QED BY <1>1, <1>2, <1>3

LEMMA RunProgramForm ==
  ASSUME FineRows(run), NEW r \in Run, RunProgram(r)
  PROVE  Quiet
<1> DEFINE x == run[r]
<1>1. /\ x.phase = "running" /\ x.task[0] = "ready" /\ x.pattern \in Glyph
      /\ \A t \in Task \ {0} : x.task[t] = "off"
  BY DEF RunProgram, Working, Unsplit, Loose
<1>2. PICK y \in Split(x) : Update(r, y) BY DEF RunProgram
<1>3. PICK z \in [Task -> State] :
        y = [x EXCEPT !.task = z] /\ z[0] = "waiting" /\ \A t \in Task : z[t] # "model"
  BY SplitRow
<1>4. x \in Runs /\ Within(x) BY TypesOf
<1>5. /\ y \in Runs /\ Kin(x, y) /\ y.phase = x.phase /\ y.task = z
      /\ y.used = x.used /\ y.told = x.told
  BY <1>3, <1>4, TasksRow
<1>6. AtModel(y) \subseteq AtModel(x) BY <1>3, <1>5 DEF AtModel
<1>7. Within(y) BY <1>4, <1>5, <1>6, WithinLess DEF Kin, Fixed
<1>8. run' = With(run, r, y) BY <1>2 DEF Update, With
<1>9. \A t \in Task : x.task[t] # "tool" BY <1>1
<1>10. y.phase = "running" /\ y.task[0] = "waiting" /\ x.pattern \in Glyph \cup {"fanout"}
  BY <1>1, <1>3, <1>5
<1>11. Moves(run, run', NoRun, 0) /\ run'[r] = y /\ \A d \in Run : d # r => run'[d] = run[d]
  BY <1>1, <1>5, <1>7, <1>8, <1>9, <1>10, SplitWorks
<1>12. SameLedger(run, run') BY <1>5, <1>11 DEF SameLedger, Kin
<1> QED BY <1>11, <1>12 DEF Quiet, Works

\* What a run whose pattern does not wait leaves out of its model calls.
LEMMA SomeoneElse ==
  ASSUME NEW x \in Runs, ShapeOK(x), NEW t \in Task,
         x.task[t] \in {"ready", "acting", "model"}
  PROVE  \E u \in Task \ {t} : x.task[u] # "model"
<1>1. 1 \in Task \ {0} /\ 0 \in Task BY RunAssumption DEF Task
<1>2. CASE x.task[0] = "waiting" BY <1>1, <1>2
<1>3. CASE x.task[0] # "waiting"
  <2>1. Clear(x) \/ Tears(x) BY <1>3 DEF ShapeOK, Waits
  <2>2. CASE Clear(x)
    <3>1. t = 0 BY <2>2 DEF Clear, Still
    <3> QED BY <1>1, <2>2, <3>1 DEF Clear, Still
  <2>3. CASE Tears(x)
    <3>1. PICK u \in Task \ {0} : x.task[u] = "failed" BY <2>3 DEF Tears
    <3> QED BY <3>1
  <2> QED BY <2>1, <2>2, <2>3
<1> QED BY <1>2, <1>3

LEMMA CallModelForm ==
  ASSUME FineRows(run), NEW r \in Run, NEW t \in Task, CallModel(r, t)
  PROVE  Quiet
<1> DEFINE x == run[r]
<1>1. /\ GoesFor(x, t) /\ x.task[t] \in {"ready", "acting"} /\ x.turns[t] < MaxIterations
      /\ x.phase \notin {"idle", "building"}
  <2>1. {"ready", "acting"} \in SUBSET Busy BY DEF Busy
  <2> QED BY <2>1, TaskAtWork DEF CallModel, Iterates
<1>2. /\ x \in Runs /\ ShapeOK(x) /\ Within(x) /\ x.task \in [Task -> State]
      /\ x.turns \in [Task -> 0 .. MaxIterations] /\ x.used \in Nat /\ x.limit \in Nat
      /\ run \in [Run -> Runs]
  BY TypesOf
<1>3. CASE Spent(r)
  <2>1. PICK y : y = [x EXCEPT !.cut = TRUE] OBVIOUS
  <2>2. /\ y \in Runs /\ Kin(x, y) /\ y.phase = x.phase /\ y.task = x.task
        /\ y.used = x.used /\ y.told = x.told
    BY <1>2, <2>1, CutRow
  <2>3. PICK f : f = With(run, r, y) OBVIOUS
  <2>4. run' = Raised(f, r, t, "blocked") BY <1>3, <2>1, <2>3, Zenon DEF CallModel, With
  <2>5. ShapeOK(y)
    BY <1>2, <2>2 DEF ShapeOK, Kin, Fixed, Counted, Lone, Unwound, Waits, Concluded, Unused, Open, Clear, Tears, Fresh
  <2>6. Within(y)
    <3>1. AtModel(y) \subseteq AtModel(x) BY <2>2 DEF AtModel
    <3> QED BY <1>2, <2>2, <3>1, WithinLess DEF Kin, Fixed
  <2>7. \A u \in Task : run[r].task[u] = "tool" /\ ~(r = r /\ u = t) => y.task[u] = "tool"
    BY <2>2
  <2>8. /\ Fixed(run[r], y) /\ run[r].phase # "idle"
        /\ y.phase \notin {"idle", "ended"} \/ y.phase = run[r].phase
        /\ run[r].phase = "ended" =>
             /\ y.phase = "ended" /\ y.outcome = run[r].outcome /\ y.delivered = run[r].delivered
             /\ y.billed = run[r].billed /\ (Tears(run[r]) => Tears(y))
        /\ y.used = run[r].used /\ y.told = run[r].told /\ y.listed = run[r].listed
    <3>1. Tears(x) => Tears(y) BY <2>2 DEF Tears, Kin, Fixed
    <3> QED BY <1>1, <2>2, <3>1 DEF Kin
  <2> HIDE DEF x
  <2>9. Goes(run, f, r, t) BY <2>2, <2>3, <2>5, <2>6, <2>7, <2>8, OneGoes
  <2>10. f[r] = y BY <1>2, <2>2, <2>3 DEF With
  <2>11. Goes(f, run', r, t)
    <3>1. FineRows(f) /\ f[r].task[t] \in Busy /\ GoesFor(f[r], t)
          /\ f[r].phase \notin {"idle", "building"}
      BY <1>1, <2>2, <2>9, <2>10 DEF Goes, Moves, Busy, GoesFor, Loose
    <3>2. "blocked" \in Outcome BY DEF Outcome
    <3> QED BY <2>4, <3>1, <3>2, RaisedGoes
  <2>12. Goes(run, run', r, t) BY <2>9, <2>11, GoesOn
  <2>13. run[r].task[t] # "tool" BY <1>1 DEF x
  <2> QED BY <2>12, <2>13, NotWaiting DEF Quiet
<1>4. CASE ~Spent(r)
  <2> DEFINE z == Wrote(x.task, t, "model")
             n == [x.turns EXCEPT ![t] = x.turns[t] + 1]
             y == TurnsTo(x, z, n)
  <2>1. z \in [Task -> State] BY <1>2 DEF Wrote, State
  <2>2. n \in [Task -> 0 .. MaxIterations]
    <3>1. x.turns[t] + 1 \in 0 .. MaxIterations BY <1>1, <1>2, RunAssumption
    <3> QED BY <1>2, <3>1
  <2>3. Update(r, y) BY <1>4, <1>2 DEF CallModel, Wrote, TurnsTo
  <2>4. /\ y \in Runs /\ Kin(x, y) /\ y.phase = x.phase /\ y.task = z
        /\ y.used = x.used /\ y.told = x.told
    BY <1>2, <2>1, <2>2, TurnsRow
  <2> HIDE DEF y, n
  <2>5. x.limit # 0 => x.used < x.limit
    <3>1. Recorded(r) \in Nat BY RecordedType
    <3> QED BY <1>2, <1>4, <3>1 DEF Spent
  <2>6. \E u \in Task : u \notin AtModel(y)
    <3>1. PICK u \in Task \ {t} : x.task[u] # "model" BY <1>1, <1>2, SomeoneElse
    <3>2. z[u] # "model" BY <1>2, <3>1 DEF Wrote
    <3> QED BY <2>4, <3>2 DEF AtModel
  <2>7. Within(y) BY <1>2, <2>4, <2>5, <2>6, WithinCall DEF Kin, Fixed
  <2>8. run' = With(run, r, y) BY <2>3 DEF Update, With
  <2> HIDE DEF z
  <2>9. Moves(run, run', NoRun, 0) /\ run'[r] = y /\ \A d \in Run : d # r => run'[d] = run[d]
    <3>1. "model" \in {"done", "acting", "model"} OBVIOUS
    <3>2. (t = 0 /\ "model" = "acting" => run[r].pattern \in {"loop", "swarm"}) OBVIOUS
    <3>3. y.task = Wrote(run[r].task, t, "model") BY <2>4 DEF z
    <3>4. run[r].task[t] \in {"ready", "acting", "model"} /\ y.phase = run[r].phase BY <1>1, <2>4
    <3> QED BY <1>1, <2>4, <2>7, <2>8, <3>1, <3>2, <3>3, <3>4, TaskWorks
  <2>10. SameLedger(run, run') BY <2>4, <2>9 DEF SameLedger, Kin
  <2> QED BY <2>9, <2>10 DEF Quiet, Works
<1> QED BY <1>3, <1>4

\* What a step in which only run r spends is like.
Spends(r) ==
  /\ Works /\ AtWork(r)
  /\ \A d \in Run : run'[d].told = run[d].told /\ run'[d].listed = run[d].listed

LEMMA ThenJoined ==
  ASSUME FineRows(run), NEW r \in Run, NEW f, Moves(run, f, NoRun, 0),
         \/ run' = f
         \/ f[r].phase = "running" /\ f[r].task[0] = "waiting" /\ run' = Joined(f, r)
  PROVE  Works /\ SameLedger(f, run')
<1>1. FineRows(f) BY DEF Moves
<1>2. Goes(f, run', NoRun, 0)
  <2>1. CASE run' = f BY <1>1, <2>1, NoStep
  <2>2. CASE f[r].phase = "running" /\ f[r].task[0] = "waiting" /\ run' = Joined(f, r)
    <3>1. f[r].task[0] # "tool" BY <2>2
    <3> QED BY <1>1, <2>2, <3>1, JoinedGoes
  <2> QED BY <2>1, <2>2
<1> QED BY <1>2, MovesOn DEF Goes, Works

LEMMA ModelAnswersForm ==
  ASSUME FineRows(run), NEW r \in Run, NEW t \in Task, ModelAnswers(r, t)
  PROVE  Spends(r)
<1> DEFINE x == run[r]
<1>1. /\ GoesFor(x, t) /\ x.task[t] = "model" /\ x.phase \notin {"idle", "building"} /\ AtWork(r)
      /\ t = 0 \/ x.task[0] = "waiting" => x.phase = "running"
  <2>1. {"model"} \in SUBSET Busy BY DEF Busy
  <2> QED BY <2>1, TaskAtWork DEF ModelAnswers
<1>2. /\ x \in Runs /\ ShapeOK(x) /\ Within(x) /\ x.task \in [Task -> State]
      /\ x.used \in Nat /\ x.limit \in Nat /\ run \in [Run -> Runs]
  BY TypesOf
<1>3. PICK cost \in Cost :
        LET rec == [x EXCEPT !.used = @ + cost] IN
        \/ Done(r, t, rec)
        \/ ~Plans(r, t) /\ Update(r, [rec EXCEPT !.task[t] = "acting"])
        \/ Plans(r, t) /\ Vacant(r) /\ \E next \in Split(rec) : Update(r, next)
  BY DEF ModelAnswers
<1> DEFINE u == x.used + cost
           rec == [x EXCEPT !.used = u]
<1>4. u \in Nat BY <1>2, MostType
<1>5. t \in AtModel(x) BY <1>1 DEF AtModel
<1>6. ASSUME NEW s \in {"done", "acting"}, t = 0 /\ s = "acting" => x.pattern \in {"loop", "swarm"},
             NEW f, f = With(run, r, UsedTo(x, u, Wrote(x.task, t, s)))
      PROVE  /\ Moves(run, f, NoRun, 0) /\ f[r].phase = x.phase
             /\ f[r].task = Wrote(x.task, t, s)
             /\ \A d \in Run : f[d].told = run[d].told /\ f[d].listed = run[d].listed
  <2> DEFINE z == Wrote(x.task, t, s)
  <2>1. z \in [Task -> State] BY <1>2 DEF Wrote, State
  <2>2. PICK y : y = UsedTo(x, u, z) OBVIOUS
  <2>3. f = With(run, r, y) BY <1>6, <2>2
  <2> HIDE DEF z, u
  <2>4. /\ y \in Runs /\ Kin(x, y) /\ y.phase = x.phase /\ y.task = z
        /\ y.used = u /\ y.told = x.told
    BY <1>2, <1>4, <2>1, <2>2, UsedRow
  <2>5. AtModel(y) \subseteq AtModel(x) \ {t} BY <1>2, <2>4 DEF AtModel, z, Wrote
  <2>6. Within(y) BY <1>2, <1>5, <2>4, <2>5, WithinAnswer DEF Kin, Fixed, u
  <2>7. Moves(run, f, NoRun, 0) /\ f[r] = y /\ \A d \in Run : d # r => f[d] = run[d]
    <3>1. s \in {"done", "acting", "model"} /\ run[r].task[t] \in {"ready", "acting", "model"}
          /\ y.phase = run[r].phase /\ y.task = Wrote(run[r].task, t, s)
      BY <1>1, <2>4 DEF z
    <3> QED BY <1>1, <1>6, <2>3, <2>4, <2>6, <3>1, TaskWorks
  <2> QED BY <1>1, <2>4, <2>7 DEF Kin, z
<1>7. CASE Done(r, t, rec)
  <2>1. "done" \in {"done", "acting"} OBVIOUS
  <2>2. PICK f : f = With(run, r, UsedTo(x, u, Wrote(x.task, t, "done"))) OBVIOUS
  <2>3. f = [run EXCEPT ![r] = [rec EXCEPT !.task[t] = "done"]] BY <1>2, <2>2 DEF With, Wrote, UsedTo
  <2>4. run' = IF t = 0 THEN f ELSE IF x.task[0] = "waiting" THEN Joined(f, r) ELSE f
    BY <1>7, <2>3 DEF Done
  <2> HIDE DEF x, u, rec
  <2>5. /\ Moves(run, f, NoRun, 0) /\ f[r].phase = x.phase
        /\ f[r].task = Wrote(x.task, t, "done")
        /\ \A d \in Run : f[d].told = run[d].told /\ f[d].listed = run[d].listed
    <3>1. (t = 0 /\ "done" = "acting" => x.pattern \in {"loop", "swarm"}) OBVIOUS
    <3> QED BY <1>6, <2>1, <2>2, <3>1
  <2>6. t # 0 => f[r].task[0] = x.task[0] BY <1>2, <2>5, RunFinite DEF Wrote
  <2>7. Works /\ SameLedger(f, run')
    <3>1. \/ run' = f
          \/ f[r].phase = "running" /\ f[r].task[0] = "waiting" /\ run' = Joined(f, r)
      BY <1>1, <2>4, <2>5, <2>6
    <3> QED BY <2>5, <3>1, ThenJoined
  <2> QED BY <1>1, <2>5, <2>7 DEF Spends, SameLedger, x
<1>8. CASE ~Plans(r, t) /\ Update(r, [rec EXCEPT !.task[t] = "acting"])
  <2>1. "acting" \in {"done", "acting"} OBVIOUS
  <2>2. t = 0 => x.pattern \in {"loop", "swarm"}
    <3>1. x.pattern # "none" BY <1>1, <1>2 DEF ShapeOK, Unused
    <3> QED BY <1>2, <1>8, <3>1 DEF Plans, Glyph, Runs, Pattern
  <2>3. run' = With(run, r, UsedTo(x, u, Wrote(x.task, t, "acting")))
    BY <1>2, <1>8 DEF With, Wrote, Update, UsedTo
  <2>4. /\ Moves(run, run', NoRun, 0)
        /\ \A d \in Run : run'[d].told = run[d].told /\ run'[d].listed = run[d].listed
    BY <1>6, <2>1, <2>2, <2>3
  <2> QED BY <1>1, <2>4 DEF Spends, Works
<1>9. CASE Plans(r, t) /\ Vacant(r) /\ \E next \in Split(rec) : Update(r, next)
  <2>1. \E z \in [Task -> State] :
          Update(r, UsedTo(x, u, z)) /\ z[0] = "waiting" /\ \A k \in Task : z[k] # "model"
    <3>1. PICK y \in Split(rec) : Update(r, y) BY <1>9
    <3>2. PICK z \in [Task -> State] :
            y = [rec EXCEPT !.task = z] /\ z[0] = "waiting" /\ \A k \in Task : z[k] # "model"
      BY SplitRow
    <3>3. y = UsedTo(x, u, z) BY <1>2, <3>2 DEF UsedTo
    <3> QED BY <3>1, <3>2, <3>3
  <2> HIDE DEF u, rec
  <2>2. PICK z \in [Task -> State] :
          Update(r, UsedTo(x, u, z)) /\ z[0] = "waiting" /\ \A k \in Task : z[k] # "model"
    BY <2>1
  <2>3. PICK y : y = UsedTo(x, u, z) OBVIOUS
  <2>4. run' = With(run, r, y) BY <2>2, <2>3 DEF Update, With
  <2>5. /\ y \in Runs /\ Kin(x, y) /\ y.phase = x.phase /\ y.task = z
        /\ y.used = u /\ y.told = x.told
    BY <1>2, <1>4, <2>3, UsedRow
  <2>6. AtModel(y) \subseteq AtModel(x) \ {t} BY <2>2, <2>5 DEF AtModel
  <2>7. Within(y) BY <1>2, <1>5, <2>5, <2>6, WithinAnswer DEF Kin, Fixed, u
  <2>8. \A k \in Task : x.task[k] # "tool"
    BY <1>1, <1>9 DEF Vacant, Plans
  <2>9. x.phase = "running" /\ y.phase = "running" /\ y.task[0] = "waiting"
        /\ x.pattern \in Glyph \cup {"fanout"}
    BY <1>1, <1>9, <2>2, <2>5 DEF Plans
  <2>10. Moves(run, run', NoRun, 0) /\ run'[r] = y /\ \A d \in Run : d # r => run'[d] = run[d]
    BY <1>1, <2>4, <2>5, <2>7, <2>8, <2>9, SplitWorks
  <2> QED BY <1>1, <2>5, <2>10 DEF Spends, Works, Kin
<1> QED BY <1>3, <1>7, <1>8, <1>9

LEMMA FinishForm ==
  ASSUME FineRows(run), NEW r \in Run, NEW t \in Task, Finish(r, t)
  PROVE  Quiet
<1> DEFINE x == run[r]
           z == Wrote(x.task, t, "done")
<1>1. /\ GoesFor(x, t) /\ x.task[t] \in {"ready", "acting"} /\ x.phase \notin {"idle", "building"}
      /\ t = 0 \/ x.task[0] = "waiting" => x.phase = "running"
  <2>1. {"ready", "acting"} \in SUBSET Busy BY DEF Busy
  <2> QED BY <2>1, TaskAtWork DEF Finish
<1>2. /\ x \in Runs /\ ShapeOK(x) /\ Within(x) /\ x.task \in [Task -> State]
      /\ run \in [Run -> Runs]
  BY TypesOf
<1>3. z \in [Task -> State] BY <1>2 DEF Wrote, State
<1>4. PICK y : y = [x EXCEPT !.task = z] OBVIOUS
<1>5. PICK f : f = With(run, r, y) OBVIOUS
<1>6. f = [run EXCEPT ![r] = [x EXCEPT !.task[t] = "done"]] BY <1>2, <1>4, <1>5 DEF With, Wrote
<1>7. run' = IF t = 0 THEN f ELSE IF x.task[0] = "waiting" THEN Joined(f, r) ELSE f
  BY <1>6 DEF Finish, Done
<1> HIDE DEF z
<1>8. /\ y \in Runs /\ Kin(x, y) /\ y.phase = x.phase /\ y.task = z
      /\ y.used = x.used /\ y.told = x.told
  BY <1>2, <1>3, <1>4, TasksRow
<1>9. AtModel(y) \subseteq AtModel(x) BY <1>2, <1>8 DEF AtModel, z, Wrote
<1>10. Within(y) BY <1>2, <1>8, <1>9, WithinLess DEF Kin, Fixed
<1>11. Moves(run, f, NoRun, 0) /\ f[r] = y /\ \A d \in Run : d # r => f[d] = run[d]
  <2>1. "done" \in {"done", "acting", "model"} /\ run[r].task[t] \in {"ready", "acting", "model"}
        /\ y.phase = run[r].phase /\ y.task = Wrote(run[r].task, t, "done")
    BY <1>1, <1>8 DEF z
  <2>2. (t = 0 /\ "done" = "acting" => run[r].pattern \in {"loop", "swarm"}) OBVIOUS
  <2> QED BY <1>1, <1>5, <1>8, <1>10, <2>1, <2>2, TaskWorks
<1>12. t # 0 => f[r].task[0] = x.task[0] BY <1>2, <1>8, <1>11, RunFinite DEF Wrote, z
<1>13. Works /\ SameLedger(f, run')
  <2>1. \/ run' = f
        \/ f[r].phase = "running" /\ f[r].task[0] = "waiting" /\ run' = Joined(f, r)
    BY <1>1, <1>7, <1>8, <1>11, <1>12
  <2> QED BY <1>11, <2>1, ThenJoined
<1>14. SameLedger(run, f) BY <1>8, <1>11 DEF SameLedger, Kin
<1> QED BY <1>13, <1>14 DEF Quiet, SameLedger

CalledTo(x, r, t, lin, list, hand, hops) ==
  [x EXCEPT !.phase = "building", !.parent = r, !.at = t, !.linaje = lin, !.list = list,
     !.handoffs = hand, !.hops = hops]

LEMMA CalledRow ==
  ASSUME NEW x \in Runs, NEW r \in Run, NEW t \in Task, NEW lin \in SUBSET Run,
         NEW list \in Run \cup {NoRun}, NEW hand \in Nat, NEW hops \in Nat,
         NEW y, y = CalledTo(x, r, t, lin, list, hand, hops)
  PROVE  /\ y \in Runs /\ y.phase = "building" /\ y.parent = r /\ y.at = t /\ y.linaje = lin
         /\ y.list = list /\ y.handoffs = hand /\ y.hops = hops
         /\ y.pattern = x.pattern /\ y.limit = x.limit /\ y.task = x.task
         /\ y.used = x.used /\ y.told = x.told /\ y.listed = x.listed /\ y.billed = x.billed
         /\ y.outcome = x.outcome /\ y.delivered = x.delivered /\ y.reported = x.reported
      /\ y.left = x.left
<1>1. "building" \in Phase BY DEF Phase
<1>2. [x EXCEPT !.phase = "building", !.parent = r, !.at = t, !.linaje = lin, !.list = list,
         !.handoffs = hand, !.hops = hops] \in Runs
  BY <1>1, Zenon DEF Runs
<1>3. y \in Runs BY <1>2 DEF CalledTo
<1>4. /\ y.phase = "building" /\ y.parent = r /\ y.at = t /\ y.linaje = lin
      /\ y.list = list /\ y.handoffs = hand /\ y.hops = hops
      /\ y.pattern = x.pattern /\ y.limit = x.limit /\ y.task = x.task
      /\ y.used = x.used /\ y.told = x.told /\ y.listed = x.listed /\ y.billed = x.billed
      /\ y.outcome = x.outcome /\ y.delivered = x.delivered /\ y.reported = x.reported
      /\ y.left = x.left
  BY DEF CalledTo, Runs
<1> QED BY <1>3, <1>4

\* What a step in which task t of run r calls run c is like.
Calls(r, t, c) ==
  /\ c # r /\ c # 1 /\ run[c].phase = "idle" /\ AtWork(r)
  /\ run[r].task[t] = "acting" /\ t \in Task
  /\ FineRows(run')
  /\ \A d \in Run : /\ d \notin {r, c} => run'[d] = run[d]
                    /\ run'[d].used = run[d].used /\ run'[d].told = run[d].told
                    /\ run'[d].listed = run[d].listed
  /\ Same(run[r], run'[r]) /\ run'[r].billed = run[r].billed
  /\ run'[r].task[t] = "tool" /\ \A u \in Task \ {t} : run'[r].task[u] = run[r].task[u]
  /\ run'[c].phase = "building" /\ run'[c].parent = r /\ run'[c].at = t
  /\ run'[c].list = run[r].list /\ run'[c].linaje = run[r].linaje \cup {r}

LEMMA CallAgentForm ==
  ASSUME FineRows(run), NEW r \in Run, NEW t \in Task, CallAgent(r, t)
  PROVE  \E c \in Run : Calls(r, t, c)
<1>1. PICK c \in Run \ {1} :
        /\ run[c].phase = "idle" /\ run[c].pattern # "none"
        /\ run' = [run EXCEPT
            ![r].task[t] = "tool",
            ![c] = [@ EXCEPT !.phase = "building", !.parent = r, !.at = t, !.linaje = Lineage(r),
                      !.list = ListFor(r, c), !.handoffs = Count(r),
                      !.hops = run[r].hops + (IF run[r].pattern = "swarm" THEN 1 ELSE 0)]]
  BY DEF CallAgent
<1>2. /\ GoesFor(run[r], t) /\ run[r].task[t] = "acting" /\ AtWork(r)
      /\ run[r].phase \notin {"idle", "building"}
      /\ run[r].pattern = "swarm" => run[r].handoffs < MaxHandoffs
  <2>1. {"acting"} \in SUBSET Busy BY DEF Busy
  <2> QED BY <2>1, TaskAtWork DEF CallAgent
<1>3. c # r BY <1>1, <1>2
<1> DEFINE x == run[r]
           hops == x.hops + (IF x.pattern = "swarm" THEN 1 ELSE 0)
<1>4. /\ run \in [Run -> Runs] /\ x \in Runs /\ ShapeOK(x) /\ Within(x) /\ x.task \in [Task -> State]
      /\ run[c] \in Runs /\ ShapeOK(run[c]) /\ Within(run[c])
  BY TypesOf
<1>5. /\ Lineage(r) \in SUBSET Run /\ ListFor(r, c) \in Run \cup {NoRun}
      /\ Lineage(r) = x.linaje \cup {r} /\ ListFor(r, c) = x.list
      /\ Count(r) \in Nat /\ hops \in Nat /\ hops = Count(r) /\ Count(r) <= MaxHandoffs
  <2>1. x.linaje \in SUBSET Run /\ x.list \in Run \cup {NoRun} /\ x.handoffs \in Nat /\ x.hops \in Nat
    BY <1>4 DEF Runs
  <2>2. x.hops = x.handoffs /\ x.handoffs <= MaxHandoffs BY <1>4 DEF ShapeOK, Counted
  <2> QED BY <2>1, <2>2, <1>2, RunAssumption DEF Lineage, ListFor, Count
<1>6. PICK y : y = Put(x, t, "tool") OBVIOUS
<1>7. PICK z : z = CalledTo(run[c], r, t, Lineage(r), ListFor(r, c), Count(r), hops) OBVIOUS
<1>8. run' = With(With(run, r, y), c, z)
  BY <1>1, <1>3, <1>4, <1>6, <1>7 DEF With, Put, CalledTo
<1> HIDE DEF hops, x
<1>9. /\ y \in Runs /\ y.task = [x.task EXCEPT ![t] = "tool"] /\ Same(x, y)
      /\ y.used = x.used /\ y.told = x.told /\ y.listed = x.listed /\ y.billed = x.billed
  <2>1. "tool" \in State BY DEF State
  <2> QED BY <1>4, <1>6, <2>1, TaskRow
<1>10. /\ z \in Runs /\ z.phase = "building" /\ z.parent = r /\ z.at = t /\ z.linaje = Lineage(r)
       /\ z.list = ListFor(r, c) /\ z.handoffs = Count(r) /\ z.hops = hops
       /\ z.pattern = run[c].pattern /\ z.limit = run[c].limit /\ z.task = run[c].task
       /\ z.used = run[c].used /\ z.told = run[c].told /\ z.listed = run[c].listed
       /\ z.outcome = run[c].outcome /\ z.delivered = run[c].delivered
  BY <1>4, <1>5, <1>7, CalledRow
<1>11. ShapeOK(y)
  <2>1. "tool" \in {"failed", "done", "acting", "model", "tool"} /\ x.task[t] \in Busy
    BY <1>2 DEF Busy, x
  <2>2. t = 0 => x.pattern \in {"loop", "swarm"}
    BY <1>2, <1>4 DEF ShapeOK, Lone, x
  <2>3. /\ x.phase \notin {"idle", "building"} /\ (GoesFor(x, t) \/ "tool" = "failed")
        /\ GoesFor(x, t) \/ y.used = x.used
        /\ t = 0 /\ "tool" \in {"acting", "tool"} => x.pattern \in {"loop", "swarm"}
    BY <1>2, <2>2 DEF x
  <2> QED BY <1>4, <1>9, <2>1, <2>3, ShapeSet
<1>12. Within(y)
  <2>1. AtModel(y) \subseteq AtModel(x) BY <1>4, <1>9 DEF AtModel
  <2> QED BY <1>4, <1>9, <2>1, WithinLess DEF Same, Fixed
<1>13. ShapeOK(z)
  <2>1. Fresh(run[c]) /\ Lone(run[c]) /\ Open(run[c])
    BY <1>1, <1>4 DEF ShapeOK, Unused
  <2>2. Fresh(z) BY <1>10, <2>1 DEF Fresh
  <2>3. Lone(z) BY <1>10, <2>1 DEF Lone
  <2>4. Open(z) BY <1>1, <1>10, <2>1 DEF Open
  <2>5. Counted(z) BY <1>5, <1>10 DEF Counted
  <2>6. Unwound(z) /\ Concluded(z) /\ Unused(z) BY <1>1, <1>10, <2>2 DEF Unwound, Concluded, Unused
  <2>7. Waits(z) BY <2>2 DEF Waits, Clear, Fresh, Still
  <2> QED BY <2>3, <2>4, <2>5, <2>6, <2>7 DEF ShapeOK
<1>14. Within(z)
  <2>1. AtModel(z) \subseteq AtModel(run[c]) BY <1>10 DEF AtModel
  <2> QED BY <1>4, <1>10, <2>1, WithinLess
<1>15. /\ run'[r] = y /\ run'[c] = z /\ \A d \in Run : d \notin {r, c} => run'[d] = run[d]
       /\ run' \in [Run -> Runs]
  BY <1>3, <1>4, <1>8, <1>9, <1>10 DEF With
<1>16. FineRows(run')
  <2>1. \A d \in Run : ShapeOK(run'[d]) /\ Within(run'[d])
    <3> TAKE d \in Run
    <3>1. CASE d = r BY <1>11, <1>12, <1>15, <3>1
    <3>2. CASE d = c BY <1>13, <1>14, <1>15, <3>2
    <3>3. CASE d \notin {r, c} BY <1>15, <3>3, TypesOf
    <3> QED BY <3>1, <3>2, <3>3
  <2> QED BY <1>15, <2>1 DEF FineRows
<1>17. /\ run'[r].task[t] = "tool" /\ \A u \in Task \ {t} : run'[r].task[u] = run[r].task[u]
  BY <1>4, <1>9, <1>15 DEF x
<1>18. /\ Same(run[r], run'[r]) /\ run'[r].billed = run[r].billed
       /\ run'[r].used = run[r].used /\ run'[r].told = run[r].told /\ run'[r].listed = run[r].listed
  BY <1>9, <1>15 DEF x
<1>19. \A d \in Run : /\ d \notin {r, c} => run'[d] = run[d]
                      /\ run'[d].used = run[d].used /\ run'[d].told = run[d].told
                      /\ run'[d].listed = run[d].listed
  BY <1>10, <1>15, <1>18
<1>20. Calls(r, t, c)
  BY <1>1, <1>2, <1>3, <1>5, <1>10, <1>15, <1>16, <1>17, <1>18, <1>19 DEF Calls, x
<1> QED BY <1>20

AddTold(x)   == [x EXCEPT !.told = @ + 1]
AddListed(x) == [x EXCEPT !.listed = @ + 1]

LEMMA ToldRow ==
  ASSUME NEW x \in Runs, x.phase # "idle", ShapeOK(x), Within(x), NEW y, y = AddTold(x)
  PROVE  /\ y \in Runs /\ ShapeOK(y) /\ Within(y) /\ Kin(x, y) /\ y.phase = x.phase /\ y.task = x.task
         /\ y.used = x.used /\ y.told = x.told + 1
<1>1. x.told \in Nat BY DEF Runs
<1> DEFINE k == x.told + 1
<1>2. k \in Nat BY <1>1
<1>3. y = [x EXCEPT !.told = k] BY DEF AddTold
<1> HIDE DEF k
<1>4. [x EXCEPT !.told = k] \in Runs BY <1>2, Zenon DEF Runs
<1>5. /\ y.phase = x.phase /\ y.task = x.task
      /\ y.pattern = x.pattern /\ y.limit = x.limit /\ y.parent = x.parent /\ y.at = x.at
      /\ y.linaje = x.linaje /\ y.list = x.list /\ y.handoffs = x.handoffs /\ y.hops = x.hops
      /\ y.used = x.used /\ y.told = k /\ y.listed = x.listed /\ y.billed = x.billed
      /\ y.outcome = x.outcome /\ y.delivered = x.delivered /\ y.reported = x.reported
      /\ y.left = x.left
  BY <1>3 DEF Runs
<1>6. y \in Runs BY <1>3, <1>4
<1>7. ShapeOK(y)
  BY <1>5 DEF ShapeOK, Counted, Lone, Unwound, Waits, Concluded, Unused, Open, Clear, Tears, Fresh
<1>8. AtModel(y) \subseteq AtModel(x) BY <1>5 DEF AtModel
<1>9. Within(y) BY <1>5, <1>6, <1>8, WithinLess
<1> QED BY <1>5, <1>6, <1>7, <1>9 DEF Kin, Fixed, k

LEMMA ListedRow ==
  ASSUME NEW x \in Runs, x.listed < MaxProposals, ShapeOK(x), Within(x), NEW y, y = AddListed(x)
  PROVE  /\ y \in Runs /\ ShapeOK(y) /\ Within(y) /\ Fixed(x, y) /\ y.phase = x.phase /\ y.task = x.task
         /\ y.used = x.used /\ y.told = x.told /\ y.listed = x.listed + 1
         /\ y.outcome = x.outcome /\ y.delivered = x.delivered /\ y.billed = x.billed
         /\ y.left = x.left
<1>1. x.listed \in 0 .. MaxProposals BY DEF Runs
<1> DEFINE k == x.listed + 1
<1>2. k \in 0 .. MaxProposals BY <1>1, RunAssumption
<1>3. y = [x EXCEPT !.listed = k] BY DEF AddListed
<1> HIDE DEF k
<1>4. [x EXCEPT !.listed = k] \in Runs BY <1>2, Zenon DEF Runs
<1>5. /\ y.phase = x.phase /\ y.task = x.task
      /\ y.pattern = x.pattern /\ y.limit = x.limit /\ y.parent = x.parent /\ y.at = x.at
      /\ y.linaje = x.linaje /\ y.list = x.list /\ y.handoffs = x.handoffs /\ y.hops = x.hops
      /\ y.used = x.used /\ y.told = x.told /\ y.listed = k /\ y.billed = x.billed
      /\ y.outcome = x.outcome /\ y.delivered = x.delivered /\ y.reported = x.reported
      /\ y.left = x.left
  BY <1>3 DEF Runs
<1>6. y \in Runs BY <1>3, <1>4
<1>7. ShapeOK(y)
  BY <1>5 DEF ShapeOK, Counted, Lone, Unwound, Waits, Concluded, Unused, Open, Clear, Tears, Fresh
<1>8. AtModel(y) \subseteq AtModel(x) BY <1>5 DEF AtModel
<1>9. Within(y) BY <1>5, <1>6, <1>8, WithinLess
<1> QED BY <1>5, <1>6, <1>7, <1>9 DEF Fixed, k

\* What a step in which a model is told of a proposal is like.
Notes(r) ==
  /\ Works /\ AtWork(r)
  /\ \A d \in Run : /\ run'[d].used = run[d].used
                    /\ run'[d].told = run[d].told + (IF d = r THEN 1 ELSE 0)
                    /\ run'[d].listed = run[d].listed + (IF d = 1 THEN 1 ELSE 0)

LEMMA StartsAtOne ==
  ASSUME Called, Chained, NEW r \in Run, run[r].phase # "idle"
  PROVE  run[1].phase # "idle" /\ (r # 1 => 1 \in run[r].linaje)
BY DEF Called, Chained

LEMMA ProposeForm ==
  ASSUME FineRows(run), Called, Chained, Listed, NEW r \in Run, NEW t \in Task, Propose(r, t)
  PROVE  Notes(r)
<1>1. /\ run[r].list = 1 /\ run[1].listed < MaxProposals /\ AtWork(r)
      /\ run[r].phase \notin {"idle", "building"}
  <2>1. {"acting"} \in SUBSET Busy BY DEF Busy
  <2> QED BY <2>1, TaskAtWork DEF Propose, Listed
<1>2. /\ run \in [Run -> Runs] /\ run[1] \in Runs /\ ShapeOK(run[1]) /\ Within(run[1])
      /\ run[r] \in Runs
  BY TypesOf, RunFinite
<1>3. run[1].phase # "idle" BY <1>1, StartsAtOne
<1>4. PICK y : y = AddListed(run[1]) OBVIOUS
<1>5. PICK f : f = With(run, 1, y) OBVIOUS
<1>6. /\ y \in Runs /\ ShapeOK(y) /\ Within(y) /\ Fixed(run[1], y) /\ y.phase = run[1].phase
      /\ y.task = run[1].task
      /\ y.used = run[1].used /\ y.told = run[1].told /\ y.listed = run[1].listed + 1
      /\ y.outcome = run[1].outcome /\ y.delivered = run[1].delivered /\ y.billed = run[1].billed
      /\ y.left = run[1].left
  BY <1>1, <1>2, <1>4, ListedRow
<1>7. Moves(run, f, NoRun, 0) /\ f[1] = y /\ \A d \in Run : d # 1 => f[d] = run[d]
  <2>1. \A u \in Task : run[1].task[u] = "tool" /\ ~(1 = NoRun /\ u = 0) => y.task[u] = "tool"
    BY <1>6
  <2>2. run[1].phase = "ended" =>
          /\ y.phase = "ended" /\ y.outcome = run[1].outcome /\ y.delivered = run[1].delivered
          /\ y.billed = run[1].billed /\ (Tears(run[1]) => Tears(y))
    BY <1>6 DEF Tears, Fixed
  <2> QED BY <1>3, <1>5, <1>6, <2>1, <2>2, RunFinite, OneMoves
<1>8. PICK z : z = AddTold(f[r]) OBVIOUS
<1>9. FineRows(f) /\ f \in [Run -> Runs] /\ f[r] \in Runs /\ ShapeOK(f[r]) /\ Within(f[r])
  BY <1>7 DEF Moves, FineRows
<1>10. f[r].phase # "idle" BY <1>1, <1>6, <1>7
<1>11. /\ z \in Runs /\ ShapeOK(z) /\ Within(z) /\ Kin(f[r], z) /\ z.phase = f[r].phase
       /\ z.task = f[r].task /\ z.used = f[r].used /\ z.told = f[r].told + 1
  BY <1>8, <1>9, <1>10, ToldRow
<1>12. run' = With(f, r, z)
  <2>1. run' = [run EXCEPT ![1].listed = @ + 1, ![r].told = @ + 1] BY <1>1 DEF Propose
  <2> QED BY <2>1, <1>2, <1>4, <1>5, <1>8 DEF With, AddListed, AddTold
<1>13. Moves(f, run', NoRun, 0) /\ run'[r] = z /\ \A d \in Run : d # r => run'[d] = f[d]
  <2>1. \A u \in Task : f[r].task[u] = "tool" /\ ~(r = NoRun /\ u = 0) => z.task[u] = "tool"
    BY <1>11
  <2>2. Tears(f[r]) => Tears(z) BY <1>11 DEF Tears, Kin, Fixed
  <2>3. /\ Fixed(f[r], z) /\ f[r].phase # "idle"
        /\ z.phase \notin {"idle", "ended"} \/ z.phase = f[r].phase
        /\ f[r].phase = "ended" =>
             /\ z.phase = "ended" /\ z.outcome = f[r].outcome /\ z.delivered = f[r].delivered
             /\ z.billed = f[r].billed /\ (Tears(f[r]) => Tears(z))
    BY <1>10, <1>11, <2>2 DEF Kin
  <2> QED BY <1>9, <1>11, <1>12, <2>1, <2>3, OneMoves
<1>14. Works BY <1>7, <1>13, MovesOn DEF Works
<1>15. \A d \in Run : /\ run'[d].used = run[d].used
                      /\ run'[d].told = run[d].told + (IF d = r THEN 1 ELSE 0)
                      /\ run'[d].listed = run[d].listed + (IF d = 1 THEN 1 ELSE 0)
  <2> TAKE d \in Run
  <2>1. run[d] \in Runs BY TypesOf
  <2>2. run[d].told \in Nat /\ run[d].listed \in Nat BY <2>1, RunAssumption DEF Runs
  <2>3. /\ f[d].used = run[d].used /\ f[d].told = run[d].told
        /\ f[d].listed = run[d].listed + (IF d = 1 THEN 1 ELSE 0)
    BY <1>6, <1>7, <2>2
  <2>4. /\ run'[d].used = f[d].used /\ run'[d].listed = f[d].listed
        /\ run'[d].told = f[d].told + (IF d = r THEN 1 ELSE 0)
    BY <1>11, <1>13, <2>2, <2>3 DEF Kin
  <2> QED BY <2>3, <2>4
<1> QED BY <1>1, <1>14, <1>15 DEF Notes

LEMMA StepForms ==
  ASSUME FineRows(run), TreeInv, Listed, NEW r \in Run, Step(r)
  PROVE  \/ Quiet
         \/ \E c \in Run : EndsOne(c)
         \/ Spends(r)
         \/ Notes(r)
         \/ \E t \in Task, c \in Run : Calls(r, t, c)
<1> USE DEF TreeInv
<1>1. CASE Build(r) BY <1>1, BuildForm
<1>2. CASE RunProgram(r) BY <1>2, RunProgramForm
<1>3. CASE Concludes(r) BY <1>3, ConcludesForm
<1>4. CASE Expire(r) BY <1>4, ExpireForm
<1>5. CASE Unwinds(r) BY <1>5, UnwindsForm
<1>6. CASE Persist(r) BY <1>6, PersistForm
<1>7. ASSUME NEW t \in Task, CallModel(r, t) PROVE Quiet BY <1>7, CallModelForm
<1>8. ASSUME NEW t \in Task, ModelAnswers(r, t) PROVE Spends(r) BY <1>8, ModelAnswersForm
<1>9. ASSUME NEW t \in Task, Fails(r, t) PROVE Quiet BY <1>9, FailsForm
<1>10. ASSUME NEW t \in Task, Finish(r, t) PROVE Quiet BY <1>10, FinishForm
<1>11. ASSUME NEW t \in Task, CallAgent(r, t) PROVE \E c \in Run : Calls(r, t, c)
  BY <1>11, CallAgentForm
<1>12. ASSUME NEW t \in Task, Propose(r, t) PROVE Notes(r) BY <1>12, ProposeForm
<1> QED
  BY <1>1, <1>2, <1>3, <1>4, <1>5, <1>6, <1>7, <1>8, <1>9, <1>10, <1>11, <1>12 DEF Step

-----------------------------------------------------------------------------
(* The tree.                                                               *)

\* Tore is for good.
LEMMA ToreStays ==
  ASSUME Evolves(run, run'), NEW m \in Run, Tore(run[m])
  PROVE  Tore(run'[m])
BY DEF Evolves, Tore

\* A run that ended with somebody at work in one of its tasks is a map that tore.
LEMMA EndedAtWork ==
  ASSUME NEW x, ShapeOK(x), x.phase = "ended", NEW t \in Task, x.task[t] = "tool"
  PROVE  Tore(x)
<1>1. x.task[0] \notin {"tool", "waiting"} BY DEF ShapeOK, Concluded
<1>2. ~Clear(x) BY <1>1 DEF Clear, Still
<1> QED BY <1>1, <1>2 DEF ShapeOK, Waits, Tore

\* The last run that a step ended.
LastEnded(q) == \A d \in Run : d # q /\ run'[d].phase = "ended" => run[d].phase = "ended"

LEMMA TreeGrown ==
  ASSUME FineRows(run), TreeInv, FineRows(run'), Evolves(run, run'),
         \A q \in Run : run'[q].phase = "ended" => run[q].phase = "ended" \/ LastEnded(q),
         \A d \in Run : Active(run', d) /\ run[d].parent # NoRun =>
           run'[run[d].parent].task[run[d].at] = "tool"
  PROVE  TreeInv'
<1>1. \A d \in Run :
        /\ run'[d].parent = run[d].parent /\ run'[d].at = run[d].at /\ run'[d].linaje = run[d].linaje
        /\ run'[d].phase = "idle" <=> run[d].phase = "idle"
        /\ Active(run', d) => Active(run, d)
  BY DEF Evolves, Fixed, Active
<1>2. /\ \A d \in Run : run[d].linaje \in SUBSET Run /\ run[d].parent \in Run \cup {NoRun}
                        /\ run[d].at \in Task
      /\ 1 \in Run
  BY RunFinite DEF FineRows, Runs
<1>3. Called' BY <1>1, <1>2 DEF TreeInv, Called
<1>4. Chained' BY <1>1, <1>2 DEF TreeInv, Chained
<1>5. Awaited'
  <2> SUFFICES ASSUME NEW d \in Run, Active(run', d), run'[d].parent # NoRun
               PROVE  /\ run'[run'[d].parent].task[run'[d].at] = "tool"
                      /\ \A e \in Run :
                           Active(run', e) /\ run'[e].parent = run'[d].parent
                             /\ run'[e].at = run'[d].at => e = d
    BY DEF Awaited
  <2>1. run'[run'[d].parent].task[run'[d].at] = "tool" BY <1>1
  <2>2. ASSUME NEW e \in Run, Active(run', e), run'[e].parent = run'[d].parent,
               run'[e].at = run'[d].at
        PROVE  e = d
    <3>1. /\ Active(run, e) /\ Active(run, d) /\ run[d].parent # NoRun
          /\ run[e].parent = run[d].parent /\ run[e].at = run[d].at
      BY <1>1, <2>2
    <3> QED BY <3>1 DEF TreeInv, Awaited
  <2> QED BY <2>1, <2>2
<1>6. ASSUME NEW c \in Run, NEW q \in run'[c].linaje, Active(run', c), run'[q].phase = "ended"
      PROVE  \E m \in run'[c].linaje : Tore(run'[m]) /\ (m = q \/ q \in run'[m].linaje)
  <2>1. q \in Run /\ q \in run[c].linaje /\ Active(run, c) BY <1>1, <1>2, <1>6
  <2>2. ASSUME NEW d \in run[c].linaje, run[d].phase = "ended", d = q \/ q \in run[d].linaje
        PROVE  \E m \in run'[c].linaje : Tore(run'[m]) /\ (m = q \/ q \in run'[m].linaje)
    <3>1. PICK m \in run[c].linaje : Tore(run[m]) /\ (m = d \/ d \in run[m].linaje)
      BY <2>1, <2>2 DEF TreeInv, LeftByMap
    <3>2. m \in Run /\ Tore(run'[m]) BY <1>2, <3>1, ToreStays
    <3>3. m = q \/ q \in run[m].linaje
      BY <2>2, <3>1, <3>2 DEF TreeInv, Chained
    <3> QED BY <1>1, <3>1, <3>2, <3>3
  <2>3. CASE run[q].phase = "ended" BY <2>1, <2>2, <2>3
  <2>4. CASE run[q].phase # "ended"
    <3>1. LastEnded(q) BY <1>6, <2>1, <2>4
    <3>2. ASSUME NEW d \in Run, Active(run', d), run[d].parent = q
          PROVE  \E m \in run'[c].linaje : Tore(run'[m]) /\ (m = q \/ q \in run'[m].linaje)
      <4>1. q # NoRun BY <2>1, RunFinite
      <4>2. run'[q].task[run[d].at] = "tool" /\ run[d].at \in Task BY <1>2, <3>2, <4>1
      <4>3. ShapeOK(run'[q]) BY <2>1 DEF FineRows
      <4>4. Tore(run'[q]) BY <1>6, <4>2, <4>3, EndedAtWork
      <4> QED BY <1>6, <4>4
    <3>3. CASE q = run[c].parent BY <1>6, <3>2, <3>3
    <3>4. CASE q # run[c].parent
      <4>1. PICK d \in run[c].linaje : run[d].parent = q
        BY <2>1, <3>4 DEF TreeInv, Chained
      <4>2. d \in Run /\ run[d].phase # "idle" /\ run[d].parent # NoRun
        BY <1>2, <2>1, <4>1, RunFinite DEF TreeInv, Chained
      <4>3. d # q /\ q \in run[d].linaje BY <4>1, <4>2 DEF TreeInv, Called
      <4>4. CASE run[d].phase = "ended" BY <2>2, <4>3, <4>4
      <4>5. CASE run[d].phase # "ended"
        <5>1. run'[d].phase # "ended" BY <3>1, <4>2, <4>3, <4>5 DEF LastEnded
        <5>2. Active(run', d) BY <1>1, <4>2, <5>1 DEF Active
        <5> QED BY <3>2, <4>1, <4>2, <5>2
      <4> QED BY <4>4, <4>5
    <3> QED BY <3>3, <3>4
  <2> QED BY <2>3, <2>4
<1>7. LeftByMap' BY <1>6 DEF LeftByMap
<1> QED BY <1>3, <1>4, <1>5, <1>7 DEF TreeInv

LEMMA TreeWorks ==
  ASSUME FineRows(run), TreeInv, Works
  PROVE  TreeInv'
<1>1. FineRows(run') /\ Evolves(run, run') /\ NoneEnds(run, run') /\ StillWait(run, run', NoRun, 0)
  BY DEF Works, Moves
<1>2. \A q \in Run : run'[q].phase = "ended" => run[q].phase = "ended" \/ LastEnded(q)
  BY <1>1 DEF NoneEnds
<1>3. ASSUME NEW d \in Run, Active(run', d), run[d].parent # NoRun
      PROVE  run'[run[d].parent].task[run[d].at] = "tool"
  <2>1. Active(run, d) BY <1>1, <1>3 DEF Evolves, Active
  <2>2. run[d].parent \in Run /\ run[d].at \in Task BY <1>3, TypesOf
  <2>3. run[run[d].parent].task[run[d].at] = "tool" BY <1>3, <2>1 DEF TreeInv, Awaited
  <2> QED BY <1>1, <1>3, <2>2, <2>3 DEF StillWait
<1> QED BY <1>1, <1>2, <1>3, TreeGrown

LEMMA TreeEnds ==
  ASSUME FineRows(run), TreeInv, NEW c \in Run, EndsOne(c)
  PROVE  TreeInv'
<1>1. /\ FineRows(run') /\ Evolves(run, run') /\ StillWait(run, run', run[c].parent, run[c].at)
      /\ Active(run, c) /\ run'[c].phase = "ended"
      /\ \A d \in Run : d # c /\ run'[d].phase = "ended" => run[d].phase = "ended"
  BY DEF EndsOne
<1>2. \A q \in Run : run'[q].phase = "ended" => run[q].phase = "ended" \/ LastEnded(q)
  BY <1>1 DEF LastEnded
<1>3. ASSUME NEW d \in Run, Active(run', d), run[d].parent # NoRun
      PROVE  run'[run[d].parent].task[run[d].at] = "tool"
  <2>1. Active(run, d) /\ d # c BY <1>1, <1>3 DEF Evolves, Active
  <2>2. run[d].parent \in Run /\ run[d].at \in Task BY <1>3, TypesOf
  <2>3. run[run[d].parent].task[run[d].at] = "tool" BY <1>3, <2>1 DEF TreeInv, Awaited
  <2>4. ~(run[d].parent = run[c].parent /\ run[d].at = run[c].at)
    BY <1>1, <1>3, <2>1 DEF TreeInv, Awaited
  <2> QED BY <1>1, <2>2, <2>3, <2>4 DEF StillWait
<1> QED BY <1>1, <1>2, <1>3, TreeGrown

LEMMA TreeCalls ==
  ASSUME FineRows(run), TreeInv, NEW r \in Run, NEW t \in Task, NEW c \in Run, Calls(r, t, c)
  PROVE  TreeInv'
<1>0. /\ c # r /\ c # 1 /\ run[c].phase = "idle" /\ run[r].phase # "idle" /\ AtWork(r)
      /\ run[r].task[t] = "acting" /\ FineRows(run')
      /\ run'[r].task[t] = "tool" /\ \A u \in Task \ {t} : run'[r].task[u] = run[r].task[u]
      /\ run'[c].phase = "building" /\ run'[c].parent = r /\ run'[c].at = t
      /\ run'[c].linaje = run[r].linaje \cup {r}
      /\ 1 \in Run /\ r # NoRun
  BY RunFinite DEF Calls, AtWork, Active, Tore
<1>1. \A d \in Run \ {c} :
        /\ run'[d].parent = run[d].parent /\ run'[d].at = run[d].at /\ run'[d].linaje = run[d].linaje
        /\ run'[d].phase = run[d].phase
        /\ d # r => run'[d] = run[d]
  BY DEF Calls, Same, Fixed
<1>2. \A d \in Run : /\ run[d].linaje \in SUBSET Run /\ run[d].parent \in Run \cup {NoRun}
                     /\ run[d].at \in Task
                     /\ run[d].parent # NoRun => run[run[d].parent].phase # "idle"
                     /\ \A q \in run[d].linaje :
                          run[q].phase # "idle" /\ run[q].linaje \subseteq run[d].linaje
  BY DEF FineRows, Runs, TreeInv, Called, Chained
<1>3. r = 1 \/ 1 \in run[r].linaje BY <1>0, StartsAtOne DEF TreeInv
<1>4. Called'
  <2>1. run'[1].parent = NoRun BY <1>0, <1>1 DEF TreeInv, Called
  <2>2. \A d \in Run : d # 1 => (run'[d].parent = NoRun <=> run'[d].phase = "idle")
    BY <1>0, <1>1 DEF TreeInv, Called
  <2>3. \A d \in Run : run'[d].parent = NoRun => run'[d].linaje = {}
    BY <1>0, <1>1 DEF TreeInv, Called
  <2>4. ASSUME NEW d \in Run, run'[d].parent # NoRun
        PROVE  /\ run'[d].parent # d /\ run'[run'[d].parent].phase # "idle" /\ 1 \in run'[d].linaje
               /\ run'[d].linaje = run'[run'[d].parent].linaje \cup {run'[d].parent}
    <3>1. CASE d = c BY <1>0, <1>1, <1>3, <3>1
    <3>2. CASE d # c
      <4>1. run'[d].parent = run[d].parent /\ run[d].parent \in Run \ {c}
        BY <1>0, <1>1, <1>2, <2>4, <3>2
      <4> QED BY <1>1, <2>4, <3>2, <4>1 DEF TreeInv, Called
    <3> QED BY <3>1, <3>2
  <2> QED BY <2>1, <2>2, <2>3, <2>4 DEF Called
<1>5. Chained'
  <2> SUFFICES ASSUME NEW d \in Run, NEW q \in run'[d].linaje
               PROVE  /\ run'[q].phase # "idle"
                      /\ q = run'[d].parent \/ \E e \in run'[d].linaje : run'[e].parent = q
                      /\ run'[q].linaje \subseteq run'[d].linaje
    BY DEF Chained
  <2>1. CASE d = c
    <3>1. CASE q = r BY <1>0, <1>1, <2>1, <3>1
    <3>2. CASE q \in run[r].linaje /\ q # r
      <4>1. q \in Run \ {c} BY <1>0, <1>2, <3>2
      <4>2. q = run[r].parent \/ \E e \in run[r].linaje : run[e].parent = q
        BY <3>2 DEF TreeInv, Chained
      <4>3. \E e \in run[r].linaje \cup {r} : run'[e].parent = q
        BY <1>0, <1>1, <1>2, <4>2
      <4> QED BY <1>0, <1>1, <1>2, <2>1, <3>2, <4>1, <4>3
    <3> QED BY <1>0, <2>1, <3>1, <3>2
  <2>2. CASE d # c
    <3>1. q \in run[d].linaje /\ q \in Run \ {c} BY <1>0, <1>1, <1>2, <2>2
    <3>2. q = run[d].parent \/ \E e \in run[d].linaje : run[e].parent = q
      BY <3>1 DEF TreeInv, Chained
    <3>3. \A e \in run[d].linaje : e \in Run \ {c} BY <1>0, <1>2
    <3> QED BY <1>1, <1>2, <2>2, <3>1, <3>2, <3>3
  <2> QED BY <2>1, <2>2
<1>6. ASSUME NEW d \in Run, Active(run', d), run'[d].parent # NoRun, d # c
      PROVE  /\ Active(run, d) /\ run[run[d].parent].task[run[d].at] = "tool"
             /\ run[d].parent \in Run \ {c} /\ ~(run[d].parent = r /\ run[d].at = t)
             /\ run'[run[d].parent].task[run[d].at] = "tool"
  <2>1. Active(run, d) /\ run[d].parent # NoRun BY <1>1, <1>6 DEF Active
  <2>2. run[run[d].parent].task[run[d].at] = "tool" BY <2>1 DEF TreeInv, Awaited
  <2>3. run[d].parent \in Run \ {c} BY <1>0, <1>2, <2>1
  <2>4. ~(run[d].parent = r /\ run[d].at = t) BY <1>0, <2>2
  <2>5. run'[run[d].parent].task[run[d].at] = "tool"
    <3>1. CASE run[d].parent = r BY <1>0, <1>2, <2>2, <2>4, <3>1
    <3>2. CASE run[d].parent # r BY <1>1, <2>2, <2>3, <3>2
    <3> QED BY <3>1, <3>2
  <2> QED BY <2>1, <2>2, <2>3, <2>4, <2>5
<1>7. Awaited'
  <2> SUFFICES ASSUME NEW d \in Run, Active(run', d), run'[d].parent # NoRun
               PROVE  /\ run'[run'[d].parent].task[run'[d].at] = "tool"
                      /\ \A e \in Run :
                           Active(run', e) /\ run'[e].parent = run'[d].parent
                             /\ run'[e].at = run'[d].at => e = d
    BY DEF Awaited
  <2>1. CASE d = c
    <3>1. \A e \in Run : Active(run', e) /\ run'[e].parent = r /\ run'[e].at = t => e = c
      <4> SUFFICES ASSUME NEW e \in Run, Active(run', e), run'[e].parent = r, run'[e].at = t, e # c
                   PROVE  FALSE
        OBVIOUS
      <4>1. ~(run[e].parent = r /\ run[e].at = t) BY <1>0, <1>6
      <4> QED BY <1>1, <4>1
    <3>2. /\ run'[run'[d].parent].task[run'[d].at] = "tool"
          /\ run'[d].parent = r /\ run'[d].at = t
      BY <1>0, <2>1
    <3> QED BY <2>1, <3>1, <3>2
  <2>2. CASE d # c
    <3>1. run'[d].parent = run[d].parent /\ run'[d].at = run[d].at BY <1>1, <2>2
    <3>2. ASSUME NEW e \in Run, Active(run', e), run'[e].parent = run'[d].parent,
                 run'[e].at = run'[d].at
          PROVE  e = d
      <4>1. e # c BY <1>0, <1>6, <2>2, <3>1, <3>2
      <4>2. Active(run, e) /\ run[e].parent = run[d].parent /\ run[e].at = run[d].at
        BY <1>1, <3>1, <3>2, <4>1 DEF Active
      <4>3. Active(run, d) /\ run[d].parent # NoRun BY <1>6, <2>2, <3>1
      <4> QED BY <4>2, <4>3 DEF TreeInv, Awaited
    <3>3. run'[run'[d].parent].task[run'[d].at] = "tool" BY <1>6, <2>2, <3>1
    <3> QED BY <3>2, <3>3
  <2> QED BY <2>1, <2>2
<1>8. \A m \in Run : Tore(run[m]) => m # c /\ Tore(run'[m])
  <2> TAKE m \in Run
  <2>1. CASE m = r
    <3>1. run[r] \in Runs /\ run[r].task \in [Task -> State] BY TypesOf
    <3>2. Same(run[r], run'[r]) BY DEF Calls
    <3> QED BY <1>0, <2>1, <3>1, <3>2 DEF Tore, Tears, Same, Fixed
  <2>2. CASE m # r BY <1>0, <1>1, <2>2 DEF Tore
  <2> QED BY <2>1, <2>2
<1>9. ASSUME NEW d \in Run, NEW q \in run[d].linaje, Active(run, d), run[q].phase = "ended"
      PROVE  \E m \in run[d].linaje : Tore(run'[m]) /\ (m = q \/ q \in run'[m].linaje)
  <2>1. PICK m \in run[d].linaje : Tore(run[m]) /\ (m = q \/ q \in run[m].linaje)
    BY <1>9 DEF TreeInv, LeftByMap
  <2>2. m \in Run /\ m # c /\ Tore(run'[m]) BY <1>2, <1>8, <2>1
  <2> QED BY <1>1, <2>1, <2>2
<1>10. LeftByMap'
  <2> SUFFICES ASSUME NEW d \in Run, NEW q \in run'[d].linaje, Active(run', d),
                      run'[q].phase = "ended"
               PROVE  \E m \in run'[d].linaje : Tore(run'[m]) /\ (m = q \/ q \in run'[m].linaje)
    BY DEF LeftByMap
  <2>1. CASE d = c
    <3>1. q \in run[r].linaje \cup {r} /\ q \in Run \ {c} BY <1>0, <1>2, <2>1
    <3>2. run[q].phase = "ended" BY <1>1, <3>1
    <3>3. CASE Tore(run[r]) BY <1>0, <1>1, <1>8, <2>1, <3>1, <3>3
    <3>4. CASE Active(run, r)
      <4>1. q \in run[r].linaje BY <3>1, <3>2, <3>4 DEF Active
      <4> QED BY <1>0, <1>9, <2>1, <3>2, <3>4, <4>1
    <3> QED BY <1>0, <3>3, <3>4 DEF AtWork
  <2>2. CASE d # c
    <3>1. q \in run[d].linaje /\ Active(run, d) BY <1>1, <2>2 DEF Active
    <3>2. q \in Run \ {c} BY <1>0, <1>2, <3>1
    <3>3. run[q].phase = "ended" BY <1>1, <3>2
    <3> QED BY <1>1, <1>9, <2>2, <3>1, <3>3
  <2> QED BY <2>1, <2>2
<1> QED BY <1>4, <1>5, <1>7, <1>10 DEF TreeInv

-----------------------------------------------------------------------------
(* Proposals and usage.                                                    *)

LEMMA ToldSame ==
  ASSUME NEW f, NEW g, \A d \in Run : g[d].told = f[d].told
  PROVE  Told(g) = Told(f)
<1> DEFINE v == [d \in Run |-> g[d].told]
           w == [d \in Run |-> f[d].told]
<1>1. \A d \in Run : v[d] = w[d] OBVIOUS
<1> HIDE DEF v, w
<1>2. SumFunctionOnSet(v, Run) = SumFunctionOnSet(w, Run) BY <1>1, RunFinite, SumSame
<1> QED BY <1>2 DEF Told, v, w

LEMMA UsedSame ==
  ASSUME NEW f, NEW g, \A d \in Run : g[d].used = f[d].used
  PROVE  UsedBy(g, Run) = UsedBy(f, Run)
<1> DEFINE v == [d \in Run |-> g[d].used]
           w == [d \in Run |-> f[d].used]
<1>1. \A d \in Run : v[d] = w[d] OBVIOUS
<1> HIDE DEF v, w
<1>2. SumFunctionOnSet(v, Run) = SumFunctionOnSet(w, Run) BY <1>1, RunFinite, SumSame
<1> QED BY <1>2 DEF UsedBy, v, w

\* One more for one run is one more for all.
LEMMA ToldMore ==
  ASSUME NEW f, NEW g, NEW r \in Run, \A d \in Run : f[d].told \in Nat,
         \A d \in Run : g[d].told = f[d].told + (IF d = r THEN 1 ELSE 0)
  PROVE  Told(g) = Told(f) + 1
<1> DEFINE v == [d \in Run |-> f[d].told]
           w == [d \in Run |-> g[d].told]
<1>1. \A d \in Run : v[d] \in Nat /\ w[d] \in Nat OBVIOUS
<1>2. w[r] = v[r] + 1 /\ \A d \in Run \ {r} : w[d] = v[d] OBVIOUS
<1>3. Told(f) = SumFunctionOnSet(v, Run) /\ Told(g) = SumFunctionOnSet(w, Run) BY DEF Told
<1> HIDE DEF v, w
<1>4. IsFiniteSet(Run \ {r}) BY RunFinite, FS_Subset
<1>5. SumFunctionOnSet(w, Run \ {r}) = SumFunctionOnSet(v, Run \ {r}) BY <1>2, <1>4, SumSame
<1>6. SumFunctionOnSet(v, Run \ {r}) \in Nat BY <1>1, <1>4, SumType
<1>7. /\ SumFunctionOnSet(v, Run) = v[r] + SumFunctionOnSet(v, Run \ {r})
      /\ SumFunctionOnSet(w, Run) = w[r] + SumFunctionOnSet(w, Run \ {r})
  BY <1>1, RunFinite, SumPick
<1> QED BY <1>1, <1>2, <1>3, <1>5, <1>6, <1>7

\* A run at work when run 1 has ended was left by a map, or is one.
LEMMA WorkLeft ==
  ASSUME FineRows(run), TreeInv, NEW r \in Run, AtWork(r), run[1].phase = "ended"
  PROVE  \E m \in Run : Tore(run[m])
<1>1. CASE Tore(run[r]) BY <1>1
<1>2. CASE Active(run, r)
  <2>1. run[r].phase # "idle" /\ r # 1 BY <1>2 DEF Active
  <2>2. 1 \in run[r].linaje BY <2>1, StartsAtOne DEF TreeInv
  <2>3. run[r].linaje \in SUBSET Run BY DEF FineRows, Runs
  <2> QED BY <1>2, <2>2, <2>3 DEF TreeInv, LeftByMap
<1> QED BY <1>1, <1>2 DEF AtWork

\* What all the runs have used is what run 1 has, and what the others have
\* registered, when nobody works and no map was torn.
LEMMA AllRecorded ==
  ASSUME FineRows(run), TreeInv, run[1].phase \notin {"idle", "ended"},
         \A d \in Run \ {1} : run[d].phase \in {"idle", "ended"} /\ ~Tore(run[d])
  PROVE  UsedBy(run, Run) = run[1].used + Recorded(1)
<1> DEFINE v == [c \in Run |-> run[c].used]
           w == [c \in Run |-> run[c].reported]
           B == Below(run, 1)
<1>1. \A d \in Run : v[d] \in Nat /\ v[d] = run[d].used BY TypesOf
<1>2. B \subseteq Run \ {1} BY DEF TreeInv, Called, Below
<1>3. \A d \in (Run \ {1}) \ B : v[d] = 0
  <2> SUFFICES ASSUME NEW d \in Run \ {1}, d \notin B PROVE v[d] = 0 OBVIOUS
  <2>1. ShapeOK(run[d]) BY TypesOf
  <2>2. run[d].phase = "idle" BY StartsAtOne DEF TreeInv, Called, Below
  <2> QED BY <1>1, <2>1, <2>2 DEF ShapeOK, Unused
<1>a. \A d \in B : w[d] = v[d]
  <2> SUFFICES ASSUME NEW d \in B PROVE w[d] = v[d] OBVIOUS
  <2>1. d \in Run \ {1} /\ 1 \in run[d].linaje BY <1>2 DEF Below
  <2>2. run[d].parent # NoRun BY <2>1 DEF TreeInv, Called
  <2>3. run[d].phase = "ended" BY <2>1, <2>2 DEF TreeInv, Called
  <2>4. ShapeOK(run[d]) /\ ~Tears(run[d]) BY <2>1, <2>3, TypesOf DEF Tore
  <2>5. run[d].reported = run[d].used BY <2>2, <2>3, <2>4 DEF ShapeOK, Open
  <2> QED BY <2>1, <2>5
<1>4. UsedBy(run, Run) = SumFunctionOnSet(v, Run) /\ Recorded(1) = SumFunctionOnSet(w, B)
  BY DEF UsedBy, Recorded
<1> HIDE DEF v, w, B
<1>b. IsFiniteSet(B) BY <1>2, RunFinite, FS_Subset
<1>5. Recorded(1) = SumFunctionOnSet(v, B) BY <1>4, <1>a, <1>b, SumSame
<1>6. IsFiniteSet(Run \ {1}) BY RunFinite, FS_Subset
<1>7. SumFunctionOnSet(v, Run) = v[1] + SumFunctionOnSet(v, Run \ {1})
  BY <1>1, RunFinite, SumPick
<1>8. SumFunctionOnSet(v, Run \ {1}) = SumFunctionOnSet(v, B) BY <1>1, <1>2, <1>3, <1>6, SumZero
<1> QED BY <1>1, <1>4, <1>5, <1>7, <1>8, RunFinite

LEMMA ToreStill ==
  ASSUME Evolves(run, run'), \E m \in Run : Tore(run[m])
  PROVE  \E m \in Run : Tore(run'[m])
BY ToreStays

\* A step that ends nobody keeps what run 1 answered.
LEMMA AnswerKept ==
  ASSUME Works
  PROVE  /\ run'[1].phase = "ended" => run[1].phase = "ended"
         /\ run[1].phase = "ended" =>
              /\ run'[1].outcome = run[1].outcome /\ run'[1].delivered = run[1].delivered
              /\ run'[1].billed = run[1].billed
         /\ (\E m \in Run : Tore(run[m])) => \E m \in Run : Tore(run'[m])
         /\ \A d \in Run : run'[d].list = run[d].list
BY RunFinite, ToreStill DEF Works, Moves, NoneEnds, Evolves, Fixed

LEMMA LedgerQuiet ==
  ASSUME RunInv, Quiet
  PROVE  Listed' /\ Delivered' /\ Billed'
<1>1. \A d \in Run : /\ run'[d].used = run[d].used /\ run'[d].told = run[d].told
                     /\ run'[d].listed = run[d].listed /\ run'[d].list = run[d].list
  BY AnswerKept DEF Quiet, SameLedger
<1>2. Told(run') = Told(run) /\ UsedBy(run', Run) = UsedBy(run, Run) BY <1>1, ToldSame, UsedSame
<1>3. Listed' BY <1>1, <1>2, RunFinite DEF RunInv, Listed
<1>4. Delivered' BY <1>1, AnswerKept, RunFinite DEF RunInv, Delivered, Quiet
<1>5. Billed' BY <1>2, AnswerKept DEF RunInv, Billed, Quiet
<1> QED BY <1>3, <1>4, <1>5

LEMMA LedgerSpends ==
  ASSUME RunInv, NEW r \in Run, Spends(r)
  PROVE  Listed' /\ Delivered' /\ Billed'
<1>1. \A d \in Run : /\ run'[d].told = run[d].told
                     /\ run'[d].listed = run[d].listed /\ run'[d].list = run[d].list
  BY AnswerKept DEF Spends
<1>2. Told(run') = Told(run) BY <1>1, ToldSame
<1>3. Listed' BY <1>1, <1>2, RunFinite DEF RunInv, Listed
<1>4. Delivered' BY <1>1, AnswerKept, RunFinite DEF RunInv, Delivered, Spends
<1>5. Billed'
  <2> SUFFICES ASSUME run'[1].phase = "ended" PROVE \E m \in Run : Tore(run'[m]) BY DEF Billed
  <2>1. run[1].phase = "ended" /\ AtWork(r) BY AnswerKept DEF Spends
  <2> QED BY <2>1, WorkLeft, AnswerKept DEF RunInv, Spends
<1> QED BY <1>3, <1>4, <1>5

LEMMA LedgerNotes ==
  ASSUME RunInv, NEW r \in Run, Notes(r)
  PROVE  Listed' /\ Delivered' /\ Billed'
<1>1. \A d \in Run : /\ run'[d].used = run[d].used /\ run'[d].list = run[d].list
                     /\ run'[d].told = run[d].told + (IF d = r THEN 1 ELSE 0)
                     /\ run'[d].listed = run[d].listed + (IF d = 1 THEN 1 ELSE 0)
  BY AnswerKept DEF Notes
<1>2. UsedBy(run', Run) = UsedBy(run, Run) BY <1>1, UsedSame
<1>3. Told(run') = Told(run) + 1 BY <1>1, TypesOf, ToldMore DEF RunInv
<1>4. Listed'
  <2>1. \A d \in Run : run[d].listed \in Int BY RunAssumption DEF RunInv, FineRows, Runs
  <2>2. \A d \in Run : d # 1 => run'[d].listed = 0 BY <1>1, <2>1 DEF RunInv, Listed
  <2>3. Told(run') = run'[1].listed BY <1>1, <1>3, RunFinite DEF RunInv, Listed
  <2> QED BY <1>1, <2>2, <2>3 DEF RunInv, Listed
<1>5. run'[1].phase = "ended" => \E m \in Run : Tore(run'[m])
  <2> SUFFICES ASSUME run'[1].phase = "ended" PROVE \E m \in Run : Tore(run'[m]) OBVIOUS
  <2>1. run[1].phase = "ended" /\ AtWork(r) BY AnswerKept DEF Notes
  <2> QED BY <2>1, WorkLeft, AnswerKept DEF RunInv, Notes
<1> QED BY <1>4, <1>5 DEF Delivered, Billed

LEMMA LedgerEnds ==
  ASSUME RunInv, NEW c \in Run, EndsOne(c), TreeInv'
  PROVE  Listed' /\ Delivered' /\ Billed'
<1>1. /\ FineRows(run') /\ Evolves(run, run') /\ Active(run, c) /\ run'[c].phase = "ended"
      /\ \A d \in Run : d # c /\ run'[d].phase = "ended" => run[d].phase = "ended"
  BY DEF EndsOne
<1>2. \A d \in Run : /\ run'[d].used = run[d].used /\ run'[d].told = run[d].told
                     /\ run'[d].listed = run[d].listed /\ run'[d].list = run[d].list
  BY DEF EndsOne, SameLedger, Evolves, Fixed
<1>3. Told(run') = Told(run) /\ UsedBy(run', Run) = UsedBy(run, Run) BY <1>2, ToldSame, UsedSame
<1>4. Listed' BY <1>2, <1>3, RunFinite DEF RunInv, Listed
<1>5. CASE c = 1
  <2>1. run[1].parent = NoRun BY DEF RunInv, TreeInv, Called
  <2>2. /\ run'[1].outcome \in {"ok", "blocked"} => run'[1].delivered = run[1].listed
        /\ run'[1].billed = run[1].used + Recorded(1)
    BY <1>5, <2>1 DEF EndsOne
  <2>3. Delivered' BY <1>2, <2>2, RunFinite DEF Delivered
  <2>4. Billed'
    <3> SUFFICES ASSUME ~ \E m \in Run : Tore(run'[m]) PROVE run'[1].billed = UsedBy(run', Run)
      BY DEF Billed
    <3>1. \A d \in Run \ {1} : run[d].phase \in {"idle", "ended"}
      <4> SUFFICES ASSUME NEW d \in Run \ {1}, run[d].phase \notin {"idle", "ended"} PROVE FALSE
        OBVIOUS
      <4>1. Active(run', d) BY <1>1, <1>5 DEF Active, Evolves
      <4>2. 1 \in run'[d].linaje
        BY StartsAtOne, <1>1 DEF RunInv, TreeInv, Evolves, Fixed
      <4>3. run'[d].linaje \in SUBSET Run BY <1>1 DEF FineRows, Runs
      <4> QED BY <1>1, <1>5, <4>1, <4>2, <4>3 DEF TreeInv, LeftByMap
    <3>2. run[1].phase \notin {"idle", "ended"} BY <1>1, <1>5 DEF Active
    <3>a. \A d \in Run : ~Tore(run[d]) BY <1>1, ToreStays
    <3>3. UsedBy(run, Run) = run[1].used + Recorded(1) BY <3>1, <3>2, <3>a, AllRecorded DEF RunInv
    <3> QED BY <1>3, <2>2, <3>3
  <2> QED BY <1>4, <2>3, <2>4
<1>6. CASE c # 1
  <2>1. run'[1].phase = "ended" =>
          /\ run[1].phase = "ended" /\ run'[1].outcome = run[1].outcome
          /\ run'[1].delivered = run[1].delivered /\ run'[1].billed = run[1].billed
    BY <1>1, <1>6, RunFinite DEF Evolves
  <2>2. (\E m \in Run : Tore(run[m])) => \E m \in Run : Tore(run'[m]) BY <1>1, ToreStill
  <2>3. Delivered' BY <1>2, <2>1, <2>2, RunFinite DEF RunInv, Delivered
  <2>4. Billed' BY <1>3, <2>1, <2>2 DEF RunInv, Billed
  <2> QED BY <1>4, <2>3, <2>4
<1> QED BY <1>5, <1>6

LEMMA LedgerCalls ==
  ASSUME RunInv, NEW r \in Run, NEW t \in Task, NEW c \in Run, Calls(r, t, c)
  PROVE  Listed' /\ Delivered' /\ Billed'
<1>1. /\ \A d \in Run : /\ run'[d].used = run[d].used /\ run'[d].told = run[d].told
                        /\ run'[d].listed = run[d].listed
      /\ \A d \in Run \ {c} : run'[d].list = run[d].list
      /\ run'[c].list = run[r].list
      /\ \A d \in Run \ {r, c} : run'[d] = run[d]
      /\ run[c].phase = "idle" /\ c # 1 /\ Same(run[r], run'[r]) /\ run'[r].billed = run[r].billed
      /\ run'[r].task[t] = "tool" /\ \A u \in Task \ {t} : run'[r].task[u] = run[r].task[u]
      /\ run[r].task[t] = "acting"
  BY DEF Calls, Same, Fixed
<1>2. Told(run') = Told(run) /\ UsedBy(run', Run) = UsedBy(run, Run) BY <1>1, ToldSame, UsedSame
<1>3. Listed' BY <1>1, <1>2, RunFinite DEF RunInv, Listed
<1>4. /\ run'[1].phase = run[1].phase /\ run'[1].outcome = run[1].outcome
      /\ run'[1].delivered = run[1].delivered /\ run'[1].billed = run[1].billed
      /\ run'[1].listed = run[1].listed
  BY <1>1, RunFinite DEF Same
<1>5. \A m \in Run : Tore(run[m]) => Tore(run'[m])
  <2> TAKE m \in Run
  <2>1. CASE m = r BY <1>1, <2>1 DEF Tore, Tears, Same, Fixed
  <2>2. CASE m # r BY <1>1, <2>2 DEF Tore
  <2> QED BY <2>1, <2>2
<1>6. Delivered' BY <1>4, <1>5 DEF RunInv, Delivered
<1>7. Billed' BY <1>2, <1>4, <1>5 DEF RunInv, Billed
<1> QED BY <1>3, <1>6, <1>7

-----------------------------------------------------------------------------
(* The first step, and the theorems.                                       *)

LEMMA TreeStarts ==
  ASSUME RunInv, Start
  PROVE  RunInv'
<1>1. PICK list \in {1, NoRun} :
        /\ run[1].phase = "idle" /\ run[1].pattern # "none"
        /\ Update(1, [run[1] EXCEPT !.phase = "building", !.list = list])
  BY DEF Start
<1>2. PICK y : y = [run[1] EXCEPT !.phase = "building", !.list = list] OBVIOUS
<1>3. /\ run \in [Run -> Runs] /\ run[1] \in Runs /\ ShapeOK(run[1]) /\ Within(run[1])
      /\ 1 \in Run /\ list \in Run \cup {NoRun}
  BY TypesOf, RunFinite DEF RunInv
<1>4. /\ y \in Runs /\ y.phase = "building" /\ y.list = list /\ y.task = run[1].task
      /\ y.pattern = run[1].pattern /\ y.limit = run[1].limit /\ y.parent = run[1].parent
      /\ y.linaje = run[1].linaje /\ y.handoffs = run[1].handoffs /\ y.hops = run[1].hops
      /\ y.used = run[1].used /\ y.told = run[1].told /\ y.listed = run[1].listed
      /\ y.outcome = run[1].outcome /\ y.delivered = run[1].delivered
  <2>1. "building" \in Phase BY DEF Phase
  <2>2. [run[1] EXCEPT !.phase = "building", !.list = list] \in Runs
    BY <1>3, <2>1, Zenon DEF Runs
  <2> QED BY <1>2, <1>3, <2>2 DEF Runs
<1>5. run' \in [Run -> Runs] /\ run'[1] = y /\ \A d \in Run : d # 1 => run'[d] = run[d]
  BY <1>1, <1>2, <1>3, <1>4 DEF Update
<1>6. ShapeOK(y)
  <2>1. Fresh(run[1]) /\ Lone(run[1]) /\ Open(run[1]) /\ Counted(run[1])
    BY <1>1, <1>3 DEF ShapeOK, Unused
  <2>2. Fresh(y) /\ Lone(y) /\ Open(y) /\ Counted(y)
    BY <1>1, <1>4, <2>1 DEF Fresh, Lone, Open, Counted
  <2>3. Unwound(y) /\ Concluded(y) /\ Unused(y) BY <1>1, <1>4, <2>2 DEF Unwound, Concluded, Unused
  <2>4. Waits(y) BY <2>2 DEF Waits, Clear, Fresh, Still
  <2> QED BY <2>2, <2>3, <2>4 DEF ShapeOK
<1>7. Within(y)
  <2>1. AtModel(y) \subseteq AtModel(run[1]) BY <1>4 DEF AtModel
  <2> QED BY <1>3, <1>4, <2>1, WithinLess
<1>8. FineRows(run')
  <2>1. \A d \in Run : ShapeOK(run'[d]) /\ Within(run'[d])
    <3> TAKE d \in Run
    <3>1. CASE d = 1 BY <1>5, <1>6, <1>7, <3>1
    <3>2. CASE d # 1 BY <1>5, <3>2, TypesOf DEF RunInv
    <3> QED BY <3>1, <3>2
  <2> QED BY <1>5, <2>1 DEF FineRows
\* Nobody else has been called.
<1>9. \A d \in Run \ {1} : run'[d].phase = "idle" /\ run'[d].parent = NoRun /\ run'[d].linaje = {}
  <2> TAKE d \in Run \ {1}
  <2>1. run[d].phase = "idle" BY <1>1, StartsAtOne DEF RunInv, TreeInv
  <2> QED BY <1>5, <2>1 DEF RunInv, TreeInv, Called
<1>10. run'[1].parent = NoRun /\ run'[1].linaje = {} BY <1>3, <1>4, <1>5 DEF RunInv, TreeInv, Called
<1>11. TreeInv'
  <2>1. Called' BY <1>9, <1>10 DEF Called
  <2>2. Chained' BY <1>9, <1>10 DEF Chained
  <2>3. Awaited' BY <1>9, <1>10 DEF Awaited
  <2>4. LeftByMap' BY <1>9, <1>10 DEF LeftByMap
  <2> QED BY <2>1, <2>2, <2>3, <2>4 DEF TreeInv
<1>12. \A d \in Run : run'[d].told = run[d].told /\ run'[d].listed = run[d].listed
  BY <1>4, <1>5
<1>13. Listed'
  <2>1. Told(run') = Told(run) BY <1>12, ToldSame
  <2>2. \A d \in Run : run'[d].list \in {1, NoRun} BY <1>4, <1>5 DEF RunInv, Listed
  <2> QED BY <1>3, <1>12, <2>1, <2>2 DEF RunInv, Listed
<1>14. Delivered' /\ Billed' BY <1>4, <1>5 DEF Delivered, Billed
<1> QED BY <1>8, <1>11, <1>13, <1>14 DEF RunInv

LEMMA RunInit == Init => RunInv
<1> SUFFICES ASSUME Init PROVE RunInv OBVIOUS
<1>1. PICK team \in Teams : run = [r \in Run |-> Idle(team[r])] BY DEF Init
<1>2. \A r \in Run : team[r] \in [pattern : Pattern, limit : Nat] BY <1>1, TeamAssumption
<1>3. \A r \in Run :
        /\ run[r] = Idle(team[r])
        /\ run[r].phase = "idle" /\ run[r].parent = NoRun /\ run[r].linaje = {}
        /\ run[r].list = NoRun /\ run[r].used = 0 /\ run[r].told = 0 /\ run[r].listed = 0
        /\ run[r].outcome = "none" /\ run[r].delivered = 0 /\ run[r].reported = 0
        /\ run[r].handoffs = 0 /\ run[r].hops = 0
        /\ run[r].task = [t \in Task |-> IF t = 0 THEN "ready" ELSE "off"]
  BY <1>1 DEF Idle
<1>4. ASSUME NEW r \in Run PROVE run[r] \in Runs
  <2>1. team[r].pattern \in Pattern /\ team[r].limit \in Nat BY <1>2
  <2>2. /\ "idle" \in Phase /\ "none" \in Outcome /\ 0 \in Task /\ 0 \in Nat
        /\ 0 \in 0 .. MaxProposals /\ {} \in SUBSET Run
        /\ NoRun \in Run \cup {NoRun} /\ FALSE \in BOOLEAN
    BY RunFinite, RunAssumption DEF Phase, Outcome
  <2>3. [t \in Task |-> IF t = 0 THEN "ready" ELSE "off"] \in [Task -> State] BY DEF State
  <2>4. [t \in Task |-> 0] \in [Task -> 0 .. MaxIterations] BY RunAssumption
  <2>5. Idle(team[r]) \in Runs BY <2>1, <2>2, <2>3, <2>4, Zenon DEF Idle, Runs
  <2> QED BY <1>3, <2>5
<1>5. \A r \in Run : ShapeOK(run[r])
  <2> TAKE r \in Run
  <2>a. run[r].task = [t \in Task |-> IF t = 0 THEN "ready" ELSE "off"] BY <1>3
  <2>b. run[r].task[0] = "ready" /\ \A t \in Task \ {0} : run[r].task[t] = "off"
    BY <2>a, RunFinite
  <2>c. run[r].phase = "idle" /\ run[r].handoffs = 0 /\ run[r].hops = 0 BY <1>3
  <2>1. Fresh(run[r]) BY <1>3 DEF Fresh
  <2>2. Counted(run[r])
    <3>1. 0 <= MaxHandoffs BY RunAssumption
    <3> QED BY <2>c, <3>1 DEF Counted
  <2>3. Lone(run[r]) BY <2>b DEF Lone
  <2>4. Unwound(run[r]) /\ Concluded(run[r]) BY <2>c DEF Unwound, Concluded
  <2>5. Waits(run[r]) BY <2>b DEF Waits, Clear, Still
  <2>6. Unused(run[r]) /\ Open(run[r]) BY <1>3, <2>1 DEF Unused, Open
  <2> QED BY <2>1, <2>2, <2>3, <2>4, <2>5, <2>6 DEF ShapeOK
<1>6. \A r \in Run : Within(run[r])
  <2> TAKE r \in Run
  <2>1. \E t \in Task : t \notin AtModel(run[r]) BY <1>3, RunFinite DEF AtModel
  <2>2. run[r].limit # 0 => run[r].used < run[r].limit
    <3>1. run[r].used = 0 BY <1>3
    <3>2. run[r].limit \in Nat BY <1>4 DEF Runs
    <3> QED BY <3>1, <3>2
  <2> QED BY <1>4, <2>1, <2>2, WithinCall
<1>7. FineRows(run)
  <2>1. run \in [Run -> Runs] BY <1>1, <1>4
  <2> QED BY <1>5, <1>6, <2>1 DEF FineRows
<1>8. TreeInv
  <2>1. Called BY <1>3, RunFinite DEF Called
  <2>2. Chained BY <1>3 DEF Chained
  <2>3. Awaited BY <1>3 DEF Awaited
  <2>4. LeftByMap BY <1>3 DEF LeftByMap
  <2> QED BY <2>1, <2>2, <2>3, <2>4 DEF TreeInv
<1>9. Listed
  <2> DEFINE v == [c \in Run |-> run[c].told]
  <2>1. \A c \in Run : v[c] = 0 BY <1>3
  <2>2. Told(run) = SumFunctionOnSet(v, Run) BY DEF Told
  <2> HIDE DEF v
  <2>3. SumFunctionOnSet(v, Run) = SumFunctionOnSet(v, {})
    BY <2>1, RunFinite, SumZero
  <2>4. SumFunctionOnSet(v, {}) = 0 BY SumEmpty
  <2> QED BY <1>3, <2>2, <2>3, <2>4, RunFinite DEF Listed
<1>10. Delivered /\ Billed BY <1>3, RunFinite DEF Delivered, Billed
<1> QED BY <1>7, <1>8, <1>9, <1>10 DEF RunInv

LEMMA RunStep == RunInv /\ [Next]_vars => RunInv'
<1> SUFFICES ASSUME RunInv, [Next]_vars PROVE RunInv' OBVIOUS
<1>1. CASE Start BY <1>1, TreeStarts
<1>2. ASSUME NEW r \in Run, Step(r) PROVE RunInv'
  <2> USE DEF RunInv
  <2>1. CASE Quiet
    <3>1. Works BY <2>1 DEF Quiet
    <3>2. FineRows(run') BY <3>1 DEF Works, Moves
    <3> QED BY <2>1, <3>1, <3>2, TreeWorks, LedgerQuiet
  <2>2. ASSUME NEW c \in Run, EndsOne(c) PROVE RunInv'
    <3>1. FineRows(run') BY <2>2 DEF EndsOne
    <3>2. TreeInv' BY <2>2, TreeEnds
    <3> QED BY <2>2, <3>1, <3>2, LedgerEnds
  <2>3. CASE Spends(r)
    <3>1. Works BY <2>3 DEF Spends
    <3>2. FineRows(run') BY <3>1 DEF Works, Moves
    <3> QED BY <2>3, <3>1, <3>2, TreeWorks, LedgerSpends
  <2>4. CASE Notes(r)
    <3>1. Works BY <2>4 DEF Notes
    <3>2. FineRows(run') BY <3>1 DEF Works, Moves
    <3> QED BY <2>4, <3>1, <3>2, TreeWorks, LedgerNotes
  <2>5. ASSUME NEW t \in Task, NEW c \in Run, Calls(r, t, c) PROVE RunInv'
    <3>1. FineRows(run') BY <2>5 DEF Calls
    <3> QED BY <2>5, <3>1, TreeCalls, LedgerCalls
  <2> QED BY <1>2, <2>1, <2>2, <2>3, <2>4, <2>5, StepForms
<1>3. CASE run' = run
  BY <1>3 DEF RunInv, FineRows, TreeInv, Called, Chained, Awaited, LeftByMap, Active, Listed,
              Delivered, Billed, Told, UsedBy
<1> QED BY <1>1, <1>2, <1>3 DEF Next, vars

LEMMA RunInvariant == Spec => []RunInv
BY RunInit, RunStep, PTL DEF Spec

(* Every run stays a record of its type: no more turns than max_iterations, *)
(* no more proposals in a list than MAX_PROPUESTAS.                         *)
THEOREM RunTypeCorrect == Spec => []TypeOK
<1>1. RunInv => TypeOK BY DEF RunInv, FineRows, TypeOK
<1> QED BY <1>1, RunInvariant, PTL

(* Whatever the team, whatever fails and whoever is cancelled first: below *)
(* a run that ended works only what a map at or below it left.             *)
THEOREM SubAgentsStructured == Spec => []NoRunOutlivesCaller
<1>1. RunInv => NoRunOutlivesCaller
  <2> SUFFICES ASSUME RunInv, NEW r \in Run, run[r].phase = "ended", NEW c \in Below(run, r),
                      Active(run, c)
               PROVE  \E m \in run[c].linaje : run[m].left /\ m \in {r} \cup Below(run, r)
    BY DEF NoRunOutlivesCaller
  <2>1. c \in Run /\ r \in run[c].linaje BY DEF Below
  <2>2. PICK m \in run[c].linaje : Tore(run[m]) /\ (m = r \/ r \in run[m].linaje)
    BY <2>1 DEF RunInv, TreeInv, LeftByMap
  <2>3. m \in Run BY <2>1 DEF RunInv, FineRows, Runs
  <2> QED BY <2>2, <2>3 DEF Tore, Tears, Below
<1> QED BY <1>1, RunInvariant, PTL

LEMMA NoneTore ==
  ASSUME \A r \in Run : ~run[r].left
  PROVE  ~ \E m \in Run : Tore(run[m])
BY DEF Tore, Tears

(* The trace of the run that was asked for has the usage of all, once.     *)
THEOREM UsageComplete == Spec => []UsageBilledOnce
<1>1. RunInv => UsageBilledOnce BY NoneTore DEF RunInv, Billed, UsageBilledOnce
<1> QED BY <1>1, RunInvariant, PTL

(* A run passes its budget by at most one call of each task side by side,  *)
(* and the calls in flight are counted.                                    *)
THEOREM BudgetHolds == Spec => []OverrunBounded
<1>1. RunInv => OverrunBounded
  BY DEF RunInv, FineRows, Within, OverrunBounded, AtModel, Most
<1> QED BY <1>1, RunInvariant, PTL

(* Every proposal a model was told is noted is in the response, at any     *)
(* depth, and all of them keep to one cap.                                 *)
THEOREM ProposalsReachTheResponse == Spec => []ProposalsDelivered
<1>1. RunInv => ProposalsDelivered
  <2> SUFFICES ASSUME RunInv PROVE ProposalsDelivered OBVIOUS
  <2>1. Told(run) = run[1].listed /\ run[1].listed <= MaxProposals
    BY RunFinite, RunAssumption DEF RunInv, Listed, FineRows, Runs
  <2>2. ASSUME run[1].outcome \in {"ok", "blocked"}, \A r \in Run : ~run[r].left
        PROVE  run[1].delivered = Told(run)
    <3>1. ShapeOK(run[1]) BY RunFinite DEF RunInv, FineRows
    <3>2. run[1].phase = "ended" BY <2>2, <3>1 DEF ShapeOK, Open
    <3> QED BY <2>1, <2>2, <3>2, NoneTore DEF RunInv, Delivered
  <2> QED BY <2>1, <2>2 DEF ProposalsDelivered, Told
<1> QED BY <1>1, RunInvariant, PTL

(* No conversation is handed off more than MaxHandoffs times.              *)
THEOREM HandoffsEnd == Spec => []HandoffsBounded
<1>1. RunInv => HandoffsBounded
  BY RunAssumption DEF RunInv, FineRows, Runs, ShapeOK, Counted, HandoffsBounded
<1> QED BY <1>1, RunInvariant, PTL

-----------------------------------------------------------------------------
(* The router.                                                             *)


LEMMA FiniteProviders ==
  ASSUME NEW S \in SUBSET Provider
  PROVE  IsFiniteSet(S) /\ Cardinality(S) \in Nat
<1>1. IsFiniteSet(Provider)
  BY RouterAssumption, FS_Interval DEF Provider
<1>2. IsFiniteSet(S)
  BY <1>1, FS_Subset
<1>. QED
  BY <1>2, FS_CardinalityType

\* A ranking lists every candidate once.
LEMMA RankedLists ==
  ASSUME NEW d \in Demands, NEW q \in Ranked(d)
  PROVE  /\ q \in Seq(Provider)
         /\ \A i \in 1 .. Len(q) : q[i] \in Candidates(d)
         /\ \A i, j \in 1 .. Len(q) : q[i] = q[j] => i = j
         /\ \A p \in Candidates(d) : \E i \in 1 .. Len(q) : q[i] = p
<1>. DEFINE C == Candidates(d)
            n == Cardinality(C)
<1>1. C \in SUBSET Provider
  BY DEF Candidates, Offered
<1>2. n \in Nat
  BY <1>1, FiniteProviders
<1>3. q \in Bijection(1 .. n, C)
  BY DEF Ranked, Lists
<1>. HIDE DEF C, n
<1>4. /\ q \in [1 .. n -> C]
      /\ \A i, j \in 1 .. n : q[i] = q[j] => i = j
      /\ \A p \in C : \E i \in 1 .. n : q[i] = p
  BY <1>3 DEF Bijection, Injection, Surjection, IsInjective
<1>5. q \in Seq(C) /\ Len(q) = n
  BY <1>2, <1>4, LenProperties, IsASeq
<1>6. q \in Seq(Provider)
  BY <1>1, <1>5, SeqMonotonic
<1>. QED
  BY <1>4, <1>5, <1>6 DEF C

\* The edits of a provider's health.
LEMMA HealthOps ==
  ASSUME NEW h \in Health
  PROVE  /\ HalfOpened(h) \in Health /\ Failed(h) \in Health
         /\ Succeeded(h) \in Health /\ Elapsed(h) \in Health
         /\ Elapsed(h).open = h.open /\ Elapsed(h).failures = h.failures
         /\ Succeeded(h).open = h.open /\ Succeeded(h).failures = 0
         /\ HalfOpened(h).open => HalfOpened(h) = h /\ h.cooling # 0
         /\ ~HalfOpened(h).open => HalfOpened(h).failures = 0 \/ HalfOpened(h) = h
         /\ Failed(h).failures = h.failures + 1
         /\ Failed(h).open <=> h.open \/ h.failures + 1 >= Threshold
<1>1. Threshold \in Nat \ {0} /\ Cooldown \in Nat
  BY RouterAssumption
<1>2. HalfOpened(h) \in Health /\ Succeeded(h) \in Health
  BY DEF HalfOpened, Succeeded, Health
<1>3. Failed(h) \in Health
  BY <1>1 DEF Failed, Health
<1>4. Elapsed(h) \in Health
  BY <1>1 DEF Elapsed, Health
<1>5. Elapsed(h).open = h.open /\ Elapsed(h).failures = h.failures
  BY DEF Elapsed, Health
<1>6. Succeeded(h).open = h.open /\ Succeeded(h).failures = 0
  BY DEF Succeeded, Health
<1>7. /\ HalfOpened(h).open => HalfOpened(h) = h /\ h.cooling # 0
      /\ ~HalfOpened(h).open => HalfOpened(h).failures = 0 \/ HalfOpened(h) = h
  BY DEF HalfOpened, Health
<1>8. Failed(h).failures = h.failures + 1
  BY <1>1 DEF Failed, Health
<1>9. Failed(h).open <=> h.open \/ h.failures + 1 >= Threshold
  BY <1>1 DEF Failed, Health
<1>. QED
  BY <1>2, <1>3, <1>4, <1>5, <1>6, <1>7, <1>8, <1>9

-----------------------------------------------------------------------------
(* Types.                                                                  *)

\* Ending a request, or taking the next candidate, keeps the queues typed.
LEMMA EndsType ==
  ASSUME RouterTypeOK, NEW r \in Request, NEW how \in {"none", "answer", "error"}, RequestEnds(r, how)
  PROVE  /\ queue' \in [Request -> Seq(Provider)]
         /\ at' \in [Request -> Nat]
         /\ \A s \in Request : at'[s] <= Len(queue'[s])
         /\ result' \in [Request -> {"none", "answer", "error"}]
<1>1. <<>> \in Seq(Provider) /\ Len(<<>>) = 0
  OBVIOUS
<1>. QED
  BY <1>1 DEF RouterTypeOK, RequestEnds

LEMMA AskedType ==
  ASSUME RouterTypeOK, NEW r \in Request, at[r] # 0
  PROVE  at[r] \in 1 .. Len(queue[r]) /\ Asked(r) \in Provider
<1>1. queue[r] \in Seq(Provider) /\ at[r] \in 1 .. Len(queue[r])
  BY DEF RouterTypeOK
<1>. QED
  BY <1>1, ElementOfSeq DEF Asked

LEMMA InitType == RouterInit => RouterTypeOK
<1>1. <<>> \in Seq(Provider) /\ Len(<<>>) = 0
  OBVIOUS
<1>. QED
  BY <1>1, RouterAssumption DEF RouterInit, RouterTypeOK, Health

LEMMA StepType == RouterTypeOK /\ [RouterNext]_routerVars => RouterTypeOK'
<1>. SUFFICES ASSUME RouterTypeOK, [RouterNext]_routerVars
              PROVE  RouterTypeOK'
  OBVIOUS
<1>1. CASE UNCHANGED routerVars
  BY <1>1 DEF RouterTypeOK, routerVars
<1>2. CASE Tick
  BY <1>2, HealthOps DEF Tick, RouterTypeOK
<1>3. ASSUME NEW r \in Request, NEW d \in Demands, Route(r, d)
      PROVE  RouterTypeOK'
  <2>1. health' \in [Provider -> Health]
    BY <1>3, HealthOps DEF Route, RouterTypeOK
  <2>2. PICK q \in Ranked(d) :
          IF q = <<>> THEN RequestEnds(r, "error")
          ELSE /\ queue'  = [queue EXCEPT ![r] = q]
               /\ at'     = [at EXCEPT ![r] = 1]
               /\ result' = [result EXCEPT ![r] = "none"]
    BY <1>3 DEF Route
  <2>3. CASE q = <<>>
    BY <1>3, <2>1, <2>2, <2>3, EndsType DEF Route, RouterTypeOK
  <2>4. CASE q # <<>>
    <3>1. q \in Seq(Provider) /\ Len(q) >= 1
      BY <2>4, RankedLists, EmptySeq, LenProperties
    <3>2. /\ queue' = [queue EXCEPT ![r] = q] /\ at' = [at EXCEPT ![r] = 1]
          /\ result' = [result EXCEPT ![r] = "none"]
      BY <2>2, <2>4
    <3>3. /\ queue' \in [Request -> Seq(Provider)] /\ at' \in [Request -> Nat]
          /\ result' \in [Request -> {"none", "answer", "error"}]
      BY <3>1, <3>2 DEF RouterTypeOK
    <3>4. \A s \in Request : at'[s] <= Len(queue'[s])
      BY <3>1, <3>2 DEF RouterTypeOK
    <3>. QED
      BY <1>3, <2>1, <3>3, <3>4 DEF Route, RouterTypeOK
  <2>. QED
    BY <2>3, <2>4
<1>4. ASSUME NEW r \in Request, Answers(r)
      PROVE  RouterTypeOK'
  <2>1. health' \in [Provider -> Health] /\ strategy' \in Strategy
    BY <1>4, AskedType, HealthOps DEF Answers, RouterTypeOK
  <2>2. count' \in 0 .. Period - 1
    BY <1>4, RouterAssumption DEF Answers, RouterTypeOK
  <2>. QED
    BY <1>4, <2>1, <2>2, EndsType DEF Answers, RouterTypeOK
<1>5. ASSUME NEW r \in Request, ProviderFails(r)
      PROVE  RouterTypeOK'
  <2>1. health' \in [Provider -> Health] /\ strategy' \in Strategy /\ count' \in 0 .. Period - 1
    BY <1>5, AskedType, HealthOps DEF ProviderFails, RouterTypeOK
  <2>2. CASE at[r] < Len(queue[r])
    <3>1. at' = [at EXCEPT ![r] = @ + 1] /\ UNCHANGED <<queue, result>>
      BY <1>5, <2>2 DEF ProviderFails
    <3>2. at' \in [Request -> Nat] /\ \A s \in Request : at'[s] <= Len(queue'[s])
      <4>1. \A s \in Request : at[s] \in Nat /\ Len(queue[s]) \in Nat /\ at[s] <= Len(queue[s])
        BY LenProperties DEF RouterTypeOK
      <4>. QED
        BY <2>2, <3>1, <4>1 DEF RouterTypeOK
    <3>. QED
      BY <2>1, <3>1, <3>2 DEF RouterTypeOK
  <2>3. CASE ~(at[r] < Len(queue[r]))
    BY <1>5, <2>1, <2>3, EndsType DEF ProviderFails, RouterTypeOK
  <2>. QED
    BY <2>2, <2>3
<1>6. ASSUME NEW r \in Request, Abandon(r)
      PROVE  RouterTypeOK'
  BY <1>6, EndsType DEF Abandon, RouterTypeOK
<1>. QED
  BY <1>1, <1>2, <1>3, <1>4, <1>5, <1>6 DEF RouterNext

(* Every state of the router is well typed.                                *)
THEOREM RouterTypeCorrect == RouterSpec => []RouterTypeOK
BY InitType, StepType, PTL DEF RouterSpec

-----------------------------------------------------------------------------
(* The overrun.  Waiting(p) are the requests that have yet to hear from p; *)
(* none joins them while the circuit of p is open, and each leaves them    *)
(* with the failure it adds.                                               *)

Waiting(p) == {r \in Request : at[r] # 0 /\ \E i \in at[r] .. Len(queue[r]) : queue[r][i] = p}

Apart ==
  \A r \in Request : \A i, j \in 1 .. Len(queue[r]) : queue[r][i] = queue[r][j] => i = j

BelowThreshold == \A p \in Provider : ~health[p].open => health[p].failures < Threshold

Overrun ==
  \A p \in Provider : health[p].open =>
    health[p].failures + Cardinality(Waiting(p)) <= Threshold - 1 + Cardinality(Request)

RouterInv == RouterTypeOK /\ Apart /\ BelowThreshold /\ Overrun

LEMMA FiniteWaiting ==
  /\ Cardinality(Request) \in Nat
  /\ \A S \in SUBSET Request : Cardinality(S) \in Nat /\ Cardinality(S) <= Cardinality(Request)
  /\ \A S \in SUBSET Request : \A T \in SUBSET S : Cardinality(T) <= Cardinality(S)
  /\ \A S \in SUBSET Request : \A r \in S : \A T \in SUBSET (S \ {r}) :
        Cardinality(T) <= Cardinality(S) - 1
<1>1. IsFiniteSet(Request)
  BY RouterAssumption
<1>2. \A S \in SUBSET Request : IsFiniteSet(S) /\ Cardinality(S) \in Nat
  BY <1>1, FS_Subset, FS_CardinalityType
<1>3. \A S \in SUBSET Request : \A T \in SUBSET S : Cardinality(T) <= Cardinality(S)
  BY <1>2, FS_Subset
<1>4. ASSUME NEW S \in SUBSET Request, NEW r \in S, NEW T \in SUBSET (S \ {r})
      PROVE  Cardinality(T) <= Cardinality(S) - 1
  <2>1. IsFiniteSet(S \ {r}) /\ Cardinality(S \ {r}) = Cardinality(S) - 1
    BY <1>2, FS_RemoveElement
  <2>. QED
    BY <2>1, FS_Subset
<1>. QED
  BY <1>2, <1>3, <1>4

\* A request that ends waits for nobody.
LEMMA EndsWaiting ==
  ASSUME RouterTypeOK, NEW r \in Request, NEW how, RequestEnds(r, how)
  PROVE  \A p \in Provider : Waiting(p)' \subseteq Waiting(p) \ {r}
BY DEF RouterTypeOK, RequestEnds, Waiting

\* A failure takes its request off the list of the provider that failed.
LEMMA FailsWaiting ==
  ASSUME RouterTypeOK, Apart, NEW r \in Request, ProviderFails(r), NEW a \in Provider, a = Asked(r)
  PROVE  /\ r \in Waiting(a)
         /\ Waiting(a)' \subseteq Waiting(a) \ {r}
         /\ \A p \in Provider : Waiting(p)' \subseteq Waiting(p)
<1>1. at[r] # 0 /\ at[r] \in 1 .. Len(queue[r]) /\ Len(queue[r]) \in Nat
  BY AskedType, LenProperties DEF ProviderFails, RouterTypeOK
<1>2. r \in Waiting(a)
  BY <1>1 DEF Waiting, Asked
<1>3. CASE at[r] < Len(queue[r])
  <2>1. at' = [at EXCEPT ![r] = @ + 1] /\ queue' = queue
    BY <1>3 DEF ProviderFails
  <2>2. at'[r] = at[r] + 1 /\ \A s \in Request \ {r} : at'[s] = at[s]
    BY <2>1 DEF RouterTypeOK
  <2>3. \A p \in Provider : Waiting(p)' \subseteq Waiting(p)
    BY <1>1, <2>1, <2>2 DEF Waiting
  <2>4. \A i \in at[r] + 1 .. Len(queue[r]) : queue[r][i] # a
    BY <1>1 DEF Apart, Asked
  <2>5. r \notin Waiting(a)'
    BY <2>1, <2>2, <2>4 DEF Waiting
  <2>. QED
    BY <1>2, <2>3, <2>5
<1>4. CASE ~(at[r] < Len(queue[r]))
  <2>1. RequestEnds(r, "error")
    BY <1>4 DEF ProviderFails
  <2>. QED
    BY <1>2, <2>1, EndsWaiting
<1>. QED
  BY <1>3, <1>4

LEMMA InitRouter == RouterInit => RouterInv
<1>1. RouterInit => Apart /\ BelowThreshold /\ Overrun
  BY RouterAssumption DEF RouterInit, Apart, BelowThreshold, Overrun
<1>. QED
  BY <1>1, InitType DEF RouterInv

LEMMA StepApart == RouterTypeOK /\ Apart /\ [RouterNext]_routerVars => Apart'
<1>. SUFFICES ASSUME RouterTypeOK, Apart, [RouterNext]_routerVars, NEW s \in Request
              PROVE  \A i, j \in 1 .. Len(queue'[s]) : queue'[s][i] = queue'[s][j] => i = j
  BY DEF Apart
<1>1. CASE queue'[s] = queue[s]
  BY <1>1 DEF Apart
<1>2. CASE queue'[s] = <<>>
  BY <1>2
<1>3. CASE \E d \in Demands : queue'[s] \in Ranked(d)
  BY <1>3, RankedLists
<1>4. queue'[s] = queue[s] \/ queue'[s] = <<>> \/ \E d \in Demands : queue'[s] \in Ranked(d)
  <2>1. ASSUME NEW r \in Request, NEW how, RequestEnds(r, how)
        PROVE  queue'[s] = queue[s] \/ queue'[s] = <<>>
    BY <2>1 DEF RequestEnds, RouterTypeOK
  <2>2. ASSUME NEW r \in Request, NEW d \in Demands, Route(r, d)
        PROVE  queue'[s] = queue[s] \/ queue'[s] = <<>> \/ queue'[s] \in Ranked(d)
    <3>1. PICK q \in Ranked(d) : RequestEnds(r, "error") \/ queue' = [queue EXCEPT ![r] = q]
      BY <2>2 DEF Route
    <3>. QED
      BY <2>1, <3>1 DEF RouterTypeOK
  <2>. QED
    BY <2>1, <2>2 DEF RouterNext, Tick, Answers, ProviderFails, Abandon, routerVars
<1>. QED
  BY <1>1, <1>2, <1>3, <1>4

\* A new request does not wait for a provider whose circuit stays open.
LEMMA RouteWaiting ==
  ASSUME RouterTypeOK, NEW r \in Request, NEW d \in Demands, Route(r, d),
         NEW p \in Provider, health'[p].open
  PROVE  health'[p] = health[p] /\ health[p].open /\ Waiting(p)' \subseteq Waiting(p)
<1>1. health'[p] = HalfOpened(health[p]) /\ health[p] \in Health
  BY DEF Route, RouterTypeOK
<1>2. health'[p] = health[p] /\ health[p].open /\ health[p].cooling # 0
  BY <1>1, HealthOps
<1>3. p \notin Candidates(d)
  BY <1>2 DEF Candidates, Offered
<1>4. PICK q \in Ranked(d) :
        RequestEnds(r, "error") \/ (queue' = [queue EXCEPT ![r] = q] /\ at' = [at EXCEPT ![r] = 1])
  BY DEF Route
<1>5. CASE RequestEnds(r, "error")
  BY <1>2, <1>5, EndsWaiting
<1>6. CASE queue' = [queue EXCEPT ![r] = q] /\ at' = [at EXCEPT ![r] = 1]
  <2>1. \A i \in 1 .. Len(q) : q[i] # p
    BY <1>3, RankedLists
  <2>2. queue'[r] = q /\ at'[r] = 1
    BY <1>6 DEF RouterTypeOK
  <2>3. r \notin Waiting(p)'
    BY <2>1, <2>2 DEF Waiting
  <2>4. \A s \in Request \ {r} : queue'[s] = queue[s] /\ at'[s] = at[s]
    BY <1>6 DEF RouterTypeOK
  <2>. QED
    BY <1>2, <2>3, <2>4 DEF Waiting
<1>. QED
  BY <1>4, <1>5, <1>6

\* One provider, in one step.
LEMMA StepProvider ==
  ASSUME RouterInv, RouterTypeOK', [RouterNext]_routerVars, NEW p \in Provider
  PROVE  /\ ~health'[p].open => health'[p].failures < Threshold
         /\ health'[p].open => health'[p].failures + Cardinality(Waiting(p)')
                                 <= Threshold - 1 + Cardinality(Request)
<1>. DEFINE Fits(f, W) == f + Cardinality(W) <= Threshold - 1 + Cardinality(Request)
<1>1. /\ health[p] \in Health /\ health'[p] \in Health
      /\ Waiting(p) \in SUBSET Request /\ Waiting(p)' \in SUBSET Request
  BY DEF RouterInv, RouterTypeOK, Waiting
<1>2. /\ Threshold \in Nat \ {0} /\ Cardinality(Request) \in Nat
      /\ health[p].failures \in Nat /\ health'[p].failures \in Nat
      /\ Cardinality(Waiting(p)) \in Nat /\ Cardinality(Waiting(p)') \in Nat
      /\ Cardinality(Waiting(p)') <= Cardinality(Request)
  BY <1>1, RouterAssumption, FiniteWaiting DEF Health
\* The circuit and its count stay, and nobody starts to wait.
<1>a. ASSUME health'[p].open = health[p].open, health'[p].failures = health[p].failures,
             Waiting(p)' \subseteq Waiting(p)
      PROVE  /\ ~health'[p].open => health'[p].failures < Threshold
             /\ health'[p].open => Fits(health'[p].failures, Waiting(p)')
  <2>1. Cardinality(Waiting(p)') <= Cardinality(Waiting(p))
    BY <1>1, <1>a, FiniteWaiting
  <2>2. health[p].open => Fits(health[p].failures, Waiting(p))
    BY DEF RouterInv, Overrun
  <2>. QED
    BY <1>2, <1>a, <2>1, <2>2 DEF RouterInv, BelowThreshold
\* The failures are forgotten.
<1>b. ASSUME health'[p].failures = 0
      PROVE  /\ ~health'[p].open => health'[p].failures < Threshold
             /\ health'[p].open => Fits(health'[p].failures, Waiting(p)')
  BY <1>2, <1>b
<1>3. CASE UNCHANGED routerVars
  BY <1>3, <1>a DEF routerVars, Waiting
<1>4. CASE Tick
  BY <1>1, <1>4, <1>a, HealthOps DEF Tick, Waiting
<1>5. ASSUME NEW r \in Request, NEW d \in Demands, Route(r, d)
      PROVE  /\ ~health'[p].open => health'[p].failures < Threshold
             /\ health'[p].open => Fits(health'[p].failures, Waiting(p)')
  <2>1. CASE health'[p].open
    BY <1>5, <1>a, <2>1, RouteWaiting DEF RouterInv
  <2>2. CASE ~health'[p].open
    <3>1. health'[p] = HalfOpened(health[p])
      BY <1>5 DEF Route
    <3>2. health'[p].failures = 0 \/ health'[p] = health[p]
      BY <1>1, <2>2, <3>1, HealthOps
    <3>. QED
      BY <1>2, <2>2, <3>2 DEF RouterInv, BelowThreshold
  <2>. QED
    BY <2>1, <2>2
<1>6. ASSUME NEW r \in Request, Answers(r)
      PROVE  /\ ~health'[p].open => health'[p].failures < Threshold
             /\ health'[p].open => Fits(health'[p].failures, Waiting(p)')
  <2>1. health' = [health EXCEPT ![Asked(r)] = Succeeded(@)] /\ RequestEnds(r, "answer")
    BY <1>6 DEF Answers
  <2>2. CASE p = Asked(r)
    <3>1. health'[p] = Succeeded(health[p])
      BY <2>1, <2>2 DEF RouterInv, RouterTypeOK
    <3>2. Succeeded(health[p]).failures = 0
      BY <1>1, HealthOps
    <3>3. health'[p].failures = 0
      BY <3>1, <3>2
    <3>. QED
      BY <1>b, <3>3
  <2>3. CASE p # Asked(r)
    <3>1. health'[p] = health[p] /\ Waiting(p)' \subseteq Waiting(p)
      BY <2>1, <2>3, EndsWaiting DEF RouterInv, RouterTypeOK
    <3>. QED
      BY <1>a, <3>1
  <2>. QED
    BY <2>2, <2>3
<1>7. ASSUME NEW r \in Request, ProviderFails(r)
      PROVE  /\ ~health'[p].open => health'[p].failures < Threshold
             /\ health'[p].open => Fits(health'[p].failures, Waiting(p)')
  <2>1. health' = [health EXCEPT ![Asked(r)] = Failed(@)]
    BY <1>7 DEF ProviderFails
  <2>2. CASE p = Asked(r)
    <3>1. /\ health'[p].failures = health[p].failures + 1
          /\ health'[p].open <=> health[p].open \/ health[p].failures + 1 >= Threshold
      <4>1. health'[p] = Failed(health[p])
        BY <2>1, <2>2 DEF RouterInv, RouterTypeOK
      <4>2. /\ Failed(health[p]).failures = health[p].failures + 1
            /\ Failed(health[p]).open <=> health[p].open \/ health[p].failures + 1 >= Threshold
        BY <1>1, HealthOps
      <4>. QED
        BY <4>1, <4>2
    <3>2. r \in Waiting(p) /\ Waiting(p)' \subseteq Waiting(p) \ {r}
      BY <1>7, <2>2, FailsWaiting DEF RouterInv
    <3>3. /\ Cardinality(Waiting(p)') <= Cardinality(Waiting(p)) - 1
          /\ Cardinality(Waiting(p)) <= Cardinality(Request)
      BY <1>1, <3>2, FiniteWaiting
    <3>4. CASE health[p].open
      BY <1>2, <3>1, <3>3, <3>4 DEF RouterInv, Overrun
    <3>5. CASE ~health[p].open
      BY <1>2, <3>1, <3>3, <3>5 DEF RouterInv, BelowThreshold
    <3>. QED
      BY <3>4, <3>5
  <2>3. CASE p # Asked(r)
    <3>1. health'[p] = health[p]
      BY <2>1, <2>3 DEF RouterInv, RouterTypeOK
    <3>2. Asked(r) \in Provider
      BY <1>7, AskedType DEF ProviderFails, RouterInv
    <3>3. Waiting(p)' \subseteq Waiting(p)
      BY <1>7, <3>2, FailsWaiting DEF RouterInv
    <3>. QED
      BY <1>a, <3>1, <3>3
  <2>. QED
    BY <2>2, <2>3
<1>8. ASSUME NEW r \in Request, Abandon(r)
      PROVE  /\ ~health'[p].open => health'[p].failures < Threshold
             /\ health'[p].open => Fits(health'[p].failures, Waiting(p)')
  BY <1>8, <1>a, EndsWaiting DEF Abandon, RouterInv
<1>. QED
  BY <1>3, <1>4, <1>5, <1>6, <1>7, <1>8 DEF RouterNext

LEMMA StepRouter == RouterInv /\ [RouterNext]_routerVars => RouterInv'
<1>. SUFFICES ASSUME RouterInv, [RouterNext]_routerVars
              PROVE  RouterInv'
  OBVIOUS
<1>1. RouterTypeOK' /\ Apart'
  BY StepType, StepApart DEF RouterInv
<1>2. BelowThreshold' /\ Overrun'
  BY <1>1, StepProvider DEF BelowThreshold, Overrun
<1>. QED
  BY <1>1, <1>2 DEF RouterInv

(* A tripped provider is spared: it fails at most once more for each other *)
(* request that was already on its way.                                    *)
THEOREM BoundedOverrun == RouterSpec => []FailuresBounded
<1>1. RouterInv => FailuresBounded
  <2>. SUFFICES ASSUME RouterInv, NEW p \in Provider
                PROVE  health[p].failures <= Threshold - 1 + Cardinality(Request)
    BY DEF FailuresBounded
  <2>1. Waiting(p) \in SUBSET Request
    BY DEF Waiting
  <2>2. /\ Cardinality(Waiting(p)) \in Nat /\ Cardinality(Request) \in Nat
        /\ health[p].failures \in Nat /\ Threshold \in Nat
    BY <2>1, FiniteWaiting, RouterAssumption DEF RouterInv, RouterTypeOK, Health
  <2>. QED
    BY <2>2 DEF RouterInv, BelowThreshold, Overrun
<1>. QED
  BY <1>1, InitRouter, StepRouter, PTL DEF RouterSpec

-----------------------------------------------------------------------------
(* A reliable provider never trips, so every ranking lists it, and a       *)
(* request that has not reached it does not run out of candidates.         *)

Serves(p) == p \in Reliable /\ \A d \in Demands : p \in d

AnswerInv ==
  /\ RouterTypeOK
  /\ \A p \in Reliable : ~health[p].open
  /\ \A p \in Provider : Serves(p) =>
       \A r \in Request : (at[r] # 0 => r \in Waiting(p)) /\ result[r] # "error"

LEMMA StepTrust ==
  ASSUME AnswerInv, [RouterNext]_routerVars, NEW p \in Reliable
  PROVE  ~health'[p].open
<1>1. p \in Provider /\ health[p] \in Health /\ ~health[p].open
  BY RouterAssumption DEF AnswerInv, RouterTypeOK
<1>2. CASE UNCHANGED health
  BY <1>1, <1>2
<1>3. CASE Tick
  BY <1>1, <1>3, HealthOps DEF Tick
<1>4. ASSUME NEW r \in Request, NEW d \in Demands, Route(r, d)
      PROVE  ~health'[p].open
  BY <1>1, <1>4, HealthOps DEF Route
<1>5. ASSUME NEW r \in Request, Answers(r)
      PROVE  ~health'[p].open
  BY <1>1, <1>5, HealthOps DEF Answers, AnswerInv, RouterTypeOK
<1>6. ASSUME NEW r \in Request, ProviderFails(r)
      PROVE  ~health'[p].open
  BY <1>1, <1>6 DEF ProviderFails, AnswerInv, RouterTypeOK
<1>. QED
  BY <1>2, <1>3, <1>4, <1>5, <1>6 DEF RouterNext, Abandon, routerVars

LEMMA StepServed ==
  ASSUME AnswerInv, [RouterNext]_routerVars, NEW p \in Provider, Serves(p), NEW s \in Request
  PROVE  (at'[s] # 0 => s \in Waiting(p)') /\ result'[s] # "error"
<1>0. /\ at[s] \in Nat /\ queue[s] \in Seq(Provider) /\ Len(queue[s]) \in Nat
      /\ at[s] # 0 => s \in Waiting(p)
      /\ result[s] # "error"
  BY LenProperties DEF AnswerInv, RouterTypeOK
\* The request is not touched.
<1>a. ASSUME at'[s] = at[s], queue'[s] = queue[s], result'[s] = result[s]
      PROVE  (at'[s] # 0 => s \in Waiting(p)') /\ result'[s] # "error"
  BY <1>0, <1>a DEF Waiting
\* It ends, but not in an error.
<1>b. ASSUME NEW r \in Request, NEW how \in {"none", "answer"}, RequestEnds(r, how)
      PROVE  (at'[s] # 0 => s \in Waiting(p)') /\ result'[s] # "error"
  BY <1>b, <1>a DEF RequestEnds, AnswerInv, RouterTypeOK
<1>1. CASE UNCHANGED routerVars \/ Tick
  BY <1>1, <1>a DEF routerVars, Tick
<1>2. ASSUME NEW r \in Request, NEW d \in Demands, Route(r, d)
      PROVE  (at'[s] # 0 => s \in Waiting(p)') /\ result'[s] # "error"
  <2>1. p \in Candidates(d)
    BY DEF Candidates, Offered, Serves, AnswerInv
  <2>2. PICK q \in Ranked(d) :
          IF q = <<>> THEN RequestEnds(r, "error")
          ELSE /\ queue'  = [queue EXCEPT ![r] = q]
               /\ at'     = [at EXCEPT ![r] = 1]
               /\ result' = [result EXCEPT ![r] = "none"]
    BY <1>2 DEF Route
  <2>3. PICK i \in 1 .. Len(q) : q[i] = p
    BY <2>1, RankedLists
  <2>4. q # <<>>
    BY <2>3
  <2>5. CASE s = r
    <3>1. at'[s] = 1 /\ queue'[s] = q /\ result'[s] = "none"
      BY <2>2, <2>4, <2>5 DEF AnswerInv, RouterTypeOK
    <3>. QED
      BY <2>3, <3>1 DEF Waiting
  <2>6. CASE s # r
    BY <1>a, <2>2, <2>4, <2>6 DEF AnswerInv, RouterTypeOK
  <2>. QED
    BY <2>5, <2>6
<1>3. ASSUME NEW r \in Request, Answers(r) \/ Abandon(r)
      PROVE  (at'[s] # 0 => s \in Waiting(p)') /\ result'[s] # "error"
  BY <1>3, <1>b DEF Answers, Abandon
<1>4. ASSUME NEW r \in Request, ProviderFails(r)
      PROVE  (at'[s] # 0 => s \in Waiting(p)') /\ result'[s] # "error"
  <2>1. at[r] # 0 /\ Asked(r) # p
    BY <1>4 DEF ProviderFails, Serves
  <2>2. at[r] \in Nat /\ Len(queue[r]) \in Nat /\ r \in Waiting(p)
    BY <2>1, LenProperties DEF AnswerInv, RouterTypeOK
  <2>3. PICK i \in at[r] .. Len(queue[r]) : queue[r][i] = p
    BY <2>2 DEF Waiting
  <2>4. i # at[r]
    BY <2>1, <2>3 DEF Asked
  <2>5. i \in at[r] + 1 .. Len(queue[r]) /\ at[r] < Len(queue[r])
    BY <2>2, <2>3, <2>4
  <2>6. at' = [at EXCEPT ![r] = @ + 1] /\ queue' = queue /\ result' = result
    BY <1>4, <2>5 DEF ProviderFails
  <2>7. CASE s = r
    <3>1. at'[s] = at[r] + 1
      BY <2>6, <2>7 DEF AnswerInv, RouterTypeOK
    <3>. QED
      BY <1>0, <2>3, <2>5, <2>6, <2>7, <3>1 DEF Waiting
  <2>8. CASE s # r
    BY <1>a, <2>6, <2>8 DEF AnswerInv, RouterTypeOK
  <2>. QED
    BY <2>7, <2>8
<1>. QED
  BY <1>1, <1>2, <1>3, <1>4 DEF RouterNext

(* One reliable provider that serves every demand is enough: no request    *)
(* ends in an error, whatever the strategy and the state of the others.    *)
THEOREM Fallback == RouterSpec => []AlwaysAnswered
<1>1. RouterInit => AnswerInv
  <2>1. RouterInit => RouterTypeOK
    BY InitType
  <2>. QED
    BY <2>1, RouterAssumption DEF RouterInit, AnswerInv
<1>2. AnswerInv /\ [RouterNext]_routerVars => AnswerInv'
  <2>1. AnswerInv /\ [RouterNext]_routerVars => RouterTypeOK'
    BY StepType DEF AnswerInv
  <2>. QED
    BY <2>1, StepTrust, StepServed DEF AnswerInv, Serves
<1>3. AnswerInv => AlwaysAnswered
  BY RouterAssumption DEF AnswerInv, AlwaysAnswered, Serves
<1>. QED
  BY <1>1, <1>2, <1>3, PTL DEF RouterSpec

-----------------------------------------------------------------------------
(* AgentChain: lists.                                                                  *)

\* Of the intervals 1 .. i with i in S, one contains no other.
LEMMA Least ==
  ASSUME NEW S \in SUBSET Nat, S # {}
  PROVE  \E m \in S : \A i \in S : m <= i
<1> DEFINE B == {1 .. i : i \in S}
<1>1. B \subseteq FiniteSubsetsOf(Nat) /\ B # {}
  <2>1. ASSUME NEW i \in S PROVE 1 .. i \in FiniteSubsetsOf(Nat)
    <3>1. IsFiniteSet(1 .. i) /\ 1 .. i \subseteq Nat
      BY FS_Interval
    <3> QED
      BY <3>1 DEF FiniteSubsetsOf
  <2> QED
    BY <2>1
<1>2. PICK b \in B : \A a \in B : ~(<<a, b>> \in StrictSubsetOrdering(Nat))
  <2> HIDE DEF B
  <2> QED
    BY <1>1, WFMin, FS_StrictSubsetOrderingWellFounded, Zenon
<1>3. PICK x \in S : b = 1 .. x
  OBVIOUS
<1>4. ASSUME NEW i \in S, i < x PROVE FALSE
  <2>1. 1 .. i \in B
    OBVIOUS
  <2>2. x \in 1 .. x /\ x \notin 1 .. i /\ 1 .. i \subseteq 1 .. x /\ 1 .. x \subseteq Nat
    BY <1>4
  <2>3. <<1 .. i, 1 .. x>> \in StrictSubsetOrdering(Nat)
    <3>1. 1 .. i # 1 .. x
      BY <2>2, Zenon
    <3> QED
      BY <2>2, <3>1, Zenon DEF StrictSubsetOrdering
  <2> QED
    BY <1>2, <1>3, <2>1, <2>3
<1> QED
  BY <1>4

\* The first number at which something goes wrong.
LEMMA FirstWrong ==
  ASSUME NEW n \in Nat, NEW G, 0 \in G, n \notin G
  PROVE  \E m \in 1 .. n : m \notin G /\ m - 1 \in G
<1> DEFINE T == {i \in 0 .. n : i \notin G}
<1>1. T \in SUBSET Nat /\ T # {}
  OBVIOUS
<1>2. PICK m \in T : \A i \in T : m <= i
  <2> HIDE DEF T
  <2> QED
    BY <1>1, Least
<1>3. m \in 1 .. n /\ m \notin G
  OBVIOUS
<1>4. m - 1 \notin T /\ m - 1 \in 0 .. n
  BY <1>2, <1>3
<1> QED
  BY <1>3, <1>4

\* The lists that FlattenSeq concatenates, one after the other.
Flattening(s, f, n) == [i \in 1 .. n |-> IF i = 1 THEN s[i] ELSE f[i - 1] \o s[i]]

LEMMA FlattensTo ==
  ASSUME NEW s, NEW n \in Nat
  PROVE  \E f : f = Flattening(s, f, n)
<1> DEFINE G == {m \in Nat : \E f : f = Flattening(s, f, m)}
<1>1. 0 \in G
  <2> DEFINE f == [i \in 1 .. 0 |-> 0]
  <2>1. f = Flattening(s, f, 0)
    BY DEF Flattening
  <2> QED
    BY <2>1
<1>2. SUFFICES ASSUME n \notin G PROVE FALSE
  OBVIOUS
<1>3. PICK m \in 1 .. n : m \notin G /\ m - 1 \in G
  <2> HIDE DEF G
  <2> QED
    BY <1>1, <1>2, FirstWrong
<1>4. PICK f : f = Flattening(s, f, m - 1)
  BY <1>3
<1> DEFINE g == [i \in 1 .. m |-> IF i < m THEN f[i] ELSE IF m = 1 THEN s[m] ELSE f[m - 1] \o s[m]]
<1>5. ASSUME NEW i \in 1 .. m PROVE g[i] = IF i = 1 THEN s[i] ELSE g[i - 1] \o s[i]
  <2>1. CASE i < m
    <3>1. i \in 1 .. m - 1
      BY <2>1
    <3>2. f[i] = IF i = 1 THEN s[i] ELSE f[i - 1] \o s[i]
      BY <1>4, <3>1 DEF Flattening
    <3>3. i # 1 => g[i - 1] = f[i - 1]
      BY <2>1
    <3> QED
      BY <2>1, <3>2, <3>3
  <2>2. CASE i = m
    <3>1. i # 1 => g[i - 1] = f[i - 1]
      BY <2>2
    <3> QED
      BY <2>2, <3>1
  <2> QED
    BY <2>1, <2>2
<1>6. g = Flattening(s, g, m)
  BY <1>5 DEF Flattening
<1>7. m \in G
  BY <1>6
<1> QED
  BY <1>3, <1>7

LEMMA ConcatIs ==
  ASSUME NEW S, NEW a \in Seq(S), NEW b \in Seq(S)
  PROVE  a \o b \in Seq(S) /\ ToSet(a \o b) = ToSet(a) \cup ToSet(b)
<1>1. ToSet(a \o b) = Range(a \o b) /\ ToSet(a) = Range(a) /\ ToSet(b) = Range(b)
  BY DEF ToSet, Range
<1> QED
  BY <1>1, RangeConcatenation

LEMMA FlattenIs ==
  ASSUME NEW S, NEW s \in Seq(Seq(S))
  PROVE  /\ FlattenSeq(s) \in Seq(S)
         /\ ToSet(FlattenSeq(s)) = UNION {ToSet(s[k]) : k \in DOMAIN s}
<1> DEFINE n == Len(s)
           F == CHOOSE f : f = Flattening(s, f, n)
<1>1. n \in Nat /\ DOMAIN s = 1 .. n /\ \A k \in 1 .. n : s[k] \in Seq(S)
  OBVIOUS
<1>2. F = Flattening(s, F, n)
  <2> HIDE DEF n
  <2> QED
    BY <1>1, FlattensTo
<1>3. FlattenSeq(s) = IF n = 0 THEN s ELSE F[n]
  BY DEF FlattenSeq, Flattening
<1> HIDE DEF F, n
<1> DEFINE G == {m \in 0 .. n : m > 0 => /\ F[m] \in Seq(S)
                                          /\ ToSet(F[m]) = UNION {ToSet(s[k]) : k \in 1 .. m}}
<1>4. 0 \in G
  BY <1>1
<1>5. n \in G
  <2> SUFFICES ASSUME n \notin G PROVE FALSE
    OBVIOUS
  <2>1. PICK m \in 1 .. n : m \notin G /\ m - 1 \in G
    <3> HIDE DEF G
    <3> QED
      BY <1>1, <1>4, FirstWrong
  <2>2. F[m] = IF m = 1 THEN s[m] ELSE F[m - 1] \o s[m]
    BY <1>1, <1>2 DEF Flattening
  <2>3. CASE m = 1
    <3>1. UNION {ToSet(s[k]) : k \in 1 .. m} = ToSet(s[m])
      BY <2>3
    <3> QED
      BY <1>1, <2>1, <2>2, <2>3, <3>1
  <2>4. CASE m # 1
    <3>1. /\ F[m - 1] \in Seq(S) /\ s[m] \in Seq(S)
          /\ ToSet(F[m - 1]) = UNION {ToSet(s[k]) : k \in 1 .. m - 1}
      BY <1>1, <2>1, <2>4
    <3>2. F[m] \in Seq(S) /\ ToSet(F[m]) = ToSet(F[m - 1]) \cup ToSet(s[m])
      BY <2>2, <2>4, <3>1, ConcatIs
    <3>3. UNION {ToSet(s[k]) : k \in 1 .. m} = (UNION {ToSet(s[k]) : k \in 1 .. m - 1}) \cup ToSet(s[m])
      <4>1. 1 .. m = (1 .. m - 1) \cup {m}
        BY <1>1
      <4> QED
        BY <4>1
    <3>4. F[m] \in Seq(S) /\ ToSet(F[m]) = UNION {ToSet(s[k]) : k \in 1 .. m}
      BY <3>1, <3>2, <3>3, Zenon
    <3> QED
      BY <1>1, <2>1, <3>4
  <2> QED
    BY <2>3, <2>4
<1>6. CASE n = 0
  <2>1. s = <<>> /\ DOMAIN s = {}
    BY <1>1, <1>6 DEF n
  <2> QED
    BY <1>3, <1>6, <2>1 DEF ToSet
<1>7. CASE n # 0
  BY <1>1, <1>3, <1>5, <1>7
<1> QED
  BY <1>6, <1>7

LEMMA KeptIs ==
  ASSUME NEW S, NEW q \in Seq(S), NEW I
  PROVE  /\ Kept(q, I) \in Seq(S)
         /\ ToSet(Kept(q, I)) = {q[k] : k \in DOMAIN q \cap I}
<1> DEFINE s == [k \in DOMAIN q |-> IF k \in I THEN <<q[k]>> ELSE <<>>]
<1>1. DOMAIN q = 1 .. Len(q) /\ Len(q) \in Nat
  OBVIOUS
<1>2. \A k \in DOMAIN q : s[k] \in Seq(S)
  OBVIOUS
<1>3. s \in Seq(Seq(S)) /\ DOMAIN s = DOMAIN q
  BY <1>1, <1>2, IsASeq
<1>4. \A k \in DOMAIN q : ToSet(s[k]) = IF k \in I THEN {q[k]} ELSE {}
  BY DEF ToSet
<1>5. Kept(q, I) = FlattenSeq(s)
  BY DEF Kept
<1> HIDE DEF s
<1>6. FlattenSeq(s) \in Seq(S) /\ ToSet(FlattenSeq(s)) = UNION {ToSet(s[k]) : k \in DOMAIN s}
  BY <1>3, FlattenIs
<1>7. UNION {ToSet(s[k]) : k \in DOMAIN s} = {q[k] : k \in DOMAIN q \cap I}
  BY <1>3, <1>4
<1> QED
  BY <1>5, <1>6, <1>7

-----------------------------------------------------------------------------
(* Paths and levels.                                                       *)

LEMMA PathIs ==
  ASSUME NEW cfg, NEW p \in Paths(cfg)
  PROVE  /\ p \in Seq(Agent) /\ Len(p) \in 1 .. Cardinality(Agent) /\ DOMAIN p = 1 .. Len(p)
         /\ p[1] = Root /\ Last(p) \in Agent
         /\ \A j, k \in 1 .. Len(p) : p[j] = p[k] => j = k
         /\ \A k \in 1 .. Len(p) - 1 :
              HasChain(cfg, p[k]) /\ \E l \in ToSet(cfg[p[k]].links) : l.agent = p[k + 1]
<1>1. PICK n \in 1 .. Cardinality(Agent) : p \in [1 .. n -> Agent]
  BY DEF Paths
<1>2. Cardinality(Agent) \in Nat
  BY ChainAssumption, FS_CardinalityType
<1>3. n \in Nat /\ n >= 1
  BY <1>2
<1>4. p \in Seq(Agent) /\ Len(p) = n /\ DOMAIN p = 1 .. n
  BY <1>1, <1>3
<1>5. Last(p) \in Agent
  BY <1>1, <1>3, <1>4 DEF Last
<1> QED
  BY <1>3, <1>4, <1>5 DEF Paths

LEMMA PathIntro ==
  ASSUME NEW cfg, NEW p \in Seq(Agent), Len(p) >= 1,
         p[1] = Root,
         \A j, k \in 1 .. Len(p) : p[j] = p[k] => j = k,
         \A k \in 1 .. Len(p) - 1 :
           HasChain(cfg, p[k]) /\ \E l \in ToSet(cfg[p[k]].links) : l.agent = p[k + 1]
  PROVE  p \in Paths(cfg)
<1> DEFINE n == Len(p)
<1>1. n \in Nat /\ p \in [1 .. n -> Agent] /\ DOMAIN p = 1 .. n
  OBVIOUS
<1>2. p \in Injection(1 .. n, Agent)
  BY <1>1 DEF Injection, IsInjective
<1>3. n <= Cardinality(Agent)
  <2>1. IsFiniteSet(1 .. n) /\ Cardinality(1 .. n) = n
    BY <1>1, FS_Interval
  <2> HIDE DEF n
  <2>2. Cardinality(1 .. n) <= Cardinality(Agent)
    BY <1>2, ChainAssumption, FS_Injection
  <2> QED
    BY <2>1, <2>2
<1>4. Cardinality(Agent) \in Nat
  BY ChainAssumption, FS_CardinalityType
<1>5. n \in 1 .. Cardinality(Agent)
  BY <1>1, <1>3, <1>4
<1> QED
  BY <1>1, <1>5 DEF Paths

\* A configuration whose chain compiles.
Compiles(cfg) == cfg \in Configs /\ ~Raises(cfg)

LEMMA ConfigIs ==
  ASSUME NEW cfg, Compiles(cfg), NEW p \in Expansions(cfg)
  PROVE  /\ p \in Paths(cfg) /\ HasChain(cfg, Last(p))
         /\ Len(p) <= cfg[Root].max_depth
         /\ cfg[Last(p)].links \in Seq(Link) /\ Parses(cfg[Last(p)])
         /\ \A l \in ToSet(cfg[Last(p)].links) : l \in Link /\ l.agent \in Agent /\ l.agent \notin ToSet(p)
<1>1. p \in Paths(cfg) /\ HasChain(cfg, Last(p)) /\ Last(p) \in Agent
  BY PathIs DEF Expansions
<1>2. IsChain(cfg[Last(p)])
  BY <1>1, ChainAssumption DEF Compiles, HasChain
<1>3. cfg[Last(p)].links \in Seq(Link)
  BY <1>2 DEF IsChain
<1>4. \A l \in ToSet(cfg[Last(p)].links) : l \in Link
  BY <1>3 DEF ToSet
<1>5. \A l \in Link : l.agent \in Agent
  BY DEF Link
<1>6. /\ ~(Len(p) > cfg[Root].max_depth) /\ Parses(cfg[Last(p)])
      /\ \A l \in ToSet(cfg[Last(p)].links) : l.agent \notin ToSet(p)
  BY DEF Compiles, Raises
<1>7. Len(p) <= cfg[Root].max_depth
  <2>1. IsChain(cfg[Root])
    BY ChainAssumption DEF Compiles
  <2>2. cfg[Root].max_depth \in Nat /\ Len(p) \in Nat
    BY <1>1, <2>1, PathIs DEF IsChain
  <2> QED
    BY <1>6, <2>2
<1> QED
  BY <1>1, <1>3, <1>4, <1>5, <1>6, <1>7

LEMMA RootExpands ==
  ASSUME NEW cfg \in Configs
  PROVE  <<Root>> \in Expansions(cfg)
<1> DEFINE p == <<Root>>
<1>1. p \in Seq(Agent) /\ Len(p) = 1 /\ p[1] = Root
  BY ChainAssumption
<1>2. p \in Paths(cfg)
  <2> HIDE DEF p
  <2>1. \A j, k \in 1 .. Len(p) : p[j] = p[k] => j = k
    BY <1>1
  <2>2. (\A k \in 1 .. Len(p) - 1 : FALSE) /\ Len(p) >= 1
    BY <1>1
  <2> QED
    BY <1>1, <2>1, <2>2, PathIntro
<1>3. HasChain(cfg, Last(p))
  BY <1>1, ChainAssumption DEF HasChain, Last
<1> QED
  BY <1>2, <1>3 DEF Expansions

LEMMA AppendIs ==
  ASSUME NEW S, NEW p \in Seq(S), NEW a \in S
  PROVE  /\ Append(p, a) \in Seq(S) /\ Len(Append(p, a)) = Len(p) + 1
         /\ \A k \in 1 .. Len(p) : Append(p, a)[k] = p[k]
         /\ Append(p, a)[Len(p) + 1] = a /\ Last(Append(p, a)) = a
         /\ Front(Append(p, a)) = p
<1>1. /\ Append(p, a) \in Seq(S) /\ Len(Append(p, a)) = Len(p) + 1
      /\ \A k \in 1 .. Len(p) : Append(p, a)[k] = p[k]
      /\ Append(p, a)[Len(p) + 1] = a
  OBVIOUS
<1>2. Last(Append(p, a)) = a
  BY <1>1 DEF Last
<1> DEFINE q == Append(p, a)
<1>3. Len(p) \in Nat /\ (Len(p) + 1) - 1 = Len(p)
  OBVIOUS
<1>4. Front(q) = SubSeq(q, 1, Len(p))
  BY <1>1, <1>3 DEF Front
<1> HIDE DEF q
<1>5. Front(q) \in Seq(S) /\ Len(Front(q)) = Len(p) /\ \A k \in 1 .. Len(p) : Front(q)[k] = q[k]
  BY <1>1, <1>3, <1>4 DEF q
<1>6. \A k \in 1 .. Len(p) : Front(q)[k] = p[k]
  BY <1>1, <1>5 DEF q
<1>7. Front(q) = p
  BY <1>5, <1>6, SeqEqual
<1> QED
  BY <1>1, <1>2, <1>7 DEF q

\* A link leads on from a path to a path.
LEMMA PathGoesOn ==
  ASSUME NEW cfg, Compiles(cfg), NEW p \in Expansions(cfg), NEW l \in ToSet(cfg[Last(p)].links)
  PROVE  Append(p, l.agent) \in Paths(cfg)
<1> DEFINE q == Append(p, l.agent)
<1>1. /\ p \in Paths(cfg) /\ HasChain(cfg, Last(p)) /\ l.agent \in Agent /\ l.agent \notin ToSet(p)
  BY ConfigIs
<1>2. /\ p \in Seq(Agent) /\ Len(p) \in Nat /\ Len(p) >= 1 /\ DOMAIN p = 1 .. Len(p) /\ p[1] = Root
      /\ \A j, k \in 1 .. Len(p) : p[j] = p[k] => j = k
      /\ \A k \in 1 .. Len(p) - 1 :
           HasChain(cfg, p[k]) /\ \E m \in ToSet(cfg[p[k]].links) : m.agent = p[k + 1]
  BY <1>1, PathIs
<1>3. /\ q \in Seq(Agent) /\ Len(q) = Len(p) + 1
      /\ \A k \in 1 .. Len(p) : q[k] = p[k]
      /\ q[Len(p) + 1] = l.agent
  BY <1>1, <1>2, AppendIs
<1>4. \A k \in 1 .. Len(p) : p[k] # l.agent
  BY <1>1, <1>2 DEF ToSet
<1> HIDE DEF q
<1>5. ASSUME NEW j \in 1 .. Len(q), NEW k \in 1 .. Len(q), q[j] = q[k] PROVE j = k
  <2>1. CASE j <= Len(p) /\ k <= Len(p)
    BY <1>2, <1>3, <1>5, <2>1
  <2>2. CASE j = Len(p) + 1 /\ k <= Len(p)
    BY <1>2, <1>3, <1>4, <1>5, <2>2
  <2>3. CASE k = Len(p) + 1 /\ j <= Len(p)
    BY <1>2, <1>3, <1>4, <1>5, <2>3
  <2>4. CASE j = Len(p) + 1 /\ k = Len(p) + 1
    BY <2>4
  <2> QED
    BY <1>2, <1>3, <2>1, <2>2, <2>3, <2>4
<1>6. ASSUME NEW k \in 1 .. Len(q) - 1
      PROVE  HasChain(cfg, q[k]) /\ \E m \in ToSet(cfg[q[k]].links) : m.agent = q[k + 1]
  <2>1. k \in 1 .. Len(p) /\ q[k] = p[k]
    BY <1>2, <1>3
  <2>2. CASE k < Len(p)
    <3>1. k \in 1 .. Len(p) - 1 /\ k + 1 \in 1 .. Len(p)
      BY <1>2, <2>1, <2>2
    <3>2. q[k + 1] = p[k + 1]
      BY <1>3, <3>1
    <3> QED
      BY <1>2, <2>1, <3>1, <3>2
  <2>3. CASE k = Len(p)
    <3>1. q[k] = Last(p) /\ q[k + 1] = l.agent
      BY <1>3, <2>1, <2>3 DEF Last
    <3> QED
      BY <1>1, <3>1
  <2>4. k < Len(p) \/ k = Len(p)
    <3>1. Len(p) \in Nat
      BY <1>2
    <3> QED
      BY <2>1, <3>1
  <2> QED
    BY <2>2, <2>3, <2>4
<1>7. Len(q) >= 1 /\ q[1] = Root
  BY <1>2, <1>3
<1>8. q \in Paths(cfg)
  BY <1>3, <1>5, <1>6, <1>7, PathIntro
<1> QED
  BY <1>8 DEF q

\* A path that is longer came from the path before it, by a link.
LEMMA PathCameFrom ==
  ASSUME NEW cfg, NEW q \in Paths(cfg), Len(q) >= 2
  PROVE  \E p \in Expansions(cfg) :
           /\ Len(p) = Len(q) - 1
           /\ \E l \in ToSet(cfg[Last(p)].links) : q = Append(p, l.agent)
<1> DEFINE n == Len(q) - 1
           p == [k \in 1 .. n |-> q[k]]
<1>1. /\ q \in Seq(Agent) /\ Len(q) \in Nat /\ DOMAIN q = 1 .. Len(q) /\ q[1] = Root
      /\ \A j, k \in 1 .. Len(q) : q[j] = q[k] => j = k
      /\ \A k \in 1 .. Len(q) - 1 :
           HasChain(cfg, q[k]) /\ \E l \in ToSet(cfg[q[k]].links) : l.agent = q[k + 1]
  BY PathIs
<1>2. n \in Nat /\ n >= 1 /\ n + 1 = Len(q) /\ n = Len(q) - 1
  BY <1>1
<1>3. \A k \in 1 .. n : k \in 1 .. Len(q) /\ q[k] \in Agent
  BY <1>1, <1>2
<1>4. p \in Seq(Agent) /\ Len(p) = n /\ (\A k \in 1 .. n : p[k] = q[k])
  <2> HIDE DEF n
  <2> QED
    BY <1>2, <1>3, IsASeq
<1> HIDE DEF p, n
<1>5. p \in Paths(cfg)
  <2>1. Len(p) >= 1 /\ p[1] = Root
    BY <1>1, <1>2, <1>4
  <2>2. \A j, k \in 1 .. Len(p) : p[j] = p[k] => j = k
    BY <1>1, <1>3, <1>4
  <2>3. ASSUME NEW k \in 1 .. Len(p) - 1
        PROVE  HasChain(cfg, p[k]) /\ \E l \in ToSet(cfg[p[k]].links) : l.agent = p[k + 1]
    <3>1. k \in 1 .. n /\ k + 1 \in 1 .. n /\ k \in 1 .. Len(q) - 1
      BY <1>1, <1>2, <1>4
    <3> QED
      BY <1>1, <1>4, <3>1
  <2> QED
    BY <1>4, <2>1, <2>2, <2>3, PathIntro
<1>6. Last(p) = q[n] /\ n \in 1 .. Len(q) - 1
  BY <1>1, <1>2, <1>4 DEF Last
<1>7. HasChain(cfg, Last(p))
  BY <1>1, <1>6
<1>8. PICK l \in ToSet(cfg[Last(p)].links) : l.agent = q[n + 1]
  BY <1>1, <1>6
<1>9. q = Append(p, l.agent)
  <2>1. l.agent \in Agent
    BY <1>1, <1>2, <1>8
  <2>2. /\ Append(p, l.agent) \in Seq(Agent) /\ Len(Append(p, l.agent)) = n + 1
        /\ \A k \in 1 .. n : Append(p, l.agent)[k] = p[k]
        /\ Append(p, l.agent)[n + 1] = l.agent
    BY <1>4, <2>1, AppendIs
  <2>3. \A k \in 1 .. Len(q) : q[k] = Append(p, l.agent)[k]
    BY <1>1, <1>2, <1>4, <1>8, <2>2
  <2>4. q \in Seq(Agent) /\ Len(q) = n + 1
    BY <1>1, <1>2
  <2> QED
    BY <2>2, <2>3, <2>4, SeqEqual
<1>10. Len(p) = Len(q) - 1
  BY <1>1, <1>2, <1>4
<1> QED
  BY <1>5, <1>7, <1>8, <1>9, <1>10 DEF Expansions

\* The links of a chain, told apart.
LEMMA LinksAre ==
  ASSUME NEW c, c.links \in Seq(Link), Parses(c)
  PROVE  /\ Normals(c) \in Seq(Link) /\ Defaults(c) \in Seq(Link) /\ Guarded(c) \in Seq(Link)
         /\ ToSet(Normals(c)) = {l \in ToSet(c.links) : ~l.default}
         /\ ToSet(Defaults(c)) = {l \in ToSet(c.links) : l.default}
         /\ ToSet(Guarded(c)) = {l \in ToSet(c.links) : ~l.default /\ l.when # "none"}
         /\ \A l \in ToSet(c.links) : l.default => l.when = "none"
         /\ ToSet(c.links) \subseteq Link
         /\ Followed(c) \in Seq(Link) /\ ToSet(Followed(c)) = ToSet(c.links)
<1> DEFINE q == c.links
<1>1. q \in Seq(Link) /\ \A I : Kept(q, I) \in Seq(Link) /\ ToSet(Kept(q, I)) = {q[k] : k \in DOMAIN q \cap I}
  BY KeptIs
<1>2. ToSet(Normals(c)) = {l \in ToSet(q) : ~l.default}
  <2> DEFINE I == {k \in DOMAIN q : ~q[k].default}
  <2>1. ToSet(Kept(q, I)) = {q[k] : k \in DOMAIN q \cap I}
    BY KeptIs
  <2>2. {q[k] : k \in DOMAIN q \cap I} = {l \in ToSet(q) : ~l.default}
    BY DEF ToSet
  <2> QED
    BY <2>1, <2>2 DEF Normals
<1>3. ToSet(Defaults(c)) = {l \in ToSet(q) : l.default}
  <2> DEFINE I == {k \in DOMAIN q : q[k].default}
  <2>1. ToSet(Kept(q, I)) = {q[k] : k \in DOMAIN q \cap I}
    BY KeptIs
  <2>2. {q[k] : k \in DOMAIN q \cap I} = {l \in ToSet(q) : l.default}
    BY DEF ToSet
  <2> QED
    BY <2>1, <2>2 DEF Defaults
<1>4. ToSet(Guarded(c)) = {l \in ToSet(q) : ~l.default /\ l.when # "none"}
  <2> DEFINE I == {k \in DOMAIN q : ~q[k].default /\ q[k].when # "none"}
  <2>1. ToSet(Kept(q, I)) = {q[k] : k \in DOMAIN q \cap I}
    BY KeptIs
  <2>2. {q[k] : k \in DOMAIN q \cap I} = {l \in ToSet(q) : ~l.default /\ l.when # "none"}
    BY DEF ToSet
  <2> QED
    BY <2>1, <2>2 DEF Guarded
<1>5. Normals(c) \in Seq(Link) /\ Defaults(c) \in Seq(Link) /\ Guarded(c) \in Seq(Link)
  BY <1>1 DEF Normals, Defaults, Guarded
<1>6. ToSet(q) \subseteq Link
  BY <1>1 DEF ToSet
<1>7. \A l \in ToSet(q) : l.default => l.when = "none"
  BY DEF Parses
<1>8. Followed(c) \in Seq(Link) /\ ToSet(Followed(c)) = ToSet(q)
  <2>1. Followed(c) \in Seq(Link) /\ ToSet(Followed(c)) = ToSet(Normals(c)) \cup ToSet(Defaults(c))
    BY <1>5, ConcatIs DEF Followed
  <2> QED
    BY <1>2, <1>3, <2>1
<1> QED
  BY <1>2, <1>3, <1>4, <1>5, <1>6, <1>7, <1>8

\* The steps that run an agent: by themselves or in a fan-out.
AgentSteps(q) == {s \in ToSet(q) : s.branches = <<>>} \cup UNION {ToSet(s.branches) : s \in ToSet(q)}

\* The steps of one chain that run an agent.
LinkSteps(c, p) ==
  {AStep(l, p) : l \in ToSet(Normals(c))} \cup {DefaultStep(l, c, p) : l \in ToSet(Defaults(c))}

\* The branches of its fan-out.
Subs(c, p) == [k \in DOMAIN Normals(c) |-> AStep(Normals(c)[k], p)]

IsFanout(s, c, p) == s = FanoutStep(p, Subs(c, p)) /\ Subs(c, p) # <<>>

LEMMA StepFields ==
  ASSUME NEW l, NEW p, NEW c, NEW subs
  PROVE  /\ AStep(l, p).branches = <<>> /\ DefaultStep(l, c, p).branches = <<>>
         /\ RootStep.branches = <<>> /\ FanoutStep(p, subs).branches = subs
         /\ AStep(l, p).name = <<Last(p), l.agent>> /\ DefaultStep(l, c, p).name = <<Last(p), l.agent>>
         /\ RootStep.name = <<Root>> /\ FanoutStep(p, subs).name = <<Last(p), Fanout>>
         /\ AStep(l, p).path = Append(p, l.agent) /\ DefaultStep(l, c, p).path = Append(p, l.agent)
         /\ RootStep.path = <<Root>>
         /\ AStep(l, p).negates = <<>> /\ DefaultStep(l, c, p).negates = GuardNames(c, p)
         /\ RootStep.negates = <<>>
         /\ AStep(l, p).when = Rebind(l.when, Last(p)) /\ DefaultStep(l, c, p).when = Rebind(l.when, Last(p))
         /\ AStep(l, p).input = Rebind(l.input, Last(p)) /\ DefaultStep(l, c, p).input = Rebind(l.input, Last(p))
         /\ RootStep.when = Rebind("none", Root) /\ RootStep.input = Rebind("trigger", Root)
         /\ RootStep.on_error = "stop"
         /\ AStep(l, p).on_error = l.on_error /\ DefaultStep(l, c, p).on_error = l.on_error
BY DEF AStep, DefaultStep, RootStep, FanoutStep

\* q, as the list of what it holds.
LEMMA FunctionIsList ==
  ASSUME NEW n \in Nat, NEW S, NEW f \in [1 .. n -> S]
  PROVE  f \in Seq(S) /\ Len(f) = n /\ ToSet(f) = {f[i] : i \in 1 .. n}
<1>1. f \in Seq(S) /\ Len(f) = n /\ DOMAIN f = 1 .. n
  OBVIOUS
<1> QED
  BY <1>1 DEF ToSet

LEMMA LevelIs ==
  ASSUME NEW c, c.links \in Seq(Link), Parses(c), NEW p
  PROVE  /\ Level(c, p) \in Seq(ToSet(Level(c, p)))
         /\ AgentSteps(Level(c, p)) = LinkSteps(c, p)
         /\ \A s \in ToSet(Level(c, p)) : s \in LinkSteps(c, p) \/ IsFanout(s, c, p)
<1> DEFINE n == Normals(c)
           d == Defaults(c)
           subs == [k \in DOMAIN n |-> AStep(n[k], p)]
           rest == [k \in DOMAIN d |-> DefaultStep(d[k], c, p)]
           fan == c.mode = "parallel" /\ subs # <<>>
           head == IF fan THEN <<FanoutStep(p, subs)>> ELSE subs
           S == {AStep(l, p) : l \in ToSet(n)} \cup {FanoutStep(p, subs)} \cup {DefaultStep(l, c, p) : l \in ToSet(d)}
<1>1. n \in Seq(Link) /\ d \in Seq(Link)
  BY LinksAre
<1>2. /\ Len(n) \in Nat /\ DOMAIN n = 1 .. Len(n) /\ Len(d) \in Nat /\ DOMAIN d = 1 .. Len(d)
      /\ (\A k \in DOMAIN n : n[k] \in ToSet(n)) /\ (\A k \in DOMAIN d : d[k] \in ToSet(d))
  BY <1>1 DEF ToSet
<1>3. subs \in Seq(S) /\ ToSet(subs) = {AStep(l, p) : l \in ToSet(n)}
  <2>1. subs = [k \in 1 .. Len(n) |-> subs[k]] /\ \A k \in 1 .. Len(n) : subs[k] = AStep(n[k], p)
    BY <1>2
  <2>2. \A k \in 1 .. Len(n) : subs[k] \in S
    BY <1>2, <2>1
  <2> HIDE DEF subs, S, n
  <2>3. subs \in [1 .. Len(n) -> S]
    BY <2>1, <2>2
  <2>4. subs \in Seq(S) /\ ToSet(subs) = {subs[k] : k \in 1 .. Len(n)}
    BY <1>2, <2>3, FunctionIsList
  <2> QED
    BY <1>2, <2>1, <2>4 DEF ToSet
<1>4. rest \in Seq(S) /\ ToSet(rest) = {DefaultStep(l, c, p) : l \in ToSet(d)}
  <2>1. rest = [k \in 1 .. Len(d) |-> rest[k]] /\ \A k \in 1 .. Len(d) : rest[k] = DefaultStep(d[k], c, p)
    BY <1>2
  <2>2. \A k \in 1 .. Len(d) : rest[k] \in S
    BY <1>2, <2>1
  <2> HIDE DEF rest, S, d
  <2>3. rest \in [1 .. Len(d) -> S]
    BY <2>1, <2>2
  <2>4. rest \in Seq(S) /\ ToSet(rest) = {rest[k] : k \in 1 .. Len(d)}
    BY <1>2, <2>3, FunctionIsList
  <2> QED
    BY <1>2, <2>1, <2>4 DEF ToSet
<1>5. head \in Seq(S) /\ ToSet(head) = IF fan THEN {FanoutStep(p, subs)} ELSE ToSet(subs)
  <2> DEFINE s == FanoutStep(p, subs)
  <2>1. s \in S
    OBVIOUS
  <2> HIDE DEF s, S, subs
  <2>2. <<s>> \in Seq(S) /\ ToSet(<<s>>) = {s}
    BY <2>1 DEF ToSet
  <2> QED
    BY <1>3, <2>2 DEF s
<1>6. Level(c, p) = head \o rest
  BY DEF Level
<1>7. Level(c, p) \in Seq(S) /\ ToSet(Level(c, p)) = ToSet(head) \cup ToSet(rest)
  <2> HIDE DEF head, rest, S
  <2> QED
    BY <1>4, <1>5, <1>6, ConcatIs
<1>8. Level(c, p) \in Seq(ToSet(Level(c, p)))
  <2> HIDE DEF S
  <2>1. Level(c, p) \in Seq(Range(Level(c, p)))
    BY <1>7, SeqOfRange
  <2> QED
    BY <2>1 DEF Range, ToSet
<1>9. subs # <<>> /\ fan => IsFanout(FanoutStep(p, subs), c, p)
  BY DEF IsFanout, Subs
<1>10. LinkSteps(c, p) = ToSet(subs) \cup ToSet(rest)
  BY <1>3, <1>4 DEF LinkSteps
<1>11. (\A s \in ToSet(subs) \cup ToSet(rest) : s.branches = <<>>) /\ FanoutStep(p, subs).branches = subs
  <2>1. \A l : AStep(l, p).branches = <<>> /\ DefaultStep(l, c, p).branches = <<>>
    BY DEF AStep, DefaultStep
  <2>2. FanoutStep(p, subs).branches = subs
    BY DEF FanoutStep, RootStep
  <2> HIDE DEF subs, rest
  <2> QED
    BY <1>3, <1>4, <2>1, <2>2
<1> HIDE DEF subs, rest, S, n, d
<1>12. ToSet(<<>>) = {}
  BY DEF ToSet
<1>13. \A s \in ToSet(Level(c, p)) : s \in LinkSteps(c, p) \/ IsFanout(s, c, p)
  BY <1>5, <1>7, <1>9, <1>10
<1>14. CASE fan
  <2>1. ToSet(Level(c, p)) = {FanoutStep(p, subs)} \cup ToSet(rest) /\ subs # <<>>
    BY <1>5, <1>7, <1>14
  <2>2. {s \in ToSet(Level(c, p)) : s.branches = <<>>} = ToSet(rest)
    BY <1>11, <2>1
  <2>3. UNION {ToSet(s.branches) : s \in ToSet(Level(c, p))} = ToSet(subs)
    BY <1>11, <1>12, <2>1
  <2> QED
    BY <1>8, <1>10, <1>13, <2>2, <2>3 DEF AgentSteps
<1>15. CASE ~fan
  <2>1. ToSet(Level(c, p)) = ToSet(subs) \cup ToSet(rest)
    BY <1>5, <1>7, <1>15
  <2>2. {s \in ToSet(Level(c, p)) : s.branches = <<>>} = ToSet(subs) \cup ToSet(rest)
    BY <1>11, <2>1
  <2>3. UNION {ToSet(s.branches) : s \in ToSet(Level(c, p))} = {}
    BY <1>11, <1>12, <2>1
  <2> QED
    BY <1>8, <1>10, <1>13, <2>2, <2>3 DEF AgentSteps
<1> QED
  BY <1>14, <1>15

-----------------------------------------------------------------------------
(* The plan: every level of every expansion, and nothing else.             *)

\* What Expanded concatenates under a path, and the functions it is one of.
Nested(cfg, f, p) ==
  [k \in DOMAIN Followed(cfg[Last(p)]) |->
     IF HasChain(cfg, Followed(cfg[Last(p)])[k].agent)
     THEN f[Append(p, Followed(cfg[Last(p)])[k].agent)] ELSE <<>>]

Expansion(cfg, f, p) == Level(cfg[Last(p)], p) \o FlattenSeq(Nested(cfg, f, p))

StepsOf(cfg) == CHOOSE f : f = [p \in Expansions(cfg) |-> Expansion(cfg, f, p)]

LevelOf(cfg, p) == ToSet(Level(cfg[Last(p)], p))

Levels(cfg) == UNION {LevelOf(cfg, p) : p \in Expansions(cfg)}

LEMMA ExpandedIs == ASSUME NEW cfg PROVE Expanded(cfg) = StepsOf(cfg)[<<Root>>]
BY DEF Expanded, StepsOf, Expansion, Nested

LEMMA GoesDeeper ==
  ASSUME NEW cfg, Compiles(cfg), NEW p \in Expansions(cfg),
         NEW l \in ToSet(Followed(cfg[Last(p)])), HasChain(cfg, l.agent)
  PROVE  Append(p, l.agent) \in Expansions(cfg) /\ Len(Append(p, l.agent)) = Len(p) + 1
<1>1. /\ p \in Paths(cfg) /\ cfg[Last(p)].links \in Seq(Link) /\ Parses(cfg[Last(p)])
      /\ \A m \in ToSet(cfg[Last(p)].links) : m.agent \in Agent
  BY ConfigIs
<1>2. l \in ToSet(cfg[Last(p)].links)
  BY <1>1, LinksAre
<1>3. p \in Seq(Agent) /\ l.agent \in Agent
  BY <1>1, <1>2, PathIs
<1>4. Append(p, l.agent) \in Paths(cfg)
  BY <1>2, PathGoesOn
<1>5. Last(Append(p, l.agent)) = l.agent /\ Len(Append(p, l.agent)) = Len(p) + 1
  BY <1>3, AppendIs
<1> QED
  BY <1>4, <1>5 DEF Expansions

LEMMA LengthIs ==
  ASSUME NEW cfg, NEW p \in Expansions(cfg)
  PROVE  Len(p) \in Nat /\ 1 <= Len(p) /\ Len(p) <= Cardinality(Agent) /\ Cardinality(Agent) \in Nat
<1>1. p \in Paths(cfg)
  BY DEF Expansions
<1>2. Cardinality(Agent) \in Nat
  BY ChainAssumption, FS_CardinalityType
<1> QED
  BY <1>1, <1>2, PathIs

\* Of two functions that agree on what is longer, the same follows.
LEMMA NestedAgree ==
  ASSUME NEW cfg, Compiles(cfg), NEW p \in Expansions(cfg), NEW f, NEW g,
         \A q \in Expansions(cfg) : Len(q) = Len(p) + 1 => f[q] = g[q]
  PROVE  Expansion(cfg, f, p) = Expansion(cfg, g, p)
<1> DEFINE q == Followed(cfg[Last(p)])
<1>1. ASSUME NEW k \in DOMAIN q, HasChain(cfg, q[k].agent)
      PROVE  f[Append(p, q[k].agent)] = g[Append(p, q[k].agent)]
  <2>1. q[k] \in ToSet(q)
    BY DEF ToSet
  <2> QED
    BY <1>1, <2>1, GoesDeeper
<1>2. Nested(cfg, f, p) = Nested(cfg, g, p)
  BY <1>1 DEF Nested
<1> QED
  BY <1>2 DEF Expansion

LEMMA ExpansionExists ==
  ASSUME NEW cfg, Compiles(cfg)
  PROVE  \E f : f = [p \in Expansions(cfg) |-> Expansion(cfg, f, p)]
<1> DEFINE top == Cardinality(Agent)
           E == Expansions(cfg)
           Down(f, m) == \A p \in E : Len(p) + m > top => f[p] = Expansion(cfg, f, p)
           G == {m \in Nat : \E f : f = [p \in E |-> f[p]] /\ Down(f, m)}
<1>1. top \in Nat /\ \A p \in E : Len(p) \in Nat /\ 1 <= Len(p) /\ Len(p) <= top
  BY LengthIs, ChainAssumption, FS_CardinalityType
<1>2. 0 \in G
  <2> DEFINE f == [p \in E |-> 0]
  <2>1. f = [p \in E |-> f[p]] /\ Down(f, 0)
    BY <1>1
  <2> QED
    BY <2>1
<1>3. top \in G
  <2> SUFFICES ASSUME top \notin G PROVE FALSE
    OBVIOUS
  <2>1. PICK m \in 1 .. top : m \notin G /\ m - 1 \in G
    <3> HIDE DEF G, top
    <3> QED
      BY <1>1, <1>2, FirstWrong
  <2>2. PICK f : f = [p \in E |-> f[p]] /\ Down(f, m - 1)
    BY <2>1
  <2> DEFINE g == [p \in E |-> Expansion(cfg, f, p)]
  <2>3. ASSUME NEW p \in E, Len(p) + (m - 1) > top PROVE g[p] = f[p]
    BY <2>2, <2>3
  <2>4. ASSUME NEW p \in E, Len(p) + m > top PROVE g[p] = Expansion(cfg, g, p)
    <3>1. \A q \in E : Len(q) = Len(p) + 1 => f[q] = g[q]
      <4> SUFFICES ASSUME NEW q \in E, Len(q) = Len(p) + 1 PROVE g[q] = f[q]
        OBVIOUS
      <4>1. Len(q) + (m - 1) > top
        BY <1>1, <2>1, <2>4
      <4> QED
        BY <2>3, <4>1
    <3> HIDE DEF g
    <3>2. Expansion(cfg, f, p) = Expansion(cfg, g, p)
      BY <3>1, NestedAgree
    <3> QED
      BY <3>2 DEF g
  <2>5. Down(g, m) /\ g = [p \in E |-> g[p]]
    BY <2>4
  <2>6. m \in G
    <3> HIDE DEF g
    <3> QED
      BY <1>1, <2>1, <2>5
  <2> QED
    BY <2>1, <2>6
<1>4. PICK f : f = [p \in E |-> f[p]] /\ Down(f, top)
  BY <1>3
<1>5. \A p \in E : f[p] = Expansion(cfg, f, p)
  BY <1>1, <1>4
<1>6. f = [p \in E |-> Expansion(cfg, f, p)]
  BY <1>4, <1>5
<1> QED
  BY <1>6

LEMMA StepsOfIs ==
  ASSUME NEW cfg, Compiles(cfg)
  PROVE  \A p \in Expansions(cfg) : StepsOf(cfg)[p] = Expansion(cfg, StepsOf(cfg), p)
<1> DEFINE F == StepsOf(cfg)
<1>1. F = [p \in Expansions(cfg) |-> Expansion(cfg, F, p)]
  BY ExpansionExists DEF StepsOf
<1> HIDE DEF F
<1>2. \A p \in Expansions(cfg) : F[p] = Expansion(cfg, F, p)
  BY <1>1
<1> QED
  BY <1>2 DEF F

LEMMA ExpansionIs ==
  ASSUME NEW cfg, Compiles(cfg), NEW p \in Expansions(cfg), NEW f,
         \A q \in Expansions(cfg) : Len(q) = Len(p) + 1 => f[q] \in Seq(Levels(cfg))
  PROVE  /\ Expansion(cfg, f, p) \in Seq(Levels(cfg))
         /\ ToSet(Expansion(cfg, f, p)) =
              LevelOf(cfg, p)
              \cup UNION {ToSet(f[Append(p, l.agent)]) :
                            l \in {m \in ToSet(cfg[Last(p)].links) : HasChain(cfg, m.agent)}}
<1> DEFINE c == cfg[Last(p)]
           q == Followed(c)
           S == Levels(cfg)
           s == Nested(cfg, f, p)
<1>1. c.links \in Seq(Link) /\ Parses(c)
  BY ConfigIs
<1>2. q \in Seq(Link) /\ ToSet(q) = ToSet(c.links)
  <2> HIDE DEF c
  <2> QED
    BY <1>1, LinksAre
<1>3. DOMAIN q = 1 .. Len(q) /\ Len(q) \in Nat
  BY <1>2
<1>4. \A k \in DOMAIN q : s[k] = IF HasChain(cfg, q[k].agent) THEN f[Append(p, q[k].agent)] ELSE <<>>
  BY DEF Nested
<1>5. ASSUME NEW k \in DOMAIN q PROVE s[k] \in Seq(S)
  <2>1. CASE HasChain(cfg, q[k].agent)
    <3>1. q[k] \in ToSet(q)
      BY DEF ToSet
    <3>2. Append(p, q[k].agent) \in Expansions(cfg) /\ Len(Append(p, q[k].agent)) = Len(p) + 1
      BY <2>1, <3>1, GoesDeeper
    <3> HIDE DEF s, q, S
    <3> QED
      BY <1>4, <2>1, <3>2 DEF S
  <2>2. CASE ~HasChain(cfg, q[k].agent)
    <3>1. <<>> \in Seq(S)
      OBVIOUS
    <3> HIDE DEF s, S
    <3>2. s[k] = <<>>
      BY <1>4, <2>2
    <3> QED
      BY <3>1, <3>2, Zenon
  <2> QED
    BY <2>1, <2>2
<1>6. s \in [1 .. Len(q) -> Seq(S)]
  <2>1. s = [k \in DOMAIN q |-> IF HasChain(cfg, q[k].agent) THEN f[Append(p, q[k].agent)] ELSE <<>>]
    BY DEF Nested
  <2> HIDE DEF s, q, S
  <2> QED
    BY <1>3, <1>5, <2>1
<1>7. Level(c, p) \in Seq(S)
  <2>1. Level(c, p) \in Seq(LevelOf(cfg, p))
    <3> HIDE DEF c
    <3>1. Level(c, p) \in Seq(ToSet(Level(c, p)))
      BY <1>1, LevelIs
    <3> QED
      BY <3>1 DEF LevelOf, c
  <2>2. LevelOf(cfg, p) \subseteq S
    BY DEF Levels
  <2> HIDE DEF S, c
  <2> QED
    BY <2>1, <2>2, SeqMonotonic
<1>8. ToSet(s[1]) = ToSet(s[1])
  OBVIOUS
<1> HIDE DEF s, S
<1>9. s \in Seq(Seq(S)) /\ DOMAIN s = DOMAIN q
  BY <1>3, <1>6
<1>10. FlattenSeq(s) \in Seq(S) /\ ToSet(FlattenSeq(s)) = UNION {ToSet(s[k]) : k \in DOMAIN s}
  BY <1>9, FlattenIs
<1>11. Expansion(cfg, f, p) \in Seq(S) /\ ToSet(Expansion(cfg, f, p)) = LevelOf(cfg, p) \cup ToSet(FlattenSeq(s))
  <2>1. Expansion(cfg, f, p) = Level(c, p) \o FlattenSeq(s)
    BY DEF Expansion, s
  <2>2. LevelOf(cfg, p) = ToSet(Level(c, p))
    BY DEF LevelOf
  <2> HIDE DEF c
  <2> QED
    BY <1>7, <1>10, <2>1, <2>2, ConcatIs
<1>12. UNION {ToSet(s[k]) : k \in DOMAIN s}
       = UNION {ToSet(f[Append(p, l.agent)]) : l \in {m \in ToSet(q) : HasChain(cfg, m.agent)}}
  <2> HIDE DEF q
  <2>1. ToSet(<<>>) = {} /\ ToSet(q) = {q[k] : k \in DOMAIN q}
    BY DEF ToSet
  <2>2. ASSUME NEW x, NEW k \in DOMAIN s, x \in ToSet(s[k])
        PROVE  \E l \in {m \in ToSet(q) : HasChain(cfg, m.agent)} : x \in ToSet(f[Append(p, l.agent)])
    <3>1. HasChain(cfg, q[k].agent) /\ s[k] = f[Append(p, q[k].agent)]
      BY <1>4, <1>9, <2>1, <2>2
    <3> QED
      BY <1>9, <2>1, <2>2, <3>1
  <2>3. ASSUME NEW x, NEW l \in ToSet(q), HasChain(cfg, l.agent), x \in ToSet(f[Append(p, l.agent)])
        PROVE  \E k \in DOMAIN s : x \in ToSet(s[k])
    <3>1. PICK k \in DOMAIN q : l = q[k]
      BY <2>1
    <3>2. s[k] = f[Append(p, l.agent)]
      BY <1>4, <2>3, <3>1
    <3> QED
      BY <1>9, <2>3, <3>2
  <2> QED
    BY <2>2, <2>3
<1> QED
  BY <1>2, <1>10, <1>11, <1>12 DEF S

\* The steps under a path: its own level and what is below its links.
LEMMA StepsAre ==
  ASSUME NEW cfg, Compiles(cfg), NEW p \in Expansions(cfg)
  PROVE  /\ StepsOf(cfg)[p] \in Seq(Levels(cfg))
         /\ ToSet(StepsOf(cfg)[p]) =
              LevelOf(cfg, p)
              \cup UNION {ToSet(StepsOf(cfg)[Append(p, l.agent)]) :
                            l \in {m \in ToSet(cfg[Last(p)].links) : HasChain(cfg, m.agent)}}
<1> DEFINE top == Cardinality(Agent)
           E == Expansions(cfg)
           F == StepsOf(cfg)
           G == {m \in Nat : \A q \in E : Len(q) + m > top => F[q] \in Seq(Levels(cfg))}
<1>1. top \in Nat /\ \A q \in E : Len(q) \in Nat /\ 1 <= Len(q) /\ Len(q) <= top
  BY LengthIs
<1>2. \A q \in E : F[q] = Expansion(cfg, F, q)
  BY StepsOfIs
<1>3. 0 \in G
  BY <1>1
<1>4. top \in G
  <2> SUFFICES ASSUME top \notin G PROVE FALSE
    OBVIOUS
  <2>1. PICK m \in 1 .. top : m \notin G /\ m - 1 \in G
    <3> HIDE DEF G, top
    <3> QED
      BY <1>1, <1>3, FirstWrong
  <2>2. PICK q \in E : Len(q) + m > top /\ F[q] \notin Seq(Levels(cfg))
    BY <1>1, <2>1
  <2>3. \A r \in E : Len(r) = Len(q) + 1 => F[r] \in Seq(Levels(cfg))
    <3> SUFFICES ASSUME NEW r \in E, Len(r) = Len(q) + 1 PROVE F[r] \in Seq(Levels(cfg))
      OBVIOUS
    <3>1. Len(r) + (m - 1) > top
      BY <1>1, <2>1, <2>2
    <3> QED
      BY <2>1, <3>1
  <2> HIDE DEF F
  <2>4. Expansion(cfg, F, q) \in Seq(Levels(cfg))
    BY <2>3, ExpansionIs
  <2> QED
    BY <1>2, <2>2, <2>4
<1>5. \A q \in E : F[q] \in Seq(Levels(cfg))
  BY <1>1, <1>4
<1> HIDE DEF F
<1>6. /\ Expansion(cfg, F, p) \in Seq(Levels(cfg))
      /\ ToSet(Expansion(cfg, F, p)) =
           LevelOf(cfg, p)
           \cup UNION {ToSet(F[Append(p, l.agent)]) :
                         l \in {m \in ToSet(cfg[Last(p)].links) : HasChain(cfg, m.agent)}}
  BY <1>5, ExpansionIs
<1> QED
  BY <1>2, <1>6, Zenon DEF F

LEMMA AllIsUnderRoot ==
  ASSUME NEW cfg, Compiles(cfg)
  PROVE  /\ Expanded(cfg) \in Seq(Levels(cfg))
         /\ ToSet(Expanded(cfg)) = Levels(cfg)
<1> DEFINE top == Cardinality(Agent)
           E == Expansions(cfg)
           F == StepsOf(cfg)
           root == <<Root>>
           G == {m \in Nat : \A q \in E : Len(q) <= m => ToSet(F[q]) \subseteq ToSet(F[root])}
<1>1. top \in Nat /\ \A q \in E : Len(q) \in Nat /\ 1 <= Len(q) /\ Len(q) <= top
  BY LengthIs, ChainAssumption, FS_CardinalityType
<1>2. root \in E
  BY RootExpands DEF Compiles
<1>3. ASSUME NEW q \in E, Len(q) = 1 PROVE q = root
  <2>1. q \in Seq(Agent) /\ q[1] = Root
    BY PathIs DEF Expansions
  <2>2. root \in Seq(Agent) /\ Len(root) = 1 /\ root[1] = Root
    BY ChainAssumption
  <2> HIDE DEF root
  <2> QED
    BY <1>3, <2>1, <2>2, SeqEqual
<1>4. 0 \in G
  BY <1>1
<1>5. top \in G
  <2> SUFFICES ASSUME top \notin G PROVE FALSE
    OBVIOUS
  <2>1. PICK m \in 1 .. top : m \notin G /\ m - 1 \in G
    <3> HIDE DEF G, top
    <3> QED
      BY <1>1, <1>4, FirstWrong
  <2>2. PICK q \in E : Len(q) <= m /\ ~(ToSet(F[q]) \subseteq ToSet(F[root]))
    BY <1>1, <2>1
  <2>3. Len(q) # 1
    BY <1>3, <2>2
  <2>4. q \in Paths(cfg) /\ HasChain(cfg, Last(q)) /\ Len(q) >= 2
    <3>1. Len(q) \in Nat /\ 1 <= Len(q) /\ q \in Expansions(cfg)
      BY <1>1
    <3>2. \A x \in Nat : 1 <= x /\ x # 1 => x >= 2
      OBVIOUS
    <3>3. Len(q) >= 2
      BY <2>3, <3>1, <3>2, Zenon
    <3> HIDE DEF E
    <3> QED
      BY <3>1, <3>3 DEF Expansions
  <2>5. PICK p \in E : /\ Len(p) = Len(q) - 1
                       /\ \E l \in ToSet(cfg[Last(p)].links) : q = Append(p, l.agent)
    BY <2>4, PathCameFrom
  <2>6. PICK l \in ToSet(cfg[Last(p)].links) : q = Append(p, l.agent)
    BY <2>5
  <2>7. Last(q) = l.agent
    <3>1. l.agent \in Agent /\ p \in Paths(cfg)
      BY ConfigIs
    <3>2. p \in Seq(Agent)
      BY <3>1, PathIs
    <3> QED
      BY <2>6, <3>1, <3>2, AppendIs
  <2>8. ToSet(F[q]) \subseteq ToSet(F[p])
    <3>1. l \in {x \in ToSet(cfg[Last(p)].links) : HasChain(cfg, x.agent)}
      BY <2>4, <2>7
    <3> HIDE DEF F
    <3>2. ToSet(F[p]) = LevelOf(cfg, p)
             \cup UNION {ToSet(F[Append(p, y.agent)]) :
                           y \in {x \in ToSet(cfg[Last(p)].links) : HasChain(cfg, x.agent)}}
      BY StepsAre DEF F
    <3> QED
      BY <2>6, <3>1, <3>2
  <2>9. Len(p) <= m - 1
    BY <1>1, <2>1, <2>2, <2>5
  <2>10. ToSet(F[p]) \subseteq ToSet(F[root])
    BY <2>1, <2>9
  <2> QED
    BY <2>2, <2>8, <2>10
<1>6. \A q \in E : ToSet(F[q]) \subseteq ToSet(F[root])
  BY <1>1, <1>5
<1>7. F[root] \in Seq(Levels(cfg)) /\ \A q \in E : LevelOf(cfg, q) \subseteq ToSet(F[q])
  BY <1>2, StepsAre
<1>8. Levels(cfg) \subseteq ToSet(F[root])
  BY <1>6, <1>7 DEF Levels
<1>9. ToSet(F[root]) \subseteq Levels(cfg)
  <2> HIDE DEF F, root
  <2> QED
    BY <1>7 DEF ToSet
<1> QED
  BY <1>7, <1>8, <1>9, ExpandedIs

LEMMA SubsAre ==
  ASSUME NEW c, c.links \in Seq(Link), Parses(c), NEW p
  PROVE  /\ Len(Subs(c, p)) = Len(Normals(c)) /\ Len(Normals(c)) \in Nat
         /\ DOMAIN Subs(c, p) = 1 .. Len(Normals(c))
         /\ \A k \in 1 .. Len(Normals(c)) :
              Subs(c, p)[k] = AStep(Normals(c)[k], p) /\ Normals(c)[k] \in ToSet(Normals(c))
<1> DEFINE n == Normals(c)
<1>1. n \in Seq(Link)
  BY LinksAre
<1>2. DOMAIN n = 1 .. Len(n) /\ Len(n) \in Nat /\ \A k \in DOMAIN n : n[k] \in ToSet(n)
  BY <1>1 DEF ToSet
<1>3. Subs(c, p) = [k \in 1 .. Len(n) |-> AStep(n[k], p)]
  BY <1>2 DEF Subs
<1> HIDE DEF n
<1>4. Len(Subs(c, p)) = Len(n) /\ DOMAIN Subs(c, p) = 1 .. Len(n)
  BY <1>2, <1>3
<1> QED
  BY <1>2, <1>3, <1>4 DEF n

LEMMA BranchesAre ==
  ASSUME NEW c, NEW p, NEW s
  PROVE  /\ s \in LinkSteps(c, p) => s.branches = <<>>
         /\ IsFanout(s, c, p) => s.branches = Subs(c, p) /\ Subs(c, p) # <<>>
<1>1. ASSUME NEW l PROVE AStep(l, p).branches = <<>> /\ DefaultStep(l, c, p).branches = <<>>
  BY DEF AStep, DefaultStep
<1>2. FanoutStep(p, Subs(c, p)).branches = Subs(c, p)
  BY DEF FanoutStep, RootStep
<1> QED
  BY <1>1, <1>2 DEF LinkSteps, IsFanout

LEMMA PlanIs ==
  ASSUME NEW cfg, Compiles(cfg)
  PROVE  /\ Len(CompileChain(cfg)) \in Nat /\ Len(CompileChain(cfg)) >= 1
         /\ DOMAIN CompileChain(cfg) = 1 .. Len(CompileChain(cfg))
         /\ CompileChain(cfg)[1] = RootStep
         /\ \A k \in 2 .. Len(CompileChain(cfg)) : CompileChain(cfg)[k] \in Levels(cfg)
         /\ \A s \in Levels(cfg) : \E k \in DOMAIN CompileChain(cfg) : CompileChain(cfg)[k] = s
<1> DEFINE r == RootStep
           S == {r} \cup Levels(cfg)
           e == Expanded(cfg)
<1>1. e \in Seq(Levels(cfg)) /\ ToSet(e) = Levels(cfg)
  BY AllIsUnderRoot
<1>2. e \in Seq(S)
  BY <1>1, SeqMonotonic
<1>3. <<r>> \in Seq(S) /\ Len(<<r>>) = 1 /\ <<r>>[1] = r
  OBVIOUS
<1>4. CompileChain(cfg) = <<r>> \o e
  BY DEF CompileChain
<1> HIDE DEF S, e, r
<1>5. /\ (<<r>> \o e) \in Seq(S) /\ Len(<<r>> \o e) = 1 + Len(e) /\ Len(e) \in Nat
      /\ \A i \in 1 .. 1 + Len(e) : (<<r>> \o e)[i] = IF i <= 1 THEN <<r>>[i] ELSE e[i - 1]
  BY <1>2, <1>3
<1>6. DOMAIN (<<r>> \o e) = 1 .. 1 + Len(e) /\ DOMAIN e = 1 .. Len(e)
  BY <1>2, <1>5
<1>7. (<<r>> \o e)[1] = r
  BY <1>3, <1>5
<1>8. \A k \in 2 .. 1 + Len(e) : k - 1 \in 1 .. Len(e) /\ (<<r>> \o e)[k] = e[k - 1]
  BY <1>5
<1>9. \A k \in 2 .. 1 + Len(e) : (<<r>> \o e)[k] \in Levels(cfg)
  BY <1>1, <1>6, <1>8 DEF ToSet
<1>10. ASSUME NEW s \in Levels(cfg) PROVE \E k \in DOMAIN (<<r>> \o e) : (<<r>> \o e)[k] = s
  <2>1. PICK k \in 1 .. Len(e) : e[k] = s
    BY <1>1, <1>6 DEF ToSet
  <2>2. k + 1 \in 2 .. 1 + Len(e) /\ (k + 1) - 1 = k
    BY <1>5
  <2>3. (<<r>> \o e)[k + 1] = s /\ k + 1 \in DOMAIN (<<r>> \o e)
    BY <1>5, <1>6, <1>8, <2>1, <2>2
  <2> QED
    BY <2>3
<1>11. Len(<<r>> \o e) \in Nat /\ Len(<<r>> \o e) >= 1
  BY <1>5
<1>12. Len(<<r>> \o e) = 1 + Len(e)
  BY <1>5
<1> HIDE DEF CompileChain
<1>13. CompileChain(cfg)[1] = RootStep
  BY <1>4, <1>7 DEF r
<1> QED
  BY <1>4, <1>6, <1>9, <1>10, <1>11, <1>12, <1>13

-----------------------------------------------------------------------------
(* The places of the plan.                                                 *)

PlanOK ==
  /\ config \in Configs
  /\ plan = IF Raises(config) THEN <<>> ELSE CompileChain(config)

\* s is the step of link l under path p.
IsLink(s, p, l) ==
  /\ p \in Expansions(config) /\ l \in ToSet(config[Last(p)].links)
  /\ s = IF l.default THEN DefaultStep(l, config[Last(p)], p) ELSE AStep(l, p)

LEMMA LinkStepIs ==
  ASSUME PlanOK, ~Raises(config), NEW p \in Expansions(config), NEW s
  PROVE  s \in LinkSteps(config[Last(p)], p) <=> \E l : IsLink(s, p, l)
<1> DEFINE c == config[Last(p)]
<1>1. c.links \in Seq(Link) /\ Parses(c)
  BY ConfigIs DEF PlanOK, Compiles
<1>2. /\ ToSet(Normals(c)) = {l \in ToSet(c.links) : ~l.default}
      /\ ToSet(Defaults(c)) = {l \in ToSet(c.links) : l.default}
  <2> HIDE DEF c
  <2> QED
    BY <1>1, LinksAre
<1> QED
  BY <1>2 DEF LinkSteps, IsLink

\* A place of the plan is that of the root, or a link by itself or in a fan-out.
LEMMA PlaceIs ==
  ASSUME PlanOK, NEW x \in AgentPlaces
  PROVE  /\ ~Raises(config)
         /\ x[1] \in DOMAIN plan /\ x[2] \in Nat /\ x = <<x[1], x[2]>>
         /\ (x = <<1, 0>> /\ StepAt(x) = RootStep) \/ (\E p, l : IsLink(StepAt(x), p, l) /\ x[1] # 1)
         /\ StepAt(x).branches = <<>>
         /\ x[2] = 0 => plan[x[1]].branches = <<>> /\ StepAt(x) = plan[x[1]]
         /\ x[2] # 0 => /\ plan[x[1]].branches # <<>> /\ x[2] \in DOMAIN plan[x[1]].branches
                        /\ StepAt(x) = plan[x[1]].branches[x[2]]
<1>1. PICK k \in DOMAIN plan : x \in {k} \X (0 .. Len(plan[k].branches)) /\ StepAt(x).branches = <<>>
  BY DEF AgentPlaces
<1>2. /\ x[1] = k /\ x[2] \in 0 .. Len(plan[k].branches) /\ x = <<x[1], x[2]>>
  BY <1>1
<1>3. StepAt(x) = IF x[2] = 0 THEN plan[k] ELSE plan[k].branches[x[2]]
  BY <1>2 DEF StepAt
<1>4. ~Raises(config)
  BY <1>1 DEF PlanOK
<1>5. plan = CompileChain(config) /\ Compiles(config)
  BY <1>4 DEF PlanOK, Compiles
<1>6. /\ Len(plan) \in Nat /\ DOMAIN plan = 1 .. Len(plan) /\ plan[1] = RootStep
      /\ \A i \in 2 .. Len(plan) : plan[i] \in Levels(config)
  BY <1>5, PlanIs
<1>7. Len(<<>>) = 0
  OBVIOUS
<1>8. CASE k = 1
  <2>1. plan[k].branches = <<>>
    BY <1>6, <1>8, StepFields
  <2>2. x[2] = 0
    BY <1>2, <1>7, <2>1
  <2>3. x = <<1, 0>> /\ StepAt(x) = RootStep
    BY <1>2, <1>3, <1>6, <1>8, <2>2
  <2> QED
    BY <1>1, <1>2, <1>3, <1>4, <2>1, <2>2, <2>3
<1>9. CASE k # 1
  <2>1. PICK p \in Expansions(config) : plan[k] \in LevelOf(config, p)
    <3>1. k \in 2 .. Len(plan)
      BY <1>1, <1>6, <1>9
    <3> QED
      BY <1>6, <3>1 DEF Levels
  <2> DEFINE c == config[Last(p)]
  <2>2. c.links \in Seq(Link) /\ Parses(c)
    BY <1>5, ConfigIs
  <2> HIDE DEF c
  <2>3. plan[k] \in LinkSteps(c, p) \/ IsFanout(plan[k], c, p)
    BY <2>1, <2>2, LevelIs DEF LevelOf, c
  <2>4. CASE plan[k] \in LinkSteps(c, p)
    <3>1. \E l : IsLink(plan[k], p, l)
      BY <1>4, <2>4, LinkStepIs DEF c
    <3>2. plan[k].branches = <<>>
      BY <2>4, BranchesAre
    <3>3. x[2] = 0
      BY <1>2, <1>7, <3>2
    <3> QED
      BY <1>1, <1>2, <1>3, <1>4, <1>9, <3>1, <3>2, <3>3
  <2>5. CASE IsFanout(plan[k], c, p)
    <3>1. plan[k].branches = Subs(c, p) /\ Subs(c, p) # <<>>
      BY <2>5, BranchesAre
    <3>2. x[2] # 0
      BY <1>1, <1>3, <3>1
    <3>3. /\ DOMAIN Subs(c, p) = 1 .. Len(Normals(c)) /\ Len(Subs(c, p)) = Len(Normals(c)) /\ Len(Normals(c)) \in Nat
          /\ \A i \in 1 .. Len(Normals(c)) :
               Subs(c, p)[i] = AStep(Normals(c)[i], p) /\ Normals(c)[i] \in ToSet(Normals(c))
      BY <2>2, SubsAre
    <3>4. x[2] \in 1 .. Len(Normals(c))
      BY <1>2, <3>1, <3>2, <3>3
    <3>5. StepAt(x) \in LinkSteps(c, p)
      BY <1>3, <3>1, <3>2, <3>3, <3>4 DEF LinkSteps
    <3>6. \E l : IsLink(StepAt(x), p, l)
      BY <1>4, <3>5, LinkStepIs DEF c
    <3>7. x[2] \in DOMAIN plan[k].branches /\ StepAt(x) = plan[k].branches[x[2]] /\ x[2] \in Nat
      BY <1>3, <3>1, <3>2, <3>3, <3>4
    <3> QED
      BY <1>1, <1>2, <1>4, <1>9, <3>1, <3>2, <3>6, <3>7
  <2> QED
    BY <2>3, <2>4, <2>5
<1> QED
  BY <1>8, <1>9

LEMMA PlaceIntro ==
  ASSUME NEW k \in DOMAIN plan
  PROVE  /\ plan[k].branches = <<>> => <<k, 0>> \in AgentPlaces /\ StepAt(<<k, 0>>) = plan[k]
         /\ \A b \in 1 .. Len(plan[k].branches) :
              plan[k].branches[b].branches = <<>> =>
                <<k, b>> \in AgentPlaces /\ StepAt(<<k, b>>) = plan[k].branches[b]
<1>1. StepAt(<<k, 0>>) = plan[k]
  BY DEF StepAt
<1>2. \A b \in 1 .. Len(plan[k].branches) : StepAt(<<k, b>>) = plan[k].branches[b]
  BY DEF StepAt
<1>3. plan[k].branches = <<>> => 0 \in 0 .. Len(plan[k].branches)
  OBVIOUS
<1>4. \A b \in 1 .. Len(plan[k].branches) : b \in 0 .. Len(plan[k].branches)
  OBVIOUS
<1>5. \A b \in 0 .. Len(plan[k].branches) :
        StepAt(<<k, b>>).branches = <<>> => <<k, b>> \in AgentPlaces
  BY DEF AgentPlaces
<1> QED
  BY <1>1, <1>2, <1>3, <1>4, <1>5

\* Every step of a level has its place.
LEMMA HasPlace ==
  ASSUME PlanOK, ~Raises(config)
  PROVE  /\ <<1, 0>> \in AgentPlaces /\ StepAt(<<1, 0>>) = RootStep
         /\ \A s, p, l : IsLink(s, p, l) => \E x \in AgentPlaces : StepAt(x) = s
<1>1. plan = CompileChain(config) /\ Compiles(config)
  BY DEF PlanOK, Compiles
<1>2. /\ Len(plan) \in Nat /\ Len(plan) >= 1 /\ DOMAIN plan = 1 .. Len(plan) /\ plan[1] = RootStep
      /\ \A s \in Levels(config) : \E k \in DOMAIN plan : plan[k] = s
  BY <1>1, PlanIs
<1>3. <<1, 0>> \in AgentPlaces /\ StepAt(<<1, 0>>) = RootStep
  <2>1. 1 \in DOMAIN plan /\ plan[1].branches = <<>>
    BY <1>2, StepFields
  <2> QED
    BY <1>2, <2>1, PlaceIntro
<1>4. ASSUME NEW s, NEW p, NEW l, IsLink(s, p, l)
      PROVE  \E x \in AgentPlaces : StepAt(x) = s
  <2> DEFINE c == config[Last(p)]
  <2>1. p \in Expansions(config)
    BY <1>4 DEF IsLink
  <2>2. c.links \in Seq(Link) /\ Parses(c)
    BY <1>1, <2>1, ConfigIs
  <2>3. s \in LinkSteps(c, p)
    BY <1>4, <2>1, LinkStepIs
  <2> HIDE DEF c
  <2>4. s \in AgentSteps(Level(c, p)) /\ s.branches = <<>>
    BY <2>2, <2>3, LevelIs, BranchesAre
  <2>5. ToSet(Level(c, p)) \subseteq Levels(config)
    BY <2>1 DEF Levels, LevelOf, c
  <2>6. CASE s \in ToSet(Level(c, p))
    <3>1. PICK k \in DOMAIN plan : plan[k] = s
      BY <1>2, <2>5, <2>6
    <3> QED
      BY <2>4, <3>1, PlaceIntro
  <2>7. CASE \E t \in ToSet(Level(c, p)) : s \in ToSet(t.branches)
    <3>1. PICK t \in ToSet(Level(c, p)) : s \in ToSet(t.branches)
      BY <2>7
    <3>2. PICK k \in DOMAIN plan : plan[k] = t
      BY <1>2, <2>5, <3>1
    <3>3. t \in LinkSteps(c, p) \/ IsFanout(t, c, p)
      BY <2>2, <3>1, LevelIs
    <3>4. t \notin LinkSteps(c, p)
      <4>1. ToSet(<<>>) = {}
        BY DEF ToSet
      <4>2. \A u \in LinkSteps(c, p) : u.branches = <<>>
        BY BranchesAre
      <4> QED
        BY <3>1, <4>1, <4>2
    <3>5. t.branches = Subs(c, p)
      BY <3>3, <3>4, BranchesAre
    <3>6. PICK b \in 1 .. Len(t.branches) : t.branches[b] = s
      <4>1. DOMAIN Subs(c, p) = 1 .. Len(Subs(c, p))
        BY <2>2, SubsAre
      <4> QED
        BY <3>1, <3>5, <4>1 DEF ToSet
    <3> QED
      BY <2>4, <3>2, <3>6, PlaceIntro
  <2> QED
    BY <2>4, <2>6, <2>7 DEF AgentSteps
<1> QED
  BY <1>3, <1>4

-----------------------------------------------------------------------------
(* How a step ends.                                                        *)

GuardsOK == \A n \in DOMAIN guards : guards[n] \in BOOLEAN

\* No guard of a list held, and each was evaluated.
NoneHeld(names) == \A k \in DOMAIN names : names[k] \in DOMAIN guards /\ ~guards[names[k]]

LEMMA NegationIs ==
  ASSUME GuardsOK, NEW names, NEW m \in Nat, DOMAIN names = 1 .. m
  PROVE  /\ Negation(names) \in {{"yes"}, {"no"}, {"error"}}
         /\ "yes" \in Negation(names) <=> NoneHeld(names)
<1> DEFINE held(k) == names[k] \in DOMAIN guards /\ guards[names[k]]
           lost(k) == names[k] \notin DOMAIN guards
           first == {k \in DOMAIN names : (held(k) \/ lost(k)) /\ \A j \in 1 .. k - 1 : ~held(j)}
           some == {k \in DOMAIN names : held(k) \/ lost(k)}
<1>1. Negation(names) = IF \A k \in first : held(k) THEN IF first = {} THEN {"yes"} ELSE {"no"} ELSE {"error"}
  BY DEF Negation
<1>2. NoneHeld(names) <=> some = {}
  BY DEF NoneHeld, GuardsOK
<1>3. first = {} <=> some = {}
  <2>1. ASSUME some # {} PROVE first # {}
    <3>1. some \in SUBSET Nat /\ some \subseteq 1 .. m
      OBVIOUS
    <3>2. PICK k \in some : \A i \in some : k <= i
      <4> HIDE DEF some
      <4> QED
        BY <2>1, <3>1, Least
    <3>3. \A j \in 1 .. k - 1 : j \notin some /\ j \in DOMAIN names
      <4> HIDE DEF some
      <4> QED
        BY <3>1, <3>2
    <3>4. k \in first
      BY <3>2, <3>3
    <3> QED
      BY <3>4
  <2> QED
    BY <2>1
<1> HIDE DEF first, some
<1> QED
  BY <1>1, <1>2, <1>3

LEMMA EndingIs ==
  ASSUME GuardsOK, NEW s, NEW m \in Nat, DOMAIN s.negates = 1 .. m, NEW r \in BranchEndings(s), r.status # "expired"
  PROVE  /\ r \in Result /\ r.status # "none"
         /\ s.negates # <<>> => r.matched # "unset" /\ (r.matched = "yes" <=> NoneHeld(s.negates))
         /\ r.status = "success" => Resolves(s.input)
         /\ r.status \in {"success", "skipped"} /\ s.negates = <<>> => Resolves(s.when)
<1>1. CASE r \in Endings(s)
  <2>1. PICK v \in Evaluated(s) :
          r \in CASE v = "error" -> {[status |-> "error", matched |-> "no"]}
                  [] v = "no"    -> {[status |-> "skipped", matched |-> "no"]}
                  [] OTHER       -> {[status |-> e, matched |-> v] :
                                       e \in {"error"} \cup IF Resolves(s.input) THEN {"success", "expired"} ELSE {}}
    BY <1>1 DEF Endings
  <2>2. /\ Negation(s.negates) \in {{"yes"}, {"no"}, {"error"}}
        /\ "yes" \in Negation(s.negates) <=> NoneHeld(s.negates)
    BY NegationIs
  <2>3. v \in {"unset", "yes", "no", "error"} /\ (s.negates # <<>> => v # "unset")
    BY <2>2 DEF Evaluated
  <2>4. s.negates # <<>> => (v = "yes" <=> NoneHeld(s.negates))
    BY <2>2 DEF Evaluated
  <2>5. s.negates = <<>> /\ v # "error" => Resolves(s.when)
    BY DEF Evaluated, Resolves
  <2>6. CASE v = "error"
    <3>1. r = [status |-> "error", matched |-> "no"]
      BY <2>1, <2>6
    <3> QED
      BY <2>3, <2>4, <2>6, <3>1 DEF Result
  <2>7. CASE v = "no"
    <3>1. r = [status |-> "skipped", matched |-> "no"]
      BY <2>1, <2>7
    <3> QED
      BY <2>3, <2>4, <2>5, <2>7, <3>1 DEF Result
  <2>8. CASE v \in {"unset", "yes"}
    <3>1. PICK e \in {"error"} \cup IF Resolves(s.input) THEN {"success", "expired"} ELSE {} :
            r = [status |-> e, matched |-> v]
      BY <2>1, <2>8
    <3>2. e \in {"error", "success"} /\ (e = "success" => Resolves(s.input))
      BY <3>1
    <3> QED
      BY <2>3, <2>4, <2>5, <2>8, <3>1, <3>2 DEF Result
  <2> QED
    BY <2>3, <2>6, <2>7, <2>8
<1>2. CASE r \notin Endings(s)
  <2>1. GuardRaises(s) /\ r = [status |-> "error", matched |-> "unset"]
    BY <1>2 DEF BranchEndings
  <2> QED
    BY <2>1 DEF GuardRaises, Result
<1> QED
  BY <1>1, <1>2

LEMMA NotedIs ==
  ASSUME NEW h \in Result, NEW r \in Result
  PROVE  /\ Noted(h, r) \in Result /\ Noted(h, r).status = r.status
         /\ Noted(h, r).matched = IF r.matched = "unset" THEN h.matched ELSE r.matched
BY DEF Noted, Result

-----------------------------------------------------------------------------
(* A turn of the loop, by what it does at the places of its step.          *)

Here == {x \in AgentPlaces : x[1] = index}

NameAt(x) == StepAt(x).name

\* What the context learns: of every name that ran, how one of its places ended.
Learns(e) ==
  \E g, h :
    /\ results' = Override(results, g) /\ guards' = Override(guards, h)
    /\ DOMAIN g = {NameAt(x) : x \in Here}
    /\ \A n \in DOMAIN g : \E x \in Here : n = NameAt(x) /\ g[n] = e[x]
    /\ DOMAIN h = {NameAt(x) : x \in {y \in Here : e[y].matched # "unset"}}
    /\ \A n \in DOMAIN h :
         \E x \in Here : n = NameAt(x) /\ e[x].matched # "unset" /\ h[n] = (e[x].matched = "yes")

Keeps ==
  \/ outputs' = outputs
  \/ \E o : /\ outputs' = Override(outputs, o) /\ DOMAIN o = {NameAt(x) : x \in Here}
            /\ \A n \in DOMAIN o : o[n] \in BOOLEAN
            /\ <<Root>> \in DOMAIN o => o[<<Root>>]

Effect(e) ==
  /\ \A x \in Here : e[x] \in BranchEndings(StepAt(x)) /\ e[x].status # "expired"
  /\ history' = [x \in AgentPlaces |-> IF x[1] = index THEN Noted(history[x], e[x]) ELSE history[x]]
  /\ Learns(e) /\ Keeps
  /\ config' = config /\ plan' = plan

Proceeds(e) ==
  /\ status' \in {"running", "completed", "failed", "raised"}
  /\ status' = "running" => index' \in DOMAIN plan
  /\ index = 1 /\ e[<<1, 0>>].status = "error" => status' = "failed"

\* An exception that nothing catches, or that ends the run.
Uncaught ==
  /\ status' = "raised" \/ (status' = "failed" /\ plan[index].branches = <<>> /\ plan[index].negates = <<>>)
  /\ UNCHANGED <<config, plan, index, outputs, guards, results, history>>

\* How the root may end: it has no guard.
LEMMA RootEnds ==
  ASSUME NEW r \in Endings(RootStep)
  PROVE  r.status \in {"error", "success", "expired"}
<1>1. RootStep.negates = <<>> /\ RootStep.when.kind = "none"
  BY DEF RootStep, Rebind
<1>2. Evaluated(RootStep) = {"unset"}
  BY <1>1 DEF Evaluated
<1> QED
  BY <1>2 DEF Endings

LEMMA PlanNames ==
  ASSUME PlanOK, NEW k \in DOMAIN plan
  PROVE  (k = 1 /\ plan[k] = RootStep) \/ (\E a, b : plan[k].name = <<a, b>>)
<1>1. plan = CompileChain(config) /\ Compiles(config)
  BY DEF PlanOK, Compiles
<1>2. DOMAIN plan = 1 .. Len(plan) /\ Len(plan) \in Nat /\ plan[1] = RootStep /\ \A i \in 2 .. Len(plan) : plan[i] \in Levels(config)
  BY <1>1, PlanIs
<1>3. CASE k = 1
  BY <1>2, <1>3
<1>4. CASE k # 1
  <2>1. PICK p \in Expansions(config) : plan[k] \in LevelOf(config, p)
    <3>1. k \in 2 .. Len(plan)
      BY <1>2, <1>4
    <3> QED
      BY <1>2, <3>1 DEF Levels
  <2> DEFINE c == config[Last(p)]
  <2>2. c.links \in Seq(Link) /\ Parses(c)
    BY <1>1, ConfigIs
  <2> HIDE DEF c
  <2>3. plan[k] \in LinkSteps(c, p) \/ IsFanout(plan[k], c, p)
    BY <2>1, <2>2, LevelIs DEF LevelOf, c
  <2>4. ASSUME NEW l PROVE AStep(l, p).name = <<Last(p), l.agent>> /\ DefaultStep(l, c, p).name = <<Last(p), l.agent>>
    BY DEF AStep, DefaultStep
  <2>5. FanoutStep(p, Subs(c, p)).name = <<Last(p), Fanout>>
    BY DEF FanoutStep, RootStep
  <2> QED
    BY <2>3, <2>4, <2>5 DEF LinkSteps, IsFanout
<1> QED
  BY <1>3, <1>4

LEMMA PlaceNames ==
  ASSUME PlanOK, NEW x \in AgentPlaces
  PROVE  x = <<1, 0>> \/ \E a, b : NameAt(x) = <<a, b>>
<1>1. CASE x = <<1, 0>> /\ StepAt(x) = RootStep
  BY <1>1
<1>2. CASE \E p, l : IsLink(StepAt(x), p, l)
  <2>1. PICK p, l : IsLink(StepAt(x), p, l)
    BY <1>2
  <2>2. ASSUME NEW c PROVE AStep(l, p).name = <<Last(p), l.agent>> /\ DefaultStep(l, c, p).name = <<Last(p), l.agent>>
    BY DEF AStep, DefaultStep
  <2> QED
    BY <2>1, <2>2 DEF IsLink, NameAt
<1> QED
  BY <1>1, <1>2, PlaceIs

LEMMA NextPlace ==
  ASSUME PlanOK, index \in DOMAIN plan, status = "running", Advances
  PROVE  status' \in {"running", "completed"} /\ (status' = "running" => index' \in DOMAIN plan)
<1>1. plan = CompileChain(config) /\ Compiles(config)
  BY DEF PlanOK, Compiles
<1>2. DOMAIN plan = 1 .. Len(plan) /\ Len(plan) \in Nat
  BY <1>1, PlanIs
<1>3. index \in Int /\ index <= Len(plan) /\ index >= 1
  BY <1>2
<1>4. CASE index = Len(plan)
  BY <1>4 DEF Advances
<1>5. CASE index # Len(plan)
  <2>1. index + 1 \in DOMAIN plan
    BY <1>2, <1>3, <1>5
  <2> QED
    BY <1>5, <2>1 DEF Advances
<1> QED
  BY <1>4, <1>5

LEMMA SingleForm ==
  ASSUME PlanOK, history \in [AgentPlaces -> Result], index \in DOMAIN plan, status = "running",
         config' = config, plan' = plan,
         plan[index].branches = <<>>, NEW r \in Endings(plan[index]), r.status # "expired",
         ExecuteStep(plan[index], r)
  PROVE  \E e : Effect(e) /\ Proceeds(e)
<1> DEFINE s == plan[index]
           x0 == <<index, 0>>
           e == [x \in {x0} |-> r]
<1>1. x0 \in AgentPlaces /\ StepAt(x0) = s
  BY PlaceIntro
<1>2. Here = {x0}
  <2>1. ASSUME NEW x \in AgentPlaces, x[1] = index PROVE x = x0
    <3>1. x = <<x[1], x[2]>> /\ (x[2] # 0 => plan[x[1]].branches # <<>>)
      BY PlaceIs
    <3>2. x[2] = 0
      BY <2>1, <3>1
    <3> QED
      BY <2>1, <3>1, <3>2
  <2>2. x0[1] = index
    OBVIOUS
  <2> HIDE DEF x0
  <2> QED
    BY <1>1, <2>1, <2>2 DEF Here
<1>3. e[x0] = r
  OBVIOUS
<1>4. /\ results' = Override(results, [n \in {s.name} |-> r])
      /\ history' = [history EXCEPT ![x0] = Noted(history[x0], r)]
      /\ guards' = Override(guards, Verdict(s.name, r))
      /\ outputs' = IF r.status = "error" /\ s.on_error = "stop" THEN outputs
                    ELSE Override(outputs, [n \in {s.name} |-> Output(r)])
  BY DEF ExecuteStep
<1> HIDE DEF e
<1>5. Learns(e)
  <2> DEFINE g == [n \in {s.name} |-> r]
             h == Verdict(s.name, r)
  <2>1. NameAt(x0) = s.name
    BY <1>1 DEF NameAt
  <2>2. DOMAIN g = {NameAt(x) : x \in Here} /\ \A n \in DOMAIN g : \E x \in Here : n = NameAt(x) /\ g[n] = e[x]
    <3> HIDE DEF x0, s
    <3> QED
      BY <1>2, <1>3, <2>1
  <2>3. DOMAIN h = {NameAt(x) : x \in {y \in Here : e[y].matched # "unset"}}
        /\ \A n \in DOMAIN h :
             \E x \in Here : n = NameAt(x) /\ e[x].matched # "unset" /\ h[n] = (e[x].matched = "yes")
    <3> HIDE DEF x0, s
    <3>1. CASE r.matched = "unset"
      <4>1. h = [n \in {} |-> 0]
        BY <3>1 DEF Verdict, Empty
      <4>2. DOMAIN h = {}
        BY <4>1
      <4> QED
        BY <1>2, <1>3, <3>1, <4>2
    <3>2. CASE r.matched # "unset"
      <4>1. h = [m \in {s.name} |-> r.matched = "yes"]
        BY <3>2 DEF Verdict
      <4>2. DOMAIN h = {s.name} /\ h[s.name] = (r.matched = "yes")
        BY <4>1
      <4> HIDE DEF h
      <4> QED
        BY <1>2, <1>3, <2>1, <3>2, <4>2
    <3> QED
      BY <3>1, <3>2
  <2>4. results' = Override(results, g) /\ guards' = Override(guards, h)
    BY <1>4
  <2> HIDE DEF g, h, x0, s
  <2> QED
    BY <2>2, <2>3, <2>4 DEF Learns
<1>r. index = 1 => s = RootStep
  <2>1. plan = CompileChain(config) /\ Compiles(config)
    BY DEF PlanOK, Compiles
  <2> QED
    BY <2>1, PlanIs
<1>6. Keeps
  <2> DEFINE o == [n \in {s.name} |-> Output(r)]
  <2>1. NameAt(x0) = s.name
    BY <1>1 DEF NameAt
  <2>2. DOMAIN o = {NameAt(x) : x \in Here} /\ \A n \in DOMAIN o : o[n] \in BOOLEAN
    <3> HIDE DEF x0, s
    <3> QED
      BY <1>2, <2>1 DEF Output
  <2>3. outputs' = outputs \/ outputs' = Override(outputs, o)
    BY <1>4
  <2>4. ASSUME outputs' # outputs, <<Root>> \in DOMAIN o PROVE o[<<Root>>]
    <3>1. s.name = <<Root>> /\ o[<<Root>>] = (r.status = "success")
      BY <2>4 DEF Output
    <3>2. index = 1
      <4>1. (index = 1 /\ s = RootStep) \/ \E a, b : s.name = <<a, b>>
        BY PlanNames
      <4> QED
        BY <3>1, <4>1
    <3>3. s.on_error = "stop" /\ r.status \in {"error", "success"}
      <4>1. RootStep.on_error = "stop"
        BY StepFields
      <4> QED
        BY <1>r, <3>2, <4>1, RootEnds
    <3>4. r.status = "success"
      BY <1>4, <2>4, <3>3
    <3> QED
      BY <3>1, <3>4
  <2> HIDE DEF o
  <2>5. CASE outputs' = outputs
    BY <2>5 DEF Keeps
  <2>6. CASE outputs' # outputs
    BY <2>2, <2>3, <2>4, <2>6 DEF Keeps
  <2> QED
    BY <2>5, <2>6
<1>7. history' = [x \in AgentPlaces |-> IF x[1] = index THEN Noted(history[x], e[x]) ELSE history[x]]
  <2>1. history' = [x \in AgentPlaces |-> IF x = x0 THEN Noted(history[x0], r) ELSE history[x]]
    BY <1>4
  <2>2. \A x \in AgentPlaces : x[1] = index <=> x = x0
    BY <1>2 DEF Here
  <2> HIDE DEF x0
  <2> QED
    BY <1>3, <2>1, <2>2
<1>8. Effect(e)
  <2> HIDE DEF x0, s
  <2>1. \A x \in Here : e[x] \in BranchEndings(StepAt(x)) /\ e[x].status # "expired"
    BY <1>1, <1>2, <1>3 DEF s, BranchEndings
  <2> QED
    BY <1>5, <1>6, <1>7, <2>1 DEF Effect
<1>9. Proceeds(e)
  <2>1. \/ Advances /\ (r.status \in {"success", "skipped"} \/ s.on_error = "continue")
        \/ /\ r.status = "error" /\ s.on_error # "continue"
           /\ IF \E k \in DOMAIN plan : plan[k].name = <<s.on_error>>
              THEN /\ index' = CHOOSE k \in DOMAIN plan : plan[k].name = <<s.on_error>>
                   /\ status' = status
              ELSE Stops
    BY DEF ExecuteStep
  <2>2. index = 1 => x0 = <<1, 0>> /\ s.on_error = "stop" /\ ~\E k \in DOMAIN plan : plan[k].name = <<s.on_error>>
    <3> SUFFICES ASSUME index = 1 PROVE s.on_error = "stop" /\ ~\E k \in DOMAIN plan : plan[k].name = <<s.on_error>>
      OBVIOUS
    <3>1. s = RootStep
      BY <1>r
    <3>2. s.on_error = "stop" /\ RootStep.name = <<Root>>
      BY <3>1, StepFields
    <3>3. Root # "stop"
      BY ChainAssumption
    <3>4. ASSUME NEW k \in DOMAIN plan, plan[k].name = <<"stop">> PROVE FALSE
      <4>1. CASE plan[k] = RootStep
        <5>1. <<Root>> = <<"stop">>
          BY <3>2, <3>4, <4>1
        <5> QED
          BY <3>3, <5>1
      <4>2. CASE \E a, b : plan[k].name = <<a, b>>
        BY <3>4, <4>2
      <4> QED
        BY <4>1, <4>2, PlanNames
    <3> QED
      BY <3>2, <3>4
  <2>3. CASE Advances /\ (r.status \in {"success", "skipped"} \/ s.on_error = "continue")
    <3>1. status' \in {"running", "completed"} /\ (status' = "running" => index' \in DOMAIN plan)
      BY <2>3, NextPlace
    <3>2. index = 1 => e[<<1, 0>>].status # "error"
      BY <1>3, <2>2, <2>3
    <3> QED
      BY <3>1, <3>2 DEF Proceeds
  <2>4. CASE /\ r.status = "error" /\ s.on_error # "continue"
             /\ \E k \in DOMAIN plan : plan[k].name = <<s.on_error>>
             /\ index' = CHOOSE k \in DOMAIN plan : plan[k].name = <<s.on_error>>
             /\ status' = status
    <3>1. index' \in DOMAIN plan
      BY <2>4
    <3> QED
      BY <2>2, <2>4, <3>1 DEF Proceeds
  <2>5. CASE Stops
    BY <2>5 DEF Stops, Proceeds
  <2> QED
    BY <2>1, <2>3, <2>4, <2>5
<1> QED
  BY <1>8, <1>9

LEMMA FanoutIs ==
  ASSUME PlanOK, NEW k \in DOMAIN plan, plan[k].branches # <<>>
  PROVE  /\ k # 1 /\ Len(plan[k].branches) \in Nat
         /\ DOMAIN plan[k].branches = 1 .. Len(plan[k].branches)
         /\ \A b \in DOMAIN plan[k].branches :
              plan[k].branches[b].branches = <<>> /\ plan[k].branches[b].negates = <<>>
<1>1. plan = CompileChain(config) /\ Compiles(config)
  BY DEF PlanOK, Compiles
<1>2. DOMAIN plan = 1 .. Len(plan) /\ Len(plan) \in Nat /\ plan[1] = RootStep /\ \A i \in 2 .. Len(plan) : plan[i] \in Levels(config)
  BY <1>1, PlanIs
<1>3. k # 1
  BY <1>2, StepFields
<1>4. PICK p \in Expansions(config) : plan[k] \in LevelOf(config, p)
  <2>1. k \in 2 .. Len(plan)
    BY <1>2, <1>3
  <2> QED
    BY <1>2, <2>1 DEF Levels
<1> DEFINE c == config[Last(p)]
<1>5. c.links \in Seq(Link) /\ Parses(c)
  BY <1>1, ConfigIs
<1> HIDE DEF c
<1>6. plan[k] \in LinkSteps(c, p) \/ IsFanout(plan[k], c, p)
  BY <1>4, <1>5, LevelIs DEF LevelOf, c
<1>7. plan[k].branches = Subs(c, p)
  BY <1>6, BranchesAre
<1>8. ASSUME NEW l PROVE AStep(l, p).branches = <<>> /\ AStep(l, p).negates = <<>>
  BY DEF AStep
<1> QED
  BY <1>3, <1>5, <1>7, <1>8, SubsAre

LEMMA LastOfIs ==
  ASSUME NEW s, NEW m \in Nat, NEW set \in SUBSET (1 .. m), NEW c \in set
  PROVE  /\ LastOf(s, set, s.branches[c].name) \in set
         /\ s.branches[LastOf(s, set, s.branches[c].name)].name = s.branches[c].name
<1> DEFINE n == s.branches[c].name
           B == {b \in set : s.branches[b].name = n}
           T == {m - b : b \in B}
<1>1. B \subseteq 1 .. m /\ c \in B
  OBVIOUS
<1> HIDE DEF B
<1>2. T \in SUBSET Nat /\ T # {}
  <2>1. ASSUME NEW b \in B PROVE m - b \in Nat
    BY <1>1
  <2> QED
    BY <1>1, <2>1
<1>3. PICK t \in T : \A i \in T : t <= i
  <2> HIDE DEF T
  <2> QED
    BY <1>2, Least
<1>4. PICK b \in B : t = m - b
  BY <1>3
<1>5. \A d \in B : d <= b
  <2> TAKE d \in B
  <2>1. m - d \in T
    OBVIOUS
  <2>2. m - b <= m - d
    BY <1>3, <1>4, <2>1
  <2> QED
    BY <1>1, <2>2
<1>6. b \in set /\ s.branches[b].name = n /\ \A d \in set : s.branches[d].name = n => d <= b
  BY <1>5 DEF B
<1> HIDE DEF n
<1>7. \E q \in set : s.branches[q].name = n /\ \A d \in set : s.branches[d].name = n => d <= q
  BY <1>6
<1>8. LastOf(s, set, n) \in set /\ s.branches[LastOf(s, set, n)].name = n
  BY <1>7 DEF LastOf
<1> QED
  BY <1>8 DEF n

LEMMA FanoutForm ==
  ASSUME PlanOK, history \in [AgentPlaces -> Result], index \in DOMAIN plan, status = "running",
         config' = config, plan' = plan,
         plan[index].branches # <<>>, NEW rs, DOMAIN rs = DOMAIN plan[index].branches,
         \A b \in DOMAIN rs : rs[b] \in BranchEndings(plan[index].branches[b]),
         ~Expires(rs),
         RunFanout(plan[index], rs)
  PROVE  \E e : Effect(e) /\ Proceeds(e)
<1> DEFINE s == plan[index]
           D == DOMAIN rs
           nm(b) == s.branches[b].name
           e == [x \in Here |-> rs[x[2]]]
           g == [n \in {nm(b) : b \in D} |-> rs[LastOf(s, D, n)]]
           set == {b \in D : rs[b].matched # "unset"}
           h == [n \in {nm(b) : b \in set} |-> rs[LastOf(s, set, n)].matched = "yes"]
           o == [n \in DOMAIN g |-> Output(g[n])]
<1>1. index # 1 /\ Len(s.branches) \in Nat /\ D = 1 .. Len(s.branches) /\ \A b \in D : s.branches[b].branches = <<>>
  BY FanoutIs
<1>2. /\ results' = Override(results, g)
      /\ history' = [x \in DOMAIN history |-> IF x[1] = index THEN Noted(history[x], rs[x[2]]) ELSE history[x]]
      /\ guards' = Override(guards, Merged(s, rs))
      /\ outputs' = Override(outputs, o)
      /\ IF \E b \in D : rs[b].status = "error" /\ s.branches[b].on_error # "continue"
         THEN Stops
         ELSE IF Durable THEN status' = "raised" /\ index' = index ELSE Advances
  BY DEF RunFanout
<1>3. Merged(s, rs) = h
  BY DEF Merged
<1>4. /\ \A b \in D : <<index, b>> \in Here /\ NameAt(<<index, b>>) = nm(b) /\ StepAt(<<index, b>>) = s.branches[b]
      /\ \A x \in Here : x[2] \in D /\ x = <<index, x[2]>> /\ NameAt(x) = nm(x[2]) /\ StepAt(x) = s.branches[x[2]]
  <2>1. ASSUME NEW b \in D PROVE <<index, b>> \in AgentPlaces /\ StepAt(<<index, b>>) = s.branches[b]
    BY <1>1, PlaceIntro
  <2>2. ASSUME NEW x \in Here PROVE x[2] \in D /\ x = <<index, x[2]>> /\ StepAt(x) = s.branches[x[2]]
    <3>1. x \in AgentPlaces /\ x[1] = index
      BY DEF Here
    <3>2. x = <<x[1], x[2]>> /\ x[2] # 0
      BY <3>1, PlaceIs
    <3>3. x[2] \in DOMAIN plan[x[1]].branches /\ StepAt(x) = plan[x[1]].branches[x[2]]
      BY <3>1, <3>2, PlaceIs
    <3> QED
      BY <3>1, <3>2, <3>3
  <2>3. \A b \in D : <<index, b>>[1] = index
    OBVIOUS
  <2> QED
    BY <2>1, <2>2, <2>3 DEF Here, NameAt
<1>5. \A b \in D : <<index, b>> \in Here /\ e[<<index, b>>] = rs[b]
  BY <1>4
<1>6. \A x \in Here : e[x] = rs[x[2]]
  OBVIOUS
<1> HIDE DEF s, D, e
<1>a. \A b \in D : LastOf(s, D, nm(b)) \in D /\ nm(LastOf(s, D, nm(b))) = nm(b)
  <2>1. D \in SUBSET (1 .. Len(s.branches)) /\ Len(s.branches) \in Nat
    BY <1>1
  <2> QED
    BY <2>1, LastOfIs
<1>b. \A b \in set : LastOf(s, set, nm(b)) \in set /\ nm(LastOf(s, set, nm(b))) = nm(b)
  <2>1. set \in SUBSET (1 .. Len(s.branches)) /\ Len(s.branches) \in Nat
    BY <1>1
  <2> HIDE DEF set
  <2> QED
    BY <2>1, LastOfIs
<1> HIDE DEF nm
<1>c. {nm(b) : b \in D} = {NameAt(x) : x \in Here}
  <2>1. ASSUME NEW b \in D PROVE nm(b) \in {NameAt(x) : x \in Here}
    BY <1>4
  <2>2. ASSUME NEW x \in Here PROVE NameAt(x) \in {nm(b) : b \in D}
    BY <1>4
  <2> QED
    BY <2>1, <2>2
<1>7. Learns(e)
  <2>3. DOMAIN g = {NameAt(x) : x \in Here}
    BY <1>c
  <2>4. ASSUME NEW n \in DOMAIN g PROVE \E x \in Here : n = NameAt(x) /\ g[n] = e[x]
    <3>1. PICK b \in D : n = nm(b)
      OBVIOUS
    <3> DEFINE z == LastOf(s, D, n)
    <3>2. z \in D /\ nm(z) = n /\ g[n] = rs[z]
      BY <1>a, <3>1
    <3> HIDE DEF g, z
    <3> QED
      BY <1>4, <1>5, <3>2
  <2>5. DOMAIN h = {NameAt(x) : x \in {y \in Here : e[y].matched # "unset"}}
    <3>1. DOMAIN h = {nm(b) : b \in set}
      OBVIOUS
    <3>2. ASSUME NEW b \in set PROVE <<index, b>> \in Here /\ e[<<index, b>>].matched # "unset" /\ nm(b) = NameAt(<<index, b>>)
      BY <1>4, <1>5
    <3>3. ASSUME NEW y \in Here, e[y].matched # "unset" PROVE y[2] \in set /\ NameAt(y) = nm(y[2])
      BY <1>4, <1>6, <3>3
    <3> HIDE DEF h, set
    <3> QED
      BY <3>1, <3>2, <3>3
  <2>6. ASSUME NEW n \in DOMAIN h
        PROVE  \E x \in Here : n = NameAt(x) /\ e[x].matched # "unset" /\ h[n] = (e[x].matched = "yes")
    <3>1. PICK b \in set : n = nm(b)
      OBVIOUS
    <3> DEFINE z == LastOf(s, set, n)
    <3>2. z \in set /\ nm(z) = n /\ h[n] = (rs[z].matched = "yes")
      BY <1>b, <3>1
    <3>3. z \in D /\ rs[z].matched # "unset"
      BY <3>2
    <3> DEFINE x == <<index, z>>
    <3> HIDE DEF h, z, set
    <3>4. x \in Here /\ NameAt(x) = n /\ e[x] = rs[z]
      BY <1>4, <1>5, <3>2, <3>3
    <3> HIDE DEF x
    <3>5. e[x].matched # "unset" /\ h[n] = (e[x].matched = "yes")
      BY <3>2, <3>3, <3>4
    <3> QED
      BY <3>4, <3>5
  <2>7. results' = Override(results, g) /\ guards' = Override(guards, h)
    BY <1>2, <1>3
  <2> HIDE DEF g, h, set, o
  <2> QED
    BY <2>3, <2>4, <2>5, <2>6, <2>7 DEF Learns
<1>8. Keeps
  <2>1. DOMAIN o = {NameAt(x) : x \in Here}
    BY <1>c
  <2>2. \A n \in DOMAIN o : o[n] \in BOOLEAN
    BY DEF Output
  <2> HIDE DEF o
  <2>3. <<Root>> \notin DOMAIN o
    <3>1. ASSUME NEW x \in Here, NameAt(x) = <<Root>> PROVE FALSE
      <4>1. x \in AgentPlaces /\ x[1] = index
        BY DEF Here
      <4>2. x = <<1, 0>> \/ \E a, b : NameAt(x) = <<a, b>>
        BY <4>1, PlaceNames
      <4> QED
        BY <1>1, <3>1, <4>1, <4>2
    <3> QED
      BY <2>1, <3>1
  <2> QED
    BY <1>2, <2>1, <2>2, <2>3 DEF Keeps
<1>9. history' = [x \in AgentPlaces |-> IF x[1] = index THEN Noted(history[x], e[x]) ELSE history[x]]
  <2>1. DOMAIN history = AgentPlaces
    OBVIOUS
  <2>2. \A x \in AgentPlaces : x[1] = index => e[x] = rs[x[2]]
    BY <1>6 DEF Here
  <2> QED
    BY <1>2, <2>1, <2>2
<1>10. Effect(e)
  <2>1. \A x \in Here : e[x] \in BranchEndings(StepAt(x)) /\ e[x].status # "expired"
    <3> TAKE x \in Here
    <3>1. x[2] \in D /\ StepAt(x) = s.branches[x[2]] /\ e[x] = rs[x[2]]
      BY <1>4, <1>6
    <3>2. rs[x[2]] \in BranchEndings(s.branches[x[2]]) /\ rs[x[2]].status # "expired"
      BY <3>1 DEF s, D, Expires
    <3> QED
      BY <3>1, <3>2
  <2> QED
    BY <1>7, <1>8, <1>9, <2>1 DEF Effect
<1>11. Proceeds(e)
  <2>1. CASE Stops
    BY <1>1, <2>1 DEF Stops, Proceeds
  <2>2. CASE status' = "raised" /\ index' = index
    BY <1>1, <2>2 DEF Proceeds
  <2>3. CASE Advances
    BY <1>1, <2>3, NextPlace DEF Proceeds
  <2> QED
    BY <1>2, <2>1, <2>2, <2>3
<1> QED
  BY <1>10, <1>11

\* A turn ends in an exception nothing caught, or has an effect and moves on.
LEMMA DriveForm ==
  ASSUME PlanOK, history \in [AgentPlaces -> Result],
         status = "running" => index \in DOMAIN plan, Drive
  PROVE  status = "running" /\ index \in DOMAIN plan /\ (Uncaught \/ \E e : Effect(e) /\ Proceeds(e))
<1> DEFINE s == plan[index]
           S == IF s.branches = <<>> THEN [{1} -> Endings(s)]
                ELSE {f \in [DOMAIN s.branches -> UNION {BranchEndings(s.branches[b]) : b \in DOMAIN s.branches}] :
                        \A b \in DOMAIN s.branches : f[b] \in BranchEndings(s.branches[b])}
<1>1. status = "running" /\ index \in DOMAIN plan /\ config' = config /\ plan' = plan
  BY DEF Drive
<1>2. PICK rs \in S :
         \/ Escapes(s)
         \/ Expires(rs) /\ status' = "raised" /\ UNCHANGED <<index, outputs, guards, results, history>>
         \/ ~Expires(rs) /\ s.branches = <<>> /\ ExecuteStep(s, rs[1])
         \/ ~Expires(rs) /\ s.branches # <<>> /\ RunFanout(s, rs)
  BY DEF Drive
<1>e. CASE Escapes(s)
  BY <1>1, <1>e DEF Escapes, GuardRaises, Stops, Uncaught
<1>3. CASE Expires(rs) /\ status' = "raised" /\ UNCHANGED <<index, outputs, guards, results, history>>
  BY <1>1, <1>3 DEF Uncaught
<1>4. CASE ~Expires(rs) /\ s.branches = <<>> /\ ExecuteStep(s, rs[1])
  <2>1. rs[1] \in Endings(s) /\ DOMAIN rs = {1}
    BY <1>2, <1>4
  <2>2. rs[1].status # "expired"
    BY <1>4, <2>1 DEF Expires
  <2> QED
    BY <1>1, <1>4, <2>1, <2>2, SingleForm
<1>5. CASE ~Expires(rs) /\ s.branches # <<>> /\ RunFanout(s, rs)
  <2>1. DOMAIN rs = DOMAIN s.branches /\ \A b \in DOMAIN rs : rs[b] \in BranchEndings(s.branches[b])
    BY <1>2, <1>5
  <2> QED
    BY <1>1, <1>5, <2>1, FanoutForm
<1> QED
  BY <1>1, <1>2, <1>3, <1>4, <1>5, <1>e

-----------------------------------------------------------------------------
(* The invariant.                                                          *)

\* A place that read a step found it.
ReadOK(x) ==
  /\ history[x].status = "success" => Resolves(StepAt(x).input)
  /\ history[x].status \in {"success", "skipped"} /\ StepAt(x).negates = <<>> => Resolves(StepAt(x).when)

\* What is kept of the agent that was called is an answer.
RootAnswered == <<Root>> \in DOMAIN outputs => outputs[<<Root>>]

\* The context keeps the result of this place, and whether its guard held.
Remembers(x) ==
  /\ NameAt(x) \in DOMAIN results <=> history[x].status # "none"
  /\ NameAt(x) \in DOMAIN results => results[NameAt(x)].status = history[x].status
  /\ NameAt(x) \in DOMAIN guards <=> history[x].matched # "unset"
  /\ NameAt(x) \in DOMAIN guards => (guards[NameAt(x)] <=> history[x].matched = "yes")

ContextOK ==
  LET names == {NameAt(x) : x \in AgentPlaces} IN
  /\ DOMAIN outputs \subseteq names /\ \A n \in DOMAIN outputs : outputs[n] \in BOOLEAN
  /\ DOMAIN results \subseteq names /\ \A n \in DOMAIN results : results[n] \in Result
  /\ DOMAIN guards \subseteq DOMAIN results /\ GuardsOK

\* A root that failed stopped its chain.
RootStops == <<1, 0>> \in AgentPlaces /\ history[<<1, 0>>].status = "error" => status = "failed"

ChainInv ==
  /\ PlanOK
  /\ status \in {"refused", "running", "completed", "failed", "raised"}
  /\ status = "refused" <=> Raises(config)
  /\ status = "running" => index \in DOMAIN plan
  /\ history \in [AgentPlaces -> Result]
  /\ \A x \in AgentPlaces : ReadOK(x)
  /\ ContextOK
  /\ RootStops
  /\ RootAnswered
  /\ UniqueNames => \A x \in AgentPlaces : Remembers(x)

LEMMA NegatesAre ==
  ASSUME PlanOK, NEW x \in AgentPlaces
  PROVE  \E m \in Nat : DOMAIN StepAt(x).negates = 1 .. m
<1>1. DOMAIN <<>> = 1 .. 0
  OBVIOUS
<1>2. CASE StepAt(x) = RootStep
  <2>1. RootStep.negates = <<>>
    BY StepFields
  <2> QED
    BY <1>1, <1>2, <2>1
<1>3. CASE \E p, l : IsLink(StepAt(x), p, l)
  <2>1. PICK p, l : IsLink(StepAt(x), p, l)
    BY <1>3
  <2> DEFINE c == config[Last(p)]
  <2>2. c.links \in Seq(Link) /\ Parses(c)
    <3>1. Compiles(config) /\ p \in Expansions(config)
      BY <2>1, PlaceIs DEF PlanOK, Compiles, IsLink
    <3> QED
      BY <3>1, ConfigIs
  <2>3. StepAt(x) = DefaultStep(l, c, p) \/ StepAt(x) = AStep(l, p)
    BY <2>1 DEF IsLink
  <2> HIDE DEF c
  <2>4. StepAt(x).negates = <<>> \/ StepAt(x).negates = GuardNames(c, p)
    <3>1. AStep(l, p).negates = <<>>
      BY DEF AStep
    <3>2. DefaultStep(l, c, p).negates = GuardNames(c, p)
      BY DEF AStep, DefaultStep
    <3> QED
      BY <2>3, <3>1, <3>2
  <2>5. Guarded(c) \in Seq(Link)
    BY <2>2, LinksAre
  <2>6. DOMAIN GuardNames(c, p) = 1 .. Len(Guarded(c)) /\ Len(Guarded(c)) \in Nat
    BY <2>5 DEF GuardNames
  <2> QED
    BY <1>1, <2>4, <2>6
<1> QED
  BY <1>2, <1>3, PlaceIs

LEMMA StartsOK == ChainInit => ChainInv
<1> SUFFICES ASSUME ChainInit PROVE ChainInv
  OBVIOUS
<1>1. PlanOK
  BY DEF ChainInit, PlanOK
<1>2. status \in {"refused", "running"} /\ (status = "refused" <=> Raises(config)) /\ index = 1
  BY DEF ChainInit
<1>3. status = "running" => index \in DOMAIN plan
  <2> SUFFICES ASSUME ~Raises(config) PROVE 1 \in DOMAIN plan
    BY <1>2
  <2>1. plan = CompileChain(config) /\ Compiles(config)
    BY <1>1 DEF PlanOK, Compiles
  <2>2. Len(plan) \in Nat /\ Len(plan) >= 1 /\ DOMAIN plan = 1 .. Len(plan)
    BY <2>1, PlanIs
  <2> QED
    BY <2>2
<1>4. history = [x \in AgentPlaces |-> Unrun] /\ Unrun \in Result /\ Unrun.status = "none" /\ Unrun.matched = "unset"
  BY DEF ChainInit, Unrun, Result
<1>5. history \in [AgentPlaces -> Result] /\ \A x \in AgentPlaces : ReadOK(x)
  BY <1>4 DEF ReadOK
<1>6. DOMAIN outputs = {} /\ DOMAIN results = {} /\ DOMAIN guards = {}
  <2>1. outputs = [n \in {} |-> 0] /\ results = [n \in {} |-> 0] /\ guards = [n \in {} |-> 0]
    BY DEF ChainInit, Empty
  <2> QED
    BY <2>1
<1>7. ContextOK
  BY <1>6 DEF ContextOK, GuardsOK
<1>8. RootStops
  BY <1>4 DEF RootStops
<1>9. (\A x \in AgentPlaces : Remembers(x)) /\ RootAnswered
  BY <1>4, <1>6 DEF Remembers, RootAnswered
<1> QED
  BY <1>1, <1>2, <1>3, <1>5, <1>7, <1>8, <1>9 DEF ChainInv

\* The plan stays, so its places do.
LEMMA PlacesStay ==
  ASSUME plan' = plan
  PROVE  /\ AgentPlaces' = AgentPlaces
         /\ \A x : StepAt(x)' = StepAt(x) /\ NameAt(x)' = NameAt(x)
         /\ UniqueNames' <=> UniqueNames
<1>1. \A x : StepAt(x)' = StepAt(x)
  BY DEF StepAt
<1>2. AgentPlaces' = AgentPlaces
  BY DEF AgentPlaces, StepAt
<1>3. \A x : NameAt(x)' = NameAt(x)
  BY <1>1 DEF NameAt
<1>4. UniqueNames' <=> UniqueNames
  BY <1>1, <1>2 DEF UniqueNames
<1> QED
  BY <1>1, <1>2, <1>3, <1>4

LEMMA OverrideIs ==
  ASSUME NEW f, NEW g
  PROVE  /\ DOMAIN Override(f, g) = DOMAIN f \cup DOMAIN g
         /\ \A n \in DOMAIN Override(f, g) : Override(f, g)[n] = IF n \in DOMAIN g THEN g[n] ELSE f[n]
BY DEF Override

LEMMA RanOK ==
  ASSUME PlanOK, GuardsOK, history \in [AgentPlaces -> Result], NEW e, Effect(e), NEW x \in Here
  PROVE  LET s == StepAt(x) IN
         /\ x \in AgentPlaces /\ x[1] = index /\ e[x] \in Result /\ e[x].status # "none"
         /\ history'[x] \in Result /\ history'[x].status = e[x].status
         /\ history'[x].matched = IF e[x].matched = "unset" THEN history[x].matched ELSE e[x].matched
         /\ s.negates # <<>> => (history'[x].matched = "yes" <=> NoneHeld(s.negates))
         /\ e[x].status = "success" => Resolves(s.input)
         /\ e[x].status \in {"success", "skipped"} /\ s.negates = <<>> => Resolves(s.when)
<1>1. x \in AgentPlaces /\ x[1] = index
  BY DEF Here
<1>2. PICK m \in Nat : DOMAIN StepAt(x).negates = 1 .. m
  BY <1>1, NegatesAre
<1>3. e[x] \in BranchEndings(StepAt(x)) /\ e[x].status # "expired"
  BY DEF Effect
<1>4. history'[x] = Noted(history[x], e[x]) /\ history[x] \in Result
  BY <1>1 DEF Effect
<1>5. /\ e[x] \in Result /\ e[x].status # "none"
      /\ StepAt(x).negates # <<>> =>
           e[x].matched # "unset" /\ (e[x].matched = "yes" <=> NoneHeld(StepAt(x).negates))
      /\ e[x].status = "success" => Resolves(StepAt(x).input)
      /\ e[x].status \in {"success", "skipped"} /\ StepAt(x).negates = <<>> => Resolves(StepAt(x).when)
  BY <1>2, <1>3, EndingIs
<1>6. /\ Noted(history[x], e[x]) \in Result /\ Noted(history[x], e[x]).status = e[x].status
      /\ Noted(history[x], e[x]).matched = IF e[x].matched = "unset" THEN history[x].matched ELSE e[x].matched
  BY <1>4, <1>5, NotedIs
<1> QED
  BY <1>1, <1>4, <1>5, <1>6

\* What was found is found later: the outputs only grow.
LEMMA OutputsGrow ==
  ASSUME Keeps, RootAnswered
  PROVE  DOMAIN outputs \subseteq DOMAIN outputs' /\ RootAnswered'
<1>1. CASE outputs' = outputs
  BY <1>1 DEF RootAnswered
<1>2. CASE \E o : outputs' = Override(outputs, o) /\ (<<Root>> \in DOMAIN o => o[<<Root>>])
  <2>1. PICK o : outputs' = Override(outputs, o) /\ (<<Root>> \in DOMAIN o => o[<<Root>>])
    BY <1>2
  <2>2. /\ DOMAIN outputs' = DOMAIN outputs \cup DOMAIN o
        /\ \A n \in DOMAIN outputs' : outputs'[n] = IF n \in DOMAIN o THEN o[n] ELSE outputs[n]
    <3>1. /\ DOMAIN Override(outputs, o) = DOMAIN outputs \cup DOMAIN o
          /\ \A n \in DOMAIN Override(outputs, o) :
               Override(outputs, o)[n] = IF n \in DOMAIN o THEN o[n] ELSE outputs[n]
      BY OverrideIs
    <3> QED
      BY <2>1, <3>1
  <2> DEFINE root == <<Root>>
  <2>3. /\ root \in DOMAIN o => o[root]
        /\ root \in DOMAIN outputs => outputs[root]
    BY <2>1 DEF RootAnswered
  <2> HIDE DEF root
  <2>4. root \in DOMAIN outputs' => outputs'[root]
    BY <2>2, <2>3
  <2>5. RootAnswered'
    BY <2>4 DEF RootAnswered, root
  <2> QED
    BY <2>2, <2>5
<1> QED
  BY <1>1, <1>2 DEF Keeps

LEMMA EffectKeeps ==
  ASSUME ChainInv, status = "running", index \in DOMAIN plan, NEW e, Effect(e), Proceeds(e)
  PROVE  ChainInv'
<1> DEFINE names == {NameAt(x) : x \in AgentPlaces}
<1>1. /\ PlanOK /\ history \in [AgentPlaces -> Result] /\ GuardsOK /\ ~Raises(config)
      /\ (\A x \in AgentPlaces : ReadOK(x)) /\ RootAnswered
      /\ DOMAIN outputs \subseteq names /\ \A n \in DOMAIN outputs : outputs[n] \in BOOLEAN
      /\ DOMAIN results \subseteq names /\ \A n \in DOMAIN results : results[n] \in Result
      /\ DOMAIN guards \subseteq DOMAIN results /\ \A n \in DOMAIN guards : guards[n] \in BOOLEAN
  BY DEF ChainInv, ContextOK, GuardsOK
<1>2. config' = config /\ plan' = plan /\ Learns(e) /\ Keeps
      /\ \A x \in AgentPlaces : x[1] # index => history'[x] = history[x]
  BY DEF Effect
<1>3. AgentPlaces' = AgentPlaces /\ (\A x : StepAt(x)' = StepAt(x) /\ NameAt(x)' = NameAt(x)) /\ (UniqueNames' <=> UniqueNames)
  BY <1>2, PlacesStay
<1>4. \A x \in Here :
        /\ x \in AgentPlaces /\ x[1] = index /\ e[x] \in Result /\ e[x].status # "none"
        /\ history'[x] \in Result /\ history'[x].status = e[x].status
        /\ history'[x].matched = IF e[x].matched = "unset" THEN history[x].matched ELSE e[x].matched
        /\ e[x].status = "success" => Resolves(StepAt(x).input)
        /\ e[x].status \in {"success", "skipped"} /\ StepAt(x).negates = <<>> => Resolves(StepAt(x).when)
  BY <1>1, RanOK
<1>5. \A x \in AgentPlaces : x \notin Here => history'[x] = history[x]
  BY <1>2 DEF Here
<1>6. PICK g, h :
        /\ results' = Override(results, g) /\ guards' = Override(guards, h)
        /\ DOMAIN g = {NameAt(x) : x \in Here}
        /\ \A n \in DOMAIN g : \E x \in Here : n = NameAt(x) /\ g[n] = e[x]
        /\ DOMAIN h = {NameAt(x) : x \in {y \in Here : e[y].matched # "unset"}}
        /\ \A n \in DOMAIN h :
             \E x \in Here : n = NameAt(x) /\ e[x].matched # "unset" /\ h[n] = (e[x].matched = "yes")
  BY <1>2 DEF Learns
<1>7. /\ DOMAIN results' = DOMAIN results \cup DOMAIN g
      /\ \A n \in DOMAIN results' : results'[n] = IF n \in DOMAIN g THEN g[n] ELSE results[n]
      /\ DOMAIN guards' = DOMAIN guards \cup DOMAIN h
      /\ \A n \in DOMAIN guards' : guards'[n] = IF n \in DOMAIN h THEN h[n] ELSE guards[n]
  <2>1. /\ DOMAIN results' = DOMAIN results \cup DOMAIN g
        /\ \A n \in DOMAIN results' : results'[n] = IF n \in DOMAIN g THEN g[n] ELSE results[n]
    <3>1. results' = Override(results, g)
      BY <1>6
    <3>2. /\ DOMAIN Override(results, g) = DOMAIN results \cup DOMAIN g
          /\ \A n \in DOMAIN Override(results, g) :
               Override(results, g)[n] = IF n \in DOMAIN g THEN g[n] ELSE results[n]
      BY OverrideIs
    <3> QED
      BY <3>1, <3>2
  <2>2. /\ DOMAIN guards' = DOMAIN guards \cup DOMAIN h
        /\ \A n \in DOMAIN guards' : guards'[n] = IF n \in DOMAIN h THEN h[n] ELSE guards[n]
    <3>1. guards' = Override(guards, h)
      BY <1>6
    <3>2. /\ DOMAIN Override(guards, h) = DOMAIN guards \cup DOMAIN h
          /\ \A n \in DOMAIN Override(guards, h) :
               Override(guards, h)[n] = IF n \in DOMAIN h THEN h[n] ELSE guards[n]
      BY OverrideIs
    <3> QED
      BY <3>1, <3>2
  <2> QED
    BY <2>1, <2>2
<1>8. DOMAIN g \subseteq names /\ DOMAIN h \subseteq DOMAIN g
  BY <1>4, <1>6
<1>9. PlanOK'
  BY <1>1, <1>2 DEF PlanOK
<1>10. status' \in {"refused", "running", "completed", "failed", "raised"} /\ status' # "refused" /\ (status' = "running" => index' \in DOMAIN plan')
  BY <1>2 DEF Proceeds
<1>11. history' \in [AgentPlaces' -> Result]
  <2>1. \A x \in AgentPlaces : history'[x] \in Result
    BY <1>1, <1>4, <1>5
  <2> DEFINE f(x) == IF x[1] = index THEN Noted(history[x], e[x]) ELSE history[x]
  <2>2. history' \in [AgentPlaces -> Result]
    <3>1. history' = [x \in AgentPlaces |-> f(x)]
      BY DEF Effect
    <3> HIDE DEF f
    <3>2. \A x \in AgentPlaces : history'[x] = f(x)
      BY <3>1
    <3>3. \A x \in AgentPlaces : f(x) \in Result
      BY <2>1, <3>2
    <3> QED
      BY <3>1, <3>3
  <2> QED
    BY <1>3, <2>2
<1>g. DOMAIN outputs \subseteq DOMAIN outputs' /\ RootAnswered'
  BY <1>1, <1>2, OutputsGrow
<1>12. ASSUME NEW x \in AgentPlaces PROVE ReadOK(x)'
  <2>1. \A ref : Resolves(ref) => Resolves(ref)'
    BY <1>g DEF Resolves
  <2>2. ReadOK(x) /\ StepAt(x)' = StepAt(x)
    BY <1>1, <1>3
  <2>3. CASE x \in Here
    BY <1>4, <2>1, <2>2, <2>3 DEF ReadOK
  <2>4. CASE x \notin Here
    BY <1>5, <2>1, <2>2, <2>4 DEF ReadOK
  <2> QED
    BY <2>3, <2>4
<1>13. ContextOK'
  <2>1. names' = names
    BY <1>3
  <2>2. DOMAIN outputs' \subseteq names /\ \A n \in DOMAIN outputs' : outputs'[n] \in BOOLEAN
    <3>1. CASE outputs' = outputs
      BY <1>1, <3>1
    <3>2. CASE \E o : /\ outputs' = Override(outputs, o) /\ DOMAIN o = {NameAt(x) : x \in Here}
                      /\ \A n \in DOMAIN o : o[n] \in BOOLEAN
      <4>1. PICK o : /\ outputs' = Override(outputs, o) /\ DOMAIN o = {NameAt(x) : x \in Here}
                     /\ \A n \in DOMAIN o : o[n] \in BOOLEAN
        BY <3>2
      <4>2. /\ DOMAIN outputs' = DOMAIN outputs \cup DOMAIN o
            /\ \A n \in DOMAIN outputs' : outputs'[n] = IF n \in DOMAIN o THEN o[n] ELSE outputs[n]
        BY <4>1, OverrideIs
      <4>3. DOMAIN o \subseteq names
        BY <1>4, <4>1
      <4> QED
        BY <1>1, <4>1, <4>2, <4>3
    <3> QED
      BY <1>2, <3>1, <3>2 DEF Keeps
  <2>3. DOMAIN results' \subseteq names /\ \A n \in DOMAIN results' : results'[n] \in Result
    <3>1. \A n \in DOMAIN g : g[n] \in Result
      BY <1>4, <1>6
    <3> QED
      BY <1>1, <1>7, <1>8, <3>1
  <2>4. DOMAIN guards' \subseteq DOMAIN results' /\ \A n \in DOMAIN guards' : guards'[n] \in BOOLEAN
    <3>1. \A n \in DOMAIN h : h[n] \in BOOLEAN
      BY <1>6
    <3> QED
      BY <1>1, <1>7, <1>8, <3>1
  <2> HIDE DEF names
  <2> QED
    BY <2>1, <2>2, <2>3, <2>4 DEF ContextOK, GuardsOK, names
<1>14. RootStops'
  <2> SUFFICES ASSUME <<1, 0>> \in AgentPlaces, history'[<<1, 0>>].status = "error" PROVE status' = "failed"
    BY <1>3 DEF RootStops
  <2> DEFINE r == <<1, 0>>
  <2>1. r[1] = 1
    OBVIOUS
  <2>2. CASE index = 1
    <3>1. r \in Here
      BY <2>1, <2>2 DEF Here
    <3> QED
      BY <1>4, <2>2, <3>1 DEF Proceeds
  <2>3. CASE index # 1
    <3>1. r \notin Here
      BY <2>1, <2>3 DEF Here
    <3>2. history[r].status = "error"
      BY <1>5, <3>1
    <3> QED
      BY <3>2 DEF ChainInv, RootStops
  <2> QED
    BY <2>2, <2>3
<1>15. ASSUME UniqueNames, NEW x \in AgentPlaces PROVE Remembers(x)'
  <2>1. Remembers(x)
    BY <1>15 DEF ChainInv
  <2>2. \A y \in Here : NameAt(y) = NameAt(x) => y = x
    BY <1>4, <1>15 DEF UniqueNames, NameAt
  <2> DEFINE n == NameAt(x)
  <2>3. CASE x \in Here
    <3>1. n \in DOMAIN g /\ g[n] = e[x]
      BY <1>6, <2>2, <2>3
    <3>2. n \in DOMAIN results' /\ results'[n] = e[x]
      BY <1>7, <3>1
    <3>3. n \in DOMAIN h <=> e[x].matched # "unset"
      BY <1>6, <2>2, <2>3
    <3>4. n \in DOMAIN h => (h[n] <=> e[x].matched = "yes")
      <4> SUFFICES ASSUME n \in DOMAIN h PROVE h[n] <=> e[x].matched = "yes"
        OBVIOUS
      <4>1. PICK y \in Here : n = NameAt(y) /\ h[n] = (e[y].matched = "yes")
        BY <1>6
      <4>2. y = x
        BY <2>2, <4>1
      <4> QED
        BY <4>1, <4>2
    <3>5. /\ history'[x].status = e[x].status
          /\ history'[x].matched = IF e[x].matched = "unset" THEN history[x].matched ELSE e[x].matched
      BY <1>4, <2>3
    <3>p. /\ n \in DOMAIN guards <=> history[x].matched # "unset"
          /\ n \in DOMAIN guards => (guards[n] <=> history[x].matched = "yes")
      BY <2>1 DEF Remembers
    <3>6. n \in DOMAIN guards' <=> history'[x].matched # "unset"
      BY <1>7, <3>3, <3>5, <3>p
    <3>7. n \in DOMAIN guards' => (guards'[n] <=> history'[x].matched = "yes")
      <4>1. CASE n \in DOMAIN h
        <5>1. n \in DOMAIN guards' /\ guards'[n] = h[n]
          BY <1>7, <4>1
        <5> QED
          BY <3>3, <3>4, <3>5, <4>1, <5>1
      <4>2. CASE n \notin DOMAIN h
        <5>1. n \in DOMAIN guards' => n \in DOMAIN guards /\ guards'[n] = guards[n]
          BY <1>7, <4>2
        <5> QED
          BY <3>3, <3>5, <3>p, <4>2, <5>1
      <4> QED
        BY <4>1, <4>2
    <3>8. e[x].status # "none"
      BY <1>4, <2>3
    <3>9. NameAt(x)' = n
      BY <1>3
    <3> HIDE DEF n
    <3> QED
      BY <3>2, <3>5, <3>6, <3>7, <3>8, <3>9 DEF Remembers
  <2>4. CASE x \notin Here
    <3>1. n \notin DOMAIN g /\ n \notin DOMAIN h
      BY <1>6, <1>8, <2>2, <2>4
    <3>2. /\ n \in DOMAIN results' <=> n \in DOMAIN results
          /\ n \in DOMAIN results => results'[n] = results[n]
          /\ n \in DOMAIN guards' <=> n \in DOMAIN guards
          /\ n \in DOMAIN guards => guards'[n] = guards[n]
      BY <1>7, <3>1
    <3>3. history'[x] = history[x]
      BY <1>5, <2>4
    <3>4. NameAt(x)' = n
      BY <1>3
    <3> QED
      BY <2>1, <3>2, <3>3, <3>4 DEF Remembers
  <2> QED
    BY <2>3, <2>4
<1>16. UniqueNames' => \A x \in AgentPlaces' : Remembers(x)'
  BY <1>3, <1>15
<1>17. Raises(config') <=> Raises(config)
  BY <1>2
<1>18. \A x \in AgentPlaces' : ReadOK(x)'
  BY <1>3, <1>12
<1> QED
  BY <1>1, <1>2, <1>9, <1>10, <1>11, <1>13, <1>14, <1>16, <1>18, <1>g DEF ChainInv

LEMMA RaisedKeeps == ASSUME ChainInv, status = "running", Uncaught PROVE ChainInv'
<1>1. status' \in {"raised", "failed"} /\ config' = config /\ plan' = plan /\ index' = index /\ outputs' = outputs /\ guards' = guards
      /\ results' = results /\ history' = history
  BY DEF Uncaught
<1>2. AgentPlaces' = AgentPlaces /\ (\A x : StepAt(x)' = StepAt(x) /\ NameAt(x)' = NameAt(x)) /\ (UniqueNames' <=> UniqueNames)
  BY <1>1, PlacesStay
<1>3. PlanOK' /\ ~Raises(config) /\ history' \in [AgentPlaces' -> Result]
  BY <1>1, <1>2 DEF PlanOK, ChainInv
<1>4. RootAnswered' /\ \A x \in AgentPlaces' : ReadOK(x)'
  BY <1>1, <1>2 DEF ChainInv, ReadOK, Resolves, RootAnswered
<1>5. ContextOK'
  BY <1>1, <1>2 DEF ContextOK, ChainInv, GuardsOK
<1>6. RootStops'
  BY <1>1, <1>2 DEF RootStops, ChainInv
<1>7. UniqueNames' => \A x \in AgentPlaces' : Remembers(x)'
  BY <1>1, <1>2 DEF Remembers, ChainInv
<1> QED
  BY <1>1, <1>3, <1>4, <1>5, <1>6, <1>7 DEF ChainInv

LEMMA StaysOK == ChainInv /\ [Drive]_chainVars => ChainInv'
<1> SUFFICES ASSUME ChainInv, [Drive]_chainVars PROVE ChainInv'
  OBVIOUS
<1>1. CASE Drive
  <2>1. status = "running" /\ index \in DOMAIN plan /\ (Uncaught \/ \E e : Effect(e) /\ Proceeds(e))
    BY <1>1, DriveForm DEF ChainInv
  <2> QED
    BY <2>1, EffectKeeps, RaisedKeeps
<1>2. CASE UNCHANGED chainVars
  <2>1. status' = status /\ config' = config /\ plan' = plan /\ index' = index /\ outputs' = outputs /\ guards' = guards
        /\ results' = results /\ history' = history
    BY <1>2 DEF chainVars
  <2>2. AgentPlaces' = AgentPlaces /\ (\A x : StepAt(x)' = StepAt(x) /\ NameAt(x)' = NameAt(x)) /\ (UniqueNames' <=> UniqueNames)
    BY <2>1, PlacesStay
  <2>3. PlanOK' /\ history' \in [AgentPlaces' -> Result]
    BY <2>1, <2>2 DEF PlanOK, ChainInv
  <2>4. RootAnswered' /\ \A x \in AgentPlaces' : ReadOK(x)'
    BY <2>1, <2>2 DEF ChainInv, ReadOK, Resolves, RootAnswered
  <2>5. ContextOK'
    BY <2>1, <2>2 DEF ContextOK, ChainInv, GuardsOK
  <2>6. RootStops'
    BY <2>1, <2>2 DEF RootStops, ChainInv
  <2>7. UniqueNames' => \A x \in AgentPlaces' : Remembers(x)'
    BY <2>1, <2>2 DEF Remembers, ChainInv
  <2> QED
    BY <2>1, <2>3, <2>4, <2>5, <2>6, <2>7 DEF ChainInv
<1> QED
  BY <1>1, <1>2

LEMMA AlwaysOK == ChainSpec => []ChainInv
BY StartsOK, StaysOK, PTL DEF ChainSpec

-----------------------------------------------------------------------------
(* What the places of a plan are called and read.                          *)

LEMMA RebindIs ==
  ASSUME NEW expr \in Template, NEW a
  PROVE  /\ Rebind(expr, a).kind = "step" => Rebind(expr, a).name \in {<<a>>, <<>>}
         /\ Rebind(expr, a).kind = "none" <=> expr = "none"
         /\ expr \in {"none", "trigger"} => Rebind(expr, a).kind = expr
BY DEF Rebind, Nowhere, Template

\* The root, or the step of a link: its name and its path.
LEMMA PlaceNamed ==
  ASSUME PlanOK, NEW x \in AgentPlaces
  PROVE  \/ /\ x = <<1, 0>> /\ StepAt(x) = RootStep
            /\ NameAt(x) = <<Root>> /\ StepAt(x).path = <<Root>> /\ Root \in Agent
         \/ \E p, l :
              /\ IsLink(StepAt(x), p, l)
              /\ NameAt(x) = <<Last(p), l.agent>> /\ StepAt(x).path = Append(p, l.agent)
              /\ StepAt(x).when = Rebind(l.when, Last(p)) /\ StepAt(x).input = Rebind(l.input, Last(p))
              /\ StepAt(x).negates = IF l.default THEN GuardNames(config[Last(p)], p) ELSE <<>>
              /\ p \in Expansions(config) /\ p \in Seq(Agent) /\ Last(p) \in Agent
              /\ l \in Link /\ l.agent \in Agent /\ l \in ToSet(config[Last(p)].links)
<1>1. CASE x = <<1, 0>> /\ StepAt(x) = RootStep
  <2>1. RootStep.name = <<Root>> /\ RootStep.path = <<Root>>
    BY DEF RootStep
  <2> QED
    BY <1>1, <2>1, ChainAssumption DEF NameAt
<1>2. CASE \E p, l : IsLink(StepAt(x), p, l)
  <2>1. PICK p, l : IsLink(StepAt(x), p, l)
    BY <1>2
  <2> DEFINE c == config[Last(p)]
  <2>2. Compiles(config) /\ p \in Expansions(config) /\ l \in ToSet(c.links)
    BY <2>1, PlaceIs DEF PlanOK, Compiles, IsLink
  <2>3. p \in Paths(config) /\ l \in Link /\ l.agent \in Agent
    BY <2>2, ConfigIs
  <2>4. p \in Seq(Agent) /\ Last(p) \in Agent
    BY <2>3, PathIs
  <2>5. StepAt(x) = IF l.default THEN DefaultStep(l, c, p) ELSE AStep(l, p)
    BY <2>1 DEF IsLink
  <2> HIDE DEF c
  <2>6. /\ AStep(l, p).name = <<Last(p), l.agent>> /\ AStep(l, p).path = Append(p, l.agent)
        /\ AStep(l, p).when = Rebind(l.when, Last(p)) /\ AStep(l, p).input = Rebind(l.input, Last(p))
        /\ AStep(l, p).negates = <<>>
    BY DEF AStep
  <2>7. /\ DefaultStep(l, c, p).name = <<Last(p), l.agent>> /\ DefaultStep(l, c, p).path = Append(p, l.agent)
        /\ DefaultStep(l, c, p).when = Rebind(l.when, Last(p)) /\ DefaultStep(l, c, p).input = Rebind(l.input, Last(p))
        /\ DefaultStep(l, c, p).negates = GuardNames(c, p)
    BY DEF AStep, DefaultStep
  <2>8. l.default \in BOOLEAN
    BY <2>3 DEF Link
  <2>9. /\ NameAt(x) = <<Last(p), l.agent>> /\ StepAt(x).path = Append(p, l.agent)
        /\ StepAt(x).when = Rebind(l.when, Last(p)) /\ StepAt(x).input = Rebind(l.input, Last(p))
        /\ StepAt(x).negates = IF l.default THEN GuardNames(c, p) ELSE <<>>
    BY <2>5, <2>6, <2>7, <2>8 DEF NameAt
  <2> QED
    BY <2>1, <2>2, <2>3, <2>4, <2>9 DEF c
<1> QED
  BY <1>1, <1>2, PlaceIs

LEMMA PathLasts ==
  ASSUME NEW p \in Expansions(config)
  PROVE  /\ p \in Seq(Agent) /\ Len(p) \in Nat /\ Len(p) >= 1 /\ Last(p) = p[Len(p)]
         /\ Last(p) = Root => Len(p) = 1
<1>1. p \in Paths(config)
  BY DEF Expansions
<1>2. p \in Seq(Agent) /\ Len(p) \in Nat /\ Len(p) >= 1 /\ p[1] = Root
      /\ \A j, k \in 1 .. Len(p) : p[j] = p[k] => j = k
  BY <1>1, PathIs
<1>3. Last(p) = p[Len(p)]
  BY DEF Last
<1>4. ASSUME p[Len(p)] = Root PROVE Len(p) = 1
  <2>1. 1 \in 1 .. Len(p) /\ Len(p) \in 1 .. Len(p) /\ p[Len(p)] = p[1]
    BY <1>2, <1>4
  <2> QED
    BY <1>2, <2>1
<1> QED
  BY <1>2, <1>3, <1>4

(* What a chained run keeps is well typed whatever its agents answer: the  *)
(* step in hand is one of the compiled workflow, and the context names     *)
(* only steps of it (compiler.py, executor.py, WorkflowEngine._drive).     *)
THEOREM ChainTypeCorrect == ChainSpec => []ChainTypeOK
<1>1. ASSUME ChainInv PROVE ChainTypeOK
  <2>1. \A x \in AgentPlaces : NameAt(x) \in Name
    BY <1>1, PlaceNamed DEF ChainInv, Name
  <2>2. config \in Configs
    BY <1>1 DEF ChainInv, PlanOK
  <2> QED
    BY <1>1, <2>1, <2>2 DEF ChainTypeOK, ChainInv, ContextOK, GuardsOK
<1> QED
  BY <1>1, AlwaysOK, PTL

(* What _rebind writes is found only under the agent that was called:      *)
(* whatever the chain, an agent that answered, or a guard that decided,    *)
(* with a reference to a step read the called agent's own answer and hangs *)
(* from it.  Further down a link that reads `output` gets no answer.       *)
THEOREM LinksReadOnlyTheRoot == ChainSpec => []ReadsOnlyRoot
<1>1. ASSUME ChainInv PROVE ReadsOnlyRoot
  <2>1. SUFFICES ASSUME NEW x \in AgentPlaces, NEW ref \in ReadBy(x), ref.kind = "step"
                 PROVE  /\ ref.name = <<Root>> /\ Len(StepAt(x).path) = 2
                        /\ ref.name \in DOMAIN outputs /\ outputs[ref.name]
    BY DEF ReadsOnlyRoot
  <2>2. PlanOK /\ ReadOK(x) /\ RootAnswered
    BY <1>1, <2>1 DEF ChainInv
  <2>3. StepAt(x) # RootStep
    <3>1. RootStep.when.kind = "none" /\ RootStep.input.kind = "trigger"
      BY DEF RootStep, Rebind
    <3> QED
      BY <2>1, <3>1 DEF ReadBy
  <2>4. PICK p, l :
          /\ StepAt(x).path = Append(p, l.agent)
          /\ StepAt(x).when = Rebind(l.when, Last(p)) /\ StepAt(x).input = Rebind(l.input, Last(p))
          /\ StepAt(x).negates = IF l.default THEN GuardNames(config[Last(p)], p) ELSE <<>>
          /\ p \in Expansions(config) /\ l \in Link /\ l.agent \in Agent
          /\ l \in ToSet(config[Last(p)].links)
    BY <2>2, <2>3, PlaceNamed
  <2>5. ref.name \in DOMAIN outputs
    <3>1. CASE ref = StepAt(x).input /\ history[x].status = "success"
      BY <2>1, <2>2, <3>1 DEF ReadOK, Resolves
    <3>2. CASE ref = StepAt(x).when /\ history[x].status \in {"success", "skipped"}
      <4>1. ~l.default
        <5>1. Compiles(config) /\ ~Raises(config)
          BY <2>2, PlaceIs DEF PlanOK, Compiles
        <5>2. config[Last(p)].links \in Seq(Link) /\ Parses(config[Last(p)])
          BY <2>4, <5>1, ConfigIs
        <5>3. l.default => l.when = "none"
          BY <2>4, <5>2 DEF Parses
        <5>4. Rebind("none", Last(p)).kind = "none"
          BY DEF Rebind
        <5> QED
          BY <2>1, <2>4, <3>2, <5>3, <5>4
      <4>2. StepAt(x).negates = <<>>
        BY <2>4, <4>1
      <4> QED
        BY <2>1, <2>2, <3>2, <4>2 DEF ReadOK, Resolves
    <3> QED
      BY <3>1, <3>2 DEF ReadBy
  <2>6. PICK y \in AgentPlaces : ref.name = NameAt(y)
    BY <1>1, <2>5 DEF ChainInv, ContextOK
  <2>7. ref.name = <<Root>> \/ \E a, b : ref.name = <<a, b>>
    BY <2>2, <2>6, PlaceNamed
  <2>8. ref.name \in {<<Last(p)>>, <<>>}
    <3>1. l.when \in Template /\ l.input \in Template
      BY <2>4 DEF Link
    <3> QED
      BY <2>1, <2>4, <3>1, RebindIs DEF ReadBy
  <2>9. Last(p) = Root /\ ref.name = <<Root>>
    <3> DEFINE n == ref.name
               q == Last(p)
    <3>1. n = <<Root>> \/ \E a, b : n = <<a, b>>
      BY <2>7
    <3>2. n \in {<<q>>, <<>>}
      BY <2>8
    <3> HIDE DEF n, q
    <3>3. n = <<Root>>
      BY <3>1, <3>2
    <3>4. q = Root
      BY <3>2, <3>3
    <3> QED
      BY <3>3, <3>4 DEF n, q
  <2>10. Len(p) = 1 /\ p \in Seq(Agent)
    BY <2>4, <2>9, PathLasts
  <2>11. Len(StepAt(x).path) = 2
    <3>1. p \in Seq(Agent) /\ l.agent \in Agent
      BY <2>4, <2>10
    <3>2. Len(Append(p, l.agent)) = Len(p) + 1
      BY <3>1, AppendIs
    <3> QED
      BY <2>4, <2>10, <3>2
  <2>12. outputs[ref.name]
    BY <2>2, <2>5, <2>9 DEF RootAnswered
  <2> QED
    BY <2>5, <2>9, <2>11, <2>12
<1> QED
  BY <1>1, AlwaysOK, PTL

-----------------------------------------------------------------------------
(* The report.                                                             *)

LEMMA PathsAreTheGraph ==
  ASSUME PlanOK, ~Raises(config)
  PROVE  {StepAt(x).path : x \in AgentPlaces} = ChainGraph(config) \cup {<<Root>>}
<1>1. Compiles(config)
  BY DEF PlanOK, Compiles
<1>2. ASSUME NEW x \in AgentPlaces PROVE StepAt(x).path \in ChainGraph(config) \cup {<<Root>>}
  <2>1. SUFFICES ASSUME StepAt(x).path # <<Root>> PROVE StepAt(x).path \in ChainGraph(config)
    OBVIOUS
  <2>2. PICK p, l :
          /\ StepAt(x).path = Append(p, l.agent) /\ p \in Expansions(config) /\ l.agent \in Agent
          /\ l \in ToSet(config[Last(p)].links)
    BY <2>1, PlaceNamed
  <2>3. Append(p, l.agent) \in Paths(config)
    BY <1>1, <2>2, PathGoesOn
  <2>4. p \in Seq(Agent) /\ Len(p) \in Nat /\ Len(p) >= 1 /\ Len(p) <= config[Root].max_depth
    BY <1>1, <2>2, PathLasts, ConfigIs
  <2>5. config[Root].max_depth \in Nat
    BY <1>1, ChainAssumption DEF Compiles, IsChain
  <2>6. Len(Append(p, l.agent)) = Len(p) + 1
    BY <2>2, <2>4, AppendIs
  <2>7. Len(Append(p, l.agent)) \in 2 .. config[Root].max_depth + 1
    BY <2>4, <2>5, <2>6
  <2> QED
    BY <2>2, <2>3, <2>7 DEF ChainGraph
<1>3. ASSUME NEW q \in ChainGraph(config) PROVE \E x \in AgentPlaces : StepAt(x).path = q
  <2>1. q \in Paths(config) /\ Len(q) >= 2
    BY <1>3 DEF ChainGraph
  <2>2. PICK p \in Expansions(config) : \E l \in ToSet(config[Last(p)].links) : q = Append(p, l.agent)
    BY <2>1, PathCameFrom
  <2>3. PICK l \in ToSet(config[Last(p)].links) : q = Append(p, l.agent)
    BY <2>2
  <2> DEFINE s == IF l.default THEN DefaultStep(l, config[Last(p)], p) ELSE AStep(l, p)
  <2>4. IsLink(s, p, l)
    BY DEF IsLink
  <2>5. s.path = q
    <3>1. AStep(l, p).path = Append(p, l.agent)
      BY DEF AStep
    <3>2. ASSUME NEW c PROVE DefaultStep(l, c, p).path = Append(p, l.agent)
      BY DEF AStep, DefaultStep
    <3> QED
      BY <2>3, <3>1, <3>2
  <2> HIDE DEF s
  <2> QED
    BY <2>4, <2>5, HasPlace
<1>4. <<1, 0>> \in AgentPlaces /\ StepAt(<<1, 0>>).path = <<Root>>
  <2>1. RootStep.path = <<Root>>
    BY DEF RootStep
  <2> QED
    BY <2>1, HasPlace
<1> QED
  BY <1>2, <1>3, <1>4

(* _construir_chain reports what the workflow did: every link of the       *)
(* compiled chain, no other, with its own ending, and "completed" or       *)
(* "partial" only when that is what happened.                              *)
THEOREM ReportsAreHonest == ChainSpec => []ReportHonest
<1>1. ASSUME ChainInv PROVE ReportHonest
  <2> DEFINE errs == {x \in AgentPlaces : history[x].status = "error"}
  <2>1. SUFFICES ASSUME status \in {"completed", "failed"}, UniqueNames
        PROVE  /\ {StepAt(x).path : x \in AgentPlaces} = ChainGraph(config) \cup {<<Root>>}
               /\ \A x \in AgentPlaces : Len(StepAt(x).path) > 1 =>
                    Reported(StepAt(x).path) = history[x].status
               /\ ReportedStatus = "completed" => errs = {}
               /\ ReportedStatus = "partial" => errs # {} /\ status = "completed"
    BY DEF ReportHonest
  <2>2. PlanOK /\ ~Raises(config) /\ RootStops /\ \A x \in AgentPlaces : Remembers(x)
    BY <1>1, <2>1 DEF ChainInv
  <2>3. {StepAt(x).path : x \in AgentPlaces} = ChainGraph(config) \cup {<<Root>>}
    BY <2>2, PathsAreTheGraph
  <2>4. ASSUME NEW x \in AgentPlaces, StepAt(x).path # <<Root>>
        PROVE  Reported(StepAt(x).path) = history[x].status
    <3>1. PICK p, l :
            /\ NameAt(x) = <<Last(p), l.agent>> /\ StepAt(x).path = Append(p, l.agent)
            /\ p \in Expansions(config) /\ l.agent \in Agent
      BY <2>2, <2>4, PlaceNamed
    <3> DEFINE q == Append(p, l.agent)
    <3>2. p \in Seq(Agent) /\ Len(p) \in Nat /\ Len(p) >= 1 /\ Last(p) = p[Len(p)]
      BY <3>1, PathLasts
    <3>3. Len(q) = Len(p) + 1 /\ Last(q) = l.agent /\ q[Len(p)] = p[Len(p)]
      BY <3>1, <3>2, AppendIs
    <3>4. Len(q) - 1 = Len(p)
      BY <3>2, <3>3
    <3> HIDE DEF q
    <3>5. StepName(q) = NameAt(x)
      BY <3>1, <3>2, <3>3, <3>4 DEF StepName
    <3>6. StepAt(x).path = q
      BY <3>1 DEF q
    <3>7. Remembers(x)
      BY <2>2
    <3> QED
      BY <3>5, <3>6, <3>7 DEF Reported, Remembers
  <2> HIDE DEF errs
  <2>a. ASSUME NEW q, q = <<Root>> PROVE Len(q) = 1
    <3> DEFINE root == <<Root>>
    <3>1. Len(root) = 1 /\ q = root
      BY <2>a
    <3> HIDE DEF root
    <3> QED
      BY <3>1
  <2>5. \A x \in AgentPlaces : Len(StepAt(x).path) > 1 => StepAt(x).path # <<Root>>
    <3> TAKE x \in AgentPlaces
    <3> DEFINE q == StepAt(x).path
               root == <<Root>>
    <3>1. Len(root) = 1
      OBVIOUS
    <3> HIDE DEF q, root
    <3>2. ASSUME Len(q) = 1 PROVE ~(Len(q) > 1)
      BY <3>2
    <3>3. Len(q) # 1 => q # root
      BY <3>1
    <3> QED
      BY <3>2, <3>3 DEF q, root
  <2>6. ASSUME ReportedStatus = "completed", NEW x \in errs PROVE FALSE
    <3>1. status # "failed" /\ ~\E p \in ChainGraph(config) : Reported(p) = "error"
      BY <2>6 DEF ReportedStatus
    <3>a. x \in AgentPlaces /\ history[x].status = "error"
      BY <2>6 DEF errs
    <3>2. CASE StepAt(x).path = <<Root>>
      <4>1. x = <<1, 0>>
        <5>1. ASSUME NEW p, NEW l, p \in Expansions(config), l.agent \in Agent,
                     StepAt(x).path = Append(p, l.agent)
              PROVE  FALSE
          <6>1. p \in Seq(Agent) /\ Len(p) \in Nat /\ Len(p) >= 1
            BY <5>1, PathLasts
          <6>2. Len(Append(p, l.agent)) = Len(p) + 1
            BY <5>1, <6>1, AppendIs
          <6> QED
            BY <2>a, <3>2, <5>1, <6>1, <6>2
        <5> QED
          BY <2>2, <3>a, <5>1, PlaceNamed
      <4> QED
        BY <2>2, <3>1, <3>a, <4>1 DEF RootStops
    <3>3. CASE StepAt(x).path # <<Root>>
      <4>1. StepAt(x).path \in ChainGraph(config)
        BY <2>3, <3>3, <3>a
      <4> QED
        BY <2>4, <3>1, <3>3, <3>a, <4>1
    <3> QED
      BY <3>2, <3>3
  <2>7. ASSUME ReportedStatus = "partial" PROVE errs # {} /\ status = "completed"
    <3>1. status # "failed" /\ \E p \in ChainGraph(config) : Reported(p) = "error"
      BY <2>7 DEF ReportedStatus
    <3>2. PICK p \in ChainGraph(config) : Reported(p) = "error"
      BY <3>1
    <3>3. PICK x \in AgentPlaces : StepAt(x).path = p
      BY <2>3
    <3>4. p # <<Root>>
      <4>1. Len(p) # 1
        <5>1. p \in Paths(config) /\ Len(p) >= 2
          BY <3>2 DEF ChainGraph
        <5>2. Len(p) \in Int
          BY <5>1, PathIs
        <5> QED
          BY <5>1, <5>2
      <4> DEFINE root == <<Root>>
      <4>2. Len(root) = 1
        OBVIOUS
      <4> HIDE DEF root
      <4>3. p # root
        BY <4>1, <4>2
      <4> QED
        BY <4>3 DEF root
    <3>5. x \in errs
      BY <2>4, <3>2, <3>3, <3>4 DEF errs
    <3> QED
      BY <2>1, <3>1, <3>5
  <2> QED
    BY <2>3, <2>4, <2>5, <2>6, <2>7 DEF errs
<1> QED
  BY <1>1, AlwaysOK, PTL

-----------------------------------------------------------------------------
(* The default of a chain.                                                 *)

\* The places of the guarded links under p.
Guards(p) == {y \in AgentPlaces : Front(StepAt(y).path) = p /\ StepAt(y).when.kind # "none"}

LEMMA GuardsAre ==
  ASSUME PlanOK, ~Raises(config), NEW p \in Expansions(config)
  PROVE  /\ \A y \in Guards(p) : \E k \in DOMAIN GuardNames(config[Last(p)], p) :
                                   GuardNames(config[Last(p)], p)[k] = NameAt(y)
         /\ \A k \in DOMAIN GuardNames(config[Last(p)], p) :
              \E y \in Guards(p) : GuardNames(config[Last(p)], p)[k] = NameAt(y)
<1> DEFINE c == config[Last(p)]
           g == Guarded(c)
<1>1. Compiles(config)
  BY DEF PlanOK, Compiles
<1>2. c.links \in Seq(Link) /\ Parses(c) /\ p \in Seq(Agent) /\ Len(p) >= 1
  BY <1>1, ConfigIs, PathLasts
<1>3. /\ g \in Seq(Link) /\ ToSet(g) = {l \in ToSet(c.links) : ~l.default /\ l.when # "none"}
      /\ \A l \in ToSet(c.links) : l.default => l.when = "none"
      /\ ToSet(c.links) \subseteq Link
  <2> HIDE DEF c
  <2> QED
    BY <1>2, LinksAre
<1>4. DOMAIN GuardNames(c, p) = DOMAIN g /\ \A k \in DOMAIN g : GuardNames(c, p)[k] = <<Last(p), g[k].agent>>
  BY DEF GuardNames
<1>5. ASSUME NEW y \in Guards(p) PROVE \E k \in DOMAIN GuardNames(c, p) : GuardNames(c, p)[k] = NameAt(y)
  <2>1. y \in AgentPlaces /\ Front(StepAt(y).path) = p /\ StepAt(y).when.kind # "none"
    BY <1>5 DEF Guards
  <2>2. StepAt(y) # RootStep
    <3>1. RootStep.when.kind = "none"
      BY DEF RootStep, Rebind
    <3> QED
      BY <2>1, <3>1
  <2>3. PICK q, l :
          /\ NameAt(y) = <<Last(q), l.agent>> /\ StepAt(y).path = Append(q, l.agent)
          /\ StepAt(y).when = Rebind(l.when, Last(q))
          /\ q \in Seq(Agent) /\ l \in Link /\ l.agent \in Agent /\ l \in ToSet(config[Last(q)].links)
    BY <2>1, <2>2, PlaceNamed
  <2>4. Front(Append(q, l.agent)) = q
    BY <2>3, AppendIs
  <2>5. q = p
    BY <2>1, <2>3, <2>4
  <2>6. l \in ToSet(c.links) /\ NameAt(y) = <<Last(p), l.agent>> /\ StepAt(y).when = Rebind(l.when, Last(p))
    BY <2>3, <2>5
  <2>7. l.when # "none"
    <3>1. l.when \in Template
      BY <2>3 DEF Link
    <3> QED
      BY <2>1, <2>6, <3>1, RebindIs
  <2> HIDE DEF c, g
  <2>8. l \in ToSet(g)
    BY <1>3, <2>6, <2>7
  <2>9. PICK k \in DOMAIN g : g[k] = l
    BY <2>8 DEF ToSet
  <2> QED
    BY <1>4, <2>6, <2>9
<1>6. ASSUME NEW k \in DOMAIN GuardNames(c, p) PROVE \E y \in Guards(p) : GuardNames(c, p)[k] = NameAt(y)
  <2> HIDE DEF c, g
  <2> DEFINE l == g[k]
             s == AStep(l, p)
  <2>1. k \in DOMAIN g /\ GuardNames(c, p)[k] = <<Last(p), l.agent>>
    BY <1>4
  <2>2. l \in ToSet(g)
    BY <2>1 DEF ToSet
  <2>3. l \in ToSet(c.links) /\ ~l.default /\ l.when # "none" /\ l \in Link
    BY <1>3, <2>2
  <2>4. l.when \in Template /\ l.agent \in Agent
    BY <2>3 DEF Link
  <2> HIDE DEF l
  <2>5. s.name = <<Last(p), l.agent>> /\ s.path = Append(p, l.agent) /\ s.when = Rebind(l.when, Last(p))
    BY DEF AStep
  <2>6. IsLink(s, p, l)
    BY <2>3 DEF IsLink, c
  <2> HIDE DEF s
  <2>7. PICK y \in AgentPlaces : StepAt(y) = s
    BY <2>6, HasPlace
  <2>8. Front(s.path) = p
    BY <1>2, <2>4, <2>5, AppendIs
  <2>9. s.when.kind # "none"
    BY <2>3, <2>4, <2>5, RebindIs
  <2>10. y \in Guards(p) /\ NameAt(y) = <<Last(p), l.agent>>
    BY <2>5, <2>7, <2>8, <2>9 DEF Guards, NameAt
  <2> QED
    BY <2>1, <2>10
<1> QED
  BY <1>5, <1>6

LEMMA DefaultDecides ==
  ASSUME ChainInv, Drive, UniqueNames, status' # "raised",
         NEW x \in AgentPlaces, x[1] = index, StepAt(x).negates # <<>>
  PROVE  history'[x].matched = "yes" <=>
           \A y \in AgentPlaces :
             Front(StepAt(y).path) = Front(StepAt(x).path) /\ StepAt(y).when.kind # "none"
               => history'[y].matched = "no"
<1>1. PlanOK /\ GuardsOK /\ history \in [AgentPlaces -> Result] /\ ~Raises(config) /\ \A y \in AgentPlaces : Remembers(y)
  <2>1. PlanOK /\ GuardsOK /\ history \in [AgentPlaces -> Result] /\ \A y \in AgentPlaces : Remembers(y)
    BY DEF ChainInv, ContextOK
  <2> QED
    BY <2>1, PlaceIs
<1>2. PICK e : Effect(e)
  <2>1. index \in DOMAIN plan /\ (Uncaught \/ \E e : Effect(e))
    BY DriveForm DEF ChainInv
  <2>2. ASSUME Uncaught PROVE FALSE
    <3>1. plan[index].branches = <<>> /\ plan[index].negates = <<>>
      BY <2>2 DEF Uncaught
    <3>2. x = <<x[1], x[2]>> /\ (x[2] # 0 => plan[x[1]].branches # <<>>)
      BY <1>1, PlaceIs
    <3>3. x[2] = 0
      BY <3>1, <3>2
    <3>4. StepAt(x) = plan[index]
      BY <3>3 DEF StepAt
    <3> QED
      BY <3>1, <3>4
  <2> QED
    BY <2>1, <2>2
<1>3. x \in Here /\ \A y \in AgentPlaces : y \notin Here => history'[y] = history[y]
  BY <1>2 DEF Effect, Here
<1>4. history'[x].matched = "yes" <=> NoneHeld(StepAt(x).negates)
  BY <1>1, <1>2, <1>3, RanOK
<1>5. StepAt(x) # RootStep
  <2>1. RootStep.negates = <<>>
    BY DEF RootStep
  <2> QED
    BY <2>1
<1>6. PICK p, l :
        /\ StepAt(x).path = Append(p, l.agent) /\ StepAt(x).when = Rebind(l.when, Last(p))
        /\ StepAt(x).negates = IF l.default THEN GuardNames(config[Last(p)], p) ELSE <<>>
        /\ p \in Expansions(config) /\ p \in Seq(Agent) /\ l \in Link /\ l.agent \in Agent
        /\ l \in ToSet(config[Last(p)].links)
  BY <1>1, <1>5, PlaceNamed
<1> DEFINE names == GuardNames(config[Last(p)], p)
<1>7. l.default /\ StepAt(x).negates = names
  BY <1>6
<1>8. Front(StepAt(x).path) = p
  BY <1>6, AppendIs
<1>9. x \notin Guards(p)
  <2>1. Compiles(config)
    BY <1>1 DEF PlanOK, Compiles
  <2>2. config[Last(p)].links \in Seq(Link) /\ Parses(config[Last(p)])
    BY <1>6, <2>1, ConfigIs
  <2>3. l.when = "none"
    BY <1>6, <1>7, <2>2 DEF Parses
  <2>4. StepAt(x).when.kind = "none"
    BY <1>6, <2>3 DEF Rebind
  <2> QED
    BY <2>4 DEF Guards
<1>10. Here = {x}
  <2>1. x[2] = 0
    <3>1. SUFFICES ASSUME x[2] # 0 PROVE FALSE
      OBVIOUS
    <3>2. /\ x[1] \in DOMAIN plan /\ plan[x[1]].branches # <<>> /\ x[2] \in DOMAIN plan[x[1]].branches
          /\ StepAt(x) = plan[x[1]].branches[x[2]]
      BY <1>1, <3>1, PlaceIs
    <3> QED
      BY <1>1, <3>2, FanoutIs
  <2>2. x = <<x[1], x[2]>> /\ plan[index].branches = <<>>
    BY <1>1, <2>1, PlaceIs
  <2>3. ASSUME NEW y \in AgentPlaces, y[1] = index PROVE y = x
    <3>1. y = <<y[1], y[2]>> /\ (y[2] # 0 => plan[y[1]].branches # <<>>)
      BY <1>1, PlaceIs
    <3>2. y[2] = 0
      BY <2>2, <2>3, <3>1
    <3> QED
      BY <2>1, <2>2, <2>3, <3>1, <3>2
  <2> QED
    BY <1>3, <2>3 DEF Here
<1>11. \A y \in Guards(p) : y \in AgentPlaces /\ history'[y] = history[y] /\ Remembers(y) /\ history[y] \in Result
  <2> TAKE y \in Guards(p)
  <2>1. y \in AgentPlaces
    BY DEF Guards
  <2>2. y \notin Here
    BY <1>9, <1>10
  <2> QED
    BY <1>1, <1>3, <2>1, <2>2
<1>12. \A y \in Guards(p) :
         history'[y].matched = "no" <=> NameAt(y) \in DOMAIN guards /\ ~guards[NameAt(y)]
  <2> TAKE y \in Guards(p)
  <2>1. history'[y].matched \in {"unset", "yes", "no"}
    BY <1>11 DEF Result
  <2> QED
    BY <1>11, <2>1 DEF Remembers
<1>13. /\ \A y \in Guards(p) : \E k \in DOMAIN names : names[k] = NameAt(y)
       /\ \A k \in DOMAIN names : \E y \in Guards(p) : names[k] = NameAt(y)
  BY <1>1, <1>6, GuardsAre
<1> HIDE DEF names
<1>14. NoneHeld(names) <=> \A y \in Guards(p) : history'[y].matched = "no"
  BY <1>12, <1>13 DEF NoneHeld
<1>15. (\A y \in Guards(p) : history'[y].matched = "no") <=>
         \A y \in AgentPlaces :
           Front(StepAt(y).path) = Front(StepAt(x).path) /\ StepAt(y).when.kind # "none"
             => history'[y].matched = "no"
  BY <1>8 DEF Guards
<1> QED
  BY <1>4, <1>7, <1>14, <1>15

(* The guard that _expandir gives a default runs it exactly when every     *)
(* guarded link beside it was evaluated and none held, in both modes and   *)
(* at any depth.                                                           *)
THEOREM DefaultRunsIffNoGuardHeld == ChainSpec => DefaultIffNoMatch
<1> DEFINE Decided ==
      \A x \in AgentPlaces :
        x[1] = index /\ StepAt(x).negates # <<>> /\ UniqueNames /\ status' # "raised" =>
          (history'[x].matched = "yes" <=>
             \A y \in AgentPlaces :
               Front(StepAt(y).path) = Front(StepAt(x).path) /\ StepAt(y).when.kind # "none"
                 => history'[y].matched = "no")
<1>1. ASSUME ChainInv, [Drive]_chainVars PROVE [Decided]_chainVars
  <2>1. CASE Drive
    <3>1. Decided
      BY <1>1, <2>1, DefaultDecides
    <3> QED
      BY <3>1
  <2>2. CASE UNCHANGED chainVars
    BY <2>2
  <2> QED
    BY <1>1, <2>1, <2>2
<1> QED
  BY <1>1, AlwaysOK, PTL DEF ChainSpec, DefaultIffNoMatch

=============================================================================
