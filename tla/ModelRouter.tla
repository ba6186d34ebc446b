---------------------------- MODULE ModelRouter ----------------------------
(***************************************************************************)
(* The model router of src/astromesh/core/model_router.py: route() ranks   *)
(* the providers whose circuit lets them through and asks one after the    *)
(* other until one answers.                                                *)
(*                                                                         *)
(* The requests of concurrent agent runs and of the summariser share the   *)
(* router.  A request awaits nothing but provider.complete, so it ranks    *)
(* once and then works through a list that others may have made stale.     *)
(* Health keeps what routing reads: latencies are any, and until becomes   *)
(* the time still to wait.                                                 *)
(***************************************************************************)
EXTENDS Integers, Sequences, FiniteSets, Functions

CONSTANTS
  P,          \* providers, in the order of their registration
  Request,    \* concurrent calls of route()
  Strategies, \* values of RoutingStrategy an agent may configure
  Price,      \* estimated_cost of a provider
  Demands,    \* the providers able to serve a request, for each requirement
  Reliable,   \* providers that never fail
  Threshold,  \* CIRCUIT_BREAKER_THRESHOLD
  Cooldown,   \* CIRCUIT_BREAKER_COOLDOWN_S
  Period      \* of the request count: a common multiple of 1 .. P

Provider == 1 .. P

Strategy == {"cost_optimized", "latency_optimized", "quality_first", "round_robin",
             "capability_match"}

ASSUME RouterAssumption ==
  /\ P \in Nat
  /\ IsFiniteSet(Request)
  /\ Strategies \subseteq Strategy
  /\ Price \in [Provider -> Nat]
  /\ Demands \subseteq SUBSET Provider
  /\ Reliable \subseteq Provider
  /\ Threshold \in Nat \ {0} /\ Cooldown \in Nat
  /\ Period \in Nat \ {0} /\ \A n \in Provider : Period % n = 0

Health == [failures : Nat,             \* consecutive_failures
           open     : BOOLEAN,         \* circuit_open
           cooling  : 0 .. Cooldown]   \* circuit_open_until - now, if positive

VARIABLES
  strategy,  \* of this router
  health,    \* _health
  count,     \* _request_count, modulo Period
  queue,     \* the candidates a request ranked
  at,        \* the one it is asking; 0: no request
  result     \* how the last request ended

routerVars == <<strategy, health, count, queue, at, result>>

RouterTypeOK ==
  /\ strategy \in Strategy
  /\ health \in [Provider -> Health]
  /\ count  \in 0 .. Period - 1
  /\ queue  \in [Request -> Seq(Provider)]
  /\ at     \in [Request -> Nat]
  /\ \A r \in Request : at[r] <= Len(queue[r])
  /\ result \in [Request -> {"none", "answer", "error"}]

RouterInit ==
  /\ strategy \in Strategies
  /\ health = [p \in Provider |-> [failures |-> 0, open |-> FALSE, cooling |-> 0]]
  /\ count  = 0
  /\ queue  = [r \in Request |-> <<>>]
  /\ at     = [r \in Request |-> 0]
  /\ result = [r \in Request |-> "none"]

-----------------------------------------------------------------------------
(* The circuit breaker.                                                    *)

\* Fault: the breaker is not consulted.
OfferedAll == Provider

Offered == {p \in Provider : health[p].open => health[p].cooling = 0}

\* Fault: only a success closes a circuit, and success does not look at it.
StaysOpen(h) == h

\* Ranking half-opens every circuit whose cooldown has passed.
HalfOpened(h) ==
  IF h.open /\ h.cooling = 0 THEN [h EXCEPT !.open = FALSE, !.failures = 0] ELSE h

Failed(h) ==
  IF h.failures + 1 < Threshold THEN [h EXCEPT !.failures = @ + 1]
  ELSE [failures |-> h.failures + 1, open |-> TRUE, cooling |-> Cooldown]

\* A success forgets the failures; the circuit stays as it is.
Succeeded(h) == [h EXCEPT !.failures = 0]

Elapsed(h) == [h EXCEPT !.cooling = IF @ > 0 THEN @ - 1 ELSE 0]

-----------------------------------------------------------------------------
(* Ranking.                                                                *)

\* How many of S were registered before p.
Place(p, S) == Cardinality({q \in S : q < p})

Cheaper(p, q) == Price[p] < Price[q] \/ (Price[p] = Price[q] /\ p < q)

Lists(S) == Bijection(1 .. Cardinality(S), S)

\* The orders the strategy allows; the others keep the order of registration.
Ordered(q, S) ==
  LET n == Cardinality(S) IN
  CASE strategy = "cost_optimized" ->
         \A i, j \in 1 .. n : i < j => Cheaper(q[i], q[j])
    [] strategy = "latency_optimized" -> TRUE
    [] strategy = "round_robin" ->
         \A i \in 1 .. n : Place(q[i], S) = (i - 1 + count) % n
    [] OTHER ->
         \A i \in 1 .. n : Place(q[i], S) = i - 1

Candidates(d) == IF strategy = "capability_match" THEN Offered \cap d ELSE Offered

Ranked(d) == {q \in Lists(Candidates(d)) : Ordered(q, Candidates(d))}

-----------------------------------------------------------------------------
(* route().                                                                *)

Asked(r) == queue[r][at[r]]

RequestEnds(r, how) ==
  /\ queue'  = [queue EXCEPT ![r] = <<>>]
  /\ at'     = [at EXCEPT ![r] = 0]
  /\ result' = [result EXCEPT ![r] = how]

Route(r, d) ==
  /\ at[r] = 0
  /\ health' = [p \in Provider |-> HalfOpened(health[p])]
  /\ \E q \in Ranked(d) :
       IF q = <<>> THEN RequestEnds(r, "error")
       ELSE /\ queue'  = [queue EXCEPT ![r] = q]
            /\ at'     = [at EXCEPT ![r] = 1]
            /\ result' = [result EXCEPT ![r] = "none"]
  /\ UNCHANGED <<strategy, count>>

Answers(r) ==
  /\ at[r] # 0
  /\ health' = [health EXCEPT ![Asked(r)] = Succeeded(@)]
  /\ count'  = (count + 1) % Period
  /\ RequestEnds(r, "answer")
  /\ UNCHANGED strategy

\* Fault: the last candidate is not asked.
ProviderFailsEarly(r) ==
  /\ at[r] # 0 /\ Asked(r) \notin Reliable
  /\ health' = [health EXCEPT ![Asked(r)] = Failed(@)]
  /\ IF at[r] < Len(queue[r]) - 1
     THEN at' = [at EXCEPT ![r] = @ + 1] /\ UNCHANGED <<queue, result>>
     ELSE RequestEnds(r, "error")
  /\ UNCHANGED <<strategy, count>>

\* complete() raises: the next candidate, or the error of the last one.
ProviderFails(r) ==
  /\ at[r] # 0 /\ Asked(r) \notin Reliable
  /\ health' = [health EXCEPT ![Asked(r)] = Failed(@)]
  /\ IF at[r] < Len(queue[r])
     THEN at' = [at EXCEPT ![r] = @ + 1] /\ UNCHANGED <<queue, result>>
     ELSE RequestEnds(r, "error")
  /\ UNCHANGED <<strategy, count>>

\* The run is cancelled or times out; a cancellation is not a failure.
Abandon(r) ==
  /\ at[r] # 0
  /\ RequestEnds(r, "none")
  /\ UNCHANGED <<strategy, health, count>>

Tick ==
  /\ \E p \in Provider : health[p].cooling > 0
  /\ health' = [p \in Provider |-> Elapsed(health[p])]
  /\ UNCHANGED <<strategy, count, queue, at, result>>

-----------------------------------------------------------------------------

RouterNext ==
  \/ Tick
  \/ \E r \in Request : \/ \E d \in Demands : Route(r, d)
                        \/ Answers(r) \/ ProviderFails(r) \/ Abandon(r)

\* Time passes.
RouterSpec == RouterInit /\ [][RouterNext]_routerVars /\ WF_routerVars(Tick)

-----------------------------------------------------------------------------
(* What the router promises.                                               *)

(* A tripped provider is spared: after the threshold it sees at most the   *)
(* calls of the requests that ranked before, one for each other request.   *)
FailuresBounded ==
  \A p \in Provider : health[p].failures <= Threshold - 1 + Cardinality(Request)

(* As long as one provider works that serves every demand, no request ends *)
(* in an error, however often the others trip and however requests race.   *)
AlwaysAnswered ==
  (\E p \in Reliable : \A d \in Demands : p \in d) =>
    \A r \in Request : result[r] # "error"

(* A tripped provider comes back, as long as requests come in: late        *)
(* failures of requests in flight cannot shut it out for good.             *)
TrippedReturns ==
  []<><<\E r \in Request, d \in Demands : Route(r, d)>>_routerVars =>
    \A p \in Provider : []<>~health[p].open

=============================================================================
