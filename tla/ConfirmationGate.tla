-------------------------- MODULE ConfirmationGate --------------------------
(***************************************************************************)
(* The confirmation gate of src/astromesh/runtime: a tool that needs       *)
(* confirmation runs only after the person said yes to that very call.     *)
(* Pendientes keeps one pending proposal per session; Agent.run consults   *)
(* it at the start of a run, at every gated call, in the answer and on     *)
(* every way out.                                                          *)
(*                                                                         *)
(* Runs are asyncio tasks.  Between two awaits a run is alone, and each    *)
(* action below is the code between two awaits that touches the slot.  A   *)
(* re-entrant run (a sub-agent or a workflow step, desde_humano=False)     *)
(* shares the session of the turn it serves.  Nothing in the code keeps    *)
(* two turns of a session apart: they may overlap.                         *)
(***************************************************************************)
EXTENDS Integers

CONSTANTS
  Session,
  Call,      \* tools with their arguments, told apart by huella()
  NoCall,
  Run,       \* concurrent runs
  MaxYeses   \* bound on the yeses of a person in a session, for TLC

ASSUME GateAssumption ==
  /\ NoCall \notin Call
  /\ MaxYeses \in Nat

Slot  == [call : Call \cup {NoCall}, ok : BOOLEAN]
Empty == [call |-> NoCall, ok |-> FALSE]

VARIABLES
  slot,     \* Pendientes._por_sesion
  phase,    \* idle, at work, notice written, on the way out
  session,  \* the session of a run
  human,    \* desde_humano
  turn,     \* the run whose turn it serves: itself unless re-entrant
  told,     \* the call the notice in its answer is about
  origin,   \* history, per session: the turn that registered the slot
  shown,    \* ... the person was shown the notice of the slot
  excused,  \* ... or the run that registered it failed, or serves no turn
  hasty,    \* ... or the yes came before the answer of the turn that proposed it
  met,      \* ... the human runs in progress when the slot was registered
  granted,  \* ... yeses that met a proposal
  used      \* ... calls the gate let pass

vars == <<slot, phase, session, human, turn, told,
          origin, shown, excused, hasty, met, granted, used>>

history == <<origin, shown, excused, hasty, met, granted, used>>

None == [run |-> "none"]

TypeOK ==
  /\ slot    \in [Session -> Slot]
  /\ phase   \in [Run -> {"idle", "work", "notice", "ending"}]
  /\ session \in [Run -> Session]
  /\ human   \in [Run -> BOOLEAN]
  /\ turn    \in [Run -> Run]
  /\ told    \in [Run -> Call \cup {NoCall}]
  /\ origin  \in [Session -> Run \cup {None}]
  /\ shown   \in [Session -> BOOLEAN]
  /\ excused \in [Session -> BOOLEAN]
  /\ hasty   \in [Session -> BOOLEAN]
  /\ met     \in [Session -> SUBSET Run]
  /\ granted \in [Session -> Nat]
  /\ used    \in [Session -> Nat]

Init ==
  /\ slot    = [s \in Session |-> Empty]
  /\ phase   = [t \in Run |-> "idle"]
  /\ session \in [Run -> Session]
  /\ human   = [t \in Run |-> FALSE]
  /\ turn    = [t \in Run |-> t]
  /\ told    = [t \in Run |-> NoCall]
  /\ origin  = [s \in Session |-> None]
  /\ shown   = [s \in Session |-> FALSE]
  /\ excused = [s \in Session |-> FALSE]
  /\ hasty   = [s \in Session |-> FALSE]
  /\ met     = [s \in Session |-> {}]
  /\ granted = [s \in Session |-> 0]
  /\ used    = [s \in Session |-> 0]

-----------------------------------------------------------------------------
(* Pendientes.                                                             *)

Pending(p) == p.call # NoCall
Open(p)    == Pending(p) /\ ~p.ok

\* The first unused proposal wins.
Registered(p, c) == IF Pending(p) THEN p ELSE [call |-> c, ok |-> FALSE]

\* Fault: a message that is not a yes leaves the proposal.
LeftStanding(p, yes) == IF Pending(p) /\ yes THEN [p EXCEPT !.ok = TRUE] ELSE p

\* A message that is not a yes discards the proposal.
Answered(p, yes) ==
  IF Pending(p) /\ yes THEN [p EXCEPT !.ok = TRUE] ELSE Empty

Permitted(p, c) == p.ok /\ p.call = c

\* Fault: cerrar() is left to the end of the run.
KeptAfterUse(p) == p

Used(p) == Empty

WithoutLicence(p) == IF p.ok THEN Empty ELSE p

\* Fault: a run that times out leaves what nobody was shown.
Kept(p) == p

WithoutProposal(p) == IF Open(p) THEN Empty ELSE p

-----------------------------------------------------------------------------
(* Agent.run.                                                              *)

Active(t) == phase[t] # "idle"
At(s)     == {t \in Run : Active(t) /\ session[t] = s}
Turns(s)  == {t \in At(s) : human[t]}
Nested(t) == {u \in Run \ {t} : Active(u) /\ turn[u] = t}

\* An identifier that is used again no longer names the old run.
Enters(t, s, byHuman, serves) ==
  /\ phase'   = [phase EXCEPT ![t] = "work"]
  /\ session' = [session EXCEPT ![t] = s]
  /\ human'   = [human EXCEPT ![t] = byHuman]
  /\ turn'    = [turn EXCEPT ![t] = serves]
  /\ told'    = [told EXCEPT ![t] = NoCall]
  /\ origin'  = [r \in Session |-> IF origin[r] = t THEN None ELSE origin[r]]
  /\ met'     = [r \in Session |-> met[r] \ {t}]

\* The person writes: habilitar() reads the message.
Start(t, s, yes) ==
  /\ ~Active(t)
  /\ granted[s] < MaxYeses
  /\ Enters(t, s, TRUE, t)
  /\ slot'    = [slot EXCEPT ![s] = Answered(@, yes)]
  /\ granted' = [granted EXCEPT ![s] = IF yes /\ Pending(slot[s]) THEN @ + 1 ELSE @]
  /\ hasty'   = [hasty EXCEPT ![s] = @ \/ (yes /\ Pending(slot[s]) /\ origin[s] \in At(s))]
  /\ UNCHANGED <<shown, excused, used>>

\* A run whose query the model wrote; it serves the turn it was called from,
\* or none when another agent or a workflow calls it.
Reenter(t, s, serves) ==
  /\ ~Active(t)
  /\ serves \in {u \in Turns(s) : phase[u] = "work"} \cup {t}
  /\ Enters(t, s, FALSE, serves)
  /\ UNCHANGED <<slot, shown, excused, hasty, granted, used>>

\* tool_fn: gate() refuses the call, and registers it if the slot is free.
Propose(t, c) ==
  LET s == session[t]  registers == ~Pending(slot[s]) IN
  /\ phase[t] = "work"
  /\ ~Permitted(slot[s], c)
  /\ slot'    = [slot EXCEPT ![s] = Registered(@, c)]
  /\ origin'  = [origin EXCEPT ![s] = IF registers THEN turn[t] ELSE @]
  /\ shown'   = [shown EXCEPT ![s] = @ /\ ~registers]
  /\ excused' = [excused EXCEPT ![s] = IF registers THEN ~human[turn[t]] ELSE @]
  /\ hasty'   = [hasty EXCEPT ![s] = @ /\ ~registers]
  /\ met'     = [met EXCEPT ![s] = IF registers THEN Turns(s) ELSE @]
  /\ UNCHANGED <<phase, session, human, turn, told, granted, used>>

\* tool_fn: the licence is consumed and the call runs.
Execute(t, c) ==
  LET s == session[t] IN
  /\ phase[t] = "work"
  /\ Permitted(slot[s], c)
  /\ slot' = [slot EXCEPT ![s] = Used(@)]
  /\ used' = [used EXCEPT ![s] = @ + 1]
  /\ UNCHANGED <<phase, session, human, turn, told, origin, shown, excused, hasty, met, granted>>

\* con_aviso() appends the notice; the turn is then persisted.
Answer(t) ==
  LET p == slot[session[t]] IN
  /\ phase[t] = "work" /\ Nested(t) = {}
  /\ phase' = [phase EXCEPT ![t] = "notice"]
  /\ told'  = [told EXCEPT ![t] = IF human[t] /\ Open(p) THEN p.call ELSE NoCall]
  /\ UNCHANGED <<slot, session, human, turn, history>>

\* The finally of a human run sweeps a licence that was not used.
Leaves(t) ==
  /\ phase' = [phase EXCEPT ![t] = "idle"]
  /\ slot'  = [slot EXCEPT ![session[t]] = IF human[t] THEN WithoutLicence(@) ELSE @]

Return(t) ==
  LET s == session[t] IN
  /\ phase[t] = "notice"
  /\ Leaves(t)
  /\ shown' = [shown EXCEPT ![s] = @ \/ (Pending(slot[s]) /\ told[t] = slot[s].call)]
  /\ UNCHANGED <<session, human, turn, told, origin, excused, hasty, met, granted, used>>

\* A guardrail blocked the run: its answer, and the notice, are replaced.
Block(t) ==
  /\ phase[t] = "work" /\ Nested(t) = {}
  /\ phase' = [phase EXCEPT ![t] = "ending"]
  /\ slot'  = [slot EXCEPT ![session[t]] = IF human[t] THEN WithoutProposal(@) ELSE @]
  /\ UNCHANGED <<session, human, turn, told, history>>

\* AgentRunTimeout: nobody was shown what the run proposed.
TimeOut(t) ==
  /\ phase[t] = "work" /\ Nested(t) = {}
  /\ phase' = [phase EXCEPT ![t] = "ending"]
  /\ slot'  = [slot EXCEPT ![session[t]] = IF human[t] THEN WithoutProposal(@) ELSE @]
  /\ UNCHANGED <<session, human, turn, told, history>>

\* Any other exception, or the cancellation of a run nobody listens to: the
\* proposal survives unseen, the limit aviso_confirmacion documents.
Fail(t) ==
  LET s == session[t] IN
  /\ phase[t] \in {"work", "notice"} /\ Nested(t) = {}
  /\ phase'   = [phase EXCEPT ![t] = "ending"]
  /\ excused' = [excused EXCEPT ![s] = @ \/ (Pending(slot[s]) /\ origin[s] = t)]
  /\ UNCHANGED <<slot, session, human, turn, told, origin, shown, hasty, met, granted, used>>

End(t) ==
  /\ phase[t] = "ending"
  /\ Leaves(t)
  /\ UNCHANGED <<session, human, turn, told, history>>

-----------------------------------------------------------------------------

Next == \E t \in Run :
  \/ \E s \in Session : \/ \E yes \in BOOLEAN : Start(t, s, yes)
                        \/ \E u \in Run : Reenter(t, s, u)
  \/ \E c \in Call : Propose(t, c) \/ Execute(t, c)
  \/ Answer(t) \/ Return(t) \/ Block(t) \/ TimeOut(t) \/ Fail(t) \/ End(t)

Spec == Init /\ [][Next]_vars

-----------------------------------------------------------------------------
(* What the gate promises.                                                 *)

(* A yes is good for one call: the calls the gate let pass and the licence *)
(* still open never outnumber the yeses of the person that met a proposal. *)
OneYesOneCall ==
  \A s \in Session : used[s] + (IF slot[s].ok THEN 1 ELSE 0) <= granted[s]

(* A licence does not float: it exists only during a turn of a person in   *)
(* that session, whichever way the turn that obtained it ends.             *)
LicenceHeld ==
  \A s \in Session : slot[s].ok => \E t \in At(s) : human[t]

(* A notice never tells of a proposal left from an earlier turn, whatever  *)
(* failed and whatever overlaps: what a turn meets open in the slot was    *)
(* registered while that turn was in progress.  (Not always by it, as      *)
(* con_aviso and engine.py say: an overlapping turn may have.)             *)
NoticeIsFresh ==
  \A t \in Run : human[t] /\ phase[t] = "work" /\ Open(slot[session[t]]) =>
    t \in met[session[t]]

(* What runs is what the person was shown by the runtime before saying yes *)
(* -- unless the run that proposed it died before it could answer, or      *)
(* served no turn of a person, or the yes overtook the answer of the turn  *)
(* that proposed it.  Those are the only ways past the notice, however     *)
(* turns and re-entrant runs overlap.                                      *)
InformedConsent ==
  [][\A s \in Session : used'[s] # used[s] => shown[s] \/ excused[s] \/ hasty[s]]_vars

=============================================================================
