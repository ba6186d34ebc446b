----------------------- MODULE ConfirmationGateProofs -----------------------
(* Proofs of what ConfirmationGate promises, for any number of sessions,   *)
(* calls and runs, however the turns of a session and their re-entrant     *)
(* runs overlap.                                                           *)
EXTENDS ConfirmationGate, TLAPS

-----------------------------------------------------------------------------
(* What the operations of Pendientes return.                               *)

LEMMA SlotOps ==
  ASSUME NEW p \in Slot
  PROVE  /\ Empty \in Slot
         /\ \A c \in Call : Registered(p, c) \in Slot
         /\ \A yes \in BOOLEAN : Answered(p, yes) \in Slot
         /\ Used(p) \in Slot
         /\ WithoutLicence(p) \in Slot
         /\ WithoutProposal(p) \in Slot
BY DEF Slot, Empty, Registered, Answered, Used, WithoutLicence, WithoutProposal,
       Pending, Open

-----------------------------------------------------------------------------
(* Every state of the gate is well typed.                                  *)

LEMMA InitType == Init => TypeOK
<1>. SUFFICES ASSUME Init PROVE TypeOK
  OBVIOUS
<1>1. slot \in [Session -> Slot]
  BY DEF Init, Slot, Empty
<1>. QED
  BY <1>1 DEF Init, TypeOK

LEMMA StepType == TypeOK /\ [Next]_vars => TypeOK'
<1>. SUFFICES ASSUME TypeOK, [Next]_vars PROVE TypeOK'
  OBVIOUS
<1>. USE DEF TypeOK
<1>1. ASSUME NEW t \in Run, NEW s \in Session, NEW yes \in BOOLEAN, Start(t, s, yes)
      PROVE  TypeOK'
  <2>1. slot' \in [Session -> Slot]
    <3>1. Answered(slot[s], yes) \in Slot
      BY SlotOps
    <3>. QED
      BY <1>1, <3>1 DEF Start
  <2>2. granted' \in [Session -> Nat]
    BY <1>1 DEF Start
  <2>. QED
    BY <1>1, <2>1, <2>2 DEF Start, Enters
<1>2. ASSUME NEW t \in Run, NEW s \in Session, NEW u \in Run, Reenter(t, s, u)
      PROVE  TypeOK'
  BY <1>2 DEF Reenter, Enters
<1>3. ASSUME NEW t \in Run, NEW c \in Call, Propose(t, c)
      PROVE  TypeOK'
  <2>1. slot' \in [Session -> Slot]
    BY <1>3, SlotOps DEF Propose
  <2>. QED
    BY <1>3, <2>1 DEF Propose, Turns, At
<1>4. ASSUME NEW t \in Run, NEW c \in Call, Execute(t, c)
      PROVE  TypeOK'
  <2>1. slot' \in [Session -> Slot]
    BY <1>4 DEF Execute, Used, Empty, Slot
  <2>. QED
    BY <1>4, <2>1 DEF Execute
<1>5. ASSUME NEW t \in Run, Answer(t)
      PROVE  TypeOK'
  BY <1>5 DEF Answer, history, Slot
<1>6. ASSUME NEW t \in Run, Return(t)
      PROVE  TypeOK'
  <2>1. slot' \in [Session -> Slot]
    BY <1>6 DEF Return, Leaves, WithoutLicence, Empty, Slot
  <2>. QED
    BY <1>6, <2>1 DEF Return, Leaves
<1>7. ASSUME NEW t \in Run, Block(t) \/ TimeOut(t)
      PROVE  TypeOK'
  <2>1. slot' \in [Session -> Slot]
    <3>1. WithoutProposal(slot[session[t]]) \in Slot
      BY SlotOps
    <3>. QED
      BY <1>7, <3>1 DEF Block, TimeOut
  <2>. QED
    BY <1>7, <2>1 DEF Block, TimeOut, history
<1>8. ASSUME NEW t \in Run, Fail(t)
      PROVE  TypeOK'
  BY <1>8 DEF Fail
<1>9. ASSUME NEW t \in Run, End(t)
      PROVE  TypeOK'
  <2>1. slot' \in [Session -> Slot]
    BY <1>9 DEF End, Leaves, WithoutLicence, Empty, Slot
  <2>. QED
    BY <1>9, <2>1 DEF End, Leaves, history
<1>10. CASE UNCHANGED vars
  BY <1>10 DEF vars
<1>. QED
  BY <1>1, <1>2, <1>3, <1>4, <1>5, <1>6, <1>7, <1>8, <1>9, <1>10 DEF Next

(* Type correctness of the gate.                                           *)
THEOREM GateTypeCorrect == Spec => []TypeOK
BY InitType, StepType, PTL DEF Spec

-----------------------------------------------------------------------------
(* A yes is good for one call.  The invariant is inductive: habilitar()    *)
(* counts a yes when it opens a licence, gate() closes the licence when it *)
(* counts a call, and nothing else opens one.                              *)

LEMMA StepOneYes == TypeOK /\ OneYesOneCall /\ [Next]_vars => OneYesOneCall'
<1>. SUFFICES ASSUME TypeOK, OneYesOneCall, [Next]_vars, NEW r \in Session
              PROVE  (used[r] + (IF slot[r].ok THEN 1 ELSE 0) <= granted[r])'
  BY DEF OneYesOneCall
<1>. DEFINE Sound == (used[r] + (IF slot[r].ok THEN 1 ELSE 0) <= granted[r])'
<1>0. /\ used[r] \in Nat /\ granted[r] \in Nat /\ slot[r] \in Slot
      /\ used[r] + (IF slot[r].ok THEN 1 ELSE 0) <= granted[r]
  BY DEF OneYesOneCall, TypeOK
<1>a. ASSUME used'[r] = used[r], granted'[r] = granted[r], slot'[r].ok => slot[r].ok
      PROVE  Sound
  BY <1>0, <1>a
<1>1. ASSUME NEW t \in Run, NEW s \in Session, NEW yes \in BOOLEAN, Start(t, s, yes)
      PROVE  Sound
  <2>1. CASE r # s
    BY <1>1, <1>a, <2>1 DEF Start, TypeOK
  <2>2. CASE r = s
    <3>1. /\ slot'[r] = Answered(slot[r], yes) /\ used'[r] = used[r]
          /\ granted'[r] = IF yes /\ Pending(slot[r]) THEN granted[r] + 1 ELSE granted[r]
      BY <1>1, <2>2 DEF Start, TypeOK
    <3>2. slot'[r].ok => yes /\ Pending(slot[r])
      BY <3>1, <1>0 DEF Answered, Empty
    <3>. QED
      BY <1>0, <3>1, <3>2
  <2>. QED
    BY <2>1, <2>2
<1>2. ASSUME NEW t \in Run, NEW s \in Session, NEW u \in Run, Reenter(t, s, u)
      PROVE  Sound
  BY <1>2, <1>a DEF Reenter
<1>3. ASSUME NEW t \in Run, NEW c \in Call, Propose(t, c)
      PROVE  Sound
  <2>1. slot'[r].ok => slot[r].ok
    BY <1>3 DEF Propose, Registered, TypeOK
  <2>. QED
    BY <1>3, <1>a, <2>1 DEF Propose
<1>4. ASSUME NEW t \in Run, NEW c \in Call, Execute(t, c)
      PROVE  Sound
  <2>1. CASE r # session[t]
    BY <1>4, <1>a, <2>1 DEF Execute, TypeOK
  <2>2. CASE r = session[t]
    <3>1. slot[r].ok /\ ~slot'[r].ok /\ used'[r] = used[r] + 1 /\ granted'[r] = granted[r]
      BY <1>4, <2>2 DEF Execute, Permitted, Used, Empty, TypeOK
    <3>. QED
      BY <1>0, <3>1
  <2>. QED
    BY <2>1, <2>2
<1>5. ASSUME NEW t \in Run, Return(t) \/ End(t)
      PROVE  Sound
  <2>1. slot'[r].ok => slot[r].ok
    BY <1>5 DEF Return, End, Leaves, WithoutLicence, Empty, TypeOK
  <2>. QED
    BY <1>5, <1>a, <2>1 DEF Return, End, history
<1>6. ASSUME NEW t \in Run, Block(t) \/ TimeOut(t)
      PROVE  Sound
  <2>1. slot'[r].ok => slot[r].ok
    BY <1>6 DEF Block, TimeOut, WithoutProposal, Empty, TypeOK
  <2>. QED
    BY <1>6, <1>a, <2>1 DEF Block, TimeOut, history
<1>7. ASSUME NEW t \in Run, Answer(t) \/ Fail(t)
      PROVE  Sound
  BY <1>7, <1>a DEF Answer, Fail, history
<1>8. CASE UNCHANGED vars
  BY <1>8, <1>a DEF vars
<1>. QED
  BY <1>1, <1>2, <1>3, <1>4, <1>5, <1>6, <1>7, <1>8 DEF Next

(* The calls that ran and the open licence never outnumber the yeses: one  *)
(* yes lets one call pass, however runs and sub-agents interleave.         *)
THEOREM OneYes == Spec => []OneYesOneCall
<1>1. Init => OneYesOneCall
  <2>1. ASSUME Init, NEW s \in Session
        PROVE  used[s] = 0 /\ granted[s] = 0 /\ ~slot[s].ok
    BY <2>1 DEF Init, Empty
  <2>2. ASSUME Init, NEW s \in Session
        PROVE  used[s] + (IF slot[s].ok THEN 1 ELSE 0) <= granted[s]
    BY <2>1, <2>2
  <2>. QED
    BY <2>2 DEF OneYesOneCall
<1>2. TypeOK /\ OneYesOneCall /\ [Next]_vars => OneYesOneCall'
  BY StepOneYes
<1>. QED
  BY <1>1, <1>2, GateTypeCorrect, PTL DEF Spec

-----------------------------------------------------------------------------
(* A licence does not float.                                               *)

LEMMA StepHeld == TypeOK /\ LicenceHeld /\ [Next]_vars => LicenceHeld'
<1>. SUFFICES ASSUME TypeOK, LicenceHeld, [Next]_vars, NEW r \in Session, slot'[r].ok
              PROVE  \E h \in Run : (phase[h] # "idle" /\ session[h] = r /\ human[h])'
  BY DEF LicenceHeld, At, Active
<1>. DEFINE Held == \E h \in Run : (phase[h] # "idle" /\ session[h] = r /\ human[h])'
<1>. USE DEF TypeOK
<1>0. slot[r].ok => \E h \in Run : phase[h] # "idle" /\ session[h] = r /\ human[h]
  BY DEF LicenceHeld, At, Active
<1>1. ASSUME NEW t \in Run, NEW s \in Session, NEW yes \in BOOLEAN, Start(t, s, yes)
      PROVE  Held
  <2>0. phase[t] = "idle"
    BY <1>1 DEF Start, Active
  <2>1. CASE r = s
    <3>1. phase'[t] = "work" /\ session'[t] = s /\ human'[t]
      BY <1>1 DEF Start, Enters
    <3>. QED
      BY <2>1, <3>1
  <2>2. CASE r # s
    <3>1. slot[r].ok
      BY <1>1, <2>2 DEF Start
    <3>2. PICK h \in Run : phase[h] # "idle" /\ session[h] = r /\ human[h]
      BY <1>0, <3>1
    <3>3. phase'[h] # "idle" /\ session'[h] = r /\ human'[h]
      BY <1>1, <2>0, <3>2 DEF Start, Enters
    <3>. QED
      BY <3>3
  <2>. QED
    BY <2>1, <2>2
<1>2. ASSUME NEW t \in Run, NEW s \in Session, NEW u \in Run, Reenter(t, s, u)
      PROVE  Held
  <2>1. slot[r].ok /\ phase[t] = "idle"
    BY <1>2 DEF Reenter, Active
  <2>2. PICK h \in Run : phase[h] # "idle" /\ session[h] = r /\ human[h]
    BY <1>0, <2>1
  <2>3. phase'[h] # "idle" /\ session'[h] = r /\ human'[h]
    BY <1>2, <2>1, <2>2 DEF Reenter, Enters
  <2>. QED
    BY <2>3
<1>3. ASSUME NEW t \in Run, NEW c \in Call, Propose(t, c) \/ Execute(t, c)
      PROVE  Held
  <2>1. slot[r].ok
    BY <1>3 DEF Propose, Execute, Registered, Used, Empty
  <2>. QED
    BY <1>0, <1>3, <2>1 DEF Propose, Execute
<1>4. ASSUME NEW t \in Run, Return(t) \/ End(t)
      PROVE  Held
  <2>1. /\ slot[r].ok
        /\ ~(human[t] /\ session[t] = r)
    BY <1>4 DEF Return, End, Leaves, WithoutLicence, Empty
  <2>2. PICK h \in Run : phase[h] # "idle" /\ session[h] = r /\ human[h]
    BY <1>0, <2>1
  <2>3. phase'[h] # "idle" /\ session'[h] = r /\ human'[h]
    BY <1>4, <2>1, <2>2 DEF Return, End, Leaves
  <2>. QED
    BY <2>3
<1>5. ASSUME NEW t \in Run, Answer(t) \/ Block(t) \/ TimeOut(t) \/ Fail(t)
      PROVE  Held
  <2>1. slot[r].ok
    BY <1>5 DEF Answer, Block, TimeOut, Fail, WithoutProposal, Empty
  <2>2. PICK h \in Run : phase[h] # "idle" /\ session[h] = r /\ human[h]
    BY <1>0, <2>1
  <2>3. phase'[h] # "idle" /\ session'[h] = r /\ human'[h]
    BY <1>5, <2>2 DEF Answer, Block, TimeOut, Fail
  <2>. QED
    BY <2>3
<1>6. CASE UNCHANGED vars
  BY <1>0, <1>6 DEF vars
<1>. QED
  BY <1>1, <1>2, <1>3, <1>4, <1>5, <1>6 DEF Next

(* A licence lives inside a turn of the person: whichever run swept or     *)
(* used it, none is left when the last turn of the session ends.           *)
THEOREM NoFloatingLicence == Spec => []LicenceHeld
<1>1. Init => LicenceHeld
  BY DEF Init, LicenceHeld, Empty
<1>2. TypeOK /\ LicenceHeld /\ [Next]_vars => LicenceHeld'
  BY StepHeld
<1>. QED
  BY <1>1, <1>2, GateTypeCorrect, PTL DEF Spec

-----------------------------------------------------------------------------
(* A notice is never about an earlier turn.  The invariant covers the turn *)
(* until it leaves: a turn finds the slot empty or confirmed when it       *)
(* starts, and an open proposal is only ever registered in an empty slot.  *)

Fresh ==
  \A t \in Run : Active(t) /\ human[t] /\ Open(slot[session[t]]) => t \in met[session[t]]

LEMMA StepFresh == TypeOK /\ Fresh /\ [Next]_vars => Fresh'
<1>. SUFFICES ASSUME TypeOK, Fresh, [Next]_vars, NEW h \in Run, phase'[h] # "idle", human'[h],
                     Open(slot'[session'[h]])
              PROVE  h \in met'[session'[h]]
  BY DEF Fresh, Active, Open, Pending
<1>. USE DEF TypeOK
<1>a. ASSUME phase[h] # "idle", human[h], Open(slot[session[h]])
      PROVE  h \in met[session[h]]
  BY <1>a DEF Fresh, Active
<1>1. ASSUME NEW t \in Run, NEW s \in Session, NEW yes \in BOOLEAN, Start(t, s, yes)
      PROVE  h \in met'[session'[h]]
  <2>1. ~Open(Answered(slot[s], yes))
    BY DEF Answered, Open, Pending, Empty, Slot
  <2>2. session'[h] # s
    BY <1>1, <2>1 DEF Start, Open, Pending
  <2>3. /\ h # t /\ phase[h] # "idle" /\ human[h] /\ session'[h] = session[h]
        /\ slot'[session[h]] = slot[session[h]]
    BY <1>1, <2>2 DEF Start, Enters
  <2>4. h \in met[session[h]]
    BY <1>a, <2>3 DEF Open, Pending
  <2>. QED
    BY <1>1, <2>3, <2>4 DEF Start, Enters
<1>2. ASSUME NEW t \in Run, NEW s \in Session, NEW u \in Run, Reenter(t, s, u)
      PROVE  h \in met'[session'[h]]
  <2>1. h # t /\ phase[h] # "idle" /\ human[h] /\ session'[h] = session[h] /\ slot' = slot
    BY <1>2 DEF Reenter, Enters
  <2>2. h \in met[session[h]]
    BY <1>a, <2>1 DEF Open, Pending
  <2>. QED
    BY <1>2, <2>1, <2>2 DEF Reenter, Enters
<1>3. ASSUME NEW t \in Run, NEW c \in Call, Propose(t, c)
      PROVE  h \in met'[session'[h]]
  <2>1. phase[h] # "idle" /\ human[h] /\ session'[h] = session[h]
    BY <1>3 DEF Propose
  <2>2. CASE session[h] = session[t] /\ ~Pending(slot[session[t]])
    BY <1>3, <2>1, <2>2 DEF Propose, Turns, At, Active
  <2>3. CASE ~(session[h] = session[t] /\ ~Pending(slot[session[t]]))
    <3>1. slot'[session[h]] = slot[session[h]] /\ met'[session[h]] = met[session[h]]
      BY <1>3, <2>3 DEF Propose, Registered
    <3>. QED
      BY <1>a, <2>1, <3>1 DEF Open, Pending
  <2>. QED
    BY <2>2, <2>3
<1>4. ASSUME NEW t \in Run,
             \/ \E c \in Call : Execute(t, c)
             \/ Answer(t) \/ Return(t) \/ Block(t) \/ TimeOut(t) \/ Fail(t) \/ End(t)
      PROVE  h \in met'[session'[h]]
  <2>1. phase[h] # "idle" /\ human[h] /\ session'[h] = session[h] /\ met' = met
    BY <1>4 DEF Execute, Answer, Return, Block, TimeOut, Fail, End, Leaves, history
  <2>2. slot'[session[h]] = slot[session[h]]
    BY <1>4, <2>1 DEF Execute, Answer, Return, Block, TimeOut, Fail, End, Leaves, Used,
       WithoutLicence, WithoutProposal, Empty, Open, Pending
  <2>. QED
    BY <1>a, <2>1, <2>2 DEF Open, Pending
<1>5. CASE UNCHANGED vars
  BY <1>5, <1>a DEF vars, Open, Pending
<1>. QED
  BY <1>1, <1>2, <1>3, <1>4, <1>5 DEF Next

(* What a turn meets open in the slot was registered while the turn was in *)
(* progress, whatever failed before it and whatever overlaps it: a notice  *)
(* never asks for a yes to a proposal of an earlier turn.                  *)
THEOREM FreshNotice == Spec => []NoticeIsFresh
<1>1. Init => Fresh
  BY DEF Init, Fresh, Active
<1>2. TypeOK /\ Fresh /\ [Next]_vars => Fresh'
  BY StepFresh
<1>3. Fresh => NoticeIsFresh
  BY DEF Fresh, NoticeIsFresh, Active
<1>. QED
  BY <1>1, <1>2, <1>3, GateTypeCorrect, PTL DEF Spec

-----------------------------------------------------------------------------
(* What runs was shown, or one of the named exceptions.                    *)

OwnTurn == \A t \in Run : Active(t) /\ human[t] => turn[t] = t

\* A re-entrant run serves a turn that waits for it, or no turn.
Serves ==
  \A u \in Run : Active(u) /\ ~human[u] =>
    \/ turn[u] = u
    \/ human[turn[u]] /\ phase[turn[u]] = "work" /\ session[turn[u]] = session[u]

(* The turn that registered the slot of s is in progress and will show it. *)
WillShow(h, s) ==
  /\ origin[s] = h /\ human[h] /\ session[h] = s /\ Open(slot[s])
  /\ phase[h] = "work" \/ (phase[h] = "notice" /\ told[h] = slot[s].call)

Exempt(s) == shown[s] \/ excused[s] \/ hasty[s]

(* What is in the slot was shown, or is exempt, or will be shown: the yes  *)
(* that comes before is the one that overtakes the answer.                 *)
Accounted ==
  \A s \in Session : Pending(slot[s]) /\ ~Exempt(s) => \E t \in Run : WillShow(t, s)

TurnInv == TypeOK /\ OwnTurn /\ Serves /\ Accounted

LEMMA StepRuns ==
  ASSUME TypeOK, OwnTurn, Serves, [Next]_vars
  PROVE  OwnTurn' /\ Serves'
<1>. USE DEF TypeOK
<1>1. ASSUME NEW t \in Run, NEW s \in Session, NEW b \in BOOLEAN, NEW u \in Run,
             phase[t] = "idle", Enters(t, s, b, u),
             b => u = t,
             ~b => u = t \/ (phase[u] = "work" /\ human[u] /\ session[u] = s)
      PROVE  OwnTurn' /\ Serves'
  <2>1. /\ phase'[t] = "work" /\ session'[t] = s /\ human'[t] = b /\ turn'[t] = u
        /\ \A v \in Run \ {t} : /\ phase'[v] = phase[v] /\ session'[v] = session[v]
                                /\ human'[v] = human[v] /\ turn'[v] = turn[v]
    BY <1>1 DEF Enters
  <2>2. OwnTurn'
    BY <1>1, <2>1 DEF OwnTurn, Active
  <2>3. ASSUME NEW v \in Run, phase'[v] # "idle", ~human'[v]
        PROVE  \/ turn'[v] = v
               \/ /\ human'[turn'[v]] /\ phase'[turn'[v]] = "work"
                  /\ session'[turn'[v]] = session'[v]
    <3>1. CASE v = t
      BY <1>1, <2>1, <2>3, <3>1
    <3>2. CASE v # t
      <4>1. turn[v] = v \/ ( human[turn[v]] /\ phase[turn[v]] = "work"
                             /\ session[turn[v]] = session[v])
        BY <2>1, <2>3, <3>2 DEF Serves, Active
      <4>. QED
        BY <1>1, <2>1, <3>2, <4>1
    <3>. QED
      BY <3>1, <3>2
  <2>. QED
    BY <2>2, <2>3 DEF Serves, Active
<1>2. ASSUME NEW t \in Run, NEW s \in Session, NEW yes \in BOOLEAN, Start(t, s, yes)
      PROVE  OwnTurn' /\ Serves'
  BY <1>1, <1>2 DEF Start, Active
<1>3. ASSUME NEW t \in Run, NEW s \in Session, NEW u \in Run, Reenter(t, s, u)
      PROVE  OwnTurn' /\ Serves'
  BY <1>1, <1>3 DEF Reenter, Active, Turns, At
<1>4. ASSUME NEW t \in Run, NEW c \in Call, Propose(t, c) \/ Execute(t, c)
      PROVE  OwnTurn' /\ Serves'
  BY <1>4 DEF Propose, Execute, OwnTurn, Serves, Active
<1>5. ASSUME NEW t \in Run,
             Answer(t) \/ Return(t) \/ Block(t) \/ TimeOut(t) \/ Fail(t) \/ End(t)
      PROVE  OwnTurn' /\ Serves'
  <2>1. /\ phase[t] # "idle"
        /\ phase' = [phase EXCEPT ![t] = phase'[t]]
        /\ session' = session /\ human' = human /\ turn' = turn
    BY <1>5 DEF Answer, Return, Block, TimeOut, Fail, End, Leaves
  <2>2. phase[t] = "work" => \A u \in Run \ {t} : phase[u] # "idle" => turn[u] # t
    BY <1>5 DEF Answer, Return, Block, TimeOut, Fail, End, Nested, Active
  <2>3. OwnTurn'
    BY <2>1 DEF OwnTurn, Active
  <2>4. ASSUME NEW u \in Run, phase'[u] # "idle", ~human[u], turn[u] # u
        PROVE  human[turn[u]] /\ phase'[turn[u]] = "work" /\ session[turn[u]] = session[u]
    <3>1. phase[u] # "idle"
      BY <2>1, <2>4
    <3>2. human[turn[u]] /\ phase[turn[u]] = "work" /\ session[turn[u]] = session[u]
      BY <2>4, <3>1 DEF Serves, Active
    <3>3. turn[u] # t
      BY <2>2, <2>4, <3>1, <3>2
    <3>. QED
      BY <2>1, <3>2, <3>3
  <2>. QED
    BY <2>1, <2>3, <2>4 DEF Serves, Active
<1>6. CASE UNCHANGED vars
  BY <1>6 DEF vars, OwnTurn, Serves, Active
<1>. QED
  BY <1>2, <1>3, <1>4, <1>5, <1>6 DEF Next

LEMMA StepAccounted ==
  ASSUME TurnInv, [Next]_vars
  PROVE  Accounted'
<1>. SUFFICES ASSUME NEW r \in Session, Pending(slot'[r]),
                     ~shown'[r], ~excused'[r], ~hasty'[r]
              PROVE  \E h \in Run : WillShow(h, r)'
  BY DEF Accounted, Pending, Exempt
<1>. USE DEF TurnInv, TypeOK
<1>a. ASSUME Pending(slot[r]), ~shown[r], ~excused[r], ~hasty[r]
      PROVE  \E h \in Run : WillShow(h, r)
  BY <1>a DEF Accounted, Exempt
<1>1. ASSUME NEW t \in Run, NEW s \in Session, NEW yes \in BOOLEAN, Start(t, s, yes)
      PROVE  \E h \in Run : WillShow(h, r)'
  <2>1. phase[t] = "idle" /\ Pending(slot[r]) /\ ~shown[r] /\ ~excused[r] /\ ~hasty[r]
    BY <1>1 DEF Start, Active, Answered, Empty, Pending
  <2>2. PICK h \in Run : WillShow(h, r)
    BY <1>a, <2>1
  <2>3. h # t /\ h \in At(r)
    BY <2>1, <2>2 DEF WillShow, At, Active
  <2>4. r # s
    <3>1. SUFFICES ASSUME r = s PROVE FALSE
      OBVIOUS
    <3>2. yes
      BY <1>1, <3>1 DEF Start, Answered, Empty, Pending
    <3>. QED
      BY <1>1, <2>1, <2>2, <2>3, <3>1, <3>2 DEF Start, WillShow
  <2>5. WillShow(h, r)'
    BY <1>1, <2>2, <2>3, <2>4 DEF Start, Enters, WillShow, Open, Pending
  <2>. QED
    BY <2>5
<1>2. ASSUME NEW t \in Run, NEW s \in Session, NEW u \in Run, Reenter(t, s, u)
      PROVE  \E h \in Run : WillShow(h, r)'
  <2>1. phase[t] = "idle" /\ Pending(slot[r]) /\ ~shown[r] /\ ~excused[r] /\ ~hasty[r]
    BY <1>2 DEF Reenter, Active, Pending
  <2>2. PICK h \in Run : WillShow(h, r)
    BY <1>a, <2>1
  <2>3. WillShow(h, r)'
    BY <1>2, <2>1, <2>2 DEF Reenter, Enters, WillShow, Open, Pending
  <2>. QED
    BY <2>3
<1>3. ASSUME NEW t \in Run, NEW c \in Call, Propose(t, c)
      PROVE  \E h \in Run : WillShow(h, r)'
  <2>1. CASE r = session[t] /\ ~Pending(slot[r])
    <3>1. /\ turn[t] \in Run /\ human[turn[t]] /\ phase[turn[t]] = "work"
          /\ session[turn[t]] = r
      <4>1. human[turn[t]] /\ turn[t] \in Run
        BY <1>3, <2>1 DEF Propose
      <4>. QED
        BY <1>3, <2>1, <4>1 DEF Propose, OwnTurn, Serves, Active
    <3>2. Open(slot'[r])
      BY <1>3, <2>1, GateAssumption DEF Propose, Registered, Open, Pending
    <3>3. PICK h \in Run : h = turn[t]
      BY <3>1
    <3>4. WillShow(h, r)'
      BY <1>3, <2>1, <3>1, <3>2, <3>3 DEF Propose, WillShow, Open, Pending
    <3>. QED
      BY <3>4
  <2>2. CASE ~(r = session[t] /\ ~Pending(slot[r]))
    <3>1. /\ slot'[r] = slot[r] /\ origin'[r] = origin[r]
          /\ Pending(slot[r]) /\ ~shown[r] /\ ~excused[r] /\ ~hasty[r]
      BY <1>3, <2>2 DEF Propose, Registered, Pending
    <3>2. PICK h \in Run : WillShow(h, r)
      BY <1>a, <3>1
    <3>3. WillShow(h, r)'
      BY <1>3, <3>1, <3>2 DEF Propose, WillShow, Open, Pending
    <3>. QED
      BY <3>3
  <2>. QED
    BY <2>1, <2>2
<1>4. ASSUME NEW t \in Run, NEW c \in Call, Execute(t, c)
      PROVE  \E h \in Run : WillShow(h, r)'
  <2>1. slot'[r] = slot[r] /\ ~shown[r] /\ ~excused[r] /\ ~hasty[r]
    BY <1>4 DEF Execute, Used, Empty, Pending
  <2>2. PICK h \in Run : WillShow(h, r)
    BY <1>a, <2>1
  <2>3. WillShow(h, r)'
    BY <1>4, <2>1, <2>2 DEF Execute, WillShow, Open, Pending
  <2>. QED
    BY <2>3
<1>5. ASSUME NEW t \in Run, Answer(t)
      PROVE  \E h \in Run : WillShow(h, r)'
  <2>1. slot' = slot /\ ~shown[r] /\ ~excused[r] /\ ~hasty[r]
    BY <1>5 DEF Answer, history
  <2>2. PICK h \in Run : WillShow(h, r)
    BY <1>a, <2>1
  <2>3. WillShow(h, r)'
    BY <1>5, <2>1, <2>2 DEF Answer, history, WillShow, Open, Pending
  <2>. QED
    BY <2>3
<1>6. ASSUME NEW t \in Run, Return(t)
      PROVE  \E h \in Run : WillShow(h, r)'
  <2>1. slot'[r] = slot[r] /\ ~shown[r] /\ ~excused[r] /\ ~hasty[r]
    BY <1>6 DEF Return, Leaves, WithoutLicence, Empty, Pending
  <2>2. PICK h \in Run : WillShow(h, r)
    BY <1>a, <2>1
  <2>3. h # t
    <3>1. CASE session[t] # r
      BY <2>2, <3>1 DEF WillShow
    <3>2. CASE session[t] = r
      BY <1>6, <2>1, <2>2, <3>2 DEF Return, WillShow, Open
    <3>. QED
      BY <3>1, <3>2
  <2>4. WillShow(h, r)'
    BY <1>6, <2>1, <2>2, <2>3 DEF Return, Leaves, WillShow, Open, Pending
  <2>. QED
    BY <2>4
<1>7. ASSUME NEW t \in Run, Block(t) \/ TimeOut(t)
      PROVE  \E h \in Run : WillShow(h, r)'
  <2>1. slot'[r] = slot[r] /\ ~shown[r] /\ ~excused[r] /\ ~hasty[r]
    BY <1>7 DEF Block, TimeOut, history, WithoutProposal, Empty, Pending
  <2>2. PICK h \in Run : WillShow(h, r)
    BY <1>a, <2>1
  <2>3. h # t
    BY <1>7, <2>1, <2>2 DEF Block, TimeOut, WillShow, WithoutProposal, Empty, Open, Pending
  <2>4. WillShow(h, r)'
    BY <1>7, <2>1, <2>2, <2>3 DEF Block, TimeOut, history, WillShow, Open, Pending
  <2>. QED
    BY <2>4
<1>8. ASSUME NEW t \in Run, Fail(t)
      PROVE  \E h \in Run : WillShow(h, r)'
  <2>1. slot' = slot /\ ~shown[r] /\ ~excused[r] /\ ~hasty[r]
    BY <1>8 DEF Fail
  <2>2. PICK h \in Run : WillShow(h, r)
    BY <1>a, <2>1
  <2>3. h # t
    BY <1>8, <2>1, <2>2 DEF Fail, WillShow, Open
  <2>4. WillShow(h, r)'
    BY <1>8, <2>1, <2>2, <2>3 DEF Fail, WillShow, Open, Pending
  <2>. QED
    BY <2>4
<1>9. ASSUME NEW t \in Run, End(t)
      PROVE  \E h \in Run : WillShow(h, r)'
  <2>1. slot'[r] = slot[r] /\ ~shown[r] /\ ~excused[r] /\ ~hasty[r]
    BY <1>9 DEF End, Leaves, history, WithoutLicence, Empty, Pending
  <2>2. PICK h \in Run : WillShow(h, r)
    BY <1>a, <2>1
  <2>3. WillShow(h, r)'
    BY <1>9, <2>1, <2>2 DEF End, Leaves, history, WillShow, Open, Pending
  <2>. QED
    BY <2>3
<1>10. CASE UNCHANGED vars
  BY <1>10, <1>a DEF vars, WillShow, Open, Pending
<1>. QED
  BY <1>1, <1>2, <1>3, <1>4, <1>5, <1>6, <1>7, <1>8, <1>9, <1>10 DEF Next

LEMMA InitTurn == Init => TurnInv
<1>. SUFFICES ASSUME Init PROVE TurnInv
  OBVIOUS
<1>1. TypeOK
  BY InitType
<1>. QED
  BY <1>1 DEF Init, TurnInv, OwnTurn, Serves, Accounted, Active, Pending, Open, Empty

LEMMA StepTurn == TurnInv /\ [Next]_vars => TurnInv'
<1>. SUFFICES ASSUME TurnInv, [Next]_vars PROVE TurnInv'
  OBVIOUS
<1>1. TypeOK'
  BY StepType DEF TurnInv
<1>2. OwnTurn' /\ Serves'
  BY StepRuns DEF TurnInv
<1>. QED
  BY <1>1, <1>2, StepAccounted DEF TurnInv

(* No gated call runs that the person was not shown before the yes, but    *)
(* for a proposal whose run failed or served no turn and for a yes that    *)
(* overtook the answer of the proposing turn: there is no other way past   *)
(* the notice, whatever overlaps.                                          *)
THEOREM Informed == Spec => InformedConsent
<1>1. ASSUME TurnInv, [Next]_vars, NEW s \in Session, used'[s] # used[s]
      PROVE  shown[s] \/ excused[s] \/ hasty[s]
  <2>1. PICK t \in Run, c \in Call : Execute(t, c) /\ session[t] = s
    <3>1. ASSUME NEW t \in Run, NEW c \in Call, Execute(t, c)
          PROVE  session[t] = s
      BY <1>1, <3>1 DEF Execute, TurnInv, TypeOK
    <3>2. \E t \in Run, c \in Call : Execute(t, c)
      BY <1>1 DEF Next, Start, Reenter, Propose, Answer, Return, Block, TimeOut, Fail, End,
         history, vars
    <3>. QED
      BY <3>1, <3>2
  <2>2. slot[s].ok /\ Pending(slot[s])
    BY <2>1, GateAssumption DEF Execute, Permitted, Pending
  <2>. QED
    BY <1>1, <2>2 DEF TurnInv, Accounted, Exempt, WillShow, Open
<1>2. TurnInv /\ [Next]_vars =>
        [\A s \in Session : used'[s] # used[s] => shown[s] \/ excused[s] \/ hasty[s]]_vars
  BY <1>1
<1>. QED
  BY InitTurn, StepTurn, <1>2, PTL DEF Spec, InformedConsent
=============================================================================
