------------------------- MODULE ConversationMemory -------------------------
(***************************************************************************)
(* The conversation of a session as an agent with strategy "summary" keeps *)
(* it: MemoryManager (src/astromesh/core/memory.py) over Redis, the one    *)
(* backend the factory builds (src/astromesh/memory).                      *)
(*                                                                         *)
(* A run reads the last MaxTurns turns and the summary, and when it ends   *)
(* saves its own two turns and folds those that leave the window into the  *)
(* summary.  A summary is the sequence of the turns folded into it.        *)
(***************************************************************************)
EXTENDS Integers, Sequences

CONSTANTS
  Session,
  MaxTurns      \* conversational.max_turns

ASSUME MemoryAssumption == MaxTurns \in Nat \ {0}

VARIABLE memory   \* conv:<session> and conv_summary:<session>

\* Two histories: the turns saved by exchanges that did not fold, and those
\* that were in a summary which expired.
Conversations(Turn) ==
  [turns : Seq(Turn), summary : Seq(Turn), missed : Nat, gone : SUBSET Turn]

NoConversation == [turns |-> <<>>, summary |-> <<>>, missed |-> 0, gone |-> {}]

\* lrange -n, -1
LastOf(s, n) == SubSeq(s, Len(s) - (IF Len(s) < n THEN Len(s) ELSE n) + 1, Len(s))

\* What build_context gives the model word for word, and what it does not.
Window(m)  == LastOf(m.turns, MaxTurns)
Outside(m) == SubSeq(m.turns, 1, Len(m.turns) - Len(Window(m)))

\* Fault: one turn of the exchange is folded.
LeavingOne(m) == LET h == LastOf(m.turns, MaxTurns + 1) IN SubSeq(h, 1, Len(h) - MaxTurns)

\* history[:-max_turns] of the last max_turns + 2.
Leaving(m) == LET h == LastOf(m.turns, MaxTurns + 2) IN SubSeq(h, 1, Len(h) - MaxTurns)

\* rpush
Saved(m, turn) == [m EXCEPT !.turns = Append(@, turn)]

\* _summarize, then save_summary.
Folded(m, previous, turns) == [m EXCEPT !.summary = previous \o turns]

\* An exchange ends and n turns it saved will not be made up for.
Missed(m, n) == [m EXCEPT !.missed = @ + n]

\* Every save_turn renews the turns; they expire when nobody writes for ttl.
TurnsExpired(m) == [NoConversation EXCEPT !.summary = m.summary]

\* Nothing but save_summary renews the summary: when folds fail for 2 * ttl,
\* or none was due, it expires while the turns are there.
SummaryExpired(m) ==
  [m EXCEPT !.summary = <<>>, !.gone = @ \cup {m.summary[i] : i \in DOMAIN m.summary}]

InSeq(turn, s) == \E i \in 1 .. Len(s) : s[i] = turn

NoRepeat(s) == \A i, j \in 1 .. Len(s) : s[i] = s[j] => i = j

=============================================================================
