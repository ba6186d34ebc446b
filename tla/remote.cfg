SPECIFICATION Spec
CONSTANTS
  Session = {s, t}
  NoSession = NoSession
  Call = {c, d}
  MaxTask = 2
  MaxQuestion = 2
  MaxKept = 1
SYMMETRY Same
INVARIANTS
  ReplyExclusive KeptAsTold AnswersWhatWasAsked
CHECK_DEADLOCK FALSE
