SPECIFICATION Spec
CONSTANTS
  Session = {s1}
  Call = {c1, c2}
  NoCall = NoCall
  Run = {a, b, c}
  MaxYeses = 3
SYMMETRY MCSymmetry
INVARIANTS
  OneYesOneCall
  NoticeIsFresh
PROPERTIES
  InformedConsent
CHECK_DEADLOCK FALSE
