SPECIFICATION Spec
CONSTANTS
  a1 = a1  c1 = c1  c2 = c2
  Accounts = {a1}
  Callers = {c1, c2}
  Slots = 1
  MaxIssued <- IssuedBound
  MaxWork = 3
  AnswersLost = FALSE
INVARIANTS RotationAlwaysStored
CHECK_DEADLOCK FALSE
