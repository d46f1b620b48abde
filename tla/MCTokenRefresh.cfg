SPECIFICATION FairSpec
CONSTANTS
  a1 = a1  c1 = c1  c2 = c2
  Accounts = {a1}
  Callers = {c1, c2}
  Slots = 1
  MaxIssued <- IssuedBound
  MaxWork = 3
  AnswersLost = TRUE
INVARIANTS TypeOK SlotsExact RotationStored NoGrantSentTwice DrainedIsQuiet
PROPERTIES NewerCredentialsStay DrainEnds EveryCallReturns
CHECK_DEADLOCK FALSE
