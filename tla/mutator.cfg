SPECIFICATION Spec
CHECK_DEADLOCK FALSE
CONSTANTS
  Meanings = {1, 2}
  MaxSends = 3
  MaxFails = 2
  MaxOthers = 1
INVARIANTS ExpectationExact GracefulAgrees SetOnce
PROPERTY VerifiedAtLast
