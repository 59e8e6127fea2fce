CONSTANTS
  Messages = {m1, m2}
  MaxPerTurn = 2
  MaxClaims = 2
SPECIFICATION Spec
SYMMETRY Symmetry
INVARIANTS RunOnce OwnedUntilSettled
CHECK_DEADLOCK FALSE
