CONSTANTS
  Routes <- TwoRoutes
  RetrySafe <- SecondSafe
  Pushes = {p1, p2}
  Oversized = {p2}
  None = None
  MaxScans = 1
  MaxEvents = 1
  MaxPendingEvents = 2
  MaxCrashes = 1
  MaxControls = 2
SPECIFICATION TwoDisturbances
CHECK_DEADLOCK FALSE
INVARIANTS NothingLost NoEffectTwice
 
