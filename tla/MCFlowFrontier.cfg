CONSTANTS
  Workflows <- AllFlows
  NoEntry = NoEntry
  MaxCrashes = 2
SPECIFICATION Spec
CHECK_DEADLOCK FALSE
INVARIANTS WorkIsBounded DoneIsComplete InputsAreCurrent
 
