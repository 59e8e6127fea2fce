CONSTANTS
  Messages = {m1, m2}
  Branches = {b1, b2}
  Batches = {t1, t2}
  NoBatch = NoBatch
  MaxPending = 2
  MaxRecords = 2
  MaxSequence = 3
  MaxOwners = 3
  MaxAttempts = 2
  MaxFailures = 1
SPECIFICATION Spec
SYMMETRY Symmetry
INVARIANTS InboxReadable ActiveIsOwners
PROPERTY LifecycleSpec
CHECK_DEADLOCK FALSE
