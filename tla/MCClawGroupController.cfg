CONSTANTS
  Groups = {g1, g2}
  Tasks = {t1, t2}
  Nobody = Nobody
  Inputs = {i1}
  NoInput = NoInput
  Slots = 1
  MaxTokens = 3
SPECIFICATION FairSpec
INVARIANTS OneExecution FreeIsAnnounced AdmittedIsExecuting CountsAreLive
PROPERTIES FreeIsTaken OwnersLetGo
CHECK_DEADLOCK FALSE
