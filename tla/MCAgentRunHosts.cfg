CONSTANTS
  a = a
  Identified = {a}
  Plain = {}
  Prompt = Prompt
  NoInput = NoInput
  Buffer = 1
  MaxRuns = 2
  MaxCalls = 2
  MaxReplies = 1
SPECIFICATION HostsSpec
INVARIANTS  EffectsHeld AbortHitsItsRun InputsAccounted
PROPERTY CancelSettles
CHECK_DEADLOCK FALSE
