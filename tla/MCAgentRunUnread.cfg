CONSTANTS
  a = a
  Identified = {}
  Plain = {}
  Prompt = Prompt
  NoInput = NoInput
  Buffer = 1
  MaxRuns = 1
  MaxCalls = 2
  MaxReplies = 1
SPECIFICATION UnreadSpec
PROPERTIES CloseUnread
CHECK_DEADLOCK FALSE
