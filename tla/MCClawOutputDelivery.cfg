CONSTANTS
  s1 = s1
  m1 = m1
  Origins = {o1}
  Scopes = {s1}
  MessageIds = {m1}
  ScopeOf <- OneScope
  MessageOf <- OneMessage
  Payloads = {p1}
  Absent = Absent
  Ordinals = {0, 1}
  Texts = {"t"}
  Errors = {}
  MaxSends = 2
  Chunks = 2
  Drains = {d1, d2}
  Nobody = Nobody
  MaxBoots = 2
  MaxFailures = 1
SPECIFICATION Spec
SYMMETRY Symmetry
INVARIANTS OutputsValid OneUncertainSend NeverAcceptedTwice ReceiptsTruthful
PROPERTIES FinalForever StoreSpec
CHECK_DEADLOCK FALSE
