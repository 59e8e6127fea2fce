CONSTANTS
  s1 = s1
  m1 = m1
  Origins = {o1}
  Scopes = {s1}
  MessageIds = {m1}
  ScopeOf <- OneScope
  MessageOf <- OneMessage
  Payloads = {p1}
  Absent = Absent
  Ordinals = {0, 1}
  Texts = {"t"}
  Errors = {}
  MaxSends = 2
  Chunks = 1
  Drains = {d1, d2}
  Nobody = Nobody
  MaxBoots = 1
  MaxFailures = 1
SPECIFICATION FairSpec
PROPERTIES DeliveryEnds
CHECK_DEADLOCK FALSE
