CONSTANTS
  Scopes = {s1}
  Messages = {m1, m2}
  Payloads = {p1}
  Namespaces = {n1}
  Unbound = Unbound
  Texts = {"t"}
  Capacities = {2}
  Outcomes <- ConsumerOutcomes
  MaxAttempts = 4
  MaxRetries = 0
  MaxBoots = 2
  MaxWaits = 1
SPECIFICATION Spec
SYMMETRY Symmetry
 
PROPERTY StoreSpec
CHECK_DEADLOCK FALSE
