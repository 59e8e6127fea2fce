CONSTANTS
  Scopes = {s1}
  Messages = {m1, m2, m3}
  Payloads = {p1}
  Namespaces = {n1}
  Unbound = Unbound
  Texts = {"t"}
  Capacities = {2}
  Outcomes <- FinishOutcomes
  MaxAttempts = 4
  MaxRetries = 1
SPECIFICATION Spec
SYMMETRY Symmetry
INVARIANTS ReceiptsValid ExecutedAsAuthorized AdmissionInOrder
PROPERTIES SettledForever NoReplay
