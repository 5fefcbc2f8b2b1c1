CONSTANTS
  r1 = r1
  r2 = r2
  c1 = c1
  c2 = c2
  p1 = p1
  p2 = p2
  Requests <- MCRequests
  Clients <- MCClients
  Files = {f1}
  Programs <- MCPrograms
  NoClient = NoClient
  Operations = {"write", "create"}
  MaxCopies = 1
SPECIFICATION Spec
SYMMETRY MCSymmetry
INVARIANTS
  TypeOK
  PortIsCurrent
  WaitsOnCurrentClient
  UnsetOnlyByAnswer
  TimeoutRefuses
  QuietWhenStopped
PROPERTIES
  ImplementsAccessControl
