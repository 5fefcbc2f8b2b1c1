CONSTANTS
  r1 = r1
  r2 = r2
  r3 = r3
  p1 = p1
  p2 = p2
  Requests <- MCRequests
  Programs <- MCPrograms
  ProgramOf <- MCProgramOf
SPECIFICATION Spec
INVARIANTS
  TypeOK
  FetchedInOrder
  NoLostQuestion
  PopsFromNonEmpty
  PortOutlivesHandler
  BlockedStaysDenied
PROPERTY
  ImplementsQuestionService
CHECK_DEADLOCK FALSE
