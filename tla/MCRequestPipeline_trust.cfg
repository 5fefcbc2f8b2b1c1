CONSTANTS
  r1 = r1
  r2 = r2
  r3 = r3
  p1 = p1
  p2 = p2
  Requests = {r1, r2}
  Programs <- MCPrograms
  ProgramOf <- MCProgramOf
SPECIFICATION FairSpec
PROPERTY
  TrustCompletes
CHECK_DEADLOCK FALSE
