CONSTANTS
  r1 = r1
  r2 = r2
  c1 = c1
  c2 = c2
  p1 = p1
  p2 = p2
  Requests <- MCRequests
  Clients = {c1}
  Files = {f1}
  Programs = {p1}
  NoClient = NoClient
  Operations = {"write"}
  MaxCopies = 2
SPECIFICATION Spec
PROPERTY
  UnloadFreesLists
