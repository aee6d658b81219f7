\* A client alone in the registry asks who else is there.
CONSTANTS
  c1 = c1  c2 = c2  c3 = c3
  a = a  b = b  d = d  e = e  f = f  kA = kA  kB = kB
  Conn = {c1, c2}
  Listener = Listener
  Id = {a, b, d, e}
  Name <- Names
  Key = {kA, kB}
  RowId <- RowIds
  Inputs <- RegistryInputs
  InitClients <- OneClient
  InitMessages <- NoRows
  MaxConnections = 1
  ClientsPerPacket = 1
  RowsPerPacket = 1
  MayTear = FALSE
  MaxFaults = 0
  MaxCrashes = 1
SPECIFICATION Spec
SYMMETRY Symmetric
CHECK_DEADLOCK FALSE
INVARIANTS ListAnswered
