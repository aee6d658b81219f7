\* Every client that waits is noticed, and every request that does not raise is
\* concluded, unless a reset socket stays registered for ever.
CONSTANTS
  c1 = c1  c2 = c2  c3 = c3
  a = a  b = b  d = d  e = e  f = f  kA = kA  kB = kB
  Conn = {c1, c2, c3}
  Listener = Listener
  Id = {a, b, d, e}
  Name <- Names
  Key = {kA, kB}
  RowId <- RowIds
  Inputs <- MixedInputs
  InitClients <- ThreeClients
  InitMessages <- SentRows
  MaxConnections = 2
  ClientsPerPacket = 1
  RowsPerPacket = 1
  MayTear = TRUE
  MaxFaults = 0
  MaxCrashes = 0
SPECIFICATION FairSpec
CHECK_DEADLOCK FALSE
PROPERTIES EveryWaitingServed QuietRequestsConcluded
