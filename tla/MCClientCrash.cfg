\* Alice alone, without failures.
CONSTANTS
  p = p  q = q  o = o  a = a  b = b  d = d  k = k
  Process = {p}
  Orphan = {}
  Id = {a, b}
  Name = {"alice", "bob"}
  Key = {k}
  Type = {"REQUEST_SYM_KEY", "SEND_SYM_KEY", "TEXT_MESSAGE"}
  RowId <- RowIds
  TextLength <- Lengths
  InitClients <- TwoClients
  InitMessages <- NoRows
  InitMe <- AliceAndNewcomer
  MaxSends = 2
  MaxFaults = 0
SPECIFICATION Spec
INVARIANTS KeyOptionReturns
