\* A write that is lost passes for a success.
CONSTANTS
  p1 = p1  p2 = p2  p3 = p3  d1 = d1  d2 = d2
  i1 = i1  i2 = i2  i3 = i3  kA = kA  kB = kB
  Proc = {p1}
  Dir = {d1, d2}
  Home <- TwoHomes
  Nobody = Nobody
  Id = {i1, i2, i3}
  Name = {"alice", "bob"}
  Key = {kA, kB}
  RowId = {}
  InitClients <- NoRows
  MaxFaults = 1
SPECIFICATION Spec
CHECK_DEADLOCK FALSE
INVARIANTS RegisteredIsSaved
