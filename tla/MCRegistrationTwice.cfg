\* A process started before me.info was there registers over it.
CONSTANTS
  p1 = p1  p2 = p2  p3 = p3  d1 = d1  d2 = d2
  i1 = i1  i2 = i2  i3 = i3  kA = kA  kB = kB
  Proc = {p1, p2}
  Dir = {d1, d2}
  Home <- TwoHomes
  Nobody = Nobody
  Id = {i1, i2}
  Name = {"alice", "bob"}
  Key = {kA, kB}
  RowId = {}
  InitClients <- NoRows
  MaxFaults = 0
SPECIFICATION Spec
CHECK_DEADLOCK FALSE
SYMMETRY Symmetric
PROPERTIES NoRegistrationOverFile
