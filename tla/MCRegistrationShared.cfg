\* Two processes in one directory and one elsewhere, rivals for two names, a
\* write that may be lost.
CONSTANTS
  p1 = p1  p2 = p2  p3 = p3  d1 = d1  d2 = d2
  i1 = i1  i2 = i2  i3 = i3  kA = kA  kB = kB
  Proc = {p1, p2, p3}
  Dir = {d1, d2}
  Home <- TwoHomes
  Nobody = Nobody
  Id = {i1, i2}
  Name = {"alice", "bob"}
  Key = {kA, kB}
  RowId = {}
  InitClients <- NoRows
  MaxFaults = 1
SPECIFICATION Spec
CHECK_DEADLOCK FALSE
SYMMETRY Symmetric
INVARIANTS TypeOK SavedIdentityKnown RunningIdentityKnown NamesNotShared RegistrationSaved RegisteredOnce
PROPERTIES IdentityKept
