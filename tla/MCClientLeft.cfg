\* A registered client and a newcomer; a request may stay in its socket when the
\* process that sent it ends, or the socket may be reset.
CONSTANTS
  p = p  q = q  o = o  a = a  b = b  d = d  k = k
  Process = {p, q}
  Orphan = {o}
  Id = {a, b, d}
  Name = {"alice", "bob", "carol"}
  Key = {k}
  Type = {"TEXT_MESSAGE"}
  RowId <- RowIds
  TextLength <- OneLength
  InitClients <- TwoClients
  InitMessages <- OneText
  InitMe <- AliceAndNewcomer
  MaxSends = 1
  MaxFaults = 0
SPECIFICATION Spec
INVARIANTS AddressedToNamed
PROPERTIES CollectedByRecipient MessengerPromise
