\* Two connections, every kind of request, two rivals for a name, messages to
\* send and to fetch, torn requests, a failing call, a crash.
CONSTANTS
  c1 = c1  c2 = c2  c3 = c3
  a = a  b = b  d = d  e = e  f = f  kA = kA  kB = kB
  Conn = {c1, c2}
  Listener = Listener
  Id = {a, b, d, e}
  Name <- Names
  Key = {kA, kB}
  RowId <- RowIds
  Inputs <- AllInputs
  InitClients <- TwoClients
  InitMessages <- ThreeTexts
  MaxConnections = 2
  ClientsPerPacket = 1
  RowsPerPacket = 1
  MayTear = TRUE
  MaxFaults = 1
  MaxCrashes = 1
SPECIFICATION Spec
SYMMETRY Symmetric
CHECK_DEADLOCK FALSE
INVARIANTS TypeOK RefIntegrity BatchLive UniqueNames RegistrationDurable DirectoryReplyConsistent AckedMessageDurable NoDuplicateDelivery
PROPERTIES FetchReturnsMailbox DeletedOnlyAfterHanded MailboxPromise
