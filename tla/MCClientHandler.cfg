\* A registered client and a newcomer, with failures.  A request that waits when
\* its process ends is lost with it: see MCClientLeft.cfg.
CONSTANTS
  p = p  q = q  o = o  a = a  b = b  d = d  k = k
  Process = {p, q}
  Orphan = {}
  Id = {a, b, d}
  Name = {"alice", "bob", "carol"}
  Key = {k}
  Type = {"REQUEST_SYM_KEY", "SEND_SYM_KEY", "TEXT_MESSAGE"}
  RowId <- RowIds
  TextLength <- Lengths
  InitClients <- TwoClients
  InitMessages <- OneText
  InitMe <- AliceAndNewcomer
  MaxSends = 1
  MaxFaults = 1
SPECIFICATION FairSpec
INVARIANTS TypeOK AddressedToNamed SenderShownTrue RefusedOnlyLong NamesOwned
PROPERTIES OptionConcluded CollectedByRecipient MessengerPromise
