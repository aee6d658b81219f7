\* A connection that holds a packet and a half.
\* An exchange ends: CHECK_DEADLOCK FALSE.
CONSTANTS
  Packet = 8
  Header = 2
  BlockHeader = 2
  Capacity = 12
  Replies <- SomeReplies
SPECIFICATION FairSpec
INVARIANTS TypeOK ReadFits AcceptedWhole RefusedOnlyCut EveryBlockShown
PROPERTIES ReplyConcluded
CHECK_DEADLOCK FALSE
