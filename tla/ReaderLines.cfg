SPECIFICATION FairSpec
CONSTANTS
  Requests <- MCRequests
  Size = 16
  MinHeader = 4
  Leftovers <- MCLeftovers
INVARIANTS TypeOK LinesAreSent
PROPERTIES RequestEnds ReleasedByClient
CHECK_DEADLOCK FALSE
