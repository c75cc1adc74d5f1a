SPECIFICATION Spec
CONSTANTS
  Requests <- MCShort
  Size = 16
  MinHeader = 4
  Leftovers <- MCLeftovers
INVARIANT LineIsInBuffer
