SPECIFICATION FairSpec
CONSTANTS
  Macs = {a, b}
  NoMac = NoMac
  PoolSize = 2
  Half = 3
  Quantum = 1
  Lease = 1
  Horizon = 3
  BaseIP = 16
  Others <- MCOthers
  Remembered <- Nothing
INVARIANT OneEntryEach
PROPERTY EventuallyBound
