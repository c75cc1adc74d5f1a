SPECIFICATION Spec
CONSTANTS
  Macs = {a, b}
  NoMac = NoMac
  PoolSize = 2
  Half = 6
  Quantum = 3
  Lease = 2
  Horizon = 12
  BaseIP = 16
  Others <- MCOthers
  Remembered <- AnySlot
SYMMETRY Symmetry
INVARIANTS TypeOK UniqueAddresses LeaseHonoured
PROPERTY AckIsAsked
