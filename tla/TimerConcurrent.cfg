SPECIFICATION Spec
CONSTANTS
  Conns = {c1, c2}
  Tasks = {t1, t2}
  NoTask = NoTask
  Paths <- Changing
  MaxWord = 1
  Hundredths <- MCHundredths
  Factory <- AllLong
  Posted <- MCOnlyLong
SYMMETRY Symmetry
INVARIANTS TypeOK EmptySemaphoreHasOwner ShutterOwned
