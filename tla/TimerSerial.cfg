SPECIFICATION Spec
CONSTANTS
  Conns = {c1}
  Tasks = {t1, t2}
  NoTask = NoTask
  Paths <- AllPaths
  MaxWord = 3
  Hundredths <- MCHundredths
  Factory <- MCFactory
  Posted <- MCPosted2
INVARIANTS OneSequence StopStops ReportsStored
PROPERTIES StoresWhatWasPosted IsIntervalometer
