SPECIFICATION FairSpec
CONSTANTS
  Conns = {c1, c2}
  Tasks = {t1}
  NoTask = NoTask
  Paths <- Shooting
  MaxWord = 1
  Hundredths <- MCHundredths
  Factory <- AllLong
  Posted <- MCOnlyLong
PROPERTIES ShutterCloses CallsFinish
