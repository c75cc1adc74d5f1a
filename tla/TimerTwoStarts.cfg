SPECIFICATION Spec
CONSTANTS
  Conns = {c1, c2}
  Tasks = {t1, t2}
  NoTask = NoTask
  Paths <- Shooting
  MaxWord = 3
  Hundredths <- MCHundredths
  Factory <- MCFactory
  Posted <- MCPosted
INVARIANT OneSequence
