SPECIFICATION FairSpec
CONSTANTS
  Conns = {c1, c2}
  Broadcast = "broadcast"
  Fine = 1
  Word = 16
  Garbage = {}
  Width <- Widths
  Number <- NoNumbers
  Hosts <- MCHosts
  Values <- AllValues
  Factory <- Shipped
  Kept <- FewKeys
  Posted <- Forms
PROPERTIES OnlyTheWindowSpoils SavedTakesEffect RefusedForCause 
