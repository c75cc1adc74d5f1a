SPECIFICATION FairSpec
CONSTANTS
  Broadcast = "broadcast"
  Fine = 3
  Word = 64
  Rate = 4
  Period = 8
  Late = 1
  Horizon = 18
  Count = 3
  Garbage = {}
  Width <- NoWidths
  Number <- Numbers
  Hosts <- NoHosts
  Factory <- Shipped
  Forms <- MCForms
INVARIANTS AskedIsShot OnSchedule
PROPERTIES SavedIsShown SequenceEnds
