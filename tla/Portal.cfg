SPECIFICATION FairSpec
CONSTANTS
  Labels = {"astrotimer", "astro", "net", "home", "web", "long", "192.168.0.1"}
  Begins <- MCBegins
  Tree <- MCTree
  Chars <- MCChars
  Configs <- MCConfigs
  HostLimit = 8
  Asked <- MCAsked
  Literal = "192.168.0.1"
  Unread <- MCUnread
INVARIANTS AnswerIsMeant OneRedirect ServedIsPacked
PROPERTIES GetsPage NamesSettle
