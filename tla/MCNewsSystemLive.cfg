SPECIFICATION FairSpec
CONSTANTS
  c1 = c1
  c2 = c2
  c3 = c3
  n1 = n1
  title = title
  author = author
  text = text
  empty = empty
  Clients = {c1, c2, c3}
  Capacity = 1
  ListenBacklog = 1
  Names = {n1}
  Contents <- MCContents
  GroupIds = {1}
  ArticleIds = {2}
  EmptyArticle <- MCEmptyArticle
  MaxSockets = 2
  ServerMayDie = FALSE
  Calls <- ThreeUsers
  Mortal = {c1}
  Fragile = {c1}
INVARIANTS
  SocketsAccounted
  NoMutualWait
PROPERTIES
  ExitsOnlyWhenFull
  ImplementsBoard
  EveryCommandEnds
  GoneClientsAreDropped
CHECK_DEADLOCK FALSE
