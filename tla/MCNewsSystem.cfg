SPECIFICATION Spec
CONSTANTS
  c1 = c1
  c2 = c2
  c3 = c3
  n1 = n1
  title = title
  author = author
  text = text
  empty = empty
  Clients = {c1, c2}
  Capacity = 2
  ListenBacklog = 1
  Names = {n1}
  Contents <- MCContents
  GroupIds = {1}
  ArticleIds = {2}
  EmptyArticle <- MCEmptyArticle
  MaxSockets = 2
  ServerMayDie = TRUE
  Calls <- AnyUser
  Mortal = {c1, c2}
  Fragile = {}
INVARIANTS
  TypeOK
  ProtocolKept
  ExecutesWhatWasAsked
PROPERTIES
  AnswersAreTrue
  KeepsItsClients
SYMMETRY Alike
CHECK_DEADLOCK FALSE
