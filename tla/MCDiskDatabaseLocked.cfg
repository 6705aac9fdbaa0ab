SPECIFICATION Spec
CONSTANTS
  p1 = p1
  p2 = p2
  n1 = n1
  n2 = n2
  t1 = t1
  author = author
  text = text
  empty = empty
  EmptyArticle <- MCEmptyArticle
  Procs = {p1, p2}
  Names = {n1}
  Contents <- OneContent
  MaxRowid = 1
  StopPoints <- OnceReady
INVARIANT
  DeletedGroupIsGone
