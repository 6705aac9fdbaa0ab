SPECIFICATION Spec
CONSTANTS
  p1 = p1
  p2 = p2
  n1 = n1
  n2 = n2
  t1 = t1
  author = author
  text = text
  empty = empty
  EmptyArticle <- MCEmptyArticle
  Procs = {p1}
  Names = {n1, n2}
  Contents <- OneContent
  MaxRowid = 2
  StopPoints <- Anywhere
INVARIANT
  RefusedNameExists
