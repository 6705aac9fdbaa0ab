SPECIFICATION Spec
CONSTANTS
  n1 = n1
  n2 = n2
  t1 = t1
  t2 = t2
  author = author
  text = text
  empty = empty
  Names <- MCNames
  Contents <- MCContents
  EmptyArticle <- MCEmptyArticle
  MaxGroups = 2
  MaxArticles = 2
PROPERTY
  NoNgMeansNoGroup
