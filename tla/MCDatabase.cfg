SPECIFICATION Spec
CONSTANTS
  n1 = n1
  n2 = n2
  t1 = t1
  t2 = t2
  author = author
  text = text
  empty = empty
  Names <- MCNames
  Contents <- MCContents
  EmptyArticle <- MCEmptyArticle
  MaxGroups = 3
  MaxArticles = 2
INVARIANTS
  TypeOK
  ArticleInOneGroup
PROPERTIES
  ImplementsStore
  CatalogueAnswers
