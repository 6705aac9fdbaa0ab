----------------------------- MODULE NewsStore ------------------------------
(***************************************************************************)
(* What a news database holds, whatever class keeps it: the news groups    *)
(* and the articles, and the identifiers that were ever handed out.  It is *)
(* the state behind DatabaseInterface (databaseinterface.h); Database      *)
(* (std::map) and DiskDatabase (SQLite) are both shown to implement it.    *)
(*                                                                         *)
(* The identifier of a new row is any identifier never used before: the    *)
(* interface does not say which, and clients only rely on its being new.   *)
(***************************************************************************)
CONSTANTS
  Names,        \* names a news group can be given
  Contents,     \* what an article says: [title, author, text] records
  GroupIds,     \* identifiers of news groups
  ArticleIds    \* identifiers of articles

VARIABLES
  groups,           \* the rows [grpID, name] of the existing news groups
  articles,         \* the rows [artID, grpID, content] of the existing articles
  usedGroupIds,     \* the identifiers ever given to a news group
  usedArticleIds    \* the identifiers ever given to an article

storeVars == <<groups, articles, usedGroupIds, usedArticleIds>>

GroupRows == [grpID : GroupIds, name : Names]
ArticleRows == [artID : ArticleIds, grpID : GroupIds, content : Contents]

GroupExists(g) == \E row \in groups : row.grpID = g
NameTaken(name) == \E row \in groups : row.name = name
ArticleExists(g, a) == \E row \in articles : row.grpID = g /\ row.artID = a

ArticlesOf(g) == {row \in articles : row.grpID = g}

StoreInit ==
  /\ groups = {}
  /\ articles = {}
  /\ usedGroupIds = {}
  /\ usedArticleIds = {}

(* A name is free and an identifier never used before goes with it. *)
AddGroup(name) ==
  /\ ~NameTaken(name)
  /\ \E id \in GroupIds \ usedGroupIds :
       /\ groups' = groups \cup {[grpID |-> id, name |-> name]}
       /\ usedGroupIds' = usedGroupIds \cup {id}
  /\ UNCHANGED <<articles, usedArticleIds>>

(* A group goes with all its articles. *)
RemoveGroup(g) ==
  /\ GroupExists(g)
  /\ groups' = {row \in groups : row.grpID # g}
  /\ articles' = articles \ ArticlesOf(g)
  /\ UNCHANGED <<usedGroupIds, usedArticleIds>>

AddArticle(g, content) ==
  /\ GroupExists(g)
  /\ \E id \in ArticleIds \ usedArticleIds :
       /\ articles' = articles \cup {[artID |-> id, grpID |-> g, content |-> content]}
       /\ usedArticleIds' = usedArticleIds \cup {id}
  /\ UNCHANGED <<groups, usedGroupIds>>

RemoveArticle(g, a) ==
  /\ ArticleExists(g, a)
  /\ articles' = {row \in articles : ~(row.grpID = g /\ row.artID = a)}
  /\ UNCHANGED <<groups, usedGroupIds, usedArticleIds>>

StoreNext ==
  \/ \E name \in Names : AddGroup(name)
  \/ \E g \in GroupIds : RemoveGroup(g)
  \/ \E g \in GroupIds, content \in Contents : AddArticle(g, content)
  \/ \E g \in GroupIds, a \in ArticleIds : RemoveArticle(g, a)

StoreSpec == StoreInit /\ [][StoreNext]_storeVars

=============================================================================
