---------------------------- MODULE NewsService -----------------------------
(***************************************************************************)
(* The seven operations of DatabaseInterface as their callers see them:    *)
(* each is one step that answers and changes the store accordingly.  The   *)
(* answer is kept in `reply` together with the call it answers, so that an *)
(* implementation of this module gives the right answer to the right call, *)
(* and does to the store what it answered.                                 *)
(***************************************************************************)
EXTENDS NewsStore

CONSTANT
  EmptyArticle  \* the default constructed Article that comes with NO_NG

VARIABLE
  reply         \* <<<<operation, arguments...>>, result>> of the last call

serviceVars == <<groups, articles, usedGroupIds, usedArticleIds, reply>>

Headers(rows) == {<<row.artID, row.content.title>> : row \in rows}

ServiceInit == StoreInit /\ reply = <<>>

ListNewsGroups ==
  /\ reply' = <<<<"list_news_groups">>, {<<row.grpID, row.name>> : row \in groups}>>
  /\ UNCHANGED storeVars

(* A refusal means that the name is taken, or that no identifier is left.  *)
CreateNewsGroup(name) ==
  \/ /\ AddGroup(name)
     /\ reply' = <<<<"create_news_group", name>>, TRUE>>
  \/ /\ NameTaken(name) \/ usedGroupIds = GroupIds
     /\ reply' = <<<<"create_news_group", name>>, FALSE>>
     /\ UNCHANGED storeVars

DeleteNewsGroup(g) ==
  \/ /\ RemoveGroup(g)
     /\ reply' = <<<<"delete_news_group", g>>, TRUE>>
  \/ /\ ~GroupExists(g)
     /\ reply' = <<<<"delete_news_group", g>>, FALSE>>
     /\ UNCHANGED storeVars

ListArticles(g) ==
  /\ reply' = <<<<"list_articles", g>>, <<Headers(ArticlesOf(g)), GroupExists(g)>>>>
  /\ UNCHANGED storeVars

CreateArticle(g, content) ==
  \/ /\ AddArticle(g, content)
     /\ reply' = <<<<"create_article", g, content>>, TRUE>>
  \/ /\ ~GroupExists(g) \/ usedArticleIds = ArticleIds
     /\ reply' = <<<<"create_article", g, content>>, FALSE>>
     /\ UNCHANGED storeVars

(* What delete_article and get_article say of an article that they cannot  *)
(* find: the group is looked at first.                                     *)
Missing(g) == IF GroupExists(g) THEN "NO_ARTICLE" ELSE "NO_NG"

DeleteArticle(g, a) ==
  \/ /\ RemoveArticle(g, a)
     /\ reply' = <<<<"delete_article", g, a>>, "OK">>
  \/ /\ ~ArticleExists(g, a)
     /\ reply' = <<<<"delete_article", g, a>>, Missing(g)>>
     /\ UNCHANGED storeVars

GetArticle(g, a) ==
  /\ \/ \E row \in ArticlesOf(g) :
          /\ row.artID = a
          /\ reply' = <<<<"get_article", g, a>>, <<"OK", row.content>>>>
     \/ /\ ~ArticleExists(g, a)
        /\ reply' = <<<<"get_article", g, a>>, <<Missing(g), EmptyArticle>>>>
  /\ UNCHANGED storeVars

ServiceNext ==
  \/ ListNewsGroups
  \/ \E name \in Names : CreateNewsGroup(name)
  \/ \E g \in GroupIds :
       \/ DeleteNewsGroup(g)
       \/ ListArticles(g)
       \/ \E content \in Contents : CreateArticle(g, content)
       \/ \E a \in ArticleIds : DeleteArticle(g, a) \/ GetArticle(g, a)

ServiceSpec == ServiceInit /\ [][ServiceNext]_serviceVars

=============================================================================
