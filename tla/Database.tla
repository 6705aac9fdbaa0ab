------------------------------ MODULE Database ------------------------------
(***************************************************************************)
(* The in-memory implementation of DatabaseInterface (database.cc): two    *)
(* maps and two counters.  A std::map is a function on the keys it holds;  *)
(* `articles` maps a group to the map of its articles, and a group has an  *)
(* entry there only once an article was created in it.                     *)
(*                                                                         *)
(* The class is single-threaded and does no I/O, so that each member       *)
(* function is one step; its result is left in `reply`.                    *)
(***************************************************************************)
EXTENDS Naturals, Functions

CONSTANTS
  Names, Contents,  \* as in NewsStore
  EmptyArticle,     \* Article(), what get_article returns besides an error
  MaxGroups,        \* how many groups and how many articles are created at
  MaxArticles       \* most: the counters themselves are not bounded

ASSUME BoundsAssumption == MaxGroups \in Nat /\ MaxArticles \in Nat

VARIABLES
  news_groups,      \* std::map<int, NewsGroup>: id -> name
  articles,         \* std::map<int, std::map<int, Article>>: id -> id -> content
  ngCount,          \* the id of the next group
  artCount,         \* the id of the next article
  reply             \* <<<<operation, arguments...>>, result>> of the last call

vars == <<news_groups, articles, ngCount, artCount, reply>>

GroupIds == 1..MaxGroups
ArticleIds == 1..MaxArticles

(* map::emplace inserts nothing when the key is there already.             *)
Emplace(m, key, value) ==
  [k \in DOMAIN m \cup {key} |-> IF k \in DOMAIN m THEN m[k] ELSE value]

Erase(m, key) == Restrict(m, DOMAIN m \ {key})

EmptyMap == [k \in {} |-> k]

Init ==
  /\ news_groups = EmptyMap
  /\ articles = EmptyMap
  /\ ngCount = 1
  /\ artCount = 1
  /\ reply = <<>>

Titles(m) == {<<a, m[a].title>> : a \in DOMAIN m}

-----------------------------------------------------------------------------
(* Faulty variants of the operations below, which the properties must     *)
(* tell from them.                                                         *)

(* create_article without ++artCount: the next emplace finds the key taken. *)
create_article_same_id(g, content) ==
  \/ /\ g \notin DOMAIN news_groups
     /\ reply' = <<<<"create_article", g, content>>, FALSE>>
     /\ UNCHANGED <<news_groups, articles, ngCount, artCount>>
  \/ /\ g \in DOMAIN news_groups
     /\ LET entry == Emplace(articles, g, EmptyMap)
        IN  articles' = [entry EXCEPT ![g] = Emplace(@, artCount, content)]
     /\ reply' = <<<<"create_article", g, content>>, TRUE>>
     /\ UNCHANGED <<news_groups, ngCount, artCount>>

(* list_articles that looks the group up in `articles`, as get_article does. *)
list_articles_by_articles(g) ==
  /\ reply' = <<<<"list_articles", g>>,
                <<IF g \in DOMAIN articles THEN Titles(articles[g]) ELSE {},
                  g \in DOMAIN articles>>>>
  /\ UNCHANGED <<news_groups, articles, ngCount, artCount>>

(* delete_news_group that takes the id back. *)
delete_news_group_reusing(g) ==
  /\ news_groups' = Erase(news_groups, g)
  /\ reply' = <<<<"delete_news_group", g>>, g \in DOMAIN news_groups>>
  /\ ngCount' = IF g \in DOMAIN news_groups /\ g = ngCount - 1 THEN g ELSE ngCount
  /\ UNCHANGED <<articles, artCount>>

-----------------------------------------------------------------------------
list_news_groups ==
  /\ reply' = <<<<"list_news_groups">>, {<<g, news_groups[g]>> : g \in DOMAIN news_groups}>>
  /\ UNCHANGED <<news_groups, articles, ngCount, artCount>>

create_news_group(name) ==
  \/ /\ name \in Range(news_groups)
     /\ reply' = <<<<"create_news_group", name>>, FALSE>>
     /\ UNCHANGED <<news_groups, articles, ngCount, artCount>>
  \/ /\ name \notin Range(news_groups)
     /\ ngCount <= MaxGroups
     /\ news_groups' = Emplace(news_groups, ngCount, name)
     /\ ngCount' = ngCount + 1
     /\ reply' = <<<<"create_news_group", name>>, TRUE>>
     /\ UNCHANGED <<articles, artCount>>

(* The group's entry in `articles` is left where it is.                    *)
delete_news_group(g) ==
  /\ news_groups' = Erase(news_groups, g)
  /\ reply' = <<<<"delete_news_group", g>>, g \in DOMAIN news_groups>>
  /\ UNCHANGED <<articles, ngCount, artCount>>

list_articles(g) ==
  /\ reply' = <<<<"list_articles", g>>,
                <<IF g \in DOMAIN news_groups \cap DOMAIN articles
                    THEN Titles(articles[g]) ELSE {},
                  g \in DOMAIN news_groups>>>>
  /\ UNCHANGED <<news_groups, articles, ngCount, artCount>>

create_article(g, content) ==
  \/ /\ g \notin DOMAIN news_groups
     /\ reply' = <<<<"create_article", g, content>>, FALSE>>
     /\ UNCHANGED <<news_groups, articles, ngCount, artCount>>
  \/ /\ g \in DOMAIN news_groups
     /\ artCount <= MaxArticles
     /\ LET entry == Emplace(articles, g, EmptyMap)
        IN  articles' = [entry EXCEPT ![g] = Emplace(@, artCount, content)]
     /\ artCount' = artCount + 1
     /\ reply' = <<<<"create_article", g, content>>, TRUE>>
     /\ UNCHANGED <<news_groups, ngCount>>

(* delete_article and get_article look the group up in `articles`, never   *)
(* in `news_groups`.                                                       *)
Lookup(g, a) ==
  IF g \notin DOMAIN articles THEN "NO_NG"
  ELSE IF a \notin DOMAIN articles[g] THEN "NO_ARTICLE" ELSE "OK"

delete_article(g, a) ==
  /\ articles' = IF Lookup(g, a) = "OK"
                   THEN [articles EXCEPT ![g] = Erase(@, a)] ELSE articles
  /\ reply' = <<<<"delete_article", g, a>>, Lookup(g, a)>>
  /\ UNCHANGED <<news_groups, ngCount, artCount>>

get_article(g, a) ==
  /\ reply' = <<<<"get_article", g, a>>,
                <<Lookup(g, a),
                  IF Lookup(g, a) = "OK" THEN articles[g][a] ELSE EmptyArticle>>>>
  /\ UNCHANGED <<news_groups, articles, ngCount, artCount>>

Next ==
  \/ list_news_groups
  \/ \E name \in Names : create_news_group(name)
  \/ \E g \in GroupIds :
       \/ delete_news_group(g)
       \/ list_articles(g)
       \/ \E content \in Contents : create_article(g, content)
       \/ \E a \in ArticleIds : delete_article(g, a) \/ get_article(g, a)

Spec == Init /\ [][Next]_vars

-----------------------------------------------------------------------------
(* A map from some of the keys K to values V. *)
Maps(K, V) == UNION {[D -> V] : D \in SUBSET K}

(* The members keep the types database.h declares for them, the keys being *)
(* identifiers already handed out (NewsGroup and Article are built from    *)
(* the counters in create_news_group and create_article).                  *)
TypeOK ==
  /\ ngCount \in 1..MaxGroups + 1
  /\ artCount \in 1..MaxArticles + 1
  /\ news_groups \in Maps(1..ngCount - 1, Names)
  /\ articles \in Maps(1..ngCount - 1, Maps(1..artCount - 1, Contents))

(* An article id belongs to one group for good.  delete_news_group leaves  *)
(* the articles of the group behind: none of them may ever be reachable    *)
(* under the id of another, later group.                                   *)
ArticleInOneGroup ==
  \A g, h \in DOMAIN articles :
    g # h => DOMAIN articles[g] \cap DOMAIN articles[h] = {}

(* The store this class keeps: the articles of the groups that exist.      *)
Groups == {[grpID |-> g, name |-> news_groups[g]] : g \in DOMAIN news_groups}

Articles ==
  UNION {{[artID |-> a, grpID |-> g, content |-> articles[g][a]] : a \in DOMAIN articles[g]} :
         g \in DOMAIN news_groups \cap DOMAIN articles}

Service == INSTANCE NewsService WITH
  groups <- Groups,
  articles <- Articles,
  usedGroupIds <- 1..ngCount - 1,
  usedArticleIds <- 1..artCount - 1

(* Seen from the groups that exist, every call does what the interface     *)
(* asks: ids are never reused, names stay unique, a group takes its        *)
(* articles with it.                                                       *)
ImplementsStore == Service!StoreSpec

(* list_news_groups, create_news_group, delete_news_group, list_articles   *)
(* and create_article also answer what the interface asks, whatever was    *)
(* created and deleted before: articles left behind by a deleted group are *)
(* never listed.                                                           *)
CatalogueAnswers ==
  [][reply'[1][1] \notin {"delete_article", "get_article"} => Service!ServiceNext]_vars

(* databaseinterface.h:53 of delete_article and :63 of get_article: the    *)
(* answer is NO_NG "if no group with grpID exists", neither for a group    *)
(* that exists and has no article yet, nor anything else for one that was  *)
(* deleted with articles in it.                                            *)
NoNgMeansNoGroup ==
  [][/\ reply'[1][1] = "delete_article" =>
          (reply'[2] = "NO_NG" <=> reply'[1][2] \notin DOMAIN news_groups)
     /\ reply'[1][1] = "get_article" =>
          (reply'[2][1] = "NO_NG" <=> reply'[1][2] \notin DOMAIN news_groups)]_vars

=============================================================================
