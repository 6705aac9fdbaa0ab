--------------------------- MODULE Database_proofs ---------------------------
(***************************************************************************)
(* What holds of the std::map database for any names and contents and any  *)
(* bounds on the counters.                                                 *)
(***************************************************************************)
EXTENDS Database, TLAPS

(* Maps(K, V), without the union over the domains. *)
LEMMA MapsAre ==
  ASSUME NEW K, NEW V, NEW m
  PROVE  m \in Maps(K, V) <=> DOMAIN m \subseteq K /\ m \in [DOMAIN m -> V]
<1>1. ASSUME m \in Maps(K, V)
      PROVE  DOMAIN m \subseteq K /\ m \in [DOMAIN m -> V]
  <2>1. PICK D \in SUBSET K : m \in [D -> V]
    BY <1>1 DEF Maps
  <2>2. QED
    BY <2>1
<1>2. ASSUME DOMAIN m \subseteq K, m \in [DOMAIN m -> V]
      PROVE  m \in Maps(K, V)
  BY <1>2 DEF Maps
<1>3. QED
  BY <1>1, <1>2

(* A map stays one over more keys, with more values. *)
LEMMA MapsGrow ==
  ASSUME NEW K, NEW V, NEW K2, NEW V2, K \subseteq K2, V \subseteq V2, NEW m \in Maps(K, V)
  PROVE  m \in Maps(K2, V2)
BY MapsAre

(* map::emplace of a key that is not there. *)
LEMMA EmplaceNew ==
  ASSUME NEW K, NEW V, NEW m \in Maps(K, V), NEW key \in K, NEW value \in V, key \notin DOMAIN m
  PROVE  /\ Emplace(m, key, value) \in Maps(K, V)
         /\ DOMAIN Emplace(m, key, value) = DOMAIN m \cup {key}
         /\ Emplace(m, key, value)[key] = value
         /\ \A k \in DOMAIN m : Emplace(m, key, value)[k] = m[k]
<1> DEFINE e == Emplace(m, key, value)
<1>1. DOMAIN m \subseteq K /\ m \in [DOMAIN m -> V]
  BY MapsAre
<1>2. e = [k \in DOMAIN m \cup {key} |-> IF k \in DOMAIN m THEN m[k] ELSE value]
  BY DEF Emplace
<1>3. DOMAIN e \subseteq K /\ e \in [DOMAIN e -> V]
  BY <1>1, <1>2
<1>4. e \in Maps(K, V)
  BY <1>3, MapsAre
<1>5. QED
  BY <1>2, <1>4

(* map::erase. *)
LEMMA EraseKey ==
  ASSUME NEW K, NEW V, NEW m \in Maps(K, V), NEW key
  PROVE  /\ Erase(m, key) \in Maps(K, V)
         /\ DOMAIN Erase(m, key) = DOMAIN m \ {key}
         /\ \A k \in DOMAIN m \ {key} : Erase(m, key)[k] = m[k]
<1> DEFINE e == Erase(m, key)
<1>1. DOMAIN m \subseteq K /\ m \in [DOMAIN m -> V]
  BY MapsAre
<1>2. e = [k \in DOMAIN m \ {key} |-> m[k]]
  BY DEF Erase, Restrict
<1>3. DOMAIN e \subseteq K /\ e \in [DOMAIN e -> V]
  BY <1>1, <1>2
<1>4. e \in Maps(K, V)
  BY <1>3, MapsAre
<1>5. QED
  BY <1>2, <1>4

(* An empty map is a map of any type. *)
LEMMA EmptyMapIs ==
  ASSUME NEW K, NEW V
  PROVE  EmptyMap \in Maps(K, V) /\ DOMAIN EmptyMap = {}
<1>1. DOMAIN EmptyMap = {} /\ EmptyMap \in [{} -> V]
  BY DEF EmptyMap
<1>2. QED
  BY <1>1, MapsAre

-----------------------------------------------------------------------------
(* TypeOK, spelled out. *)
LEMMA Typed ==
  ASSUME TypeOK
  PROVE  /\ ngCount \in Nat /\ artCount \in Nat
         /\ MaxGroups \in Nat /\ MaxArticles \in Nat
         /\ ngCount \in 1..MaxGroups + 1 /\ artCount \in 1..MaxArticles + 1
         /\ news_groups \in [DOMAIN news_groups -> Names]
         /\ DOMAIN news_groups \subseteq 1..ngCount - 1
         /\ articles \in [DOMAIN articles -> Maps(1..artCount - 1, Contents)]
         /\ DOMAIN articles \subseteq 1..ngCount - 1
         /\ \A g \in DOMAIN articles : DOMAIN articles[g] \subseteq 1..artCount - 1
<1>1. ngCount \in Nat /\ artCount \in Nat
  BY BoundsAssumption DEF TypeOK
<1>2. articles \in [DOMAIN articles -> Maps(1..artCount - 1, Contents)]
  BY MapsAre DEF TypeOK
<1>3. \A g \in DOMAIN articles : DOMAIN articles[g] \subseteq 1..artCount - 1
  BY <1>2, MapsAre
<1>4. QED
  BY <1>1, <1>2, <1>3, MapsAre, BoundsAssumption DEF TypeOK

(* The two changes of create_article: a map for the first article of a     *)
(* group, and the article in it.                                           *)
Entry(g) == IF g \in DOMAIN articles THEN articles[g] ELSE EmptyMap

ArticleMade(g, content) ==
  articles' = [h \in DOMAIN articles \cup {g} |->
                 IF h = g THEN Emplace(Entry(g), artCount, content) ELSE articles[h]]

(* create_article makes these two changes when the group exists. *)
LEMMA CreateMakesArticle ==
  ASSUME TypeOK, NEW g \in DOMAIN news_groups, NEW content \in Contents,
         create_article(g, content)
  PROVE  ArticleMade(g, content)
<1> DEFINE entry == Emplace(articles, g, EmptyMap)
<1>1. articles' = [entry EXCEPT ![g] = Emplace(entry[g], artCount, content)]
  BY DEF create_article
<1>2. DOMAIN entry = DOMAIN articles \cup {g}
  BY DEF Emplace
<1>3. entry[g] = Entry(g) /\ \A h \in DOMAIN articles \ {g} : entry[h] = articles[h]
  BY DEF Emplace, Entry
<1>4. entry = [h \in DOMAIN entry |-> entry[h]]
  BY DEF Emplace
<1> HIDE DEF entry
<1>5. QED
  BY <1>1, <1>2, <1>3, <1>4 DEF ArticleMade

(* What is in a group's map once an article was made: one new id. *)
LEMMA ArticleMadeIs ==
  ASSUME TypeOK, NEW g \in 1..ngCount - 1, NEW content \in Contents, ArticleMade(g, content)
  PROVE  /\ DOMAIN articles' = DOMAIN articles \cup {g}
         /\ \A h \in DOMAIN articles \ {g} : articles'[h] = articles[h]
         /\ artCount \notin DOMAIN Entry(g)
         /\ DOMAIN articles'[g] = DOMAIN Entry(g) \cup {artCount}
         /\ articles'[g][artCount] = content
         /\ \A a \in DOMAIN Entry(g) : articles'[g][a] = Entry(g)[a]
         /\ articles'[g] \in Maps(1..artCount, Contents)
<1>1. Entry(g) \in Maps(1..artCount - 1, Contents)
  BY Typed, EmptyMapIs DEF Entry
<1>2. DOMAIN Entry(g) \subseteq 1..artCount - 1
  BY <1>1, MapsAre
<1>3. artCount \in 1..artCount /\ artCount \notin 1..artCount - 1
      /\ 1..artCount - 1 \subseteq 1..artCount
  BY Typed
<1>4. Entry(g) \in Maps(1..artCount, Contents)
  BY <1>1, <1>3, MapsGrow
<1>5. articles'[g] = Emplace(Entry(g), artCount, content)
  BY DEF ArticleMade
<1>6. DOMAIN articles' = DOMAIN articles \cup {g}
      /\ \A h \in DOMAIN articles \ {g} : articles'[h] = articles[h]
  BY DEF ArticleMade
<1> DEFINE made == Emplace(Entry(g), artCount, content)
<1>7. artCount \notin DOMAIN Entry(g)
  BY <1>2, <1>3
<1>8. /\ made \in Maps(1..artCount, Contents)
      /\ DOMAIN made = DOMAIN Entry(g) \cup {artCount}
      /\ made[artCount] = content
      /\ \A a \in DOMAIN Entry(g) : made[a] = Entry(g)[a]
  <2> DEFINE ids == 1..artCount
             entry == Entry(g)
  <2>1. entry \in Maps(ids, Contents) /\ artCount \in ids /\ artCount \notin DOMAIN entry
    BY <1>3, <1>4, <1>7
  <2> HIDE DEF ids, entry
  <2>2. /\ Emplace(entry, artCount, content) \in Maps(ids, Contents)
        /\ DOMAIN Emplace(entry, artCount, content) = DOMAIN entry \cup {artCount}
        /\ Emplace(entry, artCount, content)[artCount] = content
        /\ \A a \in DOMAIN entry : Emplace(entry, artCount, content)[a] = entry[a]
    <3>1. Emplace(entry, artCount, content) \in Maps(ids, Contents)
      BY <2>1, EmplaceNew
    <3>2. DOMAIN Emplace(entry, artCount, content) = DOMAIN entry \cup {artCount}
      BY DEF Emplace
    <3>3. Emplace(entry, artCount, content)[artCount] = content
      BY <2>1 DEF Emplace
    <3>4. \A a \in DOMAIN entry : Emplace(entry, artCount, content)[a] = entry[a]
      BY <2>1 DEF Emplace
    <3>5. QED
      BY <3>1, <3>2, <3>3, <3>4
  <2>3. QED
    BY <2>2 DEF ids, entry
<1> HIDE DEF made
<1>9. QED
  BY <1>5, <1>6, <1>7, <1>8 DEF made

(* The empty database is typed. *)
LEMMA InitType == Init => TypeOK
<1> SUFFICES ASSUME Init PROVE TypeOK
  OBVIOUS
<1>1. ngCount \in 1..MaxGroups + 1 /\ artCount \in 1..MaxArticles + 1
  BY BoundsAssumption DEF Init
<1>2. QED
  BY <1>1, EmptyMapIs DEF Init, TypeOK

(* Every member function keeps the types; ids stay below the counters. *)
LEMMA TypeStep == TypeOK /\ [Next]_vars => TypeOK'
<1> SUFFICES ASSUME TypeOK, [Next]_vars PROVE TypeOK'
  OBVIOUS
<1>1. CASE UNCHANGED <<news_groups, articles, ngCount, artCount>>
  BY <1>1 DEF TypeOK
<1>2. ASSUME NEW name \in Names, create_news_group(name),
             ~UNCHANGED <<news_groups, articles, ngCount, artCount>>
      PROVE  TypeOK'
  <2>1. /\ ngCount <= MaxGroups /\ ngCount' = ngCount + 1
        /\ news_groups' = Emplace(news_groups, ngCount, name)
        /\ UNCHANGED <<articles, artCount>>
    BY <1>2 DEF create_news_group
  <2>2. /\ ngCount' \in 1..MaxGroups + 1
        /\ 1..ngCount - 1 \subseteq 1..ngCount' - 1
        /\ ngCount \in 1..ngCount' - 1 /\ ngCount \notin 1..ngCount - 1
    BY <2>1, Typed
  <2>3. news_groups \in Maps(1..ngCount' - 1, Names) /\ ngCount \notin DOMAIN news_groups
    BY <2>2, Typed, MapsGrow DEF TypeOK
  <2>4. news_groups' \in Maps(1..ngCount' - 1, Names)
    BY <2>1, <2>2, <2>3, EmplaceNew
  <2>5. articles \in Maps(1..ngCount' - 1, Maps(1..artCount - 1, Contents))
    <3>1. DOMAIN articles \subseteq 1..ngCount' - 1
      BY <2>2, Typed
    <3>2. QED
      BY <3>1, Typed, MapsAre
  <2>6. QED
    BY <2>1, <2>2, <2>4, <2>5 DEF TypeOK
<1>3. ASSUME NEW g \in GroupIds, delete_news_group(g)
      PROVE  TypeOK'
  BY <1>3, EraseKey DEF delete_news_group, TypeOK
<1>4. ASSUME NEW g \in GroupIds, NEW content \in Contents, create_article(g, content),
             ~UNCHANGED <<news_groups, articles, ngCount, artCount>>
      PROVE  TypeOK'
  <2>1. g \in DOMAIN news_groups /\ artCount <= MaxArticles /\ artCount' = artCount + 1
        /\ UNCHANGED <<news_groups, ngCount>>
    BY <1>4 DEF create_article
  <2>2. /\ artCount' \in 1..MaxArticles + 1
        /\ artCount' - 1 = artCount /\ 1..artCount - 1 \subseteq 1..artCount
        /\ g \in 1..ngCount - 1
    BY <2>1, Typed
  <2>3. ArticleMade(g, content)
    BY <1>4, <2>1, CreateMakesArticle
  <2>4. \A h \in DOMAIN articles' : articles'[h] \in Maps(1..artCount, Contents)
    <3>1. \A h \in DOMAIN articles : articles[h] \in Maps(1..artCount, Contents)
      BY <2>2, Typed, MapsGrow
    <3>2. QED
      BY <2>2, <2>3, <3>1, ArticleMadeIs
  <2>5. articles' \in [DOMAIN articles' -> Maps(1..artCount, Contents)]
    BY <2>3, <2>4 DEF ArticleMade
  <2>6. DOMAIN articles' \subseteq 1..ngCount - 1
    BY <2>2, <2>3, Typed DEF ArticleMade
  <2>7. articles' \in Maps(1..ngCount - 1, Maps(1..artCount, Contents))
    BY <2>5, <2>6, MapsAre
  <2>8. QED
    BY <2>1, <2>2, <2>7 DEF TypeOK
<1>5. ASSUME NEW g \in GroupIds, NEW a \in ArticleIds, delete_article(g, a)
      PROVE  TypeOK'
  <2>1. CASE Lookup(g, a) # "OK"
    BY <1>5, <2>1 DEF delete_article, TypeOK
  <2>2. CASE Lookup(g, a) = "OK"
    <3>1. g \in DOMAIN articles /\ articles' = [articles EXCEPT ![g] = Erase(articles[g], a)]
      BY <1>5, <2>2 DEF delete_article, Lookup
    <3>2. Erase(articles[g], a) \in Maps(1..artCount - 1, Contents)
      BY <3>1, Typed, EraseKey
    <3>3. articles' \in [DOMAIN articles' -> Maps(1..artCount - 1, Contents)]
          /\ DOMAIN articles' \subseteq 1..ngCount - 1
      BY <3>1, <3>2, Typed
    <3>4. articles' \in Maps(1..ngCount - 1, Maps(1..artCount - 1, Contents))
      BY <3>3, MapsAre
    <3>5. QED
      BY <1>5, <3>4 DEF delete_article, TypeOK
  <2>3. QED
    BY <2>1, <2>2
<1>6. QED
  BY <1>1, <1>2, <1>3, <1>4, <1>5 DEF Next, vars, list_news_groups, list_articles, get_article

(* The keys are ids that were handed out, and the values what belongs to   *)
(* them.                                                                   *)
THEOREM TypeCorrect == Spec => []TypeOK
BY InitType, TypeStep, PTL DEF Spec

-----------------------------------------------------------------------------
(* ArticleInOneGroup is inductive together with TypeOK: the next id of an  *)
(* article is in no map yet, not even in those of deleted groups.          *)
LEMMA OneGroupStep ==
  ASSUME TypeOK, ArticleInOneGroup, [Next]_vars
  PROVE  ArticleInOneGroup'
<1>1. CASE UNCHANGED articles
  BY <1>1 DEF ArticleInOneGroup
<1>2. ASSUME NEW g \in GroupIds, NEW content \in Contents, create_article(g, content),
             articles' # articles
      PROVE  ArticleInOneGroup'
  <2>1. g \in DOMAIN news_groups
    BY <1>2 DEF create_article
  <2>2. ArticleMade(g, content) /\ g \in 1..ngCount - 1
    BY <1>2, <2>1, CreateMakesArticle, Typed
  <2>3. /\ DOMAIN articles' = DOMAIN articles \cup {g}
        /\ \A h \in DOMAIN articles \ {g} : articles'[h] = articles[h]
        /\ DOMAIN articles'[g] = DOMAIN Entry(g) \cup {artCount}
    BY <2>2, ArticleMadeIs
  <2>4. \A h \in DOMAIN articles : artCount \notin DOMAIN articles[h]
    BY Typed
  <2>5. g \in DOMAIN articles => DOMAIN Entry(g) = DOMAIN articles[g]
    BY DEF Entry
  <2>6. g \notin DOMAIN articles => DOMAIN Entry(g) = {}
    BY DEF Entry, EmptyMap
  <2>7. QED
    BY <2>3, <2>4, <2>5, <2>6 DEF ArticleInOneGroup
<1>3. ASSUME NEW g \in GroupIds, NEW a \in ArticleIds, delete_article(g, a)
      PROVE  ArticleInOneGroup'
  <2>1. CASE Lookup(g, a) # "OK"
    BY <1>1, <1>3, <2>1 DEF delete_article
  <2>2. CASE Lookup(g, a) = "OK"
    <3>1. g \in DOMAIN articles /\ articles' = [articles EXCEPT ![g] = Erase(articles[g], a)]
      BY <1>3, <2>2 DEF delete_article, Lookup
    <3>2. DOMAIN Erase(articles[g], a) \subseteq DOMAIN articles[g]
      BY DEF Erase, Restrict
    <3>3. DOMAIN articles' = DOMAIN articles
          /\ \A h \in DOMAIN articles : DOMAIN articles'[h] \subseteq DOMAIN articles[h]
      BY <3>1, <3>2
    <3>4. QED
      BY <3>3 DEF ArticleInOneGroup
  <2>3. QED
    BY <2>1, <2>2
<1>4. QED
  BY <1>1, <1>2, <1>3 DEF Next, vars, list_news_groups, create_news_group, delete_news_group,
                          list_articles, get_article

(* Whatever is created and deleted in which order, the articles that a     *)
(* deleted group leaves behind never come up in another group.             *)
THEOREM NoArticleMoves == Spec => []ArticleInOneGroup
<1>1. Init => ArticleInOneGroup
  BY EmptyMapIs DEF Init, ArticleInOneGroup
<1>2. QED
  BY <1>1, InitType, TypeStep, OneGroupStep, PTL DEF Spec

-----------------------------------------------------------------------------
(* Refinement: the store is the groups and the articles of those.          *)

(* The row of a group, and that of an article that its group keeps.        *)
GroupRow(g) == [grpID |-> g, name |-> news_groups[g]]
ArticleRow(g, a) == [artID |-> a, grpID |-> g, content |-> articles[g][a]]

Kept(g, a) == g \in DOMAIN news_groups /\ g \in DOMAIN articles /\ a \in DOMAIN articles[g]

(* The tables hold exactly those rows. *)
LEMMA Rows ==
  /\ \A g \in DOMAIN news_groups : GroupRow(g) \in Groups
  /\ \A row \in Groups : row.grpID \in DOMAIN news_groups /\ row = GroupRow(row.grpID)
  /\ \A g, a : Kept(g, a) => ArticleRow(g, a) \in Articles
  /\ \A row \in Articles : Kept(row.grpID, row.artID) /\ row = ArticleRow(row.grpID, row.artID)
BY DEF Groups, Articles, GroupRow, ArticleRow, Kept

(* What is in a row. *)
LEMMA RowFields ==
  /\ \A g : GroupRow(g).grpID = g /\ GroupRow(g).name = news_groups[g]
  /\ \A g, a : /\ ArticleRow(g, a).grpID = g /\ ArticleRow(g, a).artID = a
               /\ ArticleRow(g, a).content = articles[g][a]
BY DEF GroupRow, ArticleRow

(* What the interface can ask of the store, answered by the maps. *)
LEMMA Answers ==
  ASSUME NEW g, NEW a
  PROVE  /\ Service!GroupExists(g) <=> g \in DOMAIN news_groups
         /\ \A name : Service!NameTaken(name) <=> name \in Range(news_groups)
         /\ Service!ArticleExists(g, a) <=> Kept(g, a)
         /\ \A row : row \in Service!ArticlesOf(g) <=> row \in Articles /\ row.grpID = g
<1>1. Service!GroupExists(g) <=> g \in DOMAIN news_groups
  BY Rows, RowFields DEF Service!GroupExists
<1>2. \A name : Service!NameTaken(name) <=> name \in Range(news_groups)
  <2>1. ASSUME NEW h \in DOMAIN news_groups
        PROVE  Service!NameTaken(news_groups[h])
    BY Rows, RowFields DEF Service!NameTaken
  <2>2. ASSUME NEW name, Service!NameTaken(name)
        PROVE  name \in Range(news_groups)
    <3>1. PICK row \in Groups : row.name = name
      BY <2>2 DEF Service!NameTaken
    <3>2. QED
      BY <3>1, Rows, RowFields DEF Range
  <2>3. QED
    BY <2>1, <2>2 DEF Range
<1>3. Service!ArticleExists(g, a) <=> Kept(g, a)
  BY Rows, RowFields DEF Service!ArticleExists
<1>4. QED
  BY <1>1, <1>2, <1>3 DEF Service!ArticlesOf

(* The rows after a step. *)
RowsAfter ==
  /\ \A row : row \in Groups' <=>
       \E g \in DOMAIN news_groups' : row = [grpID |-> g, name |-> news_groups'[g]]
  /\ \A row : row \in Articles' <=>
       \E g \in DOMAIN news_groups' : \E a :
         /\ g \in DOMAIN articles' /\ a \in DOMAIN articles'[g]
         /\ row = [artID |-> a, grpID |-> g, content |-> articles'[g][a]]

(* Groups and Articles, primed, without the comprehensions. *)
LEMMA NextRows == RowsAfter
BY DEF RowsAfter, Groups, Articles

(* create_news_group adds one row, of an id never used. *)
LEMMA CreateGroupAdds ==
  ASSUME TypeOK, NEW name \in Names, create_news_group(name)
  PROVE  Service!CreateNewsGroup(name)
<1>1. CASE name \in Range(news_groups)
  <2>1. /\ reply' = <<<<"create_news_group", name>>, FALSE>>
        /\ UNCHANGED <<news_groups, articles, ngCount, artCount>>
    BY <1>1 DEF create_news_group
  <2>2. UNCHANGED Service!storeVars
    BY <2>1 DEF Service!storeVars, Groups, Articles
  <2>3. QED
    BY <1>1, <2>1, <2>2, Answers DEF Service!CreateNewsGroup
<1>2. CASE name \notin Range(news_groups)
  <2>1. /\ reply' = <<<<"create_news_group", name>>, TRUE>>
        /\ ngCount <= MaxGroups /\ ngCount' = ngCount + 1
        /\ news_groups' = Emplace(news_groups, ngCount, name)
        /\ UNCHANGED <<articles, artCount>>
    BY <1>2 DEF create_news_group
  <2>2. /\ ngCount \in GroupIds \ 1..ngCount - 1
        /\ 1..ngCount' - 1 = (1..ngCount - 1) \cup {ngCount}
    BY <2>1, Typed DEF GroupIds
  <2>3. /\ DOMAIN news_groups' = DOMAIN news_groups \cup {ngCount}
        /\ ngCount \notin DOMAIN news_groups /\ ngCount \notin DOMAIN articles
        /\ news_groups'[ngCount] = name
        /\ \A g \in DOMAIN news_groups : news_groups'[g] = news_groups[g]
    <3>1. ngCount \notin DOMAIN news_groups /\ ngCount \notin DOMAIN articles
      BY <2>2, Typed
    <3>2. QED
      BY <2>1, <3>1 DEF Emplace
  <2>4. Groups' = Groups \cup {[grpID |-> ngCount, name |-> name]}
    <3>1. \A row : row \in Groups' <=>
            row \in Groups \/ row = [grpID |-> ngCount, name |-> name]
      BY <2>3, NextRows DEF RowsAfter, Groups
    <3>2. QED
      BY <3>1
  <2>5. Articles' = Articles
    <3>1. DOMAIN news_groups' \cap DOMAIN articles' = DOMAIN news_groups \cap DOMAIN articles
      BY <2>1, <2>3
    <3>2. QED
      BY <2>1, <3>1 DEF Articles
  <2>6. ~Service!NameTaken(name)
    BY <1>2, Answers
  <2>7. Service!AddGroup(name)
    BY <2>1, <2>2, <2>4, <2>5, <2>6 DEF Service!AddGroup
  <2>8. QED
    BY <2>1, <2>7 DEF Service!CreateNewsGroup
<1>3. QED
  BY <1>1, <1>2

(* delete_news_group takes the group's rows, its own and its articles',    *)
(* out of the store although it leaves the articles in the map.            *)
LEMMA DeleteGroupRemoves ==
  ASSUME TypeOK, NEW g \in GroupIds, delete_news_group(g)
  PROVE  Service!DeleteNewsGroup(g)
<1>1. /\ news_groups' = Erase(news_groups, g)
      /\ reply' = <<<<"delete_news_group", g>>, g \in DOMAIN news_groups>>
      /\ UNCHANGED <<articles, ngCount, artCount>>
  BY DEF delete_news_group
<1>2. /\ DOMAIN news_groups' = DOMAIN news_groups \ {g}
      /\ \A h \in DOMAIN news_groups \ {g} : news_groups'[h] = news_groups[h]
  BY <1>1 DEF Erase, Restrict
<1>3. CASE g \in DOMAIN news_groups
  <2>1. Groups' = {row \in Groups : row.grpID # g}
    <3>1. \A row : row \in Groups' <=> row \in Groups /\ row.grpID # g
      BY <1>2, NextRows DEF RowsAfter, Groups
    <3>2. QED
      BY <3>1
  <2>2. Articles' = Articles \ Service!ArticlesOf(g)
    <3>1. \A row : row \in Articles' <=> row \in Articles /\ row.grpID # g
      BY <1>1, <1>2, NextRows DEF RowsAfter, Articles
    <3>2. QED
      BY <3>1 DEF Service!ArticlesOf
  <2>3. Service!RemoveGroup(g)
    BY <1>1, <1>3, <2>1, <2>2, Answers DEF Service!RemoveGroup
  <2>4. QED
    BY <1>1, <1>3, <2>3 DEF Service!DeleteNewsGroup
<1>4. CASE g \notin DOMAIN news_groups
  <2>1. news_groups' = [h \in DOMAIN news_groups |-> news_groups[h]]
    BY <1>1, <1>4 DEF Erase, Restrict
  <2>2. news_groups' = news_groups
    BY <2>1, Typed
  <2>3. UNCHANGED Service!storeVars
    BY <1>1, <2>2 DEF Service!storeVars, Groups, Articles
  <2>4. (g \in DOMAIN news_groups) = FALSE
    BY <1>4
  <2>5. reply' = <<<<"delete_news_group", g>>, FALSE>>
    BY <1>1, <2>4, Zenon
  <2>6. QED
    BY <1>4, <2>3, <2>5, Answers DEF Service!DeleteNewsGroup
<1>5. QED
  BY <1>3, <1>4

(* create_article adds one row, of an id never used. *)
LEMMA CreateArticleAdds ==
  ASSUME TypeOK, NEW g \in GroupIds, NEW content \in Contents, create_article(g, content)
  PROVE  Service!CreateArticle(g, content)
<1>1. CASE g \notin DOMAIN news_groups
  <2>1. /\ reply' = <<<<"create_article", g, content>>, FALSE>>
        /\ UNCHANGED <<news_groups, articles, ngCount, artCount>>
    BY <1>1 DEF create_article
  <2>2. UNCHANGED Service!storeVars
    BY <2>1 DEF Service!storeVars, Groups, Articles
  <2>3. QED
    BY <1>1, <2>1, <2>2, Answers DEF Service!CreateArticle
<1>2. CASE g \in DOMAIN news_groups
  <2>1. /\ reply' = <<<<"create_article", g, content>>, TRUE>>
        /\ artCount <= MaxArticles /\ artCount' = artCount + 1
        /\ UNCHANGED <<news_groups, ngCount>>
    BY <1>2 DEF create_article
  <2>2. /\ artCount \in ArticleIds \ 1..artCount - 1
        /\ 1..artCount' - 1 = (1..artCount - 1) \cup {artCount}
    BY <2>1, Typed DEF ArticleIds
  <2>3. ArticleMade(g, content) /\ g \in 1..ngCount - 1
    BY <1>2, CreateMakesArticle, Typed
  <2>4. /\ DOMAIN articles' = DOMAIN articles \cup {g}
        /\ \A h \in DOMAIN articles \ {g} : articles'[h] = articles[h]
        /\ artCount \notin DOMAIN Entry(g)
        /\ DOMAIN articles'[g] = DOMAIN Entry(g) \cup {artCount}
        /\ articles'[g][artCount] = content
        /\ \A a \in DOMAIN Entry(g) : articles'[g][a] = Entry(g)[a]
    BY <2>3, ArticleMadeIs
  <2>5. /\ g \in DOMAIN articles => Entry(g) = articles[g]
        /\ g \notin DOMAIN articles => DOMAIN Entry(g) = {}
    BY DEF Entry, EmptyMap
  <2>6. Articles' = Articles \cup {[artID |-> artCount, grpID |-> g, content |-> content]}
    <3> DEFINE new == [artID |-> artCount, grpID |-> g, content |-> content]
    <3>1. new \in Articles'
      BY <1>2, <2>1, <2>4, NextRows DEF RowsAfter
    <3>2. ASSUME NEW row \in Articles
          PROVE  row \in Articles'
      BY <2>1, <2>4, <2>5, NextRows DEF RowsAfter, Articles
    <3>3. ASSUME NEW row \in Articles', row # new
          PROVE  row \in Articles
      <4>0. PICK h \in DOMAIN news_groups' : \E a :
              /\ h \in DOMAIN articles' /\ a \in DOMAIN articles'[h]
              /\ row = [artID |-> a, grpID |-> h, content |-> articles'[h][a]]
        BY NextRows DEF RowsAfter
      <4>1. PICK a :
              /\ h \in DOMAIN articles' /\ a \in DOMAIN articles'[h]
              /\ row = [artID |-> a, grpID |-> h, content |-> articles'[h][a]]
        BY <4>0
      <4>2. h \in DOMAIN articles /\ a \in DOMAIN articles[h]
            /\ articles'[h][a] = articles[h][a]
        BY <2>4, <2>5, <3>3, <4>1
      <4>3. QED
        BY <2>1, <4>1, <4>2 DEF Articles
    <3>4. QED
      BY <3>1, <3>2, <3>3
  <2>7. Groups' = Groups
    BY <2>1 DEF Groups
  <2>8. Service!AddArticle(g, content)
    BY <1>2, <2>1, <2>2, <2>6, <2>7, Answers DEF Service!AddArticle
  <2>9. QED
    BY <2>1, <2>8 DEF Service!CreateArticle
<1>3. QED
  BY <1>1, <1>2

(* delete_article removes the row, or what a deleted group left behind,    *)
(* which is in no row.                                                     *)
LEMMA DeleteArticleRemoves ==
  ASSUME TypeOK, NEW g \in GroupIds, NEW a \in ArticleIds, delete_article(g, a)
  PROVE  Service!RemoveArticle(g, a) \/ UNCHANGED Service!storeVars
<1>1. UNCHANGED <<news_groups, ngCount, artCount>>
  BY DEF delete_article
<1>2. CASE Lookup(g, a) # "OK"
  BY <1>1, <1>2 DEF delete_article, Service!storeVars, Groups, Articles
<1>3. CASE Lookup(g, a) = "OK"
  <2>1. /\ g \in DOMAIN articles /\ a \in DOMAIN articles[g]
        /\ articles' = [articles EXCEPT ![g] = Erase(articles[g], a)]
    BY <1>3 DEF delete_article, Lookup
  <2>2. /\ DOMAIN Erase(articles[g], a) = DOMAIN articles[g] \ {a}
        /\ \A b \in DOMAIN articles[g] \ {a} : Erase(articles[g], a)[b] = articles[g][b]
    BY DEF Erase, Restrict
  <2>3. /\ DOMAIN articles' = DOMAIN articles
        /\ \A h \in DOMAIN articles \ {g} : articles'[h] = articles[h]
        /\ DOMAIN articles'[g] = DOMAIN articles[g] \ {a}
        /\ \A b \in DOMAIN articles[g] \ {a} : articles'[g][b] = articles[g][b]
    BY <2>1, <2>2
  <2>4. \A row : row \in Articles' <=> row \in Articles /\ ~(row.grpID = g /\ row.artID = a)
    BY <1>1, <2>1, <2>3, NextRows DEF RowsAfter, Articles
  <2>5. Articles' = {row \in Articles : ~(row.grpID = g /\ row.artID = a)}
    BY <2>4
  <2>6. Groups' = Groups
    BY <1>1 DEF Groups
  <2>7. CASE g \in DOMAIN news_groups
    BY <1>1, <2>1, <2>5, <2>6, <2>7, Answers DEF Service!RemoveArticle, Kept
  <2>8. CASE g \notin DOMAIN news_groups
    <3>1. Articles' = Articles
      BY <2>5, <2>8, Rows DEF Kept
    <3>2. QED
      BY <1>1, <2>6, <3>1 DEF Service!storeVars
  <2>9. QED
    BY <2>7, <2>8
<1>4. QED
  BY <1>2, <1>3

(* The two listings show what is in the store. *)
LEMMA ListingsShow ==
  /\ list_news_groups => Service!ListNewsGroups
  /\ \A g : list_articles(g) => Service!ListArticles(g)
<1>1. ASSUME UNCHANGED <<news_groups, articles, ngCount, artCount>>
      PROVE  UNCHANGED Service!storeVars
  BY <1>1 DEF Service!storeVars, Groups, Articles
<1>2. {<<g, news_groups[g]>> : g \in DOMAIN news_groups} =
      {<<row.grpID, row.name>> : row \in Groups}
  <2>1. ASSUME NEW g \in DOMAIN news_groups
        PROVE  <<g, news_groups[g]>> \in {<<row.grpID, row.name>> : row \in Groups}
    BY Rows, RowFields
  <2>2. ASSUME NEW row \in Groups
        PROVE  <<row.grpID, row.name>> \in {<<g, news_groups[g]>> : g \in DOMAIN news_groups}
    BY Rows, RowFields
  <2>3. QED
    BY <2>1, <2>2
<1>3. ASSUME NEW g
      PROVE  (IF g \in DOMAIN news_groups \cap DOMAIN articles THEN Titles(articles[g]) ELSE {})
               = Service!Headers(Service!ArticlesOf(g))
  <2> DEFINE shown == IF g \in DOMAIN news_groups \cap DOMAIN articles
                        THEN Titles(articles[g]) ELSE {}
  <2>1. ASSUME NEW a, Kept(g, a)
        PROVE  <<a, articles[g][a].title>> \in Service!Headers(Service!ArticlesOf(g))
    <3>1. ArticleRow(g, a) \in Service!ArticlesOf(g)
      BY <2>1, Answers, Rows, RowFields
    <3>2. QED
      BY <3>1, RowFields DEF Service!Headers
  <2>2. ASSUME NEW row \in Service!ArticlesOf(g)
        PROVE  <<row.artID, row.content.title>> \in shown
    <3>1. row \in Articles /\ row.grpID = g
      BY <2>2, Answers
    <3>2. Kept(g, row.artID) /\ row.content = articles[g][row.artID]
      BY <3>1, Rows, RowFields
    <3>3. QED
      BY <3>2 DEF Kept, Titles
  <2>3. \A x \in shown : x \in Service!Headers(Service!ArticlesOf(g))
    BY <2>1 DEF Kept, Titles
  <2>4. \A x \in Service!Headers(Service!ArticlesOf(g)) : x \in shown
    BY <2>2 DEF Service!Headers
  <2>5. QED
    BY <2>3, <2>4
<1>4. list_news_groups => Service!ListNewsGroups
  BY <1>1, <1>2 DEF list_news_groups, Service!ListNewsGroups
<1>5. ASSUME NEW g, list_articles(g)
      PROVE  Service!ListArticles(g)
  <2>1. Service!GroupExists(g) <=> g \in DOMAIN news_groups
    BY Answers
  <2>2. Service!GroupExists(g) = (g \in DOMAIN news_groups)
    <3>1. CASE g \in DOMAIN news_groups
      <4>1. Service!GroupExists(g) = TRUE
        BY <2>1, <3>1 DEF Service!GroupExists
      <4>2. (g \in DOMAIN news_groups) = TRUE
        BY <3>1
      <4>3. QED
        BY <4>1, <4>2, Zenon
    <3>2. CASE g \notin DOMAIN news_groups
      <4>1. Service!GroupExists(g) = FALSE
        BY <2>1, <3>2 DEF Service!GroupExists
      <4>2. (g \in DOMAIN news_groups) = FALSE
        BY <3>2
      <4>3. QED
        BY <4>1, <4>2, Zenon
    <3>3. QED
      BY <3>1, <3>2
  <2>3. reply' = <<<<"list_articles", g>>,
                   <<Service!Headers(Service!ArticlesOf(g)), Service!GroupExists(g)>>>>
    BY <1>3, <1>5, <2>2, Zenon DEF list_articles
  <2>4. QED
    BY <1>1, <1>5, <2>3 DEF list_articles, Service!ListArticles
<1>6. QED
  BY <1>4, <1>5

(* The maps start as an empty store. *)
LEMMA InitMaps == Init => Service!StoreInit
<1> SUFFICES ASSUME Init PROVE Service!StoreInit
  OBVIOUS
<1>1. DOMAIN news_groups = {} /\ 1..ngCount - 1 = {} /\ 1..artCount - 1 = {}
  BY DEF Init, EmptyMap
<1>2. QED
  BY <1>1 DEF Service!StoreInit, Groups, Articles

(* Every member function is an operation of the store or leaves it alone. *)
LEMMA StepMaps ==
  TypeOK /\ [Next]_vars => [Service!StoreNext]_Service!storeVars
<1> SUFFICES ASSUME TypeOK, [Next]_vars
             PROVE  Service!StoreNext \/ UNCHANGED Service!storeVars
  OBVIOUS
<1>1. CASE UNCHANGED <<news_groups, articles, ngCount, artCount>>
  BY <1>1 DEF Service!storeVars, Groups, Articles
<1>2. ASSUME NEW name \in Names, create_news_group(name)
      PROVE  Service!StoreNext \/ UNCHANGED Service!storeVars
  <2>1. Service!AddGroup(name) \/ UNCHANGED Service!storeVars
    BY <1>2, CreateGroupAdds DEF Service!CreateNewsGroup
  <2>2. QED
    BY <2>1 DEF Service!StoreNext
<1>3. ASSUME NEW g \in GroupIds, delete_news_group(g)
      PROVE  Service!StoreNext \/ UNCHANGED Service!storeVars
  <2>1. Service!RemoveGroup(g) \/ UNCHANGED Service!storeVars
    BY <1>3, DeleteGroupRemoves DEF Service!DeleteNewsGroup
  <2>2. QED
    BY <2>1 DEF Service!StoreNext
<1>4. ASSUME NEW g \in GroupIds, NEW content \in Contents, create_article(g, content)
      PROVE  Service!StoreNext \/ UNCHANGED Service!storeVars
  <2>1. Service!AddArticle(g, content) \/ UNCHANGED Service!storeVars
    BY <1>4, CreateArticleAdds DEF Service!CreateArticle
  <2>2. QED
    BY <2>1 DEF Service!StoreNext
<1>5. ASSUME NEW g \in GroupIds, NEW a \in ArticleIds, delete_article(g, a)
      PROVE  Service!StoreNext \/ UNCHANGED Service!storeVars
  BY <1>5, DeleteArticleRemoves DEF Service!StoreNext
<1>6. QED
  BY <1>1, <1>2, <1>3, <1>4, <1>5 DEF Next, vars, list_news_groups, list_articles, get_article

(* The maps implement the store: ids are never reused, names are unique,   *)
(* a deleted group takes its articles with it.                             *)
THEOREM MapsImplementStore == Spec => ImplementsStore
BY InitMaps, InitType, TypeStep, StepMaps, PTL DEF Spec, ImplementsStore, Service!StoreSpec

(* A call that is none of the two which look an article up is the same     *)
(* call of the interface, answer included.                                 *)
LEMMA StepAnswers ==
  TypeOK /\ [Next]_vars =>
    [reply'[1][1] \notin {"delete_article", "get_article"} => Service!ServiceNext]_vars
<1> SUFFICES ASSUME TypeOK, Next, reply'[1][1] \notin {"delete_article", "get_article"}
             PROVE  Service!ServiceNext
  OBVIOUS
<1>1. CASE list_news_groups
  BY <1>1, ListingsShow DEF Service!ServiceNext
<1>2. ASSUME NEW name \in Names, create_news_group(name)
      PROVE  Service!ServiceNext
  BY <1>2, CreateGroupAdds DEF Service!ServiceNext
<1>3. ASSUME NEW g \in GroupIds, delete_news_group(g)
      PROVE  Service!ServiceNext
  BY <1>3, DeleteGroupRemoves DEF Service!ServiceNext
<1>4. ASSUME NEW g \in GroupIds, list_articles(g)
      PROVE  Service!ServiceNext
  BY <1>4, ListingsShow DEF Service!ServiceNext
<1>5. ASSUME NEW g \in GroupIds, NEW content \in Contents, create_article(g, content)
      PROVE  Service!ServiceNext
  BY <1>5, CreateArticleAdds DEF Service!ServiceNext
<1>6. ASSUME NEW g \in GroupIds, NEW a \in ArticleIds, delete_article(g, a) \/ get_article(g, a)
      PROVE  FALSE
  BY <1>6 DEF delete_article, get_article
<1>7. QED
  BY <1>1, <1>2, <1>3, <1>4, <1>5, <1>6 DEF Next

(* Five of the seven operations answer what the interface asks, whatever   *)
(* was created and deleted before.                                         *)
THEOREM CatalogueIsRight == Spec => CatalogueAnswers
BY InitType, TypeStep, StepAnswers, PTL DEF Spec, CatalogueAnswers

=============================================================================
