------------------------- MODULE DiskDatabase_proofs -------------------------
(***************************************************************************)
(* What holds of news.db for any number of server processes, any names and *)
(* contents, any largest rowid, and kills at any of the StopPoints.        *)
(***************************************************************************)
EXTENDS DiskDatabase, TLAPS

(* The arguments of a call have the types its operation declares. *)
LEMMA Arguments ==
  ASSUME NEW c \in Calls
  PROVE  /\ c[1] = "create_news_group" => c[2] \in Names
         /\ c[1] \in {"delete_news_group", "list_articles", "create_article",
                      "delete_article", "get_article"} => c[2] \in Ids
         /\ c[1] = "create_article" => c[3] \in Contents
         /\ c[1] \in {"delete_article", "get_article"} => c[3] \in Ids
         /\ FirstStage(c[1]) \in Calling
         /\ c # <<>>
BY DEF Calls, FirstStage, Calling

(* The two halves of TypeOK: the file, and what the processes are at. *)
FileType ==
  /\ file \in BOOLEAN
  /\ tables \in SUBSET Tables
  /\ newsgroups \in SUBSET NewsgroupRows
  /\ articles \in SUBSET ArticleRows
  /\ sequence \in [Tables -> 0..MaxRowid]

ProcType ==
  /\ pc \in [Procs -> Stages]
  /\ conn \in [Procs -> Connections]
  /\ call \in [Procs -> Calls \cup {<<>>}]
  /\ DOMAIN reply = Procs
  /\ \A p \in Procs : pc[p] \in Calling <=> call[p] # <<>>

(* TypeOK is its two halves.                                              *)
LEMMA TypeHalves == TypeOK <=> FileType /\ ProcType
BY DEF TypeOK, FileType, ProcType

(* The variables have their types before any process starts.              *)
LEMMA InitType == Init => TypeOK
<1> SUFFICES ASSUME Init PROVE TypeOK
  OBVIOUS
<1>1. sequence \in [Tables -> 0..MaxRowid]
  BY MaxRowidAssumption DEF Init
<1>2. pc \in [Procs -> Stages] /\ \A p \in Procs : pc[p] \notin Calling
  BY DEF Init, Stages, Starting, Calling
<1>3. conn \in [Procs -> Connections]
  BY DEF Init, NoConnection, Connections
<1>4. QED
  BY <1>1, <1>2, <1>3 DEF Init, TypeOK

-----------------------------------------------------------------------------
(* The steps that processes take without the file.                         *)

(* Whatever a statement learns of the schema, a connection keeps its type. *)
LEMMA ConnType ==
  ASSUME ProcType, NEW p \in Procs, NEW t \in Tables,
         Worked(p) \/ Failed(p, t)
  PROVE  conn' \in [Procs -> Connections]
<1>1. Schema \in {"unread", "old", "current"}
  BY DEF Schema
<1>2. conn[p].schema \in {"unread", "old", "current"}
  BY DEF ProcType, Connections
<1>3. \A s \in {"unread", "old", "current"} :
        [conn EXCEPT ![p].schema = s] \in [Procs -> Connections]
  BY DEF ProcType, Connections
<1>4. QED
  BY <1>1, <1>2, <1>3 DEF Worked, Failed

(* Going on to another stage of the same call keeps the types.            *)
LEMMA GotoType ==
  ASSUME ProcType, NEW p \in Procs, NEW stage \in Stages, Goto(p, stage),
         conn' \in [Procs -> Connections],
         stage \in Calling <=> pc[p] \in Calling
  PROVE  ProcType'
BY DEF ProcType, Goto

(* A call that returns leaves its process without a call.                 *)
LEMMA ReturnType ==
  ASSUME ProcType, NEW p \in Procs, NEW result, Return(p, result),
         conn' \in [Procs -> Connections]
  PROVE  ProcType'
BY DEF ProcType, Return, Stages, Calling

(* A process that ends leaves no call behind.                             *)
LEMMA DieType ==
  ASSUME ProcType, NEW p \in Procs, Die(p)
  PROVE  ProcType'
<1>1. NoConnection \in Connections
  BY DEF NoConnection, Connections
<1>2. QED
  BY <1>1 DEF ProcType, Die, Stages, Calling

-----------------------------------------------------------------------------
(* One lemma per action: what the processes are at keeps its type. *)

(* However a statement ends, the connections keep their type.             *)
LEMMA StatementType ==
  ASSUME ProcType, NEW p \in Procs, NEW t \in Tables,
         ReadWorks(p, t) \/ ReadFails(p, t) \/ LoopFails(p, t)
         \/ WriteWorks(p, t) \/ WriteFails(p, t)
  PROVE  conn' \in [Procs -> Connections]
BY ConnType DEF ReadWorks, ReadFails, LoopFails, WriteWorks, WriteFails

(* The names used below are stages and tables.                            *)
LEMMA StageNames ==
  /\ Calling \subseteq Stages
  /\ {"ready", "down", "connect", "initializeDB", "constructor",
      "create newsgroups", "create articles"} \subseteq Stages \ Calling
  /\ {"statement", "article_exists", "news_group_exists", "statement, no group"}
       \subseteq Calling
  /\ {"newsgroups", "articles"} = Tables
BY DEF Stages, Calling, Starting, Tables

(* The stages of the constructor: file_exist, connect, initializeDB.      *)
LEMMA StartingType ==
  ASSUME ProcType, NEW p \in Procs,
         Start(p) \/ file_exist(p) \/ Open(p) \/ initializeDB(p) \/ Stop(p)
  PROVE  ProcType'
<1>1. CASE Start(p)
  <2>1. conn' \in [Procs -> Connections]
    BY <1>1 DEF Start, ProcType
  <2>2. QED
    BY <1>1, <2>1, GotoType, StageNames DEF Start
<1>2. CASE file_exist(p)
  <2>1. conn' \in [Procs -> Connections]
    BY <1>2 DEF file_exist, ProcType
  <2>2. QED
    BY <1>2, <2>1, GotoType, StageNames DEF file_exist
<1>3. CASE Open(p)
  <2>1. CASE Die(p)
    BY <2>1, DieType
  <2>2. ASSUME connect(p), NEW s \in Stages \ Calling, pc' = [pc EXCEPT ![p] = s],
               pc[p] \in {"connect", "initializeDB"}
        PROVE  ProcType'
    <3>1. [NoConnection EXCEPT !.fk = TRUE] \in Connections
      BY DEF NoConnection, Connections
    <3>2. conn' \in [Procs -> Connections]
      BY <2>2, <3>1 DEF connect, ProcType
    <3>3. QED
      BY <2>2, <3>2, StageNames DEF connect, ProcType
  <2>3. QED
    BY <1>3, <2>1, <2>2, StageNames DEF Open
<1>4. CASE initializeDB(p)
  <2>1. ASSUME NEW t, NEW next \in Stages \ Calling, CreateTable(p, t, next),
               pc[p] \notin Calling
        PROVE  ProcType'
    <3>1. CASE Die(p)
      BY <3>1, DieType
    <3>2. CASE ~Die(p)
      <4>1. Schema' \in {"unread", "old", "current"}
        BY DEF Schema
      <4>2. conn' \in [Procs -> Connections]
        BY <2>1, <3>2, <4>1 DEF CreateTable, ProcType, Connections
      <4>3. QED
        BY <2>1, <3>2, <4>2, GotoType, StageNames DEF CreateTable
    <3>3. QED
      BY <3>1, <3>2
  <2>2. QED
    BY <1>4, <2>1, StageNames DEF initializeDB
<1>5. CASE Stop(p)
  BY <1>5, DieType DEF Stop
<1>6. QED
  BY <1>1, <1>2, <1>3, <1>4, <1>5

(* A call that begins is at the first stage of its operation.             *)
LEMMA CallType ==
  ASSUME ProcType, NEW p \in Procs, NEW c \in Calls, Call(p, c)
  PROVE  ProcType'
BY Arguments, StageNames DEF Call, ProcType

(* news_group_exists and article_exists.                                  *)
LEMMA ExistsType ==
  ASSUME ProcType, NEW p \in Procs, news_group_exists(p) \/ article_exists(p)
  PROVE  ProcType'
<1>1. conn' \in [Procs -> Connections]
  BY StatementType, StageNames DEF news_group_exists, article_exists
<1>2. \/ \E result : Return(p, result)
      \/ /\ pc[p] \in {"news_group_exists", "article_exists"}
         /\ \E stage \in {"statement, no group", "article_exists", "statement"} :
              Goto(p, stage)
  BY DEF news_group_exists, article_exists, NoGroup, NoArticle
<1>3. QED
  BY <1>1, <1>2, GotoType, ReturnType, StageNames

(* The operations that only read: the two lists and get_article.          *)
LEMMA ReadType ==
  ASSUME ProcType, NEW p \in Procs,
         list_news_groups(p) \/ list_articles(p) \/ get_article(p)
  PROVE  ProcType'
<1>1. CASE list_news_groups(p)
  <2>1. conn' \in [Procs -> Connections]
    BY <1>1, StatementType, StageNames DEF list_news_groups
  <2>2. \E result : Return(p, result)
    BY <1>1 DEF list_news_groups
  <2>3. QED
    BY <2>1, <2>2, ReturnType
<1>2. CASE list_articles(p)
  <2>1. conn' \in [Procs -> Connections]
    BY <1>2, StatementType, StageNames DEF list_articles
  <2>2. \E result : Return(p, result)
    BY <1>2 DEF list_articles
  <2>3. QED
    BY <2>1, <2>2, ReturnType
<1>3. CASE get_article(p)
  <2>1. CASE Die(p)
    BY <2>1, DieType
  <2>2. CASE ~Die(p)
    <3>1. \E result : Return(p, result)
      BY <1>3, <2>2 DEF get_article
    <3>2. Schema \in {"unread", "old", "current"}
      BY DEF Schema
    <3>3. conn' \in [Procs -> Connections]
      <4>1. CASE Failed(p, "articles")
        BY <4>1, ConnType, StageNames
      <4>2. CASE conn' = [conn EXCEPT ![p].shared = TRUE, ![p].schema = Schema]
        BY <4>2, <3>2, ZenonT(40) DEF ProcType, Connections
      <4>3. QED
        BY <1>3, <2>2, <4>1, <4>2 DEF get_article
    <3>4. QED
      BY <3>1, <3>3, ReturnType
  <2>3. QED
    BY <2>1, <2>2
<1>4. QED
  BY <1>1, <1>2, <1>3

(* The operations that write rows.                                        *)
LEMMA WriteType ==
  ASSUME ProcType, NEW p \in Procs,
         create_news_group(p) \/ delete_news_group(p)
         \/ create_article(p) \/ delete_article(p)
  PROVE  ProcType'
<1>1. \E result : Return(p, result)
  BY DEF create_news_group, delete_news_group, create_article, delete_article
<1>2. \E t \in Tables : WriteWorks(p, t) \/ WriteFails(p, t) \/ Worked(p)
  BY StageNames
     DEF create_news_group, delete_news_group, create_article, delete_article
<1>3. conn' \in [Procs -> Connections]
  BY <1>2, StatementType, ConnType, StageNames
<1>4. QED
  BY <1>1, <1>3, ReturnType

(* No step of any process takes a process out of its types.               *)
LEMMA ProcTypeStep ==
  ASSUME ProcType, NEW p \in Procs, Step(p)
  PROVE  ProcType'
BY StartingType, CallType, ExistsType, ReadType, WriteType DEF Step

-----------------------------------------------------------------------------
(* What a step may do to the rows: nothing, or one of four changes, each   *)
(* made by one statement.                                                  *)

NewGroup(name) ==
  /\ ~HasName(name)
  /\ sequence["newsgroups"] < MaxRowid
  /\ InsertNewsgroup(name)
  /\ UNCHANGED articles

NewArticle(g, content) ==
  /\ HasGroup(g)
  /\ sequence["articles"] < MaxRowid
  /\ InsertArticle(g, content)
  /\ UNCHANGED newsgroups

GroupGone(g) ==
  /\ newsgroups' = {row \in newsgroups : row.grpID # g}
  /\ articles' = {row \in articles : row.grpID # g}
  /\ UNCHANGED sequence

ArticleGone(g, a) ==
  /\ articles' = {row \in articles : ~(row.grpID = g /\ row.artID = a)}
  /\ UNCHANGED <<newsgroups, sequence>>

RowsChange ==
  \/ UNCHANGED dbVars
  \/ \E name \in Names : NewGroup(name)
  \/ \E g \in Ids, content \in Contents : NewArticle(g, content)
  \/ \E g \in Ids : GroupGone(g)
  \/ \E g, a \in Ids : ArticleGone(g, a)

(* The part of the invariant that connect is there for: a process that can *)
(* run statements has foreign keys enforced on its connection.             *)
Enforced ==
  \A p \in Procs :
    pc[p] \in {"ready", "create newsgroups", "create articles"} \cup Calling => conn[p].fk

(* What a step of a process can do to the rows: one of five things.       *)
LEMMA Rows ==
  ASSUME TypeOK, Enforced, NEW p \in Procs, Step(p)
  PROVE  RowsChange
<1>1. CASE Start(p) \/ file_exist(p) \/ Open(p) \/ initializeDB(p) \/ Stop(p)
  BY <1>1 DEF Start, file_exist, Open, connect, initializeDB, CreateTable, Stop, Die,
              fileVars, dbVars, RowsChange
<1>2. CASE (\E c \in Calls : Call(p, c)) \/ news_group_exists(p) \/ article_exists(p)
           \/ list_news_groups(p) \/ list_articles(p) \/ get_article(p)
  BY <1>2 DEF Call, news_group_exists, article_exists, list_news_groups, list_articles,
              get_article, Die, fileVars, dbVars, RowsChange
<1>3. ASSUME pc[p] = "statement"
      PROVE  call[p] \in Calls /\ conn[p].fk
  BY <1>3, StageNames DEF TypeOK, Enforced
<1>4. CASE create_news_group(p)
  <2>1. call[p][2] \in Names
    BY <1>3, <1>4, Arguments DEF create_news_group, At, Op
  <2>2. QED
    BY <1>4, <2>1 DEF create_news_group, CanInsertNewsgroup, NewGroup, RowsChange, dbVars
<1>5. CASE create_article(p)
  <2>1. Group(p) \in Ids /\ Third(p) \in Contents
    BY <1>3, <1>5, Arguments DEF create_article, At, Op, Group, Third
  <2>2. conn[p].fk
    BY <1>3, <1>5 DEF create_article, At
  <2>3. QED
    BY <1>5, <2>1, <2>2 DEF create_article, CanInsertArticle, NewArticle, RowsChange, dbVars
<1>6. CASE delete_news_group(p)
  <2>1. Group(p) \in Ids /\ conn[p].fk
    BY <1>3, <1>6, Arguments DEF delete_news_group, At, Op, Group
  <2>2. QED
    BY <1>6, <2>1 DEF delete_news_group, GroupGone, RowsChange, dbVars
<1>7. CASE delete_article(p)
  <2>1. Group(p) \in Ids /\ Third(p) \in Ids
    BY <1>3, <1>7, Arguments DEF delete_article, At, Op, Group, Third
  <2>2. QED
    BY <1>7, <2>1 DEF delete_article, ArticleGone, RowsChange, dbVars
<1>8. QED
  BY <1>1, <1>2, <1>4, <1>5, <1>6, <1>7 DEF Step

(* The rows keep their types: no id beyond the largest rowid.             *)
LEMMA FileTypeStep ==
  ASSUME TypeOK, Enforced, NEW p \in Procs, Step(p)
  PROVE  FileType'
<1>1. file' \in BOOLEAN /\ tables' \in SUBSET Tables
  <2>1. CASE Start(p) \/ file_exist(p) \/ Open(p) \/ initializeDB(p) \/ Stop(p)
    BY <2>1, StageNames DEF TypeOK, Start, file_exist, Open, connect, initializeDB,
                CreateTable, Stop, Die, fileVars
  <2>2. CASE ~(Start(p) \/ file_exist(p) \/ Open(p) \/ initializeDB(p) \/ Stop(p))
    BY <2>2 DEF TypeOK, Step, Call, news_group_exists, article_exists, list_news_groups,
                list_articles, get_article, create_news_group, create_article,
                delete_news_group, delete_article, Die, fileVars
  <2>3. QED
    BY <2>1, <2>2
<1>2. newsgroups' \in SUBSET NewsgroupRows /\ articles' \in SUBSET ArticleRows
      /\ sequence' \in [Tables -> 0..MaxRowid]
  <2>1. RowsChange
    BY Rows
  <2>2. CASE UNCHANGED dbVars
    BY <2>2 DEF dbVars, TypeOK
  <2>3. ASSUME NEW name \in Names, NewGroup(name)
        PROVE  <1>2
    <3>1. sequence["newsgroups"] + 1 \in Ids
      BY <2>3, MaxRowidAssumption DEF NewGroup, TypeOK, Tables, Ids
    <3>2. sequence' \in [Tables -> 0..MaxRowid]
      BY <2>3, <3>1, MaxRowidAssumption DEF NewGroup, InsertNewsgroup, TypeOK, Tables, Ids
    <3>3. QED
      BY <2>3, <3>1, <3>2 DEF NewGroup, InsertNewsgroup, TypeOK, NewsgroupRows
  <2>4. ASSUME NEW g \in Ids, NEW content \in Contents, NewArticle(g, content)
        PROVE  <1>2
    <3>1. sequence["articles"] + 1 \in Ids
      BY <2>4, MaxRowidAssumption DEF NewArticle, TypeOK, Tables, Ids
    <3>2. sequence' \in [Tables -> 0..MaxRowid]
      BY <2>4, <3>1, MaxRowidAssumption DEF NewArticle, InsertArticle, TypeOK, Tables, Ids
    <3>3. QED
      BY <2>4, <3>1, <3>2 DEF NewArticle, InsertArticle, TypeOK, ArticleRows
  <2>5. ASSUME NEW g \in Ids, GroupGone(g)
        PROVE  <1>2
    BY <2>5 DEF GroupGone, TypeOK
  <2>6. ASSUME NEW g \in Ids, NEW a \in Ids, ArticleGone(g, a)
        PROVE  <1>2
    BY <2>6 DEF ArticleGone, TypeOK
  <2>7. QED
    BY <2>1, <2>2, <2>3, <2>4, <2>5, <2>6 DEF RowsChange
<1>3. QED
  BY <1>1, <1>2 DEF FileType

(* connect runs the PRAGMA before anything else uses the connection.      *)
LEMMA EnforcedStep ==
  ASSUME TypeOK, Enforced, NEW p \in Procs, Step(p)
  PROVE  Enforced'
<1> DEFINE Connected == {"ready", "create newsgroups", "create articles"} \cup Calling
<1>0. /\ DOMAIN conn = Procs /\ DOMAIN pc = Procs
      /\ conn[p] \in Connections
      /\ DOMAIN conn[p] = {"fk", "shared", "schema"}
  BY DEF TypeOK, Connections
<1>1. ASSUME pc'[p] \in Connected => conn'[p].fk,
             \A q \in Procs \ {p} : pc'[q] = pc[q] /\ conn'[q] = conn[q]
      PROVE  Enforced'
  BY <1>1 DEF Enforced
<1>2. \A q \in Procs \ {p} : pc'[q] = pc[q] /\ conn'[q] = conn[q]
  BY <1>0 DEF Step, Start, file_exist, Open, connect, initializeDB, CreateTable, Stop, Die,
       Call, news_group_exists, article_exists, NoGroup, NoArticle, list_news_groups,
       list_articles, get_article, create_news_group, create_article,
       delete_news_group, delete_article, ReadWorks, ReadFails, LoopFails, WriteWorks,
       WriteFails, Worked, Failed, Goto, Return
<1>3. pc'[p] \in Connected => conn'[p].fk
  <2>1. CASE Die(p)
    BY <1>0, <2>1 DEF Die, Calling
  <2>2. CASE pc[p] \in Connected /\ conn'[p].fk = conn[p].fk
    BY <2>2 DEF Enforced
  <2>3. CASE Start(p) \/ file_exist(p)
    BY <1>0, <2>3 DEF Start, file_exist, Goto, Calling
  <2>4. CASE connect(p)
    BY <1>0, <2>4 DEF connect, NoConnection
  <2>5. CASE Step(p) /\ ~Start(p) /\ ~file_exist(p) /\ ~connect(p) /\ ~Die(p)
    <3>1. pc[p] \in Connected
      BY <2>5, ZenonT(40) DEF Step, Open, initializeDB, Stop, Call, Calling, news_group_exists,
           article_exists, list_news_groups, list_articles, get_article, At,
           create_news_group, create_article, delete_news_group, delete_article
    <3>2. \/ UNCHANGED conn
          \/ \E s : conn' = [conn EXCEPT ![p].schema = s]
          \/ conn' = [conn EXCEPT ![p].shared = TRUE, ![p].schema = Schema]
      BY <2>5, ZenonT(40) DEF Step, Open, initializeDB, CreateTable, Stop, Call, news_group_exists,
           article_exists, list_news_groups, list_articles, get_article,
           create_news_group, create_article, delete_news_group, delete_article,
           ReadWorks, ReadFails, LoopFails, WriteWorks, WriteFails, Worked, Failed
    <3>3. conn'[p].fk = conn[p].fk
      BY <1>0, <3>2
    <3>4. QED
      BY <3>1, <3>3, <2>2
  <2>6. QED
    BY <2>1, <2>3, <2>4, <2>5
<1>4. QED
  BY <1>1, <1>2, <1>3

-----------------------------------------------------------------------------
(* The inductive invariant.  Enforced is what TypeOK and the properties of *)
(* the rows lack: without it create_article could add an article to a      *)
(* group that is gone, and delete_news_group leave articles behind.        *)
Inv == TypeOK /\ Enforced /\ OneRowPerKey /\ ReferentialIntegrity

(* Insertions take the next id of sqlite_sequence and a free name.        *)
LEMMA OneRowPerKeyStep ==
  ASSUME TypeOK, OneRowPerKey, RowsChange
  PROVE  OneRowPerKey'
<1>1. /\ sequence["newsgroups"] \in Nat /\ sequence["articles"] \in Nat
      /\ DOMAIN sequence = {"newsgroups", "articles"}
      /\ \A row \in newsgroups : row.grpID \in Nat
      /\ \A row \in articles : row.artID \in Nat
  BY MaxRowidAssumption DEF TypeOK, Tables, Ids, NewsgroupRows, ArticleRows
<1>2. CASE UNCHANGED dbVars
  BY <1>2 DEF dbVars, OneRowPerKey
<1>3. ASSUME NEW name \in Names, NewGroup(name)
      PROVE  OneRowPerKey'
  BY <1>1, <1>3 DEF NewGroup, InsertNewsgroup, HasName, OneRowPerKey
<1>4. ASSUME NEW g \in Ids, NEW content \in Contents, NewArticle(g, content)
      PROVE  OneRowPerKey'
  BY <1>1, <1>4 DEF NewArticle, InsertArticle, OneRowPerKey
<1>5. ASSUME NEW g \in Ids, GroupGone(g)
      PROVE  OneRowPerKey'
  BY <1>5 DEF GroupGone, OneRowPerKey
<1>6. ASSUME NEW g \in Ids, NEW a \in Ids, ArticleGone(g, a)
      PROVE  OneRowPerKey'
  BY <1>6 DEF ArticleGone, OneRowPerKey
<1>7. QED
  BY <1>2, <1>3, <1>4, <1>5, <1>6 DEF RowsChange

(* Articles come only into groups that exist and go with their group.     *)
LEMMA ReferentialIntegrityStep ==
  ASSUME ReferentialIntegrity, RowsChange
  PROVE  ReferentialIntegrity'
<1>1. CASE UNCHANGED dbVars
  BY <1>1 DEF dbVars, ReferentialIntegrity, HasGroup
<1>2. ASSUME NEW name \in Names, NewGroup(name)
      PROVE  ReferentialIntegrity'
  BY <1>2 DEF NewGroup, InsertNewsgroup, ReferentialIntegrity, HasGroup
<1>3. ASSUME NEW g \in Ids, NEW content \in Contents, NewArticle(g, content)
      PROVE  ReferentialIntegrity'
  BY <1>3 DEF NewArticle, InsertArticle, ReferentialIntegrity, HasGroup
<1>4. ASSUME NEW g \in Ids, GroupGone(g)
      PROVE  ReferentialIntegrity'
  BY <1>4 DEF GroupGone, ReferentialIntegrity, HasGroup
<1>5. ASSUME NEW g \in Ids, NEW a \in Ids, ArticleGone(g, a)
      PROVE  ReferentialIntegrity'
  BY <1>5 DEF ArticleGone, ReferentialIntegrity, HasGroup
<1>6. QED
  BY <1>1, <1>2, <1>3, <1>4, <1>5 DEF RowsChange

(* The inductive invariant holds of the file that does not exist yet.     *)
LEMMA InvInit == Init => Inv
<1> SUFFICES ASSUME Init PROVE Inv
  OBVIOUS
<1>1. Enforced
  BY DEF Init, Enforced, Calling
<1>2. OneRowPerKey /\ ReferentialIntegrity
  BY DEF Init, OneRowPerKey, ReferentialIntegrity
<1>3. QED
  BY <1>1, <1>2, InitType DEF Inv

(* Every step of every process preserves the inductive invariant.         *)
LEMMA InvStep == Inv /\ [Next]_vars => Inv'
<1> SUFFICES ASSUME Inv, [Next]_vars PROVE Inv'
  OBVIOUS
<1>1. CASE UNCHANGED vars
  <2>1. TypeOK'
    BY <1>1 DEF Inv, vars, TypeOK
  <2>2. Enforced'
    BY <1>1 DEF Inv, vars, Enforced
  <2>3. OneRowPerKey' /\ ReferentialIntegrity'
    BY <1>1 DEF Inv, vars, OneRowPerKey, ReferentialIntegrity, HasGroup
  <2>4. QED
    BY <2>1, <2>2, <2>3 DEF Inv
<1>2. ASSUME NEW p \in Procs, Step(p)
      PROVE  Inv'
  <2>1. TypeOK'
    <3>1. ProcType'
      BY <1>2, TypeHalves, ProcTypeStep DEF Inv
    <3>2. FileType'
      BY <1>2, FileTypeStep DEF Inv
    <3>3. QED
      BY <3>1, <3>2 DEF TypeOK, ProcType, FileType
  <2>2. Enforced'
    BY <1>2, EnforcedStep DEF Inv
  <2>3. RowsChange
    BY <1>2, Rows DEF Inv
  <2>4. QED
    BY <2>1, <2>2, <2>3, OneRowPerKeyStep, ReferentialIntegrityStep DEF Inv
<1>3. QED
  BY <1>1, <1>2 DEF Next

(* The inductive invariant holds throughout.                              *)
LEMMA Invariance == Spec => []Inv
BY InvInit, InvStep, PTL DEF Spec

(* Types: in particular a process has a call exactly while it runs one,    *)
(* and no id lies beyond the largest rowid.                                *)
THEOREM TypeCorrect == Spec => []TypeOK
<1>1. Inv => TypeOK
  BY DEF Inv
<1>2. QED
  BY <1>1, Invariance, PTL

(* However many processes share the file, and wherever each is killed, no  *)
(* article is ever left without its group.                                 *)
THEOREM NoOrphans == Spec => []ReferentialIntegrity
<1>1. Inv => ReferentialIntegrity
  BY DEF Inv
<1>2. QED
  BY <1>1, Invariance, PTL

(* No two rows share an id or a name, and no row lies beyond what          *)
(* sqlite_sequence has given out.                                          *)
THEOREM KeysStandForOneRow == Spec => []OneRowPerKey
<1>1. Inv => OneRowPerKey
  BY DEF Inv
<1>2. QED
  BY <1>1, Invariance, PTL

-----------------------------------------------------------------------------
(* Refinement: each change of the rows is one operation of NewsStore.      *)

(* A file that does not exist yet is an empty store.                      *)
LEMMA StoreInitially == Init => Store!StoreInit
<1> SUFFICES ASSUME Init PROVE Store!StoreInit
  OBVIOUS
<1>1. sequence["newsgroups"] = 0 /\ sequence["articles"] = 0
  BY DEF Init, Tables
<1>2. 1..sequence["newsgroups"] = {} /\ 1..sequence["articles"] = {}
  BY <1>1
<1>3. QED
  BY <1>2 DEF Init, Store!StoreInit

(* What TypeOK says of sqlite_sequence. *)
LEMMA Sequences ==
  ASSUME TypeOK
  PROVE  /\ sequence["newsgroups"] \in Nat /\ sequence["articles"] \in Nat
         /\ DOMAIN sequence = {"newsgroups", "articles"}
BY MaxRowidAssumption DEF TypeOK, Tables

(* A group that is inserted is one that NewsStore may add.                *)
LEMMA NewGroupIsAdded ==
  ASSUME TypeOK, NEW name \in Names, NewGroup(name)
  PROVE  Store!AddGroup(name)
<1> DEFINE id == sequence["newsgroups"] + 1
<1>1. sequence'["newsgroups"] = id /\ sequence'["articles"] = sequence["articles"]
  BY Sequences DEF NewGroup, InsertNewsgroup
<1>2. id \in Ids \ (1..sequence["newsgroups"])
  BY Sequences, MaxRowidAssumption DEF NewGroup, Ids
<1>3. 1..sequence'["newsgroups"] = (1..sequence["newsgroups"]) \cup {id}
  BY Sequences, <1>1
<1>4. newsgroups' = newsgroups \cup {[grpID |-> id, name |-> name]}
  BY DEF NewGroup, InsertNewsgroup
<1>5. ~Store!NameTaken(name) /\ UNCHANGED articles
  BY DEF NewGroup, HasName, Store!NameTaken
<1> HIDE DEF id
<1>6. QED
  BY <1>1, <1>2, <1>3, <1>4, <1>5 DEF Store!AddGroup

(* An article that is inserted is one that NewsStore may add.             *)
LEMMA NewArticleIsAdded ==
  ASSUME TypeOK, NEW g \in Ids, NEW content \in Contents, NewArticle(g, content)
  PROVE  Store!AddArticle(g, content)
<1> DEFINE id == sequence["articles"] + 1
<1>1. sequence'["articles"] = id /\ sequence'["newsgroups"] = sequence["newsgroups"]
  BY Sequences DEF NewArticle, InsertArticle
<1>2. id \in Ids \ (1..sequence["articles"])
  BY Sequences, MaxRowidAssumption DEF NewArticle, Ids
<1>3. 1..sequence'["articles"] = (1..sequence["articles"]) \cup {id}
  BY Sequences, <1>1
<1>4. articles' = articles \cup {[artID |-> id, grpID |-> g, content |-> content]}
  BY DEF NewArticle, InsertArticle
<1>5. Store!GroupExists(g) /\ UNCHANGED newsgroups
  BY DEF NewArticle, HasGroup, Store!GroupExists
<1> HIDE DEF id
<1>6. QED
  BY <1>1, <1>2, <1>3, <1>4, <1>5 DEF Store!AddArticle

(* A change of the rows is an operation of NewsStore, or none.            *)
LEMMA RowsAreStoreSteps ==
  ASSUME TypeOK, ReferentialIntegrity, RowsChange
  PROVE  [Store!StoreNext]_(Store!storeVars)
<1>1. CASE UNCHANGED dbVars
  BY <1>1 DEF dbVars, Store!storeVars
<1>2. ASSUME NEW name \in Names, NewGroup(name)
      PROVE  Store!StoreNext
  BY <1>2, NewGroupIsAdded DEF Store!StoreNext
<1>3. ASSUME NEW g \in Ids, NEW content \in Contents, NewArticle(g, content)
      PROVE  Store!StoreNext
  BY <1>3, NewArticleIsAdded DEF Store!StoreNext
<1>4. ASSUME NEW g \in Ids, GroupGone(g)
      PROVE  [Store!StoreNext]_(Store!storeVars)
  <2>1. CASE HasGroup(g)
    <3>1. Store!RemoveGroup(g)
      BY <1>4, <2>1 DEF GroupGone, HasGroup, Store!RemoveGroup, Store!GroupExists,
                        Store!ArticlesOf
    <3>2. QED
      BY <3>1 DEF Store!StoreNext
  <2>2. CASE ~HasGroup(g)
    <3>1. newsgroups' = newsgroups /\ articles' = articles
      BY <1>4, <2>2 DEF GroupGone, HasGroup, ReferentialIntegrity
    <3>2. QED
      BY <1>4, <3>1 DEF GroupGone, Store!storeVars
  <2>3. QED
    BY <2>1, <2>2
<1>5. ASSUME NEW g \in Ids, NEW a \in Ids, ArticleGone(g, a)
      PROVE  [Store!StoreNext]_(Store!storeVars)
  <2>1. CASE HasArticle(g, a)
    <3>1. Store!RemoveArticle(g, a)
      BY <1>5, <2>1 DEF ArticleGone, HasArticle, Store!RemoveArticle, Store!ArticleExists
    <3>2. QED
      BY <3>1 DEF Store!StoreNext
  <2>2. CASE ~HasArticle(g, a)
    <3>1. articles' = articles
      BY <1>5, <2>2 DEF ArticleGone, HasArticle
    <3>2. QED
      BY <1>5, <3>1 DEF ArticleGone, Store!storeVars
  <2>3. QED
    BY <2>1, <2>2
<1>6. QED
  BY <1>1, <1>2, <1>3, <1>4, <1>5 DEF RowsChange

(* The file is a NewsStore: an acknowledged row stays until it is deleted, *)
(* across kills and restarts, a group takes its articles with it in one    *)
(* step, ids are never given twice, whichever processes share the file.    *)
THEOREM RefinesStore == Spec => ImplementsStore
<1>1. Inv /\ [Next]_vars => [Store!StoreNext]_(Store!storeVars)
  <2> SUFFICES ASSUME Inv, [Next]_vars PROVE [Store!StoreNext]_(Store!storeVars)
    OBVIOUS
  <2>1. CASE UNCHANGED vars
    BY <2>1 DEF vars, Store!storeVars
  <2>2. ASSUME NEW p \in Procs, Step(p)
        PROVE  RowsChange
    BY <2>2, Rows DEF Inv
  <2>3. QED
    BY <2>1, <2>2, RowsAreStoreSteps DEF Inv, Next
<1>2. QED
  BY <1>1, StoreInitially, Invariance, PTL DEF Spec, ImplementsStore, Store!StoreSpec

-----------------------------------------------------------------------------
(* Acknowledgements.                                                       *)

(* What a process answers to a creation, with what happened to the rows.  *)
AckedGroup(p) ==
  reply'[p] # <<>> /\ Op(p) = "create_news_group" =>
    IF reply'[p][2] THEN NewGroup(call[p][2]) ELSE UNCHANGED dbVars

AckedArticle(p) ==
  reply'[p] # <<>> /\ Op(p) = "create_article" =>
    IF reply'[p][2] THEN NewArticle(call[p][2], call[p][3]) ELSE UNCHANGED dbVars

(* Only the process that takes a step answers in it.                      *)
LEMMA OthersAreSilent ==
  ASSUME TypeOK, NEW p \in Procs, Step(p), NEW q \in Procs \ {p}
  PROVE  ~Answered(q)
<1>1. DOMAIN reply = Procs
  BY DEF TypeOK
<1>2. reply'[q] = reply[q]
  BY <1>1 DEF Step, Start, file_exist, Open, connect, initializeDB, CreateTable, Stop, Die,
       Call, news_group_exists, article_exists, NoGroup, NoArticle, list_news_groups,
       list_articles, get_article, create_news_group, create_article,
       delete_news_group, delete_article, Goto, Return
<1>3. QED
  BY <1>2 DEF Answered

(* A process that answers a creation does so from the statement that      *)
(* inserts, and its answer says whether that statement inserted the row.  *)
LEMMA AnswerFromStatement ==
  ASSUME TypeOK, Enforced, NEW p \in Procs, Step(p), Answered(p)
  PROVE  AckedGroup(p) /\ AckedArticle(p)
<1>1. DOMAIN reply = Procs /\ reply[p] = <<>> /\ reply'[p] # <<>>
  BY DEF TypeOK, Answered
<1>2. CASE Start(p) \/ file_exist(p) \/ Open(p) \/ initializeDB(p) \/ Stop(p)
           \/ \E c \in Calls : Call(p, c)
  BY <1>1, <1>2 DEF Start, file_exist, Open, connect, initializeDB, CreateTable, Stop,
                    Die, Call, Goto
<1>3. CASE news_group_exists(p) \/ article_exists(p)
  BY <1>1, <1>3 DEF news_group_exists, article_exists, NoGroup, NoArticle, Goto,
                    AckedGroup, AckedArticle
<1>4. CASE list_news_groups(p) \/ list_articles(p) \/ get_article(p)
           \/ delete_news_group(p) \/ delete_article(p)
  BY <1>4 DEF list_news_groups, list_articles, get_article, delete_news_group,
              delete_article, At, AckedGroup, AckedArticle
<1>5. CASE create_news_group(p)
  <2>1. \A result : Return(p, result) => reply'[p][2] = result
    BY <1>1 DEF Return
  <2>2. QED
    BY <1>5, <2>1 DEF create_news_group, At, CanInsertNewsgroup, NewGroup, dbVars,
                      AckedGroup, AckedArticle
<1>6. CASE create_article(p)
  <2>1. \A result : Return(p, result) => reply'[p][2] = result
    BY <1>1 DEF Return
  <2>2. conn[p].fk
    BY <1>6 DEF create_article, At, Enforced, Calling
  <2>3. QED
    BY <1>6, <2>1, <2>2 DEF create_article, At, CanInsertArticle, NewArticle, dbVars,
                            Group, Third, AckedGroup, AckedArticle
<1>7. QED
  BY <1>2, <1>3, <1>4, <1>5, <1>6 DEF Step

(* A process that answers has been running a call.                        *)
LEMMA CallIsRunning ==
  ASSUME TypeOK, NEW p \in Procs, Step(p), Answered(p)
  PROVE  call[p] \in Calls
<1>1. DOMAIN reply = Procs /\ reply[p] = <<>> /\ reply'[p] # <<>>
  BY DEF TypeOK, Answered
<1>2. pc[p] \in Calling
  <2>1. CASE Start(p) \/ file_exist(p) \/ Open(p) \/ initializeDB(p) \/ Stop(p)
             \/ \E c \in Calls : Call(p, c)
    BY <1>1, <2>1 DEF Start, file_exist, Open, connect, initializeDB, CreateTable, Stop,
                      Die, Call, Goto
  <2>2. CASE ~(Start(p) \/ file_exist(p) \/ Open(p) \/ initializeDB(p) \/ Stop(p)
               \/ \E c \in Calls : Call(p, c))
    BY <2>2 DEF Step, Calling, At, news_group_exists, article_exists, list_news_groups,
                list_articles, get_article, create_news_group, create_article,
                delete_news_group, delete_article
  <2>3. QED
    BY <2>1, <2>2
<1>3. QED
  BY <1>2 DEF TypeOK

(* A client that is told of a creation can rely on it, and one that is    *)
(* refused has changed nothing, whatever the other processes do.          *)
THEOREM AcksAreTrue == Spec => AckMeansCreated
<1> DEFINE Acks == \A p \in Procs :
             /\ Answered(p) /\ Op(p) = "create_news_group" =>
                  IF reply'[p][2] THEN Store!AddGroup(call[p][2]) ELSE UNCHANGED dbVars
             /\ Answered(p) /\ Op(p) = "create_article" =>
                  IF reply'[p][2] THEN Store!AddArticle(call[p][2], call[p][3])
                                  ELSE UNCHANGED dbVars
<1>1. Inv /\ [Next]_vars => [Acks]_vars
  <2> SUFFICES ASSUME Inv, NEW p \in Procs, Step(p) PROVE Acks
    BY DEF Next
  <2>1. ASSUME NEW q \in Procs \ {p}
        PROVE  ~Answered(q)
    BY <2>1, OthersAreSilent DEF Inv
  <2>2. CASE Answered(p) /\ Op(p) = "create_news_group"
    <3>1. AckedGroup(p)
      BY <2>2, AnswerFromStatement DEF Inv
    <3>2. call[p] \in Calls
      BY <2>2, CallIsRunning DEF Inv
    <3>3. call[p][2] \in Names
      BY <2>2, <3>2, Arguments DEF Op
    <3>4. IF reply'[p][2] THEN Store!AddGroup(call[p][2]) ELSE UNCHANGED dbVars
      BY <2>2, <3>1, <3>3, NewGroupIsAdded DEF Inv, AckedGroup, Answered
    <3>5. QED
      BY <2>1, <2>2, <3>4
  <2>3. CASE Answered(p) /\ Op(p) = "create_article"
    <3>1. AckedArticle(p)
      BY <2>3, AnswerFromStatement DEF Inv
    <3>2. call[p] \in Calls
      BY <2>3, CallIsRunning DEF Inv
    <3>3. call[p][2] \in Ids /\ call[p][3] \in Contents
      BY <2>3, <3>2, Arguments DEF Op
    <3>4. IF reply'[p][2] THEN Store!AddArticle(call[p][2], call[p][3]) ELSE UNCHANGED dbVars
      BY <2>3, <3>1, <3>3, NewArticleIsAdded DEF Inv, AckedArticle, Answered
    <3>5. QED
      BY <2>1, <2>3, <3>4
  <2>4. QED
    BY <2>1, <2>2, <2>3
<1>2. QED
  BY <1>1, Invariance, PTL DEF Spec, AckMeansCreated

=============================================================================
