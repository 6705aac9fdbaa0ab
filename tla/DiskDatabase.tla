---------------------------- MODULE DiskDatabase ----------------------------
(***************************************************************************)
(* The SQLite implementation of DatabaseInterface (diskdatabase.cc): the   *)
(* file news.db, and the server processes that open it.  A member function *)
(* runs one to three SQL statements, each its own transaction; the code    *)
(* takes no transaction around them, so that a statement is one step and   *)
(* anything another process does, or a kill, may come between two steps.   *)
(*                                                                         *)
(* SQLite itself is not in the repository.  What the code asks of it is    *)
(* modelled from the statements it runs: keys and AUTOINCREMENT, UNIQUE,   *)
(* FOREIGN KEY ... ON DELETE CASCADE under PRAGMA foreign_keys, statements *)
(* that are atomic across crashes, and locks: a reader holds a SHARED lock *)
(* until its statement ends, a writer needs the file for itself, and with  *)
(* no busy handler installed whoever cannot get a lock fails at once.      *)
(***************************************************************************)
EXTENDS Naturals, FiniteSets

CONSTANTS
  Procs,        \* newsserver processes started in the directory of news.db
  Names, Contents,
  EmptyArticle, \* Article(), what get_article returns besides an error
  MaxRowid,     \* the largest rowid: AUTOINCREMENT never goes beyond it
  StopPoints    \* the stages at which a process may be killed

ASSUME MaxRowidAssumption == MaxRowid \in Nat \ {0}

VARIABLES
  file,         \* does news.db exist?
  tables,       \* its tables
  newsgroups,   \* rows of table newsgroups
  articles,     \* rows of table articles
  sequence,     \* sqlite_sequence: the largest id each table ever gave out
  pc,           \* the stage each process is at
  conn,         \* what each process's connection `db` keeps
  call,         \* the call a process executes, <<>> if none
  reply         \* <<call, result>> of its last call, <<>> during the next one

vars == <<file, tables, newsgroups, articles, sequence, pc, conn, call, reply>>
dbVars == <<newsgroups, articles, sequence>>
fileVars == <<file, tables, newsgroups, articles, sequence>>

Ids == 1..MaxRowid
Tables == {"newsgroups", "articles"}

NewsgroupRows == [grpID : Ids, name : Names]
ArticleRows == [artID : Ids, grpID : Ids, content : Contents]

(* fk: foreign keys are enforced.  shared: get_article left a statement    *)
(* open, and with it a SHARED lock.  schema: the connection has read the   *)
(* schema, which is "old" when table articles was not there yet.           *)
NoConnection == [fk |-> FALSE, shared |-> FALSE, schema |-> "unread"]
Connections == [fk : BOOLEAN, shared : BOOLEAN, schema : {"unread", "old", "current"}]

Starting == {"constructor", "connect", "initializeDB", "create newsgroups", "create articles"}
Calling == {"news_group_exists", "article_exists", "statement", "statement, no group"}
Stages == {"down", "ready"} \cup Starting \cup Calling

Calls ==
  {<<"list_news_groups">>} \cup
  ({"create_news_group"} \X Names) \cup
  ({"delete_news_group", "list_articles"} \X Ids) \cup
  ({"create_article"} \X Ids \X Contents) \cup
  ({"delete_article", "get_article"} \X Ids \X Ids)

Op(p) == call[p][1]
Group(p) == call[p][2]
Third(p) == call[p][3]   \* an article's id, or its content in create_article

HasGroup(g) == \E row \in newsgroups : row.grpID = g
HasName(name) == \E row \in newsgroups : row.name = name
HasArticle(g, a) == \E row \in articles : row.grpID = g /\ row.artID = a

Init ==
  /\ file = FALSE
  /\ tables = {}
  /\ newsgroups = {}
  /\ articles = {}
  /\ sequence = [t \in Tables |-> 0]
  /\ pc = [p \in Procs |-> "down"]
  /\ conn = [p \in Procs |-> NoConnection]
  /\ call = [p \in Procs |-> <<>>]
  /\ reply = [p \in Procs |-> <<>>]

-----------------------------------------------------------------------------
(* How a statement of process p on table t may end.                        *)

Writers == {"create_news_group", "delete_news_group", "create_article", "delete_article"}

Writing(q) ==
  \/ pc[q] \in {"create newsgroups", "create articles"}
  \/ pc[q] = "statement" /\ Op(q) \in Writers

(* A reader may meet the lock of a writer; a writer may meet that of any   *)
(* other statement, and is sure to meet one that get_article leaked.       *)
ReadBusy(p) == \E q \in Procs \ {p} : Writing(q)
WriteBlocked(p) == \E q \in Procs \ {p} : conn[q].shared
WriteBusy(p) ==
  \E q \in Procs \ {p} : conn[q].shared \/ pc[q] \in Calling \/ Writing(q)

(* sqlite3_prepare reads the schema only when the connection does not know *)
(* the table, and fails without it.  A statement compiled against a schema *)
(* that has changed since fails in sqlite3_step.                           *)
Knows(p, t) ==
  conn[p].schema = "current" \/ (conn[p].schema = "old" /\ t = "newsgroups")
Stale(p, t) ==
  conn[p].schema = "old" /\ t = "newsgroups" /\ "articles" \in tables
PrepareFails(p, t) == t \notin tables \/ (~Knows(p, t) /\ ReadBusy(p))

Schema ==
  CASE "articles" \in tables -> "current"
    [] tables = {"newsgroups"} -> "old"
    [] OTHER -> "unread"

Worked(p) == conn' = [conn EXCEPT ![p].schema = Schema]

Failed(p, t) ==
  \E schema \in {conn[p].schema, IF Stale(p, t) THEN "unread" ELSE Schema} :
    conn' = [conn EXCEPT ![p].schema = schema]

Usable(p, t) == t \in tables /\ ~Stale(p, t)

ReadWorks(p, t) == Usable(p, t) /\ Worked(p)
ReadFails(p, t) == (~Usable(p, t) \/ ReadBusy(p)) /\ Failed(p, t)
WriteWorks(p, t) == Usable(p, t) /\ ~WriteBlocked(p) /\ Worked(p)
WriteFails(p, t) == (~Usable(p, t) \/ WriteBusy(p)) /\ Failed(p, t)

Goto(p, stage) == pc' = [pc EXCEPT ![p] = stage] /\ UNCHANGED <<call, reply>>

Return(p, result) ==
  /\ pc' = [pc EXCEPT ![p] = "ready"]
  /\ reply' = [reply EXCEPT ![p] = <<call[p], result>>]
  /\ call' = [call EXCEPT ![p] = <<>>]

(* The process is gone, with its connection and its locks; a statement it  *)
(* was in is rolled back.                                                  *)
Die(p) ==
  /\ pc' = [pc EXCEPT ![p] = "down"]
  /\ conn' = [conn EXCEPT ![p] = NoConnection]
  /\ call' = [call EXCEPT ![p] = <<>>]
  /\ reply' = [reply EXCEPT ![p] = <<>>]
  /\ UNCHANGED fileVars

-----------------------------------------------------------------------------
(* Faulty variants of the definitions below, which the properties must     *)
(* tell from them.                                                         *)

(* connect without the PRAGMA, which SQLite forgets with each connection.  *)
connect_without_pragma(p) ==
  /\ conn' = [conn EXCEPT ![p] = NoConnection]
  /\ file' = TRUE
  /\ UNCHANGED <<tables, dbVars, call, reply>>

(* A primary key without AUTOINCREMENT: one more than the largest there is. *)
InsertArticle_largest_plus_one(g, content) ==
  LET used == {row.artID : row \in articles}
      id == CHOOSE i \in 1..MaxRowid + 1 :
              (\A u \in used : u < i) /\ (i = 1 \/ i - 1 \in used)
  IN  /\ articles' = articles \cup {[artID |-> id, grpID |-> g, content |-> content]}
      /\ sequence' = [sequence EXCEPT !["articles"] = id]

(* An insertion that gives the id of the last row ever inserted.           *)
InsertNewsgroup_same_id(name) ==
  /\ newsgroups' = newsgroups \cup {[grpID |-> sequence["newsgroups"] + 1, name |-> name]}
  /\ UNCHANGED sequence

(* An id that outgrows the largest rowid. *)
CanInsertNewsgroup_when_full(name) == ~HasName(name)

(* article_exists that binds its parameters in the wrong order; that is    *)
(* content with any article of the group.                                  *)
FindArticle_swapped(g, a) == HasArticle(a, g)
FindArticle_any_of_group(g, a) == \E row \in articles : row.grpID = g

(* Loops that end when the file is locked. *)
LoopFails_busy(p, t) ==
  (PrepareFails(p, t) \/ Stale(p, t) \/ ReadBusy(p)) /\ Failed(p, t)

-----------------------------------------------------------------------------
(* The constructor: main starts a process, which opens the database.       *)

Start(p) ==
  /\ pc[p] = "down"
  /\ Goto(p, "constructor")
  /\ UNCHANGED <<conn, fileVars>>

file_exist(p) ==
  /\ pc[p] = "constructor"
  /\ Goto(p, IF file THEN "connect" ELSE "initializeDB")
  /\ UNCHANGED <<conn, fileVars>>

(* sqlite3_open creates the file, without any table, when it is not there. *)
connect(p) ==
  /\ conn' = [conn EXCEPT ![p] = [NoConnection EXCEPT !.fk = TRUE]]
  /\ file' = TRUE
  /\ UNCHANGED <<tables, dbVars, call, reply>>

(* The constructor calls connect, itself or through initializeDB, and      *)
(* leaves the program when the file cannot be opened.                      *)
Open(p) ==
  \/ /\ pc[p] = "connect"
     /\ pc' = [pc EXCEPT ![p] = "ready"]
     /\ connect(p)
  \/ /\ pc[p] = "initializeDB"
     /\ pc' = [pc EXCEPT ![p] = "create newsgroups"]
     /\ connect(p)
  \/ /\ pc[p] \in {"connect", "initializeDB"}
     /\ Die(p)

(* The loop of initializeDB over its two CREATE TABLE statements: the      *)
(* first that fails, as another process has the table made or the file     *)
(* locked, leaves the program.                                             *)
CreateTable(p, t, next) ==
  \/ /\ t \notin tables
     /\ ~WriteBlocked(p)
     /\ tables' = tables \cup {t}
     /\ conn' = [conn EXCEPT ![p].schema = Schema']
     /\ Goto(p, next)
     /\ UNCHANGED <<file, dbVars>>
  \/ /\ t \in tables \/ WriteBusy(p)
     /\ Die(p)

initializeDB(p) ==
  \/ pc[p] = "create newsgroups" /\ CreateTable(p, "newsgroups", "create articles")
  \/ pc[p] = "create articles" /\ CreateTable(p, "articles", "ready")

(* A kill, or the end of the machine, at any of the StopPoints. *)
Stop(p) == pc[p] \in StopPoints /\ Die(p)

-----------------------------------------------------------------------------
(* The member functions.  Those that look for the group first begin with   *)
(* news_group_exists, and go on with article_exists where they need it.    *)

FirstStage(op) ==
  IF op \in {"list_news_groups", "create_news_group", "create_article"}
    THEN "statement" ELSE "news_group_exists"

Call(p, c) ==
  /\ pc[p] = "ready"
  /\ pc' = [pc EXCEPT ![p] = FirstStage(c[1])]
  /\ call' = [call EXCEPT ![p] = c]
  /\ reply' = [reply EXCEPT ![p] = <<>>]
  /\ UNCHANGED <<conn, fileVars>>

NoGroup(p) ==
  \/ Op(p) = "delete_news_group" /\ Return(p, FALSE)
  \/ Op(p) = "delete_article" /\ Return(p, "NO_NG")
  \/ Op(p) = "get_article" /\ Return(p, <<"NO_NG", EmptyArticle>>)
  \/ Op(p) = "list_articles" /\ Goto(p, "statement, no group")

(* Only SQLITE_DONE, no row, means that there is no group: a statement     *)
(* that fails counts as a group.                                           *)
news_group_exists(p) ==
  /\ pc[p] = "news_group_exists"
  /\ \/ ReadWorks(p, "newsgroups") /\ ~HasGroup(Group(p)) /\ NoGroup(p)
     \/ /\ ReadFails(p, "newsgroups") \/ (ReadWorks(p, "newsgroups") /\ HasGroup(Group(p)))
        /\ Goto(p, IF Op(p) \in {"delete_article", "get_article"}
                     THEN "article_exists" ELSE "statement")
  /\ UNCHANGED fileVars

NoArticle(p) ==
  \/ Op(p) = "delete_article" /\ Return(p, "NO_ARTICLE")
  \/ Op(p) = "get_article" /\ Return(p, <<"NO_ARTICLE", EmptyArticle>>)

FindArticle(g, a) == HasArticle(g, a)

article_exists(p) ==
  /\ pc[p] = "article_exists"
  /\ \/ /\ ReadWorks(p, "articles")
        /\ ~FindArticle(Group(p), Third(p))
        /\ NoArticle(p)
     \/ /\ \/ ReadFails(p, "articles")
           \/ ReadWorks(p, "articles") /\ FindArticle(Group(p), Third(p))
        /\ Goto(p, "statement")
  /\ UNCHANGED fileVars

At(p, op) == pc[p] = "statement" /\ Op(p) = op

(* The loops around sqlite3_step try again while the file is locked, so    *)
(* that only what sqlite3_prepare or a stale schema refuses ends them.     *)
LoopFails(p, t) == (PrepareFails(p, t) \/ Stale(p, t)) /\ Failed(p, t)

(* A SELECT over the rows, which answers nothing when it fails.            *)
list_news_groups(p) ==
  /\ At(p, "list_news_groups")
  /\ \/ /\ ReadWorks(p, "newsgroups")
        /\ Return(p, {<<row.grpID, row.name>> : row \in newsgroups})
     \/ LoopFails(p, "newsgroups") /\ Return(p, {})
  /\ UNCHANGED fileVars

list_articles(p) ==
  /\ pc[p] \in {"statement", "statement, no group"}
  /\ Op(p) = "list_articles"
  /\ LET exists == pc[p] = "statement"
         rows == {row \in articles : row.grpID = Group(p)}
     IN  \/ /\ ReadWorks(p, "articles")
            /\ Return(p, <<{<<row.artID, row.content.title>> : row \in rows}, exists>>)
         \/ LoopFails(p, "articles") /\ Return(p, <<{}, exists>>)
  /\ UNCHANGED fileVars

CanInsertNewsgroup(name) == ~HasName(name) /\ sequence["newsgroups"] < MaxRowid

InsertNewsgroup(name) ==
  /\ newsgroups' = newsgroups \cup {[grpID |-> sequence["newsgroups"] + 1, name |-> name]}
  /\ sequence' = [sequence EXCEPT !["newsgroups"] = @ + 1]

(* Whatever goes wrong, the answer is FALSE: a name that is taken, ids     *)
(* used up, a lock, a table that is missing.                               *)
create_news_group(p) ==
  /\ At(p, "create_news_group")
  /\ \/ /\ WriteWorks(p, "newsgroups")
        /\ CanInsertNewsgroup(call[p][2])
        /\ InsertNewsgroup(call[p][2])
        /\ Return(p, TRUE)
     \/ /\ \/ WriteFails(p, "newsgroups")
           \/ Usable(p, "newsgroups") /\ ~CanInsertNewsgroup(call[p][2]) /\ Worked(p)
        /\ UNCHANGED <<newsgroups, sequence>>
        /\ Return(p, FALSE)
  /\ UNCHANGED <<file, tables, articles>>

(* The foreign key refuses an article of a group that is not there.        *)
CanInsertArticle(p) ==
  (conn[p].fk => HasGroup(Group(p))) /\ sequence["articles"] < MaxRowid

InsertArticle(g, content) ==
  /\ articles' = articles \cup
       {[artID |-> sequence["articles"] + 1, grpID |-> g, content |-> content]}
  /\ sequence' = [sequence EXCEPT !["articles"] = @ + 1]

(* Faulty: takes whatever sqlite3_step returns for success. *)
create_article_unchecked(p) ==
  /\ At(p, "create_article")
  /\ \/ /\ WriteWorks(p, "articles")
        /\ CanInsertArticle(p)
        /\ InsertArticle(Group(p), Third(p))
        /\ Return(p, TRUE)
     \/ /\ \/ WriteFails(p, "articles")
           \/ Usable(p, "articles") /\ ~CanInsertArticle(p) /\ Worked(p)
        /\ UNCHANGED <<articles, sequence>>
        /\ Return(p, ~PrepareFails(p, "articles"))
  /\ UNCHANGED <<file, tables, newsgroups>>

create_article(p) ==
  /\ At(p, "create_article")
  /\ \/ /\ WriteWorks(p, "articles")
        /\ CanInsertArticle(p)
        /\ InsertArticle(Group(p), Third(p))
        /\ Return(p, TRUE)
     \/ /\ \/ WriteFails(p, "articles")
           \/ Usable(p, "articles") /\ ~CanInsertArticle(p) /\ Worked(p)
        /\ UNCHANGED <<articles, sequence>>
        /\ Return(p, FALSE)
  /\ UNCHANGED <<file, tables, newsgroups>>

(* The result of the DELETE is not looked at.  With foreign keys enforced  *)
(* it cascades to the articles of the group.                               *)
delete_news_group(p) ==
  /\ At(p, "delete_news_group")
  /\ \/ /\ WriteWorks(p, "newsgroups")
        /\ newsgroups' = {row \in newsgroups : row.grpID # Group(p)}
        /\ articles' = {row \in articles : conn[p].fk => row.grpID # Group(p)}
     \/ /\ WriteFails(p, "newsgroups")
        /\ UNCHANGED <<newsgroups, articles>>
  /\ Return(p, TRUE)
  /\ UNCHANGED <<file, tables, sequence>>

delete_article(p) ==
  /\ At(p, "delete_article")
  /\ \/ /\ WriteWorks(p, "articles")
        /\ articles' = {row \in articles : ~(row.grpID = Group(p) /\ row.artID = Third(p))}
     \/ /\ WriteFails(p, "articles")
        /\ UNCHANGED articles
  /\ Return(p, "OK")
  /\ UNCHANGED <<file, tables, newsgroups, sequence>>

(* The statement is never finalized: having met its row, it keeps the      *)
(* SHARED lock.  Without a row the columns are NULL, and a std::string     *)
(* made of NULL ends the program.                                          *)
get_article(p) ==
  /\ At(p, "get_article")
  /\ \/ /\ Usable(p, "articles")
        /\ conn' = [conn EXCEPT ![p].shared = TRUE, ![p].schema = Schema]
        /\ \E row \in articles :
             /\ row.grpID = Group(p) /\ row.artID = Third(p)
             /\ Return(p, <<"OK", row.content>>)
        /\ UNCHANGED fileVars
     \/ /\ "articles" \in tables
        /\ ~HasArticle(Group(p), Third(p)) \/ ReadBusy(p)
        /\ Die(p)
     \/ /\ PrepareFails(p, "articles") /\ Failed(p, "articles")
        /\ Return(p, <<"OK", EmptyArticle>>)
        /\ UNCHANGED fileVars

Step(p) ==
  \/ Start(p) \/ file_exist(p) \/ Open(p) \/ initializeDB(p) \/ Stop(p)
  \/ \E c \in Calls : Call(p, c)
  \/ news_group_exists(p) \/ article_exists(p)
  \/ list_news_groups(p) \/ create_news_group(p) \/ delete_news_group(p)
  \/ list_articles(p) \/ create_article(p) \/ delete_article(p) \/ get_article(p)

Next == \E p \in Procs : Step(p)

Spec == Init /\ [][Next]_vars

-----------------------------------------------------------------------------
(* Every variable keeps its type, and a process has a call exactly while   *)
(* it executes it.  AUTOINCREMENT stays within the rowids there are.       *)
TypeOK ==
  /\ file \in BOOLEAN
  /\ tables \in SUBSET Tables
  /\ newsgroups \in SUBSET NewsgroupRows
  /\ articles \in SUBSET ArticleRows
  /\ sequence \in [Tables -> 0..MaxRowid]
  /\ pc \in [Procs -> Stages]
  /\ conn \in [Procs -> Connections]
  /\ call \in [Procs -> Calls \cup {<<>>}]
  /\ DOMAIN reply = Procs
  /\ \A p \in Procs : pc[p] \in Calling <=> call[p] # <<>>

(* Every article belongs to a group that exists, whichever processes share *)
(* the file and wherever they are killed: SQLite looks after that only for *)
(* connections that asked for it, which each connection must do for itself. *)
ReferentialIntegrity ==
  \A row \in articles : HasGroup(row.grpID)

(* An id or a name stands for one row, and an id given once is never given *)
(* again, so that a client's id cannot come to mean another row.           *)
OneRowPerKey ==
  /\ \A r, s \in newsgroups : (r.grpID = s.grpID \/ r.name = s.name) => r = s
  /\ \A r, s \in articles : r.artID = s.artID => r = s
  /\ \A r \in newsgroups : r.grpID <= sequence["newsgroups"]
  /\ \A r \in articles : r.artID <= sequence["articles"]

Store == INSTANCE NewsStore WITH
  groups <- newsgroups,
  GroupIds <- Ids,
  ArticleIds <- Ids,
  usedGroupIds <- 1..sequence["newsgroups"],
  usedArticleIds <- 1..sequence["articles"]

(* The file only ever changes the way a news database may: whole rows that *)
(* the rules allow, a group together with its articles, no id a second     *)
(* time; kills, restarts and processes that fail to start change nothing.  *)
ImplementsStore == Store!StoreSpec

Answered(p) == reply[p] = <<>> /\ reply'[p] # <<>>

(* An acknowledgement of create_news_group or create_article comes with    *)
(* the row that was asked for, and a refusal with no change, whatever the  *)
(* other processes do in the meantime.                                     *)
AckMeansCreated ==
  [][\A p \in Procs :
       /\ Answered(p) /\ Op(p) = "create_news_group" =>
            IF reply'[p][2] THEN Store!AddGroup(call[p][2]) ELSE UNCHANGED dbVars
       /\ Answered(p) /\ Op(p) = "create_article" =>
            IF reply'[p][2] THEN Store!AddArticle(call[p][2], call[p][3])
                            ELSE UNCHANGED dbVars]_vars

(* databaseinterface.h:24 of create_news_group: "true if the news group    *)
(* was created, false if the name already exists".                         *)
RefusedNameExists ==
  \A p \in Procs, name \in Names :
    reply[p] = <<<<"create_news_group", name>>, FALSE>> =>
      HasName(name) \/ sequence["newsgroups"] = MaxRowid

(* databaseinterface.h:30 of delete_news_group: "true if the news group    *)
(* was deleted".  Ids are not reused: once deleted, a group stays away.    *)
DeletedGroupIsGone ==
  \A p \in Procs, g \in Ids :
    reply[p] = <<<<"delete_news_group", g>>, TRUE>> => ~HasGroup(g)

=============================================================================
