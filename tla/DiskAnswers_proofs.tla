------------------------- MODULE DiskAnswers_proofs --------------------------
(***************************************************************************)
(* What the answers of DiskDatabase are worth, for any number of processes *)
(* that share the file, any names and contents, and kills at any of the    *)
(* StopPoints; and of one process that has the file to itself.             *)
(***************************************************************************)
EXTENDS DiskAnswers, DiskDatabase_proofs

(* A call is the tuple of its operation and its arguments. *)
LEMMA Shapes ==
  ASSUME NEW c \in Calls
  PROVE  /\ c[1] = "list_news_groups" => c = <<"list_news_groups">>
         /\ c[1] \in {"create_news_group", "delete_news_group", "list_articles"} =>
              c = <<c[1], c[2]>>
         /\ c[1] \in {"create_article", "delete_article", "get_article"} =>
              c = <<c[1], c[2], c[3]>>
BY DEF Calls

(* A step of one process leaves what the others are at as it is. *)
LEMMA OthersStay ==
  ASSUME TypeOK, NEW q \in Procs, Step(q), NEW p \in Procs \ {q}
  PROVE  pc'[p] = pc[p] /\ call'[p] = call[p] /\ conn'[p] = conn[p]
<1>1. DOMAIN pc = Procs /\ DOMAIN call = Procs /\ DOMAIN conn = Procs
  BY DEF TypeOK
<1>2. QED
  BY <1>1 DEF Step, Start, file_exist, Open, connect, initializeDB, CreateTable, Stop, Die,
       Call, news_group_exists, article_exists, NoGroup, NoArticle, list_news_groups,
       list_articles, get_article, create_news_group, create_article,
       delete_news_group, delete_article, ReadWorks, ReadFails, LoopFails, WriteWorks,
       WriteFails, Worked, Failed, Goto, Return

(* A process that is not in a call changes no row. *)
LEMMA RowsNeedACall ==
  ASSUME NEW q \in Procs, Step(q), pc[q] \notin Calling
  PROVE  UNCHANGED dbVars
BY DEF Step, Start, file_exist, Open, connect, initializeDB, CreateTable, Stop, Die, Call,
       Calling, fileVars, dbVars, news_group_exists, article_exists, At, list_news_groups,
       list_articles, get_article, create_news_group, create_article,
       delete_news_group, delete_article

(* No statement of a process that is not disturbed fails. *)
LEMMA Undisturbed ==
  ASSUME NEW p \in Procs, ~Disturbed(p), NEW t \in Tables
  PROVE  /\ ~ReadBusy(p) /\ ~WriteBusy(p) /\ ~WriteBlocked(p)
         /\ Usable(p, t) /\ ~Stale(p, t) /\ ~PrepareFails(p, t)
         /\ ~ReadFails(p, t) /\ ~WriteFails(p, t) /\ ~LoopFails(p, t)
<1>1. ~ReadBusy(p) /\ ~WriteBusy(p) /\ ~WriteBlocked(p)
  BY DEF Disturbed, ReadBusy, WriteBusy, WriteBlocked
<1>2. t \in tables /\ ~Stale(p, t)
  BY DEF Disturbed, Stale
<1>3. QED
  BY <1>1, <1>2 DEF Usable, PrepareFails, ReadFails, WriteFails, LoopFails

-----------------------------------------------------------------------------
(* The inductive invariant of the history.                                 *)

(* What the checks of the call of p have found so far. *)
ChecksHold(p) ==
  /\ pc[p] = "article_exists" => HasGroup(Group(p))
  /\ pc[p] = "statement, no group" => ~HasGroup(Group(p))
  /\ pc[p] = "statement" =>
       /\ Op(p) \in {"delete_news_group", "list_articles", "delete_article", "get_article"} =>
            HasGroup(Group(p))
       /\ Op(p) \in {"delete_article", "get_article"} => HasArticle(Group(p), Third(p))

History(p) ==
  call[p] # <<>> =>
    /\ View(p) \in seen[p]
    /\ pc[p] = "statement, no group" => \E view \in seen[p] : view.groups = {}
    /\ calm[p] => ~Disturbed(p) /\ ChecksHold(p)

(* The tables come in the order of initializeDB, and a connection knows of *)
(* table articles only once it is there.                                   *)
SchemaRead ==
  /\ "articles" \in tables => "newsgroups" \in tables
  /\ \A p \in Procs : pc[p] = "create articles" => "newsgroups" \in tables
  /\ \A p \in Procs : conn[p].schema = "current" => "articles" \in tables

HInv ==
  /\ Inv
  /\ SchemaRead
  /\ DOMAIN seen = Procs
  /\ calm \in [Procs -> BOOLEAN]
  /\ \A p \in Procs : History(p)

(* The history is empty when no call has begun. *)
LEMMA HistoryInit == HInit => HInv
<1> SUFFICES ASSUME HInit PROVE HInv
  OBVIOUS
<1>1. Inv
  BY InvInit DEF HInit
<1>2. SchemaRead
  BY DEF HInit, Init, SchemaRead, NoConnection
<1>3. \A p \in Procs : History(p)
  BY DEF HInit, Init, History
<1>4. QED
  BY <1>1, <1>2, <1>3 DEF HInit, HInv

(* Tables are only ever created, in their order. *)
LEMMA SchemaReadStep ==
  ASSUME TypeOK, SchemaRead, NEW q \in Procs, Step(q)
  PROVE  SchemaRead'
<1>0. /\ DOMAIN conn = Procs /\ DOMAIN pc = Procs
      /\ conn[q] \in Connections /\ DOMAIN conn[q] = {"fk", "shared", "schema"}
  BY DEF TypeOK, Connections
<1>1. \A p \in Procs \ {q} : pc'[p] = pc[p] /\ conn'[p] = conn[p]
  BY OthersStay
<1>2. SUFFICES /\ tables \subseteq tables'
               /\ "articles" \in tables' => "newsgroups" \in tables'
               /\ pc'[q] = "create articles" => "newsgroups" \in tables'
               /\ conn'[q].schema = "current" => "articles" \in tables'
  BY <1>1 DEF SchemaRead
<1>3. CASE Die(q)
  BY <1>0, <1>3 DEF Die, fileVars, NoConnection, SchemaRead
<1>4. CASE Start(q) \/ file_exist(q)
  BY <1>0, <1>4 DEF Start, file_exist, Goto, fileVars, SchemaRead
<1>5. CASE Open(q) /\ ~Die(q)
  BY <1>0, <1>5, ZenonT(40) DEF Open, connect, NoConnection, SchemaRead
<1>6. CASE initializeDB(q) /\ ~Die(q)
  <2>1. conn'[q].schema = Schema'
    BY <1>0, <1>6 DEF initializeDB, CreateTable
  <2>2. Schema' = "current" => "articles" \in tables'
    BY DEF Schema
  <2>3. QED
    BY <1>0, <1>6, <2>1, <2>2 DEF initializeDB, CreateTable, Goto, SchemaRead
<1>7. CASE Step(q) /\ ~Start(q) /\ ~file_exist(q) /\ ~Open(q) /\ ~initializeDB(q) /\ ~Die(q)
  <2>1. UNCHANGED tables
    BY <1>7 DEF Step, Stop, Call, news_group_exists, article_exists, list_news_groups,
         list_articles, get_article, create_news_group, create_article,
         delete_news_group, delete_article, fileVars
  <2>2. pc'[q] # "create articles"
    BY <1>0, <1>7 DEF Step, Stop, Call, FirstStage, news_group_exists, article_exists,
         NoGroup, NoArticle, list_news_groups, list_articles, get_article,
         create_news_group, create_article, delete_news_group, delete_article, Goto, Return
  <2>3. \/ UNCHANGED conn
        \/ \E s \in {conn[q].schema, "unread", Schema} : conn' = [conn EXCEPT ![q].schema = s]
        \/ conn' = [conn EXCEPT ![q].shared = TRUE, ![q].schema = Schema]
    BY <1>7, ZenonT(40) DEF Step, Stop, Call, news_group_exists, article_exists, list_news_groups,
         list_articles, get_article, create_news_group, create_article,
         delete_news_group, delete_article, ReadWorks, ReadFails, LoopFails, WriteWorks,
         WriteFails, Worked, Failed
  <2>4. conn'[q].schema \in {conn[q].schema, "unread", Schema}
    BY <1>0, <2>3
  <2>5. Schema = "current" => "articles" \in tables
    BY DEF Schema
  <2>6. QED
    BY <2>1, <2>2, <2>4, <2>5 DEF SchemaRead
<1>8. QED
  BY <1>3, <1>4, <1>5, <1>6, <1>7

(* What the checks of a call found stays true as long as nobody disturbs   *)
(* the process: the others change no row then.                             *)
LEMMA ChecksStay ==
  ASSUME TypeOK, NEW q \in Procs, Step(q), NEW p \in Procs \ {q}, call[p] # <<>>,
         ~Disturbed(p), ChecksHold(p)
  PROVE  ChecksHold(p)'
<1>1. pc[q] \notin Calling
  BY DEF Disturbed, WriteBusy
<1>2. UNCHANGED dbVars
  BY <1>1, RowsNeedACall
<1>3. pc'[p] = pc[p] /\ call'[p] = call[p]
  BY OthersStay
<1>4. QED
  BY <1>2, <1>3 DEF ChecksHold, dbVars, HasGroup, HasArticle, Op, Group, Third

(* A check that nobody disturbs finds what is there. *)
LEMMA ChecksFind ==
  ASSUME TypeOK, NEW p \in Procs, Step(p), call'[p] # <<>>,
         call[p] # <<>> => ~Disturbed(p) /\ ChecksHold(p)
  PROVE  ChecksHold(p)'
<1>0. DOMAIN pc = Procs /\ DOMAIN call = Procs
  BY DEF TypeOK
<1>1. CASE Start(p) \/ file_exist(p) \/ Open(p) \/ initializeDB(p) \/ Stop(p)
  BY <1>0, <1>1 DEF Start, file_exist, Open, initializeDB, CreateTable, Stop, Die, Goto,
                    ChecksHold
<1>2. ASSUME NEW c \in Calls, Call(p, c)
      PROVE  ChecksHold(p)'
  BY <1>0, <1>2 DEF Call, FirstStage, ChecksHold, Op
<1>3. CASE news_group_exists(p)
  <2>1. ~ReadFails(p, "newsgroups")
    BY <1>3, Undisturbed DEF news_group_exists, TypeOK, Calling, Tables
  <2>2. \/ ~HasGroup(Group(p)) /\ Goto(p, "statement, no group")
        \/ /\ HasGroup(Group(p))
           /\ Goto(p, IF Op(p) \in {"delete_article", "get_article"}
                        THEN "article_exists" ELSE "statement")
    BY <1>0, <1>3, <2>1 DEF news_group_exists, NoGroup, Return
  <2>3. UNCHANGED dbVars
    BY <1>3 DEF news_group_exists, fileVars, dbVars
  <2>4. QED
    BY <1>0, <2>2, <2>3 DEF Goto, ChecksHold, dbVars, HasGroup, HasArticle, Op, Group, Third
<1>4. CASE article_exists(p)
  <2>1. ~ReadFails(p, "articles") /\ HasGroup(Group(p))
    BY <1>4, Undisturbed DEF article_exists, TypeOK, Calling, Tables, ChecksHold
  <2>2. HasArticle(Group(p), Third(p)) /\ Goto(p, "statement")
    BY <1>0, <1>4, <2>1 DEF article_exists, FindArticle, NoArticle, Return
  <2>3. UNCHANGED dbVars
    BY <1>4 DEF article_exists, fileVars, dbVars
  <2>4. QED
    BY <1>0, <2>1, <2>2, <2>3 DEF Goto, ChecksHold, dbVars, HasGroup, HasArticle, Op, Group,
                                  Third
<1>5. CASE list_news_groups(p) \/ list_articles(p) \/ get_article(p) \/ create_news_group(p)
           \/ create_article(p) \/ delete_news_group(p) \/ delete_article(p)
  BY <1>0, <1>5 DEF list_news_groups, list_articles, get_article, create_news_group,
       create_article, delete_news_group, delete_article, Return, Die
<1>6. QED
  BY <1>1, <1>2, <1>3, <1>4, <1>5 DEF Step

(* Only list_articles goes on after it has found no group, and the group   *)
(* was not there when it looked.                                           *)
LEMMA NoGroupSeen ==
  ASSUME TypeOK, NEW q \in Procs, Step(q), RecordCall, NEW p \in Procs, History(p),
         call'[p] # <<>>, pc'[p] = "statement, no group"
  PROVE  \E view \in seen'[p] : view.groups = {}
<1>0. DOMAIN pc = Procs /\ DOMAIN call = Procs
  BY DEF TypeOK
<1>1. seen[p] \subseteq seen'[p]
  BY DEF RecordCall
<1>2. CASE call[p] # <<>> /\ pc[p] = "statement, no group"
  BY <1>1, <1>2 DEF History
<1>3. CASE p # q
  <2>1. pc'[p] = pc[p] /\ call'[p] = call[p]
    BY <1>3, OthersStay
  <2>2. QED
    BY <1>2, <2>1
<1>4. CASE p = q /\ news_group_exists(p)
  <2>1. ~HasGroup(Group(p)) /\ Op(p) = "list_articles" /\ call[p] # <<>>
    BY <1>0, <1>4 DEF news_group_exists, NoGroup, Goto, Return, TypeOK, Calling
  <2>2. View(p).groups = {}
    BY <2>1 DEF View, GroupsOf, HasGroup, Group, Op
  <2>3. View(p) \in seen[p]
    BY <2>1 DEF History
  <2>4. QED
    BY <1>1, <2>2, <2>3
<1>5. CASE p = q /\ ~news_group_exists(p) /\ pc[p] # "statement, no group"
  BY <1>0, <1>5 DEF Step, Start, file_exist, Open, initializeDB, CreateTable, Stop, Die, Call,
       FirstStage, article_exists, NoArticle, list_news_groups, list_articles, get_article,
       create_news_group, create_article, delete_news_group, delete_article, Goto, Return
<1>6. QED
  BY <1>2, <1>3, <1>4, <1>5 DEF TypeOK, Calling

(* Every step of every process preserves the invariant of the history. *)
LEMMA HistoryStep == HInv /\ [HNext]_allVars => HInv'
<1> SUFFICES ASSUME HInv, [HNext]_allVars PROVE HInv'
  OBVIOUS
<1>1. CASE UNCHANGED allVars
  <2>1. Inv'
    BY <1>1, InvStep DEF allVars, HInv
  <2>2. SchemaRead'
    BY <1>1 DEF allVars, vars, HInv, SchemaRead
  <2>3. \A p \in Procs : History(p)'
    <3> SUFFICES ASSUME NEW p \in Procs PROVE History(p)'
      OBVIOUS
    <3>1. ChecksHold(p)' = ChecksHold(p)
      BY <1>1 DEF allVars, vars, ChecksHold, HasGroup, HasArticle, Op, Group, Third
    <3>2. Disturbed(p)' = Disturbed(p)
      BY <1>1 DEF allVars, vars, Disturbed, WriteBusy, Writing, Op
    <3>3. View(p)' = View(p)
      BY <1>1 DEF allVars, vars, View, GroupsOf, ArticlesOf
    <3>4. QED
      BY <1>1, <3>1, <3>2, <3>3 DEF allVars, vars, HInv, History
  <2>4. QED
    BY <1>1, <2>1, <2>2, <2>3 DEF allVars, HInv
<1>2. ASSUME NEW q \in Procs, Step(q), RecordCall
      PROVE  HInv'
  <2>1. Inv' /\ SchemaRead'
    BY <1>2, InvStep, SchemaReadStep DEF HInv, Inv, Next
  <2>2. DOMAIN seen' = Procs /\ calm' \in [Procs -> BOOLEAN]
    BY <1>2 DEF RecordCall
  <2>3. ASSUME NEW p \in Procs, call'[p] # <<>>
        PROVE  History(p)'
    <3>1. View(p)' \in seen'[p]
      BY <1>2, <2>3 DEF RecordCall
    <3>2. pc'[p] = "statement, no group" => \E view \in seen'[p] : view.groups = {}
      BY <1>2, <2>3, NoGroupSeen DEF HInv, Inv
    <3>3. ASSUME calm'[p]
          PROVE  ~Disturbed(p)' /\ ChecksHold(p)'
      <4>1. calm[p] /\ ~Disturbed(p)'
        BY <1>2, <2>3, <3>3 DEF RecordCall
      <4>2. call[p] # <<>> => ~Disturbed(p) /\ ChecksHold(p)
        BY <4>1 DEF HInv, History
      <4>3. CASE p = q
        BY <1>2, <2>3, <4>1, <4>2, <4>3, ChecksFind DEF HInv, Inv
      <4>4. CASE p # q
        <5>1. call[p] # <<>>
          BY <1>2, <2>3, <4>4, OthersStay DEF HInv, Inv
        <5>2. QED
          BY <1>2, <4>1, <4>2, <4>4, <5>1, ChecksStay DEF HInv, Inv
      <4>5. QED
        BY <4>3, <4>4
    <3>4. QED
      BY <3>1, <3>2, <3>3 DEF History
  <2>4. \A p \in Procs : History(p)'
    BY <2>3 DEF History
  <2>5. QED
    BY <2>1, <2>2, <2>4 DEF HInv
<1>3. QED
  BY <1>1, <1>2 DEF HNext, Next

(* The invariant of the history holds throughout. *)
LEMMA HistoryInvariance == HSpec => []HInv
BY HistoryInit, HistoryStep, PTL DEF HSpec

-----------------------------------------------------------------------------
(* What a process answers. *)

(* The one process that answers answers its call, from a stage of it.      *)
LEMMA AnswersItsCall ==
  ASSUME TypeOK, NEW q \in Procs, Step(q), NEW p \in Procs, Answered(p)
  PROVE  /\ p = q
         /\ call[p] \in Calls /\ call[p] # <<>>
         /\ \A result : Return(p, result) => reply'[p] = <<call[p], result>>
<1>1. p = q
  BY OthersAreSilent
<1>2. call[p] \in Calls
  BY <1>1, CallIsRunning
<1>3. \A result : Return(p, result) => reply'[p] = <<call[p], result>>
  BY DEF TypeOK, Return
<1>4. QED
  BY <1>1, <1>2, <1>3, Arguments

-----------------------------------------------------------------------------
(* EndsOnlyIfDisturbed.                                                    *)

(* A process that nobody disturbs ends in a call only where it is killed.  *)
THEOREM OnlyKillsEndCalmCalls == HSpec => EndsOnlyIfDisturbed
<1> DEFINE Ends(p) ==
      pc[p] \in Calling \ StopPoints /\ pc'[p] = "down" => ~calm[p]
<1>1. HInv /\ [HNext]_allVars => [\A p \in Procs : Ends(p)]_allVars
  <2> SUFFICES ASSUME HInv, NEW q \in Procs, Step(q), NEW p \in Procs,
                      pc[p] \in Calling \ StopPoints, pc'[p] = "down", calm[p]
               PROVE  FALSE
    BY DEF HNext, Next
  <2>1. p = q
    BY OthersStay DEF HInv, Inv, Calling
  <2>2. ~Disturbed(p) /\ ChecksHold(p)
    BY DEF HInv, History, Inv, TypeOK
  <2>3. ~ReadBusy(p)
    BY <2>2, Undisturbed, StageNames
  <2>4. get_article(p) => HasArticle(Group(p), Third(p))
    BY <2>2 DEF ChecksHold, get_article, At
  <2>5. DOMAIN pc = Procs
    BY DEF HInv, Inv, TypeOK
  <2>6. QED
    BY <2>1, <2>3, <2>4, <2>5 DEF Step, Calling, Start, file_exist, Open, initializeDB, Stop,
         Call, FirstStage, news_group_exists, article_exists, NoGroup, NoArticle,
         list_news_groups, list_articles, get_article, create_news_group, create_article,
         delete_news_group, delete_article, Goto, Return
<1>2. QED
  BY <1>1, HistoryInvariance, PTL DEF HSpec, EndsOnlyIfDisturbed

-----------------------------------------------------------------------------
(* DenialsWereTrue.                                                        *)

Denials(p) ==
  /\ DeniesGroup(Op(p), reply'[p][2]) => \E view \in seen[p] : view.groups = {}
  /\ DeniesArticle(Op(p), reply'[p][2]) => \E view \in seen[p] : view.articles = {}

(* Each answer that denies follows a check that looked and found nothing.  *)
LEMMA DenialIsTrue ==
  ASSUME TypeOK, NEW p \in Procs, Step(p), Answered(p), History(p)
  PROVE  Denials(p)
<1>0. /\ call[p] # <<>>
      /\ \A result : Return(p, result) => reply'[p] = <<call[p], result>>
  BY AnswersItsCall
<1>view. View(p) \in seen[p]
  BY <1>0 DEF History
<1>reply. DOMAIN reply = Procs
  BY DEF TypeOK
<1>1. CASE news_group_exists(p)
  <2>1. ~HasGroup(Group(p)) /\ Op(p) # "list_news_groups" /\ NoGroup(p)
    BY <1>1 DEF news_group_exists, NoGroup, Goto, Answered
  <2>2. View(p).groups = {}
    BY <2>1 DEF View, GroupsOf, HasGroup, Group, Op
  <2>3. ~DeniesArticle(Op(p), reply'[p][2])
    <3>1. CASE Op(p) = "delete_article"
      <4>1. Return(p, "NO_NG")
        BY <2>1, <3>1 DEF NoGroup
      <4>2. QED
        BY <1>reply, <3>1, <4>1 DEF DeniesArticle, Return
    <3>2. CASE Op(p) = "get_article"
      <4>1. Return(p, <<"NO_NG", EmptyArticle>>)
        BY <2>1, <3>2 DEF NoGroup
      <4>2. QED
        BY <1>reply, <3>2, <4>1 DEF DeniesArticle, Return
    <3>3. QED
      BY <3>1, <3>2 DEF DeniesArticle
  <2>4. QED
    BY <1>view, <2>2, <2>3 DEF Denials
<1>2. CASE article_exists(p)
  <2>1. ~HasArticle(Group(p), Third(p)) /\ NoArticle(p)
    BY <1>2 DEF article_exists, NoArticle, FindArticle, Goto, Answered
  <2>2. View(p).articles = {}
    BY <2>1 DEF View, ArticlesOf, HasArticle, NoArticle, Group, Third, Op
  <2>3. ~DeniesGroup(Op(p), reply'[p][2])
    BY <1>reply, <2>1 DEF NoArticle, DeniesGroup, Return
  <2>4. QED
    BY <1>view, <2>2, <2>3 DEF Denials
<1>3. CASE list_articles(p)
  <2>1. Op(p) = "list_articles" /\ (pc[p] = "statement" => reply'[p][2][2] # FALSE)
    <3>1. \E headers : Return(p, <<headers, pc[p] = "statement">>)
      BY <1>3 DEF list_articles
    <3>2. reply'[p][2][2] = (pc[p] = "statement")
      BY <1>reply, <3>1 DEF Return
    <3>3. QED
      BY <1>3, <3>2 DEF list_articles
  <2>2. pc[p] # "statement" => \E view \in seen[p] : view.groups = {}
    BY <1>0, <1>3 DEF list_articles, History
  <2>3. QED
    BY <2>1, <2>2 DEF Denials, DeniesGroup, DeniesArticle
<1>4. CASE list_news_groups(p) \/ get_article(p) \/ create_news_group(p) \/ create_article(p)
           \/ delete_news_group(p) \/ delete_article(p)
  <2>1. ~DeniesGroup(Op(p), reply'[p][2]) /\ ~DeniesArticle(Op(p), reply'[p][2])
    <3>1. CASE list_news_groups(p) \/ create_news_group(p) \/ create_article(p)
      BY <3>1 DEF list_news_groups, create_news_group, create_article, At, DeniesGroup,
                  DeniesArticle
    <3>2. CASE delete_news_group(p)
      <4>1. Return(p, TRUE)
        BY <3>2 DEF delete_news_group
      <4>2. reply'[p][2] = TRUE
        BY <1>reply, <4>1 DEF Return
      <4>3. QED
        BY <3>2, <4>2 DEF delete_news_group, At, DeniesGroup, DeniesArticle
    <3>5. CASE delete_article(p)
      BY <1>reply, <3>5 DEF delete_article, At, Return, DeniesGroup, DeniesArticle
    <3>3. CASE get_article(p)
      BY <1>reply, <3>3 DEF get_article, At, Die, Return, Answered, DeniesGroup, DeniesArticle
    <3>4. QED
      BY <1>4, <3>1, <3>2, <3>3, <3>5
  <2>2. QED
    BY <2>1 DEF Denials
<1>5. CASE Start(p) \/ file_exist(p) \/ Open(p) \/ initializeDB(p) \/ Stop(p)
           \/ \E c \in Calls : Call(p, c)
  <2>1. DOMAIN reply = Procs
    BY DEF TypeOK
  <2>2. QED
    BY <1>5, <2>1 DEF Start, file_exist, Open, connect, initializeDB, CreateTable, Stop, Die,
                      Call, Goto, Answered
<1>6. QED
  BY <1>1, <1>2, <1>3, <1>4, <1>5 DEF Step

(* What a process is told is missing was missing during its call, whatever *)
(* others do to the file and to its locks in the meantime.                 *)
THEOREM DenialsAreTrue == HSpec => DenialsWereTrue
<1>1. HInv /\ [HNext]_allVars => [\A p \in Procs : Answered(p) => Denials(p)]_allVars
  <2> SUFFICES ASSUME HInv, NEW q \in Procs, Step(q), NEW p \in Procs, Answered(p)
               PROVE  Denials(p)
    BY DEF HNext, Next
  <2>1. p = q
    BY AnswersItsCall DEF HInv, Inv
  <2>2. QED
    BY <2>1, DenialIsTrue DEF HInv, Inv
<1>2. QED
  BY <1>1, HistoryInvariance, PTL DEF HSpec, DenialsWereTrue, Denials

-----------------------------------------------------------------------------
(* ShownWasThere.                                                          *)

Shown(p, result) ==
  \E view \in seen[p] :
    /\ Op(p) = "list_news_groups" =>
         result = {<<row.grpID, row.name>> : row \in view.groups}
    /\ Op(p) = "list_articles" =>
         result[1] = {<<row.artID, row.content.title>> : row \in view.articles}
    /\ Op(p) = "get_article" /\ result[1] = "OK" =>
         result[2] \in {row.content : row \in view.articles}

(* The loops of a process that has read the schema end with every row. *)
LEMMA LoopsEnd ==
  ASSUME SchemaRead, NEW p \in Procs, conn[p].schema = "current", NEW t \in Tables
  PROVE  ~PrepareFails(p, t) /\ ~LoopFails(p, t)
BY DEF SchemaRead, PrepareFails, Stale, Knows, LoopFails, Tables

(* Each answer that shows rows comes from one statement.                   *)
LEMMA ShownIsThere ==
  ASSUME TypeOK, SchemaRead, NEW p \in Procs, Step(p), Answered(p), History(p),
         conn[p].schema = "current"
  PROVE  Shown(p, reply'[p][2])
<1>1. call[p] # <<>>
  BY AnswersItsCall
<1>view. View(p) \in seen[p]
  BY <1>1 DEF History
<1>reply. DOMAIN reply = Procs
  BY DEF TypeOK
<1>2. CASE list_news_groups(p)
  <2>1. Return(p, {<<row.grpID, row.name>> : row \in newsgroups})
    BY <1>2, LoopsEnd, StageNames DEF list_news_groups
  <2>2. reply'[p][2] = {<<row.grpID, row.name>> : row \in newsgroups}
    BY <1>reply, <2>1 DEF Return
  <2>3. Op(p) = "list_news_groups" /\ View(p).groups = newsgroups
    BY <1>2 DEF list_news_groups, At, View, GroupsOf, Op
  <2>4. QED
    BY <1>view, <2>2, <2>3 DEF Shown
<1>3. CASE list_articles(p)
  <2> DEFINE rows == {row \in articles : row.grpID = Group(p)}
             headers == {<<row.artID, row.content.title>> : row \in rows}
  <2>1. \E exists : Return(p, <<headers, exists>>)
    BY <1>3, LoopsEnd, StageNames DEF list_articles
  <2>2. reply'[p][2][1] = headers
    <3> HIDE DEF headers
    <3>1. QED
      BY <1>reply, <2>1 DEF Return
  <2>3. Op(p) = "list_articles" /\ View(p).articles = rows
    BY <1>3 DEF list_articles, View, ArticlesOf, Op, Group
  <2>4. QED
    BY <1>view, <2>2, <2>3 DEF Shown
<1>4. CASE get_article(p)
  <2>1. Op(p) = "get_article"
    BY <1>4 DEF get_article, At
  <2>2. View(p).articles = {row \in articles : row.grpID = Group(p) /\ row.artID = Third(p)}
    BY <2>1 DEF View, ArticlesOf, Op, Group, Third
  <2>3. ~Die(p) /\ ~PrepareFails(p, "articles")
    BY <1>reply, LoopsEnd, StageNames DEF Die, Answered
  <2>4. PICK row \in articles :
          row.grpID = Group(p) /\ row.artID = Third(p) /\ Return(p, <<"OK", row.content>>)
    BY <1>4, <2>3 DEF get_article
  <2>5. reply'[p][2][2] = row.content
    BY <1>reply, <2>4 DEF Return
  <2>6. QED
    BY <1>view, <2>1, <2>2, <2>4, <2>5 DEF Shown
<1>5. CASE Op(p) \notin {"list_news_groups", "list_articles", "get_article"}
  BY <1>view, <1>5 DEF Shown
<1>6. CASE news_group_exists(p) \/ article_exists(p)
  <2>1. Op(p) = "get_article" => reply'[p][2][1] # "OK"
    <3>1. CASE Op(p) = "get_article"
      <4>1. Return(p, <<"NO_NG", EmptyArticle>>) \/ Return(p, <<"NO_ARTICLE", EmptyArticle>>)
        BY <1>6, <3>1 DEF news_group_exists, article_exists, NoGroup, NoArticle, Goto, Answered
      <4>2. QED
        BY <1>reply, <4>1 DEF Return
    <3>2. QED
      BY <3>1
  <2>2. Op(p) # "list_news_groups" /\ Op(p) # "list_articles"
    BY <1>6 DEF news_group_exists, article_exists, NoGroup, NoArticle, Goto, Answered
  <2>3. QED
    BY <1>view, <2>1, <2>2 DEF Shown
<1>7. CASE Start(p) \/ file_exist(p) \/ Open(p) \/ initializeDB(p) \/ Stop(p)
           \/ \E c \in Calls : Call(p, c)
  BY <1>7, <1>reply DEF Start, file_exist, Open, connect, initializeDB, CreateTable, Stop, Die,
                        Call, Goto, Answered
<1>8. QED
  BY <1>2, <1>3, <1>4, <1>5, <1>6, <1>7 DEF Step, At, create_news_group, create_article,
     delete_news_group, delete_article

(* The answers of a process that has read the schema show what was there,  *)
(* the lists all of it, whichever locks the statements meet.               *)
THEOREM ShownIsTrue == HSpec => ShownWasThere
<1>1. HInv /\ [HNext]_allVars =>
        [\A p \in Procs :
           Answered(p) /\ conn[p].schema = "current" => Shown(p, reply'[p][2])]_allVars
  <2> SUFFICES ASSUME HInv, NEW q \in Procs, Step(q), NEW p \in Procs, Answered(p),
                      conn[p].schema = "current"
               PROVE  Shown(p, reply'[p][2])
    BY DEF HNext, Next
  <2>1. p = q
    BY AnswersItsCall DEF HInv, Inv
  <2>2. QED
    BY <2>1, ShownIsThere DEF HInv, Inv
<1>2. QED
  BY <1>1, HistoryInvariance, PTL DEF HSpec, ShownWasThere, Shown

-----------------------------------------------------------------------------
(* CalmAnswersAsService.                                                   *)

(* What a calm call of p may rely on when it answers. *)
Calm(p) ==
  /\ Inv
  /\ Answered(p) /\ answer' = reply'[p]
  /\ call[p] \in Calls
  /\ ~Disturbed(p) /\ ChecksHold(p)

(* The answer of a calm call is the result it returns. *)
LEMMA CalmAnswer ==
  ASSUME NEW p \in Procs, Calm(p), NEW result, Return(p, result)
  PROVE  answer' = <<call[p], result>>
BY DEF Calm, Inv, TypeOK, Return

(* The call of p, by its operation. *)
LEMMA CallShape ==
  ASSUME NEW p \in Procs, Calm(p)
  PROVE  /\ Op(p) = "list_news_groups" => call[p] = <<"list_news_groups">>
         /\ \A op \in {"create_news_group", "delete_news_group", "list_articles"} :
              Op(p) = op => call[p] = <<op, Group(p)>>
         /\ \A op \in {"create_article", "delete_article", "get_article"} :
              Op(p) = op => call[p] = <<op, Group(p), Third(p)>>
BY Shapes DEF Calm, Op, Group, Third

(* What a check of a calm call does not find is not there. *)
LEMMA CalmChecks ==
  ASSUME NEW p \in Procs, Calm(p), news_group_exists(p) \/ article_exists(p)
  PROVE  Service!ServiceNext
<1>0. UNCHANGED Service!storeVars
  BY DEF news_group_exists, article_exists, fileVars, Service!storeVars
<1>1. Group(p) = call[p][2] /\ Third(p) = call[p][3] /\ Op(p) = call[p][1]
  BY DEF Group, Third, Op
<1>2. CASE news_group_exists(p)
  <2>1. ~Service!GroupExists(Group(p)) /\ NoGroup(p)
    BY <1>2, Undisturbed, StageNames
       DEF news_group_exists, Calm, Goto, Answered, HasGroup, Service!GroupExists
  <2>2. Group(p) \in Ids
    BY <1>1, <2>1, Arguments DEF NoGroup, Calm
  <2>3. CASE Op(p) = "delete_news_group"
    <3>1. answer' = <<<<"delete_news_group", Group(p)>>, FALSE>>
      <4>1. Return(p, FALSE)
        BY <2>1, <2>3 DEF NoGroup
      <4>2. QED
        BY <1>1, <2>3, <4>1, CalmAnswer, CallShape
    <3>2. Service!DeleteNewsGroup(Group(p))
      BY <1>0, <2>1, <3>1 DEF Service!DeleteNewsGroup
    <3>3. QED
      BY <2>2, <3>2 DEF Service!ServiceNext
  <2>4. CASE Op(p) \in {"delete_article", "get_article"}
    <3>1. Third(p) \in Ids
      BY <1>1, <2>4, Arguments DEF Calm
    <3>2. Service!Missing(Group(p)) = "NO_NG"
      BY <2>1 DEF Service!Missing
    <3>3. ~Service!ArticleExists(Group(p), Third(p))
      BY <2>1 DEF Calm, Inv, ReferentialIntegrity, HasGroup, Service!GroupExists,
                  Service!ArticleExists
    <3>4. CASE Op(p) = "delete_article"
      <4>1. Return(p, "NO_NG")
        BY <2>1, <3>4 DEF NoGroup
      <4>2. answer' = <<<<"delete_article", Group(p), Third(p)>>, "NO_NG">>
        BY <1>1, <3>4, <4>1, CalmAnswer, CallShape
      <4>3. Service!DeleteArticle(Group(p), Third(p))
        BY <1>0, <3>2, <3>3, <4>2 DEF Service!DeleteArticle
      <4>4. QED
        BY <2>2, <3>1, <4>3 DEF Service!ServiceNext
    <3>5. CASE Op(p) = "get_article"
      <4>1. Return(p, <<"NO_NG", EmptyArticle>>)
        BY <2>1, <3>5 DEF NoGroup
      <4>2. answer' = <<<<"get_article", Group(p), Third(p)>>, <<"NO_NG", EmptyArticle>>>>
        BY <1>1, <3>5, <4>1, CalmAnswer, CallShape
      <4>3. Service!GetArticle(Group(p), Third(p))
        BY <1>0, <3>2, <3>3, <4>2 DEF Service!GetArticle
      <4>4. QED
        BY <2>2, <3>1, <4>3 DEF Service!ServiceNext
    <3>6. QED
      BY <2>4, <3>4, <3>5
  <2>5. QED
    BY <2>1, <2>3, <2>4 DEF NoGroup, Goto, Calm, Answered
<1>3. CASE article_exists(p)
  <2>1. ~HasArticle(Group(p), Third(p)) /\ NoArticle(p)
    BY <1>3, Undisturbed, StageNames
       DEF article_exists, Calm, Goto, Answered, FindArticle
  <2>2. Service!Missing(Group(p)) = "NO_ARTICLE" /\ ~Service!ArticleExists(Group(p), Third(p))
    BY <1>3, <2>1 DEF article_exists, Calm, ChecksHold, HasGroup, HasArticle,
                      Service!Missing, Service!GroupExists, Service!ArticleExists
  <2>3. Group(p) \in Ids /\ Third(p) \in Ids
    BY <1>1, <2>1, Arguments DEF NoArticle, Calm
  <2>4. CASE Op(p) = "delete_article"
    <3>1. Return(p, "NO_ARTICLE")
      BY <2>1, <2>4 DEF NoArticle
    <3>2. answer' = <<<<"delete_article", Group(p), Third(p)>>, "NO_ARTICLE">>
      BY <1>1, <2>4, <3>1, CalmAnswer, CallShape
    <3>3. Service!DeleteArticle(Group(p), Third(p))
      BY <1>0, <2>2, <3>2 DEF Service!DeleteArticle
    <3>4. QED
      BY <2>3, <3>3 DEF Service!ServiceNext
  <2>5. CASE Op(p) = "get_article"
    <3>1. Return(p, <<"NO_ARTICLE", EmptyArticle>>)
      BY <2>1, <2>5 DEF NoArticle
    <3>2. answer' = <<<<"get_article", Group(p), Third(p)>>, <<"NO_ARTICLE", EmptyArticle>>>>
      BY <1>1, <2>5, <3>1, CalmAnswer, CallShape
    <3>3. Service!GetArticle(Group(p), Third(p))
      BY <1>0, <2>2, <3>2 DEF Service!GetArticle
    <3>4. QED
      BY <2>3, <3>3 DEF Service!ServiceNext
  <2>6. QED
    BY <2>1, <2>4, <2>5 DEF NoArticle
<1>4. QED
  BY <1>2, <1>3

(* The operations that only read. *)
LEMMA CalmReads ==
  ASSUME NEW p \in Procs, Calm(p),
         list_news_groups(p) \/ list_articles(p) \/ get_article(p)
  PROVE  Service!ServiceNext
<1>0. /\ Group(p) = call[p][2] /\ Third(p) = call[p][3] /\ Op(p) = call[p][1]
      /\ DOMAIN reply = Procs
  BY DEF Group, Third, Op, Calm, Inv, TypeOK
<1>1. CASE list_news_groups(p)
  <2> DEFINE shown == {<<row.grpID, row.name>> : row \in newsgroups}
  <2>1. Return(p, shown)
    BY <1>1, Undisturbed, StageNames DEF list_news_groups, Calm
  <2>2. answer' = <<<<"list_news_groups">>, shown>>
    <3> HIDE DEF shown
    <3>1. QED
      BY <1>1, <2>1, CalmAnswer, CallShape DEF list_news_groups, At
  <2>3. Service!ListNewsGroups
    BY <1>1, <2>2 DEF list_news_groups, fileVars, Service!ListNewsGroups, Service!storeVars
  <2>4. QED
    BY <2>3 DEF Service!ServiceNext
<1>2. CASE list_articles(p)
  <2> DEFINE rows == {row \in articles : row.grpID = Group(p)}
             headers == {<<row.artID, row.content.title>> : row \in rows}
             exists == pc[p] = "statement"
  <2>1. Return(p, <<headers, exists>>)
    BY <1>2, Undisturbed, StageNames DEF list_articles, Calm
  <2>2. Op(p) = "list_articles" /\ Group(p) \in Ids
    BY <1>0, <1>2, Arguments DEF list_articles, Calm
  <2>3. answer' = <<<<"list_articles", Group(p)>>, <<headers, exists>>>>
    <3> HIDE DEF headers, exists
    <3>1. QED
      BY <2>1, <2>2, CalmAnswer, CallShape
  <2>4. exists = Service!GroupExists(Group(p))
    BY <1>2, <2>2 DEF list_articles, Calm, ChecksHold, HasGroup, Service!GroupExists
  <2>5. headers = Service!Headers(Service!ArticlesOf(Group(p)))
    BY DEF Service!Headers, Service!ArticlesOf
  <2>6. UNCHANGED Service!storeVars
    BY <1>2 DEF list_articles, fileVars, Service!storeVars
  <2>7. Service!ListArticles(Group(p))
    <3> HIDE DEF headers, exists
    <3>1. QED
      BY <2>3, <2>4, <2>5, <2>6 DEF Service!ListArticles
  <2>8. QED
    BY <2>2, <2>7 DEF Service!ServiceNext
<1>3. CASE get_article(p)
  <2>1. Op(p) = "get_article" /\ Group(p) \in Ids /\ Third(p) \in Ids
    BY <1>0, <1>3, Arguments DEF get_article, At, Calm
  <2>2. ~Die(p) /\ ~PrepareFails(p, "articles")
    BY <1>0, Undisturbed, StageNames DEF Die, Calm, Answered
  <2>3. PICK row \in articles :
          row.grpID = Group(p) /\ row.artID = Third(p) /\ Return(p, <<"OK", row.content>>)
    BY <1>3, <2>2 DEF get_article
  <2>4. answer' = <<<<"get_article", Group(p), Third(p)>>, <<"OK", row.content>>>>
    BY <2>1, <2>3, CalmAnswer, CallShape
  <2>5. UNCHANGED Service!storeVars
    BY <1>3, <2>2 DEF get_article, fileVars, Service!storeVars
  <2>6. row \in Service!ArticlesOf(Group(p))
    BY <2>3 DEF Service!ArticlesOf
  <2>7. Service!GetArticle(Group(p), Third(p))
    BY <2>3, <2>4, <2>5, <2>6 DEF Service!GetArticle
  <2>8. QED
    BY <2>1, <2>7 DEF Service!ServiceNext
<1>4. QED
  BY <1>1, <1>2, <1>3

(* The operations that delete: their checks have found the row. *)
LEMMA CalmDeletions ==
  ASSUME NEW p \in Procs, Calm(p), delete_news_group(p) \/ delete_article(p)
  PROVE  Service!ServiceNext
<1>0. Group(p) = call[p][2] /\ Third(p) = call[p][3] /\ Op(p) = call[p][1]
  BY DEF Group, Third, Op
<1>1. CASE delete_news_group(p)
  <2>1. Op(p) = "delete_news_group" /\ Group(p) \in Ids /\ HasGroup(Group(p)) /\ conn[p].fk
    BY <1>0, <1>1, Arguments, StageNames
       DEF delete_news_group, At, Calm, ChecksHold, Inv, Enforced
  <2>2. GroupGone(Group(p)) /\ Return(p, TRUE)
    BY <1>1, <2>1, Undisturbed, StageNames DEF delete_news_group, GroupGone, Calm
  <2>3. answer' = <<<<"delete_news_group", Group(p)>>, TRUE>>
    BY <2>1, <2>2, CalmAnswer, CallShape
  <2>4. Service!RemoveGroup(Group(p))
    BY <2>1, <2>2 DEF GroupGone, HasGroup, Service!RemoveGroup, Service!GroupExists,
                      Service!ArticlesOf
  <2>5. QED
    BY <2>1, <2>3, <2>4 DEF Service!DeleteNewsGroup, Service!ServiceNext
<1>2. CASE delete_article(p)
  <2>1. /\ Op(p) = "delete_article" /\ Group(p) \in Ids /\ Third(p) \in Ids
        /\ HasArticle(Group(p), Third(p))
    BY <1>0, <1>2, Arguments DEF delete_article, At, Calm, ChecksHold
  <2>2. ArticleGone(Group(p), Third(p)) /\ Return(p, "OK")
    BY <1>2, <2>1, Undisturbed, StageNames DEF delete_article, ArticleGone, Calm
  <2>3. answer' = <<<<"delete_article", Group(p), Third(p)>>, "OK">>
    BY <2>1, <2>2, CalmAnswer, CallShape
  <2>4. Service!RemoveArticle(Group(p), Third(p))
    BY <2>1, <2>2 DEF ArticleGone, HasArticle, Service!RemoveArticle, Service!ArticleExists
  <2>5. QED
    BY <2>1, <2>3, <2>4 DEF Service!DeleteArticle, Service!ServiceNext
<1>3. QED
  BY <1>1, <1>2

(* The operations that create: refused only for the reasons there are. *)
LEMMA CalmCreations ==
  ASSUME NEW p \in Procs, Calm(p), create_news_group(p) \/ create_article(p)
  PROVE  Service!ServiceNext
<1>0. Group(p) = call[p][2] /\ Third(p) = call[p][3] /\ Op(p) = call[p][1] /\ TypeOK
  BY DEF Group, Third, Op, Calm, Inv
<1>full. \A t \in Tables : ~(sequence[t] < MaxRowid) => 1..sequence[t] = Ids
  <2> SUFFICES ASSUME NEW t \in Tables, ~(sequence[t] < MaxRowid) PROVE sequence[t] = MaxRowid
    BY DEF Ids
  <2>1. QED
    BY <1>0, MaxRowidAssumption DEF TypeOK
<1>1. CASE create_news_group(p)
  <2>1. Op(p) = "create_news_group" /\ Group(p) \in Names
    BY <1>0, <1>1, Arguments DEF create_news_group, At, Calm
  <2>2. ~WriteFails(p, "newsgroups")
    BY Undisturbed, StageNames DEF Calm
  <2>3. CASE NewGroup(Group(p)) /\ Return(p, TRUE)
    <3>1. answer' = <<<<"create_news_group", Group(p)>>, TRUE>>
      BY <2>1, <2>3, CalmAnswer, CallShape
    <3>2. Service!AddGroup(Group(p))
      BY <1>0, <2>1, <2>3, NewGroupIsAdded DEF Store!AddGroup, Store!NameTaken,
         Service!AddGroup, Service!NameTaken
    <3>3. QED
      BY <2>1, <3>1, <3>2 DEF Service!CreateNewsGroup, Service!ServiceNext
  <2>4. CASE UNCHANGED dbVars /\ ~CanInsertNewsgroup(Group(p)) /\ Return(p, FALSE)
    <3>1. answer' = <<<<"create_news_group", Group(p)>>, FALSE>>
      BY <2>1, <2>4, CalmAnswer, CallShape
    <3>2. Service!NameTaken(Group(p)) \/ 1..sequence["newsgroups"] = Ids
      BY <1>full, <2>4, StageNames DEF CanInsertNewsgroup, HasName, Service!NameTaken
    <3>3. UNCHANGED Service!storeVars
      BY <2>4 DEF dbVars, Service!storeVars
    <3>4. QED
      BY <2>1, <3>1, <3>2, <3>3 DEF Service!CreateNewsGroup, Service!ServiceNext
  <2>5. QED
    BY <1>0, <1>1, <2>2, <2>3, <2>4
       DEF create_news_group, CanInsertNewsgroup, NewGroup, dbVars
<1>2. CASE create_article(p)
  <2>1. Op(p) = "create_article" /\ Group(p) \in Ids /\ Third(p) \in Contents
    BY <1>0, <1>2, Arguments DEF create_article, At, Calm
  <2>2. ~WriteFails(p, "articles") /\ conn[p].fk
    BY <1>2, Undisturbed, StageNames DEF create_article, At, Calm, Inv, Enforced
  <2>3. CASE NewArticle(Group(p), Third(p)) /\ Return(p, TRUE)
    <3>1. answer' = <<<<"create_article", Group(p), Third(p)>>, TRUE>>
      BY <2>1, <2>3, CalmAnswer, CallShape
    <3>2. Service!AddArticle(Group(p), Third(p))
      BY <1>0, <2>1, <2>3, NewArticleIsAdded DEF Store!AddArticle, Store!GroupExists,
         Service!AddArticle, Service!GroupExists
    <3>3. QED
      BY <2>1, <3>1, <3>2 DEF Service!CreateArticle, Service!ServiceNext
  <2>4. CASE UNCHANGED dbVars /\ ~CanInsertArticle(p) /\ Return(p, FALSE)
    <3>1. answer' = <<<<"create_article", Group(p), Third(p)>>, FALSE>>
      BY <2>1, <2>4, CalmAnswer, CallShape
    <3>2. ~Service!GroupExists(Group(p)) \/ 1..sequence["articles"] = Ids
      BY <1>full, <2>4, StageNames DEF CanInsertArticle, HasGroup, Service!GroupExists
    <3>3. UNCHANGED Service!storeVars
      BY <2>4 DEF dbVars, Service!storeVars
    <3>4. QED
      BY <2>1, <3>1, <3>2, <3>3 DEF Service!CreateArticle, Service!ServiceNext
  <2>5. QED
    BY <1>2, <2>2, <2>3, <2>4 DEF create_article, CanInsertArticle, NewArticle, dbVars
<1>3. QED
  BY <1>1, <1>2

(* A call that nobody disturbs is one operation of the interface, in the   *)
(* step that answers it, however many processes share the file.            *)
THEOREM CalmCallsServe == HSpec => CalmAnswersAsService
<1>1. HInv /\ [HNext]_allVars =>
        [\A p \in Procs : Answered(p) /\ calm[p] => Service!ServiceNext]_allVars
  <2> SUFFICES ASSUME HInv, NEW q \in Procs, Step(q), RecordCall, NEW p \in Procs,
                      Answered(p), calm[p]
               PROVE  Service!ServiceNext
    BY DEF HNext, Next
  <2>1. p = q /\ call[p] \in Calls /\ call[p] # <<>>
    BY AnswersItsCall DEF HInv, Inv
  <2>2. answer' = reply'[p]
    <3>1. \A r \in Procs : Answered(r) => r = q
      BY AnswersItsCall DEF HInv, Inv
    <3>2. QED
      BY <2>1, <3>1 DEF RecordCall, RecordAnswer
  <2>3. Calm(p)
    BY <2>1, <2>2 DEF HInv, History, Calm
  <2>4. ~(Start(p) \/ file_exist(p) \/ Open(p) \/ initializeDB(p) \/ Stop(p)
          \/ \E c \in Calls : Call(p, c))
    <3>1. DOMAIN reply = Procs
      BY DEF HInv, Inv, TypeOK
    <3>2. QED
      BY <3>1 DEF Start, file_exist, Open, connect, initializeDB, CreateTable, Stop, Die,
                  Call, Goto, Answered
  <2>5. QED
    BY <2>1, <2>3, <2>4, CalmChecks, CalmReads, CalmDeletions, CalmCreations DEF Step
<1>2. QED
  BY <1>1, HistoryInvariance, PTL DEF HSpec, CalmAnswersAsService

-----------------------------------------------------------------------------
(* One server.                                                             *)

(* The rows change only in the step that answers. *)
LEMMA RowsNeedAnAnswer ==
  ASSUME TypeOK, NEW q \in Procs, Step(q), pc[q] \in Calling => reply[q] = <<>>, ~Answered(q)
  PROVE  UNCHANGED dbVars
<1>1. CASE pc[q] \notin Calling
  BY <1>1, RowsNeedACall
<1>2. CASE pc[q] \in Calling
  <2>1. \A result : ~Return(q, result)
    <3> SUFFICES ASSUME NEW result, Return(q, result) PROVE FALSE
      OBVIOUS
    <3>1. reply'[q] = <<call[q], result>>
      BY DEF Return, TypeOK
    <3>2. QED
      BY <1>2, <3>1 DEF Answered
  <2>2. QED
    BY <1>2, <2>1 DEF Step, Start, file_exist, Open, initializeDB, Stop, Call, Calling,
       fileVars, dbVars, news_group_exists, article_exists, list_news_groups, list_articles,
       get_article, create_news_group, create_article, delete_news_group, delete_article, Die
<1>3. QED
  BY <1>1, <1>2

(* An answer names the call it is the answer to. *)
LEMMA AnswerNamesCall ==
  ASSUME TypeOK, NEW q \in Procs, Step(q), Answered(q)
  PROVE  reply'[q][1] = call[q]
<1>1. DOMAIN reply = Procs
  BY DEF TypeOK
<1>2. \A result : Return(q, result) => reply'[q][1] = call[q]
  BY <1>1 DEF Return
<1>3. QED
  BY <1>1, <1>2 DEF Answered, Step, Start, file_exist, Open, connect, initializeDB, CreateTable, Stop,
     Die, Call, news_group_exists, NoGroup, article_exists, NoArticle, list_news_groups,
     list_articles, get_article, create_news_group, create_article, delete_news_group,
     delete_article, Goto

(* Nobody but p opens news.db, and p is not killed while it makes the      *)
(* tables; it may be anywhere else, and started again.                     *)
Alone(p) ==
  /\ Procs = {p}
  /\ StopPoints \cap {"create newsgroups", "create articles"} = {}

(* How far the file is at each stage of the only process. *)
FileAt(stage) ==
  /\ stage \in {"down", "constructor"} => tables = IF file THEN Tables ELSE {}
  /\ stage = "initializeDB" => ~file /\ tables = {}
  /\ stage = "create newsgroups" => file /\ tables = {}
  /\ stage = "create articles" => file /\ tables = {"newsgroups"}
  /\ stage \in {"connect", "ready"} \cup Calling => file /\ tables = Tables

AloneInv(p) ==
  /\ FileAt(pc[p])
  /\ pc[p] \in {"ready"} \cup Calling => conn[p].schema # "old"
  /\ pc[p] \in Calling => reply[p] = <<>>
  /\ calm[p]

LEMMA AloneInit ==
  ASSUME NEW p \in Procs, HInit
  PROVE  AloneInv(p)
BY DEF HInit, Init, AloneInv, FileAt, Calling

(* With the file to itself, no step of the constructor leaves it half made. *)
LEMMA AloneStep ==
  ASSUME NEW p \in Procs, Alone(p), HInv, HInv', AloneInv(p), [HNext]_allVars
  PROVE  AloneInv(p)'
<1>0. /\ DOMAIN pc = Procs /\ DOMAIN reply = Procs /\ DOMAIN conn = Procs /\ DOMAIN calm = Procs
      /\ pc[p] \in Stages /\ conn[p] \in Connections /\ DOMAIN conn[p] = {"fk", "shared", "schema"}
  BY DEF HInv, Inv, TypeOK, Connections
<1>1. CASE UNCHANGED allVars
  BY <1>1 DEF allVars, vars, AloneInv, FileAt
<1>2. ASSUME Step(p), RecordCall
      PROVE  AloneInv(p)'
  <2>1. ~WriteBusy(p) /\ ~WriteBlocked(p)
    BY DEF Alone, WriteBusy, WriteBlocked
  <2>2. FileAt(pc[p])' /\ (pc'[p] \in {"ready"} \cup Calling => conn'[p].schema # "old")
    <3>1. CASE Die(p)
      <4>1. pc[p] \notin {"create newsgroups", "create articles"}
        <5>1. ~Stop(p) \/ pc[p] \notin {"create newsgroups", "create articles"}
          BY DEF Stop, Alone
        <5>2. pc'[p] = "down"
          BY <1>0, <3>1 DEF Die
        <5>3. ASSUME initializeDB(p) PROVE FALSE
          <6>1. CASE pc[p] = "create newsgroups"
            <7>1. "newsgroups" \notin tables
              BY <6>1 DEF AloneInv, FileAt
            <7>2. QED
              BY <1>0, <2>1, <5>2, <5>3, <6>1, <7>1 DEF initializeDB, CreateTable, Goto
          <6>2. CASE pc[p] = "create articles"
            <7>1. "articles" \notin tables
              <8>1. tables = {"newsgroups"}
                BY <6>2 DEF AloneInv, FileAt
              <8>2. QED
                BY <8>1
            <7>2. QED
              BY <1>0, <2>1, <5>2, <5>3, <6>2, <7>1 DEF initializeDB, CreateTable, Goto
          <6>3. QED
            BY <5>3, <6>1, <6>2 DEF initializeDB
        <5>4. QED
          BY <1>2, <5>1, <5>3 DEF Step, Start, file_exist, Open, Call, Calling, news_group_exists,
             article_exists, list_news_groups, list_articles, get_article, create_news_group,
             create_article, delete_news_group, delete_article, At
      <4>2. file' = file /\ tables' = tables /\ pc'[p] = "down"
        BY <1>0, <3>1 DEF Die, fileVars
      <4>3. tables = IF file THEN Tables ELSE {}
        BY <1>0, <4>1 DEF AloneInv, FileAt, Stages, Starting
      <4>4. QED
        BY <4>2, <4>3 DEF FileAt, Calling
    <3>2. CASE Start(p) \/ file_exist(p)
      <4>1. /\ file' = file /\ tables' = tables /\ tables = IF file THEN Tables ELSE {}
        BY <3>2 DEF Start, file_exist, fileVars, AloneInv, FileAt
      <4>2. /\ pc'[p] \in {"constructor", "connect", "initializeDB"}
            /\ pc'[p] = "connect" => file
            /\ pc'[p] = "initializeDB" => ~file
        BY <1>0, <3>2 DEF Start, file_exist, Goto
      <4>3. QED
        BY <4>1, <4>2 DEF FileAt, Calling
    <3>3. CASE Open(p) /\ ~Die(p)
      BY <1>0, <3>3, ZenonT(40) DEF Open, connect, NoConnection, AloneInv, FileAt, Calling
    <3>4. CASE initializeDB(p) /\ ~Die(p)
      <4>1. CASE pc[p] = "create newsgroups"
        <5>1. /\ tables' = {"newsgroups"} /\ file' = file /\ file
              /\ pc'[p] = "create articles"
          BY <1>0, <3>4, <4>1 DEF initializeDB, CreateTable, Goto, AloneInv, FileAt
        <5>2. QED
          BY <5>1 DEF FileAt, Calling
      <4>2. CASE pc[p] = "create articles"
        <5>1. /\ tables' = {"newsgroups"} \cup {"articles"} /\ file' = file /\ file
              /\ pc'[p] = "ready" /\ conn' = [conn EXCEPT ![p].schema = Schema']
          BY <1>0, <3>4, <4>2 DEF initializeDB, CreateTable, Goto, AloneInv, FileAt
        <5>2. tables' = Tables /\ Schema' = "current"
          BY <5>1 DEF Tables, Schema
        <5>3. conn'[p].schema = "current"
          BY <1>0, <5>1, <5>2
        <5>4. QED
          BY <5>1, <5>2, <5>3 DEF FileAt, Calling
      <4>3. QED
        BY <3>4, <4>1, <4>2 DEF initializeDB
    <3>5. CASE pc[p] \in {"ready"} \cup Calling /\ ~Die(p)
      <4>1. file' = file /\ tables' = tables /\ pc'[p] \in {"ready"} \cup Calling
        BY <1>0, <1>2, <3>5 DEF Step, Stop, Start, file_exist, Open, initializeDB, Call, FirstStage,
           Calling, news_group_exists, NoGroup, article_exists, NoArticle, list_news_groups,
           list_articles, get_article, create_news_group, create_article, delete_news_group,
           delete_article, Goto, Return, fileVars
      <4>2. Schema = "current" /\ conn[p].schema # "old"
        <5>1. "articles" \in tables
          BY <3>5 DEF AloneInv, FileAt, Tables
        <5>2. QED
          BY <3>5, <5>1 DEF AloneInv, Schema
      <4>3. \A t : ~Stale(p, t)
        BY <4>2 DEF Stale
      <4>4. conn'[p].schema # "old"
        <5>1. \A t : Worked(p) \/ Failed(p, t) => conn'[p].schema # "old"
          BY <1>0, <4>2, <4>3 DEF Worked, Failed
        <5>2. QED
          BY <1>0, <1>2, <3>5, <4>2, <5>1, ZenonT(40)
           DEF Step, Stop, Start, file_exist, Open, initializeDB, Call,
             Calling, news_group_exists, article_exists, list_news_groups, list_articles,
             get_article, create_news_group, create_article, delete_news_group, delete_article,
             ReadWorks, ReadFails, LoopFails, WriteWorks, WriteFails
      <4>5. QED
        BY <3>5, <4>1, <4>4 DEF AloneInv, FileAt, Calling
    <3>6. QED
      BY <1>2, <3>1, <3>2, <3>3, <3>4, <3>5 DEF Step, Stop, Call, Calling, news_group_exists,
           article_exists, list_news_groups, list_articles, get_article, create_news_group,
           create_article, delete_news_group, delete_article, At
  <2>3. calm'[p]
    <3>1. ASSUME call'[p] # <<>> PROVE ~Disturbed(p)'
      <4>1. pc'[p] \in Calling
        BY <3>1 DEF HInv, Inv, TypeOK
      <4>2. tables' = Tables /\ conn'[p].schema # "old"
        BY <2>2, <4>1 DEF FileAt
      <4>3. QED
        BY <4>2 DEF Disturbed, WriteBusy, Alone
    <3>2. QED
      BY <1>2, <3>1 DEF RecordCall, AloneInv
  <2>4. pc'[p] \in Calling => reply'[p] = <<>>
    BY <1>0, <1>2 DEF AloneInv, Step, Start, file_exist, Open, connect, initializeDB, CreateTable, Stop,
       Die, Call, Calling, news_group_exists, NoGroup, article_exists, NoArticle,
       list_news_groups, list_articles, get_article, create_news_group, create_article,
       delete_news_group, delete_article, Goto, Return
  <2>5. QED
    BY <2>2, <2>3, <2>4 DEF AloneInv
<1>3. QED
  BY <1>1, <1>2 DEF HNext, Next, Alone

(* What NewsServer makes of its database: each answer, to the call that    *)
(* was made, comes with one operation of the service and its change of the *)
(* rows; between answers no row changes, and a call ends the process only  *)
(* if it is killed.                                                        *)
Serves(p) ==
  /\ \/ Answered(p) /\ answer'[1] = call[p] /\ Service!ServiceNext
     \/ ~Answered(p) /\ answer' = <<>> /\ UNCHANGED dbVars
  /\ pc[p] \in Calling \ StopPoints => pc'[p] # "down"

(* A server that has news.db for itself is the NewsService that NewsServer *)
(* takes it for.                                                           *)
THEOREM OneServerServes ==
  ASSUME NEW server, Alone(server)
  PROVE  HSpec => [][Serves(server)]_allVars
<1> DEFINE CalmServes == \A p \in Procs : Answered(p) /\ calm[p] => Service!ServiceNext
           CalmRuns == \A p \in Procs :
                         pc[p] \in Calling \ StopPoints /\ pc'[p] = "down" => ~calm[p]
<1>0. server \in Procs /\ Procs = {server}
  BY DEF Alone
<1>1. HInv /\ AloneInv(server) /\ [HNext]_allVars /\ [CalmServes]_allVars /\ [CalmRuns]_allVars
        => [Serves(server)]_allVars
  <2> SUFFICES ASSUME HInv, AloneInv(server), Step(server), RecordCall, CalmServes, CalmRuns
               PROVE  Serves(server)
    BY <1>0 DEF HNext, Next
  <2>1. calm[server]
    BY DEF AloneInv
  <2>2. pc[server] \in Calling \ StopPoints => pc'[server] # "down"
    BY <1>0, <2>1
  <2>3. CASE Answered(server)
    <3>1. Service!ServiceNext
      BY <1>0, <2>1, <2>3
    <3>2. answer' = reply'[server]
      BY <1>0, <2>3 DEF RecordCall, RecordAnswer
    <3>3. reply'[server][1] = call[server]
      BY <1>0, <2>3, AnswerNamesCall DEF HInv, Inv
    <3>4. answer'[1] = call[server]
      BY <3>2, <3>3, Zenon
    <3>5. QED
      BY <2>2, <2>3, <3>1, <3>4, Zenon DEF Serves
  <2>4. CASE ~Answered(server)
    <3>1. answer' = <<>>
      BY <1>0, <2>4 DEF RecordCall, RecordAnswer
    <3>2. UNCHANGED dbVars
      BY <1>0, <2>4, RowsNeedAnAnswer DEF HInv, Inv, AloneInv
    <3>3. QED
      BY <2>2, <2>4, <3>1, <3>2, Zenon DEF Serves
  <2>5. QED
    BY <2>3, <2>4
<1>2. HSpec => [][CalmServes]_allVars
  BY CalmCallsServe, PTL DEF CalmAnswersAsService
<1>3. HSpec => [][CalmRuns]_allVars
  BY OnlyKillsEndCalmCalls, PTL DEF EndsOnlyIfDisturbed
<1>4. HInit => AloneInv(server)
  BY <1>0, AloneInit
<1>5. HInv /\ HInv' /\ AloneInv(server) /\ [HNext]_allVars => AloneInv(server)'
  BY <1>0, AloneStep
<1>6. QED
  BY <1>1, <1>2, <1>3, <1>4, <1>5, HistoryInvariance, PTL DEF HSpec

=============================================================================
