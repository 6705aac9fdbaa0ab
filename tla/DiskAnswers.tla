---------------------------- MODULE DiskAnswers -----------------------------
(***************************************************************************)
(* What the answers of DiskDatabase are worth when several processes share *)
(* the file.  A member function runs its checks and its statement one      *)
(* after the other with no transaction around them, so that an answer may  *)
(* come from several instants.  This module adds to DiskDatabase a history *)
(* of the instants of each call, for the properties; no step depends on it. *)
(***************************************************************************)
EXTENDS DiskDatabase

VARIABLES
  seen,         \* seen[p]: the views of the file during the call p executes
  calm,         \* calm[p]: was nobody else at the file during it?
  answer        \* the answer that the last step gave, <<>> if it gave none

allVars == <<vars, seen, calm, answer>>

(* The rows that a call is about. *)
GroupsOf(c) ==
  IF c[1] = "list_news_groups" THEN newsgroups
  ELSE {row \in newsgroups : c[1] # "create_news_group" /\ row.grpID = c[2]}

ArticlesOf(c) ==
  {row \in articles :
     CASE c[1] = "list_articles" -> row.grpID = c[2]
       [] c[1] \in {"delete_article", "get_article"} -> row.grpID = c[2] /\ row.artID = c[3]
       [] OTHER -> FALSE}

View(p) == [groups |-> GroupsOf(call[p]), articles |-> ArticlesOf(call[p])]

(* Another process has a lock or is at a statement, the tables are not all *)
(* there, or p read the schema before they were.                           *)
Disturbed(p) == WriteBusy(p) \/ tables # Tables \/ conn[p].schema = "old"

RecordAnswer ==
  \/ \E p \in Procs : Answered(p) /\ answer' = reply'[p]
  \/ (\A p \in Procs : ~Answered(p)) /\ answer' = <<>>

RecordCall ==
  /\ RecordAnswer
  /\ seen' = [p \in Procs |-> IF call'[p] = <<>> THEN {} ELSE seen[p] \cup {View(p)'}]
  /\ calm' = [p \in Procs |-> call'[p] = <<>> \/ (calm[p] /\ ~Disturbed(p)')]

HInit ==
  /\ Init
  /\ seen = [p \in Procs |-> {}]
  /\ calm = [p \in Procs |-> TRUE]
  /\ answer = <<>>
HNext == Next /\ RecordCall
HSpec == HInit /\ [][HNext]_allVars

-----------------------------------------------------------------------------
Service == INSTANCE NewsService WITH
  groups <- newsgroups,
  GroupIds <- Ids,
  ArticleIds <- Ids,
  usedGroupIds <- 1..sequence["newsgroups"],
  usedArticleIds <- 1..sequence["articles"],
  reply <- answer

(* A call that no other process disturbs, by a lock or by a statement of   *)
(* its own, is answered as the interface asks, with the change of the      *)
(* store in the step that answers: whatever other processes did before,    *)
(* and wherever they were killed, once the tables are there.               *)
CalmAnswersAsService ==
  [][\A p \in Procs :
       Answered(p) /\ calm[p] => Service!ServiceNext]_allVars

(* A process ends in the middle of a call only if it is killed, or if      *)
(* another disturbed the call: get_article meets a NULL column when the    *)
(* article goes, or a lock comes, between its checks and its statement.    *)
EndsOnlyIfDisturbed ==
  [][\A p \in Procs :
       pc[p] \in Calling \ StopPoints /\ pc'[p] = "down" => ~calm[p]]_allVars

DeniesGroup(op, result) ==
  \/ op = "delete_news_group" /\ result = FALSE
  \/ op = "list_articles" /\ result[2] = FALSE
  \/ op = "delete_article" /\ result = "NO_NG"
  \/ op = "get_article" /\ result[1] = "NO_NG"

DeniesArticle(op, result) ==
  \/ op = "delete_article" /\ result = "NO_ARTICLE"
  \/ op = "get_article" /\ result[1] = "NO_ARTICLE"

(* What a call denies was not there at some instant of the call, whatever  *)
(* other processes did in the meantime: a check that fails for a lock, or  *)
(* a stale schema, must not pass for one that found nothing.               *)
DenialsWereTrue ==
  [][\A p \in Procs :
       Answered(p) =>
         /\ DeniesGroup(Op(p), reply'[p][2]) => \E view \in seen[p] : view.groups = {}
         /\ DeniesArticle(Op(p), reply'[p][2]) => \E view \in seen[p] : view.articles = {}]_allVars

(* What a call shows was in the file, all of it at one instant of the      *)
(* call, and lists leave out nothing of that instant: the loops go on      *)
(* through SQLITE_BUSY.  Before it has read the schema a process may show  *)
(* less, when sqlite3_prepare meets a lock.                                *)
ShownWasThere ==
  [][\A p \in Procs :
       Answered(p) /\ conn[p].schema = "current" =>
         LET result == reply'[p][2]
         IN  \E view \in seen[p] :
               /\ Op(p) = "list_news_groups" =>
                    result = {<<row.grpID, row.name>> : row \in view.groups}
               /\ Op(p) = "list_articles" =>
                    result[1] = {<<row.artID, row.content.title>> : row \in view.articles}
               /\ Op(p) = "get_article" /\ result[1] = "OK" =>
                    result[2] \in {row.content : row \in view.articles}]_allVars

=============================================================================
