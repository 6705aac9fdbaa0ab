--------------------------- MODULE MCDiskAnswers ----------------------------
(* Model values for DiskAnswers.                                           *)
EXTENDS DiskAnswers, TLC

CONSTANTS p1, p2, n1, n2, t1, author, text, empty

MCContents == {[title |-> t1, author |-> author, text |-> text]}
MCEmptyArticle == [title |-> empty, author |-> empty, text |-> empty]

(* No property names a process or a group: two of either are alike.        *)
Alike == Permutations({p1, p2}) \cup Permutations({n1, n2})

(* States that differ in answers already given are one state: no step and  *)
(* no property looks back at them, and that a call has none while it runs  *)
(* follows from pc.                                                        *)
WithoutAnswers == <<file, tables, newsgroups, articles, sequence, pc, conn, call, seen, calm>>

(* Killed before or in the middle of a call, but not in the constructor.   *)
OnceReady == {"ready", "article_exists"}

=============================================================================
