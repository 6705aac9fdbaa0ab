--------------------------- MODULE MCDiskDatabase ---------------------------
(* Model values for DiskDatabase.                                          *)
EXTENDS DiskDatabase, TLC

CONSTANTS p1, p2, n1, n2, t1, author, text, empty

OneContent == {[title |-> t1, author |-> author, text |-> text]}
MCEmptyArticle == [title |-> empty, author |-> empty, text |-> empty]

(* No property names a process: two that share the file are alike.         *)
Alike == Permutations({p1, p2})

(* Killed before or in the middle of a call, but not in the constructor.   *)
OnceReady == {"ready", "article_exists"}
(* Killed anywhere. *)
Anywhere == Stages \ {"down"}

=============================================================================
