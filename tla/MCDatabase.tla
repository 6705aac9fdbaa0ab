---------------------------- MODULE MCDatabase ------------------------------
(* Two names, three groups and two articles of two contents: enough to     *)
(* delete a group that has articles and to create another one after it.    *)
EXTENDS Database

CONSTANTS n1, n2, t1, t2, author, text, empty

MCNames == {n1, n2}
MCContents == {[title |-> t1, author |-> author, text |-> text],
               [title |-> t2, author |-> author, text |-> text]}
MCEmptyArticle == [title |-> empty, author |-> empty, text |-> empty]

=============================================================================
