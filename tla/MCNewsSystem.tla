---------------------------- MODULE MCNewsSystem ----------------------------
(* Model values for NewsSystem, and the calls that users make in it.       *)
EXTENDS NewsSystem, TLC

CONSTANTS c1, c2, c3, n1, title, author, text, empty

Content == [title |-> title, author |-> author, text |-> text]
MCContents == {Content}
MCEmptyArticle == [title |-> empty, author |-> empty, text |-> empty]

(* No property names a client.                                             *)
Alike == Permutations(Clients)

(* The id of the article is not that of the group: a mix-up shows.         *)
AnyUser == [c \in Clients |-> AllCalls]

(* The first user gives the shortest command, which the one list answers,  *)
(* the longest, or the one with the longest answer; the second may make a  *)
(* group for it; the third does nothing but take a descriptor.             *)
ThreeUsers ==
  c1 :> {<<"list_news_groups">>, <<"create_article", 1, Content>>,
         <<"get_article", 1, 2>>} @@
  c2 :> {<<"create_news_group", n1>>} @@
  c3 :> {}

=============================================================================
