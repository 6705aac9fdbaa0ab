------------------------------ MODULE Protocol ------------------------------
(***************************************************************************)
(* The messages of the news system (protocol.h), as the handlers on either *)
(* side lay them out.  MessageHandler writes a code as one byte, a number  *)
(* as PAR_NUM and four bytes, a string as PAR_STRING, its length and its   *)
(* characters.  Here each of the three is one token, <<code>> or           *)
(* <<code, value>>: nothing in the handlers happens in the middle of one.  *)
(*                                                                         *)
(* A call is a tuple <<operation, arguments...>>, an article's content a   *)
(* record [title, author, text], as in NewsService.                        *)
(***************************************************************************)
EXTENDS Naturals, Sequences, FiniteSets, SequencesExt

Num(n) == <<"PAR_NUM", n>>
Str(s) == <<"PAR_STRING", s>>

Operations == {"list_news_groups", "create_news_group", "delete_news_group",
               "list_articles", "create_article", "delete_article", "get_article"}

Com ==
  [list_news_groups |-> "COM_LIST_NG", create_news_group |-> "COM_CREATE_NG",
   delete_news_group |-> "COM_DELETE_NG", list_articles |-> "COM_LIST_ART",
   create_article |-> "COM_CREATE_ART", delete_article |-> "COM_DELETE_ART",
   get_article |-> "COM_GET_ART"]

Ans ==
  [list_news_groups |-> "ANS_LIST_NG", create_news_group |-> "ANS_CREATE_NG",
   delete_news_group |-> "ANS_DELETE_NG", list_articles |-> "ANS_LIST_ART",
   create_article |-> "ANS_CREATE_ART", delete_article |-> "ANS_DELETE_ART",
   get_article |-> "ANS_GET_ART"]

Errors == {"ERR_NG_ALREADY_EXISTS", "ERR_NG_DOES_NOT_EXIST", "ERR_ART_DOES_NOT_EXIST"}

-----------------------------------------------------------------------------
(* The client's side of a message. *)

Strings(content) == <<Str(content.title), Str(content.author), Str(content.text)>>

(* What a handler of newsclient.cc sends for a call. *)
Command(call) ==
  LET op == call[1]
      params ==
        CASE op = "list_news_groups" -> <<>>
          [] op = "create_news_group" -> <<Str(call[2])>>
          [] op \in {"delete_news_group", "list_articles"} -> <<Num(call[2])>>
          [] op = "create_article" -> <<Num(call[2])>> \o Strings(call[3])
          [] op \in {"delete_article", "get_article"} -> <<Num(call[2]), Num(call[3])>>
  IN  <<<<Com[op]>>>> \o params \o <<<<"COM_END">>>>

(* A faulty variant of FirstReads: a client that takes the code of the     *)
(* operation for the answer.                                               *)
FirstReads_code_only(op) == <<Ans[op]>>

(* What it then reads: first the two codes that every answer but that of   *)
(* COM_LIST_NG begins with, later what the tokens read so far announce.    *)
(* "COUNT" is a number that says how many pairs follow, "RES" an ANS_ACK   *)
(* or an ANS_NAK, "ERR" the code of an error.                              *)
FirstReads(op) ==
  <<Ans[op]>> \o (IF op = "list_news_groups" THEN <<"COUNT", "ANS_END">> ELSE <<"RES", "ANS_END">>)

AfterAck(op) ==
  CASE op = "list_articles" -> <<"COUNT">>
    [] op = "get_article" -> <<"PAR_STRING", "PAR_STRING", "PAR_STRING">>
    [] OTHER -> <<>>

Pairs(n) == [i \in 1..2 * n |-> IF i % 2 = 1 THEN "PAR_NUM" ELSE "PAR_STRING"]

(* The reads that are left once `token` is read where `reads` are awaited. *)
ReadsAfter(op, reads, token) ==
  CASE Head(reads) = "COUNT" -> Pairs(token[2]) \o Tail(reads)
    [] Head(reads) = "RES" ->
         (IF token[1] = "ANS_ACK" THEN AfterAck(op) ELSE <<"ERR">>) \o Tail(reads)
    [] OTHER -> Tail(reads)

(* Whatever is no ANS_ACK passes for an ANS_NAK: only the next code is     *)
(* looked at.                                                              *)
Acceptable(read, token) ==
  CASE read = "COUNT" -> token[1] = "PAR_NUM"
    [] read = "RES" -> TRUE
    [] read = "ERR" -> token[1] \in Errors
    [] OTHER -> token[1] = read

-----------------------------------------------------------------------------
(* The server's side. *)

(* What a handler of newsserver.cc reads before it calls the database. *)
ParamTypes ==
  [list_news_groups |-> <<>>,
   create_news_group |-> <<"PAR_STRING">>,
   delete_news_group |-> <<"PAR_NUM">>,
   list_articles |-> <<"PAR_NUM">>,
   create_article |-> <<"PAR_NUM", "PAR_STRING", "PAR_STRING", "PAR_STRING">>,
   delete_article |-> <<"PAR_NUM", "PAR_NUM">>,
   get_article |-> <<"PAR_NUM", "PAR_NUM">>]

(* The call it makes with the values it read. *)
Called(op, values) ==
  IF op = "create_article"
    THEN <<op, values[1], [title |-> values[2], author |-> values[3], text |-> values[4]]>>
    ELSE <<op>> \o values

Nak(error) == <<<<"ANS_NAK">>, <<error>>>>
Ack == <<<<"ANS_ACK">>>>

(* The length of a list and its pairs, in any order: that in which both    *)
(* databases keep them does not matter here.                               *)
Listing(pairs) ==
  LET list == SetToSeq(pairs)
  IN  <<Num(Len(list))>> \o
      [i \in 1..2 * Len(list) |->
         LET pair == list[(i + 1) \div 2]
         IN  IF i % 2 = 1 THEN Num(pair[1]) ELSE Str(pair[2])]

MissingError(result) ==
  IF result = "NO_ARTICLE" THEN "ERR_ART_DOES_NOT_EXIST" ELSE "ERR_NG_DOES_NOT_EXIST"

(* What it sends, after the ANS_ code of the operation, for the result.    *)
Answer(call, result) ==
  LET op == call[1]
      body ==
        CASE op = "list_news_groups" -> Listing(result)
          [] op = "create_news_group" ->
               IF result THEN Ack ELSE Nak("ERR_NG_ALREADY_EXISTS")
          [] op \in {"delete_news_group", "create_article"} ->
               IF result THEN Ack ELSE Nak("ERR_NG_DOES_NOT_EXIST")
          [] op = "list_articles" ->
               IF result[2] THEN Ack \o Listing(result[1]) ELSE Nak("ERR_NG_DOES_NOT_EXIST")
          [] op = "delete_article" ->
               IF result = "OK" THEN Ack ELSE Nak(MissingError(result))
          [] op = "get_article" ->
               IF result[1] = "OK" THEN Ack \o Strings(result[2])
                                   ELSE Nak(MissingError(result[1]))
  IN  body \o <<<<"ANS_END">>>>

=============================================================================
