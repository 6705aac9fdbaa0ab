----------------------------- MODULE NewsServer -----------------------------
(***************************************************************************)
(* The newsserver process: class Server (server.cc), the loop of main and  *)
(* its handlers (newsserver.cc).  It has one thread, which waits in select *)
(* for a new connection or a command, and then serves that one command     *)
(* from its first code to COM_END with reads and writes that block.        *)
(*                                                                         *)
(* The database is a NewsService.  Its contents are on disk: they outlive  *)
(* the process, everything else here does not.                             *)
(***************************************************************************)
EXTENDS Protocol, Sockets

CONSTANTS
  Names, Contents, GroupIds, ArticleIds, EmptyArticle,  \* as in NewsService
  MaxSockets,   \* descriptors a process can have open before accept fails
  ServerMayDie  \* may the process be killed?

ASSUME MaxSocketsAssumption == MaxSockets \in Nat

VARIABLES
  groups, articles, usedGroupIds, usedArticleIds,       \* as in NewsService
  connections,  \* the registered connections, in order
  pending_socket, \* {} or the one accepted and not registered yet
  phase,        \* where the loop of main is
  serving,      \* {} or the connection whose command is being handled
  op,           \* the operation its handler is for
  params,       \* the values of the parameters received so far
  answer,       \* <<call, result>> once the database was called
  sent          \* how many tokens of the answer were sent

storeVars == <<groups, articles, usedGroupIds, usedArticleIds>>
handlerVars == <<op, params, answer, sent>>
serverVars == <<connections, pending_socket, phase, serving, op, params, answer, sent>>

Phases == {"down", "select", "register", "command", "ans", "params", "database",
           "answer", "end"}

DB == INSTANCE NewsService WITH reply <- answer

ServerInit ==
  /\ DB!StoreInit
  /\ connections = <<>>
  /\ pending_socket = {}
  /\ phase = "down"
  /\ serving = {}
  /\ op = "none"
  /\ params = <<>>
  /\ answer = <<>>
  /\ sent = 0

Listening == phase # "down"

(* The descriptors accept has returned and nobody has closed, whether the  *)
(* process still knows of them or not.                                     *)
Descriptors == {c \in Clients : ends[c]["server"] = "open"} \ ToSet(backlog)

(* Every connection the process knows of, those in the backlog included. *)
Held == ToSet(connections) \cup ToSet(backlog) \cup pending_socket

HandlerDone == op' = "none" /\ params' = <<>> /\ answer' = <<>> /\ sent' = 0

Idle == serving' = {} /\ HandlerDone

(* All its sockets are closed with the process. *)
Exit ==
  /\ phase' = "down"
  /\ Hangup(Held, "server")
  /\ backlog' = <<>>
  /\ connections' = <<>>
  /\ pending_socket' = {}
  /\ Idle
  /\ UNCHANGED storeVars

(* std::remove and erase: the vector holds a connection once               *)
(* (SocketsAccounted), so that one position goes.                          *)
Erase(c) ==
  \E i \in DOMAIN connections :
    connections[i] = c /\ connections' = RemoveAt(connections, i)

-----------------------------------------------------------------------------
(* Faulty variants of the definitions below, which the properties must     *)
(* tell from them.                                                         *)

(* deregisterConnection that leaves the connection in the vector. *)
Deregister_without_erase(c) ==
  /\ UNCHANGED connections
  /\ Hangup({c}, "server")
  /\ UNCHANGED backlog

(* A Connection whose destructor does not close its socket. *)
Deregister_without_close(c) ==
  /\ Erase(c)
  /\ UNCHANGED netVars

(* registerConnection without pending_socket = -1. *)
Register_keeping_pending ==
  /\ \E c \in pending_socket : connections' = Append(connections, c)
  /\ UNCHANGED pending_socket

(* waitForActivity that waits for data only, not for the end of a stream. *)
ReadyConnections_with_data ==
  {i \in DOMAIN connections : inbox[connections[i]]["server"] # <<>>}

(* waitForActivity that serves the latest connection first. *)
FirstReady_latest ==
  CHOOSE i \in DOMAIN connections :
    /\ Readable(connections[i], "server")
    /\ \A j \in DOMAIN connections : Readable(connections[j], "server") => i >= j

(* main without the read of COM_END. *)
AfterAnswer_no_end == "select"

(* Handlers that read the article's id before the group's. *)
TheCall_swapped ==
  Called(op, IF Len(params) = 2 THEN <<params[2], params[1]>> ELSE params)

(* Handlers that send no ERR_ code after ANS_NAK; no ANS_END; that take    *)
(* every result of the database for success.                               *)
ToSend_no_error == SelectSeq(Answer(answer[1], answer[2]), LAMBDA token : token[1] \notin Errors)
ToSend_no_end == Front(Answer(answer[1], answer[2]))
ToSend_always_ack ==
  IF answer[1][1] = "create_article" THEN Ack \o <<<<"ANS_END">>>> ELSE Answer(answer[1], answer[2])

-----------------------------------------------------------------------------
(* main opens the socket and the database. *)
Start ==
  /\ phase = "down"
  /\ phase' = "select"
  /\ UNCHANGED <<connections, pending_socket, serving, handlerVars, storeVars, netVars>>

(* waitForActivity: a new client goes before any command, and the command  *)
(* of a connection registered earlier before that of a later one.          *)
AcceptClient ==
  /\ phase = "select"
  /\ backlog # <<>>
  /\ Cardinality(Descriptors) < MaxSockets
  /\ pending_socket' = {Head(backlog)}
  /\ phase' = "register"
  /\ Accept
  /\ UNCHANGED <<connections, serving, handlerVars, storeVars>>

(* accept returns -1 when no descriptor is left, and error exits. *)
AcceptFails ==
  /\ phase = "select"
  /\ backlog # <<>>
  /\ Cardinality(Descriptors) >= MaxSockets
  /\ Exit

ReadyConnections == {i \in DOMAIN connections : Readable(connections[i], "server")}

FirstReady == CHOOSE i \in ReadyConnections : \A j \in ReadyConnections : i <= j

WaitForCommand ==
  /\ phase = "select"
  /\ backlog = <<>>
  /\ ReadyConnections # {}
  /\ serving' = {connections[FirstReady]}
  /\ phase' = "command"
  /\ UNCHANGED <<connections, pending_socket, handlerVars, storeVars, netVars>>

Register ==
  /\ \E c \in pending_socket : connections' = Append(connections, c)
  /\ pending_socket' = {}

RegisterConnection ==
  /\ phase = "register"
  /\ Register
  /\ phase' = "select"
  /\ UNCHANGED <<serving, handlerVars, storeVars, netVars>>

(* The handler of ConnectionClosedException in main: the connection leaves *)
(* the vector, and is closed when its last shared_ptr goes.                *)
Deregister(c) ==
  /\ Erase(c)
  /\ Hangup({c}, "server")
  /\ UNCHANGED backlog

Drop(c) ==
  /\ Deregister(c)
  /\ phase' = "select"
  /\ Idle
  /\ UNCHANGED <<pending_socket, storeVars>>

-----------------------------------------------------------------------------
(* Serving connection c.  A read that fails, or meets a token that the     *)
(* protocol does not have there, ends the connection.                      *)

Expected(c, token) ==
  CASE phase = "command" -> \E o \in Operations : Com[o] = token[1]
    [] phase = "params" -> token[1] = ParamTypes[op][Len(params) + 1]
    [] phase = "end" -> token[1] = "COM_END"
    [] OTHER -> FALSE

Reading == {"command", "params", "end"}
Writing == {"ans", "answer"}

Unexpected(c) ==
  inbox[c]["server"] # <<>> /\ ~Expected(c, Head(inbox[c]["server"]))

ConnectionFails(c) ==
  \/ phase \in Reading /\ (ReadFails(c, "server") \/ Unexpected(c))
  \/ phase \in Writing /\ WriteFails(c, "server")

ReadExpected(c) ==
  /\ Read(c, "server")
  /\ Expected(c, Head(inbox[c]["server"]))

(* recv_code and the switch of main. *)
RecvCommand(c) ==
  /\ phase = "command"
  /\ ReadExpected(c)
  /\ op' = CHOOSE o \in Operations : Com[o] = Head(inbox[c]["server"])[1]
  /\ phase' = "ans"
  /\ UNCHANGED <<connections, pending_socket, serving, params, answer, sent, storeVars>>

PhaseAfter(n) == IF n = Len(ParamTypes[op]) THEN "database" ELSE "params"

(* Each handler sends the ANS_ code before it reads the parameters. *)
SendAns(c) ==
  /\ phase = "ans"
  /\ Write(c, "server", <<Ans[op]>>)
  /\ phase' = PhaseAfter(0)
  /\ UNCHANGED <<connections, pending_socket, serving, handlerVars, storeVars>>

RecvParam(c) ==
  /\ phase = "params"
  /\ ReadExpected(c)
  /\ params' = Append(params, Head(inbox[c]["server"])[2])
  /\ phase' = PhaseAfter(Len(params) + 1)
  /\ UNCHANGED <<connections, pending_socket, serving, op, answer, sent, storeVars>>

ServiceCall(call) ==
  LET o == call[1]
  IN  \/ o = "list_news_groups" /\ DB!ListNewsGroups
      \/ o = "create_news_group" /\ DB!CreateNewsGroup(call[2])
      \/ o = "delete_news_group" /\ DB!DeleteNewsGroup(call[2])
      \/ o = "list_articles" /\ DB!ListArticles(call[2])
      \/ o = "create_article" /\ DB!CreateArticle(call[2], call[3])
      \/ o = "delete_article" /\ DB!DeleteArticle(call[2], call[3])
      \/ o = "get_article" /\ DB!GetArticle(call[2], call[3])

TheCall == Called(op, params)

(* The call of the database.  COM_END has not been read yet.               *)
CallDatabase(c) ==
  /\ phase = "database"
  /\ ServiceCall(TheCall)
  /\ phase' = "answer"
  /\ UNCHANGED <<connections, pending_socket, serving, op, params, sent, netVars>>

ToSend == Answer(answer[1], answer[2])

AfterAnswer == "end"

SendAnswer(c) ==
  /\ phase = "answer"
  /\ Write(c, "server", ToSend[sent + 1])
  /\ IF sent + 1 = Len(ToSend)
       THEN phase' = AfterAnswer /\ HandlerDone
       ELSE sent' = sent + 1 /\ UNCHANGED <<phase, op, params, answer>>
  /\ UNCHANGED <<connections, pending_socket, serving, storeVars>>

RecvEnd(c) ==
  /\ phase = "end"
  /\ ReadExpected(c)
  /\ phase' = "select"
  /\ Idle
  /\ UNCHANGED <<connections, pending_socket, storeVars>>

Die ==
  /\ ServerMayDie
  /\ phase # "down"
  /\ Exit

ServeStep(c) ==
  \/ RecvCommand(c) \/ SendAns(c) \/ RecvParam(c) \/ CallDatabase(c)
  \/ SendAnswer(c) \/ RecvEnd(c) \/ (ConnectionFails(c) /\ Drop(c))

ServerStep ==
  \/ Start \/ AcceptClient \/ AcceptFails \/ WaitForCommand \/ RegisterConnection
  \/ \E c \in serving : ServeStep(c)

=============================================================================
