----------------------------- MODULE NewsSystem -----------------------------
(***************************************************************************)
(* The news system: newsclient processes, the connections, the newsserver  *)
(* process and its database, all interleaved.                              *)
(***************************************************************************)
EXTENDS NewsServer, NewsClient

(* The history of the exchange, for the properties; no step depends on it. *)
VARIABLES
  request,      \* request[c]: the call that c executes or, as long as the server
                \* has its connection, had in hand when it went; else <<>>
  outcome       \* outcome[c]: <<call, result>> of the database call that the
                \* server made for this request, <<>> before it

(* What a user can ask for: an operation with the arguments it takes.       *)
AllCalls ==
  {<<"list_news_groups">>} \cup ({"create_news_group"} \X Names) \cup
  ({"delete_news_group", "list_articles"} \X GroupIds) \cup
  ({"create_article"} \X GroupIds \X Contents) \cup
  ({"delete_article", "get_article"} \X GroupIds \X ArticleIds)

ASSUME CallsAssumption == \A c \in Clients : Calls[c] \subseteq AllCalls

ASSUME ContentsAssumption ==
  \A content \in Contents :
    content = [title |-> content.title, author |-> content.author, text |-> content.text]

vars == <<netVars, storeVars, serverVars, clientVars, request, outcome>>

Init ==
  /\ SocketsInit
  /\ ServerInit
  /\ ClientInit
  /\ request = [c \in Clients |-> <<>>]
  /\ outcome = [c \in Clients |-> <<>>]

Record ==
  /\ request' = [c \in Clients |->
       IF Connected(c)' THEN call'[c]
       ELSE IF ends'[c]["server"] = "open" THEN request[c] ELSE <<>>]
  /\ outcome' = [c \in Clients |->
       IF request'[c] = <<>> THEN <<>>
       ELSE IF c \in serving /\ phase = "database" /\ phase' = "answer" THEN answer'
       ELSE outcome[c]]

ServerNext ==
  /\ ServerStep
  /\ UNCHANGED clientVars
  /\ Record

ServerDies ==
  /\ Die
  /\ UNCHANGED clientVars
  /\ Record

ClientDoes(step) ==
  /\ step
  /\ UNCHANGED <<storeVars, serverVars>>
  /\ Record

UserNext(c) ==
  \/ ClientDoes(Listening /\ ConnectToServer(c))
  \/ \E asked \in Calls[c] : ClientDoes(GiveCommand(c, asked))
  \/ ClientDoes(Quit(c))
  \/ ClientDoes(Kill(c) \/ Vanish(c) \/ TimesOut(c))

ExchangeNext(c) == ClientDoes(Exchange(c))

Next ==
  \/ ServerNext
  \/ ServerDies
  \/ \E c \in Clients : UserNext(c) \/ ExchangeNext(c)

(* Both programs run as long as they can: neither waits on purpose, and    *)
(* the kernel delivers what was written.  Nobody has to start a client,    *)
(* give a command, leave, or kill anything.                                *)
Fairness ==
  /\ WF_vars(ServerNext)
  /\ \A c \in Clients : WF_vars(ExchangeNext(c))

Spec == Init /\ [][Next]_vars
FairSpec == Spec /\ Fairness

-----------------------------------------------------------------------------
(* The states of the two programs and what ties them to each other: the    *)
(* server has an operation, parameters and an answer only while it serves  *)
(* somebody, a client a call only while it executes it, and no buffer      *)
(* holds more than it can.                                                 *)
TypeOK ==
  /\ phase \in Phases
  /\ stage \in [Clients -> ClientStages]
  /\ ends \in [Clients -> [Ends -> {"open", "closed"}]]
  /\ \A c \in Clients, end \in Ends : Len(inbox[c][end]) <= Capacity
  /\ Cardinality(serving) = (IF phase \in {"down", "select", "register"} THEN 0 ELSE 1)
  /\ serving \cup pending_socket \subseteq Clients
  /\ pending_socket # {} <=> phase = "register"
  /\ op = "none" <=> phase \in {"down", "select", "register", "command", "end"}
  /\ answer # <<>> <=> phase = "answer"
  /\ \A c \in Clients :
       /\ call[c] # <<>> <=> stage[c] \in {"sending", "reading"}
       /\ unsent[c] # <<>> <=> stage[c] = "sending"
       /\ reads[c] # <<>> <=> stage[c] = "reading"

(* "This should never be needed, but better safe than sorry" (newsclient.cc:38): *)
(* no client ever reads a token that the protocol does not have there, be  *)
(* the other clients and the server killed wherever they are.              *)
ProtocolKept == \A c \in Clients : ~Violated(c)

(* The server calls the database at most once for a command, and for the   *)
(* very call that the user gave, with its arguments in their places.       *)
ExecutesWhatWasAsked ==
  \A c \in serving :
    phase = "database" => TheCall = request[c] /\ outcome[c] = <<>>

(* The descriptors of the process are those of the connections it holds,   *)
(* each once: none leaks when a client goes, none is closed and kept.      *)
SocketsAccounted ==
  /\ \A c \in Clients : ends[c]["server"] = "open" <=> c \in Held
  /\ Len(connections) = Cardinality(ToSet(connections))
  /\ Len(connections) + Cardinality(pending_socket) <= MaxSockets
  /\ serving \subseteq ToSet(connections)

PairsOf(seq) == {<<seq[2 * i - 1][2], seq[2 * i][2]>> : i \in 1..Len(seq) \div 2}

Refusal ==
  [create_news_group |-> "ERR_NG_ALREADY_EXISTS", delete_news_group |-> "ERR_NG_DOES_NOT_EXIST",
   create_article |-> "ERR_NG_DOES_NOT_EXIST", list_articles |-> "ERR_NG_DOES_NOT_EXIST",
   NO_NG |-> "ERR_NG_DOES_NOT_EXIST", NO_ARTICLE |-> "ERR_ART_DOES_NOT_EXIST"]

(* What the user must have been told of a call with this result. *)
ToldTruly(asked, result, seq) ==
  LET o == asked[1]
      ok(success) == seq = <<<<IF success THEN "ANS_ACK" ELSE Refusal[o]>>>>
  IN  CASE o = "list_news_groups" -> PairsOf(seq) = result
        [] o \in {"create_news_group", "delete_news_group", "create_article"} -> ok(result)
        [] o = "list_articles" ->
             IF result[2] THEN Head(seq) = <<"ANS_ACK">> /\ PairsOf(Tail(seq)) = result[1]
                          ELSE ok(FALSE)
        [] o = "delete_article" ->
             seq = <<<<IF result = "OK" THEN "ANS_ACK" ELSE Refusal[result]>>>>
        [] o = "get_article" ->
             seq = IF result[1] = "OK"
                     THEN Ack \o Strings(result[2]) ELSE <<<<Refusal[result[1]]>>>>

(* A command that ends, ends with the database called for it, the user     *)
(* told the result of that call and of no other, and nothing of the answer *)
(* left to be taken for the next one.                                      *)
AnswersAreTrue ==
  [][\A c \in Clients :
       stage[c] = "reading" /\ stage'[c] = "ready" =>
         /\ outcome[c] # <<>>
         /\ outcome[c][1] = call[c]
         /\ ToldTruly(call[c], outcome[c][2], told[c])
         /\ inbox'[c]["client"] = <<>>]_vars

(* To its users the system is a NewsBoard: whatever they do at the same    *)
(* time, and whatever becomes of the processes, each operation takes       *)
(* effect at one moment between the question and the answer, at most once, *)
(* and that of a user who goes may take effect after that.                 *)
UserOf(c) ==
  IF ~Connected(c) THEN "away" ELSE IF stage[c] = "ready" THEN "idle" ELSE "waiting"

Board == INSTANCE NewsBoard WITH user <- [c \in Clients |-> UserOf(c)]

ImplementsBoard == Board!BoardSpec

(* As long as it runs, the server closes no connection but those whose     *)
(* client has gone: whatever happens to other clients, a client that       *)
(* follows the protocol keeps its connection.                              *)
KeepsItsClients ==
  [][\A c \in Clients :
       ends[c]["server"] = "open" /\ ends'[c]["server"] = "closed" /\ phase' # "down" =>
         ends[c]["client"] = "closed"]_vars

(* The server ends by itself only when it serves as many connections as it *)
(* may have descriptors: however many clients came and went before, and    *)
(* wherever they went, what they took is free again.                       *)
ExitsOnlyWhenFull == [][AcceptFails => Len(connections) >= MaxSockets]_vars

(* What can keep the server from a client for ever: it reads the rest of a *)
(* command from a machine that has fallen silent ...                       *)
HeldUp == \E d \in serving : stage[d] = "vanished"

(* ... or the user of a connection registered earlier does not stop.       *)
Overtakes(d, c) ==
  /\ stage[d] = "ready" /\ stage'[d] = "sending"
  /\ \E i, j \in DOMAIN connections :
       i < j /\ connections[i] = d /\ connections[j] = c

Starved(c) == <>[]HeldUp \/ \E d \in Clients \ {c} : []<><<Overtakes(d, c)>>_vars

(* A client in the middle of a command, and the server, can take a step:   *)
(* what they read is there, what they write has room, or the peer is gone. *)
ClientCan(c) ==
  \/ stage[c] = "sending" /\ (HungUp(c, "client") \/ Len(inbox[c]["server"]) < Capacity)
  \/ stage[c] = "reading" /\ Readable(c, "client")

ServerCan ==
  \/ phase \in {"register", "database"}
  \/ phase = "select" /\ (backlog # <<>> \/ ReadyConnections # {})
  \/ \E d \in serving :
       \/ phase \in Reading /\ Readable(d, "server")
       \/ phase \in Writing /\ (HungUp(d, "server") \/ Len(inbox[d]["client"]) < Capacity)

(* Reads and writes block on both sides, the buffers are bounded and the   *)
(* server has one thread; still nobody waits in a circle: as long as a     *)
(* client waits, it, the server, or the client that the server serves can  *)
(* go on, unless that one's machine has fallen silent.                     *)
NoMutualWait ==
  \A c \in Clients : stage[c] \in {"sending", "reading"} =>
    ClientCan(c) \/ ServerCan \/ HeldUp \/ \E d \in serving : ClientCan(d)

(* Whoever has given a command is told its outcome, or that the server is  *)
(* gone: nobody waits for ever, full buffers, killed clients and clients   *)
(* that come and go for ever included, but for the two reasons above.      *)
EveryCommandEnds ==
  \A c \in Clients :
    \/ stage[c] \in {"sending", "reading"} ~> stage[c] \notin {"sending", "reading"}
    \/ Starved(c)

(* The server finds out about every client that goes, as long as the same  *)
(* does not keep it from looking.                                          *)
GoneClientsAreDropped ==
  \A c \in Clients :
    \/ ends[c] = [client |-> "closed", server |-> "open"] ~> ends[c]["server"] = "closed"
    \/ Starved(c)

=============================================================================
