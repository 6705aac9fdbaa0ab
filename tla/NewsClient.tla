----------------------------- MODULE NewsClient -----------------------------
(***************************************************************************)
(* The newsclient processes (newsclient.cc).  Each connects once, sends    *)
(* one command after the other, for as long as the user likes, and reads   *)
(* the whole answer to each before the user can give the next.  What the   *)
(* user types is a call of Calls[c]; how it is read from cin is left to    *)
(* another module.  When a process has ended, the user may start another.  *)
(***************************************************************************)
EXTENDS Protocol, Sockets

CONSTANTS
  Calls,        \* Calls[c]: the calls that the user of process c asks for
  Mortal,       \* the processes that may be killed
  Fragile       \* those whose machine may fall silent, without a FIN or RST

VARIABLES
  stage,        \* stage[c]: where process c is
  call,         \* the call it executes, <<>> if none
  unsent,       \* the tokens of its command that are still to be sent
  reads,        \* what it waits for, one entry for each token
  told          \* the tokens of the answer that the user was told of so far

clientVars == <<stage, call, unsent, reads, told>>

ClientStages == {"off", "ready", "sending", "reading", "vanished"}
Connected(c) == stage[c] \in {"ready", "sending", "reading"}

ClientInit ==
  /\ stage = [c \in Clients |-> "off"]
  /\ call = [c \in Clients |-> <<>>]
  /\ unsent = [c \in Clients |-> <<>>]
  /\ reads = [c \in Clients |-> <<>>]
  /\ told = [c \in Clients |-> <<>>]

Forget(c) ==
  /\ call' = [call EXCEPT ![c] = <<>>]
  /\ unsent' = [unsent EXCEPT ![c] = <<>>]
  /\ reads' = [reads EXCEPT ![c] = <<>>]
  /\ told' = [told EXCEPT ![c] = <<>>]

Leave(c) ==
  /\ stage' = [stage EXCEPT ![c] = "off"]
  /\ Forget(c)
  /\ Hangup({c}, "client")
  /\ UNCHANGED backlog

-----------------------------------------------------------------------------
(* The constructor of Connection.  The process ends when nobody listens.   *)
ConnectToServer(c) ==
  /\ stage[c] = "off"
  /\ Connect(c)
  /\ stage' = [stage EXCEPT ![c] = "ready"]
  /\ UNCHANGED <<call, unsent, reads, told>>

GiveCommand(c, asked) ==
  /\ stage[c] = "ready"
  /\ call' = [call EXCEPT ![c] = asked]
  /\ unsent' = [unsent EXCEPT ![c] = Command(asked)]
  /\ stage' = [stage EXCEPT ![c] = "sending"]
  /\ UNCHANGED <<reads, told, netVars>>

Send(c) ==
  /\ stage[c] = "sending"
  /\ Write(c, "client", Head(unsent[c]))
  /\ unsent' = [unsent EXCEPT ![c] = Tail(@)]
  /\ IF unsent'[c] = <<>>
       THEN /\ stage' = [stage EXCEPT ![c] = "reading"]
            /\ reads' = [reads EXCEPT ![c] = FirstReads(call[c][1])]
       ELSE UNCHANGED <<stage, reads>>
  /\ UNCHANGED <<call, told>>

(* What the user gets to see: numbers and strings, except the length of a  *)
(* list, and whether the server agreed or which error it met.              *)
Tells(read, token) ==
  \/ read \in {"ERR", "PAR_NUM", "PAR_STRING"}
  \/ read = "RES" /\ token[1] = "ANS_ACK"

Recv(c) ==
  LET token == Head(inbox[c]["client"])
  IN  /\ stage[c] = "reading"
      /\ Read(c, "client")
      /\ Acceptable(Head(reads[c]), token)
      /\ reads' = [reads EXCEPT ![c] = ReadsAfter(call[c][1], reads[c], token)]
      /\ IF reads'[c] = <<>>
           THEN /\ stage' = [stage EXCEPT ![c] = "ready"]
                /\ call' = [call EXCEPT ![c] = <<>>]
                /\ told' = [told EXCEPT ![c] = <<>>]
           ELSE /\ told' = IF Tells(Head(reads[c]), token)
                             THEN [told EXCEPT ![c] = Append(@, token)] ELSE told
                /\ UNCHANGED <<stage, call>>
      /\ UNCHANGED unsent

(* A token that handle_protocol_ans, error_message_handler or a            *)
(* recv_..._parameter refuses: "Protocol was violated".                    *)
Violated(c) ==
  /\ stage[c] = "reading"
  /\ inbox[c]["client"] # <<>>
  /\ ~Acceptable(Head(reads[c]), Head(inbox[c]["client"]))

(* A process ends when it finds the connection closed or the protocol      *)
(* violated.                                                               *)
GivesUp(c) ==
  /\ \/ stage[c] = "sending" /\ WriteFails(c, "client")
     \/ stage[c] = "reading" /\ ReadFails(c, "client")
     \/ Violated(c)
  /\ Leave(c)

(* The user leaves between two commands; a kill comes at any time. *)
Quit(c) == stage[c] = "ready" /\ Leave(c)
Kill(c) == Connected(c) /\ c \in Mortal /\ Leave(c)

(* The machine or the network is gone: nothing more comes, and the other   *)
(* end learns nothing of it ...                                            *)
Vanish(c) ==
  /\ Connected(c)
  /\ c \in Fragile
  /\ stage' = [stage EXCEPT ![c] = "vanished"]
  /\ Forget(c)
  /\ UNCHANGED netVars

(* ... unless it has sent something that is not acknowledged: after some   *)
(* minutes its kernel gives the connection up.                             *)
TimesOut(c) ==
  /\ stage[c] = "vanished"
  /\ inbox[c]["client"] # <<>>
  /\ Leave(c)

Exchange(c) == Send(c) \/ Recv(c) \/ GivesUp(c)

=============================================================================
