----------------------------- MODULE NewsBoard ------------------------------
(***************************************************************************)
(* The news system as its users see it: one board that all of them share.  *)
(* A user asks for one operation after the other.  Each takes effect at    *)
(* once, as one operation of the NewsService, at some moment between the   *)
(* question and the end of the answer, and never twice; of a user who      *)
(* leaves without the answer it takes effect later, has done so, or never  *)
(* does.  Connections, messages, the server and its handlers are not here. *)
(***************************************************************************)
EXTENDS NewsStore

CONSTANTS
  Clients,      \* the users
  Calls,        \* Calls[c]: what user c may ask for
  EmptyArticle  \* as in NewsService

VARIABLES
  user,         \* user[c]: "away", "idle", or "waiting" for an answer
  request,      \* the call that c asked for, as long as it may take effect
                \* or its answer may be awaited; else <<>>
  outcome       \* <<call, result>> once it has taken effect, else <<>>

boardVars == <<storeVars, user, request, outcome>>

Service(c) == INSTANCE NewsService WITH reply <- outcome[c]

BoardInit ==
  /\ StoreInit
  /\ user = [c \in Clients |-> "away"]
  /\ request = [c \in Clients |-> <<>>]
  /\ outcome = [c \in Clients |-> <<>>]

(* What was asked for by these users is done with. *)
Clear(cs) ==
  /\ request' = [c \in Clients |-> IF c \in cs THEN <<>> ELSE request[c]]
  /\ outcome' = [c \in Clients |-> IF c \in cs THEN <<>> ELSE outcome[c]]

(* A user comes, and comes back when the last request is done with. *)
Come(c) ==
  /\ user[c] = "away"
  /\ request[c] = <<>>
  /\ user' = [user EXCEPT ![c] = "idle"]
  /\ UNCHANGED <<storeVars, request, outcome>>

Ask(c, asked) ==
  /\ user[c] = "idle"
  /\ user' = [user EXCEPT ![c] = "waiting"]
  /\ request' = [request EXCEPT ![c] = asked]
  /\ UNCHANGED <<storeVars, outcome>>

(* The operation takes effect: on the store, and in the answer. *)
Execute(c) ==
  /\ request[c] # <<>>
  /\ outcome[c] = <<>>
  /\ Service(c)!ServiceNext
  /\ outcome'[c][1] = request[c]
  /\ outcome' = [outcome EXCEPT ![c] = outcome'[c]]
  /\ UNCHANGED <<user, request>>

(* The user knows the whole answer. *)
Answered(c) ==
  /\ user[c] = "waiting"
  /\ outcome[c] # <<>>
  /\ user' = [user EXCEPT ![c] = "idle"]
  /\ Clear({c})
  /\ UNCHANGED storeVars

Part(c) ==
  /\ user[c] # "away"
  /\ user' = [user EXCEPT ![c] = "away"]
  /\ Clear({}) \/ Clear({c})
  /\ UNCHANGED storeVars

(* What users who are gone had asked for will not take effect any more. *)
Drop(cs) ==
  /\ \A c \in cs : user[c] = "away"
  /\ Clear(cs)
  /\ UNCHANGED <<storeVars, user>>

BoardNext ==
  \/ \E c \in Clients :
       \/ Come(c) \/ Execute(c) \/ Answered(c) \/ Part(c)
       \/ \E asked \in Calls[c] : Ask(c, asked)
  \/ \E cs \in SUBSET Clients : Drop(cs)

BoardSpec == BoardInit /\ [][BoardNext]_boardVars

=============================================================================
