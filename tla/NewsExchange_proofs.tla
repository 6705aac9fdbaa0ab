------------------------- MODULE NewsExchange_proofs -------------------------
(***************************************************************************)
(* The exchange between the newsclients and the newsserver: whatever the   *)
(* clients ask for, for any number of them, any buffers, and kills and     *)
(* silent machines wherever NewsSystem has them, the server executes what  *)
(* was asked, the user is told what came of it, the system is a NewsBoard  *)
(* to its users, and nobody waits in a circle.                             *)
(***************************************************************************)
EXTENDS NewsMessages_proofs

(* Where the server is in what client c has sent.                          *)
Place(c) == IF c \in serving THEN phase ELSE "away"

Handling == {"ans", "params", "database", "answer"}

(* What a client that executes a call has for the server before the server *)
(* has begun with it.                                                      *)
Own(asked, done) == IF asked = <<>> \/ done THEN <<>> ELSE Command(asked)

(* What the server has still to read: of the call in hand what follows its *)
(* code and n parameters, of the call before it the COM_END.               *)
Ahead(place, n, asked, done) ==
  IF place \in Handling THEN SubSeq(Command(asked), n + 2, Len(Command(asked)))
  ELSE IF place = "end" THEN <<<<"COM_END">>>> \o Own(asked, done)
  ELSE Own(asked, done)

(* A handler knows the operation, and the parameters as far as it is.      *)
HandlerAt(place, o, values, asked, done) ==
  place \in Handling =>
    /\ asked \in AllCalls /\ o = asked[1]
    /\ values \in Seq(Values) /\ Len(values) <= NParams(o)
    /\ \A i \in 1..Len(values) : values[i] = Parameters(asked)[i][2]
    /\ place = "ans" => values = <<>>
    /\ place = "params" => Len(values) < NParams(o)
    /\ place \in {"database", "answer"} => Len(values) = NParams(o)
    /\ done <=> place = "answer"

(* What the server can read and what was not sent yet are, put together,   *)
(* what it has still to read.  Of a process that has gone, or fallen       *)
(* silent, only the server's side is left.                                 *)
CommandAt(c, asked, done, rest) ==
  /\ asked \in AllCalls \cup {<<>>} /\ done \in BOOLEAN /\ rest \in Seq(Tokens)
  /\ inbox[c]["server"] \o rest = Ahead(Place(c), Len(params), asked, done)
  /\ HandlerAt(Place(c), op, params, asked, done)
  /\ asked = request[c] /\ (done <=> outcome[c] # <<>>)
  /\ Connected(c) => rest = unsent[c]

CommandFlow(c) ==
  ends[c]["server"] = "open" => \E asked, done, rest : CommandAt(c, asked, done, rest)

(* How much of an answer of n tokens is written.                           *)
Written(place, done, k, n) ==
  IF place = "ans" THEN 0
  ELSE IF place \in {"params", "database"} THEN 1
  ELSE IF place = "answer" THEN k + 1
  ELSE IF done THEN n ELSE 0

(* Of the answer, r tokens are read and m written.  Until the database was *)
(* called, no more than the code of the operation is, which the result     *)
(* does not change.                                                        *)
AnswerAt(c, result, r, m) ==
  LET o == call[c][1]
  IN  /\ IsResult(o, result)
      /\ outcome[c] = <<>> => m <= 1
      /\ outcome[c] # <<>> => outcome[c] = <<call[c], result>>
      /\ r <= m /\ m <= Len(Full(o, result)) /\ r < Len(Full(o, result))
      /\ inbox[c]["client"] = SubSeq(Full(o, result), r + 1, m)
      /\ stage[c] = "sending" => r = 0
      /\ stage[c] = "reading" => reads[c] = ReadsAt(o, result, r)
      /\ told[c] = ToldAt(o, result, r)
      /\ ends[c]["server"] = "open" =>
           m = Written(Place(c), outcome[c] # <<>>, sent, Len(Full(o, result)))
      /\ ends[c]["server"] = "open" /\ Place(c) = "answer" => answer = outcome[c]

AnswerFlow(c) ==
  Connected(c) =>
    /\ call[c] = <<>> => inbox[c]["client"] = <<>>
    /\ call[c] # <<>> => \E result : \E r, m \in Nat : AnswerAt(c, result, r, m)

(* The server's side of it. *)
ServerInv ==
  /\ phase \in Phases
  /\ phase \notin Handling => op = "none" /\ params = <<>>
  /\ phase \in Handling => op \in Operations
  /\ phase # "answer" => answer = <<>> /\ sent = 0
  /\ phase = "answer" =>
       /\ answer = <<TheCall, answer[2]>> /\ TheCall \in AllCalls
       /\ op = TheCall[1] /\ IsResult(op, answer[2])
       /\ sent \in Nat /\ sent + 1 < Len(Full(op, answer[2]))

(* The rows. *)
StoreInv ==
  /\ groups \subseteq [grpID : GroupIds, name : Names] /\ IsFiniteSet(groups)
  /\ articles \subseteq [artID : ArticleIds, grpID : GroupIds, content : Contents]
  /\ IsFiniteSet(articles)

IsFunction(f) == f = [c \in Clients |-> f[c]]

(* What is under way fits into the buffers; a closed end has none. *)
BuffersInv ==
  /\ inbox \in [Clients -> [Ends -> Seq(Tokens)]]
  /\ \A c \in Clients, end \in Ends :
       /\ Len(inbox[c][end]) <= Capacity
       /\ ends[c][end] = "closed" => inbox[c][end] = <<>>

(* The client's side of it. *)
ClientTypes ==
  /\ stage \in [Clients -> ClientStages]
  /\ call \in [Clients -> AllCalls \cup {<<>>}]
  /\ unsent \in [Clients -> Seq(Tokens)]
  /\ IsFunction(reads) /\ IsFunction(told) /\ IsFunction(request) /\ IsFunction(outcome)

(* What the server does for a client that has gone is still for the call   *)
(* that the client went with.                                              *)
Recorded(c) ==
  /\ Connected(c) => request[c] = call[c]
  /\ ~Connected(c) /\ ends[c]["server"] # "open" => request[c] = <<>>
  /\ request[c] = <<>> => outcome[c] = <<>>

ClientOk(c) ==
  /\ stage[c] = "off" <=> ends[c]["client"] = "closed"
  /\ call[c] # <<>> <=> stage[c] \in {"sending", "reading"}
  /\ unsent[c] # <<>> <=> stage[c] = "sending"
  /\ stage[c] # "reading" => reads[c] = <<>>
  /\ call[c] = <<>> => told[c] = <<>>
  /\ Recorded(c)

ClientsInv == ClientTypes /\ \A c \in Clients : ClientOk(c)

FlowInv ==
  /\ ServerInv /\ StoreInv /\ BuffersInv /\ ClientsInv
  /\ \A c \in Clients : CommandFlow(c) /\ AnswerFlow(c)

ExchangeInv == DescriptorInv /\ FlowInv

-----------------------------------------------------------------------------
(* A sequence that is cut in two: what is taken from the front of the      *)
(* first part, and what goes from the second to the first.                 *)
LEMMA Takes ==
  ASSUME NEW S, NEW q \in Seq(S), NEW rest \in Seq(S), q # <<>>
  PROVE  /\ q \o rest \in Seq(S) /\ q \o rest # <<>>
         /\ Head(q) = (q \o rest)[1]
         /\ Tail(q) \in Seq(S)
         /\ Tail(q) \o rest = Tail(q \o rest)
<1> DEFINE s == q \o rest
           t == Tail(q)
           u == t \o rest
           v == Tail(s)
<1>1. /\ s \in Seq(S) /\ Len(s) = Len(q) + Len(rest)
      /\ \A i \in 1..Len(q) + Len(rest) :
           s[i] = IF i <= Len(q) THEN q[i] ELSE rest[i - Len(q)]
  BY ConcatProperties
<1>2. /\ t \in Seq(S) /\ Len(t) = Len(q) - 1
      /\ \A i \in 1..Len(t) : t[i] = q[i + 1]
  BY HeadTailProperties
<1>3. Len(q) \in Nat \ {0} /\ Len(rest) \in Nat /\ Head(q) = q[1]
  BY EmptySeq, LenProperties
<1> HIDE DEF s, t
<1>4. /\ u \in Seq(S) /\ Len(u) = Len(t) + Len(rest)
      /\ \A i \in 1..Len(t) + Len(rest) :
           u[i] = IF i <= Len(t) THEN t[i] ELSE rest[i - Len(t)]
  BY <1>2, ConcatProperties
<1>5. s # <<>>
  BY <1>1, <1>3
<1>6. /\ v \in Seq(S) /\ Len(v) = Len(s) - 1
      /\ \A i \in 1..Len(v) : v[i] = s[i + 1]
  BY <1>1, <1>5, HeadTailProperties
<1> HIDE DEF u, v
<1>7. \A i \in 1..Len(u) : u[i] = v[i]
  <2>1. ASSUME NEW i \in 1..Len(u) PROVE u[i] = v[i]
    <3>1. /\ i \in 1..Len(v) /\ i + 1 \in 1..Len(q) + Len(rest)
          /\ (i + 1) - Len(q) = i - Len(t) /\ (i + 1 <= Len(q) <=> i <= Len(t))
          /\ i \in 1..Len(t) + Len(rest)
      BY <1>1, <1>2, <1>3, <1>4, <1>6
    <3>2. CASE i <= Len(t)
      BY <1>1, <1>2, <1>4, <1>6, <3>1, <3>2
    <3>3. CASE ~(i <= Len(t))
      BY <1>1, <1>4, <1>6, <3>1, <3>3
    <3>4. QED
      BY <3>2, <3>3
  <2>2. QED
    BY <2>1
<1>8. Len(u) = Len(v)
  BY <1>1, <1>2, <1>3, <1>4, <1>6
<1>9. u = v
  BY <1>4, <1>6, <1>7, <1>8, SeqEqual
<1>10. s[1] = q[1]
  BY <1>1, <1>3
<1>11. QED
  BY <1>1, <1>2, <1>3, <1>5, <1>9, <1>10 DEF s, t, u, v

LEMMA Gives ==
  ASSUME NEW S, NEW q \in Seq(S), NEW rest \in Seq(S), rest # <<>>
  PROVE  /\ Head(rest) \in S /\ Tail(rest) \in Seq(S)
         /\ Append(q, Head(rest)) \in Seq(S)
         /\ Append(q, Head(rest)) \o Tail(rest) = q \o rest
<1> DEFINE h == <<Head(rest)>>
           t == Tail(rest)
<1>1. Head(rest) \in S /\ t \in Seq(S)
  BY HeadTailProperties
<1>2. rest = h \o t
  <2> DEFINE u == h \o t
  <2>1. /\ Len(t) = Len(rest) - 1 /\ \A i \in 1..Len(t) : t[i] = rest[i + 1]
        /\ Len(rest) \in Nat \ {0} /\ Head(rest) = rest[1]
    BY HeadTailProperties, EmptySeq
  <2> HIDE DEF t
  <2>2. /\ u \in Seq(S) /\ Len(u) = Len(t) + 1 /\ u[1] = Head(rest)
        /\ \A i \in 1..Len(t) : u[i + 1] = t[i]
    BY <1>1, Prefixed
  <2> HIDE DEF u
  <2>3. ASSUME NEW i \in 1..Len(u) PROVE u[i] = rest[i]
    <3>1. CASE i = 1
      BY <2>1, <2>2, <3>1
    <3>2. CASE i # 1
      <4>1. i - 1 \in 1..Len(t) /\ (i - 1) + 1 = i
        BY <2>1, <2>2, <3>2
      <4>2. u[(i - 1) + 1] = t[i - 1] /\ t[i - 1] = rest[(i - 1) + 1]
        BY <2>1, <2>2, <4>1
      <4>3. QED
        BY <4>1, <4>2
    <3>3. QED
      BY <3>1, <3>2
  <2>4. Len(u) = Len(rest)
    BY <2>1, <2>2
  <2>5. u = rest
    BY <2>2, <2>3, <2>4, SeqEqual
  <2>6. QED
    BY <2>5 DEF u
<1>3. Append(q, Head(rest)) = q \o h
  BY <1>1, AppendIsConcat
<1>4. (q \o h) \o t = q \o (h \o t)
  <2>1. h \in Seq(S) /\ t \in Seq(S)
    BY <1>1
  <2> HIDE DEF t, h
  <2>2. QED
    BY <2>1, ConcatAssociative
<1> HIDE DEF t, h
<1>5. Append(q, Head(rest)) \in Seq(S)
  BY <1>1, AppendProperties
<1>6. QED
  BY <1>1, <1>2, <1>3, <1>4, <1>5 DEF t

(* A window on a sequence, which is read at its front and written at its   *)
(* end.                                                                    *)
LEMMA Window ==
  ASSUME NEW S, NEW full \in Seq(S), NEW r \in Nat, NEW m \in Nat, r <= m, m <= Len(full),
         NEW q, q = SubSeq(full, r + 1, m)
  PROVE  /\ q \in Seq(S)
         /\ r = m => q = <<>>
         /\ q # <<>> => r < m /\ Head(q) = full[r + 1] /\ Tail(q) = SubSeq(full, (r + 1) + 1, m)
         /\ m < Len(full) => Append(q, full[m + 1]) = SubSeq(full, r + 1, m + 1)
<1>0. Len(full) \in Nat
  BY LenProperties
<1>1. q \in Seq(S)
  BY <1>0, SubSeqProperties
<1>2. CASE r = m
  <2>1. q = <<>>
    BY <1>2, SubSeqEmpty
  <2>2. ASSUME m < Len(full) PROVE Append(q, full[m + 1]) = SubSeq(full, r + 1, m + 1)
    <3>1. r + 1 \in 1..Len(full) /\ m \in 0..Len(full) - 1 /\ m + 1 >= r + 1
      BY <1>0, <1>2, <2>2
    <3>2. QED
      BY <3>1, Grows
  <2>3. QED
    BY <1>1, <2>1, <2>2
<1>3. CASE r < m
  <2>1. r + 1 \in 1..Len(full) /\ m \in r + 1..Len(full)
    BY <1>0, <1>3
  <2>2. Head(q) = full[r + 1] /\ Tail(q) = SubSeq(full, (r + 1) + 1, m)
    BY <2>1, HeadTailOfSubSeq
  <2>3. ASSUME m < Len(full) PROVE Append(q, full[m + 1]) = SubSeq(full, r + 1, m + 1)
    <3>1. m \in 0..Len(full) - 1 /\ m + 1 >= r + 1
      BY <1>0, <1>3, <2>3
    <3>2. QED
      BY <2>1, <3>1, Grows
  <2>4. QED
    BY <1>1, <1>3, <2>2, <2>3
<1>4. QED
  BY <1>2, <1>3

-----------------------------------------------------------------------------
(* What is ahead of the server, and how it gets less.                      *)

LEMMA OwnIs ==
  ASSUME NEW asked \in AllCalls \cup {<<>>}, NEW done \in BOOLEAN
  PROVE  /\ Own(asked, done) \in Seq(Tokens)
         /\ Own(asked, done) # <<>> => asked \in AllCalls /\ ~done
BY CommandIs DEF Own

(* A command that begins is that of the call. *)
LEMMA FirstAhead ==
  ASSUME NEW asked \in AllCalls \cup {<<>>}, NEW done \in BOOLEAN,
         Own(asked, done) # <<>>
  PROVE  /\ asked \in AllCalls /\ ~done /\ asked[1] \in Operations
         /\ Own(asked, done)[1] = <<Com[asked[1]]>>
         /\ Tail(Own(asked, done)) = Ahead("ans", 0, asked, done)
<1>1. asked \in AllCalls /\ ~done /\ asked # <<>> /\ asked[1] \in Operations
  BY CallShapes DEF Own
<1>2. Own(asked, done) = Command(asked)
  BY <1>1 DEF Own
<1>3. Command(asked) \in Seq(Tokens) /\ Command(asked)[1] = <<Com[asked[1]]>>
  BY <1>1, CommandIs
<1>4. Tail(Command(asked)) = SubSeq(Command(asked), 2, Len(Command(asked)))
  BY <1>2, <1>3, TailIsSubSeq
<1>5. Ahead("ans", 0, asked, done) = SubSeq(Command(asked), 0 + 2, Len(Command(asked)))
  BY DEF Ahead, Handling
<1>6. 0 + 2 = 2
  OBVIOUS
<1>7. QED
  BY <1>1, <1>2, <1>3, <1>4, <1>5, <1>6

(* Behind the first token of s is what is ahead when n parameters are read. *)
GoesOn(s, n, asked, done) ==
  \A other \in Handling : Tail(s) = Ahead(other, n, asked, done)

(* The next token is that of the next parameter, or COM_END. *)
LEMMA ParameterAhead ==
  ASSUME NEW asked \in AllCalls, NEW done, NEW n \in 0..NParams(asked[1]),
         NEW place \in Handling, NEW s, s = Ahead(place, n, asked, done)
  PROVE  /\ s \in Seq(Tokens) /\ s # <<>>
         /\ n < NParams(asked[1]) =>
              s[1] = Parameters(asked)[n + 1] /\ GoesOn(s, n + 1, asked, done)
         /\ n = NParams(asked[1]) => s = <<<<"COM_END">>>>
<1> DEFINE C == Command(asked)
           N == NParams(asked[1])
<1>1. /\ C \in Seq(Tokens) /\ Len(C) = N + 2 /\ C[N + 2] = <<"COM_END">>
      /\ \A i \in 1..N : C[i + 1] = Parameters(asked)[i]
  BY CommandIs
<1>2. N \in 0..4
  BY ParametersAre
<1>3. /\ s = SubSeq(C, n + 2, Len(C))
      /\ \A other \in Handling :
           Ahead(other, n + 1, asked, done) = SubSeq(C, (n + 1) + 2, Len(C))
  BY DEF Ahead
<1> HIDE DEF C, N
<1>4. n \in 0..N
  BY DEF N
<1>5. n + 2 \in 1..Len(C) /\ Len(C) \in n + 2..Len(C) /\ (n + 2) + 1 = (n + 1) + 2
  BY <1>1, <1>2, <1>4
<1>6. /\ s \in Seq(Tokens) /\ Len(s) = Len(C) - (n + 2) + 1
      /\ \A i \in 1..Len(C) - (n + 2) + 1 : s[i] = C[n + 2 + i - 1]
  BY <1>1, <1>3, <1>5, SubSeqProperties
<1>7. Head(s) = C[n + 2] /\ Tail(s) = SubSeq(C, (n + 2) + 1, Len(C))
  BY <1>1, <1>3, <1>5, HeadTailOfSubSeq
<1>8. s # <<>> /\ s[1] = C[n + 2]
  BY <1>1, <1>5, <1>6, <1>7
<1>9. ASSUME n < N
      PROVE  s[1] = Parameters(asked)[n + 1] /\ GoesOn(s, n + 1, asked, done)
  <2>1. n + 1 \in 1..N /\ (n + 1) + 1 = n + 2
    BY <1>2, <1>4, <1>9
  <2>2. C[(n + 1) + 1] = Parameters(asked)[n + 1]
    BY <1>1, <2>1
  <2>3. QED
    BY <1>3, <1>5, <1>7, <1>8, <2>1, <2>2 DEF GoesOn
<1>10. ASSUME n = N PROVE s = <<<<"COM_END">>>>
  <2>1. Len(s) = 1 /\ s[1] = <<"COM_END">>
    BY <1>1, <1>2, <1>6, <1>8, <1>10
  <2> DEFINE end == <<"COM_END">>
  <2> HIDE DEF end
  <2>2. s = <<end>>
    BY <1>6, <2>1 DEF end
  <2>3. QED
    BY <2>2 DEF end
<1>11. QED
  BY <1>6, <1>8, <1>9, <1>10 DEF N

(* COM_END is the last of a command. *)
LEMMA EndAhead ==
  ASSUME NEW asked \in AllCalls \cup {<<>>}, NEW done \in BOOLEAN, NEW n,
         NEW s, s = Ahead("end", n, asked, done)
  PROVE  /\ s \in Seq(Tokens) /\ s # <<>>
         /\ s[1] = <<"COM_END">> /\ Tail(s) = Own(asked, done)
<1> DEFINE end == <<"COM_END">>
           o == Own(asked, done)
<1>1. s = <<end>> \o o
  BY DEF Ahead, Handling
<1>2. end \in Tokens /\ o \in Seq(Tokens)
  BY OwnIs DEF Tokens, Codes
<1> HIDE DEF end, o
<1>3. <<end>> \in Seq(Tokens) /\ <<end>> # <<>> /\ Head(<<end>>) = end /\ Tail(<<end>>) = <<>>
  BY <1>2
<1> DEFINE e == <<end>>
<1> HIDE DEF e
<1>4. e \in Seq(Tokens) /\ e # <<>> /\ Head(e) = end /\ Tail(e) = <<>> /\ s = e \o o
  BY <1>1, <1>3 DEF e
<1>5. e \in Seq(Tokens) /\ o \in Seq(Tokens) /\ e # <<>>
  BY <1>2, <1>4
<1>6. /\ e \o o \in Seq(Tokens) /\ e \o o # <<>> /\ Head(e) = (e \o o)[1]
      /\ Tail(e) \o o = Tail(e \o o)
  BY <1>5, Takes
<1>7. s \in Seq(Tokens) /\ s # <<>> /\ s[1] = end /\ Tail(s) = <<>> \o o
  BY <1>4, <1>6
<1>8. <<>> \o o = o
  BY <1>2, ConcatEmptySeq
<1>9. QED
  BY <1>7, <1>8 DEF end, o

-----------------------------------------------------------------------------
(* What an answer can be.                                                  *)

LEMMA SomeResult ==
  ASSUME NEW o \in Operations
  PROVE  \E result : IsResult(o, result)
<1>1. o \in {"list_news_groups", "create_news_group", "delete_news_group",
             "list_articles", "create_article", "delete_article", "get_article"}
  BY DEF Operations
<1>2. IsFiniteSet({}) /\ {} \subseteq Numbers \X Texts
  BY FS_EmptySet
<1>3. CASE o = "list_news_groups"
  BY <1>2, <1>3 DEF IsResult
<1>4. CASE o \in {"create_news_group", "delete_news_group", "create_article"}
  <2>1. IsResult(o, TRUE)
    BY <1>4 DEF IsResult
  <2>2. QED
    BY <2>1
<1>5. CASE o = "list_articles"
  <2>1. IsResult(o, <<{}, TRUE>>)
    BY <1>2, <1>5 DEF IsResult
  <2>2. QED
    BY <2>1
<1>6. CASE o = "delete_article"
  <2>1. IsResult(o, "OK")
    BY <1>6 DEF IsResult, Outcomes
  <2>2. QED
    BY <2>1
<1>7. CASE o = "get_article"
  <2>1. IsResult(o, <<"NO_NG", "NO_NG">>)
    BY <1>7 DEF IsResult, Outcomes
  <2>2. QED
    BY <2>1
<1>8. QED
  BY <1>1, <1>3, <1>4, <1>5, <1>6, <1>7

LEMMA BodyTokens ==
  ASSUME NEW o \in Operations, NEW result, IsResult(o, result)
  PROVE  Body(o, result) \in Seq(Tokens)
<1> DEFINE ack == <<"ANS_ACK">>
<1>1. ack \in Tokens
  BY DEF Tokens, Codes
<1>2. ASSUME NEW S, IsFiniteSet(S), S \subseteq Numbers \X Texts
      PROVE  Listing(S) \in Seq(Tokens) /\ <<ack>> \o Listing(S) \in Seq(Tokens)
  <2> HIDE DEF ack
  <2>1. Listing(S) \in Seq(Tokens)
    BY <1>2, ListingIs DEF TakeTurns
  <2>2. QED
    BY <1>1, <2>1, Prefixed
<1>3. CASE o = "list_news_groups"
  BY <1>2, <1>3 DEF IsResult, Body
<1>4. CASE o # "list_news_groups" /\ ~Succeeds(o, result)
  <2>1. Reason(o, result) \in Errors
    BY <1>4 DEF Reason, Refusal, Errors, Operations, IsResult, Outcomes, Succeeds
  <2>2. Body(o, result) = <<<<"ANS_NAK">>, <<Reason(o, result)>>>>
    BY <1>4 DEF Body
  <2>3. QED
    BY <2>1, <2>2 DEF Tokens, Codes
<1>5. CASE o = "list_articles" /\ Succeeds(o, result)
  <2>1. Body(o, result) = <<ack>> \o Listing(result[1])
    BY <1>5 DEF Body
  <2>2. IsFiniteSet(result[1]) /\ result[1] \subseteq Numbers \X Texts
    BY <1>5 DEF IsResult
  <2>3. QED
    BY <1>2, <2>1, <2>2
<1>6. CASE o = "get_article" /\ Succeeds(o, result)
  <2> DEFINE texts == Strings(result[2])
  <2>1. result[2] \in Contents
    BY <1>6 DEF IsResult, Succeeds
  <2>2. texts \in Seq(Tokens)
    BY <2>1 DEF Strings, Tokens, Texts, Str
  <2>3. Body(o, result) = <<ack>> \o texts
    BY <1>6 DEF Body
  <2> HIDE DEF texts, ack
  <2>4. <<ack>> \o texts \in Seq(Tokens)
    BY <1>1, <2>2, Prefixed
  <2>5. QED
    BY <2>3, <2>4
<1>7. CASE /\ o \notin {"list_news_groups", "list_articles", "get_article"}
           /\ Succeeds(o, result)
  <2>1. Body(o, result) = <<ack>>
    BY <1>7 DEF Body
  <2> HIDE DEF ack
  <2>2. QED
    BY <1>1, <2>1
<1>8. QED
  BY <1>3, <1>4, <1>5, <1>6, <1>7

LEMMA AnswerLength ==
  ASSUME NEW o, NEW result, Script(o, result)
  PROVE  Full(o, result) \in Seq(Tokens) /\ Len(Full(o, result)) \in Nat /\ Len(Full(o, result)) >= 3
<1>1. Full(o, result) \in Seq(Tokens) /\ Settled(o, result) < Len(Full(o, result))
  BY DEF Script, Accepted
<1>2. Settled(o, result) = 2 \/ Settled(o, result) = 3
  BY DEF Settled
<1>3. Len(Full(o, result)) \in Nat
  BY <1>1, LenProperties
<1>4. QED
  BY <1>1, <1>2, <1>3

(* The code of the operation is the same whatever the result. *)
SameSoFar(o, x, y, r, m) ==
  /\ SubSeq(Full(o, x), r + 1, m) = SubSeq(Full(o, y), r + 1, m)
  /\ ReadsAt(o, x, r) = ReadsAt(o, y, r)
  /\ ToldAt(o, x, r) = ToldAt(o, y, r)

LEMMA NotYet ==
  ASSUME NEW o \in Operations, NEW x, NEW y, Script(o, x), Script(o, y),
         NEW r \in Nat, NEW m \in Nat, r <= m, m <= 1
  PROVE  SameSoFar(o, x, y, r, m)
<1>1. ASSUME NEW z, Script(o, z)
      PROVE  /\ SubSeq(Full(o, z), r + 1, m) = IF r = m THEN <<>> ELSE <<<<Ans[o]>>>>
             /\ ToldAt(o, z, r) = <<>>
  <2> DEFINE A == Full(o, z)
             T == Kinds(o, z)
  <2>1. A \in Seq(Tokens) /\ Len(A) \in Nat /\ Len(A) >= 3 /\ A[1] = <<Ans[o]>> /\ T[1] = Ans[o]
    BY <1>1, AnswerLength DEF Script, Accepted
  <2>2. /\ ToldAt(o, z, 0) = <<>>
        /\ \A i \in 0..Len(A) - 2 :
             ToldAt(o, z, i + 1) = IF Tells(T[i + 1], A[i + 1])
                                     THEN Append(ToldAt(o, z, i), A[i + 1]) ELSE ToldAt(o, z, i)
    BY <1>1 DEF Script, Retold
  <2>3. ~Tells(T[1], A[1])
    BY <2>1, FirstReadsAre DEF Tells
  <2> HIDE DEF A, T
  <2>4. 0 \in 0..Len(A) - 2 /\ 0 + 1 = 1
    BY <2>1
  <2>5. ToldAt(o, z, 1) = <<>>
    BY <2>2, <2>3, <2>4
  <2>6. r = 0 \/ r = 1
    OBVIOUS
  <2>7. ToldAt(o, z, r) = <<>>
    BY <2>2, <2>5, <2>6
  <2>8. CASE r = m
    <3>1. SubSeq(A, r + 1, m) = <<>>
      BY <2>1, <2>8, SubSeqEmpty
    <3>2. QED
      BY <2>7, <2>8, <3>1 DEF A
  <2>9. CASE r # m
    <3>1. r = 0 /\ m = 1
      BY <2>9
    <3>2. 1 \in 1..Len(A) /\ 0 \in 0..Len(A) - 1 /\ 0 + 1 >= 1
      BY <2>1
    <3>3. SubSeq(A, 1, 0 + 1) = Append(SubSeq(A, 1, 0), A[0 + 1])
      BY <2>1, <3>2, Grows
    <3>4. SubSeq(A, 1, 0) = <<>>
      BY <2>1, SubSeqEmpty
    <3>5. SubSeq(A, 1, 1) = <<A[1]>>
      <4>1. 0 + 1 = 1
        OBVIOUS
      <4>2. SubSeq(A, 1, 1) = Append(<<>>, A[1])
        BY <3>3, <3>4, <4>1
      <4>3. QED
        BY <4>2
    <3>6. QED
      BY <2>1, <2>7, <2>9, <3>1, <3>5 DEF A
  <2>10. QED
    BY <2>8, <2>9
<1>2. r = 0 \/ r = 1
  OBVIOUS
<1>3. ReadsAt(o, x, r) = ReadsAt(o, y, r)
  BY <1>2 DEF ReadsAt
<1>4. QED
  BY <1>1, <1>3 DEF SameSoFar

(* What the server sends after the code of the operation is the rest. *)
LEMMA AnswerTokens ==
  ASSUME NEW a \in AllCalls, NEW result, IsResult(a[1], result),
         NEW k \in Nat, k + 1 < Len(Full(a[1], result))
  PROVE  /\ Answer(a, result)[k + 1] = Full(a[1], result)[(k + 1) + 1]
         /\ Len(Answer(a, result)) = Len(Full(a[1], result)) - 1
<1> DEFINE A == Full(a[1], result)
           b == Answer(a, result)
           code == <<Ans[a[1]]>>
<1>1. A = <<code>> \o b
  BY AnswerIs DEF Full
<1>2. A \in Seq(Tokens) /\ Len(A) \in Nat
  BY AnswerScript, AnswerLength
<1>3. b \in Seq(Tokens) /\ code \in Tokens
  <2>1. Body(a[1], result) \in Seq(Tokens)
    BY CallShapes, BodyTokens
  <2>2. <<"ANS_END">> \in Tokens
    BY DEF Tokens, Codes
  <2>3. Body(a[1], result) \o <<<<"ANS_END">>>> \in Seq(Tokens)
    BY <2>1, <2>2, Suffixed
  <2>4. a[1] \in Operations
    BY CallShapes
  <2>5. QED
    BY <2>3, <2>4, AnswerIs DEF Tokens, Codes
<1> HIDE DEF A, b, code
<1>4. /\ Len(A) = Len(b) + 1
      /\ \A i \in 1..Len(b) : A[i + 1] = b[i]
  BY <1>1, <1>3, Prefixed
<1>5. Len(b) \in Nat
  BY <1>3, LenProperties
<1>6. k + 1 < Len(A)
  BY DEF A
<1>7. k + 1 \in 1..Len(b) /\ Len(b) = Len(A) - 1
  BY <1>2, <1>4, <1>5, <1>6
<1>8. A[(k + 1) + 1] = b[k + 1]
  BY <1>4, <1>7
<1>9. QED
  BY <1>7, <1>8 DEF A, b

-----------------------------------------------------------------------------
(* The database answers the call that is made, with one of the results     *)
(* that the answer is made for.                                            *)

(* As many values as there are arguments, or fewer. *)
LEMMA FiniteImage ==
  ASSUME NEW S, IsFiniteSet(S), NEW f, DOMAIN f = S, f = [x \in S |-> f[x]]
  PROVE  IsFiniteSet({f[x] : x \in S})
<1> DEFINE T == {f[x] : x \in S}
<1>1. f \in Surjection(S, T)
  BY DEF Surjection
<1>2. QED
  BY <1>1, FS_Surjection

LEMMA RowsListed ==
  ASSUME StoreInv
  PROVE  /\ IsFiniteSet({<<row.grpID, row.name>> : row \in groups})
         /\ {<<row.grpID, row.name>> : row \in groups} \subseteq Numbers \X Texts
         /\ \A g : /\ IsFiniteSet(DB!Headers(DB!ArticlesOf(g)))
                   /\ DB!Headers(DB!ArticlesOf(g)) \subseteq Numbers \X Texts
<1>1. IsFiniteSet({<<row.grpID, row.name>> : row \in groups})
  <2> DEFINE f == [row \in groups |-> <<row.grpID, row.name>>]
  <2>1. DOMAIN f = groups /\ f = [row \in groups |-> f[row]] /\ IsFiniteSet(groups)
    BY DEF StoreInv
  <2>2. {<<row.grpID, row.name>> : row \in groups} = {f[row] : row \in groups}
    OBVIOUS
  <2> HIDE DEF f
  <2>3. QED
    BY <2>1, <2>2, FiniteImage
<1>2. {<<row.grpID, row.name>> : row \in groups} \subseteq Numbers \X Texts
  BY DEF StoreInv, Numbers, Texts
<1>3. ASSUME NEW g
      PROVE  /\ IsFiniteSet(DB!Headers(DB!ArticlesOf(g)))
             /\ DB!Headers(DB!ArticlesOf(g)) \subseteq Numbers \X Texts
  <2> DEFINE rows == {row \in articles : row.grpID = g}
  <2>1. DB!Headers(DB!ArticlesOf(g)) = {<<row.artID, row.content.title>> : row \in rows}
    BY DEF DB!Headers, DB!ArticlesOf
  <2>2. rows \subseteq articles /\ IsFiniteSet(rows)
    BY FS_Subset DEF StoreInv
  <2>3. \A row \in rows : row.artID \in Numbers /\ row.content.title \in Texts
    BY <2>2 DEF StoreInv, Numbers, Texts
  <2> HIDE DEF rows
  <2>4. IsFiniteSet({<<row.artID, row.content.title>> : row \in rows})
    <3> DEFINE f == [row \in rows |-> <<row.artID, row.content.title>>]
    <3>1. DOMAIN f = rows /\ f = [row \in rows |-> f[row]]
      OBVIOUS
    <3>2. {<<row.artID, row.content.title>> : row \in rows} = {f[row] : row \in rows}
      OBVIOUS
    <3> HIDE DEF f
    <3>3. QED
      BY <2>2, <3>1, <3>2, FiniteImage
  <2>5. QED
    BY <2>1, <2>3, <2>4
<1>4. QED
  BY <1>1, <1>2, <1>3

LEMMA StoreSteps ==
  ASSUME StoreInv
  PROVE  /\ DB!storeVars' = DB!storeVars => StoreInv'
         /\ \A name \in Names : DB!AddGroup(name) => StoreInv'
         /\ \A g : DB!RemoveGroup(g) => StoreInv'
         /\ \A g \in GroupIds, content \in Contents : DB!AddArticle(g, content) => StoreInv'
         /\ \A g, a : DB!RemoveArticle(g, a) => StoreInv'
<1>1. DB!storeVars' = DB!storeVars => StoreInv'
  BY DEF DB!storeVars, StoreInv
<1>2. ASSUME NEW name \in Names, DB!AddGroup(name) PROVE StoreInv'
  <2>1. PICK id \in GroupIds : groups' = groups \cup {[grpID |-> id, name |-> name]}
    BY <1>2 DEF DB!AddGroup
  <2>2. IsFiniteSet(groups')
    BY <2>1, FS_AddElement DEF StoreInv
  <2>3. groups' \subseteq [grpID : GroupIds, name : Names]
    BY <2>1 DEF StoreInv
  <2>4. QED
    BY <1>2, <2>2, <2>3 DEF DB!AddGroup, StoreInv
<1>3. ASSUME NEW g, DB!RemoveGroup(g) PROVE StoreInv'
  <2>1. groups' \subseteq groups /\ articles' \subseteq articles
    BY <1>3 DEF DB!RemoveGroup
  <2>2. IsFiniteSet(groups') /\ IsFiniteSet(articles')
    BY <2>1, FS_Subset DEF StoreInv
  <2>3. QED
    BY <2>1, <2>2 DEF StoreInv
<1>4. ASSUME NEW g \in GroupIds, NEW content \in Contents, DB!AddArticle(g, content)
      PROVE  StoreInv'
  <2>1. PICK id \in ArticleIds :
          articles' = articles \cup {[artID |-> id, grpID |-> g, content |-> content]}
    BY <1>4 DEF DB!AddArticle
  <2>2. IsFiniteSet(articles')
    BY <2>1, FS_AddElement DEF StoreInv
  <2>3. articles' \subseteq [artID : ArticleIds, grpID : GroupIds, content : Contents]
    BY <2>1 DEF StoreInv
  <2>4. QED
    BY <1>4, <2>2, <2>3 DEF DB!AddArticle, StoreInv
<1>5. ASSUME NEW g, NEW a, DB!RemoveArticle(g, a) PROVE StoreInv'
  <2>1. groups' = groups /\ articles' \subseteq articles
    BY <1>5 DEF DB!RemoveArticle
  <2>2. IsFiniteSet(articles')
    BY <2>1, FS_Subset DEF StoreInv
  <2>3. QED
    BY <2>1, <2>2 DEF StoreInv
<1>6. QED
  BY <1>1, <1>2, <1>3, <1>4, <1>5

LEMMA DatabaseAnswers ==
  ASSUME StoreInv, NEW a \in AllCalls, ServiceCall(a)
  PROVE  /\ StoreInv'
         /\ answer' = <<a, answer'[2]>> /\ IsResult(a[1], answer'[2])
<1>0. a[1] \in {"list_news_groups", "create_news_group", "delete_news_group",
                "list_articles", "create_article", "delete_article", "get_article"}
  BY CallShapes DEF Operations
<1>1. CASE a[1] = "list_news_groups"
  <2>1. DB!ListNewsGroups /\ a = <<"list_news_groups">>
    BY <1>1, CallShapes DEF ServiceCall
  <2>2. answer' = <<a, {<<row.grpID, row.name>> : row \in groups}>> /\ DB!storeVars' = DB!storeVars
    BY <2>1 DEF DB!ListNewsGroups
  <2>3. QED
    BY <1>1, <2>2, RowsListed, StoreSteps DEF IsResult
<1>2. CASE a[1] = "create_news_group"
  <2>1. DB!CreateNewsGroup(a[2]) /\ a = <<"create_news_group", a[2]>> /\ a[2] \in Names
    BY <1>2, CallShapes DEF ServiceCall
  <2>2. PICK success \in BOOLEAN : answer' = <<a, success>>
    BY <2>1 DEF DB!CreateNewsGroup
  <2>3. StoreInv'
    BY <2>1, StoreSteps DEF DB!CreateNewsGroup
  <2>4. IsResult(a[1], success)
    BY <1>2 DEF IsResult
  <2>5. QED
    BY <2>2, <2>3, <2>4
<1>3. CASE a[1] = "delete_news_group"
  <2>1. DB!DeleteNewsGroup(a[2]) /\ a = <<"delete_news_group", a[2]>>
    BY <1>3, CallShapes DEF ServiceCall
  <2>2. PICK success \in BOOLEAN : answer' = <<a, success>>
    BY <2>1 DEF DB!DeleteNewsGroup
  <2>3. StoreInv'
    BY <2>1, StoreSteps DEF DB!DeleteNewsGroup
  <2>4. IsResult(a[1], success)
    BY <1>3 DEF IsResult
  <2>5. QED
    BY <2>2, <2>3, <2>4
<1>4. CASE a[1] = "list_articles"
  <2>1. DB!ListArticles(a[2]) /\ a = <<"list_articles", a[2]>>
    BY <1>4, CallShapes DEF ServiceCall
  <2>2. /\ answer' = <<a, <<DB!Headers(DB!ArticlesOf(a[2])), DB!GroupExists(a[2])>>>>
        /\ DB!storeVars' = DB!storeVars
    BY <2>1 DEF DB!ListArticles
  <2>3. DB!GroupExists(a[2]) \in BOOLEAN
    BY DEF DB!GroupExists
  <2> DEFINE headers == DB!Headers(DB!ArticlesOf(a[2]))
             exists == DB!GroupExists(a[2])
  <2>4. IsFiniteSet(headers) /\ headers \subseteq Numbers \X Texts
    BY RowsListed
  <2> HIDE DEF headers, exists
  <2>5. answer' = <<a, <<headers, exists>>>> /\ exists \in BOOLEAN
    BY <2>2, <2>3 DEF headers, exists
  <2>6. IsResult(a[1], <<headers, exists>>)
    BY <1>4, <2>4, <2>5 DEF IsResult
  <2>7. QED
    BY <2>2, <2>5, <2>6, StoreSteps
<1>5. CASE a[1] = "create_article"
  <2>1. /\ DB!CreateArticle(a[2], a[3]) /\ a = <<"create_article", a[2], a[3]>>
        /\ a[2] \in GroupIds /\ a[3] \in Contents
    BY <1>5, CallShapes DEF ServiceCall
  <2>2. PICK success \in BOOLEAN : answer' = <<a, success>>
    BY <2>1 DEF DB!CreateArticle
  <2>3. StoreInv'
    BY <2>1, StoreSteps DEF DB!CreateArticle
  <2>4. IsResult(a[1], success)
    BY <1>5 DEF IsResult
  <2>5. QED
    BY <2>2, <2>3, <2>4
<1>6. CASE a[1] = "delete_article"
  <2>1. DB!DeleteArticle(a[2], a[3]) /\ a = <<"delete_article", a[2], a[3]>>
    BY <1>6, CallShapes DEF ServiceCall
  <2>2. PICK outcomeOf \in Outcomes : answer' = <<a, outcomeOf>>
    BY <2>1 DEF DB!DeleteArticle, DB!Missing, Outcomes
  <2>3. StoreInv'
    BY <2>1, StoreSteps DEF DB!DeleteArticle
  <2>4. QED
    BY <1>6, <2>2, <2>3 DEF IsResult
<1>7. CASE a[1] = "get_article"
  <2>1. DB!GetArticle(a[2], a[3]) /\ a = <<"get_article", a[2], a[3]>>
    BY <1>7, CallShapes DEF ServiceCall
  <2>2. DB!storeVars' = DB!storeVars
    BY <2>1 DEF DB!GetArticle
  <2>3. \/ \E row \in articles : answer' = <<a, <<"OK", row.content>>>>
        \/ \E why \in {"NO_NG", "NO_ARTICLE"} : answer' = <<a, <<why, EmptyArticle>>>>
    BY <2>1 DEF DB!GetArticle, DB!ArticlesOf, DB!Missing
  <2>4. CASE \E row \in articles : answer' = <<a, <<"OK", row.content>>>>
    <3>1. PICK row \in articles : answer' = <<a, <<"OK", row.content>>>>
      BY <2>4
    <3>2. row.content \in Contents
      BY DEF StoreInv
    <3>3. IsResult(a[1], <<"OK", row.content>>)
      BY <1>7, <3>2 DEF IsResult, Outcomes
    <3>4. QED
      BY <2>2, <3>1, <3>3, StoreSteps
  <2>5. CASE \E why \in {"NO_NG", "NO_ARTICLE"} : answer' = <<a, <<why, EmptyArticle>>>>
    <3>1. PICK why \in {"NO_NG", "NO_ARTICLE"} : answer' = <<a, <<why, EmptyArticle>>>>
      BY <2>5
    <3>2. IsResult(a[1], <<why, EmptyArticle>>)
      BY <1>7 DEF IsResult, Outcomes
    <3>3. QED
      BY <2>2, <3>1, <3>2, StoreSteps
  <2>6. QED
    BY <2>3, <2>4, <2>5
<1>8. QED
  BY <1>0, <1>1, <1>2, <1>3, <1>4, <1>5, <1>6, <1>7

-----------------------------------------------------------------------------
(* The buffers.                                                            *)

EndsOk == ends \in [Clients -> [Ends -> {"open", "closed"}]]

(* What is written is the peer's to read, or lost with the peer. *)
LEMMA WriteIs ==
  ASSUME BuffersInv, EndsOk, NEW c \in Clients, NEW end \in Ends, NEW token \in Tokens,
         Write(c, end, token)
  PROVE  /\ BuffersInv' /\ UNCHANGED <<ends, backlog>>
         /\ \A d \in Clients \ {c} : inbox'[d] = inbox[d]
         /\ inbox'[c][end] = inbox[c][end]
         /\ ends[c][Peer(end)] = "open" =>
              inbox'[c][Peer(end)] = Append(inbox[c][Peer(end)], token)
         /\ ends[c][Peer(end)] = "closed" => inbox' = inbox
<1>1. Peer(end) \in Ends /\ Peer(end) # end
  BY DEF Peer, Ends
<1>2. UNCHANGED <<ends, backlog>>
  BY DEF Write
<1>3. CASE ends[c][Peer(end)] = "closed"
  <2>1. inbox' = inbox
    BY <1>3 DEF Write, HungUp
  <2>2. QED
    BY <1>2, <1>3, <2>1 DEF BuffersInv
<1>4. CASE ends[c][Peer(end)] = "open"
  <2>1. /\ Len(inbox[c][Peer(end)]) < Capacity
        /\ inbox' = [inbox EXCEPT ![c][Peer(end)] = Append(@, token)]
    BY <1>4 DEF Write, HungUp
  <2> DEFINE q == Append(inbox[c][Peer(end)], token)
  <2>2. inbox[c][Peer(end)] \in Seq(Tokens)
    BY <1>1 DEF BuffersInv
  <2>3. q \in Seq(Tokens) /\ Len(q) = Len(inbox[c][Peer(end)]) + 1
    BY <2>2
  <2>4. Len(q) <= Capacity
    BY <2>1, <2>2, <2>3, CapacityAssumption
  <2>5. /\ inbox'[c][end] = inbox[c][end] /\ inbox'[c][Peer(end)] = q
        /\ \A d \in Clients \ {c} : inbox'[d] = inbox[d]
        /\ DOMAIN inbox'[c] = Ends /\ inbox'[c] = [e \in Ends |-> inbox'[c][e]]
    BY <1>1, <2>1 DEF BuffersInv
  <2> HIDE DEF q
  <2>6. \A e \in Ends : e = end \/ e = Peer(end)
    BY DEF Ends, Peer
  <2>7. inbox' \in [Clients -> [Ends -> Seq(Tokens)]]
    BY <2>1, <2>3, <2>5, <2>6 DEF BuffersInv
  <2>8. ASSUME NEW d \in Clients, NEW e \in Ends
        PROVE  Len(inbox'[d][e]) <= Capacity /\ (ends'[d][e] = "closed" => inbox'[d][e] = <<>>)
    <3>1. CASE d = c /\ e = Peer(end)
      BY <1>2, <1>4, <2>4, <2>5, <3>1
    <3>2. CASE ~(d = c /\ e = Peer(end))
      <4>1. inbox'[d][e] = inbox[d][e]
        BY <2>5, <2>6, <3>2
      <4>2. QED
        BY <1>2, <4>1 DEF BuffersInv
    <3>3. QED
      BY <3>1, <3>2
  <2>9. BuffersInv'
    BY <2>7, <2>8 DEF BuffersInv
  <2>10. QED
    BY <1>2, <1>4, <2>5, <2>9 DEF q
<1>5. QED
  BY <1>1, <1>3, <1>4 DEF EndsOk

(* What is read is gone. *)
LEMMA ReadIs ==
  ASSUME BuffersInv, NEW c \in Clients, NEW end \in Ends, Read(c, end)
  PROVE  /\ BuffersInv' /\ UNCHANGED <<ends, backlog>>
         /\ \A d \in Clients \ {c} : inbox'[d] = inbox[d]
         /\ inbox[c][end] # <<>>
         /\ inbox'[c][end] = Tail(inbox[c][end])
         /\ inbox'[c][Peer(end)] = inbox[c][Peer(end)]
<1>1. Peer(end) \in Ends /\ Peer(end) # end /\ \A e \in Ends : e = end \/ e = Peer(end)
  BY DEF Peer, Ends
<1>2. /\ UNCHANGED <<ends, backlog>> /\ inbox[c][end] # <<>>
      /\ inbox' = [inbox EXCEPT ![c][end] = Tail(@)]
  BY DEF Read
<1> DEFINE q == Tail(inbox[c][end])
<1>3. inbox[c][end] \in Seq(Tokens) /\ Len(inbox[c][end]) <= Capacity
  BY DEF BuffersInv
<1>4. q \in Seq(Tokens) /\ Len(q) = Len(inbox[c][end]) - 1 /\ Len(inbox[c][end]) \in Nat
  BY <1>2, <1>3
<1>5. Len(q) <= Capacity
  BY <1>3, <1>4, CapacityAssumption
<1>6. /\ inbox'[c][end] = q /\ inbox'[c][Peer(end)] = inbox[c][Peer(end)]
      /\ \A d \in Clients \ {c} : inbox'[d] = inbox[d]
      /\ inbox'[c] = [e \in Ends |-> inbox'[c][e]]
  BY <1>1, <1>2 DEF BuffersInv
<1> HIDE DEF q
<1>7. inbox' \in [Clients -> [Ends -> Seq(Tokens)]]
  BY <1>1, <1>2, <1>4, <1>6 DEF BuffersInv
<1>8. ASSUME NEW d \in Clients, NEW e \in Ends
      PROVE  Len(inbox'[d][e]) <= Capacity /\ (ends'[d][e] = "closed" => inbox'[d][e] = <<>>)
  <2>1. CASE d = c /\ e = end
    BY <1>2, <1>5, <1>6, <2>1 DEF BuffersInv
  <2>2. CASE ~(d = c /\ e = end)
    <3>1. inbox'[d][e] = inbox[d][e]
      BY <1>1, <1>6, <2>2
    <3>2. QED
      BY <1>2, <3>1 DEF BuffersInv
  <2>3. QED
    BY <2>1, <2>2
<1>9. BuffersInv'
  BY <1>7, <1>8 DEF BuffersInv
<1>10. QED
  BY <1>2, <1>6, <1>9 DEF q

(* What an end has not read goes with it, nothing else. *)
LEMMA HangupIs ==
  ASSUME BuffersInv, EndsOk, NEW cs, NEW end \in Ends, Hangup(cs, end)
  PROVE  /\ BuffersInv'
         /\ \A d \in Clients \cap cs :
              /\ ends'[d][end] = "closed" /\ ends'[d][Peer(end)] = ends[d][Peer(end)]
              /\ inbox'[d][Peer(end)] = inbox[d][Peer(end)]
              /\ inbox'[d][end] = <<>>
         /\ \A d \in Clients \ cs : ends'[d] = ends[d] /\ inbox'[d] = inbox[d]
<1>1. Peer(end) \in Ends /\ Peer(end) # end /\ \A e \in Ends : e = end \/ e = Peer(end)
  BY DEF Peer, Ends
<1>2. /\ ends' = [d \in Clients |->
                    IF d \in cs THEN [ends[d] EXCEPT ![end] = "closed"] ELSE ends[d]]
      /\ inbox' = [d \in Clients |->
                    IF d \in cs THEN [inbox[d] EXCEPT ![end] = <<>>] ELSE inbox[d]]
  BY DEF Hangup
<1>3. /\ \A d \in Clients \cap cs :
           /\ ends'[d][end] = "closed" /\ ends'[d][Peer(end)] = ends[d][Peer(end)]
           /\ inbox'[d][Peer(end)] = inbox[d][Peer(end)]
           /\ inbox'[d][end] = <<>>
      /\ \A d \in Clients \ cs : ends'[d] = ends[d] /\ inbox'[d] = inbox[d]
  BY <1>1, <1>2 DEF BuffersInv, EndsOk
<1>4. inbox' \in [Clients -> [Ends -> Seq(Tokens)]]
  BY <1>2 DEF BuffersInv
<1>5. Len(<<>>) = 0 /\ 0 <= Capacity
  BY CapacityAssumption
<1>6. ASSUME NEW d \in Clients, NEW e \in Ends
      PROVE  Len(inbox'[d][e]) <= Capacity /\ (ends'[d][e] = "closed" => inbox'[d][e] = <<>>)
  <2>1. CASE d \in cs /\ e = end
    BY <1>3, <1>5, <2>1
  <2>2. CASE ~(d \in cs /\ e = end)
    <3>1. inbox'[d][e] = inbox[d][e] /\ ends'[d][e] = ends[d][e]
      BY <1>1, <1>3, <2>2
    <3>2. QED
      BY <3>1 DEF BuffersInv
  <2>3. QED
    BY <2>1, <2>2
<1>7. QED
  BY <1>3, <1>4, <1>6 DEF BuffersInv

-----------------------------------------------------------------------------
(* What a step leaves alone.                                               *)

(* The client does nothing, and is not answered by the database. *)
ClientStays(d) ==
  /\ stage'[d] = stage[d] /\ call'[d] = call[d] /\ unsent'[d] = unsent[d]
  /\ reads'[d] = reads[d] /\ told'[d] = told[d]
  /\ Connected(d) \/ ends'[d]["server"] = "open" =>
       request'[d] = request[d] /\ outcome'[d] = outcome[d]

(* The server goes on with another, or is where nothing depends on it. *)
ServerStays(d) ==
  \/ Place(d)' = Place(d) /\ UNCHANGED handlerVars
  \/ Place(d) \in {"away", "command"} /\ Place(d)' \in {"away", "command"}

LEMMA FlowStays ==
  ASSUME NEW d, CommandFlow(d), AnswerFlow(d), ClientStays(d), ServerStays(d),
         inbox'[d] = inbox[d], ends'[d] = ends[d]
  PROVE  CommandFlow(d)' /\ AnswerFlow(d)'
<1>1. /\ \A n, asked, done :
           Ahead(Place(d), Len(params), asked, done) = Ahead(Place(d)', Len(params'), asked, done)
      /\ \A asked, done :
           HandlerAt(Place(d), op, params, asked, done)
             => HandlerAt(Place(d)', op', params', asked, done)
      /\ \A done, n : Written(Place(d), done, sent, n) = Written(Place(d)', done, sent', n)
      /\ Place(d)' = "answer" => Place(d) = "answer" /\ answer' = answer
  BY DEF ServerStays, Ahead, HandlerAt, Written, Handling, handlerVars
<1>2. Connected(d)' = Connected(d)
  BY DEF ClientStays, Connected
<1>3. CommandFlow(d)'
  <2>1. SUFFICES ASSUME ends'[d]["server"] = "open"
                 PROVE  \E asked, done, rest : CommandAt(d, asked, done, rest)'
    BY DEF CommandFlow
  <2>2. PICK asked, done, rest : CommandAt(d, asked, done, rest)
    BY <2>1 DEF CommandFlow
  <2>3. CommandAt(d, asked, done, rest)'
    BY <1>1, <1>2, <2>1, <2>2 DEF CommandAt, ClientStays
  <2>4. QED
    BY <2>3
<1>4. AnswerFlow(d)'
  <2>1. SUFFICES ASSUME Connected(d)'
                 PROVE  /\ call'[d] = <<>> => inbox'[d]["client"] = <<>>
                        /\ call'[d] # <<>> =>
                             \E result : \E r, m \in Nat : AnswerAt(d, result, r, m)'
    BY DEF AnswerFlow
  <2>2. /\ call[d] = <<>> => inbox[d]["client"] = <<>>
        /\ call[d] # <<>> => \E result : \E r, m \in Nat : AnswerAt(d, result, r, m)
    BY <1>2, <2>1 DEF AnswerFlow
  <2>3. ASSUME NEW result, NEW r \in Nat, NEW m \in Nat, AnswerAt(d, result, r, m)
        PROVE  AnswerAt(d, result, r, m)'
    BY <1>1, <1>2, <2>1, <2>3 DEF AnswerAt, ClientStays
  <2>4. QED
    BY <2>2, <2>3 DEF ClientStays
<1>5. QED
  BY <1>3, <1>4

(* The server's end is closed: the client can still read what was sent. *)
LEMMA FlowCutOff ==
  ASSUME NEW d, AnswerFlow(d), ClientStays(d),
         ends'[d]["server"] = "closed", inbox'[d]["client"] = inbox[d]["client"]
  PROVE  CommandFlow(d)' /\ AnswerFlow(d)'
<1>1. CommandFlow(d)'
  BY DEF CommandFlow
<1>2. Connected(d)' = Connected(d)
  BY DEF ClientStays, Connected
<1>3. AnswerFlow(d)'
  <2>1. SUFFICES ASSUME Connected(d)'
                 PROVE  /\ call'[d] = <<>> => inbox'[d]["client"] = <<>>
                        /\ call'[d] # <<>> =>
                             \E result : \E r, m \in Nat : AnswerAt(d, result, r, m)'
    BY DEF AnswerFlow
  <2>2. /\ call[d] = <<>> => inbox[d]["client"] = <<>>
        /\ call[d] # <<>> => \E result : \E r, m \in Nat : AnswerAt(d, result, r, m)
    BY <1>2, <2>1 DEF AnswerFlow
  <2>3. ASSUME NEW result, NEW r \in Nat, NEW m \in Nat, AnswerAt(d, result, r, m)
        PROVE  AnswerAt(d, result, r, m)'
    BY <1>2, <2>1, <2>3 DEF AnswerAt, ClientStays
  <2>4. QED
    BY <2>2, <2>3 DEF ClientStays
<1>4. QED
  BY <1>1, <1>3

(* What is recorded of the calls, and of those of the database. *)
LEMMA RecordIs ==
  ASSUME Record
  PROVE  /\ IsFunction(request)' /\ IsFunction(outcome)'
         /\ \A d \in Clients :
              /\ Recorded(d)'
              /\ Connected(d)' => request'[d] = call'[d]
              /\ ~Connected(d)' /\ ends'[d]["server"] = "open" => request'[d] = request[d]
              /\ outcome'[d] = IF request'[d] = <<>> THEN <<>>
                               ELSE IF d \in serving /\ phase = "database" /\ phase' = "answer"
                                 THEN answer' ELSE outcome[d]
BY DEF Record, Recorded, IsFunction, Connected

LEMMA RecordStays ==
  ASSUME ClientsInv, Record, NEW d \in Clients, call'[d] = call[d], stage'[d] = stage[d],
         ~(d \in serving /\ phase = "database" /\ phase' = "answer"),
         Connected(d) \/ ends'[d]["server"] = "open"
  PROVE  request'[d] = request[d] /\ outcome'[d] = outcome[d]
<1>1. Recorded(d) /\ Connected(d)' = Connected(d)
  BY DEF ClientsInv, ClientOk, Connected
<1>2. request'[d] = request[d]
  BY <1>1, RecordIs DEF Recorded
<1>3. QED
  BY <1>1, <1>2, RecordIs DEF Recorded

(* The clients do nothing. *)
LEMMA ClientsStayInv ==
  ASSUME ClientsInv, UNCHANGED clientVars, Record,
         \A c \in Clients : ends'[c]["client"] = ends[c]["client"]
  PROVE  /\ ClientsInv'
         /\ \A d \in Clients :
              ~(d \in serving /\ phase = "database" /\ phase' = "answer") => ClientStays(d)
<1>1. UNCHANGED <<stage, call, unsent, reads, told>>
  BY DEF clientVars
<1>2. IsFunction(request)' /\ IsFunction(outcome)' /\ \A c \in Clients : Recorded(c)'
  BY RecordIs
<1>3. ClientTypes'
  BY <1>1, <1>2 DEF ClientsInv, ClientTypes, IsFunction
<1>4. ClientsInv'
  BY <1>1, <1>2, <1>3 DEF ClientsInv, ClientOk
<1>5. QED
  BY <1>1, <1>4, RecordStays DEF ClientStays

(* Whom the server serves. *)
LEMMA ServedIs ==
  ASSUME DescriptorInv, NEW c \in serving
  PROVE  /\ serving = {c} /\ c \in Clients /\ ends[c]["server"] = "open"
         /\ phase \notin Free /\ Place(c) = phase
<1>1. c \in ToSet(connections) /\ c \in Held
  BY DEF DescriptorInv, Held
<1>2. c \in Clients
  BY <1>1 DEF DescriptorInv, ToSet
<1>3. ends[c]["server"] = "open"
  BY <1>1, <1>2 DEF DescriptorInv
<1>4. QED
  BY <1>2, <1>3 DEF DescriptorInv, Place

-----------------------------------------------------------------------------
(* The steps of the server.                                                *)

LEMMA EndsAreOk ==
  ASSUME DescriptorInv
  PROVE  EndsOk
BY DEF DescriptorInv, EndsOk

(* Nothing is under way for a server that waits in select. *)
LEMMA SelectInv ==
  ASSUME ExchangeInv, Start \/ AcceptClient \/ RegisterConnection \/ WaitForCommand,
         UNCHANGED clientVars, Record
  PROVE  FlowInv'
<1>1. /\ UNCHANGED <<inbox, ends, storeVars, handlerVars>>
      /\ phase \in Free /\ phase' \in Free \cup {"command"}
      /\ serving' = serving \/ phase' = "command"
  BY DEF Start, AcceptClient, RegisterConnection, WaitForCommand, Accept, netVars, Free
<1>2. serving = {}
  BY <1>1 DEF ExchangeInv, DescriptorInv
<1>3. \A d \in Clients : ServerStays(d)
  BY <1>1, <1>2 DEF ServerStays, Place
<1>4. ServerInv'
  BY <1>1 DEF ExchangeInv, FlowInv, ServerInv, Free, Phases, Handling, handlerVars
<1>5. StoreInv' /\ BuffersInv'
  BY <1>1 DEF ExchangeInv, FlowInv, StoreInv, BuffersInv, storeVars
<1>6. ClientsInv' /\ \A d \in Clients : ClientStays(d)
  BY <1>1, <1>2, ClientsStayInv DEF ExchangeInv, FlowInv
<1>7. \A d \in Clients : CommandFlow(d)' /\ AnswerFlow(d)'
  BY <1>1, <1>3, <1>6, FlowStays DEF ExchangeInv, FlowInv
<1>8. QED
  BY <1>4, <1>5, <1>6, <1>7 DEF FlowInv

(* A handler that is done has left nothing. *)
LEMMA DoneIs ==
  ASSUME HandlerDone, phase' \in Phases \ Handling
  PROVE  ServerInv'
BY DEF HandlerDone, ServerInv, Handling

(* The process ends. *)
LEMMA ExitFlowInv ==
  ASSUME ExchangeInv, Exit, UNCHANGED clientVars, Record
  PROVE  FlowInv'
<1>1. /\ phase' = "down" /\ serving' = {} /\ HandlerDone /\ UNCHANGED storeVars
      /\ Hangup(Held, "server")
  BY DEF Exit, Idle
<1>2. "server" \in Ends /\ Peer("server") = "client"
  BY DEF Ends, Peer
<1>3. /\ BuffersInv'
      /\ \A d \in Clients \cap Held :
           /\ ends'[d]["server"] = "closed" /\ ends'[d]["client"] = ends[d]["client"]
           /\ inbox'[d]["client"] = inbox[d]["client"]
      /\ \A d \in Clients \ Held : ends'[d] = ends[d] /\ inbox'[d] = inbox[d]
  BY <1>1, <1>2, EndsAreOk, HangupIs DEF ExchangeInv, FlowInv
<1>4. \A d \in Clients : /\ ends'[d]["server"] = "closed" /\ ends'[d]["client"] = ends[d]["client"]
                         /\ inbox'[d]["client"] = inbox[d]["client"]
  <2>1. ASSUME NEW d \in Clients, d \notin Held PROVE ends[d]["server"] = "closed"
    <3>1. ends[d]["server"] # "open" /\ ends[d]["server"] \in {"open", "closed"}
      BY <1>2, <2>1 DEF ExchangeInv, DescriptorInv
    <3>2. QED
      BY <3>1
  <2>2. QED
    BY <1>3, <2>1
<1>5. ServerInv'
  BY <1>1, DoneIs DEF Phases, Handling
<1>6. StoreInv'
  BY <1>1 DEF ExchangeInv, FlowInv, StoreInv, storeVars
<1>7. ClientsInv' /\ \A d \in Clients : ClientStays(d)
  BY <1>1, <1>4, ClientsStayInv DEF ExchangeInv, FlowInv
<1>8. \A d \in Clients : CommandFlow(d)' /\ AnswerFlow(d)'
  BY <1>4, <1>7, FlowCutOff DEF ExchangeInv, FlowInv
<1>9. QED
  BY <1>3, <1>5, <1>6, <1>7, <1>8 DEF FlowInv

(* The others, while one is served. *)
LEMMA OthersStay ==
  ASSUME ExchangeInv, NEW c \in serving, NEW d \in Clients \ {c},
         serving' \subseteq {c}, ClientStays(d),
         inbox'[d] = inbox[d], ends'[d] = ends[d]
  PROVE  CommandFlow(d)' /\ AnswerFlow(d)'
<1>1. d \notin serving /\ d \notin serving'
  BY ServedIs DEF ExchangeInv
<1>2. ServerStays(d)
  BY <1>1 DEF ServerStays, Place
<1>3. QED
  BY <1>2, FlowStays DEF ExchangeInv, FlowInv

LEMMA DropFlowInv ==
  ASSUME ExchangeInv, NEW c \in serving, Drop(c), UNCHANGED clientVars, Record
  PROVE  FlowInv'
<1>0. serving = {c} /\ c \in Clients
  BY ServedIs DEF ExchangeInv
<1>1. /\ phase' = "select" /\ serving' = {} /\ HandlerDone /\ UNCHANGED storeVars
      /\ Hangup({c}, "server")
  BY DEF Drop, Deregister, Idle
<1>2. "server" \in Ends /\ Peer("server") = "client"
  BY DEF Ends, Peer
<1>3. /\ BuffersInv'
      /\ ends'[c]["server"] = "closed" /\ ends'[c]["client"] = ends[c]["client"]
      /\ inbox'[c]["client"] = inbox[c]["client"]
      /\ \A d \in Clients \ {c} : ends'[d] = ends[d] /\ inbox'[d] = inbox[d]
  BY <1>0, <1>1, <1>2, EndsAreOk, HangupIs DEF ExchangeInv, FlowInv
<1>4. ServerInv'
  BY <1>1, DoneIs DEF Phases, Handling
<1>5. StoreInv'
  BY <1>1 DEF ExchangeInv, FlowInv, StoreInv, storeVars
<1>6. ClientsInv' /\ \A d \in Clients : ClientStays(d)
  BY <1>1, <1>3, ClientsStayInv DEF ExchangeInv, FlowInv
<1>7. CommandFlow(c)' /\ AnswerFlow(c)'
  BY <1>0, <1>3, <1>6, FlowCutOff DEF ExchangeInv, FlowInv
<1>8. \A d \in Clients \ {c} : CommandFlow(d)' /\ AnswerFlow(d)'
  BY <1>1, <1>3, <1>6, OthersStay
<1>9. QED
  BY <1>3, <1>4, <1>5, <1>6, <1>7, <1>8 DEF FlowInv

(* What the server reads is what it has still to read, and is expected.    *)
NextIs(c, token, rest, asked, done, ahead) ==
  /\ inbox[c]["server"] \in Seq(Tokens)
  /\ Tail(inbox[c]["server"]) \o rest = Tail(ahead)
  /\ token = ahead[1] /\ ahead # <<>>
  /\ Expected(c, token)
  /\ phase = "command" =>
       /\ asked \in AllCalls /\ ~done /\ token = <<Com[asked[1]]>>
       /\ Tail(ahead) = Ahead("ans", 0, asked, done)
  /\ phase = "params" =>
       /\ asked \in AllCalls /\ op = asked[1] /\ Len(params) + 1 \in 1..NParams(op)
       /\ token = Parameters(asked)[Len(params) + 1]
       /\ GoesOn(ahead, Len(params) + 1, asked, done)
  /\ phase = "end" => Tail(ahead) = Own(asked, done)

LEMMA NextIsExpected ==
  ASSUME ExchangeInv, NEW c \in serving, phase \in Reading,
         inbox[c]["server"] # <<>>, NEW asked, NEW done, NEW rest,
         CommandAt(c, asked, done, rest)
  PROVE  NextIs(c, Head(inbox[c]["server"]), rest, asked, done,
                Ahead(phase, Len(params), asked, done))
<1> DEFINE q == inbox[c]["server"]
           s == Ahead(phase, Len(params), asked, done)
<1>0. c \in Clients /\ Place(c) = phase
  BY ServedIs DEF ExchangeInv
<1>1. /\ asked \in AllCalls \cup {<<>>} /\ done \in BOOLEAN /\ rest \in Seq(Tokens)
      /\ q \o rest = s
      /\ HandlerAt(phase, op, params, asked, done)
  BY <1>0 DEF CommandAt
<1>2. q \in Seq(Tokens) /\ q # <<>>
  BY <1>0 DEF ExchangeInv, FlowInv, BuffersInv, Ends
<1>3. q \o rest = s
  BY <1>1
<1> HIDE DEF q, s
<1>4. Head(q) = s[1] /\ Tail(q) \o rest = Tail(s) /\ s # <<>>
  <2>1. rest \in Seq(Tokens)
    BY <1>1
  <2>2. Head(q) = (q \o rest)[1] /\ Tail(q) \o rest = Tail(q \o rest) /\ q \o rest # <<>>
    BY <1>2, <2>1, Takes
  <2>3. QED
    BY <1>3, <2>2
<1>5. CASE phase = "command"
  <2>1. s = Own(asked, done)
    BY <1>5 DEF s, Ahead, Handling
  <2>2. /\ asked \in AllCalls /\ ~done /\ asked[1] \in Operations
        /\ s[1] = <<Com[asked[1]]>> /\ Tail(s) = Ahead("ans", 0, asked, done)
    BY <1>1, <1>4, <2>1, FirstAhead
  <2>3. Expected(c, Head(q))
    BY <1>4, <1>5, <2>2 DEF Expected
  <2>4. QED
    BY <1>2, <1>4, <1>5, <2>2, <2>3 DEF NextIs, s, q
<1>6. CASE phase = "params"
  <2>1. /\ asked \in AllCalls /\ op = asked[1] /\ params \in Seq(Values)
        /\ Len(params) < NParams(op) /\ phase \in Handling
    BY <1>1, <1>6 DEF HandlerAt, Handling
  <2>2. Len(params) \in Nat /\ NParams(op) \in 0..4
    BY <2>1, ParametersAre, LenProperties
  <2>3. Len(params) + 1 \in 1..NParams(op) /\ Len(params) \in 0..NParams(asked[1])
    BY <2>1, <2>2
  <2>4. s[1] = Parameters(asked)[Len(params) + 1] /\ GoesOn(s, Len(params) + 1, asked, done)
    BY <2>1, <2>3, ParameterAhead DEF s
  <2>5. Head(q)[1] = ParamTypes[op][Len(params) + 1]
    BY <1>4, <2>1, <2>3, <2>4, ParametersAre
  <2>6. Expected(c, Head(q))
    BY <1>6, <2>5 DEF Expected
  <2>7. QED
    BY <1>2, <1>4, <1>6, <2>1, <2>3, <2>4, <2>6 DEF NextIs, s, q
<1>7. CASE phase = "end"
  <2>1. s[1] = <<"COM_END">> /\ Tail(s) = Own(asked, done)
    BY <1>1, <1>7, EndAhead DEF s
  <2>2. Expected(c, Head(q))
    BY <1>4, <1>7, <2>1 DEF Expected
  <2>3. QED
    BY <1>2, <1>4, <1>7, <2>1, <2>2 DEF NextIs, s, q
<1>8. QED
  BY <1>5, <1>6, <1>7 DEF Reading

(* What a client is told does not change while the server writes nothing.  *)
LEMMA AnswerStays ==
  ASSUME NEW d, AnswerFlow(d), ClientStays(d), ends'[d] = ends[d],
         inbox'[d]["client"] = inbox[d]["client"],
         Connected(d) =>
           \A n : Written(Place(d)', outcome[d] # <<>>, sent', n)
                    = Written(Place(d), outcome[d] # <<>>, sent, n),
         Place(d)' # "answer"
  PROVE  AnswerFlow(d)'
<1>1. SUFFICES ASSUME Connected(d)'
               PROVE  /\ call'[d] = <<>> => inbox'[d]["client"] = <<>>
                      /\ call'[d] # <<>> =>
                           \E result : \E r, m \in Nat : AnswerAt(d, result, r, m)'
  BY DEF AnswerFlow
<1>2. Connected(d)
  BY <1>1 DEF ClientStays, Connected
<1>3. /\ call[d] = <<>> => inbox[d]["client"] = <<>>
      /\ call[d] # <<>> => \E result : \E r, m \in Nat : AnswerAt(d, result, r, m)
  BY <1>2 DEF AnswerFlow
<1>4. ASSUME NEW result, NEW r \in Nat, NEW m \in Nat, AnswerAt(d, result, r, m)
      PROVE  AnswerAt(d, result, r, m)'
  BY <1>2, <1>4 DEF AnswerAt, ClientStays
<1>5. QED
  BY <1>3, <1>4 DEF ClientStays

(* The code of an operation. *)
LEMMA RecvCommandInv ==
  ASSUME ExchangeInv, NEW c \in serving, RecvCommand(c), UNCHANGED clientVars, Record
  PROVE  FlowInv'
<1>0. serving = {c} /\ c \in Clients /\ ends[c]["server"] = "open" /\ Place(c) = "command"
  BY ServedIs DEF ExchangeInv, RecvCommand
<1>1. /\ phase = "command" /\ phase' = "ans" /\ Read(c, "server")
      /\ op' = CHOOSE o \in Operations : Com[o] = Head(inbox[c]["server"])[1]
      /\ UNCHANGED <<serving, params, answer, sent, storeVars>>
  BY DEF RecvCommand, ReadExpected
<1>2. "server" \in Ends /\ Peer("server") = "client"
  BY DEF Ends, Peer
<1>3. /\ BuffersInv' /\ ends' = ends
      /\ \A d \in Clients \ {c} : inbox'[d] = inbox[d]
      /\ inbox[c]["server"] # <<>> /\ inbox'[c]["server"] = Tail(inbox[c]["server"])
      /\ inbox'[c]["client"] = inbox[c]["client"]
  BY <1>0, <1>1, <1>2, ReadIs DEF ExchangeInv, FlowInv
<1>4. PICK asked, done, rest : CommandAt(c, asked, done, rest)
  BY <1>0 DEF ExchangeInv, FlowInv, CommandFlow
<1>5. phase \in Reading /\ params = <<>> /\ answer = <<>> /\ sent = 0
  BY <1>1 DEF ExchangeInv, FlowInv, ServerInv, Reading, Handling
<1>6. /\ asked \in AllCalls /\ ~done
      /\ Head(inbox[c]["server"]) = <<Com[asked[1]]>>
      /\ Tail(inbox[c]["server"]) \o rest = Ahead("ans", 0, asked, done)
  <2>1. NextIs(c, Head(inbox[c]["server"]), rest, asked, done,
               Ahead(phase, Len(params), asked, done))
    BY <1>3, <1>4, <1>5, NextIsExpected
  <2>2. /\ asked \in AllCalls /\ ~done
        /\ Head(inbox[c]["server"]) = <<Com[asked[1]]>>
        /\ Tail(inbox[c]["server"]) \o rest = Tail(Ahead(phase, Len(params), asked, done))
        /\ Tail(Ahead(phase, Len(params), asked, done)) = Ahead("ans", 0, asked, done)
    BY <1>1, <2>1 DEF NextIs
  <2>3. QED
    BY <2>2, Zenon
<1>7. op' = asked[1] /\ asked[1] \in Operations
  <2>1. asked[1] \in Operations
    BY <1>6, CallShapes
  <2>2. Head(inbox[c]["server"])[1] = Com[asked[1]]
    BY <1>6
  <2>3. QED
    BY <1>1, <2>1, <2>2, ComIsInjective
<1>8. ClientsInv' /\ \A d \in Clients : ClientStays(d)
  BY <1>1, <1>3, ClientsStayInv DEF ExchangeInv, FlowInv
<1>9. Place(c)' = "ans"
  BY <1>0, <1>1 DEF Place
<1>10. CommandFlow(c)'
  <2>1. Len(params') = 0 /\ params' \in Seq(Values) /\ NParams(asked[1]) \in 0..4
    BY <1>1, <1>5, <1>6, ParametersAre
  <2>2. HandlerAt("ans", op', params', asked, done)
    <3>0. params' = <<>>
      BY <1>1, <1>5
    <3>1. Len(params') <= NParams(op')
      BY <1>7, <2>1
    <3> done = FALSE
      BY <1>4, <1>6 DEF CommandAt
    <3>2. \A i \in 1..Len(params') : params'[i] = Parameters(asked)[i][2]
      BY <2>1
    <3>3. QED
      BY <1>6, <1>7, <2>1, <3>0, <3>1, <3>2 DEF HandlerAt
  <2>3. Connected(c)' = Connected(c)
    BY <1>0, <1>8 DEF ClientStays, Connected
  <2>4. CommandAt(c, asked, done, rest)'
    BY <1>0, <1>3, <1>4, <1>6, <1>8, <1>9, <2>1, <2>2, <2>3 DEF CommandAt, ClientStays
  <2>5. QED
    BY <2>4 DEF CommandFlow
<1>11. AnswerFlow(c)'
  <2>1. Connected(c) => ~(outcome[c] # <<>>)
    BY <1>4, <1>6 DEF CommandAt
  <2>2. Connected(c) =>
          \A n : Written(Place(c)', outcome[c] # <<>>, sent', n)
                   = Written(Place(c), outcome[c] # <<>>, sent, n)
    BY <1>0, <1>9, <2>1 DEF Written
  <2>3. AnswerFlow(c) /\ ClientStays(c) /\ ends'[c] = ends[c] /\ Place(c)' # "answer"
    BY <1>0, <1>3, <1>8, <1>9 DEF ExchangeInv, FlowInv
  <2>4. QED
    BY <1>3, <2>2, <2>3, AnswerStays
<1>12. \A d \in Clients \ {c} : CommandFlow(d)' /\ AnswerFlow(d)'
  BY <1>0, <1>1, <1>3, <1>8, OthersStay
<1>13. ServerInv'
  BY <1>1, <1>5, <1>7 DEF ServerInv, Phases, Handling
<1>14. StoreInv'
  BY <1>1 DEF ExchangeInv, FlowInv, StoreInv, storeVars
<1>15. QED
  BY <1>3, <1>8, <1>10, <1>11, <1>12, <1>13, <1>14 DEF FlowInv

(* One of its parameters. *)
LEMMA RecvParamInv ==
  ASSUME ExchangeInv, NEW c \in serving, RecvParam(c), UNCHANGED clientVars, Record
  PROVE  FlowInv'
<1>0. serving = {c} /\ c \in Clients /\ ends[c]["server"] = "open" /\ Place(c) = "params"
  BY ServedIs DEF ExchangeInv, RecvParam
<1>1. /\ phase = "params" /\ phase' = PhaseAfter(Len(params) + 1) /\ Read(c, "server")
      /\ params' = Append(params, Head(inbox[c]["server"])[2])
      /\ UNCHANGED <<serving, op, answer, sent, storeVars>>
  BY DEF RecvParam, ReadExpected
<1>2. "server" \in Ends /\ Peer("server") = "client"
  BY DEF Ends, Peer
<1>3. /\ BuffersInv' /\ ends' = ends
      /\ \A d \in Clients \ {c} : inbox'[d] = inbox[d]
      /\ inbox[c]["server"] # <<>> /\ inbox'[c]["server"] = Tail(inbox[c]["server"])
      /\ inbox'[c]["client"] = inbox[c]["client"]
  BY <1>0, <1>1, <1>2, ReadIs DEF ExchangeInv, FlowInv
<1>4. PICK asked, done, rest : CommandAt(c, asked, done, rest)
  BY <1>0 DEF ExchangeInv, FlowInv, CommandFlow
<1>5. phase \in Reading /\ answer = <<>> /\ sent = 0 /\ op \in Operations
  BY <1>1 DEF ExchangeInv, FlowInv, ServerInv, Reading, Handling
<1> DEFINE n == Len(params)
           N == NParams(op)
           value == Head(inbox[c]["server"])[2]
<1>6. /\ asked \in AllCalls /\ op = asked[1] /\ n + 1 \in 1..N
      /\ Head(inbox[c]["server"]) = Parameters(asked)[n + 1]
      /\ GoesOn(Ahead(phase, n, asked, done), n + 1, asked, done)
      /\ Tail(inbox[c]["server"]) \o rest = Tail(Ahead(phase, n, asked, done))
  <2>1. NextIs(c, Head(inbox[c]["server"]), rest, asked, done, Ahead(phase, n, asked, done))
    BY <1>3, <1>4, <1>5, NextIsExpected
  <2>2. QED
    BY <1>1, <2>1 DEF NextIs
<1>7. /\ params \in Seq(Values) /\ \A i \in 1..n : params[i] = Parameters(asked)[i][2]
      /\ done = FALSE
  BY <1>0, <1>4 DEF CommandAt, HandlerAt, Handling
<1>8. value \in Values /\ value = Parameters(asked)[n + 1][2] /\ N \in 0..4
  BY <1>6, ParametersAre
<1> HIDE DEF value
<1>9. /\ params' \in Seq(Values) /\ Len(params') = n + 1 /\ n \in Nat
      /\ \A i \in 1..n + 1 : params'[i] = Parameters(asked)[i][2]
  <2>1. params' = Append(params, value)
    BY <1>1 DEF value
  <2>2. /\ params' \in Seq(Values) /\ Len(params') = n + 1 /\ n \in Nat
        /\ (\A i \in 1..n : params'[i] = params[i]) /\ params'[n + 1] = value
    BY <1>7, <1>8, <2>1, AppendProperties, LenProperties
  <2>3. QED
    BY <1>7, <1>8, <2>2
<1>10. phase' = (IF n + 1 = N THEN "database" ELSE "params") /\ Place(c)' = phase'
  BY <1>0, <1>1 DEF PhaseAfter, NParams, Place
<1>11. ClientsInv' /\ \A d \in Clients : ClientStays(d)
  BY <1>1, <1>3, ClientsStayInv DEF ExchangeInv, FlowInv
<1> HIDE DEF n, N
<1>12. CommandFlow(c)'
  <2>1. HandlerAt(phase', op', params', asked, done)
    <3>1. op' = asked[1] /\ op' = op /\ n + 1 <= N
      BY <1>1, <1>6
    <3>2. \A i \in 1..Len(params') : params'[i] = Parameters(asked)[i][2]
      BY <1>9
    <3>3. /\ phase' = "params" => Len(params') < N
          /\ phase' = "database" => Len(params') = N
          /\ Len(params') <= N /\ phase' \in {"database", "params"}
      BY <1>6, <1>8, <1>9, <1>10
    <3>4. QED
      BY <1>6, <1>7, <1>9, <3>1, <3>2, <3>3 DEF HandlerAt, N
  <2>2. phase' \in Handling
    BY <1>10 DEF Handling
  <2>3. Tail(inbox[c]["server"]) \o rest = Ahead(phase', Len(params'), asked, done)
    BY <1>6, <1>9, <2>2 DEF GoesOn
  <2>4. Connected(c)' = Connected(c)
    BY <1>0, <1>11 DEF ClientStays, Connected
  <2>5. CommandAt(c, asked, done, rest)'
    BY <1>0, <1>3, <1>4, <1>10, <1>11, <2>1, <2>3, <2>4 DEF CommandAt, ClientStays
  <2>6. QED
    BY <2>5 DEF CommandFlow
<1>13. AnswerFlow(c)'
  <2>1. \A x : Written(Place(c)', outcome[c] # <<>>, sent', x)
                 = Written(Place(c), outcome[c] # <<>>, sent, x)
    BY <1>0, <1>10 DEF Written
  <2>2. AnswerFlow(c) /\ ClientStays(c) /\ ends'[c] = ends[c] /\ Place(c)' # "answer"
    BY <1>0, <1>3, <1>10, <1>11 DEF ExchangeInv, FlowInv
  <2>3. QED
    BY <1>3, <2>1, <2>2, AnswerStays
<1>14. \A d \in Clients \ {c} : CommandFlow(d)' /\ AnswerFlow(d)'
  BY <1>0, <1>1, <1>3, <1>11, OthersStay
<1>15. ServerInv'
  BY <1>1, <1>5, <1>10 DEF ServerInv, Phases, Handling
<1>16. StoreInv'
  BY <1>1 DEF ExchangeInv, FlowInv, StoreInv, storeVars
<1>17. QED
  BY <1>3, <1>11, <1>12, <1>13, <1>14, <1>15, <1>16 DEF FlowInv

(* COM_END. *)
LEMMA RecvEndInv ==
  ASSUME ExchangeInv, NEW c \in serving, RecvEnd(c), UNCHANGED clientVars, Record
  PROVE  FlowInv'
<1>0. serving = {c} /\ c \in Clients /\ ends[c]["server"] = "open" /\ Place(c) = "end"
  BY ServedIs DEF ExchangeInv, RecvEnd
<1>1. /\ phase = "end" /\ phase' = "select" /\ Read(c, "server")
      /\ serving' = {} /\ HandlerDone /\ UNCHANGED storeVars
  BY DEF RecvEnd, ReadExpected, Idle
<1>2. "server" \in Ends /\ Peer("server") = "client"
  BY DEF Ends, Peer
<1>3. /\ BuffersInv' /\ ends' = ends
      /\ \A d \in Clients \ {c} : inbox'[d] = inbox[d]
      /\ inbox[c]["server"] # <<>> /\ inbox'[c]["server"] = Tail(inbox[c]["server"])
      /\ inbox'[c]["client"] = inbox[c]["client"]
  BY <1>0, <1>1, <1>2, ReadIs DEF ExchangeInv, FlowInv
<1>4. PICK asked, done, rest : CommandAt(c, asked, done, rest)
  BY <1>0 DEF ExchangeInv, FlowInv, CommandFlow
<1>5. phase \in Reading
  BY <1>1 DEF Reading
<1>6. Tail(inbox[c]["server"]) \o rest = Own(asked, done)
  <2>1. NextIs(c, Head(inbox[c]["server"]), rest, asked, done,
               Ahead(phase, Len(params), asked, done))
    BY <1>3, <1>4, <1>5, NextIsExpected
  <2>2. /\ Tail(inbox[c]["server"]) \o rest = Tail(Ahead(phase, Len(params), asked, done))
        /\ Tail(Ahead(phase, Len(params), asked, done)) = Own(asked, done)
    BY <1>1, <2>1 DEF NextIs
  <2>3. QED
    BY <2>2, Zenon
<1>7. ClientsInv' /\ \A d \in Clients : ClientStays(d)
  BY <1>1, <1>3, ClientsStayInv DEF ExchangeInv, FlowInv
<1>8. Place(c)' = "away"
  BY <1>1 DEF Place
<1>9. CommandFlow(c)'
  <2>1. HandlerAt("away", op', params', asked, done)
    BY DEF HandlerAt, Handling
  <2>2. Ahead("away", Len(params'), asked, done) = Own(asked, done)
    BY DEF Ahead, Handling
  <2>3. Connected(c)' = Connected(c)
    BY <1>0, <1>7 DEF ClientStays, Connected
  <2>4. CommandAt(c, asked, done, rest)'
    BY <1>0, <1>3, <1>4, <1>6, <1>7, <1>8, <2>1, <2>2, <2>3 DEF CommandAt, ClientStays
  <2>5. QED
    BY <2>4 DEF CommandFlow
<1>10. AnswerFlow(c)'
  <2>1. \A x : Written(Place(c)', outcome[c] # <<>>, sent', x)
                 = Written(Place(c), outcome[c] # <<>>, sent, x)
    BY <1>0, <1>8 DEF Written
  <2>2. AnswerFlow(c) /\ ClientStays(c) /\ ends'[c] = ends[c] /\ Place(c)' # "answer"
    BY <1>0, <1>3, <1>7, <1>8 DEF ExchangeInv, FlowInv
  <2>3. QED
    BY <1>3, <2>1, <2>2, AnswerStays
<1>11. \A d \in Clients \ {c} : CommandFlow(d)' /\ AnswerFlow(d)'
  BY <1>0, <1>1, <1>3, <1>7, OthersStay
<1>12. ServerInv'
  BY <1>1, DoneIs DEF Phases, Handling
<1>13. StoreInv'
  BY <1>1 DEF ExchangeInv, FlowInv, StoreInv, storeVars
<1>14. QED
  BY <1>3, <1>7, <1>9, <1>10, <1>11, <1>12, <1>13 DEF FlowInv

(* One token more of the answer to a client that is still there.           *)
LEMMA AnswerGrows ==
  ASSUME ExchangeInv, NEW c \in Clients, NEW token, NEW asked \in AllCalls, NEW result, NEW k \in Nat,
         IsResult(asked[1], result), k < Len(Full(asked[1], result)),
         token = Full(asked[1], result)[k + 1],
         ends[c]["server"] = "open", ends' = ends,
         Connected(c) =>
           /\ call[c] = asked /\ inbox'[c]["client"] = Append(inbox[c]["client"], token)
           /\ outcome[c] # <<>> => outcome[c] = <<asked, result>>
           /\ k >= 1 => outcome[c] # <<>>
           /\ \A n : Written(Place(c), outcome[c] # <<>>, sent, n) = k
           /\ Written(Place(c)', outcome[c] # <<>>, sent', Len(Full(asked[1], result))) = k + 1,
         ClientStays(c),
         Connected(c) => (Place(c)' = "answer" => answer' = outcome[c])
  PROVE  AnswerFlow(c)'
<1>1. SUFFICES ASSUME Connected(c)'
               PROVE  /\ call'[c] # <<>>
                      /\ \E x : \E r, m \in Nat : AnswerAt(c, x, r, m)'
  BY DEF AnswerFlow
<1>2. Connected(c)
  BY <1>1 DEF ClientStays, Connected
<1> DEFINE A == Full(asked[1], result)
           q == inbox[c]["client"]
<1>3. /\ call[c] = asked /\ call[c] # <<>>
      /\ inbox'[c]["client"] = Append(q, token)
      /\ Written(Place(c)', outcome[c] # <<>>, sent', Len(A)) = k + 1
      /\ \A n : Written(Place(c), outcome[c] # <<>>, sent, n) = k
  BY <1>2, CallShapes
<1>0. PICK x : \E r, m \in Nat : AnswerAt(c, x, r, m)
  BY <1>2, <1>3 DEF ExchangeInv, FlowInv, AnswerFlow
<1>4. PICK r \in Nat, m \in Nat : AnswerAt(c, x, r, m)
  BY <1>0
<1>5. /\ m = k /\ r <= k /\ q = SubSeq(Full(asked[1], x), r + 1, k)
      /\ IsResult(asked[1], x)
      /\ outcome[c] = <<>> => k <= 1
      /\ outcome[c] # <<>> => outcome[c] = <<asked, x>>
      /\ stage[c] = "sending" => r = 0
      /\ stage[c] = "reading" => reads[c] = ReadsAt(asked[1], x, r)
      /\ told[c] = ToldAt(asked[1], x, r)
  BY <1>3, <1>4 DEF AnswerAt
<1>6. Script(asked[1], x) /\ Script(asked[1], result) /\ asked[1] \in Operations
  BY <1>5, AnswerScript, CallShapes
<1>7. A \in Seq(Tokens) /\ Len(A) \in Nat
  BY <1>6, AnswerLength
<1>8. /\ q = SubSeq(A, r + 1, k)
      /\ ReadsAt(asked[1], x, r) = ReadsAt(asked[1], result, r)
      /\ ToldAt(asked[1], x, r) = ToldAt(asked[1], result, r)
  <2>1. CASE outcome[c] = <<>>
    <3>1. k <= 1
      BY <1>5, <2>1
    <3>2. r <= k
      BY <1>5
    <3>3. SameSoFar(asked[1], x, result, r, k)
      BY <1>6, <3>1, <3>2, NotYet
    <3>4. QED
      BY <1>5, <3>3 DEF SameSoFar
  <2>2. CASE outcome[c] # <<>>
    <3>1. outcome[c] = <<asked, x>> /\ outcome[c] = <<asked, result>>
      BY <1>2, <1>5, <2>2
    <3>2. x = result
      BY <3>1
    <3>3. QED
      BY <1>5, <3>2
  <2>3. QED
    BY <2>1, <2>2
<1> HIDE DEF A, q
<1>9. k < Len(A) /\ token = A[k + 1]
  BY DEF A
<1>10. Append(q, A[k + 1]) = SubSeq(A, r + 1, k + 1)
  <2>1. r <= k /\ k <= Len(A)
    BY <1>5, <1>7, <1>9
  <2>2. QED
    BY <1>7, <1>8, <1>9, <2>1, Window
<1>11. PICK w \in Nat : w = k + 1
  OBVIOUS
<1>12. AnswerAt(c, result, r, w)'
  <2>1. call'[c] = asked /\ outcome'[c] = outcome[c] /\ stage'[c] = stage[c]
        /\ reads'[c] = reads[c] /\ told'[c] = told[c]
    BY <1>3 DEF ClientStays
  <2>2. r <= k + 1 /\ k + 1 <= Len(A) /\ r < Len(A)
    BY <1>5, <1>7, <1>9
  <2>3. inbox'[c]["client"] = SubSeq(A, r + 1, k + 1)
    BY <1>3, <1>9, <1>10
  <2>4. outcome[c] = <<>> => k + 1 <= 1
    BY <1>2
  <2>5. outcome[c] # <<>> => outcome[c] = <<asked, result>>
    BY <1>2
  <2>6. QED
    BY <1>2, <1>3, <1>5, <1>8, <1>11, <2>1, <2>2, <2>3, <2>4, <2>5 DEF AnswerAt, A
<1>13. call'[c] # <<>>
  BY <1>3 DEF ClientStays
<1>14. QED
  BY <1>12, <1>13

(* The server writes to a client. *)
LEMMA SendAnsInv ==
  ASSUME ExchangeInv, NEW c \in serving, SendAns(c), UNCHANGED clientVars, Record
  PROVE  FlowInv'
<1>0. serving = {c} /\ c \in Clients /\ ends[c]["server"] = "open" /\ Place(c) = "ans"
  BY ServedIs DEF ExchangeInv, SendAns
<1>1. /\ phase = "ans" /\ phase' = PhaseAfter(0) /\ Write(c, "server", <<Ans[op]>>)
      /\ UNCHANGED <<serving, handlerVars, storeVars>>
  BY DEF SendAns
<1>2. "server" \in Ends /\ Peer("server") = "client"
  BY DEF Ends, Peer
<1>3. op \in Operations /\ answer = <<>> /\ sent = 0
  BY <1>1 DEF ExchangeInv, FlowInv, ServerInv, Handling
<1> DEFINE token == <<Ans[op]>>
<1>4. token \in Tokens
  BY <1>3 DEF Tokens, Codes
<1> HIDE DEF token
<1>5. /\ BuffersInv' /\ ends' = ends
      /\ \A d \in Clients \ {c} : inbox'[d] = inbox[d]
      /\ inbox'[c]["server"] = inbox[c]["server"]
      /\ ends[c]["client"] = "open" =>
           inbox'[c]["client"] = Append(inbox[c]["client"], token)
  <2>1. Write(c, "server", token)
    BY <1>1 DEF token
  <2>2. QED
    BY <1>0, <1>2, <1>4, <2>1, EndsAreOk, WriteIs DEF ExchangeInv, FlowInv
<1>6. PICK asked, done, rest : CommandAt(c, asked, done, rest)
  BY <1>0 DEF ExchangeInv, FlowInv, CommandFlow
<1>7. /\ asked \in AllCalls /\ op = asked[1] /\ params = <<>> /\ done = FALSE
  <2>1. HandlerAt("ans", op, params, asked, done) /\ "ans" \in Handling /\ done \in BOOLEAN
    BY <1>0, <1>6 DEF CommandAt, Handling
  <2>2. QED
    BY <2>1 DEF HandlerAt
<1>8. ClientsInv' /\ \A d \in Clients : ClientStays(d)
  BY <1>1, <1>5, ClientsStayInv DEF ExchangeInv, FlowInv
<1>9. phase' = (IF NParams(op) = 0 THEN "database" ELSE "params") /\ Place(c)' = phase'
  BY <1>0, <1>1 DEF PhaseAfter, NParams, Place
<1>10. Connected(c)' = Connected(c)
  BY <1>0, <1>8 DEF ClientStays, Connected
<1>11. UNCHANGED <<op, params, answer, sent>>
  BY <1>1 DEF handlerVars
<1>12. CommandFlow(c)'
  <2>1. HandlerAt(phase', op', params', asked, done)
    <3>1. Len(params') = 0 /\ params' \in Seq(Values) /\ NParams(asked[1]) \in 0..4
      BY <1>7, <1>11, ParametersAre
    <3>2. \A i \in 1..Len(params') : params'[i] = Parameters(asked)[i][2]
      BY <3>1
    <3>3. /\ phase' = "params" => Len(params') < NParams(op')
          /\ phase' = "database" => Len(params') = NParams(op')
          /\ Len(params') <= NParams(op') /\ phase' \in {"database", "params"}
      BY <1>7, <1>9, <1>11, <3>1
    <3>4. QED
      BY <1>7, <1>11, <3>1, <3>2, <3>3 DEF HandlerAt
  <2>2. phase' \in Handling /\ Place(c) \in Handling
    BY <1>0, <1>9 DEF Handling
  <2>3. Ahead(phase', Len(params'), asked, done) = Ahead(Place(c), Len(params), asked, done)
    BY <1>11, <2>2 DEF Ahead
  <2>4. CommandAt(c, asked, done, rest)'
    BY <1>0, <1>5, <1>6, <1>8, <1>9, <1>10, <2>1, <2>3 DEF CommandAt, ClientStays
  <2>5. QED
    BY <2>4 DEF CommandFlow
<1>13. AnswerFlow(c)'
  <2>1. PICK result : IsResult(asked[1], result)
    BY <1>3, <1>7, SomeResult
  <2>2. Script(asked[1], result)
    BY <1>7, <2>1, AnswerScript
  <2>3. Full(asked[1], result)[1] = token /\ 0 < Len(Full(asked[1], result))
    BY <1>7, <2>2, AnswerLength DEF Script, Accepted, token
  <2>4. ASSUME Connected(c)
        PROVE  /\ call[c] = asked /\ inbox'[c]["client"] = Append(inbox[c]["client"], token)
               /\ outcome[c] = <<>>
               /\ \A n : Written(Place(c), outcome[c] # <<>>, sent, n) = 0
               /\ Written(Place(c)', outcome[c] # <<>>, sent', Len(Full(asked[1], result))) = 0 + 1
    <3>1. call[c] = asked /\ outcome[c] = <<>>
      BY <1>0, <1>6, <1>7, <2>4 DEF CommandAt, ExchangeInv, FlowInv, ClientsInv, ClientOk, Recorded
    <3>2. ends[c]["client"] = "open"
      <4>1. stage[c] # "off"
        BY <2>4 DEF Connected
      <4>2. ends[c]["client"] # "closed" /\ ends[c]["client"] \in {"open", "closed"}
        BY <1>0, <4>1, EndsAreOk DEF ExchangeInv, FlowInv, ClientsInv, ClientTypes, ClientOk, EndsOk, Ends
      <4>3. QED
        BY <4>2
    <3>3. QED
      BY <1>0, <1>5, <1>9, <3>1, <3>2 DEF Written
  <2>5. 0 \in Nat /\ 0 + 1 = 1 /\ ~(0 >= 1)
    OBVIOUS
  <2>6. token = Full(asked[1], result)[0 + 1]
    BY <2>3, <2>5
  <2>7. Place(c)' # "answer"
    BY <1>9
  <2>8. ClientStays(c) /\ asked \in AllCalls
    BY <1>0, <1>7, <1>8
  <2>9. QED
    BY <1>0, <1>5, <2>1, <2>3, <2>4, <2>5, <2>6, <2>7, <2>8, AnswerGrows
<1>14. \A d \in Clients \ {c} : CommandFlow(d)' /\ AnswerFlow(d)'
  BY <1>0, <1>1, <1>5, <1>8, OthersStay
<1>15. ServerInv'
  BY <1>3, <1>9, <1>11 DEF ServerInv, Phases, Handling
<1>16. StoreInv'
  BY <1>1 DEF ExchangeInv, FlowInv, StoreInv, storeVars
<1>17. QED
  BY <1>5, <1>8, <1>12, <1>13, <1>14, <1>15, <1>16 DEF FlowInv

(* The call that the handler makes is the one that was asked for, once.    *)
LEMMA TheCallIs ==
  ASSUME ExchangeInv, NEW c \in serving, phase \in {"database", "answer"},
         NEW asked, NEW done, NEW rest, CommandAt(c, asked, done, rest)
  PROVE  /\ asked \in AllCalls /\ TheCall = asked /\ op = asked[1]
         /\ Len(params) = NParams(op) /\ NParams(op) \in 0..4
         /\ request[c] = asked /\ (Connected(c) => call[c] = asked)
         /\ phase = "database" => outcome[c] = <<>>
         /\ phase = "answer" => outcome[c] # <<>>
<1>1. c \in Clients /\ Place(c) = phase /\ phase \in Handling
  BY ServedIs DEF ExchangeInv, Handling
<1>2. HandlerAt(phase, op, params, asked, done) /\ done \in BOOLEAN
  BY <1>1 DEF CommandAt
<1>3. /\ asked \in AllCalls /\ op = asked[1]
      /\ phase = "database" => done = FALSE
      /\ phase = "answer" => done = TRUE
      /\ params \in Seq(Values) /\ Len(params) = NParams(op)
      /\ \A i \in 1..Len(params) : params[i] = Parameters(asked)[i][2]
  BY <1>1, <1>2 DEF HandlerAt
<1>4. Called(asked[1], params) = asked
  <2>1. Len(params) = NParams(asked[1])
        /\ \A i \in 1..NParams(asked[1]) : params[i] = Parameters(asked)[i][2]
    BY <1>3
  <2>2. QED
    BY <1>3, <2>1, ParametersAre
<1>5. TheCall = asked
  BY <1>3, <1>4 DEF TheCall
<1>6. /\ request[c] = asked /\ (Connected(c) => call[c] = asked)
      /\ phase = "database" => outcome[c] = <<>>
      /\ phase = "answer" => outcome[c] # <<>>
  BY <1>1, <1>3 DEF CommandAt, ExchangeInv, FlowInv, ClientsInv, ClientOk, Recorded
<1>7. NParams(op) \in 0..4
  BY <1>3, ParametersAre
<1>8. QED
  BY <1>3, <1>5, <1>6, <1>7

LEMMA CallDatabaseInv ==
  ASSUME ExchangeInv, NEW c \in serving, CallDatabase(c), UNCHANGED clientVars, Record
  PROVE  FlowInv'
<1>0. serving = {c} /\ c \in Clients /\ ends[c]["server"] = "open" /\ Place(c) = "database"
  BY ServedIs DEF ExchangeInv, CallDatabase
<1>1. /\ phase = "database" /\ phase' = "answer" /\ ServiceCall(TheCall)
      /\ UNCHANGED <<serving, op, params, sent, inbox, ends>>
  BY DEF CallDatabase, netVars
<1>2. PICK asked, done, rest : CommandAt(c, asked, done, rest)
  BY <1>0 DEF ExchangeInv, FlowInv, CommandFlow
<1>3. /\ asked \in AllCalls /\ TheCall = asked /\ op = asked[1] /\ done = FALSE
      /\ request[c] = asked /\ outcome[c] = <<>> /\ (Connected(c) => call[c] = asked)
  <2>1. phase \in {"database", "answer"}
    BY <1>1
  <2>2. /\ asked \in AllCalls /\ TheCall = asked /\ op = asked[1]
        /\ request[c] = asked /\ (Connected(c) => call[c] = asked)
        /\ phase = "database" => outcome[c] = <<>>
    BY <1>2, <2>1, TheCallIs
  <2>3. HandlerAt("database", op, params, asked, done) /\ done \in BOOLEAN
    BY <1>0, <1>2 DEF CommandAt
  <2>4. done = FALSE
    BY <2>3 DEF HandlerAt, Handling
  <2>5. QED
    BY <1>1, <2>2, <2>4
<1>4. PICK result : StoreInv' /\ answer' = <<asked, result>> /\ IsResult(asked[1], result)
  BY <1>1, <1>3, DatabaseAnswers DEF ExchangeInv, FlowInv
<1>5. UNCHANGED <<stage, call, unsent, reads, told>>
  BY DEF clientVars
<1>6. /\ ClientsInv'
      /\ \A d \in Clients \ {c} : ClientStays(d)
  BY <1>0, <1>1, ClientsStayInv DEF ExchangeInv, FlowInv
<1>7. Place(c)' = "answer" /\ Connected(c)' = Connected(c)
  BY <1>0, <1>1, <1>5 DEF Place, Connected
<1>8. request'[c] = asked /\ outcome'[c] = <<asked, result>> /\ outcome'[c] # <<>>
  <2>1. request'[c] = asked
    BY <1>0, <1>1, <1>3, <1>5, <1>7, RecordIs
  <2>2. outcome'[c] = answer'
    BY <1>0, <1>1, <1>3, <2>1, CallShapes, RecordIs
  <2>3. QED
    BY <1>4, <2>1, <2>2
<1>9. CommandFlow(c)'
  <2>1. HandlerAt("database", op, params, asked, FALSE)
    BY <1>0, <1>2, <1>3 DEF CommandAt
  <2>2. HandlerAt("answer", op', params', asked, TRUE)
    BY <1>1, <2>1 DEF HandlerAt, Handling
  <2>3. Ahead("answer", Len(params'), asked, TRUE) = Ahead("database", Len(params), asked, done)
    BY <1>1 DEF Ahead, Handling
  <2>4. CommandAt(c, asked, TRUE, rest)'
    <3>1. /\ asked \in AllCalls \cup {<<>>} /\ TRUE \in BOOLEAN /\ rest \in Seq(Tokens)
          /\ inbox'[c]["server"] \o rest = Ahead("answer", Len(params'), asked, TRUE)
      BY <1>0, <1>1, <1>2, <1>3, <2>3 DEF CommandAt
    <3>2. Connected(c) => rest = unsent'[c]
      BY <1>2, <1>5 DEF CommandAt
    <3>3. QED
      BY <1>7, <1>8, <2>2, <3>1, <3>2 DEF CommandAt
  <2>5. QED
    BY <2>4 DEF CommandFlow
<1>10. AnswerFlow(c)'
  <2>1. SUFFICES ASSUME Connected(c)'
                 PROVE  /\ call'[c] # <<>>
                        /\ \E x : \E r, m \in Nat : AnswerAt(c, x, r, m)'
    BY DEF AnswerFlow
  <2>2. /\ Connected(c) /\ call[c] = asked /\ call[c] # <<>> /\ outcome[c] = <<>>
        /\ outcome'[c] = <<asked, result>>
    BY <1>3, <1>7, <1>8, <2>1, CallShapes
  <2>0. PICK x : \E r, m \in Nat : AnswerAt(c, x, r, m)
    BY <1>0, <2>2 DEF ExchangeInv, FlowInv, AnswerFlow
  <2>3. PICK r \in Nat, m \in Nat : AnswerAt(c, x, r, m)
    BY <2>0
  <2>4. /\ m = 1 /\ r <= 1 /\ inbox[c]["client"] = SubSeq(Full(asked[1], x), r + 1, m)
        /\ IsResult(asked[1], x)
        /\ stage[c] = "sending" => r = 0
        /\ stage[c] = "reading" => reads[c] = ReadsAt(asked[1], x, r)
        /\ told[c] = ToldAt(asked[1], x, r)
    BY <1>0, <2>2, <2>3 DEF AnswerAt, Written
  <2>5. Script(asked[1], x) /\ Script(asked[1], result) /\ asked[1] \in Operations
    BY <1>3, <1>4, <2>4, AnswerScript, CallShapes
  <2>6. Len(Full(asked[1], result)) \in Nat /\ Len(Full(asked[1], result)) >= 3
    BY <2>5, AnswerLength
  <2>7. r <= m /\ m <= 1
    BY <2>4
  <2>8. /\ SubSeq(Full(asked[1], x), r + 1, m) = SubSeq(Full(asked[1], result), r + 1, m)
        /\ ReadsAt(asked[1], x, r) = ReadsAt(asked[1], result, r)
        /\ ToldAt(asked[1], x, r) = ToldAt(asked[1], result, r)
    <3>1. SameSoFar(asked[1], x, result, r, m)
      BY <2>5, <2>7, NotYet
    <3>2. QED
      BY <3>1 DEF SameSoFar
  <2>9. sent' = 0
    BY <1>1 DEF ExchangeInv, FlowInv, ServerInv
  <2>10. Written("answer", TRUE, sent', Len(Full(asked[1], result))) = m
    BY <2>4, <2>9 DEF Written
  <2>11. AnswerAt(c, result, r, m)'
    <3>1. call'[c] = asked /\ stage'[c] = stage[c] /\ reads'[c] = reads[c] /\ told'[c] = told[c]
          /\ inbox'[c]["client"] = inbox[c]["client"]
      BY <1>1, <1>5, <2>2
    <3>2. r <= m /\ m <= Len(Full(asked[1], result)) /\ r < Len(Full(asked[1], result)) /\ m <= 1
      BY <2>4, <2>6, <2>7
    <3>3. outcome'[c] # <<>> /\ answer' = outcome'[c]
      BY <1>4, <2>2
    <3>4. Written(Place(c)', outcome'[c] # <<>>, sent', Len(Full(asked[1], result))) = m
      BY <1>7, <2>10, <3>3 DEF Written
    <3>5. /\ inbox'[c]["client"] = SubSeq(Full(asked[1], result), r + 1, m)
          /\ stage'[c] = "sending" => r = 0
          /\ stage'[c] = "reading" => reads'[c] = ReadsAt(asked[1], result, r)
          /\ told'[c] = ToldAt(asked[1], result, r)
      BY <2>4, <2>8, <3>1
    <3>6. outcome'[c] = <<call'[c], result>>
      BY <2>2, <3>1
    <3>7. QED
      BY <1>4, <3>1, <3>2, <3>3, <3>4, <3>5, <3>6 DEF AnswerAt
  <2>12. QED
    BY <2>2, <2>11, <1>5
<1>11. \A d \in Clients \ {c} : CommandFlow(d)' /\ AnswerFlow(d)'
  BY <1>0, <1>1, <1>6, OthersStay
<1>12. ServerInv'
  <2>1. Script(asked[1], result)
    BY <1>3, <1>4, AnswerScript
  <2>2. Len(Full(asked[1], result)) \in Nat /\ Len(Full(asked[1], result)) >= 3
    BY <2>1, AnswerLength
  <2>3. sent' = 0 /\ op' = asked[1] /\ TheCall' = asked
    BY <1>1, <1>3 DEF ExchangeInv, FlowInv, ServerInv, TheCall
  <2>4. op' \in Operations
    BY <1>3, <2>3, CallShapes
  <2>5. sent' \in Nat /\ sent' + 1 < Len(Full(op', result))
    BY <2>2, <2>3
  <2>6. QED
    BY <1>1, <1>3, <1>4, <2>3, <2>4, <2>5 DEF ServerInv, Phases, Handling
<1>13. BuffersInv'
  BY <1>1 DEF ExchangeInv, FlowInv, BuffersInv
<1>14. QED
  BY <1>4, <1>6, <1>9, <1>10, <1>11, <1>12, <1>13 DEF FlowInv

LEMMA SendAnswerInv ==
  ASSUME ExchangeInv, NEW c \in serving, SendAnswer(c), UNCHANGED clientVars, Record
  PROVE  FlowInv'
<1>0. serving = {c} /\ c \in Clients /\ ends[c]["server"] = "open" /\ Place(c) = "answer"
  BY ServedIs DEF ExchangeInv, SendAnswer
<1>1. phase = "answer" /\ Write(c, "server", ToSend[sent + 1]) /\ UNCHANGED <<serving, storeVars>>
  BY DEF SendAnswer
<1>2. "server" \in Ends /\ Peer("server") = "client"
  BY DEF Ends, Peer
<1>3. PICK asked, done, rest : CommandAt(c, asked, done, rest)
  BY <1>0 DEF ExchangeInv, FlowInv, CommandFlow
<1>4. /\ asked \in AllCalls /\ TheCall = asked /\ op = asked[1] /\ done = TRUE
      /\ Len(params) = NParams(op) /\ NParams(op) \in 0..4
      /\ Connected(c) => call[c] = asked /\ outcome[c] # <<>>
  <2>1. phase \in {"database", "answer"}
    BY <1>1
  <2>2. /\ asked \in AllCalls /\ TheCall = asked /\ op = asked[1]
        /\ Len(params) = NParams(op) /\ NParams(op) \in 0..4
        /\ request[c] = asked /\ (Connected(c) => call[c] = asked)
        /\ phase = "answer" => outcome[c] # <<>>
    BY <1>3, <2>1, TheCallIs
  <2>3. HandlerAt("answer", op, params, asked, done) /\ done \in BOOLEAN
    BY <1>0, <1>3 DEF CommandAt
  <2>4. done = TRUE
    BY <2>3 DEF HandlerAt, Handling
  <2>5. QED
    BY <1>1, <2>2, <2>4
<1>5. PICK result : /\ answer = <<asked, result>> /\ IsResult(asked[1], result)
                    /\ sent \in Nat /\ sent + 1 < Len(Full(asked[1], result))
  BY <1>1, <1>4 DEF ExchangeInv, FlowInv, ServerInv
<1> DEFINE A == Full(asked[1], result)
           token == A[(sent + 1) + 1]
<1>6. A \in Seq(Tokens) /\ Len(A) \in Nat
  BY <1>4, <1>5, AnswerScript, AnswerLength
<1>7. token \in Tokens
  <2>1. (sent + 1) + 1 \in 1..Len(A)
    BY <1>5, <1>6
  <2> HIDE DEF A
  <2>2. QED
    BY <1>6, <2>1
<1>8. ToSend[sent + 1] = token /\ Len(ToSend) = Len(A) - 1
  <2>1. ToSend = Answer(asked, result)
    BY <1>5 DEF ToSend
  <2>2. Answer(asked, result)[sent + 1] = token /\ Len(Answer(asked, result)) = Len(A) - 1
    BY <1>4, <1>5, AnswerTokens
  <2>3. QED
    BY <2>1, <2>2, Zenon
<1> HIDE DEF A, token
<1>9. /\ BuffersInv' /\ ends' = ends
      /\ \A d \in Clients \ {c} : inbox'[d] = inbox[d]
      /\ inbox'[c]["server"] = inbox[c]["server"]
      /\ ends[c]["client"] = "open" =>
           inbox'[c]["client"] = Append(inbox[c]["client"], token)
  <2>1. Write(c, "server", token)
    BY <1>1, <1>8
  <2>2. QED
    BY <1>0, <1>2, <1>7, <2>1, EndsAreOk, WriteIs DEF ExchangeInv, FlowInv
<1>10. ClientsInv' /\ \A d \in Clients : ClientStays(d)
  BY <1>1, <1>9, ClientsStayInv DEF ExchangeInv, FlowInv
<1>11. Connected(c)' = Connected(c)
  BY <1>0, <1>10 DEF ClientStays, Connected
<1>12. Connected(c) => outcome[c] = answer /\ ends[c]["client"] = "open"
  <2>1. SUFFICES ASSUME Connected(c) PROVE outcome[c] = answer /\ ends[c]["client"] = "open"
    OBVIOUS
  <2>2. call[c] # <<>>
    BY <1>4, <2>1, CallShapes
  <2>3. PICK x : \E r, m \in Nat : AnswerAt(c, x, r, m)
    BY <1>0, <2>1, <2>2 DEF ExchangeInv, FlowInv, AnswerFlow
  <2>4. outcome[c] = answer
    BY <1>0, <2>3 DEF AnswerAt
  <2>5. stage[c] # "off"
    BY <2>1 DEF Connected
  <2>6. ends[c]["client"] # "closed" /\ ends[c]["client"] \in {"open", "closed"}
    BY <1>0, <2>5, EndsAreOk DEF ExchangeInv, FlowInv, ClientsInv, ClientTypes, ClientOk, EndsOk, Ends
  <2>7. QED
    BY <2>4, <2>6
<1>13. \/ /\ sent + 2 = Len(A) /\ phase' = "end" /\ HandlerDone
       \/ /\ sent + 2 < Len(A) /\ phase' = "answer" /\ sent' = sent + 1
          /\ UNCHANGED <<op, params, answer>>
  <2>1. \/ sent + 1 = Len(ToSend) /\ phase' = "end" /\ HandlerDone
        \/ /\ sent + 1 # Len(ToSend) /\ phase' = "answer" /\ sent' = sent + 1
           /\ UNCHANGED <<op, params, answer>>
    BY <1>1 DEF SendAnswer, AfterAnswer
  <2>2. sent + 1 < Len(A)
    BY <1>5 DEF A
  <2>3. QED
    BY <1>5, <1>6, <1>8, <2>1, <2>2
<1>14. Place(c)' = phase'
  BY <1>0, <1>1 DEF Place
<1>15. CommandFlow(c)'
  <2>1. HandlerAt("answer", op, params, asked, done)
        /\ inbox[c]["server"] \o rest = Ahead("answer", Len(params), asked, done)
    BY <1>0, <1>3 DEF CommandAt
  <2>2. CASE phase' = "answer" /\ UNCHANGED <<op, params>>
    <3>1. CommandAt(c, asked, done, rest)'
      BY <1>0, <1>3, <1>9, <1>10, <1>11, <1>14, <2>1, <2>2 DEF CommandAt, ClientStays
    <3>2. QED
      BY <3>1 DEF CommandFlow
  <2>3. CASE phase' = "end"
    <3>1. Len(params) = NParams(asked[1]) /\ Len(params) \in 0..NParams(asked[1])
      BY <1>4
    <3>2. "answer" \in Handling
      BY DEF Handling
    <3> DEFINE n == Len(params)
               s == Ahead("answer", n, asked, done)
    <3> HIDE DEF n, s
    <3>3. Ahead("answer", Len(params), asked, done) = <<<<"COM_END">>>>
      <4>1. s = Ahead("answer", n, asked, done)
        BY DEF s
      <4>2. n \in 0..NParams(asked[1]) /\ n = NParams(asked[1])
        BY <3>1 DEF n
      <4>3. asked \in AllCalls
        BY <1>4
      <4>4. s = <<<<"COM_END">>>>
        BY <3>2, <4>1, <4>2, <4>3, ParameterAhead
      <4>5. QED
        BY <4>4 DEF s, n
    <3> DEFINE e == <<<<"COM_END">>>>
    <3>4. e \in Seq(Tokens)
      BY DEF Tokens, Codes
    <3>5. Ahead("end", Len(params'), asked, done) = e \o <<>>
      BY <1>4 DEF Ahead, Own, Handling
    <3> HIDE DEF e
    <3>6. e \o <<>> = e
      BY <3>4, ConcatEmptySeq
    <3>7. inbox[c]["server"] \o rest = Ahead("end", Len(params'), asked, done)
      BY <2>1, <3>3, <3>5, <3>6 DEF e
    <3>8. HandlerAt("end", op', params', asked, done)
      BY DEF HandlerAt, Handling
    <3>9. CommandAt(c, asked, done, rest)'
      BY <1>0, <1>3, <1>9, <1>10, <1>11, <1>14, <2>3, <3>7, <3>8 DEF CommandAt, ClientStays
    <3>10. QED
      BY <3>9 DEF CommandFlow
  <2>4. QED
    BY <1>13, <2>2, <2>3
<1>16. AnswerFlow(c)'
  <2>1. PICK k \in Nat : k = sent + 1
    BY <1>5
  <2>2. k < Len(A) /\ token = A[k + 1] /\ k >= 1
    BY <1>5, <2>1 DEF A, token
  <2>3. ASSUME Connected(c)
        PROVE  /\ call[c] = asked /\ inbox'[c]["client"] = Append(inbox[c]["client"], token)
               /\ outcome[c] = <<asked, result>> /\ outcome[c] # <<>>
               /\ \A n : Written(Place(c), outcome[c] # <<>>, sent, n) = k
               /\ Written(Place(c)', outcome[c] # <<>>, sent', Len(A)) = k + 1
    <3>1. call[c] = asked /\ outcome[c] = <<asked, result>> /\ outcome[c] # <<>>
      BY <1>4, <1>5, <1>12, <2>3
    <3>2. inbox'[c]["client"] = Append(inbox[c]["client"], token)
      BY <1>9, <1>12, <2>3
    <3>3. \A n : Written(Place(c), outcome[c] # <<>>, sent, n) = k
      BY <1>0, <2>1 DEF Written
    <3>4. Written(Place(c)', outcome[c] # <<>>, sent', Len(A)) = k + 1
      <4>1. CASE phase' = "end" /\ sent + 2 = Len(A)
        BY <1>5, <1>14, <2>1, <3>1, <4>1 DEF Written
      <4>2. CASE phase' = "answer" /\ sent' = sent + 1
        BY <1>5, <1>14, <2>1, <4>2 DEF Written
      <4>3. QED
        BY <1>13, <4>1, <4>2
    <3>5. QED
      BY <3>1, <3>2, <3>3, <3>4
  <2>4. ASSUME Place(c)' = "answer" PROVE answer' = answer
    BY <1>13, <1>14, <2>4
  <2>5. Connected(c) => (Place(c)' = "answer" => answer' = outcome[c])
    BY <1>12, <2>4
  <2>6. ClientStays(c) /\ asked \in AllCalls /\ IsResult(asked[1], result)
    BY <1>0, <1>4, <1>5, <1>10
  <2>7. QED
    BY <1>0, <1>9, <2>2, <2>3, <2>5, <2>6, AnswerGrows DEF A
<1>17. \A d \in Clients \ {c} : CommandFlow(d)' /\ AnswerFlow(d)'
  BY <1>0, <1>1, <1>9, <1>10, OthersStay
<1>18. ServerInv'
  <2>1. CASE phase' = "end" /\ HandlerDone
    BY <2>1, DoneIs DEF Phases, Handling
  <2>2. CASE sent + 2 < Len(A) /\ phase' = "answer" /\ sent' = sent + 1
             /\ UNCHANGED <<op, params, answer>>
    <3>1. op' = op /\ answer' = answer /\ TheCall' = TheCall
      BY <2>2 DEF TheCall
    <3>2. sent' \in Nat /\ sent' + 1 < Len(Full(op', answer'[2]))
      BY <1>4, <1>5, <2>2 DEF A
    <3>3. QED
      BY <1>1, <2>2, <3>1, <3>2 DEF ExchangeInv, FlowInv, ServerInv
  <2>3. QED
    BY <1>13, <2>1, <2>2
<1>19. StoreInv'
  BY <1>1 DEF ExchangeInv, FlowInv, StoreInv, storeVars
<1>20. QED
  BY <1>9, <1>10, <1>15, <1>16, <1>17, <1>18, <1>19 DEF FlowInv

-----------------------------------------------------------------------------
(* The steps of a client.                                                  *)

(* The other clients do not notice. *)
Alone(c) ==
  \A d \in Clients \ {c} :
    /\ stage'[d] = stage[d] /\ call'[d] = call[d] /\ unsent'[d] = unsent[d]
    /\ reads'[d] = reads[d] /\ told'[d] = told[d]
    /\ inbox'[d] = inbox[d] /\ ends'[d] = ends[d]

LEMMA ClientStep ==
  ASSUME ExchangeInv, NEW c \in Clients, UNCHANGED <<storeVars, serverVars>>, Record,
         Alone(c)
  PROVE  /\ ServerInv' /\ StoreInv'
         /\ \A d \in Clients \ {c} : CommandFlow(d)' /\ AnswerFlow(d)'
         /\ UNCHANGED <<phase, serving, op, params, answer, sent>>
         /\ IsFunction(request)' /\ IsFunction(outcome)' /\ Recorded(c)'
         /\ Connected(c)' /\ call'[c] # <<>> => outcome'[c] = outcome[c]
         /\ ~Connected(c)' /\ ends'[c]["server"] = "open" =>
              request'[c] = request[c] /\ outcome'[c] = outcome[c]
         /\ \A d \in Clients \ {c} : ClientOk(d)'
<1>1. UNCHANGED <<groups, articles, usedGroupIds, usedArticleIds, connections, pending_socket,
                  phase, serving, op, params, answer, sent>>
  BY DEF storeVars, serverVars
<1>2. ServerInv'
  BY <1>1 DEF ExchangeInv, FlowInv, ServerInv, TheCall
<1>3. StoreInv'
  BY <1>1 DEF ExchangeInv, FlowInv, StoreInv
<1>4. /\ IsFunction(request)' /\ IsFunction(outcome)' /\ Recorded(c)'
      /\ Connected(c)' => request'[c] = call'[c]
      /\ ~Connected(c)' /\ ends'[c]["server"] = "open" => request'[c] = request[c]
      /\ outcome'[c] = IF request'[c] = <<>> THEN <<>> ELSE outcome[c]
      /\ request[c] = <<>> => outcome[c] = <<>>
  BY <1>1, RecordIs DEF ExchangeInv, FlowInv, ClientsInv, ClientOk, Recorded
<1>5. ASSUME NEW d \in Clients \ {c}
      PROVE  CommandFlow(d)' /\ AnswerFlow(d)' /\ ClientOk(d)'
  <2>1. Connected(d) \/ ends'[d]["server"] = "open" =>
          request'[d] = request[d] /\ outcome'[d] = outcome[d]
    BY <1>1, RecordStays DEF Alone, ExchangeInv, FlowInv
  <2>2. ClientStays(d) /\ inbox'[d] = inbox[d] /\ ends'[d] = ends[d]
    BY <2>1 DEF ClientStays, Alone
  <2>3. ServerStays(d)
    BY <1>1 DEF ServerStays, Place, handlerVars
  <2>4. CommandFlow(d)' /\ AnswerFlow(d)'
    BY <2>2, <2>3, FlowStays DEF ExchangeInv, FlowInv
  <2>5. ClientOk(d) /\ ClientOk(d)'
    BY <2>2, RecordIs DEF ClientStays, ExchangeInv, FlowInv, ClientsInv, ClientOk
  <2>6. QED
    BY <2>4, <2>5
<1>6. QED
  BY <1>1, <1>2, <1>3, <1>4, <1>5

(* A client that is new to the server. *)
LEMMA ConnectFlowInv ==
  ASSUME ExchangeInv, NEW c \in Clients, ConnectToServer(c),
         UNCHANGED <<storeVars, serverVars>>, Record
  PROVE  FlowInv'
<1>1. /\ stage[c] = "off" /\ ends[c]["server"] = "closed"
      /\ ends' = [ends EXCEPT ![c] = [end \in Ends |-> "open"]]
      /\ stage' = [stage EXCEPT ![c] = "ready"]
      /\ UNCHANGED <<inbox, call, unsent, reads, told>>
  BY DEF ConnectToServer, Connect
<1>2. ClientTypes /\ ClientOk(c) /\ EndsOk /\ BuffersInv
  BY EndsAreOk DEF ExchangeInv, FlowInv, ClientsInv
<1>3. /\ \A end \in Ends : ends'[c][end] = "open"
      /\ stage'[c] = "ready"
      /\ \A d \in Clients \ {c} : stage'[d] = stage[d] /\ ends'[d] = ends[d]
  BY <1>1, <1>2 DEF ClientTypes, EndsOk
<1>4. Alone(c)
  BY <1>1, <1>3 DEF Alone
<1>5. /\ ServerInv' /\ StoreInv'
      /\ \A d \in Clients \ {c} : CommandFlow(d)' /\ AnswerFlow(d)'
      /\ UNCHANGED <<phase, serving, op, params, answer, sent>>
      /\ IsFunction(request)' /\ IsFunction(outcome)' /\ Recorded(c)'
      /\ \A d \in Clients \ {c} : ClientOk(d)'
  BY <1>4, ClientStep
<1>6. /\ call[c] = <<>> /\ unsent[c] = <<>> /\ reads[c] = <<>> /\ told[c] = <<>>
      /\ ends[c]["client"] = "closed"
      /\ inbox[c]["client"] = <<>> /\ inbox[c]["server"] = <<>>
  BY <1>1, <1>2 DEF ClientOk, BuffersInv, Ends
<1>7. BuffersInv'
  BY <1>1, <1>2, <1>3 DEF BuffersInv
<1>8. ClientsInv'
  <2>1. ClientTypes'
    BY <1>1, <1>2, <1>5 DEF ClientTypes, ClientStages, IsFunction
  <2>2. ClientOk(c)'
    BY <1>1, <1>3, <1>5, <1>6 DEF ClientOk, Ends
  <2>3. QED
    BY <1>5, <2>1, <2>2 DEF ClientsInv
<1>9. Place(c)' = "away"
  <2>1. c \notin serving
    BY <1>1, ServedIs DEF ExchangeInv
  <2>2. QED
    BY <1>5, <2>1 DEF Place
<1>10. CommandFlow(c)'
  <2>1. CommandAt(c, <<>>, FALSE, <<>>)'
    <3>1. /\ <<>> \in AllCalls \cup {<<>>} /\ FALSE \in BOOLEAN /\ <<>> \in Seq(Tokens)
      OBVIOUS
    <3>2. inbox'[c]["server"] \o <<>> = <<>>
      BY <1>1, <1>6
    <3>3. Ahead("away", Len(params'), <<>>, FALSE) = <<>>
      BY DEF Ahead, Own, Handling
    <3>4. HandlerAt("away", op', params', <<>>, FALSE)
      BY DEF HandlerAt, Handling
    <3>5. <<>> = request'[c] /\ (FALSE <=> outcome'[c] # <<>>) /\ <<>> = unsent'[c]
      BY <1>1, <1>3, <1>5, <1>6 DEF Recorded, Connected
    <3>6. QED
      BY <1>9, <3>1, <3>2, <3>3, <3>4, <3>5 DEF CommandAt
  <2>2. QED
    BY <2>1 DEF CommandFlow
<1>11. AnswerFlow(c)'
  BY <1>1, <1>6 DEF AnswerFlow
<1>12. QED
  BY <1>5, <1>7, <1>8, <1>10, <1>11 DEF FlowInv

(* A process that has gone, or fallen silent: what it had sent is still    *)
(* the server's to read.                                                   *)
LEMMA GoneFlow ==
  ASSUME NEW c, CommandFlow(c), ends'[c]["server"] = ends[c]["server"],
         inbox'[c]["server"] = inbox[c]["server"], ~Connected(c)',
         ends'[c]["server"] = "open" => request'[c] = request[c] /\ outcome'[c] = outcome[c],
         UNCHANGED <<phase, serving, op, params>>
  PROVE  CommandFlow(c)' /\ AnswerFlow(c)'
<1>1. SUFFICES ASSUME ends[c]["server"] = "open" PROVE CommandFlow(c)'
  BY DEF CommandFlow, AnswerFlow
<1>2. PICK asked, done, rest : CommandAt(c, asked, done, rest)
  BY <1>1 DEF CommandFlow
<1>3. Place(c)' = Place(c)
  BY DEF Place
<1>4. CommandAt(c, asked, done, rest)'
  BY <1>1, <1>2, <1>3 DEF CommandAt
<1>5. QED
  BY <1>4 DEF CommandFlow

LEMMA ForgetsIs ==
  ASSUME ClientTypes, NEW c \in Clients, NEW where \in ClientStages,
         stage' = [stage EXCEPT ![c] = where], Forget(c), IsFunction(request)', IsFunction(outcome)'
  PROVE  ClientTypes'
<1>1. /\ call' = [call EXCEPT ![c] = <<>>] /\ unsent' = [unsent EXCEPT ![c] = <<>>]
      /\ reads' = [reads EXCEPT ![c] = <<>>] /\ told' = [told EXCEPT ![c] = <<>>]
  BY DEF Forget
<1>2. stage' \in [Clients -> ClientStages]
  BY DEF ClientTypes
<1>3. call' \in [Clients -> AllCalls \cup {<<>>}]
  BY <1>1 DEF ClientTypes
<1>4. unsent' \in [Clients -> Seq(Tokens)]
  <2>1. <<>> \in Seq(Tokens) /\ unsent \in [Clients -> Seq(Tokens)]
    BY DEF ClientTypes
  <2>2. QED
    BY <1>1, <2>1
<1>5. IsFunction(reads)'
  BY <1>1 DEF ClientTypes, IsFunction
<1>6. IsFunction(told)'
  BY <1>1 DEF ClientTypes, IsFunction
<1>7. QED
  BY <1>2, <1>3, <1>4, <1>5, <1>6 DEF ClientTypes

LEMMA LeaveFlowInv ==
  ASSUME ExchangeInv, NEW c \in Clients, Leave(c), UNCHANGED <<storeVars, serverVars>>, Record
  PROVE  FlowInv'
<1>1. /\ stage' = [stage EXCEPT ![c] = "off"] /\ call' = [call EXCEPT ![c] = <<>>]
      /\ unsent' = [unsent EXCEPT ![c] = <<>>] /\ reads' = [reads EXCEPT ![c] = <<>>]
      /\ told' = [told EXCEPT ![c] = <<>>] /\ Hangup({c}, "client")
  BY DEF Leave, Forget
<1>2. ClientTypes /\ ClientOk(c) /\ EndsOk /\ BuffersInv /\ CommandFlow(c)
  BY EndsAreOk DEF ExchangeInv, FlowInv, ClientsInv
<1>3. "client" \in Ends /\ Peer("client") = "server"
  BY DEF Ends, Peer
<1>4. /\ BuffersInv'
      /\ ends'[c]["client"] = "closed" /\ ends'[c]["server"] = ends[c]["server"]
      /\ inbox'[c]["server"] = inbox[c]["server"]
      /\ \A d \in Clients \ {c} : ends'[d] = ends[d] /\ inbox'[d] = inbox[d]
  BY <1>1, <1>2, <1>3, HangupIs
<1>5. /\ stage'[c] = "off" /\ call'[c] = <<>> /\ unsent'[c] = <<>> /\ reads'[c] = <<>>
      /\ told'[c] = <<>>
      /\ \A d \in Clients \ {c} :
           /\ stage'[d] = stage[d] /\ call'[d] = call[d] /\ unsent'[d] = unsent[d]
           /\ reads'[d] = reads[d] /\ told'[d] = told[d]
  BY <1>1, <1>2 DEF ClientTypes, IsFunction
<1>6. Alone(c)
  BY <1>4, <1>5 DEF Alone
<1>7. /\ ServerInv' /\ StoreInv'
      /\ \A d \in Clients \ {c} : CommandFlow(d)' /\ AnswerFlow(d)'
      /\ UNCHANGED <<phase, serving, op, params, answer, sent>>
      /\ IsFunction(request)' /\ IsFunction(outcome)' /\ Recorded(c)'
      /\ ~Connected(c)' /\ ends'[c]["server"] = "open" =>
           request'[c] = request[c] /\ outcome'[c] = outcome[c]
      /\ \A d \in Clients \ {c} : ClientOk(d)'
  BY <1>6, ClientStep
<1>8. ClientsInv'
  <2>1. ClientTypes'
    <3>1. Forget(c) /\ "off" \in ClientStages
      BY DEF Leave, ClientStages
    <3>2. QED
      BY <1>1, <1>2, <1>7, <3>1, ForgetsIs
  <2>2. ClientOk(c)'
    BY <1>4, <1>5, <1>7 DEF ClientOk
  <2>3. QED
    BY <1>7, <2>1, <2>2 DEF ClientsInv
<1>9. ~Connected(c)'
  BY <1>5 DEF Connected
<1>10. CommandFlow(c)' /\ AnswerFlow(c)'
  BY <1>2, <1>4, <1>7, <1>9, GoneFlow
<1>11. QED
  BY <1>4, <1>7, <1>8, <1>10 DEF FlowInv

LEMMA VanishFlowInv ==
  ASSUME ExchangeInv, NEW c \in Clients, Vanish(c), UNCHANGED <<storeVars, serverVars>>, Record
  PROVE  FlowInv'
<1>1. /\ stage' = [stage EXCEPT ![c] = "vanished"] /\ call' = [call EXCEPT ![c] = <<>>]
      /\ unsent' = [unsent EXCEPT ![c] = <<>>] /\ reads' = [reads EXCEPT ![c] = <<>>]
      /\ told' = [told EXCEPT ![c] = <<>>] /\ UNCHANGED <<inbox, ends>> /\ Connected(c)
  BY DEF Vanish, Forget, netVars
<1>2. ClientTypes /\ ClientOk(c) /\ EndsOk /\ BuffersInv /\ CommandFlow(c)
  BY EndsAreOk DEF ExchangeInv, FlowInv, ClientsInv
<1>3. BuffersInv'
  BY <1>1, <1>2 DEF BuffersInv
<1>5. /\ stage'[c] = "vanished" /\ call'[c] = <<>> /\ unsent'[c] = <<>> /\ reads'[c] = <<>>
      /\ told'[c] = <<>>
      /\ \A d \in Clients \ {c} :
           /\ stage'[d] = stage[d] /\ call'[d] = call[d] /\ unsent'[d] = unsent[d]
           /\ reads'[d] = reads[d] /\ told'[d] = told[d]
  BY <1>1, <1>2 DEF ClientTypes, IsFunction
<1>6. Alone(c)
  BY <1>1, <1>5 DEF Alone
<1>7. /\ ServerInv' /\ StoreInv'
      /\ \A d \in Clients \ {c} : CommandFlow(d)' /\ AnswerFlow(d)'
      /\ UNCHANGED <<phase, serving, op, params, answer, sent>>
      /\ IsFunction(request)' /\ IsFunction(outcome)' /\ Recorded(c)'
      /\ ~Connected(c)' /\ ends'[c]["server"] = "open" =>
           request'[c] = request[c] /\ outcome'[c] = outcome[c]
      /\ \A d \in Clients \ {c} : ClientOk(d)'
  BY <1>6, ClientStep
<1>8. ClientsInv'
  <2>1. ClientTypes'
    <3>1. Forget(c) /\ "vanished" \in ClientStages
      BY DEF Vanish, ClientStages
    <3>2. QED
      BY <1>1, <1>2, <1>7, <3>1, ForgetsIs
  <2>2. ClientOk(c)'
    BY <1>1, <1>2, <1>5, <1>7 DEF ClientOk, Connected
  <2>3. QED
    BY <1>7, <2>1, <2>2 DEF ClientsInv
<1>9. ~Connected(c)'
  BY <1>5 DEF Connected
<1>10. CommandFlow(c)' /\ AnswerFlow(c)'
  BY <1>1, <1>2, <1>7, <1>9, GoneFlow
<1>11. QED
  BY <1>3, <1>7, <1>8, <1>10 DEF FlowInv

(* A command behind the COM_END of the one before it, or behind nothing. *)
LEMMA GiveFlowInv ==
  ASSUME ExchangeInv, NEW c \in Clients, NEW given \in Calls[c], GiveCommand(c, given),
         UNCHANGED <<storeVars, serverVars>>, Record
  PROVE  FlowInv'
<1>0. given \in AllCalls /\ given # <<>> /\ given[1] \in Operations
  BY CallsAssumption, CallShapes
<1>1. /\ stage[c] = "ready" /\ stage' = [stage EXCEPT ![c] = "sending"]
      /\ call' = [call EXCEPT ![c] = given] /\ unsent' = [unsent EXCEPT ![c] = Command(given)]
      /\ UNCHANGED <<inbox, ends, reads, told>>
  BY DEF GiveCommand, netVars
<1>2. ClientTypes /\ ClientOk(c) /\ EndsOk /\ BuffersInv /\ CommandFlow(c) /\ AnswerFlow(c)
  BY EndsAreOk DEF ExchangeInv, FlowInv, ClientsInv
<1>3. BuffersInv'
  BY <1>1, <1>2 DEF BuffersInv
<1>4. Command(given) \in Seq(Tokens) /\ Command(given) # <<>>
  <2>1. /\ Command(given) \in Seq(Tokens) /\ Len(Command(given)) = NParams(given[1]) + 2
        /\ NParams(given[1]) \in 0..4
    BY <1>0, CommandIs, ParametersAre
  <2> DEFINE C == Command(given)
  <2> HIDE DEF C
  <2>2. C \in Seq(Tokens) /\ Len(C) >= 2
    BY <2>1 DEF C
  <2>3. C # <<>>
    BY <2>2
  <2>4. QED
    BY <2>1, <2>3 DEF C
<1>5. /\ stage'[c] = "sending" /\ call'[c] = given /\ unsent'[c] = Command(given)
      /\ reads'[c] = reads[c] /\ told'[c] = told[c]
      /\ \A d \in Clients \ {c} :
           /\ stage'[d] = stage[d] /\ call'[d] = call[d] /\ unsent'[d] = unsent[d]
           /\ reads'[d] = reads[d] /\ told'[d] = told[d]
  BY <1>1, <1>2 DEF ClientTypes, IsFunction
<1>6. Alone(c)
  BY <1>1, <1>5 DEF Alone
<1>7. /\ ServerInv' /\ StoreInv'
      /\ \A d \in Clients \ {c} : CommandFlow(d)' /\ AnswerFlow(d)'
      /\ UNCHANGED <<phase, serving, op, params, answer, sent>>
      /\ IsFunction(request)' /\ IsFunction(outcome)' /\ Recorded(c)'
      /\ (Connected(c)' /\ call'[c] # <<>> => outcome'[c] = outcome[c])
      /\ \A d \in Clients \ {c} : ClientOk(d)'
  BY <1>6, ClientStep
<1>8. /\ call[c] = <<>> /\ unsent[c] = <<>> /\ reads[c] = <<>> /\ told[c] = <<>>
      /\ request[c] = <<>> /\ outcome[c] = <<>>
      /\ request'[c] = given /\ outcome'[c] = <<>>
      /\ inbox[c]["client"] = <<>> /\ Connected(c) /\ Connected(c)'
  <2>1. Connected(c) /\ Connected(c)'
    BY <1>1, <1>5 DEF Connected
  <2>2. call[c] = <<>> /\ request[c] = <<>> /\ outcome[c] = <<>>
    BY <1>1, <1>2, <2>1 DEF ClientOk, Recorded
  <2>3. request'[c] = given /\ outcome'[c] = <<>>
    BY <1>0, <1>5, <1>7, <2>1, <2>2 DEF Recorded
  <2>4. QED
    BY <1>1, <1>2, <2>1, <2>2, <2>3 DEF ClientOk, AnswerFlow
<1>9. ClientsInv'
  <2>1. ClientTypes'
    BY <1>0, <1>1, <1>2, <1>4, <1>7 DEF ClientTypes, ClientStages, IsFunction
  <2>2. ClientOk(c)'
    BY <1>0, <1>1, <1>2, <1>4, <1>5, <1>7, <1>8 DEF ClientOk
  <2>3. QED
    BY <1>7, <2>1, <2>2 DEF ClientsInv
<1>10. Place(c)' = Place(c)
  BY <1>7 DEF Place
<1>11. ends[c]["server"] = "open" =>
         /\ Place(c) \notin Handling
         /\ inbox[c]["server"] \o Command(given) = Ahead(Place(c), Len(params), given, FALSE)
  <2>1. SUFFICES ASSUME ends[c]["server"] = "open"
                 PROVE  /\ Place(c) \notin Handling
                        /\ inbox[c]["server"] \o Command(given)
                             = Ahead(Place(c), Len(params), given, FALSE)
    OBVIOUS
  <2>2. PICK asked, done, rest : CommandAt(c, asked, done, rest)
    BY <1>2, <2>1 DEF CommandFlow
  <2>3. asked = <<>> /\ rest = <<>>
        /\ inbox[c]["server"] \o rest = Ahead(Place(c), Len(params), asked, done)
        /\ HandlerAt(Place(c), op, params, asked, done)
    BY <1>8, <2>2 DEF CommandAt
  <2>4. Place(c) \notin Handling
    BY <2>3, CallShapes DEF HandlerAt
  <2>5. inbox[c]["server"] \in Seq(Tokens)
    BY <1>2 DEF BuffersInv, Ends
  <2> DEFINE q == inbox[c]["server"]
             C == Command(given)
  <2>6. q \o <<>> = q
    BY <2>5, ConcatEmptySeq
  <2>7. q = Ahead(Place(c), Len(params), asked, done)
    BY <2>3, <2>6
  <2>8. CASE Place(c) = "end"
    <3>1. q = <<<<"COM_END">>>> \o <<>> /\ Ahead(Place(c), Len(params), given, FALSE) = <<<<"COM_END">>>> \o C
      BY <1>0, <2>3, <2>7, <2>8 DEF Ahead, Own, Handling
    <3> DEFINE e == <<<<"COM_END">>>>
    <3>2. e \in Seq(Tokens)
      BY DEF Tokens, Codes
    <3> HIDE DEF q, C, e
    <3>3. e \o <<>> = e
      BY <3>2, ConcatEmptySeq
    <3>4. q = e /\ Ahead(Place(c), Len(params), given, FALSE) = e \o C
      BY <3>1, <3>3 DEF e
    <3>5. QED
      BY <2>4, <3>4 DEF q, C
  <2>9. CASE Place(c) # "end"
    <3>1. q = <<>> /\ Ahead(Place(c), Len(params), given, FALSE) = C
      BY <1>0, <2>3, <2>4, <2>7, <2>9 DEF Ahead, Own
    <3> HIDE DEF q, C
    <3>2. <<>> \o C = C
      BY <1>4, ConcatEmptySeq DEF C
    <3>3. QED
      BY <2>4, <3>1, <3>2 DEF q, C
  <2>10. QED
    BY <2>8, <2>9
<1>12. CommandFlow(c)'
  <2>1. SUFFICES ASSUME ends[c]["server"] = "open" PROVE CommandAt(c, given, FALSE, Command(given))'
    BY <1>1 DEF CommandFlow
  <2>2. HandlerAt(Place(c), op, params, given, FALSE)
    BY <1>11, <2>1 DEF HandlerAt
  <2>3. given = request'[c] /\ (FALSE <=> outcome'[c] # <<>>) /\ Command(given) = unsent'[c]
    BY <1>5, <1>8
  <2>4. given \in AllCalls \cup {<<>>} /\ FALSE \in BOOLEAN /\ Command(given) \in Seq(Tokens)
    BY <1>0, <1>4
  <2>5. inbox'[c]["server"] \o Command(given) = Ahead(Place(c)', Len(params'), given, FALSE)
    BY <1>1, <1>7, <1>10, <1>11, <2>1
  <2>6. HandlerAt(Place(c)', op', params', given, FALSE)
    BY <1>7, <1>10, <2>2
  <2>7. QED
    BY <2>3, <2>4, <2>5, <2>6 DEF CommandAt
<1>13. AnswerFlow(c)'
  <2>1. PICK result : IsResult(given[1], result)
    BY <1>0, SomeResult
  <2>2. Script(given[1], result)
    BY <1>0, <2>1, AnswerScript
  <2> DEFINE A == Full(given[1], result)
  <2>3. A \in Seq(Tokens) /\ Len(A) \in Nat /\ Len(A) >= 3
    BY <2>2, AnswerLength
  <2>4. ToldAt(given[1], result, 0) = <<>>
    BY <2>2 DEF Script, Retold
  <2> HIDE DEF A
  <2>5. SubSeq(A, 0 + 1, 0) = <<>>
    BY <2>3, SubSeqEmpty
  <2>6. ends[c]["server"] = "open" => Written(Place(c), FALSE, sent, Len(A)) = 0 /\ Place(c) # "answer"
    BY <1>11 DEF Written, Handling
  <2>7. AnswerAt(c, result, 0, 0)'
    <3>1. call'[c][1] = given[1] /\ outcome'[c] = <<>> /\ inbox'[c]["client"] = <<>>
          /\ told'[c] = <<>> /\ stage'[c] = "sending" /\ sent' = sent /\ ends' = ends
      BY <1>1, <1>5, <1>7, <1>8
    <3>2. 0 <= 0 /\ 0 <= 1 /\ 0 <= Len(A) /\ 0 < Len(A)
      BY <2>3
    <3>3. ends'[c]["server"] = "open" =>
            /\ 0 = Written(Place(c)', outcome'[c] # <<>>, sent', Len(A)) /\ Place(c)' # "answer"
      BY <1>10, <2>6, <3>1
    <3>4. QED
      BY <2>1, <2>4, <2>5, <3>1, <3>2, <3>3 DEF AnswerAt, A
  <2>8. QED
    BY <1>0, <1>5, <2>7 DEF AnswerFlow
<1>14. QED
  BY <1>3, <1>7, <1>9, <1>12, <1>13 DEF FlowInv

(* A token of the command, of which the last one lets the client wait for  *)
(* the answer.                                                             *)
LEMMA SendFlowInv ==
  ASSUME ExchangeInv, NEW c \in Clients, Send(c), UNCHANGED <<storeVars, serverVars>>, Record
  PROVE  FlowInv'
<1> DEFINE token == Head(unsent[c])
           q == inbox[c]["server"]
<1>1. /\ stage[c] = "sending" /\ Write(c, "client", token)
      /\ unsent' = [unsent EXCEPT ![c] = Tail(@)]
      /\ IF unsent'[c] = <<>>
           THEN /\ stage' = [stage EXCEPT ![c] = "reading"]
                /\ reads' = [reads EXCEPT ![c] = FirstReads(call[c][1])]
           ELSE UNCHANGED <<stage, reads>>
      /\ UNCHANGED <<call, told>>
  BY DEF Send
<1>2. ClientTypes /\ ClientOk(c) /\ EndsOk /\ BuffersInv /\ CommandFlow(c) /\ AnswerFlow(c)
  BY EndsAreOk DEF ExchangeInv, FlowInv, ClientsInv
<1>3. unsent[c] \in Seq(Tokens) /\ unsent[c] # <<>> /\ "client" \in Ends /\ Peer("client") = "server"
      /\ q \in Seq(Tokens)
  BY <1>1, <1>2 DEF ClientTypes, ClientOk, BuffersInv, Ends, Peer
<1>4. /\ token \in Tokens /\ Tail(unsent[c]) \in Seq(Tokens)
      /\ Append(q, token) \o Tail(unsent[c]) = q \o unsent[c]
  BY <1>3, Gives
<1> HIDE DEF token
<1>5. /\ BuffersInv' /\ UNCHANGED <<ends, backlog>>
      /\ \A d \in Clients \ {c} : inbox'[d] = inbox[d]
      /\ inbox'[c]["client"] = inbox[c]["client"]
      /\ ends[c]["server"] = "open" => inbox'[c]["server"] = Append(q, token)
  BY <1>1, <1>2, <1>3, <1>4, WriteIs
<1>6. /\ unsent'[c] = Tail(unsent[c])
      /\ \A d \in Clients \ {c} :
           /\ stage'[d] = stage[d] /\ call'[d] = call[d] /\ unsent'[d] = unsent[d]
           /\ reads'[d] = reads[d] /\ told'[d] = told[d]
      /\ call'[c] = call[c] /\ told'[c] = told[c] /\ call[c] # <<>> /\ call[c] \in AllCalls
  BY <1>1, <1>2 DEF ClientTypes, ClientOk, IsFunction
<1>7. \/ unsent'[c] # <<>> /\ stage'[c] = "sending" /\ reads'[c] = reads[c]
      \/ unsent'[c] = <<>> /\ stage'[c] = "reading" /\ reads'[c] = FirstReads(call[c][1])
  BY <1>1, <1>2 DEF ClientTypes, IsFunction
<1>8. Alone(c)
  BY <1>5, <1>6 DEF Alone
<1>9. /\ ServerInv' /\ StoreInv'
      /\ \A d \in Clients \ {c} : CommandFlow(d)' /\ AnswerFlow(d)'
      /\ UNCHANGED <<phase, serving, op, params, answer, sent>>
      /\ IsFunction(request)' /\ IsFunction(outcome)' /\ Recorded(c)'
      /\ (Connected(c)' /\ call'[c] # <<>> => outcome'[c] = outcome[c])
      /\ \A d \in Clients \ {c} : ClientOk(d)'
  BY <1>8, ClientStep
<1>10. /\ Connected(c) /\ Connected(c)' /\ ends' = ends
       /\ outcome'[c] = outcome[c] /\ request[c] = call[c] /\ request'[c] = call[c]
  <2>1. Connected(c) /\ Connected(c)' /\ ends' = ends
    BY <1>1, <1>5, <1>7 DEF Connected
  <2>2. QED
    BY <1>2, <1>6, <1>9, <2>1 DEF ClientOk, Recorded
<1>11. ClientsInv'
  <2>1. stage' \in [Clients -> ClientStages]
    BY <1>1, <1>2 DEF ClientTypes, ClientStages
  <2>2. call' \in [Clients -> AllCalls \cup {<<>>}] /\ IsFunction(told)'
    BY <1>1, <1>2 DEF ClientTypes, IsFunction
  <2>3. unsent' \in [Clients -> Seq(Tokens)]
    BY <1>1, <1>2, <1>4 DEF ClientTypes
  <2>4. IsFunction(reads)'
    BY <1>1, <1>2 DEF ClientTypes, IsFunction
  <2>5. ClientTypes'
    BY <1>9, <2>1, <2>2, <2>3, <2>4 DEF ClientTypes
  <2>6. ClientOk(c)'
    BY <1>1, <1>2, <1>6, <1>7, <1>9, <1>10 DEF ClientOk
  <2>7. QED
    BY <1>9, <2>5, <2>6 DEF ClientsInv
<1>12. Place(c)' = Place(c)
  BY <1>9 DEF Place
<1>13. CommandFlow(c)'
  <2>1. SUFFICES ASSUME ends[c]["server"] = "open"
                 PROVE  \E asked, done, rest : CommandAt(c, asked, done, rest)'
    BY <1>10 DEF CommandFlow
  <2>2. PICK asked, done, rest : CommandAt(c, asked, done, rest)
    BY <1>2, <2>1 DEF CommandFlow
  <2>3. /\ asked = call[c] /\ (done <=> outcome[c] # <<>>) /\ rest = unsent[c]
        /\ asked \in AllCalls \cup {<<>>} /\ done \in BOOLEAN
        /\ q \o rest = Ahead(Place(c), Len(params), asked, done)
        /\ HandlerAt(Place(c), op, params, asked, done)
    BY <1>10, <2>2 DEF CommandAt
  <2>4. PICK left : left = Tail(unsent[c])
    OBVIOUS
  <2>5. CommandAt(c, asked, done, left)'
    <3>1. asked \in AllCalls \cup {<<>>} /\ done \in BOOLEAN /\ left \in Seq(Tokens)
      BY <1>4, <2>3, <2>4
    <3>2. inbox'[c]["server"] \o left = Ahead(Place(c)', Len(params'), asked, done)
      BY <1>4, <1>5, <1>9, <1>12, <2>1, <2>3, <2>4
    <3>3. HandlerAt(Place(c)', op', params', asked, done)
      BY <1>9, <1>12, <2>3
    <3>4. asked = request'[c] /\ (done <=> outcome'[c] # <<>>) /\ left = unsent'[c]
      BY <1>6, <1>10, <2>3, <2>4
    <3>5. QED
      BY <3>1, <3>2, <3>3, <3>4 DEF CommandAt
  <2>6. QED
    BY <2>5
<1>14. AnswerFlow(c)'
  <2>1. PICK result : \E r, m \in Nat : AnswerAt(c, result, r, m)
    BY <1>2, <1>6, <1>10 DEF AnswerFlow
  <2>2. PICK r \in Nat, m \in Nat : AnswerAt(c, result, r, m)
    BY <2>1
  <2>3. r = 0
    BY <1>1, <2>2 DEF AnswerAt
  <2>4. ReadsAt(call[c][1], result, 0) = FirstReads(call[c][1])
    BY DEF ReadsAt
  <2>5. stage'[c] = "reading" => reads'[c] = ReadsAt(call[c][1], result, r)
    BY <1>7, <2>3, <2>4
  <2>6. AnswerAt(c, result, r, m)'
    BY <1>5, <1>6, <1>9, <1>10, <1>12, <2>2, <2>3, <2>5 DEF AnswerAt
  <2>7. QED
    BY <1>6, <2>6 DEF AnswerFlow
<1>15. QED
  BY <1>5, <1>9, <1>11, <1>13, <1>14 DEF FlowInv

(* Of the answer, r tokens are read and the next one is there. *)
AtToken(c, result, r, m) ==
  /\ AnswerAt(c, result, r, m)
  /\ r < m
  /\ call[c] \in AllCalls /\ call[c][1] \in Operations
  /\ IsResult(call[c][1], result) /\ Script(call[c][1], result)
  /\ Head(inbox[c]["client"]) = Full(call[c][1], result)[r + 1]
  /\ Tail(inbox[c]["client"]) = SubSeq(Full(call[c][1], result), (r + 1) + 1, m)

LEMMA FrontOfWindow ==
  ASSUME NEW full \in Seq(Tokens), NEW r \in Nat, NEW m \in Nat, r <= m, m <= Len(full),
         SubSeq(full, r + 1, m) # <<>>
  PROVE  /\ r < m
         /\ Head(SubSeq(full, r + 1, m)) = full[r + 1]
         /\ Tail(SubSeq(full, r + 1, m)) = SubSeq(full, (r + 1) + 1, m)
<1>1. PICK q : q = SubSeq(full, r + 1, m)
  OBVIOUS
<1>2. q # <<>> => r < m /\ Head(q) = full[r + 1] /\ Tail(q) = SubSeq(full, (r + 1) + 1, m)
  BY <1>1, Window
<1>3. QED
  BY <1>1, <1>2

(* What a client reads is the next token of its answer. *)
LEMMA TokenIs ==
  ASSUME ExchangeInv, NEW c \in Clients, stage[c] = "reading", inbox[c]["client"] # <<>>
  PROVE  \E result : \E r, m \in Nat : AtToken(c, result, r, m)
<1>1. ClientTypes /\ ClientOk(c) /\ AnswerFlow(c) /\ Connected(c)
  BY DEF ExchangeInv, FlowInv, ClientsInv, Connected
<1>2. call[c] \in AllCalls /\ call[c] # <<>>
  BY <1>1 DEF ClientTypes, ClientOk
<1>3. call[c][1] \in Operations
  BY <1>2, CallShapes
<1>4. PICK result : \E r, m \in Nat : AnswerAt(c, result, r, m)
  BY <1>1, <1>2 DEF AnswerFlow
<1>5. PICK r \in Nat, m \in Nat : AnswerAt(c, result, r, m)
  BY <1>4
<1> DEFINE A == Full(call[c][1], result)
           q == inbox[c]["client"]
<1>6. /\ IsResult(call[c][1], result) /\ r <= m /\ m <= Len(A)
      /\ q = SubSeq(A, r + 1, m)
  BY <1>5 DEF AnswerAt
<1>7. Script(call[c][1], result)
  BY <1>2, <1>6, AnswerScript
<1>8. A \in Seq(Tokens) /\ q # <<>>
  BY <1>7, AnswerLength
<1> HIDE DEF A
<1>9. r < m /\ Head(q) = A[r + 1] /\ Tail(q) = SubSeq(A, (r + 1) + 1, m)
  <2>1. A \in Seq(Tokens) /\ r <= m /\ m <= Len(A) /\ SubSeq(A, r + 1, m) # <<>>
    BY <1>6, <1>8
  <2>2. /\ r < m /\ Head(SubSeq(A, r + 1, m)) = A[r + 1]
        /\ Tail(SubSeq(A, r + 1, m)) = SubSeq(A, (r + 1) + 1, m)
    BY <2>1, FrontOfWindow
  <2>3. QED
    BY <1>6, <2>2
<1>10. QED
  BY <1>2, <1>3, <1>5, <1>6, <1>7, <1>9 DEF AtToken, A, q

(* A token that is read in the middle of an answer ... *)
LEMMA RecvGoesOn ==
  ASSUME ExchangeInv, NEW c \in Clients, Recv(c), NEW result, NEW r \in Nat, NEW m \in Nat,
         AtToken(c, result, r, m)
  PROVE  /\ Acceptable(Head(reads[c]), Head(inbox[c]["client"]))
         /\ r + 1 < Len(Full(call[c][1], result)) =>
              /\ reads'[c] = ReadsAt(call[c][1], result, r + 1) /\ reads'[c] # <<>>
              /\ told'[c] = ToldAt(call[c][1], result, r + 1)
              /\ UNCHANGED <<stage, call, unsent>>
         /\ r + 1 = Len(Full(call[c][1], result)) =>
              /\ reads'[c] = <<>> /\ told'[c] = <<>>
              /\ stage' = [stage EXCEPT ![c] = "ready"]
              /\ call' = [call EXCEPT ![c] = <<>>] /\ unsent' = unsent
         /\ r + 1 <= Len(Full(call[c][1], result))
<1> DEFINE o == call[c][1]
           A == Full(o, result)
           T == Kinds(o, result)
           token == Head(inbox[c]["client"])
           next == ReadsAfter(o, reads[c], token)
<1>1. /\ stage[c] = "reading" /\ reads' = [reads EXCEPT ![c] = next]
      /\ IF reads'[c] = <<>>
           THEN /\ stage' = [stage EXCEPT ![c] = "ready"]
                /\ call' = [call EXCEPT ![c] = <<>>]
                /\ told' = [told EXCEPT ![c] = <<>>]
           ELSE /\ told' = IF Tells(Head(reads[c]), token)
                             THEN [told EXCEPT ![c] = Append(@, token)] ELSE told
                /\ UNCHANGED <<stage, call>>
      /\ unsent' = unsent
  BY DEF Recv
<1>2. /\ o \in Operations /\ Script(o, result) /\ r < m /\ m <= Len(A) /\ token = A[r + 1]
      /\ reads[c] = ReadsAt(o, result, r) /\ told[c] = ToldAt(o, result, r)
  BY <1>1 DEF AtToken, AnswerAt
<1>3. A \in Seq(Tokens) /\ Len(A) \in Nat /\ Len(A) >= 3
  BY <1>2, AnswerLength
<1>4. IsFunction(reads) /\ IsFunction(told)
  BY DEF ExchangeInv, FlowInv, ClientsInv, ClientTypes
<1>5. r \in 0..Len(A) - 1
  BY <1>2, <1>3
<1>6. /\ Head(ReadsAt(o, result, r)) = T[r + 1]
      /\ Acceptable(Head(ReadsAt(o, result, r)), A[r + 1])
      /\ ReadsAfter(o, ReadsAt(o, result, r), A[r + 1]) = ReadsAt(o, result, r + 1)
  BY <1>2, <1>5, ReadsGoOn
<1>7. next = ReadsAt(o, result, r + 1)
  BY <1>2, <1>6
<1> HIDE DEF next
<1>8. reads'[c] = next
  BY <1>1, <1>4 DEF IsFunction
<1>9. CASE r + 1 < Len(A)
  <2>1. r + 1 \in 0..Len(A) - 1 /\ r \in 0..Len(A) - 2
    BY <1>3, <1>9
  <2>2. ReadsAt(o, result, r + 1) # <<>>
    BY <1>2, <2>1, ReadsGoOn
  <2>3. ToldAt(o, result, r + 1) =
          IF Tells(T[r + 1], A[r + 1]) THEN Append(ToldAt(o, result, r), A[r + 1])
                                       ELSE ToldAt(o, result, r)
    BY <1>2, <2>1 DEF Script, Retold
  <2>4. Head(reads[c]) = T[r + 1] /\ token = A[r + 1]
    BY <1>2, <1>6
  <2>5. reads'[c] # <<>>
    BY <1>7, <1>8, <2>2
  <2> HIDE DEF token, T, A, o
  <2>6. /\ told' = IF Tells(T[r + 1], A[r + 1])
                     THEN [told EXCEPT ![c] = Append(@, A[r + 1])] ELSE told
        /\ UNCHANGED <<stage, call, unsent>>
    BY <1>1, <2>4, <2>5
  <2>7. told'[c] = IF Tells(T[r + 1], A[r + 1]) THEN Append(told[c], A[r + 1]) ELSE told[c]
    BY <1>4, <2>6 DEF IsFunction
  <2>8. told'[c] = ToldAt(o, result, r + 1)
    BY <1>2, <2>3, <2>7
  <2>9. QED
    BY <1>2, <1>3, <1>6, <1>7, <1>8, <1>9, <2>2, <2>4, <2>6, <2>8 DEF o, A, token
<1>10. CASE r + 1 = Len(A)
  <2>1. ReadsAt(o, result, r + 1) = <<>>
    BY <1>2, <1>10, ReadsEnd
  <2>2. reads'[c] = <<>>
    BY <1>7, <1>8, <2>1
  <2>3. told'[c] = <<>>
    BY <1>1, <1>4, <2>2 DEF IsFunction
  <2>4. ~(r + 1 < Len(A)) /\ r + 1 <= Len(A)
    BY <1>3, <1>10
  <2>5. Acceptable(Head(reads[c]), token)
    BY <1>2, <1>6
  <2>6. QED
    BY <1>1, <2>2, <2>3, <2>4, <2>5
<1>11. QED
  BY <1>3, <1>5, <1>9, <1>10

(* ... and the last one of it, which the server has sent to its end then.  *)
LEMMA LastToken ==
  ASSUME ExchangeInv, NEW c \in Clients, stage[c] = "reading", NEW result, NEW r \in Nat, NEW m \in Nat,
         AtToken(c, result, r, m), r + 1 = Len(Full(call[c][1], result))
  PROVE  /\ m = r + 1
         /\ outcome[c] = <<call[c], result>>
         /\ Tail(inbox[c]["client"]) = <<>>
         /\ ends[c]["server"] = "open" => Place(c) \notin Handling
<1> DEFINE A == Full(call[c][1], result)
<1>1. /\ r < m /\ m <= Len(A) /\ Tail(inbox[c]["client"]) = SubSeq(A, (r + 1) + 1, m)
      /\ Script(call[c][1], result) /\ call[c] \in AllCalls
      /\ (outcome[c] = <<>> => m <= 1) /\ (outcome[c] # <<>> => outcome[c] = <<call[c], result>>)
      /\ ends[c]["server"] = "open" =>
           /\ m = Written(Place(c), outcome[c] # <<>>, sent, Len(A))
           /\ Place(c) = "answer" => answer = outcome[c]
  BY DEF AtToken, AnswerAt
<1>2. A \in Seq(Tokens) /\ Len(A) \in Nat /\ Len(A) >= 3
  BY <1>1, AnswerLength
<1> HIDE DEF A
<1>3. r + 1 = Len(A)
  BY DEF A
<1>4. m = r + 1
  BY <1>1, <1>2, <1>3
<1>5. outcome[c] # <<>>
  BY <1>1, <1>2, <1>3, <1>4
<1>6. SubSeq(A, (r + 1) + 1, m) = <<>>
  BY <1>2, <1>4, SubSeqEmpty
<1>7. ASSUME ends[c]["server"] = "open", Place(c) \in Handling
      PROVE  FALSE
  <2>1. m = Written(Place(c), TRUE, sent, Len(A))
    BY <1>1, <1>5, <1>7
  <2>2. CASE Place(c) # "answer"
    <3>1. m = 0 \/ m = 1
      BY <1>7, <2>1, <2>2 DEF Written, Handling
    <3>2. QED
      BY <1>2, <1>3, <1>4, <3>1
  <2>3. CASE Place(c) = "answer"
    <3>1. phase = "answer"
      BY <2>3 DEF Place
    <3>2. answer = <<TheCall, answer[2]>> /\ op = TheCall[1]
          /\ sent \in Nat /\ sent + 1 < Len(Full(op, answer[2]))
      BY <3>1 DEF ExchangeInv, FlowInv, ServerInv
    <3>3. answer = <<call[c], result>>
      BY <1>1, <1>5, <1>7, <2>3
    <3>4. answer[1] = call[c] /\ answer[2] = result
      BY <3>3
    <3>5. answer[1] = TheCall
      BY <3>2
    <3>6. op = call[c][1]
      BY <3>2, <3>4, <3>5
    <3>7. sent + 1 < Len(A)
      BY <3>2, <3>4, <3>6 DEF A
    <3>8. m = sent + 1
      BY <2>1, <2>3 DEF Written
    <3>9. QED
      BY <1>2, <1>3, <1>4, <3>2, <3>7, <3>8
  <2>4. QED
    BY <2>2, <2>3
<1>8. QED
  BY <1>1, <1>4, <1>5, <1>6, <1>7

LEMMA RecvFlowInv ==
  ASSUME ExchangeInv, NEW c \in Clients, Recv(c), UNCHANGED <<storeVars, serverVars>>, Record
  PROVE  FlowInv'
<1> DEFINE o == call[c][1]
<1>1. /\ stage[c] = "reading" /\ Read(c, "client")
      /\ reads' = [reads EXCEPT ![c] = ReadsAfter(o, reads[c], Head(inbox[c]["client"]))]
      /\ unsent' = unsent
      /\ \/ UNCHANGED <<stage, call>> /\ (told' = told \/ \E t : told' = [told EXCEPT ![c] = t])
         \/ /\ stage' = [stage EXCEPT ![c] = "ready"] /\ call' = [call EXCEPT ![c] = <<>>]
            /\ told' = [told EXCEPT ![c] = <<>>]
  BY DEF Recv
<1>2. ClientTypes /\ ClientOk(c) /\ EndsOk /\ BuffersInv /\ CommandFlow(c) /\ AnswerFlow(c)
  BY EndsAreOk DEF ExchangeInv, FlowInv, ClientsInv
<1>3. "client" \in Ends /\ Peer("client") = "server"
  BY DEF Ends, Peer
<1>4. /\ BuffersInv' /\ UNCHANGED <<ends, backlog>>
      /\ \A d \in Clients \ {c} : inbox'[d] = inbox[d]
      /\ inbox[c]["client"] # <<>>
      /\ inbox'[c]["client"] = Tail(inbox[c]["client"])
      /\ inbox'[c]["server"] = inbox[c]["server"]
  BY <1>1, <1>2, <1>3, ReadIs
<1>5. PICK result : \E r, m \in Nat : AtToken(c, result, r, m)
  BY <1>1, <1>4, TokenIs
<1>6. PICK r \in Nat, m \in Nat : AtToken(c, result, r, m)
  BY <1>5
<1> DEFINE A == Full(o, result)
<1>7. /\ r + 1 < Len(A) =>
           /\ reads'[c] = ReadsAt(o, result, r + 1) /\ reads'[c] # <<>>
           /\ told'[c] = ToldAt(o, result, r + 1)
           /\ UNCHANGED <<stage, call, unsent>>
      /\ r + 1 = Len(A) =>
           /\ reads'[c] = <<>> /\ told'[c] = <<>>
           /\ stage' = [stage EXCEPT ![c] = "ready"]
           /\ call' = [call EXCEPT ![c] = <<>>] /\ unsent' = unsent
      /\ r + 1 <= Len(A)
  BY <1>6, RecvGoesOn
<1>8. \A d \in Clients \ {c} :
        /\ stage'[d] = stage[d] /\ call'[d] = call[d] /\ unsent'[d] = unsent[d]
        /\ reads'[d] = reads[d] /\ told'[d] = told[d]
  BY <1>1, <1>2 DEF ClientTypes, IsFunction
<1>9. Alone(c)
  BY <1>4, <1>8 DEF Alone
<1>10. /\ ServerInv' /\ StoreInv'
       /\ \A d \in Clients \ {c} : CommandFlow(d)' /\ AnswerFlow(d)'
       /\ UNCHANGED <<phase, serving, op, params, answer, sent>>
       /\ IsFunction(request)' /\ IsFunction(outcome)' /\ Recorded(c)'
       /\ (Connected(c)' /\ call'[c] # <<>> => outcome'[c] = outcome[c])
       /\ \A d \in Clients \ {c} : ClientOk(d)'
  BY <1>9, ClientStep
<1>11. ClientTypes'
  <2>1. stage' \in [Clients -> ClientStages]
    BY <1>1, <1>2 DEF ClientTypes, ClientStages
  <2>2. call' \in [Clients -> AllCalls \cup {<<>>}]
    BY <1>1, <1>2 DEF ClientTypes
  <2>3. IsFunction(reads)'
    BY <1>1, <1>2 DEF ClientTypes, IsFunction
  <2>4. IsFunction(told)'
    BY <1>1, <1>2 DEF ClientTypes, IsFunction
  <2>5. unsent' \in [Clients -> Seq(Tokens)]
    BY <1>1, <1>2 DEF ClientTypes
  <2>6. QED
    BY <1>10, <2>1, <2>2, <2>3, <2>4, <2>5 DEF ClientTypes
<1>12. call[c] # <<>> /\ Connected(c) /\ ends' = ends /\ unsent[c] = <<>>
  BY <1>1, <1>2, <1>4 DEF ClientOk, Connected
<1>13. Place(c)' = Place(c)
  BY <1>10 DEF Place
<1>14. r + 1 < Len(A) \/ r + 1 = Len(A)
  <2>1. Len(A) \in Nat
    BY <1>6, AnswerLength DEF AtToken
  <2> HIDE DEF A
  <2>2. QED
    BY <1>7, <2>1
<1>15. CASE r + 1 < Len(A)
  <2>1. /\ stage'[c] = "reading" /\ call'[c] = call[c] /\ unsent'[c] = <<>>
        /\ reads'[c] = ReadsAt(o, result, r + 1) /\ told'[c] = ToldAt(o, result, r + 1)
        /\ outcome'[c] = outcome[c] /\ Connected(c)'
        /\ request[c] = call[c] /\ request'[c] = call[c]
    <3>1. /\ stage'[c] = "reading" /\ call'[c] = call[c] /\ unsent'[c] = <<>>
          /\ reads'[c] = ReadsAt(o, result, r + 1) /\ told'[c] = ToldAt(o, result, r + 1)
      BY <1>1, <1>7, <1>12, <1>15
    <3>2. Connected(c)'
      BY <3>1 DEF Connected
    <3>3. QED
      BY <1>2, <1>10, <1>12, <3>1, <3>2 DEF ClientOk, Recorded
  <2>2. ClientOk(c)'
    BY <1>1, <1>2, <1>7, <1>10, <1>12, <1>15, <2>1 DEF ClientOk
  <2>3. CommandFlow(c)'
    <3>1. SUFFICES ASSUME ends[c]["server"] = "open"
                   PROVE  \E asked, done, rest : CommandAt(c, asked, done, rest)'
      BY <1>12 DEF CommandFlow
    <3>2. PICK asked, done, rest : CommandAt(c, asked, done, rest)
      BY <1>2, <3>1 DEF CommandFlow
    <3>3. unsent'[c] = unsent[c] /\ params' = params /\ op' = op
      BY <1>10, <1>12, <2>1
    <3>4. CommandAt(c, asked, done, rest)'
      BY <1>4, <1>12, <1>13, <2>1, <3>2, <3>3 DEF CommandAt
    <3>5. QED
      BY <3>4
  <2>4. AnswerFlow(c)'
    <3>1. PICK k \in Nat : k = r + 1
      OBVIOUS
    <3>2. /\ AnswerAt(c, result, r, m) /\ r < m
          /\ inbox'[c]["client"] = SubSeq(A, k + 1, m)
      BY <1>4, <1>6, <3>1 DEF AtToken
    <3>3. k <= m /\ k < Len(A)
      <4>1. r < m
        BY <3>2
      <4>2. k <= m
        BY <3>1, <4>1
      <4>3. QED
        BY <1>15, <3>1, <4>2
    <3>4. AnswerAt(c, result, k, m)'
      BY <1>10, <1>12, <1>13, <2>1, <3>1, <3>2, <3>3 DEF AnswerAt
    <3>5. QED
      BY <1>12, <2>1, <3>4 DEF AnswerFlow
  <2>5. QED
    BY <1>4, <1>10, <1>11, <2>2, <2>3, <2>4 DEF FlowInv, ClientsInv
<1>16. CASE r + 1 = Len(A)
  <2>1. /\ stage'[c] = "ready" /\ call'[c] = <<>> /\ unsent'[c] = <<>>
        /\ reads'[c] = <<>> /\ told'[c] = <<>>
        /\ request'[c] = <<>> /\ outcome'[c] = <<>>
    <3>1. /\ stage'[c] = "ready" /\ call'[c] = <<>> /\ unsent'[c] = <<>>
          /\ reads'[c] = <<>> /\ told'[c] = <<>>
      BY <1>2, <1>7, <1>12, <1>16 DEF ClientTypes
    <3>2. QED
      BY <1>10, <3>1 DEF Recorded, Connected
  <2>2. /\ outcome[c] = <<call[c], result>>
        /\ inbox'[c]["client"] = <<>>
        /\ ends[c]["server"] = "open" => Place(c) \notin Handling
    BY <1>1, <1>4, <1>6, <1>16, LastToken
  <2>3. ClientOk(c)'
    BY <1>1, <1>2, <1>10, <1>12, <2>1 DEF ClientOk
  <2>4. CommandFlow(c)'
    <3>1. SUFFICES ASSUME ends[c]["server"] = "open"
                   PROVE  CommandAt(c, <<>>, FALSE, <<>>)'
      BY <1>12 DEF CommandFlow
    <3>2. PICK asked, done, rest : CommandAt(c, asked, done, rest)
      BY <1>2, <3>1 DEF CommandFlow
    <3>3. /\ inbox[c]["server"] \o <<>> = Ahead(Place(c), Len(params), asked, done)
          /\ (done <=> outcome[c] # <<>>)
      BY <1>12, <3>2 DEF CommandAt
    <3>4. Own(asked, done) = Own(<<>>, FALSE)
      BY <2>2, <3>3 DEF Own
    <3>5. Place(c) \notin Handling
      BY <2>2, <3>1
    <3>6. Ahead(Place(c), Len(params), asked, done) = Ahead(Place(c), Len(params), <<>>, FALSE)
      BY <3>4, <3>5 DEF Ahead
    <3>7. inbox'[c]["server"] \o <<>> = Ahead(Place(c)', Len(params'), <<>>, FALSE)
      BY <1>4, <1>10, <1>13, <3>3, <3>6
    <3>8. HandlerAt(Place(c)', op', params', <<>>, FALSE)
      BY <1>13, <3>5 DEF HandlerAt
    <3>9. /\ <<>> \in AllCalls \cup {<<>>} /\ FALSE \in BOOLEAN /\ <<>> \in Seq(Tokens)
          /\ <<>> = request'[c] /\ (FALSE <=> outcome'[c] # <<>>) /\ <<>> = unsent'[c]
      BY <2>1
    <3>10. QED
      BY <3>7, <3>8, <3>9 DEF CommandAt
  <2>5. AnswerFlow(c)'
    BY <2>1, <2>2 DEF AnswerFlow
  <2>6. QED
    BY <1>4, <1>10, <1>11, <2>3, <2>4, <2>5 DEF FlowInv, ClientsInv
<1>17. QED
  BY <1>14, <1>15, <1>16

-----------------------------------------------------------------------------
(* The invariant.                                                          *)

LEMMA ExchangeInit ==
  Init => ExchangeInv
<1> SUFFICES ASSUME Init PROVE ExchangeInv
  OBVIOUS
<1>1. /\ inbox = [c \in Clients |-> [end \in Ends |-> <<>>]]
      /\ ends = [c \in Clients |-> [end \in Ends |-> "closed"]]
  BY DEF Init, SocketsInit
<1>2. /\ groups = {} /\ articles = {} /\ phase = "down" /\ serving = {}
      /\ op = "none" /\ params = <<>> /\ answer = <<>> /\ sent = 0
  BY DEF Init, ServerInit, DB!StoreInit
<1>3. /\ stage = [c \in Clients |-> "off"] /\ call = [c \in Clients |-> <<>>]
      /\ unsent = [c \in Clients |-> <<>>] /\ reads = [c \in Clients |-> <<>>]
      /\ told = [c \in Clients |-> <<>>]
      /\ request = [c \in Clients |-> <<>>] /\ outcome = [c \in Clients |-> <<>>]
  BY DEF Init, ClientInit
<1>4. ServerInv
  BY <1>2 DEF ServerInv, Phases, Handling
<1>5. StoreInv
  BY <1>2, FS_EmptySet DEF StoreInv
<1>6. BuffersInv
  <2>1. <<>> \in Seq(Tokens) /\ Len(<<>>) = 0 /\ 0 <= Capacity
    BY CapacityAssumption
  <2>2. \A c \in Clients, end \in Ends : inbox[c][end] = <<>>
    BY <1>1
  <2>3. inbox \in [Clients -> [Ends -> Seq(Tokens)]]
    BY <1>1, <2>1
  <2>4. QED
    BY <2>1, <2>2, <2>3 DEF BuffersInv
<1>7. ClientsInv
  <2>1. <<>> \in Seq(Tokens)
    OBVIOUS
  <2>2. unsent \in [Clients -> Seq(Tokens)]
    BY <1>3, <2>1
  <2>3. ClientTypes
    BY <1>3, <2>2 DEF ClientTypes, ClientStages, IsFunction
  <2>4. ASSUME NEW c \in Clients PROVE ClientOk(c)
    BY <1>1, <1>3 DEF ClientOk, Recorded, Connected, Ends
  <2>5. QED
    BY <2>3, <2>4 DEF ClientsInv
<1>8. \A c \in Clients : CommandFlow(c) /\ AnswerFlow(c)
  BY <1>1, <1>3 DEF CommandFlow, AnswerFlow, Connected, Ends
<1>9. QED
  BY <1>4, <1>5, <1>6, <1>7, <1>8, DescriptorInit DEF ExchangeInv, FlowInv

LEMMA ServerStepInv ==
  ASSUME ExchangeInv, ServerNext \/ ServerDies
  PROVE  FlowInv'
<1>1. UNCHANGED clientVars /\ Record
  BY DEF ServerNext, ServerDies
<1>2. CASE Start \/ AcceptClient \/ RegisterConnection \/ WaitForCommand
  BY <1>1, <1>2, SelectInv
<1>3. CASE AcceptFails \/ Die
  BY <1>1, <1>3, ExitFlowInv DEF AcceptFails, Die
<1>4. ASSUME NEW c \in serving, ServeStep(c) PROVE FlowInv'
  <2>1. CASE RecvCommand(c)
    BY <1>1, <2>1, RecvCommandInv
  <2>2. CASE SendAns(c)
    BY <1>1, <2>2, SendAnsInv
  <2>3. CASE RecvParam(c)
    BY <1>1, <2>3, RecvParamInv
  <2>4. CASE CallDatabase(c)
    BY <1>1, <2>4, CallDatabaseInv
  <2>5. CASE SendAnswer(c)
    BY <1>1, <2>5, SendAnswerInv
  <2>6. CASE RecvEnd(c)
    BY <1>1, <2>6, RecvEndInv
  <2>7. CASE ConnectionFails(c) /\ Drop(c)
    BY <1>1, <2>7, DropFlowInv
  <2>8. QED
    BY <1>4, <2>1, <2>2, <2>3, <2>4, <2>5, <2>6, <2>7 DEF ServeStep
<1>5. QED
  BY <1>2, <1>3, <1>4 DEF ServerNext, ServerDies, ServerStep

LEMMA ClientStepInv ==
  ASSUME ExchangeInv, NEW c \in Clients, UserNext(c) \/ ExchangeNext(c)
  PROVE  FlowInv'
<1>1. UNCHANGED <<storeVars, serverVars>> /\ Record
  BY DEF UserNext, ExchangeNext, ClientDoes
<1>2. CASE ConnectToServer(c)
  BY <1>1, <1>2, ConnectFlowInv
<1>3. ASSUME NEW asked \in Calls[c], GiveCommand(c, asked) PROVE FlowInv'
  BY <1>1, <1>3, GiveFlowInv
<1>4. CASE Leave(c)
  BY <1>1, <1>4, LeaveFlowInv
<1>5. CASE Vanish(c)
  BY <1>1, <1>5, VanishFlowInv
<1>6. CASE Send(c)
  BY <1>1, <1>6, SendFlowInv
<1>7. CASE Recv(c)
  BY <1>1, <1>7, RecvFlowInv
<1>8. QED
  BY <1>2, <1>3, <1>4, <1>5, <1>6, <1>7
     DEF UserNext, ExchangeNext, ClientDoes, Quit, Kill, TimesOut, Exchange, GivesUp

LEMMA StutterInv ==
  ASSUME ExchangeInv, UNCHANGED vars
  PROVE  FlowInv'
<1>1. /\ UNCHANGED <<inbox, ends, backlog, groups, articles, usedGroupIds, usedArticleIds>>
      /\ UNCHANGED <<connections, pending_socket, phase, serving, op, params, answer, sent>>
      /\ UNCHANGED <<stage, call, unsent, reads, told, request, outcome>>
  BY DEF vars, netVars, storeVars, serverVars, clientVars
<1>2. ServerInv' /\ StoreInv' /\ BuffersInv'
  BY <1>1 DEF ExchangeInv, FlowInv, ServerInv, StoreInv, BuffersInv, TheCall
<1>3. ClientsInv'
  BY <1>1 DEF ExchangeInv, FlowInv, ClientsInv, ClientTypes, ClientOk, Recorded, Connected, IsFunction
<1>4. ASSUME NEW c \in Clients PROVE CommandFlow(c)' /\ AnswerFlow(c)'
  <2>1. ClientStays(c) /\ ServerStays(c) /\ inbox'[c] = inbox[c] /\ ends'[c] = ends[c]
    BY <1>1 DEF ClientStays, ServerStays, Place, handlerVars
  <2>2. QED
    BY <2>1, FlowStays DEF ExchangeInv, FlowInv
<1>5. QED
  BY <1>2, <1>3, <1>4 DEF FlowInv

LEMMA ExchangeStep ==
  ExchangeInv /\ [Next]_vars => ExchangeInv'
<1> SUFFICES ASSUME ExchangeInv, [Next]_vars PROVE ExchangeInv'
  OBVIOUS
<1>1. DescriptorInv'
  BY DescriptorStep DEF ExchangeInv
<1>2. FlowInv'
  BY ServerStepInv, ClientStepInv, StutterInv DEF Next
<1>3. QED
  BY <1>1, <1>2 DEF ExchangeInv

LEMMA ExchangeIsSound ==
  Spec => []ExchangeInv
BY ExchangeInit, ExchangeStep, PTL DEF Spec

-----------------------------------------------------------------------------
(* The two programs keep what ties their states to each other: the server  *)
(* has an operation and an answer just while a handler needs them, a       *)
(* client what it still has to send or to read just while it does so, and  *)
(* no buffer holds more than it can.                                       *)
THEOREM TypesOfTheSystem ==
  Spec => []TypeOK
<1>1. ASSUME ExchangeInv PROVE TypeOK
  <2>1. DescriptorInv /\ ServerInv /\ BuffersInv /\ ClientTypes
    BY <1>1 DEF ExchangeInv, FlowInv, ClientsInv
  <2>2. Cardinality(serving) = (IF phase \in {"down", "select", "register"} THEN 0 ELSE 1)
    <3>1. CASE serving = {}
      BY <2>1, <3>1, FS_EmptySet DEF DescriptorInv, Free
    <3>2. ASSUME NEW c \in serving
          PROVE  Cardinality(serving) = (IF phase \in {"down", "select", "register"} THEN 0 ELSE 1)
      <4>1. serving = {c} /\ phase \notin Free
        BY <2>1, <3>2, ServedIs
      <4>2. Cardinality(serving) = 1
        BY <4>1, FS_Singleton
      <4>3. QED
        BY <4>1, <4>2 DEF Free
    <3>3. QED
      BY <3>1, <3>2
  <2>3. serving \cup pending_socket \subseteq Clients /\ (pending_socket # {} <=> phase = "register")
    <3>1. ASSUME NEW c \in serving PROVE c \in Clients
      BY <2>1, <3>1, ServedIs
    <3>2. QED
      BY <2>1, <3>1 DEF DescriptorInv
  <2>4. op = "none" <=> phase \in {"down", "select", "register", "command", "end"}
    BY <2>1 DEF ServerInv, Phases, Handling, Operations
  <2>5. answer # <<>> <=> phase = "answer"
    BY <2>1 DEF ServerInv
  <2>6. ASSUME NEW c \in Clients
        PROVE  /\ call[c] # <<>> <=> stage[c] \in {"sending", "reading"}
               /\ unsent[c] # <<>> <=> stage[c] = "sending"
               /\ reads[c] # <<>> <=> stage[c] = "reading"
    <3>1. ClientOk(c) /\ AnswerFlow(c)
      BY <1>1 DEF ExchangeInv, FlowInv, ClientsInv
    <3>2. ASSUME stage[c] = "reading" PROVE reads[c] # <<>>
      <4>1. Connected(c) /\ call[c] # <<>> /\ call[c] \in AllCalls
        BY <2>1, <3>1, <3>2 DEF ClientOk, ClientTypes, Connected
      <4>2. PICK result : \E r, m \in Nat : AnswerAt(c, result, r, m)
        BY <3>1, <4>1 DEF AnswerFlow
      <4>3. PICK r \in Nat, m \in Nat : AnswerAt(c, result, r, m)
        BY <4>2
      <4>4. /\ IsResult(call[c][1], result) /\ r < Len(Full(call[c][1], result))
            /\ reads[c] = ReadsAt(call[c][1], result, r)
        BY <3>2, <4>3 DEF AnswerAt
      <4>5. Script(call[c][1], result) /\ call[c][1] \in Operations
        BY <4>1, <4>4, AnswerScript, CallShapes
      <4>6. Len(Full(call[c][1], result)) \in Nat
        BY <4>5, AnswerLength
      <4>7. r \in 0..Len(Full(call[c][1], result)) - 1
        BY <4>4, <4>6
      <4>8. QED
        BY <4>4, <4>5, <4>7, ReadsGoOn
    <3>3. QED
      BY <3>1, <3>2 DEF ClientOk
  <2>7. phase \in Phases /\ stage \in [Clients -> ClientStages]
        /\ ends \in [Clients -> [Ends -> {"open", "closed"}]]
        /\ \A c \in Clients, end \in Ends : Len(inbox[c][end]) <= Capacity
    BY <2>1 DEF ServerInv, ClientTypes, DescriptorInv, BuffersInv
  <2>8. QED
    BY <2>2, <2>3, <2>4, <2>5, <2>6, <2>7 DEF TypeOK
<1>2. QED
  BY <1>1, ExchangeIsSound, PTL

(* No client ever finds the protocol violated: for every operation and     *)
(* every result, error_message_handler and the recv_ functions of the      *)
(* client meet the tokens that the server's handlers write, whatever is    *)
(* left of a connection when other processes are killed.                   *)
THEOREM ProtocolIsKept ==
  Spec => []ProtocolKept
<1>1. ASSUME ExchangeInv, NEW c \in Clients, Violated(c) PROVE FALSE
  <2>1. stage[c] = "reading" /\ inbox[c]["client"] # <<>>
        /\ ~Acceptable(Head(reads[c]), Head(inbox[c]["client"]))
    BY <1>1 DEF Violated
  <2>2. PICK result : \E r, m \in Nat : AtToken(c, result, r, m)
    BY <1>1, <2>1, TokenIs
  <2>3. PICK r \in Nat, m \in Nat : AtToken(c, result, r, m)
    BY <2>2
  <2>4. /\ Script(call[c][1], result) /\ call[c][1] \in Operations
        /\ Head(inbox[c]["client"]) = Full(call[c][1], result)[r + 1]
        /\ reads[c] = ReadsAt(call[c][1], result, r)
        /\ r < Len(Full(call[c][1], result))
    BY <2>1, <2>3 DEF AtToken, AnswerAt
  <2>5. Len(Full(call[c][1], result)) \in Nat
    BY <2>4, AnswerLength
  <2>6. r \in 0..Len(Full(call[c][1], result)) - 1
    BY <2>4, <2>5
  <2>7. QED
    BY <2>1, <2>4, <2>6, ReadsGoOn
<1>2. ExchangeInv => ProtocolKept
  BY <1>1 DEF ProtocolKept
<1>3. QED
  BY <1>2, ExchangeIsSound, PTL

(* The handler of a command calls the database once, with the arguments    *)
(* of the user in their places, whatever else was sent on the connection   *)
(* before.                                                                 *)
THEOREM TheAskedIsExecuted ==
  Spec => []ExecutesWhatWasAsked
<1>1. ASSUME ExchangeInv, NEW c \in serving, phase = "database"
      PROVE  TheCall = request[c] /\ outcome[c] = <<>>
  <2>1. CommandFlow(c) /\ ends[c]["server"] = "open"
    BY <1>1, ServedIs DEF ExchangeInv, FlowInv
  <2>2. PICK asked, done, rest : CommandAt(c, asked, done, rest)
    BY <2>1 DEF CommandFlow
  <2>3. TheCall = asked /\ request[c] = asked /\ outcome[c] = <<>>
    BY <1>1, <2>2, TheCallIs
  <2>4. QED
    BY <2>3
<1>2. ExchangeInv => ExecutesWhatWasAsked
  BY <1>1 DEF ExecutesWhatWasAsked
<1>3. QED
  BY <1>2, ExchangeIsSound, PTL

(* Every command that ends was executed, its user told what came of it,    *)
(* and nothing of its answer is left to be taken for that of the next.     *)
THEOREM AnswersTellTheOutcome ==
  Spec => AnswersAreTrue
<1> DEFINE Ended(c) == stage[c] = "reading" /\ stage'[c] = "ready"
           True(c) == /\ outcome[c] # <<>>
                      /\ outcome[c][1] = call[c]
                      /\ ToldTruly(call[c], outcome[c][2], told[c])
                      /\ inbox'[c]["client"] = <<>>
           A == \A c \in Clients : Ended(c) => True(c)
<1>1. ASSUME ExchangeInv, NEW c \in Clients, Recv(c), stage'[c] = "ready" PROVE True(c)
  <2>1. /\ stage[c] = "reading" /\ inbox[c]["client"] # <<>>
        /\ inbox' = [inbox EXCEPT ![c]["client"] = Tail(@)]
    BY <1>1 DEF Recv, Read
  <2>2. PICK result : \E r, m \in Nat : AtToken(c, result, r, m)
    BY <1>1, <2>1, TokenIs
  <2>3. PICK r \in Nat, m \in Nat : AtToken(c, result, r, m)
    BY <2>2
  <2> DEFINE L == Len(Full(call[c][1], result))
  <2>4. r + 1 <= L /\ (r + 1 < L => stage' = stage)
    BY <1>1, <2>3, RecvGoesOn
  <2>5. L \in Nat
    BY <2>3, AnswerLength DEF AtToken
  <2> HIDE DEF L
  <2>6. r + 1 = L
    BY <1>1, <2>1, <2>4, <2>5
  <2>7. r = L - 1
    BY <2>5, <2>6
  <2>8. outcome[c] = <<call[c], result>> /\ Tail(inbox[c]["client"]) = <<>>
    BY <1>1, <2>1, <2>3, <2>6, LastToken DEF L
  <2>9. told[c] = ToldAt(call[c][1], result, r) /\ call[c] \in AllCalls
        /\ IsResult(call[c][1], result)
    BY <2>3 DEF AtToken, AnswerAt
  <2>10. ToldTruly(call[c], result, told[c])
    BY <2>7, <2>9, AnswerScript DEF L
  <2>11. inbox'[c]["client"] = <<>>
    BY <1>1, <2>1, <2>8 DEF ExchangeInv, FlowInv, BuffersInv, Ends
  <2>12. QED
    BY <2>8, <2>10, <2>11
<1>2. ASSUME ExchangeInv, NEW c \in Clients, Next, Ended(c) PROVE Recv(c)
  <2>1. stage \in [Clients -> ClientStages]
    BY <1>2 DEF ExchangeInv, FlowInv, ClientsInv, ClientTypes
  <2>2. CASE ServerNext \/ ServerDies
    BY <1>2, <2>2 DEF ServerNext, ServerDies, clientVars
  <2>3. ASSUME NEW d \in Clients, UserNext(d) \/ ExchangeNext(d) PROVE Recv(c)
    <3>1. \/ ConnectToServer(d) \/ Leave(d) \/ Vanish(d) \/ Send(d) \/ Recv(d)
          \/ \E asked \in Calls[d] : GiveCommand(d, asked)
      BY <2>3 DEF UserNext, ExchangeNext, ClientDoes, Quit, Kill, TimesOut, Exchange, GivesUp
    <3>2. CASE Recv(d)
      <4>1. d = c
        BY <1>2, <2>1, <3>2 DEF Recv
      <4>2. QED
        BY <3>2, <4>1
    <3>3. CASE ConnectToServer(d)
      BY <1>2, <2>1, <3>3 DEF ConnectToServer
    <3>4. CASE Leave(d) \/ Vanish(d)
      BY <1>2, <2>1, <3>4 DEF Leave, Vanish
    <3>5. CASE Send(d)
      BY <1>2, <2>1, <3>5 DEF Send
    <3>6. ASSUME NEW asked \in Calls[d], GiveCommand(d, asked) PROVE Recv(c)
      BY <1>2, <2>1, <3>6 DEF GiveCommand
    <3>7. QED
      BY <3>1, <3>2, <3>3, <3>4, <3>5, <3>6
  <2>4. QED
    BY <1>2, <2>2, <2>3 DEF Next
<1>3. ExchangeInv => [Next => A]_vars
  <2>1. ASSUME ExchangeInv, Next, NEW c \in Clients, Ended(c) PROVE True(c)
    BY <1>1, <1>2, <2>1
  <2>2. QED
    BY <2>1
<1>4. ExchangeInv /\ [Next]_vars => [A]_vars
  BY <1>3
<1>5. QED
  BY <1>4, ExchangeIsSound, PTL DEF Spec, AnswersAreTrue

(* As long as the server runs, it closes only connections whose client has *)
(* gone.                                                                   *)
THEOREM NoClientIsCutOff ==
  Spec => KeepsItsClients
<1> DEFINE CutOff(c) == ends[c]["server"] = "open" /\ ends'[c]["server"] = "closed" /\ phase' # "down"
           A == \A c \in Clients : CutOff(c) => ends[c]["client"] = "closed"
<1>1. ASSUME ExchangeInv, NEW c \in serving, ConnectionFails(c) PROVE ends[c]["client"] = "closed"
  <2>1. CommandFlow(c) /\ ends[c]["server"] = "open"
    BY <1>1, ServedIs DEF ExchangeInv, FlowInv
  <2>2. PICK asked, done, rest : CommandAt(c, asked, done, rest)
    BY <2>1 DEF CommandFlow
  <2>3. ASSUME phase \in Reading, inbox[c]["server"] # <<>>
        PROVE  Expected(c, Head(inbox[c]["server"]))
    <3>1. NextIs(c, Head(inbox[c]["server"]), rest, asked, done,
                 Ahead(phase, Len(params), asked, done))
      BY <1>1, <2>2, <2>3, NextIsExpected
    <3>2. QED
      BY <3>1 DEF NextIs
  <2>4. QED
    BY <1>1, <2>3 DEF ConnectionFails, Unexpected, ReadFails, WriteFails, HungUp, Peer
<1>2. ASSUME ExchangeInv, NEW c \in Clients, Next, CutOff(c) PROVE ends[c]["client"] = "closed"
  <2>1. EndsOk
    BY <1>2, EndsAreOk DEF ExchangeInv
  <2>2. ASSUME NEW d \in serving, ConnectionFails(d) /\ Drop(d) PROVE ends[c]["client"] = "closed"
    <3>1. c = d
      BY <1>2, <2>2 DEF Drop, Deregister, Hangup
    <3>2. QED
      BY <1>1, <1>2, <2>2, <3>1
  <2>3. CASE ServerNext
    <3>1. ASSUME NEW d \in serving, ServeStep(d) PROVE ends[c]["client"] = "closed"
      <4>1. CASE ConnectionFails(d) /\ Drop(d)
        BY <2>2, <4>1
      <4>2. CASE ~(ConnectionFails(d) /\ Drop(d))
        <5>1. SocketsStay
          BY <1>2, <3>1, <4>2, ServingSteps DEF ServeStep, ExchangeInv
        <5>2. QED
          BY <1>2, <5>1 DEF SocketsStay
      <4>3. QED
        BY <4>1, <4>2
    <3>2. CASE Start \/ AcceptClient \/ WaitForCommand \/ RegisterConnection
      BY <1>2, <3>2 DEF Start, AcceptClient, WaitForCommand, RegisterConnection, Accept, netVars
    <3>3. CASE AcceptFails
      BY <1>2, <3>3 DEF AcceptFails, Exit
    <3>4. QED
      BY <2>3, <3>1, <3>2, <3>3 DEF ServerNext, ServerStep
  <2>4. CASE ServerDies
    BY <1>2, <2>4 DEF ServerDies, Die, Exit
  <2>5. ASSUME NEW d \in Clients, UserNext(d) \/ ExchangeNext(d) PROVE ends[c]["client"] = "closed"
    <3>1. Connect(d) \/ Leave(d) \/ UNCHANGED <<ends, backlog>>
      BY <2>5 DEF UserNext, ExchangeNext, ClientDoes, ConnectToServer, GiveCommand, Quit, Kill,
           Vanish, TimesOut, Exchange, Send, Recv, GivesUp, Write, Read, netVars
    <3>2. CASE Connect(d)
      <4>1. ends[d]["server"] = "closed" /\ ends' = [ends EXCEPT ![d] = [end \in Ends |-> "open"]]
        BY <3>2 DEF Connect
      <4>2. c # d
        BY <1>2, <4>1
      <4>3. ends'[c] = ends[c]
        BY <2>1, <4>1, <4>2 DEF EndsOk
      <4>4. QED
        BY <1>2, <4>3
    <3>3. CASE Leave(d)
      <4>1. Hangup({d}, "client")
        BY <3>3 DEF Leave
      <4>2. ends'[c]["server"] = ends[c]["server"]
        BY <2>1, <4>1 DEF Hangup, EndsOk, Ends
      <4>3. QED
        BY <1>2, <4>2
    <3>4. QED
      BY <1>2, <3>1, <3>2, <3>3
  <2>6. QED
    BY <1>2, <2>3, <2>4, <2>5 DEF Next
<1>3. ExchangeInv /\ [Next]_vars => [A]_vars
  <2>1. ASSUME ExchangeInv, Next, NEW c \in Clients, CutOff(c) PROVE ends[c]["client"] = "closed"
    BY <1>2, <2>1
  <2>2. QED
    BY <2>1
<1>4. QED
  BY <1>3, ExchangeIsSound, PTL DEF Spec, KeepsItsClients

-----------------------------------------------------------------------------
(* The board that users see.                                               *)

(* What the database does for a call is one operation of the service, with *)
(* the outcome of the client that asked for its answer.                    *)
LEMMA CallIsAnOperation ==
  ASSUME NEW c \in Clients, NEW a \in AllCalls, ServiceCall(a), outcome'[c] = answer'
  PROVE  Board!Service(c)!ServiceNext
<1>0. a[1] \in {"list_news_groups", "create_news_group", "delete_news_group",
                "list_articles", "create_article", "delete_article", "get_article"}
  BY CallShapes DEF Operations
<1>1. CASE a[1] = "list_news_groups"
  <2>1. DB!ListNewsGroups
    BY <1>1 DEF ServiceCall
  <2>2. Board!Service(c)!ListNewsGroups
    BY <2>1 DEF DB!ListNewsGroups, Board!Service!ListNewsGroups, DB!storeVars, Board!Service!storeVars
  <2>3. QED
    BY <2>2 DEF Board!Service!ServiceNext
<1>2. CASE a[1] = "create_news_group"
  <2>1. DB!CreateNewsGroup(a[2]) /\ a[2] \in Names
    BY <1>2, CallShapes DEF ServiceCall
  <2>2. Board!Service(c)!CreateNewsGroup(a[2])
    BY <2>1 DEF DB!CreateNewsGroup, Board!Service!CreateNewsGroup, DB!AddGroup,
         Board!Service!AddGroup, DB!NameTaken, Board!Service!NameTaken,
         DB!storeVars, Board!Service!storeVars
  <2>3. QED
    BY <2>1, <2>2 DEF Board!Service!ServiceNext
<1>3. CASE a[1] = "delete_news_group"
  <2>1. DB!DeleteNewsGroup(a[2]) /\ a[2] \in GroupIds
    BY <1>3, CallShapes DEF ServiceCall
  <2>2. Board!Service(c)!DeleteNewsGroup(a[2])
    BY <2>1 DEF DB!DeleteNewsGroup, Board!Service!DeleteNewsGroup, DB!RemoveGroup,
         Board!Service!RemoveGroup, DB!GroupExists, Board!Service!GroupExists,
         DB!ArticlesOf, Board!Service!ArticlesOf, DB!storeVars, Board!Service!storeVars
  <2>3. QED
    BY <2>1, <2>2 DEF Board!Service!ServiceNext
<1>4. CASE a[1] = "list_articles"
  <2>1. DB!ListArticles(a[2]) /\ a[2] \in GroupIds
    BY <1>4, CallShapes DEF ServiceCall
  <2>2. Board!Service(c)!ListArticles(a[2])
    BY <2>1 DEF DB!ListArticles, Board!Service!ListArticles, DB!Headers, Board!Service!Headers,
         DB!GroupExists, Board!Service!GroupExists,
         DB!ArticlesOf, Board!Service!ArticlesOf, DB!storeVars, Board!Service!storeVars
  <2>3. QED
    BY <2>1, <2>2 DEF Board!Service!ServiceNext
<1>5. CASE a[1] = "create_article"
  <2>1. DB!CreateArticle(a[2], a[3]) /\ a[2] \in GroupIds /\ a[3] \in Contents
    BY <1>5, CallShapes DEF ServiceCall
  <2>2. Board!Service(c)!CreateArticle(a[2], a[3])
    BY <2>1 DEF DB!CreateArticle, Board!Service!CreateArticle, DB!AddArticle,
         Board!Service!AddArticle, DB!GroupExists, Board!Service!GroupExists,
         DB!storeVars, Board!Service!storeVars
  <2>3. QED
    BY <2>1, <2>2 DEF Board!Service!ServiceNext
<1>6. CASE a[1] = "delete_article"
  <2>1. DB!DeleteArticle(a[2], a[3]) /\ a[2] \in GroupIds /\ a[3] \in ArticleIds
    BY <1>6, CallShapes DEF ServiceCall
  <2>2. Board!Service(c)!DeleteArticle(a[2], a[3])
    BY <2>1 DEF DB!DeleteArticle, Board!Service!DeleteArticle, DB!RemoveArticle,
         Board!Service!RemoveArticle, DB!ArticleExists, Board!Service!ArticleExists,
         DB!Missing, Board!Service!Missing, DB!GroupExists, Board!Service!GroupExists,
         DB!storeVars, Board!Service!storeVars
  <2>3. QED
    BY <2>1, <2>2 DEF Board!Service!ServiceNext
<1>7. CASE a[1] = "get_article"
  <2>1. DB!GetArticle(a[2], a[3]) /\ a[2] \in GroupIds /\ a[3] \in ArticleIds
    BY <1>7, CallShapes DEF ServiceCall
  <2>2. Board!Service(c)!GetArticle(a[2], a[3])
    BY <2>1 DEF DB!GetArticle, Board!Service!GetArticle, DB!ArticleExists,
         Board!Service!ArticleExists, DB!ArticlesOf, Board!Service!ArticlesOf,
         DB!Missing, Board!Service!Missing, DB!GroupExists, Board!Service!GroupExists,
         DB!storeVars, Board!Service!storeVars
  <2>3. QED
    BY <2>1, <2>2 DEF Board!Service!ServiceNext
<1>8. QED
  BY <1>0, <1>1, <1>2, <1>3, <1>4, <1>5, <1>6, <1>7

(* A board step of the others changes nothing for d. *)
LEMMA RecordsStay ==
  ASSUME ClientsInv, Record, NEW d \in Clients, call'[d] = call[d], stage'[d] = stage[d],
         ends'[d]["server"] = ends[d]["server"],
         ~(d \in serving /\ phase = "database" /\ phase' = "answer")
  PROVE  request'[d] = request[d] /\ outcome'[d] = outcome[d] /\ UserOf(d)' = UserOf(d)
<1>1. UserOf(d)' = UserOf(d)
  BY DEF UserOf, Connected
<1>2. CASE Connected(d) \/ ends'[d]["server"] = "open"
  BY <1>1, <1>2, RecordStays
<1>3. CASE ~Connected(d) /\ ends'[d]["server"] # "open"
  <2>1. request[d] = <<>> /\ outcome[d] = <<>>
    BY <1>3 DEF ClientsInv, ClientOk, Recorded
  <2>2. ~Connected(d)'
    BY <1>3 DEF Connected
  <2>3. Recorded(d)'
    BY RecordIs
  <2>4. QED
    BY <1>1, <1>3, <2>1, <2>2, <2>3 DEF Recorded
<1>4. QED
  BY <1>2, <1>3

(* What the server does otherwise is not seen, but for the requests that   *)
(* go when it closes the connections of clients that have gone.            *)
LEMMA ServerIsUnseen ==
  ASSUME ExchangeInv, Record, UNCHANGED clientVars, UNCHANGED storeVars,
         \A c \in serving : ~(phase = "database" /\ phase' = "answer")
  PROVE  Board!BoardNext
<1> DEFINE cs == {c \in Clients : ~Connected(c) /\ ends'[c]["server"] # "open"}
<1>1. UNCHANGED <<stage, call>> /\ UNCHANGED <<groups, articles, usedGroupIds, usedArticleIds>>
  BY DEF clientVars, storeVars
<1>2. \A c \in Clients : UserOf(c)' = UserOf(c) /\ Connected(c)' = Connected(c)
  BY <1>1 DEF UserOf, Connected
<1>3. ASSUME NEW c \in Clients
      PROVE  /\ request'[c] = IF c \in cs THEN <<>> ELSE request[c]
             /\ outcome'[c] = IF c \in cs THEN <<>> ELSE outcome[c]
  <2>1. CASE c \in cs
    <3>1. Recorded(c)'
      BY RecordIs
    <3>2. QED
      BY <1>2, <2>1, <3>1 DEF Recorded
  <2>2. CASE c \notin cs
    BY <1>1, <2>2, RecordStays DEF ExchangeInv, FlowInv
  <2>3. QED
    BY <2>1, <2>2
<1>4. IsFunction(request)' /\ IsFunction(outcome)'
  BY RecordIs
<1> HIDE DEF cs
<1>5. Board!Clear(cs)
  BY <1>3, <1>4 DEF Board!Clear, IsFunction
<1>6. [c \in Clients |-> UserOf(c)]' = [c \in Clients |-> UserOf(c)]
  BY <1>2
<1>7. \A c \in cs : [d \in Clients |-> UserOf(d)][c] = "away"
  BY DEF UserOf, cs
<1>8. Board!Drop(cs)
  BY <1>1, <1>5, <1>6, <1>7 DEF Board!Drop, Board!storeVars
<1>9. cs \in SUBSET Clients
  BY DEF cs
<1>10. QED
  BY <1>8, <1>9 DEF Board!BoardNext

(* The call of the database is the moment at which a request takes effect. *)
LEMMA CallTakesEffect ==
  ASSUME ExchangeInv, NEW c \in serving, CallDatabase(c), UNCHANGED clientVars, Record
  PROVE  Board!BoardNext
<1>0. serving = {c} /\ c \in Clients /\ ends[c]["server"] = "open"
  BY ServedIs DEF ExchangeInv
<1>1. /\ phase = "database" /\ phase' = "answer" /\ ServiceCall(TheCall)
      /\ ends' = ends /\ UNCHANGED <<stage, call>>
  BY DEF CallDatabase, netVars, clientVars
<1>2. TheCall \in AllCalls /\ request[c] = TheCall /\ outcome[c] = <<>>
  <2>1. PICK asked, done, rest : CommandAt(c, asked, done, rest)
    BY <1>0 DEF ExchangeInv, FlowInv, CommandFlow
  <2>2. QED
    BY <1>1, <2>1, TheCallIs
<1>3. request[c] # <<>>
  BY <1>2, CallShapes
<1>4. answer' = <<TheCall, answer'[2]>>
  BY <1>1, <1>2, DatabaseAnswers DEF ExchangeInv, FlowInv
<1>5. \A d \in Clients : UserOf(d)' = UserOf(d) /\ Connected(d)' = Connected(d)
  BY <1>1 DEF UserOf, Connected
<1>6. request'[c] = request[c]
  <2>1. Recorded(c)
    BY <1>0 DEF ExchangeInv, FlowInv, ClientsInv, ClientOk
  <2>2. QED
    BY <1>0, <1>1, <1>5, <2>1, RecordIs DEF Recorded
<1>7. outcome'[c] = answer'
  BY <1>0, <1>1, <1>3, <1>6, RecordIs
<1>8. \A d \in Clients \ {c} : request'[d] = request[d] /\ outcome'[d] = outcome[d]
  BY <1>0, <1>1, RecordsStay DEF ExchangeInv, FlowInv
<1>9. /\ request' = [d \in Clients |-> request'[d]] /\ request = [d \in Clients |-> request[d]]
      /\ outcome' = [d \in Clients |-> outcome'[d]] /\ outcome = [d \in Clients |-> outcome[d]]
  BY RecordIs DEF ExchangeInv, FlowInv, ClientsInv, ClientTypes, IsFunction
<1>10. request' = request
  BY <1>6, <1>8, <1>9
<1>11. outcome' = [outcome EXCEPT ![c] = outcome'[c]]
  BY <1>8, <1>9
<1>12. Board!Service(c)!ServiceNext
  BY <1>0, <1>1, <1>2, <1>7, CallIsAnOperation
<1>13. outcome'[c][1] = request[c]
  BY <1>2, <1>4, <1>7
<1>14. [d \in Clients |-> UserOf(d)]' = [d \in Clients |-> UserOf(d)]
  BY <1>5
<1>15. Board!Execute(c)
  BY <1>2, <1>3, <1>10, <1>11, <1>12, <1>13, <1>14 DEF Board!Execute
<1>16. QED
  BY <1>0, <1>15 DEF Board!BoardNext

LEMMA ServerIsOnBoard ==
  ASSUME ExchangeInv, ServerNext \/ ServerDies
  PROVE  Board!BoardNext
<1>1. UNCHANGED clientVars /\ Record
  BY DEF ServerNext, ServerDies
<1>2. CASE \E c \in serving : CallDatabase(c)
  BY <1>1, <1>2, CallTakesEffect
<1>3. CASE ~(\E c \in serving : CallDatabase(c))
  <2>1. /\ UNCHANGED storeVars
        /\ \A c \in serving : ~(phase = "database" /\ phase' = "answer")
    <3>1. CASE Start \/ AcceptClient \/ RegisterConnection \/ WaitForCommand
      BY <3>1 DEF Start, AcceptClient, RegisterConnection, WaitForCommand
    <3>2. CASE AcceptFails \/ Die
      BY <3>2 DEF AcceptFails, Die, Exit
    <3>3. ASSUME NEW c \in serving, ServeStep(c)
          PROVE  UNCHANGED storeVars /\ ~(phase = "database" /\ phase' = "answer")
      BY <1>3, <3>3 DEF ServeStep, RecvCommand, SendAns, RecvParam, SendAnswer, RecvEnd, Drop
    <3>4. QED
      BY <3>1, <3>2, <3>3 DEF ServerNext, ServerDies, ServerStep
  <2>2. QED
    BY <1>1, <2>1, ServerIsUnseen
<1>4. QED
  BY <1>2, <1>3

(* A step of client c is one of its user, or is not seen.                  *)
UserStep(c, where, asked, result) ==
  /\ UNCHANGED <<groups, articles, usedGroupIds, usedArticleIds>>
  /\ [d \in Clients |-> UserOf(d)]' = [[d \in Clients |-> UserOf(d)] EXCEPT ![c] = where]
  /\ request' = [request EXCEPT ![c] = asked]
  /\ outcome' = [outcome EXCEPT ![c] = result]

LEMMA UserStepIs ==
  ASSUME ExchangeInv, NEW c \in Clients, UNCHANGED <<storeVars, serverVars>>, Record, Alone(c)
  PROVE  UserStep(c, UserOf(c)', request'[c], outcome'[c])
<1>1. UNCHANGED <<groups, articles, usedGroupIds, usedArticleIds, phase, serving>>
  BY DEF storeVars, serverVars
<1>2. \A d \in Clients \ {c} :
        request'[d] = request[d] /\ outcome'[d] = outcome[d] /\ UserOf(d)' = UserOf(d)
  BY <1>1, RecordsStay DEF Alone, ExchangeInv, FlowInv
<1>3. /\ request' = [d \in Clients |-> request'[d]] /\ request = [d \in Clients |-> request[d]]
      /\ outcome' = [d \in Clients |-> outcome'[d]] /\ outcome = [d \in Clients |-> outcome[d]]
  BY RecordIs DEF ExchangeInv, FlowInv, ClientsInv, ClientTypes, IsFunction
<1>4. request' = [request EXCEPT ![c] = request'[c]] /\ outcome' = [outcome EXCEPT ![c] = outcome'[c]]
  BY <1>2, <1>3
<1>5. [d \in Clients |-> UserOf(d)]' = [[d \in Clients |-> UserOf(d)] EXCEPT ![c] = UserOf(c)']
  BY <1>2
<1>6. QED
  BY <1>1, <1>4, <1>5 DEF UserStep

LEMMA ClientIsAlone ==
  ASSUME ExchangeInv, NEW c \in Clients,
         \/ ConnectToServer(c) \/ Leave(c) \/ Vanish(c) \/ Send(c) \/ Recv(c)
         \/ \E asked \in Calls[c] : GiveCommand(c, asked)
  PROVE  Alone(c)
<1>1. /\ stage \in [Clients -> ClientStages] /\ call \in [Clients -> AllCalls \cup {<<>>}]
      /\ unsent \in [Clients -> Seq(Tokens)] /\ IsFunction(reads) /\ IsFunction(told)
      /\ inbox \in [Clients -> [Ends -> Seq(Tokens)]]
      /\ ends \in [Clients -> [Ends -> {"open", "closed"}]]
  BY EndsAreOk DEF ExchangeInv, FlowInv, ClientsInv, ClientTypes, BuffersInv, EndsOk
<1>2. CASE ConnectToServer(c)
  BY <1>1, <1>2 DEF ConnectToServer, Connect, Alone
<1>3. CASE Leave(c)
  BY <1>1, <1>3 DEF Leave, Forget, Hangup, Alone, IsFunction
<1>4. CASE Vanish(c)
  BY <1>1, <1>4 DEF Vanish, Forget, netVars, Alone, IsFunction
<1>5. CASE Send(c)
  BY <1>1, <1>5 DEF Send, Write, Alone, IsFunction
<1>6. CASE Recv(c)
  BY <1>1, <1>6 DEF Recv, Read, Alone, IsFunction
<1>7. ASSUME NEW asked \in Calls[c], GiveCommand(c, asked) PROVE Alone(c)
  BY <1>1, <1>7 DEF GiveCommand, netVars, Alone
<1>8. QED
  BY <1>2, <1>3, <1>4, <1>5, <1>6, <1>7

(* What is not seen, and the steps of a user.                              *)
LEMMA UserDoes ==
  ASSUME NEW c \in Clients, NEW where, NEW asked, NEW result, UserStep(c, where, asked, result),
         IsFunction(request), IsFunction(outcome),
         \/ where = UserOf(c) /\ asked = request[c] /\ result = outcome[c]
         \/ /\ UserOf(c) = "away" /\ where = "idle"
            /\ request[c] = <<>> /\ asked = request[c] /\ result = outcome[c]
         \/ UserOf(c) = "idle" /\ where = "waiting" /\ asked \in Calls[c] /\ result = outcome[c]
         \/ /\ UserOf(c) = "waiting" /\ outcome[c] # <<>> /\ where = "idle"
            /\ asked = <<>> /\ result = <<>>
         \/ /\ UserOf(c) # "away" /\ where = "away"
            /\ \/ asked = request[c] /\ result = outcome[c]
               \/ asked = <<>> /\ result = <<>>
  PROVE  [Board!BoardNext]_(Board!boardVars)
<1> DEFINE u == [d \in Clients |-> UserOf(d)]
<1>1. /\ UNCHANGED <<groups, articles, usedGroupIds, usedArticleIds>>
      /\ u' = [u EXCEPT ![c] = where]
      /\ request' = [request EXCEPT ![c] = asked] /\ outcome' = [outcome EXCEPT ![c] = result]
  BY DEF UserStep
<1>2. u[c] = UserOf(c)
  OBVIOUS
<1>3. /\ request = [d \in Clients |-> request[d]] /\ outcome = [d \in Clients |-> outcome[d]]
  BY DEF IsFunction
<1>4. asked = request[c] => request' = request
  BY <1>1, <1>3
<1>5. result = outcome[c] => outcome' = outcome
  BY <1>1, <1>3
<1>6. where = UserOf(c) => u' = u
  BY <1>1
<1>7. asked = request[c] /\ result = outcome[c] => Board!Clear({})
  BY <1>3, <1>4, <1>5 DEF Board!Clear
<1>8. asked = <<>> /\ result = <<>> => Board!Clear({c})
  BY <1>1, <1>3 DEF Board!Clear
<1>9. Board!storeVars' = Board!storeVars
  BY <1>1 DEF Board!storeVars
<1> HIDE DEF u
<1>10. CASE where = UserOf(c) /\ asked = request[c] /\ result = outcome[c]
  BY <1>4, <1>5, <1>6, <1>9, <1>10 DEF Board!boardVars, u
<1>11. CASE /\ UserOf(c) = "away" /\ where = "idle"
            /\ request[c] = <<>> /\ asked = request[c] /\ result = outcome[c]
  <2>1. Board!Come(c)
    BY <1>1, <1>2, <1>4, <1>5, <1>9, <1>11 DEF Board!Come, u
  <2>2. QED
    BY <2>1 DEF Board!BoardNext
<1>12. CASE UserOf(c) = "idle" /\ where = "waiting" /\ asked \in Calls[c] /\ result = outcome[c]
  <2>1. Board!Ask(c, asked)
    BY <1>1, <1>2, <1>5, <1>9, <1>12 DEF Board!Ask, u
  <2>2. QED
    BY <1>12, <2>1 DEF Board!BoardNext
<1>13. CASE /\ UserOf(c) = "waiting" /\ outcome[c] # <<>> /\ where = "idle"
            /\ asked = <<>> /\ result = <<>>
  <2>1. Board!Answered(c)
    BY <1>1, <1>2, <1>8, <1>9, <1>13 DEF Board!Answered, u
  <2>2. QED
    BY <2>1 DEF Board!BoardNext
<1>14. CASE /\ UserOf(c) # "away" /\ where = "away"
            /\ \/ asked = request[c] /\ result = outcome[c]
               \/ asked = <<>> /\ result = <<>>
  <2>1. Board!Part(c)
    BY <1>1, <1>2, <1>7, <1>8, <1>9, <1>14 DEF Board!Part, u
  <2>2. QED
    BY <2>1 DEF Board!BoardNext
<1>15. QED
  BY <1>10, <1>11, <1>12, <1>13, <1>14

LEMMA RecordOfClient ==
  ASSUME ExchangeInv, NEW c \in Clients, UNCHANGED <<storeVars, serverVars>>, Record
  PROVE  /\ Recorded(c) /\ Recorded(c)'
         /\ IsFunction(request) /\ IsFunction(outcome)
         /\ Connected(c)' => request'[c] = call'[c]
         /\ ~Connected(c)' /\ ends'[c]["server"] = "open" => request'[c] = request[c]
         /\ outcome'[c] = IF request'[c] = <<>> THEN <<>> ELSE outcome[c]
<1>1. phase' = phase
  BY DEF serverVars
<1>2. Recorded(c) /\ IsFunction(request) /\ IsFunction(outcome)
  BY DEF ExchangeInv, FlowInv, ClientsInv, ClientTypes, ClientOk
<1>3. QED
  BY <1>1, <1>2, RecordIs

(* A user who goes: what was asked for stays with the server, if it has    *)
(* the connection.                                                         *)
LEMMA GoingIsParting ==
  ASSUME ExchangeInv, NEW c \in Clients, Leave(c) \/ Vanish(c),
         UNCHANGED <<storeVars, serverVars>>, Record
  PROVE  [Board!BoardNext]_(Board!boardVars)
<1>1. UserStep(c, UserOf(c)', request'[c], outcome'[c])
  BY ClientIsAlone, UserStepIs
<1>2. stage \in [Clients -> ClientStages] /\ EndsOk
  BY EndsAreOk DEF ExchangeInv, FlowInv, ClientsInv, ClientTypes
<1>3. stage'[c] \in {"off", "vanished"} /\ ends'[c]["server"] = ends[c]["server"]
  BY <1>2 DEF Leave, Vanish, Hangup, netVars, EndsOk, Ends
<1>4. ~Connected(c)' /\ UserOf(c)' = "away"
  BY <1>3 DEF UserOf, Connected
<1>5. \/ request'[c] = request[c] /\ outcome'[c] = outcome[c]
      \/ request'[c] = <<>> /\ outcome'[c] = <<>>
  BY <1>4, RecordOfClient DEF Recorded
<1>6. ~Connected(c) => request'[c] = request[c] /\ outcome'[c] = outcome[c]
  BY <1>3, <1>4, RecordOfClient DEF Recorded
<1>7. UserOf(c) = "away" <=> ~Connected(c)
  BY DEF UserOf
<1>8. IsFunction(request) /\ IsFunction(outcome)
  BY RecordOfClient
<1>9. QED
  BY <1>1, <1>4, <1>5, <1>6, <1>7, <1>8, UserDoes

LEMMA ClientIsOnBoard ==
  ASSUME ExchangeInv, NEW c \in Clients, UserNext(c) \/ ExchangeNext(c)
  PROVE  [Board!BoardNext]_(Board!boardVars)
<1>1. UNCHANGED <<storeVars, serverVars>> /\ Record
  BY DEF UserNext, ExchangeNext, ClientDoes
<1>2. /\ Recorded(c) /\ Recorded(c)'
      /\ IsFunction(request) /\ IsFunction(outcome)
      /\ Connected(c)' => request'[c] = call'[c]
      /\ outcome'[c] = IF request'[c] = <<>> THEN <<>> ELSE outcome[c]
  BY <1>1, RecordOfClient
<1>3. ClientTypes /\ ClientOk(c)
  BY DEF ExchangeInv, FlowInv, ClientsInv
<1>4. CASE ConnectToServer(c)
  <2>1. /\ stage[c] = "off" /\ ends[c]["server"] = "closed"
        /\ stage'[c] = "ready" /\ call'[c] = call[c]
    BY <1>3, <1>4 DEF ConnectToServer, Connect, ClientTypes
  <2>2. ~Connected(c) /\ Connected(c)' /\ UserOf(c) = "away" /\ UserOf(c)' = "idle"
    BY <2>1 DEF Connected, UserOf
  <2>3. request[c] = <<>> /\ request'[c] = <<>> /\ outcome[c] = <<>> /\ outcome'[c] = <<>>
    BY <1>2, <1>3, <2>1, <2>2 DEF Recorded, ClientOk
  <2>4. UserStep(c, UserOf(c)', request'[c], outcome'[c])
    BY <1>1, <1>4, ClientIsAlone, UserStepIs
  <2>5. QED
    BY <1>2, <2>2, <2>3, <2>4, UserDoes
<1>5. ASSUME NEW asked \in Calls[c], GiveCommand(c, asked)
      PROVE  [Board!BoardNext]_(Board!boardVars)
  <2>1. stage[c] = "ready" /\ stage'[c] = "sending" /\ call'[c] = asked
    BY <1>3, <1>5 DEF GiveCommand, ClientTypes
  <2>2. /\ Connected(c) /\ Connected(c)' /\ UserOf(c) = "idle" /\ UserOf(c)' = "waiting"
    BY <2>1 DEF Connected, UserOf
  <2>3. asked # <<>>
    BY CallsAssumption, CallShapes
  <2>4. request'[c] = asked /\ outcome'[c] = outcome[c]
    BY <1>2, <2>1, <2>2, <2>3
  <2>5. UserStep(c, UserOf(c)', request'[c], outcome'[c])
    BY <1>1, <1>5, ClientIsAlone, UserStepIs
  <2>6. QED
    BY <1>2, <2>2, <2>4, <2>5, UserDoes
<1>6. CASE Leave(c) \/ Vanish(c)
  BY <1>1, <1>6, GoingIsParting
<1>7. CASE Send(c)
  <2>1. stage[c] = "sending" /\ stage'[c] \in {"sending", "reading"} /\ call'[c] = call[c]
    BY <1>3, <1>7 DEF Send, ClientTypes
  <2>2. Connected(c) /\ Connected(c)' /\ UserOf(c) = UserOf(c)'
    BY <2>1 DEF Connected, UserOf
  <2>3. request'[c] = request[c] /\ outcome'[c] = outcome[c]
    BY <1>2, <2>1, <2>2 DEF Recorded
  <2>4. UserStep(c, UserOf(c)', request'[c], outcome'[c])
    BY <1>1, <1>7, ClientIsAlone, UserStepIs
  <2>5. QED
    BY <1>2, <2>2, <2>3, <2>4, UserDoes
<1>8. CASE Recv(c)
  <2>1. stage[c] = "reading" /\ inbox[c]["client"] # <<>>
    BY <1>8 DEF Recv, Read
  <2>2. PICK result : \E r, m \in Nat : AtToken(c, result, r, m)
    BY <2>1, TokenIs
  <2>3. PICK r \in Nat, m \in Nat : AtToken(c, result, r, m)
    BY <2>2
  <2> DEFINE L == Len(Full(call[c][1], result))
  <2>4. /\ r + 1 < L => UNCHANGED <<stage, call>>
        /\ r + 1 = L => /\ stage' = [stage EXCEPT ![c] = "ready"]
                        /\ call' = [call EXCEPT ![c] = <<>>]
        /\ r + 1 <= L
    BY <1>8, <2>3, RecvGoesOn
  <2>5. L \in Nat
    BY <2>3, AnswerLength DEF AtToken
  <2>6. ASSUME r + 1 = L PROVE outcome[c] # <<>>
    <3>1. outcome[c] = <<call[c], result>>
      BY <2>1, <2>3, <2>6, LastToken
    <3>2. QED
      BY <3>1
  <2> HIDE DEF L
  <2>7. UserStep(c, UserOf(c)', request'[c], outcome'[c])
    BY <1>1, <1>8, ClientIsAlone, UserStepIs
  <2>8. CASE r + 1 < L
    <3>1. Connected(c) /\ Connected(c)' /\ UserOf(c) = UserOf(c)' /\ call'[c] = call[c]
      BY <2>1, <2>4, <2>8 DEF Connected, UserOf
    <3>2. request'[c] = request[c] /\ outcome'[c] = outcome[c]
      BY <1>2, <3>1 DEF Recorded
    <3>3. QED
      BY <1>2, <2>7, <3>1, <3>2, UserDoes
  <2>9. CASE r + 1 = L
    <3>1. stage'[c] = "ready" /\ call'[c] = <<>>
      BY <1>3, <2>4, <2>9 DEF ClientTypes
    <3>2. Connected(c)' /\ UserOf(c) = "waiting" /\ UserOf(c)' = "idle"
      BY <2>1, <3>1 DEF Connected, UserOf
    <3>3. request'[c] = <<>> /\ outcome'[c] = <<>>
      BY <1>2, <3>1, <3>2
    <3>4. QED
      BY <1>2, <2>6, <2>7, <2>9, <3>2, <3>3, UserDoes
  <2>10. QED
    BY <2>4, <2>5, <2>8, <2>9
<1>9. QED
  BY <1>4, <1>5, <1>6, <1>7, <1>8
     DEF UserNext, ExchangeNext, ClientDoes, Quit, Kill, TimesOut, Exchange, GivesUp

(* Whatever the clients do at the same time and wherever processes are     *)
(* killed, the system is one board for its users: each operation takes     *)
(* effect at one moment between the question and the answer, and at most   *)
(* once, also for a user who is gone by then.                              *)
THEOREM SystemIsABoard ==
  Spec => ImplementsBoard
<1>1. Init => Board!BoardInit
  <2> SUFFICES ASSUME Init PROVE Board!BoardInit
    OBVIOUS
  <2>1. groups = {} /\ articles = {} /\ usedGroupIds = {} /\ usedArticleIds = {}
    BY DEF Init, ServerInit, DB!StoreInit
  <2>2. /\ stage = [c \in Clients |-> "off"]
        /\ request = [c \in Clients |-> <<>>] /\ outcome = [c \in Clients |-> <<>>]
    BY DEF Init, ClientInit
  <2>3. [c \in Clients |-> UserOf(c)] = [c \in Clients |-> "away"]
    BY <2>2 DEF UserOf, Connected
  <2>4. QED
    BY <2>1, <2>2, <2>3 DEF Board!BoardInit, Board!StoreInit
<1>2. ExchangeInv /\ [Next]_vars => [Board!BoardNext]_(Board!boardVars)
  <2> SUFFICES ASSUME ExchangeInv, [Next]_vars PROVE [Board!BoardNext]_(Board!boardVars)
    OBVIOUS
  <2>1. CASE ServerNext \/ ServerDies
    BY <2>1, ServerIsOnBoard
  <2>2. ASSUME NEW c \in Clients, UserNext(c) \/ ExchangeNext(c)
        PROVE  [Board!BoardNext]_(Board!boardVars)
    BY <2>2, ClientIsOnBoard
  <2>3. CASE UNCHANGED vars
    BY <2>3 DEF vars, storeVars, clientVars, UserOf, Connected, Board!boardVars, Board!storeVars
  <2>4. QED
    BY <2>1, <2>2, <2>3 DEF Next
<1>3. QED
  BY <1>1, <1>2, ExchangeIsSound, PTL DEF Spec, ImplementsBoard, Board!BoardSpec

-----------------------------------------------------------------------------
(* Nobody waits in a circle.                                               *)

(* main has begun with a connection only because something can be read.    *)
CommandIsThere == \A d \in serving : phase = "command" => Readable(d, "server")

LEMMA CommandIsThereStep ==
  ExchangeInv /\ CommandIsThere /\ [Next]_vars => CommandIsThere'
<1> SUFFICES ASSUME ExchangeInv, CommandIsThere, [Next]_vars, NEW d \in serving', phase' = "command"
             PROVE  Readable(d, "server")'
  BY DEF CommandIsThere
<1>0. "server" \in Ends /\ Peer("server") = "client" /\ "client" \in Ends /\ Peer("client") = "server"
  BY DEF Ends, Peer
<1>1. CASE ServerNext \/ ServerDies
  <2>1. CASE WaitForCommand
    <3>1. ReadyConnections # {} /\ d = connections[FirstReady] /\ UNCHANGED <<inbox, ends>>
      BY <2>1 DEF WaitForCommand, netVars
    <3>2. FirstReady \in ReadyConnections
      BY <3>1, FirstReadyIs DEF ExchangeInv, DescriptorInv
    <3>3. QED
      BY <3>1, <3>2 DEF ReadyConnections, Readable, HungUp
  <2>2. CASE Start \/ AcceptClient \/ RegisterConnection \/ AcceptFails \/ Die
    BY <2>2 DEF Start, AcceptClient, RegisterConnection, AcceptFails, Die, Exit
  <2>3. ASSUME NEW c \in serving, ServeStep(c) PROVE FALSE
    BY <2>3 DEF ServeStep, RecvCommand, SendAns, RecvParam, CallDatabase, SendAnswer, RecvEnd,
         Drop, PhaseAfter, AfterAnswer
  <2>4. QED
    BY <1>1, <2>1, <2>2, <2>3 DEF ServerNext, ServerDies, ServerStep
<1>2. ASSUME NEW c \in Clients, UserNext(c) \/ ExchangeNext(c) PROVE Readable(d, "server")'
  <2>1. serving' = serving /\ phase' = phase
    BY <1>2 DEF UserNext, ExchangeNext, ClientDoes, serverVars
  <2>2. d \in serving /\ d \in Clients /\ Readable(d, "server") /\ ends[d]["server"] = "open"
    BY <2>1, ServedIs DEF CommandIsThere, ExchangeInv
  <2>3. BuffersInv /\ ClientTypes /\ ClientOk(c) /\ EndsOk
    BY EndsAreOk DEF ExchangeInv, FlowInv, ClientsInv
  <2>4. CASE d # c
    <3>1. Alone(c)
      BY <1>2, ClientIsAlone
         DEF UserNext, ExchangeNext, ClientDoes, Quit, Kill, TimesOut, Exchange, GivesUp
    <3>2. inbox'[d] = inbox[d] /\ ends'[d] = ends[d]
      BY <2>2, <2>4, <3>1 DEF Alone
    <3>3. QED
      BY <2>2, <3>2 DEF Readable, HungUp
  <2>5. CASE d = c
    <3>1. CASE ConnectToServer(c)
      BY <2>2, <2>5, <3>1 DEF ConnectToServer, Connect
    <3>2. CASE Leave(c)
      <4>1. ends'[c]["client"] = "closed"
        BY <1>0, <2>3, <3>2 DEF Leave, Hangup, EndsOk
      <4>2. QED
        BY <1>0, <2>5, <4>1 DEF Readable, HungUp
    <3>3. CASE Vanish(c) \/ \E asked \in Calls[c] : GiveCommand(c, asked)
      BY <2>2, <3>3 DEF Vanish, GiveCommand, netVars, Readable, HungUp
    <3>4. CASE Send(c)
      <4>1. unsent[c] # <<>> /\ unsent[c] \in Seq(Tokens) /\ Write(c, "client", Head(unsent[c]))
        BY <2>3, <3>4 DEF Send, ClientOk, ClientTypes
      <4>2. Head(unsent[c]) \in Tokens
        BY <4>1, Gives
      <4>3. inbox'[c]["server"] = Append(inbox[c]["server"], Head(unsent[c]))
        BY <1>0, <2>2, <2>3, <2>5, <4>1, <4>2, WriteIs
      <4>4. inbox[c]["server"] \in Seq(Tokens)
        BY <1>0, <2>3 DEF BuffersInv
      <4>5. inbox'[c]["server"] # <<>>
        BY <4>2, <4>3, <4>4, AppendProperties
      <4>6. QED
        BY <2>5, <4>5 DEF Readable
    <3>5. CASE Recv(c)
      <4>1. Read(c, "client")
        BY <3>5 DEF Recv
      <4>2. inbox'[c]["server"] = inbox[c]["server"] /\ ends' = ends
        BY <1>0, <2>3, <4>1, ReadIs
      <4>3. QED
        BY <2>2, <2>5, <4>2 DEF Readable, HungUp
    <3>6. QED
      BY <1>2, <3>1, <3>2, <3>3, <3>4, <3>5
         DEF UserNext, ExchangeNext, ClientDoes, Quit, Kill, TimesOut, Exchange, GivesUp
  <2>6. QED
    BY <2>4, <2>5
<1>3. CASE UNCHANGED vars
  BY <1>3 DEF vars, netVars, serverVars, CommandIsThere, Readable, HungUp
<1>4. QED
  BY <1>1, <1>2, <1>3 DEF Next

(* What a client that the server waits for has still to send.              *)
LEMMA StillToSend ==
  ASSUME ExchangeInv, NEW c \in Clients, Connected(c), inbox[c]["server"] = <<>>,
         NEW asked, NEW done, NEW rest, CommandAt(c, asked, done, rest)
  PROVE  unsent[c] = Ahead(Place(c), Len(params), asked, done)
<1>1. rest \in Seq(Tokens) /\ <<>> \o rest = Ahead(Place(c), Len(params), asked, done)
      /\ rest = unsent[c]
  BY DEF CommandAt
<1>2. <<>> \o rest = rest
  BY <1>1, ConcatEmptySeq
<1>3. QED
  BY <1>1, <1>2

(* An empty buffer has room. *)
LEMMA RoomForOne ==
  Len(<<>>) < Capacity
BY CapacityAssumption

(* The server waits for the rest of a command: its client can send.        *)
LEMMA ReaderIsServed ==
  ASSUME ExchangeInv, CommandIsThere, NEW c \in serving, Connected(c), phase \in Reading,
         ~Readable(c, "server")
  PROVE  ClientCan(c)
<1>1. c \in Clients /\ Place(c) = phase /\ ends[c]["server"] = "open"
  BY ServedIs DEF ExchangeInv
<1>2. inbox[c]["server"] = <<>> /\ phase \in {"params", "end"}
  BY DEF Readable, CommandIsThere, Reading
<1>3. PICK asked, done, rest : CommandAt(c, asked, done, rest)
  BY <1>1 DEF ExchangeInv, FlowInv, CommandFlow
<1>4. unsent[c] = Ahead(phase, Len(params), asked, done)
  BY <1>1, <1>2, <1>3, StillToSend
<1>5. unsent[c] # <<>>
  <2>1. CASE phase = "params"
    <3>1. asked \in AllCalls /\ op = asked[1] /\ params \in Seq(Values) /\ Len(params) <= NParams(op)
      BY <1>1, <1>3, <2>1 DEF CommandAt, HandlerAt, Handling
    <3>2. Len(params) \in 0..NParams(asked[1])
      BY <3>1, ParametersAre, LenProperties
    <3>3. phase \in Handling
      BY <2>1 DEF Handling
    <3>4. QED
      BY <1>4, <3>1, <3>2, <3>3, ParameterAhead
  <2>2. CASE phase = "end"
    <3>1. asked \in AllCalls \cup {<<>>} /\ done \in BOOLEAN
      BY <1>3 DEF CommandAt
    <3>2. QED
      BY <1>4, <2>2, <3>1, EndAhead
  <2>3. QED
    BY <1>2, <2>1, <2>2
<1>6. stage[c] = "sending"
  BY <1>1, <1>5 DEF ExchangeInv, FlowInv, ClientsInv, ClientOk
<1>7. Len(inbox[c]["server"]) < Capacity
  BY <1>2, RoomForOne
<1>8. QED
  BY <1>6, <1>7 DEF ClientCan

(* The server waits for room: its client can read, or has room to send.    *)
LEMMA WriterIsServed ==
  ASSUME ExchangeInv, NEW c \in serving, Connected(c), phase \in Writing,
         ~(Len(inbox[c]["client"]) < Capacity)
  PROVE  ClientCan(c)
<1>1. c \in Clients /\ Place(c) = phase /\ ends[c]["server"] = "open" /\ phase \in {"ans", "answer"}
  BY ServedIs DEF ExchangeInv, Writing
<1>2. PICK asked, done, rest : CommandAt(c, asked, done, rest)
  BY <1>1 DEF ExchangeInv, FlowInv, CommandFlow
<1>3. /\ asked \in AllCalls /\ op = asked[1] /\ params \in Seq(Values)
      /\ phase = "answer" => Len(params) = NParams(op)
      /\ inbox[c]["server"] \o rest = Ahead(phase, Len(params), asked, done)
      /\ rest \in Seq(Tokens) /\ rest = unsent[c] /\ asked = request[c]
  BY <1>1, <1>2 DEF CommandAt, HandlerAt, Handling
<1>4. ClientOk(c) /\ AnswerFlow(c) /\ BuffersInv
  BY <1>1 DEF ExchangeInv, FlowInv, ClientsInv
<1>5. call[c] = asked /\ call[c] # <<>> /\ stage[c] \in {"sending", "reading"}
  BY <1>3, <1>4, CallShapes DEF ClientOk, Recorded
<1>6. inbox[c]["client"] # <<>>
  BY RoomForOne
<1>7. CASE stage[c] = "reading"
  BY <1>6, <1>7 DEF ClientCan, Readable
<1>8. CASE stage[c] = "sending" /\ phase = "ans"
  <2>1. PICK result : \E r, m \in Nat : AnswerAt(c, result, r, m)
    BY <1>4, <1>5 DEF AnswerFlow
  <2>2. PICK r \in Nat, m \in Nat : AnswerAt(c, result, r, m)
    BY <2>1
  <2>3. /\ m = 0 /\ r = 0 /\ inbox[c]["client"] = SubSeq(Full(call[c][1], result), r + 1, m)
        /\ IsResult(call[c][1], result)
    BY <1>1, <1>8, <2>2 DEF AnswerAt, Written
  <2>4. Full(call[c][1], result) \in Seq(Tokens)
    BY <1>3, <1>5, <2>3, AnswerScript, AnswerLength
  <2> DEFINE A == Full(call[c][1], result)
  <2> HIDE DEF A
  <2>5. SubSeq(A, 0 + 1, 0) = <<>>
    BY <2>4, SubSeqEmpty DEF A
  <2>6. QED
    BY <1>6, <2>3, <2>5 DEF A
<1>9. CASE stage[c] = "sending" /\ phase = "answer"
  <2>1. Len(params) = NParams(asked[1]) /\ NParams(asked[1]) \in 0..4 /\ "answer" \in Handling
    BY <1>3, <1>9, ParametersAre DEF Handling
  <2>2. Ahead("answer", Len(params), asked, done) = <<<<"COM_END">>>>
    BY <1>3, <2>1, ParameterAhead
  <2>3. inbox[c]["server"] \in Seq(Tokens) /\ unsent[c] # <<>>
    BY <1>1, <1>4, <1>9 DEF BuffersInv, Ends, ClientOk
  <2> DEFINE q == inbox[c]["server"]
  <2> HIDE DEF q
  <2>4. q \in Seq(Tokens) /\ rest \in Seq(Tokens) /\ rest # <<>> /\ q \o rest = <<<<"COM_END">>>>
    BY <1>3, <1>9, <2>2, <2>3 DEF q
  <2>5. Len(q \o rest) = Len(q) + Len(rest) /\ Len(q) \in Nat /\ Len(rest) \in Nat \ {0}
    BY <2>4, ConcatProperties, LenProperties, EmptySeq
  <2>6. Len(<<<<"COM_END">>>>) = 1
    OBVIOUS
  <2>7. Len(q) < Capacity
    BY <2>4, <2>5, <2>6, CapacityAssumption
  <2>8. QED
    BY <1>9, <2>7 DEF q, ClientCan
<1>10. QED
  BY <1>1, <1>5, <1>7, <1>8, <1>9

(* A server that does not run holds no connection. *)
DownHoldsNone == phase = "down" => connections = <<>> /\ backlog = <<>>

LEMMA DownHoldsNoneStep ==
  ExchangeInv /\ DownHoldsNone /\ [Next]_vars => DownHoldsNone'
<1> SUFFICES ASSUME ExchangeInv, DownHoldsNone, [Next]_vars, phase' = "down"
             PROVE  connections' = <<>> /\ backlog' = <<>>
  BY DEF DownHoldsNone
<1>1. CASE ServerNext \/ ServerDies
  <2>1. CASE AcceptFails \/ Die
    BY <2>1 DEF AcceptFails, Die, Exit
  <2>2. CASE Start \/ AcceptClient \/ WaitForCommand \/ RegisterConnection
    BY <2>2 DEF Start, AcceptClient, WaitForCommand, RegisterConnection
  <2>3. ASSUME NEW c \in serving, ServeStep(c) PROVE FALSE
    BY <2>3 DEF ServeStep, RecvCommand, SendAns, RecvParam, CallDatabase, SendAnswer, RecvEnd,
         Drop, PhaseAfter, AfterAnswer
  <2>4. QED
    BY <1>1, <2>1, <2>2, <2>3 DEF ServerNext, ServerDies, ServerStep
<1>2. ASSUME NEW c \in Clients, UserNext(c) \/ ExchangeNext(c)
      PROVE  connections' = <<>> /\ backlog' = <<>>
  <2>1. UNCHANGED serverVars
    BY <1>2 DEF UserNext, ExchangeNext, ClientDoes
  <2>2. phase = "down" /\ connections' = connections
    BY <2>1 DEF serverVars
  <2>3. backlog' = backlog
    BY <1>2, <2>2 DEF UserNext, ExchangeNext, ClientDoes, ConnectToServer, Connect, Listening,
         GiveCommand, Quit, Kill, Vanish, TimesOut, Leave, Exchange, Send, Recv, GivesUp, Write,
         Read, netVars
  <2>4. QED
    BY <2>2, <2>3 DEF DownHoldsNone
<1>3. CASE UNCHANGED vars
  BY <1>3 DEF vars, netVars, serverVars, DownHoldsNone
<1>4. QED
  BY <1>1, <1>2, <1>3 DEF Next

(* The server waits in select, or does not run: a client has its answer,   *)
(* or room to send.                                                        *)
LEMMA WaiterIsServed ==
  ASSUME ExchangeInv, DownHoldsNone, NEW c \in Clients, stage[c] \in {"sending", "reading"},
         phase \in {"down", "select"}, backlog = <<>>, ReadyConnections = {}
  PROVE  ClientCan(c)
<1>1. ClientOk(c) /\ AnswerFlow(c) /\ Connected(c) /\ call[c] # <<>>
  BY DEF ExchangeInv, FlowInv, ClientsInv, ClientOk, Connected
<1>2. CASE ends[c]["server"] # "open"
  <2>1. ends[c]["server"] = "closed"
    BY <1>2, EndsAreOk DEF ExchangeInv, EndsOk, Ends
  <2>2. QED
    BY <2>1 DEF ClientCan, Readable, HungUp, Peer
<1>3. CASE ends[c]["server"] = "open"
  <2>1. c \in ToSet(connections) /\ serving = {}
    BY <1>3 DEF ExchangeInv, DescriptorInv, Held, ToSet, Free
  <2>2. inbox[c]["server"] = <<>> /\ Place(c) = "away"
    BY <2>1 DEF ReadyConnections, Readable, ToSet, Place
  <2>3. CASE stage[c] = "sending"
    BY <2>2, <2>3, RoomForOne DEF ClientCan
  <2>4. CASE stage[c] = "reading"
    <3>1. PICK asked, done, rest : CommandAt(c, asked, done, rest)
      BY <1>3 DEF ExchangeInv, FlowInv, CommandFlow
    <3>2. unsent[c] = Ahead("away", Len(params), asked, done) /\ unsent[c] = <<>>
      BY <1>1, <2>2, <2>4, <3>1, StillToSend DEF ClientOk
    <3>3. /\ asked \in AllCalls \cup {<<>>} /\ done \in BOOLEAN
          /\ asked = call[c] /\ (done <=> outcome[c] # <<>>)
      BY <1>1, <3>1 DEF CommandAt, ClientOk, Recorded
    <3>4. Own(asked, done) = <<>>
      BY <3>2 DEF Ahead, Handling
    <3>5. outcome[c] # <<>>
      <4>1. ASSUME ~done PROVE FALSE
        <5>1. Command(asked) = <<>> /\ asked \in AllCalls
          BY <1>1, <3>3, <3>4, <4>1 DEF Own
        <5>2. Len(Command(asked)) = NParams(asked[1]) + 2 /\ NParams(asked[1]) \in 0..4
          BY <5>1, CommandIs, ParametersAre
        <5>3. Len(<<>>) = 0
          OBVIOUS
        <5>4. QED
          BY <5>1, <5>2, <5>3
      <4>2. QED
        BY <3>3, <4>1
    <3>6. PICK result : \E r, m \in Nat : AnswerAt(c, result, r, m)
      BY <1>1 DEF AnswerFlow
    <3>7. PICK r \in Nat, m \in Nat : AnswerAt(c, result, r, m)
      BY <3>6
    <3> DEFINE A == Full(call[c][1], result)
    <3>8. /\ r < Len(A) /\ inbox[c]["client"] = SubSeq(A, r + 1, m)
          /\ m = Len(A) /\ IsResult(call[c][1], result)
      BY <1>3, <2>2, <3>5, <3>7 DEF AnswerAt, Written
    <3>9. A \in Seq(Tokens) /\ Len(A) \in Nat
      BY <1>1, <3>3, <3>8, AnswerScript, AnswerLength
    <3> HIDE DEF A
    <3>10. Len(SubSeq(A, r + 1, m)) = m - (r + 1) + 1
      BY <3>8, <3>9, SubSeqProperties
    <3>11. inbox[c]["client"] # <<>>
      <4>1. r + 1 <= m /\ r \in Nat /\ m \in Nat
        BY <3>8, <3>9
      <4>2. Len(SubSeq(A, r + 1, m)) # 0
        BY <4>1, <3>10
      <4>3. Len(<<>>) = 0
        OBVIOUS
      <4>4. SubSeq(A, r + 1, m) # <<>>
        BY <4>2, <4>3, Zenon
      <4>5. QED
        BY <3>8, <4>4, Zenon
    <3>12. QED
      BY <2>4, <3>11 DEF ClientCan, Readable
  <2>5. QED
    BY <2>3, <2>4
<1>4. QED
  BY <1>2, <1>3

(* The one thread of the server and the clients, which all block in reads  *)
(* and writes on bounded buffers, never wait for each other in a circle,   *)
(* however small the buffers are.                                          *)
THEOREM NobodyWaitsInACircle ==
  Spec => []NoMutualWait
<1>1. Init => CommandIsThere /\ DownHoldsNone
  BY DEF Init, ServerInit, SocketsInit, CommandIsThere, DownHoldsNone
<1>2. ExchangeInv /\ CommandIsThere /\ DownHoldsNone => NoMutualWait
  <2> SUFFICES ASSUME ExchangeInv, CommandIsThere, DownHoldsNone, NEW c \in Clients,
                      stage[c] \in {"sending", "reading"}, ~ServerCan, ~HeldUp
               PROVE  ClientCan(c) \/ \E d \in serving : ClientCan(d)
    BY DEF NoMutualWait
  <2>1. CASE serving = {}
    <3>1. phase \in {"down", "select"}
      BY <2>1 DEF ServerCan, ExchangeInv, DescriptorInv, Free
    <3>2. backlog = <<>> /\ ReadyConnections = {}
      BY <3>1 DEF ServerCan, DownHoldsNone, ReadyConnections
    <3>3. QED
      BY <3>1, <3>2, WaiterIsServed
  <2>2. ASSUME NEW d \in serving PROVE ClientCan(d)
    <3>1. d \in Clients /\ stage[d] # "vanished" /\ stage[d] \in ClientStages
      BY ServedIs DEF HeldUp, ExchangeInv, FlowInv, ClientsInv, ClientTypes
    <3>2. phase \in {"command", "ans", "params", "answer", "end"}
      BY ServedIs DEF ServerCan, ExchangeInv, FlowInv, ServerInv, Phases, Free
    <3>3. ~HungUp(d, "server")
      BY <3>2 DEF ServerCan, Readable, Reading, Writing
    <3>4. Connected(d)
      <4>1. stage[d] # "off"
        BY <3>1, <3>3 DEF HungUp, Peer, ExchangeInv, FlowInv, ClientsInv, ClientOk
      <4>2. QED
        BY <3>1, <4>1 DEF ClientStages, Connected
    <3>5. CASE phase \in Reading
      BY <3>4, <3>5, ReaderIsServed DEF ServerCan
    <3>6. CASE phase \in Writing
      BY <3>4, <3>6, WriterIsServed DEF ServerCan
    <3>7. QED
      BY <3>2, <3>5, <3>6 DEF Reading, Writing
  <2>3. QED
    BY <2>1, <2>2
<1>3. QED
  BY <1>1, <1>2, CommandIsThereStep, DownHoldsNoneStep, ExchangeIsSound, PTL DEF Spec

=============================================================================
