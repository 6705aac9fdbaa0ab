------------------------- MODULE NewsMessages_proofs -------------------------
(***************************************************************************)
(* The messages of a command and of its answer, token by token: what each  *)
(* operation's handlers on the two sides send, and that the other side     *)
(* reads just that.                                                        *)
(***************************************************************************)
EXTENDS NewsSystem_proofs

(* The tokens that can be under way. *)
Texts ==
  Names \cup UNION {{content.title, content.author, content.text} : content \in Contents}
Numbers == GroupIds \cup ArticleIds \cup Nat
Values == Texts \cup Numbers
Codes ==
  {Com[o] : o \in Operations} \cup {Ans[o] : o \in Operations} \cup Errors \cup
  {"COM_END", "ANS_END", "ANS_ACK", "ANS_NAK"}
Tokens ==
  {<<code>> : code \in Codes} \cup ({"PAR_NUM"} \X Numbers) \cup ({"PAR_STRING"} \X Texts)

(* A sequence with one element more at its front or at its end. *)
LEMMA Prefixed ==
  ASSUME NEW S, NEW x \in S, NEW s \in Seq(S)
  PROVE  /\ <<x>> \o s \in Seq(S)
         /\ Len(<<x>> \o s) = Len(s) + 1
         /\ (<<x>> \o s)[1] = x
         /\ \A i \in 1..Len(s) : (<<x>> \o s)[i + 1] = s[i]
<1> DEFINE h == <<x>>
           t == h \o s
<1>1. h \in Seq(S) /\ Len(h) = 1 /\ h[1] = x /\ Len(s) \in Nat
  OBVIOUS
<1> HIDE DEF h
<1>2. /\ t \in Seq(S) /\ Len(t) = Len(h) + Len(s)
      /\ \A i \in 1..Len(h) + Len(s) : t[i] = IF i <= Len(h) THEN h[i] ELSE s[i - Len(h)]
  BY <1>1, ConcatProperties
<1> HIDE DEF t
<1>3. ASSUME NEW i \in 1..Len(s) PROVE t[i + 1] = s[i]
  <2>1. i + 1 \in 1..Len(h) + Len(s) /\ ~(i + 1 <= Len(h)) /\ (i + 1) - Len(h) = i
    BY <1>1
  <2>2. QED
    BY <1>2, <2>1
<1>4. QED
  BY <1>1, <1>2, <1>3 DEF t, h

LEMMA Suffixed ==
  ASSUME NEW S, NEW x \in S, NEW s \in Seq(S)
  PROVE  /\ s \o <<x>> \in Seq(S)
         /\ Len(s \o <<x>>) = Len(s) + 1
         /\ (s \o <<x>>)[Len(s) + 1] = x
         /\ \A i \in 1..Len(s) : (s \o <<x>>)[i] = s[i]
BY AppendProperties, AppendIsConcat

(* Short sequences put together. *)
LEMMA Pair ==
  ASSUME NEW S, NEW x, NEW s \in Seq(S), Len(s) = 1
  PROVE  <<x>> \o s = <<x, s[1]>>
<1> DEFINE T == S \cup {x}
           t == <<x>> \o s
           u == <<x, s[1]>>
<1>1. <<x>> \in Seq(T) /\ s \in Seq(T) /\ u \in Seq(T) /\ Len(<<x>>) = 1 /\ Len(u) = 2
  OBVIOUS
<1>2. t \in Seq(T) /\ Len(t) = 2 /\ t[1] = x /\ t[2] = s[1] /\ u[1] = x /\ u[2] = s[1]
  BY <1>1, Prefixed
<1> HIDE DEF t, u, T
<1>3. \A i \in 1..Len(t) : t[i] = u[i]
  BY <1>1, <1>2
<1>4. t = u
  BY <1>1, <1>2, <1>3, SeqEqual
<1>5. QED
  BY <1>4 DEF t, u

LEMMA Two ==
  ASSUME NEW x, NEW a
  PROVE  <<x>> \o <<a>> = <<x, a>>
<1> DEFINE T == {a, x}
           s == <<a>>
           t == <<x>> \o s
           u == <<x, a>>
<1>1. <<x>> \in Seq(T) /\ s \in Seq(T) /\ u \in Seq(T) /\ Len(<<x>>) = 1
      /\ Len(s) = 1 /\ Len(u) = 2
  OBVIOUS
<1>2. /\ t \in Seq(T) /\ Len(t) = 2 /\ t[1] = x /\ t[2] = a
      /\ u[1] = x /\ u[2] = a
  BY <1>1, ConcatProperties
<1> HIDE DEF t, u, T
<1>3. \A i \in 1..Len(t) : t[i] = u[i]
  BY <1>1, <1>2
<1>4. t = u
  BY <1>1, <1>2, <1>3, SeqEqual
<1>5. QED
  BY <1>4 DEF t, u

LEMMA Three ==
  ASSUME NEW x, NEW a, NEW b
  PROVE  <<x>> \o <<a, b>> = <<x, a, b>>
<1> DEFINE T == {a, b, x}
           s == <<a, b>>
           t == <<x>> \o s
           u == <<x, a, b>>
<1>1. <<x>> \in Seq(T) /\ s \in Seq(T) /\ u \in Seq(T) /\ Len(<<x>>) = 1
      /\ Len(s) = 2 /\ Len(u) = 3
  OBVIOUS
<1>2. /\ t \in Seq(T) /\ Len(t) = 3 /\ t[1] = x /\ t[2] = a /\ t[3] = b
      /\ u[1] = x /\ u[2] = a /\ u[3] = b
  BY <1>1, ConcatProperties
<1> HIDE DEF t, u, T
<1>3. \A i \in 1..Len(t) : t[i] = u[i]
  BY <1>1, <1>2
<1>4. t = u
  BY <1>1, <1>2, <1>3, SeqEqual
<1>5. QED
  BY <1>4 DEF t, u

LEMMA Four ==
  ASSUME NEW x, NEW a, NEW b, NEW c
  PROVE  <<x>> \o <<a, b, c>> = <<x, a, b, c>>
<1> DEFINE T == {a, b, c, x}
           s == <<a, b, c>>
           t == <<x>> \o s
           u == <<x, a, b, c>>
<1>1. <<x>> \in Seq(T) /\ s \in Seq(T) /\ u \in Seq(T) /\ Len(<<x>>) = 1
      /\ Len(s) = 3 /\ Len(u) = 4
  OBVIOUS
<1>2. /\ t \in Seq(T) /\ Len(t) = 4 /\ t[1] = x /\ t[2] = a /\ t[3] = b /\ t[4] = c
      /\ u[1] = x /\ u[2] = a /\ u[3] = b /\ u[4] = c
  BY <1>1, ConcatProperties
<1> HIDE DEF t, u, T
<1>3. \A i \in 1..Len(t) : t[i] = u[i]
  BY <1>1, <1>2
<1>4. t = u
  BY <1>1, <1>2, <1>3, SeqEqual
<1>5. QED
  BY <1>4 DEF t, u

LEMMA FourAtEnd ==
  ASSUME NEW a, NEW b, NEW c, NEW x
  PROVE  <<a, b, c>> \o <<x>> = <<a, b, c, x>>
<1> DEFINE T == {a, b, c, x}
           s == <<a, b, c>>
           t == s \o <<x>>
           u == <<a, b, c, x>>
<1>1. <<x>> \in Seq(T) /\ s \in Seq(T) /\ u \in Seq(T) /\ Len(<<x>>) = 1
      /\ Len(s) = 3 /\ Len(u) = 4
  OBVIOUS
<1>2. /\ t \in Seq(T) /\ Len(t) = 4 /\ t[1] = a /\ t[2] = b /\ t[3] = c /\ t[4] = x
      /\ u[1] = a /\ u[2] = b /\ u[3] = c /\ u[4] = x
  BY <1>1, ConcatProperties
<1> HIDE DEF t, u, T
<1>3. \A i \in 1..Len(t) : t[i] = u[i]
  BY <1>1, <1>2
<1>4. t = u
  BY <1>1, <1>2, <1>3, SeqEqual
<1>5. QED
  BY <1>4 DEF t, u

-----------------------------------------------------------------------------
(* A command.                                                              *)

NParams(o) == Len(ParamTypes[o])

(* A call is the tuple of its operation and its arguments. *)
LEMMA CallShapes ==
  ASSUME NEW a \in AllCalls
  PROVE  /\ a[1] \in Operations /\ a # <<>>
         /\ a[1] = "list_news_groups" => a = <<a[1]>>
         /\ a[1] = "create_news_group" => a = <<a[1], a[2]>> /\ a[2] \in Names
         /\ a[1] \in {"delete_news_group", "list_articles"} =>
              a = <<a[1], a[2]>> /\ a[2] \in GroupIds
         /\ a[1] = "create_article" =>
              a = <<a[1], a[2], a[3]>> /\ a[2] \in GroupIds /\ a[3] \in Contents
         /\ a[1] \in {"delete_article", "get_article"} =>
              a = <<a[1], a[2], a[3]>> /\ a[2] \in GroupIds /\ a[3] \in ArticleIds
BY DEF AllCalls, Operations

(* Between the code of the operation and COM_END. *)
Parameters(a) ==
  CASE a[1] = "list_news_groups" -> <<>>
    [] a[1] = "create_news_group" -> <<Str(a[2])>>
    [] a[1] \in {"delete_news_group", "list_articles"} -> <<Num(a[2])>>
    [] a[1] = "create_article" -> <<Num(a[2])>> \o Strings(a[3])
    [] a[1] \in {"delete_article", "get_article"} -> <<Num(a[2]), Num(a[3])>>

(* How many parameters an operation has. *)
LEMMA NParamsIs ==
  /\ NParams("list_news_groups") = 0
  /\ NParams("create_news_group") = 1
  /\ NParams("delete_news_group") = 1 /\ NParams("list_articles") = 1
  /\ NParams("create_article") = 4
  /\ NParams("delete_article") = 2 /\ NParams("get_article") = 2
BY DEF NParams, ParamTypes

(* They are of the number and of the types that the handler reads, and of  *)
(* them it puts together the call that was asked for.                      *)
LEMMA ParametersAre ==
  ASSUME NEW a \in AllCalls
  PROVE  /\ NParams(a[1]) \in 0..4
         /\ Parameters(a) \in Seq(Tokens)
         /\ Len(Parameters(a)) = NParams(a[1])
         /\ \A i \in 1..NParams(a[1]) :
              /\ Parameters(a)[i][1] = ParamTypes[a[1]][i]
              /\ Parameters(a)[i][2] \in Values
         /\ \A values \in Seq(Values) :
              /\ Len(values) = NParams(a[1])
              /\ \A i \in 1..NParams(a[1]) : values[i] = Parameters(a)[i][2]
              => Called(a[1], values) = a
<1>1. /\ \A n \in Numbers : Num(n) \in Tokens /\ Num(n)[1] = "PAR_NUM" /\ Num(n)[2] = n
      /\ \A s \in Texts : Str(s) \in Tokens /\ Str(s)[1] = "PAR_STRING" /\ Str(s)[2] = s
  BY DEF Tokens, Num, Str
<1>2. /\ GroupIds \subseteq Numbers /\ ArticleIds \subseteq Numbers /\ Names \subseteq Texts
      /\ \A x \in Contents : x.title \in Texts /\ x.author \in Texts /\ x.text \in Texts
      /\ Numbers \subseteq Values /\ Texts \subseteq Values
  BY DEF Numbers, Texts, Values
<1>3. CASE a[1] = "list_news_groups"
  <2>1. Parameters(a) = <<>> /\ a = <<a[1]>> /\ NParams(a[1]) = 0
    BY <1>3, CallShapes, NParamsIs DEF Parameters
  <2>2. \A values \in Seq(Values) : Len(values) = 0 => Called(a[1], values) = a
    <3>1. \A values \in Seq(Values) : Len(values) = 0 => values = <<>>
      OBVIOUS
    <3>2. Called(a[1], <<>>) = <<a[1]>> \o <<>>
      BY <1>3 DEF Called
    <3>3. <<a[1]>> \o <<>> = <<a[1]>>
      BY <<a[1]>> \in Seq({a[1]}), ConcatEmptySeq
    <3>4. QED
      BY <2>1, <3>1, <3>2, <3>3
  <2>3. QED
    BY <2>1, <2>2
<1>4. CASE a[1] \in {"create_news_group", "delete_news_group", "list_articles"}
  <2> DEFINE p == IF a[1] = "create_news_group" THEN Str(a[2]) ELSE Num(a[2])
  <2>1. Parameters(a) = <<p>> /\ a = <<a[1], a[2]>> /\ NParams(a[1]) = 1
    BY <1>4, CallShapes, NParamsIs DEF Parameters
  <2>2. p \in Tokens /\ p[1] = ParamTypes[a[1]][1] /\ p[2] = a[2] /\ p[2] \in Values
    BY <1>1, <1>2, <1>4, CallShapes DEF ParamTypes
  <2>3. \A values \in Seq(Values) :
          Len(values) = 1 /\ values[1] = a[2] => Called(a[1], values) = <<a[1], a[2]>>
    BY <1>4, Pair DEF Called
  <2> HIDE DEF p
  <2>4. QED
    BY <2>1, <2>2, <2>3
<1>5. CASE a[1] = "create_article"
  <2> DEFINE p == <<Num(a[2]), Str(a[3].title), Str(a[3].author), Str(a[3].text)>>
  <2>1. Parameters(a) = <<Num(a[2])>> \o <<Str(a[3].title), Str(a[3].author), Str(a[3].text)>>
        /\ a = <<a[1], a[2], a[3]>> /\ NParams(a[1]) = 4
    BY <1>5, CallShapes, NParamsIs DEF Parameters, Strings
  <2>2. Parameters(a) = p
    BY <2>1, Four
  <2>3. a[2] \in Numbers /\ a[3] \in Contents
    BY <1>2, <1>5, CallShapes
  <2>4. p \in Seq(Tokens) /\ Len(p) = 4
    BY <1>1, <1>2, <2>3
  <2>5. /\ p[1][1] = "PAR_NUM" /\ p[1][2] = a[2]
        /\ p[2][1] = "PAR_STRING" /\ p[2][2] = a[3].title
        /\ p[3][1] = "PAR_STRING" /\ p[3][2] = a[3].author
        /\ p[4][1] = "PAR_STRING" /\ p[4][2] = a[3].text
    BY <1>1, <1>2, <2>3
  <2>6. ParamTypes[a[1]] = <<"PAR_NUM", "PAR_STRING", "PAR_STRING", "PAR_STRING">>
    BY <1>5 DEF ParamTypes
  <2>7. \A values \in Seq(Values) :
          /\ values[1] = a[2] /\ values[2] = a[3].title
          /\ values[3] = a[3].author /\ values[4] = a[3].text
          => Called(a[1], values) = a
    BY <1>5, <2>1, <2>3, ContentsAssumption DEF Called
  <2> HIDE DEF p
  <2>8. \A i \in 1..4 : p[i][1] = ParamTypes[a[1]][i] /\ p[i][2] \in Values
    BY <1>2, <2>3, <2>5, <2>6
  <2>9. QED
    BY <2>1, <2>2, <2>4, <2>5, <2>7, <2>8
<1>6. CASE a[1] \in {"delete_article", "get_article"}
  <2>1. Parameters(a) = <<Num(a[2]), Num(a[3])>> /\ a = <<a[1], a[2], a[3]>>
        /\ NParams(a[1]) = 2 /\ ParamTypes[a[1]] = <<"PAR_NUM", "PAR_NUM">>
    BY <1>6, CallShapes, NParamsIs DEF Parameters, ParamTypes
  <2>2. a[2] \in Numbers /\ a[3] \in Numbers
    BY <1>2, <1>6, CallShapes
  <2>3. \A values \in Seq(Values) :
          Len(values) = 2 /\ values[1] = a[2] /\ values[2] = a[3] =>
            Called(a[1], values) = <<a[1], a[2], a[3]>>
    <3>1. \A values \in Seq(Values) :
            Len(values) = 2 /\ values[1] = a[2] /\ values[2] = a[3] => values = <<a[2], a[3]>>
      OBVIOUS
    <3>2. Called(a[1], <<a[2], a[3]>>) = <<a[1]>> \o <<a[2], a[3]>>
      BY <1>6 DEF Called
    <3>3. QED
      BY <3>1, <3>2, Three
  <2>4. QED
    BY <1>1, <1>2, <2>1, <2>2, <2>3
<1>7. QED
  BY <1>3, <1>4, <1>5, <1>6, CallShapes DEF Operations

(* The code of the operation, its parameters and COM_END. *)
LEMMA CommandIs ==
  ASSUME NEW a \in AllCalls
  PROVE  /\ Command(a) \in Seq(Tokens)
         /\ Len(Command(a)) = NParams(a[1]) + 2
         /\ Command(a)[1] = <<Com[a[1]]>>
         /\ \A i \in 1..NParams(a[1]) : Command(a)[i + 1] = Parameters(a)[i]
         /\ Command(a)[NParams(a[1]) + 2] = <<"COM_END">>
<1> DEFINE com == <<Com[a[1]]>>
           end == <<"COM_END">>
           head == <<com>> \o Parameters(a)
<1>1. Command(a) = head \o <<end>>
  BY DEF Command, Parameters
<1>2. com \in Tokens /\ end \in Tokens
  BY CallShapes DEF Tokens, Codes
<1>3. /\ Parameters(a) \in Seq(Tokens) /\ Len(Parameters(a)) = NParams(a[1])
      /\ NParams(a[1]) \in Nat
  BY ParametersAre
<1> HIDE DEF com, end
<1>4. /\ head \in Seq(Tokens) /\ Len(head) = NParams(a[1]) + 1 /\ head[1] = com
      /\ \A i \in 1..NParams(a[1]) : head[i + 1] = Parameters(a)[i]
  BY <1>2, <1>3, Prefixed
<1> HIDE DEF head
<1>5. /\ Command(a) \in Seq(Tokens) /\ Len(Command(a)) = NParams(a[1]) + 1 + 1
      /\ Command(a)[NParams(a[1]) + 1 + 1] = end
      /\ \A i \in 1..NParams(a[1]) + 1 : Command(a)[i] = head[i]
  BY <1>1, <1>2, <1>4, Suffixed
<1>6. \A i \in 1..NParams(a[1]) : Command(a)[i + 1] = Parameters(a)[i]
  <2>1. \A i \in 1..NParams(a[1]) : i + 1 \in 1..NParams(a[1]) + 1
    BY <1>3
  <2>2. QED
    BY <1>4, <1>5, <2>1
<1>7. NParams(a[1]) + 1 + 1 = NParams(a[1]) + 2 /\ 1 \in 1..NParams(a[1]) + 1
  BY <1>3
<1>8. QED
  BY <1>4, <1>5, <1>6, <1>7 DEF com, end

(* The code tells the operation. *)
LEMMA ComIsInjective ==
  \A x, y \in Operations : Com[x] = Com[y] => x = y
BY DEF Com, Operations

-----------------------------------------------------------------------------
(* An answer.                                                              *)

(* A list holds every element of its set. *)
LEMMA ListIs ==
  ASSUME NEW S, IsFiniteSet(S)
  PROVE  /\ SetToSeq(S) \in Seq(S)
         /\ \A x \in S : \E i \in 1..Len(SetToSeq(S)) : SetToSeq(S)[i] = x
<1> DEFINE n == Cardinality(S)
           f == SetToSeq(S)
<1>1. n \in Nat /\ ExistsBijection(1..n, S)
  BY FS_CardinalityType
<1>2. \E g \in [1..n -> S] : IsInjective(g)
  BY <1>1 DEF ExistsBijection, Bijection, Injection
<1>3. f \in [1..n -> S] /\ IsInjective(f)
  BY <1>2 DEF SetToSeq
<1> HIDE DEF f
<1>4. f \in Seq(S) /\ Len(f) = n /\ Distinct(f) /\ ToSet(f) \subseteq S
  BY <1>1, <1>3 DEF IsInjective, Distinct, ToSet
<1>5. Cardinality(ToSet(f)) = Cardinality(S)
  BY <1>4, DistinctCardinality
<1>6. ToSet(f) = S
  BY <1>4, <1>5, FS_Subset
<1>7. QED
  BY <1>4, <1>6 DEF ToSet, f

(* The numbers and the strings of a list take turns. *)
TakeTurns(S, list, n) ==
  /\ n \in Nat /\ n = Len(list)
  /\ list \in Seq(S)
  /\ \A x \in S : \E j \in 1..n : list[j] = x
  /\ Listing(S) \in Seq(Tokens)
  /\ Len(Listing(S)) = 2 * n + 1
  /\ Listing(S)[1] = Num(n)
  /\ \A j \in 1..n : Listing(S)[2 * j] = Num(list[j][1])
  /\ \A j \in 1..n : Listing(S)[2 * j + 1] = Str(list[j][2])

LEMMA ListingIs ==
  ASSUME NEW S, IsFiniteSet(S), S \subseteq Numbers \X Texts,
         NEW list, list = SetToSeq(S), NEW n, n = Len(list)
  PROVE  TakeTurns(S, list, n)
<1> DEFINE body == [i \in 1..2 * n |->
                      IF i % 2 = 1 THEN Num(list[(i + 1) \div 2][1])
                                   ELSE Str(list[(i + 1) \div 2][2])]
<1>1. n \in Nat /\ list \in Seq(S) /\ \A x \in S : \E j \in 1..n : list[j] = x
  BY ListIs
<1>2. Listing(S) = <<Num(n)>> \o body
  BY DEF Listing
<1>3. \A i \in 1..2 * n : (i + 1) \div 2 \in 1..n
  BY <1>1
<1>4. \A j \in 1..n : list[j][1] \in Numbers /\ list[j][2] \in Texts
  BY <1>1
<1>5. /\ \A k \in Numbers : Num(k) \in Tokens
      /\ \A x \in Texts : Str(x) \in Tokens
      /\ n \in Numbers
  BY <1>1 DEF Tokens, Num, Str, Numbers
<1>6. \A i \in 1..2 * n : body[i] \in Tokens
  BY <1>3, <1>4, <1>5
<1>7. 2 * n \in Nat
  BY <1>1
<1>8. body \in Seq(Tokens) /\ Len(body) = 2 * n
  BY <1>6, <1>7
<1>9. ASSUME NEW j \in 1..n
      PROVE  body[2 * j - 1] = Num(list[j][1]) /\ body[2 * j] = Str(list[j][2])
  <2>1. /\ 2 * j - 1 \in 1..2 * n /\ 2 * j \in 1..2 * n
        /\ (2 * j - 1) % 2 = 1 /\ (2 * j) % 2 = 0
        /\ ((2 * j - 1) + 1) \div 2 = j /\ (2 * j + 1) \div 2 = j
    BY <1>1
  <2>2. QED
    BY <2>1
<1> HIDE DEF body
<1>10. /\ Listing(S) \in Seq(Tokens) /\ Len(Listing(S)) = Len(body) + 1
       /\ Listing(S)[1] = Num(n)
       /\ \A i \in 1..Len(body) : Listing(S)[i + 1] = body[i]
  <2> DEFINE count == Num(n)
             t == <<count>> \o body
  <2>1. count \in Tokens /\ body \in Seq(Tokens)
    BY <1>5, <1>8
  <2> HIDE DEF count
  <2>2. /\ t \in Seq(Tokens) /\ Len(t) = Len(body) + 1 /\ t[1] = count
        /\ \A i \in 1..Len(body) : t[i + 1] = body[i]
    BY <2>1, Prefixed
  <2>3. Listing(S) = t
    BY <1>2 DEF count
  <2> HIDE DEF t
  <2>4. QED
    BY <2>2, <2>3 DEF count
<1>11. ASSUME NEW j \in 1..n
       PROVE  /\ Listing(S)[2 * j] = Num(list[j][1])
              /\ Listing(S)[2 * j + 1] = Str(list[j][2])
  <2>1. /\ 2 * j - 1 \in 1..2 * n /\ 2 * j \in 1..2 * n /\ (2 * j - 1) + 1 = 2 * j
    BY <1>1
  <2>2. QED
    BY <1>8, <1>9, <1>10, <2>1
<1>12. QED
  BY <1>1, <1>8, <1>10, <1>11 DEF TakeTurns

-----------------------------------------------------------------------------
(* The results that the database can have for an operation.                *)

Outcomes == {"OK", "NO_NG", "NO_ARTICLE"}

IsResult(o, result) ==
  /\ o = "list_news_groups" => IsFiniteSet(result) /\ result \subseteq Numbers \X Texts
  /\ o \in {"create_news_group", "delete_news_group", "create_article"} => result \in BOOLEAN
  /\ o = "list_articles" =>
       IsFiniteSet(result[1]) /\ result[1] \subseteq Numbers \X Texts /\ result[2] \in BOOLEAN
  /\ o = "delete_article" => result \in Outcomes
  /\ o = "get_article" =>
       result[1] \in Outcomes /\ (result[1] = "OK" => result[2] \in Contents)

Succeeds(o, result) ==
  \/ o \in {"create_news_group", "delete_news_group", "create_article"} /\ result = TRUE
  \/ o = "list_articles" /\ result[2] = TRUE
  \/ o = "delete_article" /\ result = "OK"
  \/ o = "get_article" /\ result[1] = "OK"

Reason(o, result) ==
  CASE o = "delete_article" -> Refusal[result]
    [] o = "get_article" -> Refusal[result[1]]
    [] OTHER -> Refusal[o]

(* What the answer says between the code of the operation and ANS_END.     *)
Body(o, result) ==
  IF o = "list_news_groups" THEN Listing(result)
  ELSE IF ~Succeeds(o, result) THEN <<<<"ANS_NAK">>, <<Reason(o, result)>>>>
  ELSE IF o = "list_articles" THEN <<<<"ANS_ACK">>>> \o Listing(result[1])
  ELSE IF o = "get_article" THEN <<<<"ANS_ACK">>>> \o Strings(result[2])
  ELSE <<<<"ANS_ACK">>>>

LEMMA AnswerIs ==
  ASSUME NEW a \in AllCalls, NEW result, IsResult(a[1], result)
  PROVE  Answer(a, result) = Body(a[1], result) \o <<<<"ANS_END">>>>
<1> DEFINE o == a[1]
<1>0. o \in Operations
  BY CallShapes
<1>1. CASE o = "list_news_groups"
  BY <1>1 DEF Answer, Body
<1>2. CASE o \in {"create_news_group", "delete_news_group", "create_article"}
  <2>1. CASE result = TRUE
    BY <1>2, <2>1 DEF Answer, Body, Succeeds, Ack
  <2>2. CASE result = FALSE
    <3>1. Body(o, result) = <<<<"ANS_NAK">>, <<Refusal[o]>>>>
      BY <1>2, <2>2 DEF Body, Succeeds, Reason
    <3>2. CASE o = "create_news_group"
      BY <2>2, <3>1, <3>2 DEF Answer, Nak, Refusal
    <3>3. CASE o = "delete_news_group"
      BY <2>2, <3>1, <3>3 DEF Answer, Nak, Refusal
    <3>4. CASE o = "create_article"
      BY <2>2, <3>1, <3>4 DEF Answer, Nak, Refusal
    <3>5. QED
      BY <1>2, <3>2, <3>3, <3>4
  <2>3. QED
    BY <1>2, <2>1, <2>2 DEF IsResult
<1>3. CASE o = "list_articles"
  <2>1. CASE result[2] = TRUE
    BY <1>3, <2>1 DEF Answer, Body, Succeeds, Ack
  <2>2. CASE result[2] = FALSE
    <3>1. Body(o, result) = <<<<"ANS_NAK">>, <<Refusal["list_articles"]>>>>
      BY <1>3, <2>2 DEF Body, Succeeds, Reason
    <3>2. QED
      BY <1>3, <2>2, <3>1 DEF Answer, Nak, Refusal
  <2>3. QED
    BY <1>3, <2>1, <2>2 DEF IsResult
<1>4. CASE o = "delete_article"
  BY <1>4 DEF Answer, Body, Succeeds, Ack, Nak, Reason, Refusal, MissingError, IsResult, Outcomes
<1>5. CASE o = "get_article"
  <2>1. CASE result[1] = "OK"
    BY <1>5, <2>1 DEF Answer, Body, Succeeds, Ack
  <2>2. CASE result[1] \in {"NO_NG", "NO_ARTICLE"}
    <3>1. Body(o, result) = <<<<"ANS_NAK">>, <<Refusal[result[1]]>>>>
      BY <1>5, <2>2 DEF Body, Succeeds, Reason
    <3>2. Answer(a, result) = Nak(MissingError(result[1])) \o <<<<"ANS_END">>>>
      BY <1>5, <2>2 DEF Answer
    <3>3. MissingError(result[1]) = Refusal[result[1]]
      BY <2>2 DEF MissingError, Refusal
    <3>4. QED
      BY <3>1, <3>2, <3>3 DEF Nak
  <2>3. QED
    BY <1>5, <2>1, <2>2 DEF IsResult, Outcomes
<1>6. QED
  BY <1>0, <1>1, <1>2, <1>3, <1>4, <1>5 DEF Operations

(* The whole answer, which begins with the code of the operation.          *)
Full(o, result) == <<<<Ans[o]>>>> \o (Body(o, result) \o <<<<"ANS_END">>>>)

Frames(o, whole, body) ==
  /\ whole \in Seq(Tokens)
  /\ Len(body) \in Nat /\ Len(whole) = Len(body) + 2
  /\ whole[1] = <<Ans[o]>>
  /\ \A i \in 1..Len(body) : whole[i + 1] = body[i]
  /\ whole[Len(body) + 2] = <<"ANS_END">>

LEMMA FullIs ==
  ASSUME NEW o \in Operations, NEW result, Body(o, result) \in Seq(Tokens)
  PROVE  Frames(o, Full(o, result), Body(o, result))
<1> DEFINE A == Full(o, result)
           B == Body(o, result)
           ans == <<Ans[o]>>
           end == <<"ANS_END">>
           C == B \o <<end>>
<1>1. ans \in Tokens /\ end \in Tokens /\ Len(B) \in Nat
  BY DEF Tokens, Codes
<1>2. A = <<ans>> \o C
  BY DEF Full
<1> HIDE DEF ans, end, A, B
<1>0. B \in Seq(Tokens)
  BY DEF B
<1>3. /\ C \in Seq(Tokens) /\ Len(C) = Len(B) + 1 /\ C[Len(B) + 1] = end
      /\ \A i \in 1..Len(B) : C[i] = B[i]
  BY <1>0, <1>1, Suffixed
<1> HIDE DEF C
<1>4. /\ A \in Seq(Tokens) /\ Len(A) = Len(C) + 1 /\ A[1] = ans
      /\ \A i \in 1..Len(C) : A[i + 1] = C[i]
  BY <1>1, <1>2, <1>3, Prefixed
<1>5. /\ Len(A) = Len(B) + 2
      /\ \A i \in 1..Len(B) : A[i + 1] = B[i]
  BY <1>1, <1>3, <1>4
<1>6. A[Len(B) + 2] = end
  <2>1. Len(B) + 1 \in 1..Len(C) /\ (Len(B) + 1) + 1 = Len(B) + 2
    BY <1>1, <1>3
  <2>2. QED
    BY <1>3, <1>4, <2>1
<1>7. QED
  BY <1>1, <1>4, <1>5, <1>6 DEF Frames, ans, end, A, B

-----------------------------------------------------------------------------
(* What the client reads of it, one kind for each token.                   *)

ReadKinds ==
  {Ans[o] : o \in Operations} \cup
  {"RES", "COUNT", "ERR", "ANS_END", "PAR_NUM", "PAR_STRING"}

ListKinds(n) ==
  [i \in 1..2 * n + 3 |->
    IF i = 1 THEN Ans["list_news_groups"] ELSE IF i = 2 THEN "COUNT"
    ELSE IF i = 2 * n + 3 THEN "ANS_END"
    ELSE IF i % 2 = 1 THEN "PAR_NUM" ELSE "PAR_STRING"]

ArticleListKinds(n) ==
  [i \in 1..2 * n + 4 |->
    IF i = 1 THEN Ans["list_articles"] ELSE IF i = 2 THEN "RES" ELSE IF i = 3 THEN "COUNT"
    ELSE IF i = 2 * n + 4 THEN "ANS_END"
    ELSE IF i % 2 = 0 THEN "PAR_NUM" ELSE "PAR_STRING"]

Kinds(o, result) ==
  IF o = "list_news_groups" THEN ListKinds(Len(SetToSeq(result)))
  ELSE IF ~Succeeds(o, result) THEN <<Ans[o], "RES", "ERR", "ANS_END">>
  ELSE IF o = "list_articles" THEN ArticleListKinds(Len(SetToSeq(result[1])))
  ELSE IF o = "get_article"
    THEN <<Ans[o], "RES", "PAR_STRING", "PAR_STRING", "PAR_STRING", "ANS_END">>
  ELSE <<Ans[o], "RES", "ANS_END">>

(* From here on no token announces what follows.                           *)
Settled(o, result) == IF o = "list_articles" /\ Succeeds(o, result) THEN 3 ELSE 2

(* What it waits for when r tokens are read.                               *)
ReadsAt(o, result, r) ==
  IF r = 0 THEN FirstReads(o)
  ELSE IF r = 1 THEN Tail(FirstReads(o))
  ELSE IF r < Settled(o, result) THEN <<"COUNT", "ANS_END">>
  ELSE SubSeq(Kinds(o, result), r + 1, Len(Kinds(o, result)))

(* What it has told the user by then.                                      *)
ToldAt(o, result, r) ==
  LET A == Full(o, result)
  IN  IF o = "list_news_groups" \/ ~Succeeds(o, result) THEN SubSeq(A, 3, r)
      ELSE IF o = "list_articles"
        THEN IF r < 2 THEN <<>> ELSE <<<<"ANS_ACK">>>> \o SubSeq(A, 4, r)
      ELSE SubSeq(A, 2, r)

-----------------------------------------------------------------------------
(* The two sides of an answer agree: every token is one that the client    *)
(* accepts where it stands, ...                                            *)
Accepted(o, result) ==
  LET A == Full(o, result)
      T == Kinds(o, result)
  IN  /\ A \in Seq(Tokens) /\ T \in Seq(ReadKinds) /\ Len(T) = Len(A)
      /\ Settled(o, result) < Len(A)
      /\ A[1] = <<Ans[o]>> /\ T[1] = Ans[o]
      /\ \A i \in 1..Len(A) : Acceptable(T[i], A[i])
      /\ \A i \in Settled(o, result) + 1..Len(A) : T[i] \notin {"COUNT", "RES"}

(* ... what it awaits goes on from ReadsAt to ReadsAt where a token         *)
(* announces others, ...                                                   *)
Announced(o, result) ==
  LET A == Full(o, result)
      T == Kinds(o, result)
  IN  /\ FirstReads(o) = <<Ans[o], T[2], "ANS_END">>
      /\ ReadsAfter(o, <<T[2], "ANS_END">>, A[2]) = ReadsAt(o, result, 2)
      /\ Settled(o, result) = 3 =>
           /\ T[3] = "COUNT"
           /\ ReadsAfter(o, <<"COUNT", "ANS_END">>, A[3]) = SubSeq(T, 4, Len(A))

(* ... and what it tells from ToldAt to ToldAt.                             *)
Retold(o, result) ==
  LET A == Full(o, result)
      T == Kinds(o, result)
  IN  /\ ToldAt(o, result, 0) = <<>>
      /\ \A r \in 0..Len(A) - 2 :
           ToldAt(o, result, r + 1) =
             IF Tells(T[r + 1], A[r + 1]) THEN Append(ToldAt(o, result, r), A[r + 1])
                                          ELSE ToldAt(o, result, r)

Script(o, result) == Accepted(o, result) /\ Announced(o, result) /\ Retold(o, result)

(* The end of a sequence, element by element. *)
LEMMA EndIs ==
  ASSUME NEW S, NEW t \in Seq(S), NEW m \in 1..Len(t), NEW s \in Seq(S),
         Len(s) = Len(t) - m + 1, \A i \in 1..Len(s) : s[i] = t[m + i - 1]
  PROVE  SubSeq(t, m, Len(t)) = s
<1> DEFINE u == SubSeq(t, m, Len(t))
<1>1. /\ u \in Seq(S) /\ Len(u) = Len(t) - m + 1
      /\ \A i \in 1..Len(t) - m + 1 : u[i] = t[m + i - 1]
  BY SubSeqProperties
<1> HIDE DEF u
<1>2. Len(u) = Len(s) /\ \A i \in 1..Len(u) : u[i] = s[i]
  BY <1>1
<1>3. u = s
  BY <1>1, <1>2, SeqEqual
<1>4. QED
  BY <1>3 DEF u

(* A part of a sequence that grows at its end. *)
LEMMA Grows ==
  ASSUME NEW S, NEW s \in Seq(S), NEW m \in 1..Len(s), NEW n \in 0..Len(s) - 1
  PROVE  /\ n + 1 >= m => SubSeq(s, m, n + 1) = Append(SubSeq(s, m, n), s[n + 1])
         /\ n + 1 < m => SubSeq(s, m, n + 1) = SubSeq(s, m, n)
<1>1. CASE n + 1 >= m
  <2>1. n + 1 \in m..Len(s) /\ (n + 1) - 1 = n
    BY <1>1
  <2>2. SubSeq(s, m, n + 1) = SubSeq(s, m, n) \o <<s[n + 1]>>
    BY <2>1, SubSeqRecursiveSecond
  <2>3. SubSeq(s, m, n) \in Seq(S) /\ s[n + 1] \in S
    BY <2>1, SubSeqProperties
  <2>4. QED
    BY <1>1, <2>2, <2>3, AppendIsConcat
<1>2. CASE n + 1 < m
  <2>1. SubSeq(s, m, n + 1) = <<>> /\ SubSeq(s, m, n) = <<>>
    BY <1>2, SubSeqEmpty
  <2>2. QED
    BY <1>2, <2>1
<1>3. QED
  BY <1>1, <1>2

(* The first reads of a client. *)
LEMMA FirstReadsAre ==
  ASSUME NEW o \in Operations
  PROVE  /\ FirstReads(o) = <<Ans[o], IF o = "list_news_groups" THEN "COUNT" ELSE "RES", "ANS_END">>
         /\ Ans[o] \in ReadKinds /\ Ans[o] \notin {"COUNT", "RES", "ERR", "PAR_NUM", "PAR_STRING"}
<1>1. Ans[o] \in ReadKinds
  BY DEF ReadKinds
<1>2. Ans[o] \notin {"COUNT", "RES", "ERR", "PAR_NUM", "PAR_STRING"}
  BY DEF Ans, Operations
<1>3. CASE o = "list_news_groups"
  <2>1. FirstReads(o) = <<Ans[o]>> \o <<"COUNT", "ANS_END">>
    BY <1>3 DEF FirstReads
  <2>2. <<Ans[o]>> \o <<"COUNT", "ANS_END">> = <<Ans[o], "COUNT", "ANS_END">>
    BY Three
  <2>3. QED
    BY <1>1, <1>2, <1>3, <2>1, <2>2
<1>4. CASE o # "list_news_groups"
  <2>1. FirstReads(o) = <<Ans[o]>> \o <<"RES", "ANS_END">>
    BY <1>4 DEF FirstReads
  <2>2. <<Ans[o]>> \o <<"RES", "ANS_END">> = <<Ans[o], "RES", "ANS_END">>
    BY Three
  <2>3. QED
    BY <1>1, <1>2, <1>4, <2>1, <2>2
<1>5. QED
  BY <1>3, <1>4

(* A refusal. *)
LEMMA RefusalScript ==
  ASSUME NEW o \in Operations \ {"list_news_groups"}, NEW result, IsResult(o, result),
         ~Succeeds(o, result)
  PROVE  /\ Script(o, result)
         /\ ToldAt(o, result, Len(Full(o, result)) - 1) = <<<<Reason(o, result)>>>>
<1> DEFINE A == Full(o, result)
           T == Kinds(o, result)
<1>1. Body(o, result) = <<<<"ANS_NAK">>, <<Reason(o, result)>>>>
  BY DEF Body
<1>2. Reason(o, result) \in Errors
  BY DEF Reason, Refusal, Errors, Operations, IsResult, Outcomes, Succeeds
<1>3. Body(o, result) \in Seq(Tokens) /\ Len(Body(o, result)) = 2
  BY <1>1, <1>2 DEF Tokens, Codes
<1>4. /\ A \in Seq(Tokens) /\ Len(A) = 4
      /\ A[1] = <<Ans[o]>> /\ A[2] = <<"ANS_NAK">> /\ A[3] = <<Reason(o, result)>>
      /\ A[4] = <<"ANS_END">>
  <2>1. /\ A \in Seq(Tokens) /\ Len(A) = Len(Body(o, result)) + 2 /\ A[1] = <<Ans[o]>>
        /\ \A i \in 1..Len(Body(o, result)) : A[i + 1] = Body(o, result)[i]
        /\ A[Len(Body(o, result)) + 2] = <<"ANS_END">>
    <3>1. Frames(o, Full(o, result), Body(o, result))
      BY <1>3, FullIs
    <3>2. QED
      BY <3>1 DEF Frames
  <2>2. A[1 + 1] = Body(o, result)[1] /\ A[2 + 1] = Body(o, result)[2]
    BY <1>3, <2>1
  <2>3. QED
    BY <1>1, <1>3, <2>1, <2>2
<1>5. T = <<Ans[o], "RES", "ERR", "ANS_END">>
  BY DEF Kinds
<1>6. T \in Seq(ReadKinds) /\ Len(T) = 4 /\ T[2] = "RES" /\ T[3] = "ERR" /\ T[4] = "ANS_END"
      /\ T[1] = Ans[o]
  BY <1>5, FirstReadsAre DEF ReadKinds
<1>7. Settled(o, result) = 2
  BY DEF Settled
<1> HIDE DEF A, T
<1>8. \A i \in 1..4 : Acceptable(T[i], A[i])
  BY <1>2, <1>4, <1>6, FirstReadsAre DEF Acceptable
<1>9. ReadsAfter(o, <<"RES", "ANS_END">>, A[2]) = SubSeq(T, 3, 4)
  <2>1. ReadsAfter(o, <<"RES", "ANS_END">>, A[2]) = <<"ERR">> \o <<"ANS_END">>
    BY <1>4 DEF ReadsAfter
  <2>2. <<"ERR">> \o <<"ANS_END">> = <<"ERR", "ANS_END">>
    BY Two
  <2>3. SubSeq(T, 3, 4) = <<"ERR", "ANS_END">>
    <3>1. <<"ERR", "ANS_END">> \in Seq(ReadKinds)
      BY DEF ReadKinds
    <3>2. \A i \in 1..2 : <<"ERR", "ANS_END">>[i] = T[3 + i - 1]
      BY <1>6
    <3>3. Len(<<"ERR", "ANS_END">>) = Len(T) - 3 + 1 /\ 3 \in 1..Len(T)
          /\ Len(<<"ERR", "ANS_END">>) = 2
      BY <1>6
    <3>4. QED
      BY <1>6, <3>1, <3>2, <3>3, EndIs
  <2>4. QED
    BY <2>1, <2>2, <2>3
<1>10. \A r \in 0..2 : ToldAt(o, result, r + 1) =
             IF Tells(T[r + 1], A[r + 1]) THEN Append(ToldAt(o, result, r), A[r + 1])
                                          ELSE ToldAt(o, result, r)
  <2>1. ASSUME NEW r \in 0..2
        PROVE  ToldAt(o, result, r + 1) =
                 IF Tells(T[r + 1], A[r + 1]) THEN Append(ToldAt(o, result, r), A[r + 1])
                                              ELSE ToldAt(o, result, r)
    <3>1. ToldAt(o, result, r) = SubSeq(A, 3, r) /\ ToldAt(o, result, r + 1) = SubSeq(A, 3, r + 1)
      BY DEF ToldAt, A
    <3>2. Tells(T[r + 1], A[r + 1]) <=> r + 1 >= 3
      BY <1>4, <1>6, FirstReadsAre DEF Tells
    <3>3. /\ r + 1 >= 3 => SubSeq(A, 3, r + 1) = Append(SubSeq(A, 3, r), A[r + 1])
          /\ r + 1 < 3 => SubSeq(A, 3, r + 1) = SubSeq(A, 3, r)
      BY <1>4, Grows
    <3>4. CASE r + 1 >= 3
      BY <3>1, <3>2, <3>3, <3>4
    <3>5. CASE r + 1 < 3
      BY <3>1, <3>2, <3>3, <3>5
    <3>6. QED
      BY <3>4, <3>5
  <2>2. QED
    BY <2>1
<1>11. ToldAt(o, result, 0) = <<>>
  BY SubSeqEmpty DEF ToldAt
<1>12. FirstReads(o) = <<Ans[o], "RES", "ANS_END">>
  BY FirstReadsAre
<1>13. ReadsAt(o, result, 2) = SubSeq(T, 3, 4)
  BY <1>6, <1>7 DEF ReadsAt, T
<1>14. Accepted(o, result)
  BY <1>4, <1>6, <1>7, <1>8 DEF Accepted, A, T
<1>15. Announced(o, result)
  BY <1>4, <1>6, <1>7, <1>9, <1>12, <1>13 DEF Announced, A, T
<1>16. Retold(o, result)
  BY <1>4, <1>10, <1>11 DEF Retold, A, T
<1>17. ToldAt(o, result, Len(A) - 1) = <<<<Reason(o, result)>>>>
  <2>1. ToldAt(o, result, 2) = <<>>
    BY SubSeqEmpty DEF ToldAt
  <2>2. ToldAt(o, result, 2 + 1) = SubSeq(A, 3, 2 + 1)
    BY DEF ToldAt, A
  <2>3. SubSeq(A, 3, 2 + 1) = Append(SubSeq(A, 3, 2), A[2 + 1])
    BY <1>4, Grows
  <2>4. SubSeq(A, 3, 2) = <<>>
    BY SubSeqEmpty
  <2>5. Len(A) - 1 = 2 + 1 /\ 2 + 1 = 3
    BY <1>4
  <2>6. ToldAt(o, result, Len(A) - 1) = Append(<<>>, <<Reason(o, result)>>)
    BY <1>4, <2>2, <2>3, <2>4, <2>5
  <2>7. QED
    BY <2>6
<1>18. QED
  BY <1>14, <1>15, <1>16, <1>17 DEF Script, A

(* A success without anything more. *)
LEMMA AckScript ==
  ASSUME NEW o \in {"create_news_group", "delete_news_group", "create_article",
                    "delete_article"},
         NEW result, IsResult(o, result), Succeeds(o, result)
  PROVE  /\ Script(o, result)
         /\ ToldAt(o, result, Len(Full(o, result)) - 1) = <<<<"ANS_ACK">>>>
<1> DEFINE A == Full(o, result)
           T == Kinds(o, result)
<1>0. o \in Operations /\ o \notin {"list_news_groups", "list_articles", "get_article"}
  BY DEF Operations
<1>1. Body(o, result) = <<<<"ANS_ACK">>>>
  BY <1>0 DEF Body
<1>3. Body(o, result) \in Seq(Tokens) /\ Len(Body(o, result)) = 1
  BY <1>1 DEF Tokens, Codes
<1>4. /\ A \in Seq(Tokens) /\ Len(A) = 3
      /\ A[1] = <<Ans[o]>> /\ A[2] = <<"ANS_ACK">> /\ A[3] = <<"ANS_END">>
  <2>1. /\ A \in Seq(Tokens) /\ Len(A) = Len(Body(o, result)) + 2 /\ A[1] = <<Ans[o]>>
        /\ \A i \in 1..Len(Body(o, result)) : A[i + 1] = Body(o, result)[i]
        /\ A[Len(Body(o, result)) + 2] = <<"ANS_END">>
    <3>1. Frames(o, Full(o, result), Body(o, result))
      BY <1>0, <1>3, FullIs
    <3>2. QED
      BY <3>1 DEF Frames
  <2>2. A[1 + 1] = Body(o, result)[1]
    BY <1>3, <2>1
  <2>3. QED
    BY <1>1, <1>3, <2>1, <2>2
<1>5. T = <<Ans[o], "RES", "ANS_END">>
  BY <1>0 DEF Kinds
<1>6. T \in Seq(ReadKinds) /\ Len(T) = 3 /\ T[1] = Ans[o] /\ T[2] = "RES" /\ T[3] = "ANS_END"
  BY <1>0, <1>5, FirstReadsAre DEF ReadKinds
<1>7. Settled(o, result) = 2
  BY <1>0 DEF Settled
<1> HIDE DEF A, T
<1>8. \A i \in 1..3 : Acceptable(T[i], A[i])
  BY <1>0, <1>4, <1>6, FirstReadsAre DEF Acceptable
<1>9. ReadsAfter(o, <<"RES", "ANS_END">>, A[2]) = SubSeq(T, 3, 3)
  <2>1. ReadsAfter(o, <<"RES", "ANS_END">>, A[2]) = <<>> \o <<"ANS_END">>
    <3>1. AfterAck(o) = <<>>
      BY <1>0 DEF AfterAck
    <3>2. ReadsAfter(o, <<"RES", "ANS_END">>, A[2]) = AfterAck(o) \o <<"ANS_END">>
      BY <1>4 DEF ReadsAfter
    <3>3. QED
      BY <3>1, <3>2
  <2>2. <<>> \o <<"ANS_END">> = <<"ANS_END">>
    BY <<"ANS_END">> \in Seq({"ANS_END"}), ConcatEmptySeq
  <2>3. SubSeq(T, 3, 3) = <<"ANS_END">>
    <3>1. <<"ANS_END">> \in Seq(ReadKinds)
      BY DEF ReadKinds
    <3>2. \A i \in 1..1 : <<"ANS_END">>[i] = T[3 + i - 1]
      BY <1>6
    <3>3. Len(<<"ANS_END">>) = Len(T) - 3 + 1 /\ 3 \in 1..Len(T) /\ Len(<<"ANS_END">>) = 1
      BY <1>6
    <3>4. QED
      BY <1>6, <3>1, <3>2, <3>3, EndIs
  <2>4. QED
    BY <2>1, <2>2, <2>3
<1>10. ASSUME NEW r \in 0..1
       PROVE  ToldAt(o, result, r + 1) =
                IF Tells(T[r + 1], A[r + 1]) THEN Append(ToldAt(o, result, r), A[r + 1])
                                             ELSE ToldAt(o, result, r)
  <2>1. ToldAt(o, result, r) = SubSeq(A, 2, r) /\ ToldAt(o, result, r + 1) = SubSeq(A, 2, r + 1)
    BY <1>0 DEF ToldAt, A
  <2>2. Tells(T[r + 1], A[r + 1]) <=> r + 1 >= 2
    BY <1>0, <1>4, <1>6, FirstReadsAre DEF Tells
  <2>3. /\ r + 1 >= 2 => SubSeq(A, 2, r + 1) = Append(SubSeq(A, 2, r), A[r + 1])
        /\ r + 1 < 2 => SubSeq(A, 2, r + 1) = SubSeq(A, 2, r)
    BY <1>4, Grows
  <2>4. CASE r + 1 >= 2
    BY <2>1, <2>2, <2>3, <2>4
  <2>5. CASE r + 1 < 2
    BY <2>1, <2>2, <2>3, <2>5
  <2>6. QED
    BY <2>4, <2>5
<1>11. ToldAt(o, result, 0) = <<>>
  BY <1>0, SubSeqEmpty DEF ToldAt
<1>12. FirstReads(o) = <<Ans[o], "RES", "ANS_END">>
  BY <1>0, FirstReadsAre
<1>13. ReadsAt(o, result, 2) = SubSeq(T, 3, 3)
  BY <1>6, <1>7 DEF ReadsAt, T
<1>14. Accepted(o, result)
  BY <1>4, <1>6, <1>7, <1>8 DEF Accepted, A, T
<1>15. Announced(o, result)
  BY <1>4, <1>6, <1>7, <1>9, <1>12, <1>13 DEF Announced, A, T
<1>16. Retold(o, result)
  BY <1>4, <1>10, <1>11 DEF Retold, A, T
<1>17. ToldAt(o, result, Len(A) - 1) = <<<<"ANS_ACK">>>>
  <2>1. ToldAt(o, result, 1 + 1) = SubSeq(A, 2, 1 + 1)
    BY <1>0 DEF ToldAt, A
  <2>2. SubSeq(A, 2, 1 + 1) = Append(SubSeq(A, 2, 1), A[1 + 1])
    BY <1>4, Grows
  <2>3. SubSeq(A, 2, 1) = <<>>
    BY SubSeqEmpty
  <2>4. Len(A) - 1 = 1 + 1 /\ 1 + 1 = 2
    BY <1>4
  <2>5. ToldAt(o, result, Len(A) - 1) = Append(<<>>, <<"ANS_ACK">>)
    BY <1>4, <2>1, <2>2, <2>3, <2>4
  <2>6. QED
    BY <2>5
<1>18. QED
  BY <1>14, <1>15, <1>16, <1>17 DEF Script, A

(* An article. *)
LEMMA ArticleScript ==
  ASSUME NEW o, o = "get_article", NEW result, IsResult(o, result), Succeeds(o, result)
  PROVE  /\ Script(o, result)
         /\ ToldAt(o, result, Len(Full(o, result)) - 1) = Ack \o Strings(result[2])
<1> DEFINE A == Full(o, result)
           T == Kinds(o, result)
           B == Body(o, result)
           x == Str(result[2].title)
           y == Str(result[2].author)
           z == Str(result[2].text)
<1>0. o \in Operations
  BY DEF Operations
<1>1. result[2] \in Contents
  BY DEF IsResult, Succeeds
<1>2. x \in Tokens /\ y \in Tokens /\ z \in Tokens /\ <<"ANS_ACK">> \in Tokens
      /\ x[1] = "PAR_STRING" /\ y[1] = "PAR_STRING" /\ z[1] = "PAR_STRING"
  BY <1>1 DEF Tokens, Texts, Str, Codes
<1>3. B = <<<<"ANS_ACK">>, x, y, z>>
  <2>1. B = <<<<"ANS_ACK">>>> \o <<x, y, z>>
    BY DEF Body, Strings
  <2>2. QED
    BY <2>1, Four
<1> HIDE DEF x, y, z
<1>4. B \in Seq(Tokens) /\ Len(B) = 4
      /\ B[1] = <<"ANS_ACK">> /\ B[2] = x /\ B[3] = y /\ B[4] = z
  <2> DEFINE ack == <<"ANS_ACK">>
             w == <<ack, x, y, z>>
  <2>1. ack \in Tokens /\ x \in Tokens /\ y \in Tokens /\ z \in Tokens
    BY <1>2
  <2> HIDE DEF ack
  <2>2. w \in Seq(Tokens) /\ Len(w) = 4 /\ w[1] = ack /\ w[2] = x /\ w[3] = y /\ w[4] = z
    BY <2>1
  <2>3. B = w
    BY <1>3 DEF ack
  <2> HIDE DEF w, B
  <2>4. QED
    BY <2>2, <2>3 DEF ack
<1> HIDE DEF B
<1>5. /\ A \in Seq(Tokens) /\ Len(A) = 6
      /\ A[1] = <<Ans[o]>> /\ A[2] = <<"ANS_ACK">> /\ A[3] = x /\ A[4] = y /\ A[5] = z
      /\ A[6] = <<"ANS_END">>
  <2>1. /\ A \in Seq(Tokens) /\ Len(A) = Len(B) + 2 /\ A[1] = <<Ans[o]>>
        /\ \A i \in 1..Len(B) : A[i + 1] = B[i]
        /\ A[Len(B) + 2] = <<"ANS_END">>
    <3>1. Frames(o, Full(o, result), Body(o, result))
      BY <1>0, <1>4, FullIs DEF B
    <3>2. QED
      BY <3>1 DEF Frames, B
  <2>2. A[1 + 1] = B[1] /\ A[2 + 1] = B[2] /\ A[3 + 1] = B[3] /\ A[4 + 1] = B[4]
    BY <1>4, <2>1
  <2>3. QED
    BY <1>4, <2>1, <2>2
<1>6. T = <<Ans[o], "RES", "PAR_STRING", "PAR_STRING", "PAR_STRING", "ANS_END">>
  BY DEF Kinds
<1>7. /\ T \in Seq(ReadKinds) /\ Len(T) = 6 /\ T[1] = Ans[o] /\ T[2] = "RES"
      /\ T[3] = "PAR_STRING" /\ T[4] = "PAR_STRING" /\ T[5] = "PAR_STRING"
      /\ T[6] = "ANS_END"
  <2>1. Ans[o] \in ReadKinds /\ "RES" \in ReadKinds /\ "PAR_STRING" \in ReadKinds
        /\ "ANS_END" \in ReadKinds
    BY <1>0 DEF ReadKinds
  <2> DEFINE ans == Ans[o]
  <2> HIDE DEF ans
  <2>2. <<ans, "RES", "PAR_STRING", "PAR_STRING", "PAR_STRING", "ANS_END">> \in Seq(ReadKinds)
    BY <2>1 DEF ans
  <2>3. T = <<ans, "RES", "PAR_STRING", "PAR_STRING", "PAR_STRING", "ANS_END">>
    BY <1>6 DEF ans
  <2> HIDE DEF T
  <2>4. QED
    BY <2>2, <2>3 DEF ans
<1>8. Settled(o, result) = 2
  BY DEF Settled
<1> HIDE DEF A, T, B
<1>9. \A i \in 1..6 : Acceptable(T[i], A[i])
  BY <1>0, <1>2, <1>5, <1>7, FirstReadsAre DEF Acceptable
<1>10. ReadsAfter(o, <<"RES", "ANS_END">>, A[2]) = SubSeq(T, 3, 6)
  <2> DEFINE w == <<"PAR_STRING", "PAR_STRING", "PAR_STRING", "ANS_END">>
  <2>1. ReadsAfter(o, <<"RES", "ANS_END">>, A[2]) =
          <<"PAR_STRING", "PAR_STRING", "PAR_STRING">> \o <<"ANS_END">>
    BY <1>5 DEF ReadsAfter, AfterAck
  <2>2. <<"PAR_STRING", "PAR_STRING", "PAR_STRING">> \o <<"ANS_END">> = w
    BY FourAtEnd
  <2>3. SubSeq(T, 3, 6) = w
    <3>1. w \in Seq(ReadKinds) /\ Len(w) = Len(T) - 3 + 1 /\ 3 \in 1..Len(T) /\ Len(w) = 4
      BY <1>7 DEF ReadKinds
    <3>2. \A i \in 1..4 : w[i] = T[3 + i - 1]
      BY <1>7
    <3> HIDE DEF w
    <3>3. QED
      BY <1>7, <3>1, <3>2, EndIs
  <2>4. QED
    BY <2>1, <2>2, <2>3
<1>11. ASSUME NEW r \in 0..4
       PROVE  ToldAt(o, result, r + 1) =
                IF Tells(T[r + 1], A[r + 1]) THEN Append(ToldAt(o, result, r), A[r + 1])
                                             ELSE ToldAt(o, result, r)
  <2>1. ToldAt(o, result, r) = SubSeq(A, 2, r) /\ ToldAt(o, result, r + 1) = SubSeq(A, 2, r + 1)
    BY DEF ToldAt, A
  <2>2. Tells(T[r + 1], A[r + 1]) <=> r + 1 >= 2
    BY <1>0, <1>5, <1>7, FirstReadsAre DEF Tells
  <2>3. /\ r + 1 >= 2 => SubSeq(A, 2, r + 1) = Append(SubSeq(A, 2, r), A[r + 1])
        /\ r + 1 < 2 => SubSeq(A, 2, r + 1) = SubSeq(A, 2, r)
    BY <1>5, Grows
  <2>4. CASE r + 1 >= 2
    BY <2>1, <2>2, <2>3, <2>4
  <2>5. CASE r + 1 < 2
    BY <2>1, <2>2, <2>3, <2>5
  <2>6. QED
    BY <2>4, <2>5
<1>12. ToldAt(o, result, 0) = <<>>
  BY SubSeqEmpty DEF ToldAt
<1>13. FirstReads(o) = <<Ans[o], "RES", "ANS_END">>
  BY <1>0, FirstReadsAre
<1>14. ReadsAt(o, result, 2) = SubSeq(T, 3, 6)
  <2>1. 2 # 0 /\ 2 # 1 /\ ~(2 < 2) /\ 2 + 1 = 3
    OBVIOUS
  <2>2. ReadsAt(o, result, 2) = SubSeq(T, 2 + 1, Len(T))
    BY <1>8, <2>1, Zenon DEF ReadsAt, T
  <2>3. QED
    BY <1>7, <2>1, <2>2
<1>15. Accepted(o, result)
  <2>1. \A i \in 2 + 1..6 : T[i] \notin {"COUNT", "RES"}
    BY <1>7
  <2>2. QED
    BY <1>5, <1>7, <1>8, <1>9, <2>1, SMTT(30) DEF Accepted, A, T
<1>16. Announced(o, result)
  BY <1>7, <1>8, <1>10, <1>13, <1>14, Zenon DEF Announced, A, T
<1>17. Retold(o, result)
  <2>1. 0..6 - 2 = 0..4
    OBVIOUS
  <2>2. \A r \in 0..Len(A) - 2 :
          ToldAt(o, result, r + 1) =
            IF Tells(T[r + 1], A[r + 1]) THEN Append(ToldAt(o, result, r), A[r + 1])
                                         ELSE ToldAt(o, result, r)
    BY <1>5, <1>11, <2>1, Zenon
  <2>3. QED
    BY <1>12, <2>2, Zenon DEF Retold, A, T
<1>18. ToldAt(o, result, Len(A) - 1) = Ack \o Strings(result[2])
  <2> DEFINE told5 == SubSeq(A, 2, 5)
  <2>1. ToldAt(o, result, 5) = told5 /\ Len(A) - 1 = 5
    BY <1>5 DEF ToldAt, A
  <2>2. Ack \o Strings(result[2]) = B
    BY DEF B, Body, Ack
  <2>3. /\ told5 \in Seq(Tokens) /\ Len(told5) = 4
        /\ told5[1] = A[2] /\ told5[2] = A[3] /\ told5[3] = A[4] /\ told5[4] = A[5]
    BY <1>5, SubSeqProperties
  <2> HIDE DEF told5
  <2>4. \A i \in 1..4 : told5[i] = B[i]
    <3>1. told5[1] = B[1] /\ told5[2] = B[2] /\ told5[3] = B[3] /\ told5[4] = B[4]
      BY <1>4, <1>5, <2>3, Zenon
    <3>2. QED
      BY <3>1
  <2>5. told5 = B
    BY <1>4, <2>3, <2>4, SeqEqual
  <2>6. QED
    BY <2>1, <2>2, <2>5
<1>19. QED
  BY <1>15, <1>16, <1>17, <1>18 DEF Script, A

-----------------------------------------------------------------------------
(* A list, which is read by its length.                                    *)

(* The places of the numbers and those of the strings. *)
LEMMA Places ==
  ASSUME NEW n \in Nat, NEW i \in 1..2 * n
  PROVE  /\ i % 2 = 1 => (i + 1) \div 2 \in 1..n /\ i + 1 = 2 * ((i + 1) \div 2)
         /\ i % 2 # 1 => i \div 2 \in 1..n /\ i = 2 * (i \div 2)
OBVIOUS

(* Behind its length it has what the client waits for once it is known. *)
LEMMA ListingKinds ==
  ASSUME NEW S, IsFiniteSet(S), S \subseteq Numbers \X Texts,
         NEW n, n = Len(SetToSeq(S))
  PROVE  \A i \in 1..2 * n : Listing(S)[i + 1][1] = Pairs(n)[i]
<1> DEFINE list == SetToSeq(S)
<1>0. list = SetToSeq(S) /\ n = Len(list)
  OBVIOUS
<1> HIDE DEF list
<1>1. /\ n \in Nat
      /\ \A j \in 1..n : Listing(S)[2 * j][1] = "PAR_NUM"
      /\ \A j \in 1..n : Listing(S)[2 * j + 1][1] = "PAR_STRING"
  <2>1. /\ n \in Nat
        /\ \A j \in 1..n : Listing(S)[2 * j] = Num(list[j][1])
        /\ \A j \in 1..n : Listing(S)[2 * j + 1] = Str(list[j][2])
    <3>1. TakeTurns(S, list, n)
      BY <1>0, ListingIs
    <3>2. QED
      BY <3>1 DEF TakeTurns
  <2>2. QED
    BY <2>1 DEF Num, Str
<1>2. ASSUME NEW i \in 1..2 * n PROVE Listing(S)[i + 1][1] = Pairs(n)[i]
  <2>1. Pairs(n)[i] = IF i % 2 = 1 THEN "PAR_NUM" ELSE "PAR_STRING"
    BY DEF Pairs
  <2>2. CASE i % 2 = 1
    <3>1. PICK j \in 1..n : i + 1 = 2 * j
      <4>1. (i + 1) \div 2 \in 1..n /\ i + 1 = 2 * ((i + 1) \div 2)
        BY <1>1, <2>2, Places, Zenon
      <4>2. QED
        BY <4>1
    <3>2. QED
      BY <1>1, <2>1, <2>2, <3>1
  <2>3. CASE i % 2 # 1
    <3>1. PICK j \in 1..n : i + 1 = 2 * j + 1
      <4>1. i \div 2 \in 1..n /\ i = 2 * (i \div 2)
        BY <1>1, <2>3, Places, Zenon
      <4>2. QED
        BY <4>1
    <3>2. QED
      BY <1>1, <2>1, <2>3, <3>1
  <2>4. QED
    BY <2>2, <2>3
<1>3. QED
  BY <1>2

LEMMA PairsEnd ==
  ASSUME NEW n \in Nat, NEW T \in Seq(ReadKinds), NEW m \in Nat \ {0}, Len(T) = m + 2 * n,
         \A i \in 1..2 * n : T[m - 1 + i] = Pairs(n)[i],
         T[m + 2 * n] = "ANS_END"
  PROVE  Pairs(n) \o <<"ANS_END">> = SubSeq(T, m, Len(T))
<1> DEFINE P == Pairs(n)
           u == P \o <<"ANS_END">>
<1>1. P \in Seq(ReadKinds) /\ Len(P) = 2 * n /\ 2 * n \in Nat
  <2>1. 2 * n \in Nat
    OBVIOUS
  <2>2. QED
    BY <2>1 DEF Pairs, ReadKinds
<1>2. "ANS_END" \in ReadKinds
  BY DEF ReadKinds
<1>3. \A i \in 1..Len(P) : T[m - 1 + i] = P[i]
  BY <1>1
<1> HIDE DEF P
<1>4. /\ u \in Seq(ReadKinds) /\ Len(u) = Len(P) + 1 /\ u[Len(P) + 1] = "ANS_END"
      /\ \A i \in 1..Len(P) : u[i] = P[i]
  BY <1>1, <1>2, Suffixed
<1> HIDE DEF u
<1>5. \A i \in 1..Len(u) : u[i] = T[m + i - 1]
  <2>1. ASSUME NEW i \in 1..Len(P) PROVE u[i] = T[m + i - 1]
    <3>1. m + i - 1 = m - 1 + i
      BY <1>1
    <3>2. QED
      BY <1>3, <1>4, <3>1
  <2>2. u[Len(P) + 1] = T[m + (Len(P) + 1) - 1]
    <3>1. m + (Len(P) + 1) - 1 = m + 2 * n
      BY <1>1
    <3>2. QED
      BY <1>4, <3>1
  <2>3. 1..Len(u) = 1..Len(P) \cup {Len(P) + 1}
    <3>1. Len(P) \in Nat
      BY <1>1
    <3>2. QED
      BY <1>4, <3>1
  <2>4. QED
    BY <2>1, <2>2, <2>3
<1>6. m \in 1..Len(T) /\ Len(u) = Len(T) - m + 1
  BY <1>1, <1>4
<1>7. SubSeq(T, m, Len(T)) = u
  BY <1>4, <1>5, <1>6, EndIs
<1>8. QED
  BY <1>7 DEF u, P

(* The user who is told the tokens behind the length is told the pairs. *)
LEMMA ListTold ==
  ASSUME NEW S, IsFiniteSet(S), S \subseteq Numbers \X Texts,
         NEW n, n = Len(SetToSeq(S)), NEW seq \in Seq(Tokens), Len(seq) = 2 * n,
         \A i \in 1..2 * n : seq[i] = Listing(S)[i + 1]
  PROVE  PairsOf(seq) = S
<1> DEFINE list == SetToSeq(S)
<1>0. list = SetToSeq(S) /\ n = Len(list)
  OBVIOUS
<1> HIDE DEF list
<1>1. /\ n \in Nat /\ list \in Seq(S) /\ n = Len(list)
      /\ \A x \in S : \E j \in 1..n : list[j] = x
      /\ \A j \in 1..n : Listing(S)[2 * j] = Num(list[j][1])
      /\ \A j \in 1..n : Listing(S)[2 * j + 1] = Str(list[j][2])
  <2>1. TakeTurns(S, list, n)
    BY <1>0, ListingIs
  <2>2. QED
    BY <2>1 DEF TakeTurns
<1>2. ASSUME NEW j \in 1..n
      PROVE  <<seq[2 * j - 1][2], seq[2 * j][2]>> = list[j]
  <2>1. 2 * j - 1 \in 1..2 * n /\ 2 * j \in 1..2 * n /\ (2 * j - 1) + 1 = 2 * j
    BY <1>1
  <2>2. seq[2 * j - 1] = Num(list[j][1]) /\ seq[2 * j] = Str(list[j][2])
    BY <1>1, <2>1
  <2>3. list[j] \in Numbers \X Texts
    BY <1>1
  <2>4. QED
    BY <2>2, <2>3 DEF Num, Str
<1>3. Len(seq) \div 2 = n
  BY <1>1
<1>4. PairsOf(seq) = {list[j] : j \in 1..n}
  <2>1. PairsOf(seq) = {<<seq[2 * j - 1][2], seq[2 * j][2]>> : j \in 1..n}
    BY <1>3, Zenon DEF PairsOf
  <2> HIDE DEF list
  <2>2. \A j \in 1..n : <<seq[2 * j - 1][2], seq[2 * j][2]>> = list[j]
    BY <1>2
  <2>3. QED
    BY <2>1, <2>2, ZenonT(40)
<1>5. \A j \in 1..n : list[j] \in S
  BY <1>1
<1>6. QED
  BY <1>1, <1>4, <1>5

(* The names of the groups. *)
LEMMA ListScript ==
  ASSUME NEW o, o = "list_news_groups", NEW result, IsResult(o, result)
  PROVE  /\ Script(o, result)
         /\ PairsOf(ToldAt(o, result, Len(Full(o, result)) - 1)) = result
<1> DEFINE A == Full(o, result)
           T == Kinds(o, result)
           M == Listing(result)
           list == SetToSeq(result)
           n == Len(list)
<1>0. o \in Operations /\ IsFiniteSet(result) /\ result \subseteq Numbers \X Texts
  BY DEF Operations, IsResult
<1>1. list = SetToSeq(result) /\ n = Len(SetToSeq(result))
  OBVIOUS
<1>2. TakeTurns(result, list, n)
  BY <1>0, ListingIs
<1>3. \A i \in 1..2 * n : M[i + 1][1] = Pairs(n)[i]
  BY <1>0, ListingKinds
<1>4. T = ListKinds(n)
  BY DEF Kinds
<1>5. Body(o, result) = M
  BY DEF Body
<1>6. Settled(o, result) = 2
  BY DEF Settled
<1>7. \A r : ToldAt(o, result, r) = SubSeq(A, 3, r)
  BY DEF ToldAt
<1>8. FirstReads(o) = <<Ans[o], "COUNT", "ANS_END">>
  BY <1>0, FirstReadsAre
<1> HIDE DEF list, n, A, T, M
<1>9. /\ n \in Nat /\ 2 * n \in Nat
      /\ M \in Seq(Tokens) /\ Len(M) = 2 * n + 1 /\ M[1] = Num(n)
  BY <1>2 DEF TakeTurns, M
<1>10. /\ A \in Seq(Tokens) /\ Len(A) = 2 * n + 3
       /\ A[1] = <<Ans[o]>> /\ A[2] = Num(n)
       /\ \A i \in 1..2 * n : A[i + 2] = M[i + 1]
       /\ A[2 * n + 3] = <<"ANS_END">>
  <2>1. /\ A \in Seq(Tokens) /\ Len(A) = Len(M) + 2 /\ A[1] = <<Ans[o]>>
        /\ \A i \in 1..Len(M) : A[i + 1] = M[i]
        /\ A[Len(M) + 2] = <<"ANS_END">>
    <3>1. Frames(o, Full(o, result), Body(o, result))
      BY <1>0, <1>5, <1>9, FullIs
    <3>2. QED
      BY <1>5, <3>1 DEF Frames, A
  <2>2. 1 \in 1..Len(M) /\ Len(M) + 2 = 2 * n + 3
    BY <1>9
  <2>3. A[1 + 1] = M[1]
    BY <2>1, <2>2
  <2>4. ASSUME NEW i \in 1..2 * n PROVE A[i + 2] = M[i + 1]
    <3>1. i + 1 \in 1..Len(M) /\ (i + 1) + 1 = i + 2
      BY <1>9
    <3>2. A[(i + 1) + 1] = M[i + 1]
      BY <2>1, <3>1
    <3>3. QED
      BY <3>1, <3>2
  <2>5. QED
    BY <1>9, <2>1, <2>2, <2>3, <2>4
<1>11. /\ T \in Seq(ReadKinds) /\ Len(T) = 2 * n + 3
       /\ T[1] = Ans[o] /\ T[2] = "COUNT"
       /\ \A i \in 1..2 * n : T[i + 2] = Pairs(n)[i]
       /\ T[2 * n + 3] = "ANS_END"
  <2>1. 2 * n + 3 \in Nat
    BY <1>9
  <2>2. \A i \in 1..2 * n + 3 : ListKinds(n)[i] \in ReadKinds
    BY <1>0, FirstReadsAre DEF ListKinds, ReadKinds
  <2>3. T \in Seq(ReadKinds) /\ Len(T) = 2 * n + 3
    BY <1>4, <2>1, <2>2 DEF ListKinds
  <2>4. T[1] = Ans[o] /\ T[2] = "COUNT" /\ T[2 * n + 3] = "ANS_END"
    BY <1>4, <1>9 DEF ListKinds
  <2>5. ASSUME NEW i \in 1..2 * n PROVE T[i + 2] = Pairs(n)[i]
    <3>1. /\ i + 2 \in 1..2 * n + 3 /\ i + 2 # 1 /\ i + 2 # 2 /\ i + 2 # 2 * n + 3
          /\ (i + 2) % 2 = i % 2
      BY <1>9
    <3>2. T[i + 2] = IF i % 2 = 1 THEN "PAR_NUM" ELSE "PAR_STRING"
      BY <1>4, <3>1 DEF ListKinds
    <3>3. QED
      BY <3>2 DEF Pairs
  <2>6. QED
    BY <2>3, <2>4, <2>5
<1>12. ASSUME NEW i \in 1..2 * n + 3
       PROVE  i = 1 \/ i = 2 \/ i = 2 * n + 3 \/ \E k \in 1..2 * n : i = k + 2
  <2>1. i - 2 \in 1..2 * n \/ i = 1 \/ i = 2 \/ i = 2 * n + 3
    BY <1>9
  <2>2. QED
    BY <2>1
<1>13. \A k \in 1..2 * n : Pairs(n)[k] \in {"PAR_NUM", "PAR_STRING"}
  BY DEF Pairs
<1>14. Accepted(o, result)
  <2>1. ASSUME NEW i \in 1..2 * n + 3 PROVE Acceptable(T[i], A[i])
    <3>1. CASE i = 1
      BY <1>0, <1>10, <1>11, <3>1, FirstReadsAre DEF Acceptable
    <3>2. CASE i = 2
      BY <1>10, <1>11, <3>2 DEF Acceptable, Num
    <3>3. CASE i = 2 * n + 3
      BY <1>10, <1>11, <3>3 DEF Acceptable
    <3>4. ASSUME NEW k \in 1..2 * n, i = k + 2 PROVE Acceptable(T[i], A[i])
      <4>1. T[i] = Pairs(n)[k] /\ A[i][1] = Pairs(n)[k]
        BY <1>3, <1>10, <1>11, <3>4
      <4>2. QED
        BY <1>13, <4>1 DEF Acceptable
    <3>5. QED
      BY <1>12, <3>1, <3>2, <3>3, <3>4
  <2>2. ASSUME NEW i \in 2 + 1..2 * n + 3 PROVE T[i] \notin {"COUNT", "RES"}
    <3>1. i \in 1..2 * n + 3 /\ i # 1 /\ i # 2
      BY <1>9
    <3>2. QED
      BY <1>11, <1>12, <1>13, <3>1
  <2>3. 2 < 2 * n + 3
    BY <1>9
  <2>4. QED
    BY <1>6, <1>10, <1>11, <2>1, <2>2, <2>3 DEF Accepted, A, T
<1>15. SubSeq(T, 3, Len(T)) = Pairs(n) \o <<"ANS_END">>
  <2>1. Len(T) = 3 + 2 * n /\ T[3 + 2 * n] = "ANS_END" /\ 3 \in Nat \ {0}
    BY <1>9, <1>11
  <2>2. ASSUME NEW i \in 1..2 * n PROVE T[3 - 1 + i] = Pairs(n)[i]
    <3>1. 3 - 1 + i = i + 2
      BY <1>9
    <3>2. QED
      BY <1>11, <3>1
  <2>3. QED
    BY <1>9, <1>11, <2>1, <2>2, PairsEnd, Zenon
<1>16. Announced(o, result)
  <2>1. ReadsAfter(o, <<"COUNT", "ANS_END">>, A[2]) = Pairs(n) \o <<"ANS_END">>
    BY <1>10 DEF ReadsAfter, Num
  <2>2. ReadsAt(o, result, 2) = SubSeq(T, 3, Len(T))
    <3>1. 2 # 0 /\ 2 # 1 /\ ~(2 < 2) /\ 2 + 1 = 3
      OBVIOUS
    <3>2. QED
      BY <1>6, <3>1, Zenon DEF ReadsAt, T
  <2>3. 2 # 3
    OBVIOUS
  <2>4. QED
    BY <1>6, <1>8, <1>11, <1>15, <2>1, <2>2, <2>3, Zenon DEF Announced, A, T
<1>17. Retold(o, result)
  <2>1. ASSUME NEW r \in 0..Len(A) - 2
        PROVE  ToldAt(o, result, r + 1) =
                 IF Tells(T[r + 1], A[r + 1]) THEN Append(ToldAt(o, result, r), A[r + 1])
                                              ELSE ToldAt(o, result, r)
    <3>1. ToldAt(o, result, r) = SubSeq(A, 3, r) /\ ToldAt(o, result, r + 1) = SubSeq(A, 3, r + 1)
      BY <1>7
    <3>2. Tells(T[r + 1], A[r + 1]) <=> r + 1 >= 3
      <4>1. r + 1 \in 1..2 * n + 3 /\ r + 1 # 2 * n + 3 /\ r \in Nat
        BY <1>9, <1>10
      <4>2. CASE r + 1 = 1 \/ r + 1 = 2
        BY <1>0, <1>11, <4>1, <4>2, FirstReadsAre DEF Tells
      <4>3. ASSUME NEW k \in 1..2 * n, r + 1 = k + 2
            PROVE  Tells(T[r + 1], A[r + 1]) <=> r + 1 >= 3
        <5>1. T[r + 1] \in {"PAR_NUM", "PAR_STRING"}
          BY <1>11, <1>13, <4>3
        <5>2. r + 1 >= 3
          BY <1>9, <4>3
        <5>3. QED
          BY <5>1, <5>2 DEF Tells
      <4>4. QED
        BY <1>12, <4>1, <4>2, <4>3
    <3>3. /\ r + 1 >= 3 => SubSeq(A, 3, r + 1) = Append(SubSeq(A, 3, r), A[r + 1])
          /\ r + 1 < 3 => SubSeq(A, 3, r + 1) = SubSeq(A, 3, r)
      <4>1. 3 \in 1..Len(A) /\ r \in 0..Len(A) - 1
        BY <1>9, <1>10
      <4>2. QED
        BY <1>10, <4>1, Grows
    <3>4. r + 1 >= 3 \/ r + 1 < 3
      BY <1>9, <1>10
    <3>5. QED
      BY <3>1, <3>2, <3>3, <3>4
  <2>2. ToldAt(o, result, 0) = <<>>
    BY <1>7, SubSeqEmpty
  <2>3. QED
    BY <2>1, <2>2 DEF Retold, A, T
<1>18. PairsOf(ToldAt(o, result, Len(A) - 1)) = result
  <2> DEFINE seq == SubSeq(A, 3, 2 * n + 2)
  <2>1. ToldAt(o, result, Len(A) - 1) = seq
    BY <1>7, <1>9, <1>10
  <2>2. /\ seq \in Seq(Tokens) /\ Len(seq) = 2 * n
        /\ \A i \in 1..2 * n : seq[i] = A[3 + i - 1]
    BY <1>9, <1>10, SubSeqProperties
  <2> HIDE DEF seq
  <2>3. ASSUME NEW i \in 1..2 * n PROVE seq[i] = M[i + 1]
    <3>1. 3 + i - 1 = i + 2
      BY <1>9
    <3>2. QED
      BY <1>10, <2>2, <3>1
  <2>4. PairsOf(seq) = result
    BY <1>0, <1>1, <2>2, <2>3, ListTold DEF M
  <2>5. QED
    BY <2>1, <2>4
<1>19. QED
  BY <1>14, <1>16, <1>17, <1>18 DEF Script, A

(* The articles of a group that exists. *)
LEMMA ArticleListScript ==
  ASSUME NEW o, o = "list_articles", NEW result, IsResult(o, result), Succeeds(o, result)
  PROVE  /\ Script(o, result)
         /\ Head(ToldAt(o, result, Len(Full(o, result)) - 1)) = <<"ANS_ACK">>
         /\ PairsOf(Tail(ToldAt(o, result, Len(Full(o, result)) - 1))) = result[1]
<1> DEFINE A == Full(o, result)
           T == Kinds(o, result)
           M == Listing(result[1])
           list == SetToSeq(result[1])
           n == Len(list)
           B == Body(o, result)
           ack == <<"ANS_ACK">>
<1>0. o \in Operations /\ IsFiniteSet(result[1]) /\ result[1] \subseteq Numbers \X Texts
  BY DEF Operations, IsResult
<1>1. list = SetToSeq(result[1]) /\ n = Len(SetToSeq(result[1]))
  OBVIOUS
<1>2. TakeTurns(result[1], list, n)
  BY <1>0, ListingIs
<1>3. \A i \in 1..2 * n : M[i + 1][1] = Pairs(n)[i]
  BY <1>0, ListingKinds
<1>4. T = ArticleListKinds(n)
  BY DEF Kinds
<1>5. B = <<ack>> \o M
  BY DEF Body
<1>6. Settled(o, result) = 3
  BY DEF Settled
<1>7. \A r : ToldAt(o, result, r) = IF r < 2 THEN <<>> ELSE <<ack>> \o SubSeq(A, 4, r)
  BY DEF ToldAt
<1>8. FirstReads(o) = <<Ans[o], "RES", "ANS_END">>
  BY <1>0, FirstReadsAre
<1>9. ack \in Tokens /\ ack[1] = "ANS_ACK"
  BY DEF Tokens, Codes
<1> HIDE DEF list, n, A, T, M, B, ack
<1>10. /\ n \in Nat /\ 2 * n \in Nat
       /\ M \in Seq(Tokens) /\ Len(M) = 2 * n + 1 /\ M[1] = Num(n)
  BY <1>2 DEF TakeTurns, M
<1>11. /\ B \in Seq(Tokens) /\ Len(B) = 2 * n + 2 /\ B[1] = ack
       /\ \A i \in 1..2 * n + 1 : B[i + 1] = M[i]
  <2>1. /\ B \in Seq(Tokens) /\ Len(B) = Len(M) + 1 /\ B[1] = ack
        /\ \A i \in 1..Len(M) : B[i + 1] = M[i]
    <3> DEFINE w == <<ack>> \o M
    <3>1. /\ w \in Seq(Tokens) /\ Len(w) = Len(M) + 1 /\ w[1] = ack
          /\ \A i \in 1..Len(M) : w[i + 1] = M[i]
      BY <1>9, <1>10, Prefixed
    <3>2. B = w
      BY <1>5
    <3> HIDE DEF w
    <3>3. QED
      BY <3>1, <3>2
  <2>2. QED
    BY <1>10, <2>1
<1>12. /\ A \in Seq(Tokens) /\ Len(A) = 2 * n + 4
       /\ A[1] = <<Ans[o]>> /\ A[2] = ack /\ A[3] = Num(n)
       /\ \A i \in 1..2 * n : A[i + 3] = M[i + 1]
       /\ A[2 * n + 4] = <<"ANS_END">>
  <2>1. /\ A \in Seq(Tokens) /\ Len(A) = Len(B) + 2 /\ A[1] = <<Ans[o]>>
        /\ \A i \in 1..Len(B) : A[i + 1] = B[i]
        /\ A[Len(B) + 2] = <<"ANS_END">>
    <3>1. Frames(o, Full(o, result), Body(o, result))
      BY <1>0, <1>11, FullIs DEF B
    <3>2. QED
      BY <3>1 DEF Frames, A, B
  <2>2. 1 \in 1..Len(B) /\ 2 \in 1..Len(B) /\ 1 \in 1..2 * n + 1 /\ Len(B) + 2 = 2 * n + 4
    BY <1>10, <1>11
  <2>3. A[1 + 1] = B[1] /\ A[2 + 1] = B[2] /\ B[1 + 1] = M[1]
    BY <1>11, <2>1, <2>2
  <2>4. ASSUME NEW i \in 1..2 * n PROVE A[i + 3] = M[i + 1]
    <3>1. /\ i + 1 \in 1..2 * n + 1 /\ i + 2 \in 1..Len(B)
          /\ (i + 1) + 1 = i + 2 /\ (i + 2) + 1 = i + 3
      BY <1>10, <1>11
    <3>2. A[(i + 2) + 1] = B[i + 2] /\ B[(i + 1) + 1] = M[i + 1]
      BY <1>11, <2>1, <3>1
    <3>3. QED
      BY <3>1, <3>2
  <2>5. QED
    BY <1>10, <1>11, <2>1, <2>2, <2>3, <2>4
<1>13. /\ T \in Seq(ReadKinds) /\ Len(T) = 2 * n + 4
       /\ T[1] = Ans[o] /\ T[2] = "RES" /\ T[3] = "COUNT"
       /\ \A i \in 1..2 * n : T[i + 3] = Pairs(n)[i]
       /\ T[2 * n + 4] = "ANS_END"
  <2>1. 2 * n + 4 \in Nat
    BY <1>10
  <2>2. \A i \in 1..2 * n + 4 : ArticleListKinds(n)[i] \in ReadKinds
    BY <1>0, FirstReadsAre DEF ArticleListKinds, ReadKinds
  <2>3. T \in Seq(ReadKinds) /\ Len(T) = 2 * n + 4
    BY <1>4, <2>1, <2>2 DEF ArticleListKinds
  <2>4. T[1] = Ans[o] /\ T[2] = "RES" /\ T[3] = "COUNT" /\ T[2 * n + 4] = "ANS_END"
    BY <1>4, <1>10 DEF ArticleListKinds
  <2>5. ASSUME NEW i \in 1..2 * n PROVE T[i + 3] = Pairs(n)[i]
    <3>1. /\ i + 3 \in 1..2 * n + 4 /\ i + 3 # 1 /\ i + 3 # 2 /\ i + 3 # 3
          /\ i + 3 # 2 * n + 4 /\ ((i + 3) % 2 = 0 <=> i % 2 = 1)
      BY <1>10
    <3>2. T[i + 3] = IF i % 2 = 1 THEN "PAR_NUM" ELSE "PAR_STRING"
      BY <1>4, <3>1 DEF ArticleListKinds
    <3>3. QED
      BY <3>2 DEF Pairs
  <2>6. QED
    BY <2>3, <2>4, <2>5
<1>14. ASSUME NEW i \in 1..2 * n + 4
       PROVE  i = 1 \/ i = 2 \/ i = 3 \/ i = 2 * n + 4 \/ \E k \in 1..2 * n : i = k + 3
  <2>1. i - 3 \in 1..2 * n \/ i = 1 \/ i = 2 \/ i = 3 \/ i = 2 * n + 4
    BY <1>10
  <2>2. QED
    BY <2>1
<1>15. \A k \in 1..2 * n : Pairs(n)[k] \in {"PAR_NUM", "PAR_STRING"}
  BY DEF Pairs
<1>16. Accepted(o, result)
  <2>1. ASSUME NEW i \in 1..2 * n + 4 PROVE Acceptable(T[i], A[i])
    <3>1. CASE i = 1
      BY <1>0, <1>12, <1>13, <3>1, FirstReadsAre DEF Acceptable
    <3>2. CASE i = 2
      BY <1>12, <1>13, <3>2 DEF Acceptable
    <3>3. CASE i = 3
      BY <1>12, <1>13, <3>3 DEF Acceptable, Num
    <3>4. CASE i = 2 * n + 4
      BY <1>12, <1>13, <3>4 DEF Acceptable
    <3>5. ASSUME NEW k \in 1..2 * n, i = k + 3 PROVE Acceptable(T[i], A[i])
      <4>1. T[i] = Pairs(n)[k] /\ A[i][1] = Pairs(n)[k]
        BY <1>3, <1>12, <1>13, <3>5
      <4>2. QED
        BY <1>15, <4>1 DEF Acceptable
    <3>6. QED
      BY <1>14, <3>1, <3>2, <3>3, <3>4, <3>5
  <2>2. ASSUME NEW i \in 3 + 1..2 * n + 4 PROVE T[i] \notin {"COUNT", "RES"}
    <3>1. i \in 1..2 * n + 4 /\ i # 1 /\ i # 2 /\ i # 3
      BY <1>10
    <3>2. QED
      BY <1>13, <1>14, <1>15, <3>1
  <2>3. 3 < 2 * n + 4
    BY <1>10
  <2>4. QED
    BY <1>6, <1>12, <1>13, <2>1, <2>2, <2>3 DEF Accepted, A, T
<1>17. SubSeq(T, 4, Len(T)) = Pairs(n) \o <<"ANS_END">>
  <2>1. Len(T) = 4 + 2 * n /\ T[4 + 2 * n] = "ANS_END" /\ 4 \in Nat \ {0}
    BY <1>10, <1>13
  <2>2. ASSUME NEW i \in 1..2 * n PROVE T[4 - 1 + i] = Pairs(n)[i]
    <3>1. 4 - 1 + i = i + 3
      BY <1>10
    <3>2. QED
      BY <1>13, <3>1
  <2>3. QED
    BY <1>10, <1>13, <2>1, <2>2, PairsEnd, Zenon
<1>18. Announced(o, result)
  <2>1. ReadsAfter(o, <<"COUNT", "ANS_END">>, A[3]) = Pairs(n) \o <<"ANS_END">>
    BY <1>12 DEF ReadsAfter, Num
  <2>2. ReadsAfter(o, <<"RES", "ANS_END">>, A[2]) = <<"COUNT", "ANS_END">>
    <3>1. ReadsAfter(o, <<"RES", "ANS_END">>, A[2]) = <<"COUNT">> \o <<"ANS_END">>
      BY <1>9, <1>12 DEF ReadsAfter, AfterAck
    <3>2. QED
      BY <3>1, Two
  <2>3. ReadsAt(o, result, 2) = <<"COUNT", "ANS_END">>
    BY <1>6 DEF ReadsAt
  <2>4. Len(T) = Len(A)
    BY <1>12, <1>13
  <2>5. QED
    BY <1>6, <1>8, <1>13, <1>17, <2>1, <2>2, <2>3, <2>4, Zenon DEF Announced, A, T
<1>19. Retold(o, result)
  <2>1. ASSUME NEW r \in 0..Len(A) - 2
        PROVE  ToldAt(o, result, r + 1) =
                 IF Tells(T[r + 1], A[r + 1]) THEN Append(ToldAt(o, result, r), A[r + 1])
                                              ELSE ToldAt(o, result, r)
    <3>1. r + 1 \in 1..2 * n + 4 /\ r + 1 # 2 * n + 4 /\ r \in Nat
      BY <1>10, <1>12, SMTT(30)
    <3>2. CASE r = 0
      <4>1. ~Tells(T[1], A[1])
        BY <1>0, <1>13, FirstReadsAre DEF Tells
      <4>2. 0 + 1 = 1 /\ 0 < 2 /\ 1 < 2
        OBVIOUS
      <4>3. QED
        BY <1>7, <3>2, <4>1, <4>2
    <3>3. CASE r = 1
      <4>1. Tells(T[2], A[2])
        BY <1>9, <1>12, <1>13 DEF Tells
      <4>2. SubSeq(A, 4, 2) = <<>>
        BY SubSeqEmpty
      <4>3. ToldAt(o, result, 1) = <<>> /\ ToldAt(o, result, 2) = <<ack>> \o <<>>
        BY <1>7, <4>2
      <4>4. <<ack>> \o <<>> = <<ack>> /\ Append(<<>>, ack) = <<ack>>
        BY <<ack>> \in Seq({ack}), ConcatEmptySeq
      <4>5. ToldAt(o, result, 2) = Append(ToldAt(o, result, 1), A[2])
        BY <1>12, <4>3, <4>4
      <4>6. 1 + 1 = 2
        OBVIOUS
      <4>7. QED
        BY <3>3, <4>1, <4>5, <4>6
    <3>4. CASE r >= 2
      <4>1. /\ ToldAt(o, result, r) = <<ack>> \o SubSeq(A, 4, r)
            /\ ToldAt(o, result, r + 1) = <<ack>> \o SubSeq(A, 4, r + 1)
        <5>1. ~(r < 2) /\ ~(r + 1 < 2)
          BY <3>1, <3>4
        <5>2. QED
          BY <1>7, <5>1, Zenon
      <4>2. Tells(T[r + 1], A[r + 1]) <=> r + 1 >= 4
        <5>1. CASE r + 1 = 3
          BY <1>13, <5>1 DEF Tells
        <5>2. ASSUME NEW k \in 1..2 * n, r + 1 = k + 3
              PROVE  Tells(T[r + 1], A[r + 1]) <=> r + 1 >= 4
          <6>1. T[r + 1] \in {"PAR_NUM", "PAR_STRING"}
            BY <1>13, <1>15, <5>2
          <6>2. r + 1 >= 4
            BY <1>10, <5>2
          <6>3. QED
            BY <6>1, <6>2 DEF Tells
        <5>3. QED
          BY <1>14, <3>1, <3>4, <5>1, <5>2
      <4>3. /\ r + 1 >= 4 => SubSeq(A, 4, r + 1) = Append(SubSeq(A, 4, r), A[r + 1])
            /\ r + 1 < 4 => SubSeq(A, 4, r + 1) = SubSeq(A, 4, r)
        <5>1. 4 \in 1..Len(A) /\ r \in 0..Len(A) - 1
          BY <1>10, <1>12
        <5>2. QED
          BY <1>12, <5>1, Grows
      <4>4. <<ack>> \o Append(SubSeq(A, 4, r), A[r + 1])
              = Append(<<ack>> \o SubSeq(A, 4, r), A[r + 1])
        <5> DEFINE s == SubSeq(A, 4, r)
        <5>1. s \in Seq(Tokens) /\ A[r + 1] \in Tokens /\ <<ack>> \in Seq(Tokens)
          BY <1>9, <1>10, <1>12, <3>1, SubSeqProperties
        <5> HIDE DEF s
        <5>2. <<ack>> \o Append(s, A[r + 1]) = Append(<<ack>> \o s, A[r + 1])
          BY <5>1
        <5>3. QED
          BY <5>2 DEF s
      <4>5. r + 1 >= 4 \/ r + 1 < 4
        BY <3>1
      <4>6. QED
        BY <4>1, <4>2, <4>3, <4>4, <4>5
    <3>5. QED
      BY <3>1, <3>2, <3>3, <3>4
  <2>2. ToldAt(o, result, 0) = <<>>
    BY <1>7
  <2>3. QED
    BY <2>1, <2>2 DEF Retold, A, T
<1>20. /\ Head(ToldAt(o, result, Len(A) - 1)) = ack
       /\ PairsOf(Tail(ToldAt(o, result, Len(A) - 1))) = result[1]
  <2> DEFINE seq == SubSeq(A, 4, 2 * n + 3)
             whole == <<ack>> \o seq
  <2>1. ToldAt(o, result, Len(A) - 1) = whole
    <3>1. Len(A) - 1 = 2 * n + 3 /\ ~(2 * n + 3 < 2)
      BY <1>10, <1>12
    <3>2. QED
      BY <1>7, <3>1
  <2>2. /\ seq \in Seq(Tokens) /\ Len(seq) = 2 * n
        /\ \A i \in 1..2 * n : seq[i] = A[4 + i - 1]
    <3>1. /\ 4 \in 1..Len(A) + 1 /\ 2 * n + 3 \in 4 - 1..Len(A)
          /\ (2 * n + 3) - 4 + 1 = 2 * n /\ A \in Seq(Tokens)
      BY <1>10, <1>12
    <3>2. /\ seq \in Seq(Tokens) /\ Len(seq) = (2 * n + 3) - 4 + 1
          /\ \A i \in 1..(2 * n + 3) - 4 + 1 : seq[i] = A[4 + i - 1]
      BY <3>1, SubSeqProperties
    <3>3. QED
      BY <3>1, <3>2
  <2> HIDE DEF seq
  <2>3. ASSUME NEW i \in 1..2 * n PROVE seq[i] = M[i + 1]
    <3>1. 4 + i - 1 = i + 3
      BY <1>10
    <3>2. QED
      BY <1>12, <2>2, <3>1
  <2>4. PairsOf(seq) = result[1]
    BY <1>0, <1>1, <2>2, <2>3, ListTold DEF M
  <2>5. Head(whole) = ack /\ Tail(whole) = seq
    <3>1. /\ whole \in Seq(Tokens) /\ Len(whole) = Len(seq) + 1 /\ whole[1] = ack
          /\ \A i \in 1..Len(seq) : whole[i + 1] = seq[i]
      BY <1>9, <2>2, Prefixed
    <3> HIDE DEF whole
    <3> DEFINE rest == Tail(whole)
    <3>2. /\ rest \in Seq(Tokens) /\ Len(rest) = Len(seq)
          /\ \A i \in 1..Len(seq) : rest[i] = seq[i]
      BY <2>2, <3>1
    <3> HIDE DEF rest
    <3>3. rest = seq
      BY <2>2, <3>2, SeqEqual
    <3>4. whole # <<>>
      BY <2>2, <3>1
    <3>5. QED
      BY <3>1, <3>3, <3>4 DEF rest
  <2>6. QED
    BY <2>1, <2>4, <2>5
<1>21. QED
  BY <1>16, <1>18, <1>19, <1>20 DEF Script, A, ack

-----------------------------------------------------------------------------
(* What holds of every answer.                                             *)

LEMMA AnswerScript ==
  ASSUME NEW a \in AllCalls, NEW result, IsResult(a[1], result)
  PROVE  /\ Script(a[1], result)
         /\ ToldTruly(a, result, ToldAt(a[1], result, Len(Full(a[1], result)) - 1))
<1> DEFINE o == a[1]
           seq == ToldAt(a[1], result, Len(Full(a[1], result)) - 1)
<1>0. o \in Operations
  BY CallShapes
<1> HIDE DEF seq
<1>1. CASE o = "list_news_groups"
  <2>1. Script(o, result) /\ PairsOf(seq) = result
    BY <1>1, ListScript DEF seq
  <2>2. QED
    BY <1>1, <2>1 DEF ToldTruly, seq
<1>2. CASE o # "list_news_groups" /\ ~Succeeds(o, result)
  <2>1. Script(o, result) /\ seq = <<<<Reason(o, result)>>>>
    BY <1>0, <1>2, RefusalScript DEF seq
  <2>2. ToldTruly(a, result, seq)
    <3>1. CASE o \in {"create_news_group", "delete_news_group", "create_article"}
      <4>1. result = FALSE /\ Reason(o, result) = Refusal[o]
        BY <1>2, <3>1 DEF IsResult, Succeeds, Reason
      <4>2. QED
        BY <2>1, <3>1, <4>1 DEF ToldTruly
    <3>2. CASE o = "list_articles"
      <4>1. result[2] = FALSE /\ Reason(o, result) = Refusal[o]
        BY <1>2, <3>2 DEF IsResult, Succeeds, Reason
      <4>2. QED
        BY <2>1, <3>2, <4>1 DEF ToldTruly
    <3>3. CASE o = "delete_article"
      BY <1>2, <2>1, <3>3 DEF ToldTruly, Succeeds, Reason
    <3>4. CASE o = "get_article"
      BY <1>2, <2>1, <3>4 DEF ToldTruly, Succeeds, Reason
    <3>5. QED
      BY <1>0, <1>2, <3>1, <3>2, <3>3, <3>4 DEF Operations
  <2>3. QED
    BY <2>1, <2>2 DEF seq
<1>3. CASE o # "list_news_groups" /\ Succeeds(o, result)
  <2>1. CASE o \in {"create_news_group", "delete_news_group", "create_article", "delete_article"}
    <3>1. Script(o, result) /\ seq = <<<<"ANS_ACK">>>>
      BY <1>3, <2>1, AckScript DEF seq
    <3>2. CASE o = "delete_article"
      <4>1. result = "OK"
        BY <1>3, <3>2 DEF Succeeds
      <4>2. QED
        BY <3>1, <3>2, <4>1 DEF ToldTruly, seq
    <3>3. CASE o # "delete_article"
      <4>1. result = TRUE
        BY <1>3, <2>1, <3>3 DEF Succeeds
      <4>2. QED
        BY <2>1, <3>1, <3>3, <4>1 DEF ToldTruly, seq
    <3>4. QED
      BY <3>2, <3>3
  <2>2. CASE o = "list_articles"
    <3>1. Script(o, result) /\ Head(seq) = <<"ANS_ACK">> /\ PairsOf(Tail(seq)) = result[1]
      BY <1>3, <2>2, ArticleListScript DEF seq
    <3>2. result[2] = TRUE
      BY <1>3, <2>2 DEF Succeeds
    <3>3. QED
      BY <2>2, <3>1, <3>2 DEF ToldTruly, seq
  <2>3. CASE o = "get_article"
    <3>1. Script(o, result) /\ seq = Ack \o Strings(result[2])
      BY <1>3, <2>3, ArticleScript DEF seq
    <3>2. result[1] = "OK"
      BY <1>3, <2>3 DEF Succeeds
    <3>3. QED
      BY <2>3, <3>1, <3>2 DEF ToldTruly, seq
  <2>4. QED
    BY <1>0, <1>3, <2>1, <2>2, <2>3 DEF Operations
<1>4. QED
  BY <1>1, <1>2, <1>3

(* The next token is what the client waits for, and after it waits for     *)
(* what comes next.                                                        *)
LEMMA ReadsGoOn ==
  ASSUME NEW o \in Operations, NEW result, Script(o, result),
         NEW r \in 0..Len(Full(o, result)) - 1
  PROVE  /\ ReadsAt(o, result, r) # <<>>
         /\ Head(ReadsAt(o, result, r)) = Kinds(o, result)[r + 1]
         /\ Acceptable(Head(ReadsAt(o, result, r)), Full(o, result)[r + 1])
         /\ ReadsAfter(o, ReadsAt(o, result, r), Full(o, result)[r + 1])
              = ReadsAt(o, result, r + 1)
<1> DEFINE A == Full(o, result)
           T == Kinds(o, result)
           L == Len(A)
           R(k) == ReadsAt(o, result, k)
           S == Settled(o, result)
<1>1. /\ A \in Seq(Tokens) /\ T \in Seq(ReadKinds) /\ Len(T) = L /\ S < L
      /\ A[1] = <<Ans[o]>> /\ T[1] = Ans[o]
      /\ \A i \in 1..L : Acceptable(T[i], A[i])
      /\ \A i \in S + 1..L : T[i] \notin {"COUNT", "RES"}
  BY DEF Script, Accepted
<1>2. /\ FirstReads(o) = <<Ans[o], T[2], "ANS_END">>
      /\ ReadsAfter(o, <<T[2], "ANS_END">>, A[2]) = R(2)
      /\ S = 3 => /\ T[3] = "COUNT"
                 /\ ReadsAfter(o, <<"COUNT", "ANS_END">>, A[3]) = SubSeq(T, 4, L)
  BY DEF Script, Announced
<1>3. S \in {2, 3} /\ L \in Nat
  BY <1>1 DEF Settled
<1>4. /\ R(0) = FirstReads(o) /\ R(1) = Tail(FirstReads(o))
      /\ \A k \in 2..L : k < S => R(k) = <<"COUNT", "ANS_END">>
      /\ \A k \in 2..L : k >= S => R(k) = SubSeq(T, k + 1, L)
  BY <1>1, <1>3 DEF ReadsAt
<1> HIDE DEF A, T, R, S
<1>5. /\ R(r) # <<>> /\ Head(R(r)) = T[r + 1]
      /\ ReadsAfter(o, R(r), A[r + 1]) = R(r + 1)
  <2>1. CASE r = 0
    <3>1. FirstReads(o) # <<>> /\ Head(FirstReads(o)) = T[1] /\ T[1] \notin {"COUNT", "RES"}
      BY <1>1, <1>2, FirstReadsAre
    <3>2. ReadsAfter(o, FirstReads(o), A[1]) = Tail(FirstReads(o))
      BY <3>1 DEF ReadsAfter
    <3>3. 0 + 1 = 1
      OBVIOUS
    <3>4. QED
      BY <1>4, <2>1, <3>1, <3>2, <3>3
  <2>2. CASE r = 1
    <3>1. R(1) = <<T[2], "ANS_END">>
      BY <1>2, <1>4
    <3>2. 1 + 1 = 2
      OBVIOUS
    <3>3. R(1) # <<>> /\ Head(R(1)) = T[2]
      BY <3>1
    <3>4. QED
      BY <1>2, <2>2, <3>1, <3>2, <3>3
  <2>3. CASE r >= 2 /\ r < S
    <3>1. r = 2 /\ S = 3 /\ 2 + 1 = 3
      BY <1>3, <2>3
    <3>2. R(2) = <<"COUNT", "ANS_END">> /\ R(3) = SubSeq(T, 4, L)
      BY <1>1, <1>3, <1>4, <3>1
    <3>3. R(2) # <<>> /\ Head(R(2)) = "COUNT"
      BY <3>2
    <3>4. QED
      BY <1>2, <3>1, <3>2, <3>3
  <2>4. CASE r >= S
    <3>1. /\ r \in 2..L /\ r + 1 \in 2..L /\ r >= S /\ r + 1 >= S /\ r + 1 \in S + 1..L
          /\ r + 1 \in 1..L /\ (r + 1) + 1 = r + 2
      BY <1>3, <2>4 DEF A
    <3>2. R(r) = SubSeq(T, r + 1, L) /\ R(r + 1) = SubSeq(T, r + 2, L)
      BY <1>4, <3>1
    <3> DEFINE u == SubSeq(T, r + 1, L)
               v == SubSeq(T, r + 2, L)
    <3>3. /\ u \in Seq(ReadKinds) /\ Len(u) = L - r
          /\ \A i \in 1..L - r : u[i] = T[r + i]
      BY <1>1, <1>3, <3>1, SubSeqProperties
    <3>4. /\ v \in Seq(ReadKinds) /\ Len(v) = L - r - 1
          /\ \A i \in 1..L - r - 1 : v[i] = T[r + 1 + i]
      BY <1>1, <1>3, <3>1, SubSeqProperties
    <3> HIDE DEF u, v
    <3>5. u # <<>> /\ Head(u) = T[r + 1]
      BY <1>3, <3>1, <3>3
    <3> DEFINE w == Tail(u)
    <3>6. /\ w \in Seq(ReadKinds) /\ Len(w) = L - r - 1
          /\ \A i \in 1..L - r - 1 : w[i] = u[i + 1]
      BY <1>3, <3>1, <3>3, <3>5
    <3> HIDE DEF w
    <3>7. \A i \in 1..Len(w) : w[i] = v[i]
      BY <1>3, <3>1, <3>3, <3>4, <3>6
    <3>8. w = v
      BY <3>4, <3>6, <3>7, SeqEqual
    <3>9. ReadsAfter(o, u, A[r + 1]) = w
      BY <1>1, <3>1, <3>5 DEF ReadsAfter, w
    <3>10. QED
      BY <3>2, <3>5, <3>8, <3>9 DEF u, v
  <2>5. r = 0 \/ r = 1 \/ r >= 2
    BY DEF A
  <2>6. QED
    BY <1>3, <2>1, <2>2, <2>3, <2>4, <2>5
<1>6. r + 1 \in 1..L
  BY <1>3 DEF A
<1>7. QED
  BY <1>1, <1>5, <1>6 DEF A, T, R

LEMMA ReadsEnd ==
  ASSUME NEW o \in Operations, NEW result, Script(o, result)
  PROVE  ReadsAt(o, result, Len(Full(o, result))) = <<>>
<1> DEFINE T == Kinds(o, result)
           L == Len(T)
<1>1. T \in Seq(ReadKinds) /\ Settled(o, result) \in {2, 3} /\ Settled(o, result) < L
      /\ L = Len(Full(o, result))
  BY DEF Script, Accepted, Settled
<1>2. L \in Nat /\ L # 0 /\ L # 1 /\ ~(L < Settled(o, result)) /\ L + 1 > L
  <2> DEFINE S == Settled(o, result)
  <2>1. L \in Nat /\ S \in {2, 3} /\ S < L
    BY <1>1
  <2> HIDE DEF L, S
  <2>2. L # 0 /\ L # 1 /\ ~(L < S) /\ L + 1 > L
    BY <2>1
  <2>3. QED
    BY <2>1, <2>2 DEF S
<1>3. ReadsAt(o, result, L) = SubSeq(T, L + 1, L)
  BY <1>2 DEF ReadsAt
<1>4. SubSeq(T, L + 1, L) = <<>>
  BY <1>2, SubSeqEmpty
<1>5. QED
  BY <1>1, <1>3, <1>4

=============================================================================
