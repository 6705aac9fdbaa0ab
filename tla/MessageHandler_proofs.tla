------------------------ MODULE MessageHandler_proofs ------------------------
(***************************************************************************)
(* What MessageHandler promises for every int, every string and every      *)
(* sequence of tokens, however large or small the buffers of the           *)
(* connection are: the bytes implement the tokens of module Sockets.       *)
(***************************************************************************)
EXTENDS MessageHandler, SequenceTheorems, TLAPS

(* write takes an unsigned char: nothing else reaches the wire. *)
LEMMA BytesAreBytes ==
  ASSUME NEW i \in Int
  PROVE  ToByte(i) \in Byte
BY SMT DEF ToByte, Byte

(* A char that is written is the char that is read. *)
THEOREM CharsSurvive ==
  ASSUME NEW c \in SignedChar
  PROVE  ToChar(ToByte(c)) = c
BY SMT DEF ToChar, ToByte, SignedChar

(* Shifting by eight bits and masking takes a number apart into what is    *)
(* above the last byte and the last byte.                                  *)
LEMMA LastByte ==
  ASSUME NEW i \in Int
  PROVE  i = (i \div 256) * 256 + ToByte(i)
BY SMT DEF ToByte

(* Shifts add up. *)
LEMMA Shifts ==
  ASSUME NEW i \in Int
  PROVE  /\ (i \div 256) \div 256 = i \div 65536
         /\ (i \div 65536) \div 256 = i \div 16777216
BY SMTT(30)

(* What is left of a 32-bit int after 24 bits is its signed high byte. *)
LEMMA HighByte ==
  ASSUME NEW v \in Int32
  PROVE  v \div 16777216 \in SignedChar
BY SMT DEF Int32, SignedChar

(* Every int, negative ones included, is received as it was sent: each     *)
(* side's shifts undo those of the other.                                  *)
THEOREM IntsSurvive ==
  ASSUME NEW v \in Int32
  PROVE  recv_int(send_int(v)) = v
<1> DEFINE h == v \div 16777216
           m == v \div 65536
           l == v \div 256
<1>1. v \in Int /\ h \in Int /\ m \in Int /\ l \in Int
  BY SMT DEF Int32
<1>2. ToChar(ToByte(h)) = h
  BY HighByte, CharsSurvive
<1>3. m = h * 256 + ToByte(m)
  BY <1>1, LastByte, Shifts, SMT
<1>4. l = m * 256 + ToByte(l)
  BY <1>1, LastByte, Shifts, SMT
<1>5. v = l * 256 + ToByte(v)
  BY <1>1, LastByte, SMT
<1>6. recv_int(send_int(v))
        = ToChar(ToByte(h)) * 16777216 + ToByte(m) * 65536 + ToByte(l) * 256 + ToByte(v)
  BY SMT DEF recv_int, send_int
<1>7. ToByte(m) \in Int /\ ToByte(l) \in Int /\ ToByte(v) \in Int
  BY <1>1, BytesAreBytes DEF Byte
<1> HIDE DEF h, m, l
<1>8. QED
  BY <1>1, <1>2, <1>3, <1>4, <1>5, <1>6, <1>7, SMT

-----------------------------------------------------------------------------
(* What the bytes of a token are. *)

(* send_int makes four bytes of any int.                                   *)
LEMMA IntBytes ==
  ASSUME NEW v \in Int
  PROVE  /\ send_int(v) \in Seq(Byte) /\ Len(send_int(v)) = 4
<1>1. v \div 16777216 \in Int /\ v \div 65536 \in Int /\ v \div 256 \in Int
  BY SMT
<1>2. /\ ToByte(v \div 16777216) \in Byte /\ ToByte(v \div 65536) \in Byte
      /\ ToByte(v \div 256) \in Byte /\ ToByte(v) \in Byte
  BY <1>1, BytesAreBytes
<1> DEFINE a == ToByte(v \div 16777216)
           b == ToByte(v \div 65536)
           c == ToByte(v \div 256)
           d == ToByte(v)
<1>3. send_int(v) = <<a, b, c, d>>
  BY DEF send_int
<1> HIDE DEF a, b, c, d
<1>4. <<a, b, c, d>> \in Seq(Byte) /\ Len(<<a, b, c, d>>) = 4
  BY <1>2 DEF a, b, c, d
<1>5. QED
  BY <1>3, <1>4

(* Bytes that follow bytes. *)
LEMMA Joined ==
  ASSUME NEW a \in Seq(Byte), NEW b \in Seq(Byte)
  PROVE  /\ Len(a) \in Nat /\ Len(b) \in Nat
         /\ a \o b \in Seq(Byte) /\ Len(a \o b) = Len(a) + Len(b)
         /\ \A i \in 1..Len(a) : (a \o b)[i] = a[i]
         /\ \A i \in 1..Len(b) : (a \o b)[i + Len(a)] = b[i]
<1>1. Len(a) \in Nat /\ Len(b) \in Nat
  OBVIOUS
<1> DEFINE ab == a \o b
<1>2. /\ ab \in Seq(Byte) /\ Len(ab) = Len(a) + Len(b)
      /\ \A i \in 1..Len(a) + Len(b) : ab[i] = IF i <= Len(a) THEN a[i] ELSE b[i - Len(a)]
  BY ConcatProperties
<1> HIDE DEF ab
<1>3. ASSUME NEW i \in 1..Len(a) PROVE ab[i] = a[i]
  BY <1>1, <1>2
<1>4. ASSUME NEW i \in 1..Len(b) PROVE ab[i + Len(a)] = b[i]
  <2>1. i + Len(a) \in 1..Len(a) + Len(b) /\ ~(i + Len(a) <= Len(a)) /\ (i + Len(a)) - Len(a) = i
    BY <1>1
  <2>2. QED
    BY <1>2, <2>1
<1>5. QED
  BY <1>1, <1>2, <1>3, <1>4 DEF ab

(* A char is an int.                                                       *)
LEMMA CharsAreInts == \A c \in SignedChar : c \in Int
BY SMT DEF SignedChar

(* A code is one byte. *)
LEMMA CodeBytes ==
  ASSUME NEW token \in Tokens, token[1] = "code"
  PROVE  /\ token[2] \in Byte /\ token = <<"code", token[2]>>
         /\ Bytes(token) = <<token[2]>>
<1>1. token[2] \in Byte /\ token = <<"code", token[2]>>
  BY TokensAssumption DEF Tokens
<1>2. ToByte(token[2]) = token[2]
  BY <1>1, SMT DEF Byte, ToByte
<1>3. QED
  BY <1>1, <1>2 DEF Bytes

(* A number is its mark and four bytes. *)
LEMMA NumberBytes ==
  ASSUME NEW token \in Tokens, token[1] = "PAR_NUM"
  PROVE  /\ token[2] \in Int32 /\ token = <<"PAR_NUM", token[2]>>
         /\ Bytes(token) \in Seq(Byte) /\ Len(Bytes(token)) = 5
         /\ Bytes(token)[1] = PAR_NUM
         /\ \A i \in 1..4 : Bytes(token)[i + 1] = send_int(token[2])[i]
<1> DEFINE v == token[2]
           b == send_int(v)
<1>1. v \in Int32 /\ v \in Int /\ token = <<"PAR_NUM", v>>
  BY TokensAssumption DEF Tokens, Int32
<1>2. b \in Seq(Byte) /\ Len(b) = 4
  BY <1>1, IntBytes
<1>3. Bytes(token) = <<PAR_NUM>> \o b
  BY <1>1 DEF Bytes
<1> DEFINE m == <<PAR_NUM>>
<1>4. m \in Seq(Byte) /\ Len(m) = 1 /\ m[1] = PAR_NUM
  BY DEF PAR_NUM, Byte
<1> HIDE DEF b, m
<1>5. /\ m \o b \in Seq(Byte) /\ Len(m \o b) = 5
      /\ (m \o b)[1] = m[1]
      /\ \A i \in 1..4 : (m \o b)[i + 1] = b[i]
  <2>1. /\ m \o b \in Seq(Byte) /\ Len(m \o b) = Len(m) + Len(b)
        /\ \A i \in 1..Len(m) : (m \o b)[i] = m[i]
        /\ \A i \in 1..Len(b) : (m \o b)[i + Len(m)] = b[i]
    BY <1>2, <1>4, Joined
  <2>2. QED
    BY <1>2, <1>4, <2>1
<1>6. QED
  BY <1>1, <1>3, <1>4, <1>5 DEF b, m

(* A string is its mark, its length and its characters. *)
LEMMA StringBytes ==
  ASSUME NEW token \in Tokens, token[1] = "PAR_STRING"
  PROVE  /\ token[2] \in Seq(SignedChar) /\ token = <<"PAR_STRING", token[2]>>
         /\ Len(token[2]) \in Int32 /\ Len(token[2]) >= 0
         /\ Bytes(token) \in Seq(Byte) /\ Len(Bytes(token)) = 5 + Len(token[2])
         /\ Bytes(token)[1] = PAR_STRING
         /\ \A i \in 1..4 : Bytes(token)[i + 1] = send_int(Len(token[2]))[i]
         /\ \A i \in 1..Len(token[2]) : Bytes(token)[i + 5] = ToByte(token[2][i])
<1> DEFINE v == token[2]
           b == send_int(Len(v))
           c == [i \in DOMAIN v |-> ToByte(v[i])]
           m == <<PAR_STRING>>
<1>1. v \in Seq(SignedChar) /\ Len(v) \in Int32 /\ token = <<"PAR_STRING", v>>
  BY TokensAssumption DEF Tokens
<1>2. Len(v) \in Nat /\ DOMAIN v = 1..Len(v) /\ \A i \in 1..Len(v) : v[i] \in SignedChar
  BY <1>1
<1>3. b \in Seq(Byte) /\ Len(b) = 4
  BY <1>2, IntBytes
<1>4. ASSUME NEW i \in 1..Len(v) PROVE ToByte(v[i]) \in Byte
  <2>1. v[i] \in Int
    BY <1>2, CharsAreInts
  <2>2. QED
    BY <2>1, BytesAreBytes
<1>5. c \in Seq(Byte) /\ Len(c) = Len(v) /\ \A i \in 1..Len(v) : c[i] = ToByte(v[i])
  BY <1>2, <1>4
<1>6. m \in Seq(Byte) /\ Len(m) = 1 /\ m[1] = PAR_STRING
  BY DEF PAR_STRING, Byte
<1>7. Bytes(token) = m \o b \o c
  BY <1>1 DEF Bytes
<1> DEFINE mb == m \o b
<1> HIDE DEF b, c, m
<1>8. /\ mb \in Seq(Byte) /\ Len(mb) = 5 /\ mb[1] = m[1]
      /\ \A i \in 1..4 : mb[i + 1] = b[i]
  <2>1. /\ mb \in Seq(Byte) /\ Len(mb) = Len(m) + Len(b)
        /\ \A i \in 1..Len(m) : mb[i] = m[i]
        /\ \A i \in 1..Len(b) : mb[i + Len(m)] = b[i]
    BY <1>3, <1>6, Joined
  <2> HIDE DEF mb
  <2>2. QED
    BY <1>3, <1>6, <2>1
<1> HIDE DEF mb, v
<1> DEFINE all == mb \o c
<1>9. /\ all \in Seq(Byte) /\ Len(all) = 5 + Len(v) /\ Len(v) \in Nat
      /\ \A i \in 1..5 : all[i] = mb[i]
      /\ \A i \in 1..Len(v) : all[i + 5] = c[i]
  <2>1. /\ all \in Seq(Byte) /\ Len(all) = Len(mb) + Len(c) /\ Len(c) \in Nat
        /\ \A i \in 1..Len(mb) : all[i] = mb[i]
        /\ \A i \in 1..Len(c) : all[i + Len(mb)] = c[i]
    BY <1>5, <1>8, Joined
  <2> HIDE DEF all
  <2>2. QED
    BY <1>5, <1>8, <2>1
<1> HIDE DEF all
<1>10. all[1] = PAR_STRING /\ \A i \in 1..4 : all[i + 1] = b[i]
  BY <1>6, <1>8, <1>9
<1>11. \A i \in 1..Len(v) : all[i + 5] = ToByte(v[i])
  BY <1>5, <1>9
<1>12. Bytes(token) = all
  BY <1>7 DEF mb, all
<1>13. token = <<"PAR_STRING", token[2]>>
  BY <1>1 DEF v
<1>14. Len(v) >= 0
  BY <1>2
<1>15. QED
  BY <1>1, <1>9, <1>10, <1>11, <1>12, <1>13, <1>14 DEF b, v

-----------------------------------------------------------------------------
(* What a recv_ function makes of them. *)

(* Four bytes behind the mark are the int that was sent.                   *)
LEMMA NumberOf ==
  ASSUME NEW b \in Seq(Byte), Len(b) >= 5, NEW v \in Int32,
         \A i \in 1..4 : b[i + 1] = send_int(v)[i]
  PROVE  Number(b) = v
<1> DEFINE q == SubSeq(b, 2, 5)
           w == send_int(v)
<1>1. \A i \in 2..5 : b[i] \in Byte
  OBVIOUS
<1>2. \A i \in 1..4 : q[i] = b[2 + i - 1]
  BY <1>1, SubSeqProperties
<1> HIDE DEF q, w
<1>3. b[2] = w[1] /\ b[3] = w[2] /\ b[4] = w[3] /\ b[5] = w[4]
  BY DEF w
<1>4. q[1] = b[2] /\ q[2] = b[3] /\ q[3] = b[4] /\ q[4] = b[5]
  BY <1>2
<1>5. recv_int(q) = recv_int(w)
  BY <1>3, <1>4 DEF recv_int
<1>6. QED
  BY <1>5, IntsSurvive DEF Number, q, w

(* A recv_ function of the right kind goes on until it has all bytes of    *)
(* the token, and then returns it.                                         *)
LEMMA ReadsToken ==
  ASSUME NEW token \in Tokens, NEW b \in Seq(Byte), Len(b) >= 1, Len(b) <= Len(Bytes(token)),
         \A i \in 1..Len(b) : b[i] = Bytes(token)[i]
  PROVE  /\ ~Throws(token[1], b)
         /\ Returns(token[1], b) <=> Len(b) = Len(Bytes(token))
         /\ Len(b) = Len(Bytes(token)) => Result(token[1], b) = token
<1>0. Len(b) \in Nat /\ token[1] \in Kinds
  BY DEF Tokens, Kinds
<1>1. CASE token[1] = "code"
  <2>1. Len(b) = 1 /\ b[1] = token[2] /\ Len(Bytes(token)) = 1
    BY <1>0, <1>1, CodeBytes
  <2>2. token = <<"code", b[1]>>
    BY <1>1, <2>1, CodeBytes
  <2>3. QED
    BY <1>1, <2>1, <2>2 DEF Throws, Returns, Result
<1>2. CASE token[1] = "PAR_NUM"
  <2>1. b[1] = PAR_NUM /\ Len(Bytes(token)) = 5
    BY <1>0, <1>2, NumberBytes
  <2>2. ASSUME Len(b) = 5
        PROVE  Number(b) = token[2]
    <3>1. \A i \in 1..4 : b[i + 1] = send_int(token[2])[i]
      BY <1>2, <2>2, NumberBytes
    <3>2. QED
      BY <1>2, <2>2, <3>1, NumberBytes, NumberOf
  <2>3. token = <<"PAR_NUM", token[2]>>
    BY <1>2, NumberBytes
  <2>4. QED
    BY <1>2, <2>1, <2>2, <2>3 DEF Throws, Returns, Result
<1>3. CASE token[1] = "PAR_STRING"
  <2> DEFINE v == token[2]
  <2>1. /\ b[1] = PAR_STRING /\ Len(Bytes(token)) = 5 + Len(v)
        /\ v \in Seq(SignedChar) /\ Len(v) \in Int32 /\ Len(v) \in Nat
        /\ token = <<"PAR_STRING", v>>
    BY <1>0, <1>3, StringBytes
  <2>2. ASSUME Len(b) >= 5
        PROVE  Number(b) = Len(v)
    <3>1. \A i \in 1..4 : b[i + 1] = send_int(Len(v))[i]
      <4>1. ASSUME NEW i \in 1..4 PROVE b[i + 1] = send_int(Len(v))[i]
        <5>1. i + 1 \in 1..Len(b)
          BY <1>0, <2>2
        <5>2. QED
          BY <1>3, <5>1, StringBytes
      <4>2. QED
        BY <4>1
    <3>2. QED
      BY <2>1, <2>2, <3>1, NumberOf
  <2>3. ASSUME Len(b) = 5 + Len(v)
        PROVE  [i \in 1..Len(b) - 5 |-> ToChar(b[i + 5])] = v
    <3> DEFINE c == [i \in 1..Len(b) - 5 |-> ToChar(b[i + 5])]
    <3>1. Len(b) - 5 = Len(v)
      BY <1>0, <2>1, <2>3
    <3>2. ASSUME NEW i \in 1..Len(v) PROVE ToChar(b[i + 5]) = v[i]
      <4>1. i + 5 \in 1..Len(b)
        BY <1>0, <2>1, <2>3
      <4>2. b[i + 5] = ToByte(v[i])
        BY <1>3, <4>1, StringBytes
      <4>3. v[i] \in SignedChar
        BY <2>1
      <4>4. QED
        BY <4>2, <4>3, CharsSurvive
    <3>3. v = [i \in 1..Len(v) |-> v[i]]
      BY <2>1
    <3>4. QED
      BY <3>1, <3>2, <3>3
  <2>4. ~Throws("PAR_STRING", b)
    <3>1. Len(b) = 5 => ~(Number(b) < 0)
      BY <2>1, <2>2
    <3>2. QED
      BY <2>1, <3>1 DEF Throws
  <2>5. Returns("PAR_STRING", b) <=> Len(b) = 5 + Len(v)
    BY <1>0, <2>1, <2>2 DEF Returns
  <2>6. Len(b) = 5 + Len(v) => Result("PAR_STRING", b) = token
    BY <2>1, <2>3 DEF Result
  <2>7. QED
    BY <1>3, <2>1, <2>4, <2>5, <2>6
<1>4. QED
  BY <1>0, <1>1, <1>2, <1>3 DEF Kinds

(* One of the wrong kind throws at the first byte. *)
LEMMA WrongKindThrows ==
  ASSUME NEW token \in Tokens, NEW kind \in Kinds, kind # token[1],
         kind = "code" <=> token[1] = "code", NEW b, b[1] = Bytes(token)[1]
  PROVE  Throws(kind, b)
<1>1. CASE token[1] = "PAR_NUM"
  BY <1>1, NumberBytes DEF Throws, Kinds, PAR_NUM, PAR_STRING
<1>2. CASE token[1] = "PAR_STRING"
  BY <1>2, StringBytes DEF Throws, Kinds, PAR_NUM, PAR_STRING
<1>3. QED
  BY <1>1, <1>2 DEF Kinds, Tokens

-----------------------------------------------------------------------------
(* The bytes of a stream belong to the tokens that are on their way: cut   *)
(* says where each of them ends.                                           *)

IsCut(tokens, r, bytes, cut) ==
  LET n == Len(tokens)
  IN  /\ cut \in [r..n -> Nat]
      /\ cut[r] = 0 /\ cut[n] = Len(bytes)
      /\ \A i, j \in r..n : i <= j => cut[i] <= cut[j]
      /\ \A i \in r + 1..n :
           /\ cut[i] = cut[i - 1] + Len(Bytes(tokens[i]))
           /\ \A k \in 1..Len(Bytes(tokens[i])) : bytes[cut[i - 1] + k] = Bytes(tokens[i])[k]

Carries(bytes, tokens, r) == \E cut : IsCut(tokens, r, bytes, cut)

(* Every token has bytes, and its bytes fit on the wire. *)
LEMMA TokenBytes ==
  ASSUME NEW token \in Tokens
  PROVE  /\ token[1] \in Kinds
         /\ Bytes(token) \in Seq(Byte) /\ Len(Bytes(token)) \in Nat /\ Len(Bytes(token)) >= 1
<1>1. CASE token[1] = "code"
  BY <1>1, CodeBytes DEF Kinds
<1>2. CASE token[1] = "PAR_NUM"
  BY <1>2, NumberBytes DEF Kinds
<1>3. CASE token[1] = "PAR_STRING"
  BY <1>3, StringBytes DEF Kinds
<1>4. QED
  BY <1>1, <1>2, <1>3 DEF Tokens

(* Nothing carries no token. *)
LEMMA NothingCarried == Carries(<<>>, <<>>, 0)
<1> DEFINE cut == [i \in 0..0 |-> 0]
<1>1. Len(<<>>) = 0
  OBVIOUS
<1>2. IsCut(<<>>, 0, <<>>, cut)
  BY <1>1 DEF IsCut
<1>3. QED
  BY <1>2 DEF Carries

(* A token that is sent comes behind the others. *)
LEMMA OneMoreCarried ==
  ASSUME NEW tokens \in Seq(Tokens), NEW token \in Tokens, NEW s \in Seq(Byte),
         NEW r \in Nat, r <= Len(tokens), Carries(s, tokens, r)
  PROVE  Carries(s \o Bytes(token), Append(tokens, token), r)
<1> DEFINE n == Len(tokens)
           b == Bytes(token)
           ts == Append(tokens, token)
           sb == s \o b
<1>1. PICK cut : IsCut(tokens, r, s, cut)
  BY DEF Carries
<1>2. b \in Seq(Byte) /\ Len(b) \in Nat /\ n \in Nat
  BY TokenBytes
<1>3. /\ Len(ts) = n + 1 /\ ts[n + 1] = token
      /\ \A i \in 1..n : ts[i] = tokens[i]
  BY AppendProperties
<1>4. /\ Len(s) \in Nat /\ Len(sb) = Len(s) + Len(b)
      /\ \A i \in 1..Len(s) : sb[i] = s[i]
      /\ \A i \in 1..Len(b) : sb[i + Len(s)] = b[i]
  BY <1>2, Joined
<1> HIDE DEF n, b, ts, sb
<1>5. /\ cut \in [r..n -> Nat]
      /\ cut[r] = 0 /\ cut[n] = Len(s)
      /\ \A i, j \in r..n : i <= j => cut[i] <= cut[j]
  BY <1>1 DEF IsCut, n
<1>6. ASSUME NEW i \in r + 1..n
      PROVE  /\ cut[i] = cut[i - 1] + Len(Bytes(tokens[i]))
             /\ \A k \in 1..Len(Bytes(tokens[i])) : s[cut[i - 1] + k] = Bytes(tokens[i])[k]
  BY <1>1 DEF IsCut, n
<1> DEFINE more == [i \in r..n + 1 |-> IF i = n + 1 THEN Len(sb) ELSE cut[i]]
<1>7. r \in r..n + 1 /\ n + 1 \in r..n + 1 /\ r # n + 1 /\ n \in r..n
  BY <1>2 DEF n
<1>8. ASSUME NEW i \in r..n
      PROVE  more[i] = cut[i] /\ cut[i] \in Nat /\ cut[i] <= Len(s)
  <2>1. i \in r..n + 1 /\ i # n + 1
    BY <1>2
  <2>2. QED
    BY <1>2, <1>5, <1>7, <2>1
<1>9. more[n + 1] = Len(sb)
  BY <1>7
<1>10. more \in [r..n + 1 -> Nat] /\ more[r] = 0
  BY <1>2, <1>4, <1>5, <1>7
<1>11. DOMAIN more = r..n + 1
  OBVIOUS
<1> HIDE DEF more
<1>12. ASSUME NEW i \in r..n + 1, NEW j \in r..n + 1, i <= j
       PROVE  more[i] <= more[j]
  <2>1. CASE j \in r..n
    <3>1. i \in r..n
      BY <1>12, <1>2, <2>1
    <3>2. QED
      BY <1>5, <1>8, <1>12, <2>1, <3>1
  <2>2. CASE j = n + 1 /\ i \in r..n
    BY <1>2, <1>4, <1>8, <1>9, <2>2
  <2>3. CASE i = n + 1 /\ j = n + 1
    BY <1>2, <1>4, <1>9, <2>3
  <2>4. QED
    BY <1>2, <1>12, <2>1, <2>2, <2>3
<1>13. ASSUME NEW i \in r + 1..n + 1
       PROVE  /\ more[i] = more[i - 1] + Len(Bytes(ts[i]))
              /\ \A k \in 1..Len(Bytes(ts[i])) : sb[more[i - 1] + k] = Bytes(ts[i])[k]
  <2>1. CASE i \in r + 1..n
    <3>1. i \in r..n /\ i - 1 \in r..n /\ i \in 1..n
      BY <1>2, <2>1
    <3>2. ts[i] = tokens[i] /\ more[i] = cut[i] /\ more[i - 1] = cut[i - 1] /\ cut[i] <= Len(s)
          /\ cut[i - 1] \in Nat
      BY <1>3, <1>8, <3>1
    <3>3. tokens[i] \in Tokens
      BY <3>1 DEF n
    <3>4. Len(Bytes(tokens[i])) \in Nat
      BY <3>3, TokenBytes
    <3>5. ASSUME NEW k \in 1..Len(Bytes(tokens[i]))
          PROVE  sb[cut[i - 1] + k] = Bytes(tokens[i])[k]
      <4>1. cut[i - 1] + k \in 1..Len(s)
        BY <1>4, <1>6, <2>1, <3>2, <3>4
      <4>2. QED
        BY <1>4, <1>6, <2>1, <4>1
    <3>6. QED
      BY <1>6, <2>1, <3>2, <3>5
  <2>2. CASE i = n + 1
    <3>1. i - 1 = n /\ ts[i] = token /\ more[i] = Len(sb) /\ more[i - 1] = Len(s)
      BY <1>2, <1>3, <1>5, <1>7, <1>8, <1>9, <2>2
    <3>2. ASSUME NEW k \in 1..Len(b)
          PROVE  sb[Len(s) + k] = b[k]
      <4>1. Len(s) + k = k + Len(s)
        BY <1>2, <1>4
      <4>2. QED
        BY <1>4, <4>1
    <3>3. QED
      BY <1>4, <3>1, <3>2 DEF b
  <2>3. QED
    BY <1>2, <2>1, <2>2
<1>14. IsCut(ts, r, sb, more)
  BY <1>3, <1>9, <1>10, <1>12, <1>13 DEF IsCut
<1>15. QED
  BY <1>14 DEF Carries, ts, sb, b

(* The bytes begin with those of the first of these tokens, all of them if *)
(* others were sent after it.                                              *)
BeginsWithNext(s, tokens, r) ==
  /\ r < Len(tokens) /\ tokens[r + 1] \in Tokens
  /\ Len(Bytes(tokens[r + 1])) <= Len(s)
  /\ \A k \in 1..Len(Bytes(tokens[r + 1])) : s[k] = Bytes(tokens[r + 1])[k]
  /\ r + 1 = Len(tokens) => Len(s) = Len(Bytes(tokens[r + 1]))

(* What comes next are the bytes of that token. *)
LEMMA FirstCarried ==
  ASSUME NEW tokens \in Seq(Tokens), NEW s \in Seq(Byte), Len(s) >= 1,
         NEW r \in Nat, r <= Len(tokens), Carries(s, tokens, r)
  PROVE  BeginsWithNext(s, tokens, r)
<1> DEFINE n == Len(tokens)
           b == Bytes(tokens[r + 1])
<1>1. PICK cut : IsCut(tokens, r, s, cut)
  BY DEF Carries
<1>2. n \in Nat /\ Len(s) \in Nat
  OBVIOUS
<1>3. cut[r] = 0 /\ cut[n] = Len(s)
  BY <1>1 DEF IsCut
<1>4. r < n
  BY <1>2, <1>3
<1>5. tokens[r + 1] \in Tokens
  BY <1>4
<1>6. Len(b) \in Nat
  BY <1>5, TokenBytes
<1>7. r + 1 \in r + 1..n /\ r + 1 \in r..n /\ n \in r..n /\ (r + 1) - 1 = r
  BY <1>2, <1>4
<1>8. /\ cut[r + 1] = cut[r] + Len(b)
      /\ \A k \in 1..Len(b) : s[cut[r] + k] = b[k]
  <2>1. \A i \in r + 1..n :
          /\ cut[i] = cut[i - 1] + Len(Bytes(tokens[i]))
          /\ \A k \in 1..Len(Bytes(tokens[i])) : s[cut[i - 1] + k] = Bytes(tokens[i])[k]
    BY <1>1, Zenon DEF IsCut
  <2>2. QED
    BY <1>7, <2>1, Zenon
<1>9. cut[r + 1] <= cut[n]
  <2>1. \A i, j \in r..n : i <= j => cut[i] <= cut[j]
    BY <1>1, Zenon DEF IsCut
  <2>2. r + 1 <= n
    BY <1>2, <1>4
  <2>3. QED
    BY <1>7, <2>1, <2>2
<1> HIDE DEF n, b
<1>10. cut[r + 1] = Len(b) /\ \A k \in 1..Len(b) : s[k] = b[k]
  BY <1>3, <1>6, <1>8
<1>11. r + 1 = n => Len(s) = Len(b)
  BY <1>3, <1>10
<1>12. Len(b) <= Len(s)
  BY <1>3, <1>9, <1>10
<1>13. QED
  BY <1>4, <1>5, <1>10, <1>11, <1>12 DEF BeginsWithNext, n, b

(* When they are taken, what is left carries the other tokens. *)
LEMMA RestCarried ==
  ASSUME NEW tokens \in Seq(Tokens), NEW b \in Seq(Byte), NEW s \in Seq(Byte),
         NEW r \in Nat, r < Len(tokens), Carries(b \o s, tokens, r),
         Len(b) = Len(Bytes(tokens[r + 1]))
  PROVE  Carries(s, tokens, r + 1)
<1> DEFINE n == Len(tokens)
           bs == b \o s
<1>1. PICK cut : IsCut(tokens, r, bs, cut)
  BY DEF Carries
<1>2. n \in Nat /\ tokens[r + 1] \in Tokens
  OBVIOUS
<1>3. /\ Len(b) \in Nat /\ Len(s) \in Nat /\ Len(bs) = Len(b) + Len(s)
      /\ \A i \in 1..Len(s) : bs[i + Len(b)] = s[i]
  BY Joined
<1> HIDE DEF bs, n
<1>4. /\ cut \in [r..n -> Nat]
      /\ cut[r] = 0 /\ cut[n] = Len(bs)
      /\ \A i, j \in r..n : i <= j => cut[i] <= cut[j]
  BY <1>1 DEF IsCut, n
<1>5. ASSUME NEW i \in r + 1..n
      PROVE  /\ cut[i] = cut[i - 1] + Len(Bytes(tokens[i]))
             /\ \A k \in 1..Len(Bytes(tokens[i])) : bs[cut[i - 1] + k] = Bytes(tokens[i])[k]
  BY <1>1 DEF IsCut, n
<1>6. r < n
  BY DEF n
<1>7. cut[r + 1] = Len(b)
  <2>1. r + 1 \in r + 1..n /\ (r + 1) - 1 = r
    BY <1>2, <1>6
  <2>2. cut[r + 1] = cut[r] + Len(Bytes(tokens[r + 1]))
    BY <1>5, <2>1
  <2>3. QED
    BY <1>3, <1>4, <2>2
<1> DEFINE left == [i \in r + 1..n |-> cut[i] - Len(b)]
<1>8. ASSUME NEW i \in r + 1..n
      PROVE  /\ left[i] = cut[i] - Len(b) /\ left[i] \in Nat
             /\ cut[i] \in Nat /\ i \in r..n /\ cut[i] <= Len(bs)
  <2>1. i \in r..n /\ r + 1 \in r..n /\ r + 1 <= i /\ i <= n /\ n \in r..n
    BY <1>2, <1>6
  <2>2. cut[i] \in Nat /\ cut[r + 1] <= cut[i] /\ cut[i] <= cut[n]
    BY <1>4, <2>1
  <2>3. QED
    BY <1>3, <1>4, <1>7, <2>1, <2>2
<1>9. left \in [r + 1..n -> Nat]
  BY <1>8
<1>10. r + 1 \in r + 1..n /\ n \in r + 1..n
  BY <1>2, <1>6
<1>11. left[r + 1] = 0 /\ left[n] = Len(s)
  BY <1>3, <1>4, <1>7, <1>8, <1>10
<1> HIDE DEF left
<1>12. ASSUME NEW i \in r + 1..n, NEW j \in r + 1..n, i <= j
       PROVE  left[i] <= left[j]
  <2>1. cut[i] <= cut[j]
    BY <1>4, <1>8, <1>12
  <2>2. QED
    BY <1>3, <1>8, <2>1, SMTT(30)
<1>13. ASSUME NEW i \in (r + 1) + 1..n
       PROVE  /\ left[i] = left[i - 1] + Len(Bytes(tokens[i]))
              /\ \A k \in 1..Len(Bytes(tokens[i])) : s[left[i - 1] + k] = Bytes(tokens[i])[k]
  <2>1. i \in r + 1..n /\ i - 1 \in r + 1..n /\ i \in 1..n
    BY <1>2
  <2>2. tokens[i] \in Tokens
    BY <2>1 DEF n
  <2>3. Len(Bytes(tokens[i])) \in Nat
    BY <2>2, TokenBytes
  <2>4. /\ left[i] = cut[i] - Len(b) /\ left[i - 1] = cut[i - 1] - Len(b)
        /\ left[i - 1] \in Nat /\ cut[i - 1] \in Nat /\ cut[i] <= Len(bs)
    BY <1>8, <2>1
  <2>5. cut[i] = cut[i - 1] + Len(Bytes(tokens[i]))
    BY <1>5, <2>1
  <2>6. ASSUME NEW k \in 1..Len(Bytes(tokens[i]))
        PROVE  s[left[i - 1] + k] = Bytes(tokens[i])[k]
    <3> DEFINE x == left[i - 1]
               y == cut[i - 1]
               z == Len(Bytes(tokens[i]))
               taken == Len(b)
               rest == Len(s)
    <3>1. /\ x \in Nat /\ y \in Nat /\ z \in Nat /\ taken \in Nat /\ rest \in Nat
          /\ x = y - taken /\ y + z <= taken + rest
      BY <1>3, <2>3, <2>4, <2>5
    <3>2. k \in Nat /\ 1 <= k /\ k <= z
      BY <3>1
    <3> HIDE DEF x, y, z, taken, rest
    <3>3. x + k \in 1..rest /\ (x + k) + taken = y + k
      BY <3>1, <3>2
    <3>4. bs[y + k] = s[x + k]
      BY <1>3, <3>3 DEF taken, rest
    <3>5. QED
      BY <1>5, <2>1, <3>4 DEF x, y
  <2>7. QED
    BY <1>3, <2>3, <2>4, <2>5, <2>6
<1>14. IsCut(tokens, r + 1, s, left)
  BY <1>9, <1>11, <1>12, <1>13 DEF IsCut, n
<1>15. QED
  BY <1>14 DEF Carries

(* A byte that moves on leaves the stream as it is. *)
LEMMA ByteMoves ==
  ASSUME NEW a \in Seq(Byte), NEW b \in Seq(Byte), b # <<>>
  PROVE  /\ Append(a, Head(b)) \in Seq(Byte) /\ Tail(b) \in Seq(Byte)
         /\ Len(Append(a, Head(b))) = Len(a) + 1
         /\ Append(a, Head(b)) \o Tail(b) = a \o b
<1> DEFINE h == Head(b)
           t == Tail(b)
<1>1. h \in Byte /\ t \in Seq(Byte) /\ <<h>> \in Seq(Byte)
  BY HeadTailProperties
<1>2. b = <<h>> \o t
  OBVIOUS
<1> HIDE DEF h, t
<1>3. Append(a, h) = a \o <<h>> /\ Append(a, h) \in Seq(Byte) /\ Len(Append(a, h)) = Len(a) + 1
  BY <1>1, AppendIsConcat, AppendProperties
<1>4. (a \o <<h>>) \o t = a \o (<<h>> \o t)
  BY <1>1, ConcatAssociative
<1>5. QED
  BY <1>1, <1>2, <1>3, <1>4 DEF h, t

-----------------------------------------------------------------------------
(* The inductive invariant. *)

(* A recv_ function runs. *)
Asks == asked # ""
Requests == Kinds \cup {""}

(* What was received is what was sent, as far as it goes. *)
TokensKnown ==
  /\ sent \in Seq(Tokens) /\ Len(sent) <= Len(Format)
  /\ \A i \in 1..Len(sent) : sent[i][1] = Kind(i)
  /\ received \in Seq(Tokens) /\ Len(received) <= Len(sent)
  /\ \A i \in 1..Len(received) : received[i] = sent[i]
  /\ unwritten # <<>> => sent # <<>>

BytesKnown ==
  /\ unwritten \in Seq(Byte) /\ wire \in Seq(Byte) /\ got \in Seq(Byte)
  /\ Len(wire) <= Room
  /\ gone \subseteq {"writer", "reader"}
  /\ asked \in Requests

(* A recv_ function that goes on after its first byte is of the right kind, *)
(* and has not all bytes of its token.                                     *)
Reading ==
  /\ ~Asks => got = <<>>
  /\ "reader" \in gone => ~Asks
  /\ Asks => /\ Len(received) < Len(Format)
             /\ asked = "code" <=> Kind(Len(received) + 1) = "code"
  /\ got # <<>> => /\ asked = Kind(Len(received) + 1)
                   /\ Len(received) < Len(sent)
                   /\ Len(got) < Len(Bytes(sent[Len(received) + 1]))

(* What is read, on the wire and still to be written makes up the tokens   *)
(* that were sent and not received.                                        *)
Stream == (got \o wire) \o unwritten
InOrder == "reader" \notin gone => Carries(Stream, sent, Len(received))

MInv == TokensKnown /\ BytesKnown /\ Reading /\ InOrder

(* It holds where nothing is sent yet.                                     *)
LEMMA MInvInit == Init => MInv
<1> SUFFICES ASSUME Init PROVE MInv
  OBVIOUS
<1>1. /\ sent = <<>> /\ unwritten = <<>> /\ wire = <<>> /\ got = <<>> /\ received = <<>>
      /\ gone = {}
  BY DEF Init
<1>a. asked \in Requests /\ ~Asks
  BY DEF Init, Asks, Requests
<1>2. Len(<<>>) = 0 /\ Room \in Nat /\ Len(Format) \in Nat
  BY FormatAssumption
<1>3. /\ <<>> \in Seq(Tokens) /\ <<>> \in Seq(Byte)
  OBVIOUS
<1>4. TokensKnown
  <2>1. Len(sent) = 0 /\ Len(received) = 0 /\ Len(sent) <= Len(Format)
    BY <1>1, <1>2
  <2>2. sent \in Seq(Tokens) /\ received \in Seq(Tokens)
    BY <1>1, <1>3
  <2>3. ~(unwritten # <<>>)
    BY <1>1
  <2>4. QED
    BY <2>1, <2>2, <2>3 DEF TokensKnown
<1>5. BytesKnown
  <2>1. Len(wire) = 0 /\ Len(wire) <= Room
    BY <1>1, <1>2
  <2>2. unwritten \in Seq(Byte) /\ wire \in Seq(Byte) /\ got \in Seq(Byte)
    BY <1>1, <1>3
  <2>3. QED
    BY <1>1, <1>a, <2>1, <2>2 DEF BytesKnown
<1>6. Reading
  BY <1>1, <1>a DEF Reading
<1>7. Stream = <<>>
  BY <1>1, <1>3, ConcatEmptySeq DEF Stream
<1>8. InOrder
  BY <1>1, <1>2, <1>7, NothingCarried DEF InOrder
<1>9. QED
  BY <1>4, <1>5, <1>6, <1>8 DEF MInv

(* The next byte is the next of the next token: with it, a recv_ function  *)
(* of the right kind returns just that token or goes on, and one of the    *)
(* wrong kind throws.                                                      *)
LEMMA NextByte ==
  ASSUME MInv, Asks, wire # <<>>,
         NEW b, b = Append(got, Head(wire)),
         NEW token, token = sent[Len(received) + 1]
  PROVE  /\ Len(received) < Len(sent) /\ token \in Tokens
         /\ token[1] = Kind(Len(received) + 1)
         /\ b \in Seq(Byte) /\ Tail(wire) \in Seq(Byte) /\ b # <<>>
         /\ (b \o Tail(wire)) \o unwritten = Stream
         /\ Len(b) <= Len(Bytes(token))
         /\ asked # token[1] => Throws(asked, b)
         /\ asked = token[1] =>
              /\ ~Throws(asked, b)
              /\ Returns(asked, b) <=> Len(b) = Len(Bytes(token))
              /\ Returns(asked, b) => Result(asked, b) = token
         /\ Len(b) = Len(Bytes(token)) =>
              /\ Carries(Tail(wire) \o unwritten, sent, Len(received) + 1)
              /\ Len(received) + 1 = Len(sent) => unwritten = <<>>
<1> DEFINE r == Len(received)
           w == Tail(wire)
           k == Len(b)
<1>1. /\ sent \in Seq(Tokens) /\ received \in Seq(Tokens) /\ r <= Len(sent)
      /\ unwritten \in Seq(Byte) /\ wire \in Seq(Byte) /\ got \in Seq(Byte)
  BY DEF MInv, TokensKnown, BytesKnown
<1>a. r \in Nat /\ Len(sent) \in Nat /\ Len(got) \in Nat
  BY <1>1
<1>b. asked \in Kinds
  BY DEF MInv, BytesKnown, Asks, Requests
<1>2. Carries(Stream, sent, r)
  BY DEF MInv, Reading, InOrder
<1>3. b \in Seq(Byte) /\ w \in Seq(Byte) /\ k = Len(got) + 1 /\ b \o w = got \o wire
  BY <1>1, ByteMoves
<1> HIDE DEF r, w
<1>4. /\ (b \o w) \o unwritten = Stream
      /\ (b \o w) \o unwritten = b \o (w \o unwritten)
  <2>1. b \in Seq(Byte) /\ w \in Seq(Byte) /\ unwritten \in Seq(Byte)
    BY <1>1, <1>3
  <2>2. (b \o w) \o unwritten = b \o (w \o unwritten)
    BY <2>1, ConcatAssociative, SMTT(30)
  <2>3. QED
    BY <1>3, <2>2 DEF Stream
<1>5. w \o unwritten \in Seq(Byte) /\ Len(w \o unwritten) = Len(w) + Len(unwritten)
      /\ Len(w) \in Nat /\ Len(unwritten) \in Nat
  BY <1>1, <1>3, Joined
<1> DEFINE rest == w \o unwritten
<1> HIDE DEF k, rest
<1>6. /\ Stream \in Seq(Byte) /\ Len(Stream) = k + Len(rest)
      /\ \A i \in 1..k : Stream[i] = b[i]
  <2>1. Stream = b \o rest /\ rest \in Seq(Byte)
    BY <1>4, <1>5 DEF rest
  <2>2. QED
    BY <1>3, <2>1, Joined DEF k
<1>c. Len(rest) \in Nat /\ Len(rest) = Len(w) + Len(unwritten)
  BY <1>5 DEF rest
<1>7. k \in Nat /\ k >= 1 /\ Len(Stream) >= 1
  BY <1>a, <1>3, <1>6, <1>c
<1>8. /\ r < Len(sent) /\ token \in Tokens
      /\ Len(Bytes(token)) <= Len(Stream)
      /\ \A i \in 1..Len(Bytes(token)) : Stream[i] = Bytes(token)[i]
      /\ r + 1 = Len(sent) => Len(Stream) = Len(Bytes(token))
  <2>1. BeginsWithNext(Stream, sent, r)
    BY <1>1, <1>a, <1>2, <1>6, <1>7, FirstCarried DEF r
  <2>2. QED
    BY <2>1 DEF BeginsWithNext, r
<1>9. Len(Bytes(token)) \in Nat /\ Len(Bytes(token)) >= 1 /\ token[1] \in Kinds
  BY <1>8, TokenBytes
<1>10. token[1] = Kind(r + 1)
  <2>1. r + 1 \in 1..Len(sent)
    BY <1>a, <1>8
  <2>2. QED
    BY <2>1 DEF MInv, TokensKnown, r
<1>11. k <= Len(Bytes(token))
  <2>1. CASE got = <<>>
    <3>1. Len(got) = 0
      BY <2>1
    <3>2. QED
      BY <1>3, <1>9, <3>1
  <2>2. CASE got # <<>>
    <3>1. Len(got) < Len(Bytes(token))
      BY <2>2 DEF MInv, Reading, r
    <3>2. QED
      BY <1>a, <1>3, <1>9, <3>1
  <2>3. QED
    BY <2>1, <2>2
<1>12. \A i \in 1..k : b[i] = Bytes(token)[i]
  <2>1. ASSUME NEW i \in 1..k PROVE b[i] = Bytes(token)[i]
    <3> DEFINE l == Len(Bytes(token))
    <3>1. l \in Nat /\ k <= l
      BY <1>9, <1>11
    <3> HIDE DEF l
    <3>2. i \in 1..l
      BY <1>7, <3>1
    <3>3. QED
      BY <1>6, <1>8, <3>2 DEF l
  <2>2. QED
    BY <2>1
<1>13. /\ ~Throws(token[1], b)
       /\ Returns(token[1], b) <=> k = Len(Bytes(token))
       /\ k = Len(Bytes(token)) => Result(token[1], b) = token
  BY <1>3, <1>7, <1>8, <1>11, <1>12, ReadsToken DEF k
<1>14. asked # token[1] => Throws(asked, b)
  <2>1. SUFFICES ASSUME asked # token[1] PROVE Throws(asked, b)
    OBVIOUS
  <2>2. asked = "code" <=> token[1] = "code"
    BY <1>10 DEF MInv, Reading, r
  <2>3. b[1] = Bytes(token)[1]
    <3>1. 1 \in 1..k
      BY <1>7
    <3>2. QED
      BY <1>12, <3>1
  <2>4. QED
    BY <1>b, <1>8, <2>1, <2>2, <2>3, WrongKindThrows
<1>15. k = Len(Bytes(token)) => Carries(rest, sent, r + 1)
  <2>1. SUFFICES ASSUME k = Len(Bytes(token)) PROVE Carries(rest, sent, r + 1)
    OBVIOUS
  <2>2. Len(b) = Len(Bytes(sent[r + 1]))
    BY <2>1 DEF r, k
  <2>3. Carries(b \o rest, sent, r)
    BY <1>2, <1>4 DEF rest
  <2>4. rest \in Seq(Byte)
    BY <1>5 DEF rest
  <2>5. QED
    BY <1>1, <1>a, <1>3, <1>8, <2>2, <2>3, <2>4, RestCarried
<1>16. k = Len(Bytes(token)) /\ r + 1 = Len(sent) => unwritten = <<>>
  <2>1. SUFFICES ASSUME k = Len(Bytes(token)), r + 1 = Len(sent) PROVE Len(unwritten) = 0
    BY <1>1, EmptySeq
  <2>2. Len(Stream) = k
    BY <1>8, <2>1
  <2>3. QED
    BY <1>5, <1>6, <1>7, <1>c, <2>2
<1>17. b # <<>>
  <2>1. Len(b) # 0
    BY <1>7 DEF k
  <2>2. QED
    BY <2>1, EmptySeq
<1>18. QED
  BY <1>3, <1>4, <1>8, <1>10, <1>11, <1>13, <1>14, <1>15, <1>16, <1>17 DEF r, w, k, rest

-----------------------------------------------------------------------------
(* Every step keeps it. *)

(* A token that is sent comes behind those on their way.                   *)
LEMMA SendKeeps ==
  ASSUME MInv, NEW token \in Tokens, Send(token)
  PROVE  MInv'
<1>1. /\ unwritten = <<>> /\ Len(sent) < Len(Format) /\ token[1] = Kind(Len(sent) + 1)
      /\ sent' = Append(sent, token) /\ unwritten' = Bytes(token)
      /\ UNCHANGED <<wire, gone, asked, got, received>>
  BY DEF Send
<1>2. /\ sent \in Seq(Tokens) /\ received \in Seq(Tokens) /\ Len(received) <= Len(sent)
      /\ \A i \in 1..Len(sent) : sent[i][1] = Kind(i)
      /\ \A i \in 1..Len(received) : received[i] = sent[i]
      /\ wire \in Seq(Byte) /\ got \in Seq(Byte)
  BY DEF MInv, TokensKnown, BytesKnown
<1>3. Len(sent) \in Nat /\ Len(received) \in Nat /\ Len(Format) \in Nat
  BY <1>2, FormatAssumption
<1>4. /\ sent' \in Seq(Tokens) /\ sent' # <<>> /\ Len(sent') = Len(sent) + 1
      /\ \A i \in 1..Len(sent) : sent'[i] = sent[i]
      /\ sent'[Len(sent) + 1] = token
  BY <1>1, <1>2, AppendProperties
<1>5. TokensKnown'
  <2>1. ASSUME NEW i \in 1..Len(sent') PROVE sent'[i][1] = Kind(i)
    <3>1. i \in 1..Len(sent) \/ i = Len(sent) + 1
      BY <1>3, <1>4
    <3>2. QED
      BY <1>1, <1>2, <1>4, <3>1
  <2>2. ASSUME NEW i \in 1..Len(received') PROVE received'[i] = sent'[i]
    <3>1. i \in 1..Len(received) /\ i \in 1..Len(sent)
      BY <1>1, <1>2, <1>3
    <3>2. QED
      BY <1>1, <1>2, <1>4, <3>1
  <2>3. Len(sent') <= Len(Format) /\ Len(received') <= Len(sent') /\ received' \in Seq(Tokens)
    BY <1>1, <1>2, <1>3, <1>4
  <2>4. QED
    BY <1>4, <2>1, <2>2, <2>3 DEF TokensKnown, Kind
<1>6. BytesKnown'
  BY <1>1, TokenBytes DEF MInv, BytesKnown
<1>7. Reading'
  <2>1. got # <<>> => /\ sent'[Len(received) + 1] = sent[Len(received) + 1]
                      /\ Len(received) < Len(sent')
    <3>1. SUFFICES ASSUME got # <<>>
                   PROVE  sent'[Len(received) + 1] = sent[Len(received) + 1]
                          /\ Len(received) < Len(sent')
      OBVIOUS
    <3>2. Len(received) < Len(sent)
      BY <3>1 DEF MInv, Reading
    <3>3. Len(received) + 1 \in 1..Len(sent) /\ Len(received) < Len(sent')
      BY <1>3, <1>4, <3>2
    <3>4. QED
      BY <1>4, <3>3
  <2>2. QED
    BY <1>1, <2>1 DEF MInv, Reading, Asks, Kind
<1>8. InOrder'
  <2>1. SUFFICES ASSUME "reader" \notin gone PROVE Carries(Stream', sent', Len(received))
    BY <1>1 DEF InOrder
  <2>2. Stream = got \o wire /\ Stream \in Seq(Byte)
    BY <1>1, <1>2, ConcatEmptySeq, Joined DEF Stream
  <2>3. Stream' = Stream \o Bytes(token)
    BY <1>1, <2>2 DEF Stream
  <2>4. Carries(Stream, sent, Len(received))
    BY <2>1 DEF MInv, InOrder
  <2>5. QED
    BY <1>1, <1>2, <1>3, <2>2, <2>3, <2>4, OneMoreCarried
<1>9. QED
  BY <1>5, <1>6, <1>7, <1>8 DEF MInv

(* A byte that is written is on the wire instead, or lost if nobody reads. *)
LEMMA WriteByteKeeps ==
  ASSUME MInv, WriteByte
  PROVE  MInv'
<1>1. /\ unwritten # <<>> /\ unwritten' = Tail(unwritten)
      /\ UNCHANGED <<sent, gone, asked, got, received>>
      /\ \/ "reader" \in gone /\ wire' = wire
         \/ Len(wire) < Room /\ wire' = Append(wire, Head(unwritten))
  BY DEF WriteByte
<1>2. /\ unwritten \in Seq(Byte) /\ wire \in Seq(Byte) /\ got \in Seq(Byte)
  BY DEF MInv, BytesKnown
<1>3. TokensKnown'
  BY <1>1 DEF MInv, TokensKnown, Kind
<1>4. Reading'
  BY <1>1 DEF MInv, Reading, Asks, Kind
<1>5. Tail(unwritten) \in Seq(Byte)
  BY <1>1, <1>2, HeadTailProperties
<1>6. CASE "reader" \in gone /\ wire' = wire
  <2>1. BytesKnown'
    BY <1>1, <1>5, <1>6 DEF MInv, BytesKnown
  <2>2. QED
    BY <1>1, <1>3, <1>4, <1>6, <2>1 DEF MInv, InOrder
<1>7. CASE Len(wire) < Room /\ wire' = Append(wire, Head(unwritten))
  <2>1. /\ wire' \in Seq(Byte) /\ Len(wire') = Len(wire) + 1
        /\ wire' \o unwritten' = wire \o unwritten
    BY <1>1, <1>2, <1>7, ByteMoves
  <2>2. Len(wire') <= Room
    <3>1. Len(wire) \in Nat /\ Room \in Nat
      BY <1>2, FormatAssumption
    <3>2. QED
      BY <1>7, <2>1, <3>1
  <2>3. BytesKnown'
    BY <1>1, <1>5, <2>1, <2>2 DEF MInv, BytesKnown
  <2>4. Stream' = Stream
    <3>1. unwritten' \in Seq(Byte)
      BY <1>1, <1>5
    <3>2. (got \o wire) \o unwritten = got \o (wire \o unwritten)
      BY <1>2, ConcatAssociative
    <3>3. wire' \in Seq(Byte)
      BY <2>1
    <3>4. (got \o wire') \o unwritten' = got \o (wire' \o unwritten')
      BY <1>2, <3>1, <3>3, ConcatAssociative, SMTT(30)
    <3>5. QED
      BY <1>1, <2>1, <3>2, <3>4 DEF Stream
  <2>5. QED
    BY <1>1, <1>3, <1>4, <2>3, <2>4 DEF MInv, InOrder
<1>8. QED
  BY <1>1, <1>6, <1>7

(* A recv_ function that is called has read nothing yet.                   *)
LEMMA AskKeeps ==
  ASSUME MInv, NEW kind \in Kinds, Ask(kind)
  PROVE  MInv'
<1>1. /\ "reader" \notin gone /\ ~Asks /\ Len(received) < Len(Format) /\ asked' = kind
      /\ kind = "code" <=> Kind(Len(received) + 1) = "code"
      /\ UNCHANGED <<sent, unwritten, wire, gone, got, received>>
  BY DEF Ask, Asks
<1>2. got = <<>>
  BY <1>1 DEF MInv, Reading
<1>3. TokensKnown'
  BY <1>1 DEF MInv, TokensKnown, Kind
<1>4. BytesKnown'
  BY <1>1 DEF MInv, BytesKnown, Requests
<1>5. Reading'
  BY <1>1, <1>2 DEF Reading, Kind
<1>6. InOrder'
  BY <1>1 DEF MInv, InOrder, Stream
<1>7. QED
  BY <1>3, <1>4, <1>5, <1>6 DEF MInv

(* A reader that is gone reads nothing more. *)
LEMMA ReaderGoesKeeps ==
  ASSUME MInv, ReaderGoes, UNCHANGED <<sent, unwritten>>
  PROVE  MInv'
<1>1. /\ gone' = gone \cup {"reader"} /\ wire' = <<>> /\ ~Asks' /\ asked' \in Requests
      /\ got' = <<>> /\ received' = received
  BY DEF ReaderGoes, Leaves, Asks, Requests
<1>2. <<>> \in Seq(Byte) /\ Len(<<>>) <= Room
  BY FormatAssumption
<1>3. TokensKnown'
  BY <1>1 DEF MInv, TokensKnown, Kind
<1>4. BytesKnown'
  BY <1>1, <1>2 DEF MInv, BytesKnown
<1>5. Reading' /\ InOrder'
  BY <1>1 DEF Reading, InOrder
<1>6. QED
  BY <1>3, <1>4, <1>5 DEF MInv

(* What a byte that is read leads to. *)
LEMMA ReadByteDoes ==
  ASSUME MInv, ReadByte
  PROVE  \/ ReaderGoes /\ UNCHANGED <<sent, unwritten>>
         \/ /\ Len(received) < Len(sent)
            /\ received' = Append(received, sent[Len(received) + 1])
            /\ wire' = Tail(wire) /\ ~Asks' /\ asked' \in Requests /\ got' = <<>>
            /\ wire' \in Seq(Byte) /\ wire # <<>>
            /\ Carries(wire' \o unwritten, sent, Len(received) + 1)
            /\ Len(received) + 1 = Len(sent) => unwritten = <<>>
            /\ UNCHANGED <<sent, unwritten, gone>>
         \/ /\ Len(received) < Len(sent)
            /\ Asks /\ asked = Kind(Len(received) + 1)
            /\ wire' = Tail(wire) /\ got' \in Seq(Byte) /\ got' # <<>>
            /\ wire' \in Seq(Byte) /\ wire # <<>>
            /\ Len(got') < Len(Bytes(sent[Len(received) + 1]))
            /\ Stream' = Stream
            /\ UNCHANGED <<sent, unwritten, gone, asked, received>>
<1> DEFINE b == Append(got, Head(wire))
           token == sent[Len(received) + 1]
<1>1. Asks /\ wire # <<>> /\ UNCHANGED <<sent, unwritten>>
  BY DEF ReadByte, Asks
<1>2. /\ Len(received) < Len(sent) /\ token \in Tokens
      /\ token[1] = Kind(Len(received) + 1)
      /\ b \in Seq(Byte) /\ Tail(wire) \in Seq(Byte) /\ b # <<>>
      /\ (b \o Tail(wire)) \o unwritten = Stream
      /\ Len(b) <= Len(Bytes(token))
      /\ asked # token[1] => Throws(asked, b)
      /\ asked = token[1] =>
           /\ ~Throws(asked, b)
           /\ Returns(asked, b) <=> Len(b) = Len(Bytes(token))
           /\ Returns(asked, b) => Result(asked, b) = token
      /\ Len(b) = Len(Bytes(token)) =>
           /\ Carries(Tail(wire) \o unwritten, sent, Len(received) + 1)
           /\ Len(received) + 1 = Len(sent) => unwritten = <<>>
  BY <1>1, NextByte
<1>3. \/ Throws(asked, b) /\ ReaderGoes
      \/ /\ ~Throws(asked, b) /\ Returns(asked, b)
         /\ received' = Append(received, Result(asked, b))
         /\ wire' = Tail(wire)
         /\ Leaves
         /\ UNCHANGED gone
      \/ /\ ~Throws(asked, b) /\ ~Returns(asked, b)
         /\ got' = b
         /\ wire' = Tail(wire)
         /\ UNCHANGED <<gone, asked, received>>
  BY DEF ReadByte
<1>4. Leaves => ~Asks' /\ asked' \in Requests /\ got' = <<>>
  BY DEF Leaves, Asks, Requests
<1>5. Len(b) \in Nat /\ Len(Bytes(token)) \in Nat
  BY <1>2, TokenBytes
<1> HIDE DEF b, token
<1>6. CASE /\ ~Throws(asked, b) /\ Returns(asked, b)
           /\ received' = Append(received, Result(asked, b))
           /\ wire' = Tail(wire)
           /\ Leaves
           /\ UNCHANGED gone
  <2>1. asked = token[1] /\ Len(b) = Len(Bytes(token)) /\ Result(asked, b) = token
    BY <1>2, <1>6
  <2>2. QED
    BY <1>1, <1>2, <1>4, <1>6, <2>1 DEF token
<1>7. CASE /\ ~Throws(asked, b) /\ ~Returns(asked, b)
           /\ got' = b
           /\ wire' = Tail(wire)
           /\ UNCHANGED <<gone, asked, received>>
  <2>1. asked = token[1] /\ Len(b) # Len(Bytes(token))
    BY <1>2, <1>7
  <2>2. Len(b) < Len(Bytes(token))
    BY <1>2, <1>5, <2>1
  <2>3. Stream' = Stream
    BY <1>1, <1>2, <1>7 DEF Stream
  <2>4. QED
    BY <1>1, <1>2, <1>7, <2>1, <2>2, <2>3 DEF token
<1>8. QED
  BY <1>1, <1>3, <1>6, <1>7

(* A byte that is read ends a token, is kept, or ends the connection.      *)
LEMMA ReadByteKeeps ==
  ASSUME MInv, ReadByte
  PROVE  MInv'
<1>1. /\ sent \in Seq(Tokens) /\ received \in Seq(Tokens)
      /\ \A i \in 1..Len(received) : received[i] = sent[i]
      /\ wire \in Seq(Byte) /\ Len(wire) <= Room /\ unwritten \in Seq(Byte)
  BY DEF MInv, TokensKnown, BytesKnown
<1>2. Len(sent) \in Nat /\ Len(received) \in Nat /\ Len(wire) \in Nat /\ Room \in Nat
  BY <1>1, FormatAssumption
<1>3. wire # <<>> => Len(Tail(wire)) <= Room
  <2>1. SUFFICES ASSUME wire # <<>> PROVE Len(Tail(wire)) <= Room
    OBVIOUS
  <2>2. Len(Tail(wire)) = Len(wire) - 1
    BY <1>1, <2>1, HeadTailProperties
  <2>3. QED
    BY <1>1, <1>2, <2>2
<1>4. CASE ReaderGoes /\ UNCHANGED <<sent, unwritten>>
  BY <1>4, ReaderGoesKeeps
<1>5. CASE /\ Len(received) < Len(sent)
           /\ received' = Append(received, sent[Len(received) + 1])
           /\ wire' = Tail(wire) /\ ~Asks' /\ asked' \in Requests /\ got' = <<>>
           /\ wire' \in Seq(Byte) /\ wire # <<>>
           /\ Carries(wire' \o unwritten, sent, Len(received) + 1)
           /\ Len(received) + 1 = Len(sent) => unwritten = <<>>
           /\ UNCHANGED <<sent, unwritten, gone>>
  <2>1. Len(received) + 1 \in 1..Len(sent)
    BY <1>2, <1>5
  <2>2. sent[Len(received) + 1] \in Tokens
    BY <1>1, <2>1
  <2>3. /\ received' \in Seq(Tokens) /\ Len(received') = Len(received) + 1
        /\ \A i \in 1..Len(received) : received'[i] = received[i]
        /\ received'[Len(received) + 1] = sent[Len(received) + 1]
    BY <1>1, <1>5, <2>2, AppendProperties
  <2>4. ASSUME NEW i \in 1..Len(received') PROVE received'[i] = sent[i]
    <3>1. i \in 1..Len(received) \/ i = Len(received) + 1
      BY <1>2, <2>3
    <3>2. QED
      BY <1>1, <2>3, <3>1
  <2>5. Len(received') <= Len(sent)
    BY <1>2, <1>5, <2>3
  <2>6. TokensKnown'
    BY <1>5, <2>3, <2>4, <2>5 DEF MInv, TokensKnown, Kind
  <2>7. BytesKnown'
    <3>1. <<>> \in Seq(Byte)
      OBVIOUS
    <3>2. QED
      BY <1>3, <1>5, <3>1 DEF MInv, BytesKnown
  <2>8. Reading'
    BY <1>5 DEF Reading
  <2>9. Stream' = wire' \o unwritten
    <3>1. got' \o wire' = wire'
      BY <1>5, ConcatEmptySeq
    <3>2. QED
      BY <1>5, <3>1 DEF Stream
  <2>10. InOrder'
    BY <1>5, <2>3, <2>9 DEF InOrder
  <2>11. QED
    BY <2>6, <2>7, <2>8, <2>10 DEF MInv
<1>6. CASE /\ Len(received) < Len(sent)
           /\ Asks /\ asked = Kind(Len(received) + 1)
           /\ wire' = Tail(wire) /\ got' \in Seq(Byte) /\ got' # <<>>
           /\ wire' \in Seq(Byte) /\ wire # <<>>
           /\ Len(got') < Len(Bytes(sent[Len(received) + 1]))
           /\ Stream' = Stream
           /\ UNCHANGED <<sent, unwritten, gone, asked, received>>
  <2>1. TokensKnown'
    BY <1>6 DEF MInv, TokensKnown, Kind
  <2>2. BytesKnown'
    BY <1>3, <1>6 DEF MInv, BytesKnown
  <2>3. Reading'
    BY <1>6 DEF MInv, Reading, Asks, Kind
  <2>4. InOrder'
    BY <1>6 DEF MInv, InOrder
  <2>5. QED
    BY <2>1, <2>2, <2>3, <2>4 DEF MInv
<1>7. QED
  BY <1>4, <1>5, <1>6, ReadByteDoes

(* A writer that goes leaves what it has written.                          *)
LEMMA SameKeeps ==
  ASSUME MInv, UNCHANGED <<sent, unwritten, wire, asked, got, received>>,
         gone' = gone \/ gone' = gone \cup {"writer"}
  PROVE  MInv'
<1>1. TokensKnown' /\ BytesKnown'
  BY DEF MInv, TokensKnown, BytesKnown, Kind
<1>2. Reading'
  BY DEF MInv, Reading, Asks, Kind
<1>3. InOrder'
  BY DEF MInv, InOrder, Stream
<1>4. QED
  BY <1>1, <1>2, <1>3 DEF MInv

(* So does every other step.                                               *)
LEMMA MInvStep ==
  ASSUME MInv, [Next]_vars
  PROVE  MInv'
<1>1. CASE UNCHANGED vars
  BY <1>1, SameKeeps DEF vars
<1>2. CASE \E token \in Tokens : Send(token)
  BY <1>2, SendKeeps
<1>3. CASE WriteByte
  BY <1>3, WriteByteKeeps
<1>4. CASE WriterEnds
  BY <1>4, SameKeeps DEF WriterEnds
<1>5. CASE \E kind \in Kinds : Ask(kind)
  BY <1>5, AskKeeps
<1>6. CASE ReadByte
  BY <1>6, ReadByteKeeps
<1>7. CASE ReadFails
  BY <1>7, ReaderGoesKeeps DEF ReadFails
<1>8. CASE ReaderEnds
  BY <1>8, ReaderGoesKeeps DEF ReaderEnds
<1>9. QED
  BY <1>1, <1>2, <1>3, <1>4, <1>5, <1>6, <1>7, <1>8 DEF Next

(* It always holds.                                                        *)
LEMMA MInvAlways == Spec => []MInv
BY MInvInit, MInvStep, PTL DEF Spec

-----------------------------------------------------------------------------
(* What follows from it. *)

(* Whatever is sent, and whenever either process ends: what recv_          *)
(* functions return are codes, ints and strings of chars, and nothing but  *)
(* bytes is on the wire, never more than fit there.                        *)
THEOREM TypeCorrect == Spec => []TypeOK
<1>1. MInv => TypeOK
  <2>1. SUFFICES ASSUME MInv PROVE TypeOK
    OBVIOUS
  <2>2. ASSUME NEW token \in Tokens
        PROVE  CASE token[1] = "code" -> token[2] \in Byte
                 [] token[1] = "PAR_NUM" -> token[2] \in Int32
                 [] token[1] = "PAR_STRING" -> token[2] \in Seq(SignedChar)
    <3>1. CASE token[1] = "code"
      BY <3>1, CodeBytes
    <3>2. CASE token[1] = "PAR_NUM"
      BY <3>2, NumberBytes
    <3>3. CASE token[1] = "PAR_STRING"
      BY <3>3, StringBytes
    <3>4. QED
      BY <3>1, <3>2, <3>3, TokenBytes DEF Kinds
  <2>3. \A i \in DOMAIN received : received[i] \in Tokens
    BY <2>1 DEF MInv, TokensKnown
  <2>4. QED
    BY <2>1, <2>2, <2>3 DEF MInv, BytesKnown, Reading, Asks, Requests, TypeOK
<1>2. QED
  BY <1>1, MInvAlways, PTL

(* A recv_ function of the right kind never waits for more bytes than its  *)
(* token has, whatever its number or its length.                           *)
THEOREM NoVainWaits == Spec => []NeverWaitsInVain
<1>1. MInv => NeverWaitsInVain
  <2>1. SUFFICES ASSUME MInv, got # <<>>, wire = <<>>, unwritten = <<>>
                 PROVE  FALSE
    BY DEF NeverWaitsInVain
  <2> DEFINE token == sent[Len(received) + 1]
  <2>2. /\ got \in Seq(Byte) /\ sent \in Seq(Tokens) /\ received \in Seq(Tokens)
        /\ Len(received) < Len(sent) /\ Len(got) < Len(Bytes(token))
    BY <2>1 DEF MInv, TokensKnown, BytesKnown, Reading
  <2>3. Carries(Stream, sent, Len(received))
    BY <2>1 DEF MInv, Reading, InOrder
  <2>4. Stream = got
    BY <2>1, <2>2, ConcatEmptySeq DEF Stream
  <2>5. Len(got) \in Nat /\ Len(got) >= 1 /\ Len(received) \in Nat /\ Len(sent) \in Nat
    BY <2>1, <2>2, EmptySeq
  <2>6. Len(Bytes(token)) <= Len(got) /\ token \in Tokens
    <3>1. BeginsWithNext(got, sent, Len(received))
      BY <2>2, <2>3, <2>4, <2>5, FirstCarried
    <3>2. QED
      BY <3>1 DEF BeginsWithNext
  <2>7. Len(Bytes(token)) \in Nat
    BY <2>6, TokenBytes
  <2>8. QED
    BY <2>2, <2>5, <2>6, <2>7
<1>2. QED
  BY <1>1, MInvAlways, PTL

-----------------------------------------------------------------------------
(* The channel of tokens. *)

(* Parts of two sequences that agree there are the same.                   *)
LEMMA SameSubSeq ==
  ASSUME NEW S, NEW s \in Seq(S), NEW t \in Seq(S), NEW p \in Nat, p >= 1, NEW q \in Nat,
         q <= Len(s), q <= Len(t), \A i \in 1..q : s[i] = t[i]
  PROVE  SubSeq(s, p, q) = SubSeq(t, p, q)
<1> DEFINE a == SubSeq(s, p, q)
           b == SubSeq(t, p, q)
<1>1. \A i \in p..q : s[i] \in S /\ t[i] \in S /\ s[i] = t[i]
  OBVIOUS
<1>2. /\ a \in Seq(S) /\ Len(a) = IF p <= q THEN q - p + 1 ELSE 0
      /\ \A i \in 1..q - p + 1 : a[i] = s[p + i - 1]
  BY <1>1, SubSeqProperties
<1>3. /\ b \in Seq(S) /\ Len(b) = IF p <= q THEN q - p + 1 ELSE 0
      /\ \A i \in 1..q - p + 1 : b[i] = t[p + i - 1]
  BY <1>1, SubSeqProperties
<1> HIDE DEF a, b
<1>4. ASSUME NEW i \in 1..Len(a) PROVE a[i] = b[i]
  <2>1. i \in 1..q - p + 1 /\ p + i - 1 \in p..q
    BY <1>2
  <2>2. QED
    BY <1>1, <1>2, <1>3, <2>1
<1>5. a = b
  BY <1>2, <1>3, <1>4, SeqEqual
<1>6. QED
  BY <1>5 DEF a, b

(* The tokens written to their last byte are the first of those sent. *)
LEMMA CompleteIs ==
  ASSUME MInv
  PROVE  /\ Complete \in Seq(Tokens)
         /\ Len(Complete) = IF unwritten = <<>> THEN Len(sent) ELSE Len(sent) - 1
         /\ \A i \in 1..Len(Complete) : Complete[i] = sent[i]
<1>1. sent \in Seq(Tokens) /\ Len(sent) \in Nat
  BY DEF MInv, TokensKnown
<1>2. CASE unwritten = <<>>
  BY <1>1, <1>2 DEF Complete
<1>3. CASE unwritten # <<>>
  <2> DEFINE m == Len(sent) - 1
             c == SubSeq(sent, 1, m)
  <2>1. m \in Nat
    <3>1. sent # <<>>
      BY <1>3 DEF MInv, TokensKnown
    <3>2. QED
      BY <1>1, <3>1, EmptySeq
  <2>2. \A i \in 1..m : sent[i] \in Tokens
    BY <1>1
  <2>3. m < Len(sent)
    BY <1>1
  <2> HIDE DEF m
  <2>4. /\ c \in Seq(Tokens) /\ Len(c) = IF 1 <= m THEN m - 1 + 1 ELSE 0
        /\ \A i \in 1..m - 1 + 1 : c[i] = sent[1 + i - 1]
    BY <2>1, <2>2, SubSeqProperties
  <2>5. Complete = c
    BY <1>3 DEF Complete, m
  <2> HIDE DEF c
  <2>6. Len(c) = m /\ \A i \in 1..m : c[i] = sent[i]
    BY <2>1, <2>4
  <2>7. QED
    BY <1>3, <2>4, <2>5, <2>6 DEF m
<1>4. QED
  BY <1>2, <1>3

(* The last byte of a token puts it on the channel. *)
LEMMA LastByteWritten ==
  ASSUME MInv, "reader" \notin gone, unwritten # <<>>, unwritten' = <<>>,
         UNCHANGED <<sent, gone, received>>
  PROVE  /\ sent[Len(sent)] \in Tokens
         /\ InFlight' = Append(InFlight, sent[Len(sent)])
         /\ Len(InFlight) < Len(Format) + 1
<1> DEFINE n == Len(sent)
           r == Len(received)
           c == Complete
<1>1. sent \in Seq(Tokens) /\ received \in Seq(Tokens) /\ r <= n /\ n <= Len(Format)
  BY DEF MInv, TokensKnown
<1>2. n \in Nat /\ r \in Nat /\ Len(Format) \in Nat
  BY <1>1, FormatAssumption
<1>3. r < n
  <2>1. /\ unwritten \in Seq(Byte) /\ wire \in Seq(Byte) /\ got \in Seq(Byte)
        /\ Carries(Stream, sent, r)
    BY DEF MInv, BytesKnown, InOrder
  <2>2. got \o wire \in Seq(Byte) /\ Len(got \o wire) \in Nat
    BY <2>1, Joined
  <2>3. /\ Stream \in Seq(Byte) /\ Len(Stream) = Len(got \o wire) + Len(unwritten)
        /\ Len(unwritten) \in Nat /\ Len(unwritten) >= 1
    BY <2>1, <2>2, Joined, EmptySeq DEF Stream
  <2>4. Len(Stream) >= 1
    BY <2>2, <2>3
  <2>5. QED
    <3>1. BeginsWithNext(Stream, sent, r)
      BY <1>1, <1>2, <2>1, <2>3, <2>4, FirstCarried
    <3>2. QED
      BY <3>1 DEF BeginsWithNext
<1>4. sent[n] \in Tokens
  BY <1>1, <1>2, <1>3
<1>5. c \in Seq(Tokens) /\ Len(c) = n - 1 /\ \A i \in 1..Len(c) : c[i] = sent[i]
  BY CompleteIs
<1>6. InFlight = SubSeq(c, r + 1, n - 1)
  BY <1>5 DEF InFlight
<1>7. InFlight' = SubSeq(sent, r + 1, n)
  BY DEF InFlight, Complete
<1> HIDE DEF n, r, c
<1>8. SubSeq(c, r + 1, n - 1) = SubSeq(sent, r + 1, n - 1)
  <2>1. n - 1 \in Nat /\ n - 1 <= Len(sent) /\ r + 1 \in Nat /\ r + 1 >= 1
    BY <1>2, <1>3 DEF n
  <2>2. \A i \in 1..n - 1 : c[i] = sent[i]
    BY <1>5
  <2>3. n - 1 <= Len(c)
    BY <1>2, <1>5
  <2>4. QED
    BY <1>1, <1>5, <2>1, <2>2, <2>3, SameSubSeq
<1>9. SubSeq(sent, r + 1, n) = SubSeq(sent, r + 1, n - 1) \o <<sent[n]>>
  <2>1. r + 1 \in 1..Len(sent) /\ n \in r + 1..Len(sent)
    BY <1>2, <1>3 DEF n
  <2>2. QED
    BY <1>1, <2>1, SubSeqRecursiveSecond
<1>10. \A i \in r + 1..n - 1 : c[i] \in Tokens
  BY <1>2, <1>5
<1>11. /\ InFlight \in Seq(Tokens)
       /\ Len(InFlight) = IF r + 1 <= n - 1 THEN (n - 1) - (r + 1) + 1 ELSE 0
  BY <1>2, <1>6, <1>10, SubSeqProperties
<1>12. Append(InFlight, sent[n]) = InFlight \o <<sent[n]>>
  BY <1>4, <1>11, AppendIsConcat
<1>13. Len(InFlight) < Len(Format) + 1
  BY <1>1, <1>2, <1>11
<1>14. QED
  BY <1>4, <1>6, <1>7, <1>8, <1>9, <1>12, <1>13 DEF n

(* The last byte that is read of a token takes it from the channel. *)
LEMMA LastByteRead ==
  ASSUME MInv, "reader" \notin gone, Len(received) < Len(sent),
         Len(received) + 1 = Len(sent) => unwritten = <<>>,
         Len(received') = Len(received) + 1, UNCHANGED <<sent, unwritten, gone>>
  PROVE  /\ InFlight # <<>> /\ Head(InFlight) = sent[Len(received) + 1]
         /\ InFlight' = Tail(InFlight)
<1> DEFINE r == Len(received)
           c == Complete
           m == Len(c)
<1>1. sent \in Seq(Tokens) /\ received \in Seq(Tokens) /\ Len(sent) \in Nat /\ r \in Nat
  BY DEF MInv, TokensKnown
<1>2. /\ c \in Seq(Tokens) /\ m = IF unwritten = <<>> THEN Len(sent) ELSE Len(sent) - 1
      /\ \A i \in 1..m : c[i] = sent[i]
  BY CompleteIs
<1>3. r + 1 \in 1..m /\ m \in r + 1..m /\ m \in Nat
  BY <1>1, <1>2
<1>4. InFlight = SubSeq(c, r + 1, m)
  BY DEF InFlight
<1>5. InFlight' = SubSeq(c, (r + 1) + 1, m)
  BY DEF InFlight, Complete
<1> HIDE DEF r, c
<1>6. Head(SubSeq(c, r + 1, m)) = c[r + 1] /\ Tail(SubSeq(c, r + 1, m)) = SubSeq(c, (r + 1) + 1, m)
  BY <1>2, <1>3, HeadTailOfSubSeq
<1>7. InFlight # <<>>
  <2>1. \A i \in r + 1..m : c[i] \in Tokens
    BY <1>1, <1>2
  <2>2. Len(InFlight) = m - (r + 1) + 1
    BY <1>1, <1>3, <1>4, <2>1, SubSeqProperties
  <2>3. Len(InFlight) # 0
    BY <1>1, <1>3, <2>2
  <2>4. QED
    BY <2>3, EmptySeq
<1>8. QED
  BY <1>2, <1>3, <1>4, <1>5, <1>6, <1>7 DEF r

(* How the steps of Sockets look on this one connection. *)
Inbox(tokens) == [c \in {"c"} |-> [client |-> <<>>, server |-> tokens]]
EndsOf(g) == [c \in {"c"} |-> [client |-> IF "writer" \in g THEN "closed" ELSE "open",
                              server |-> IF "reader" \in g THEN "closed" ELSE "open"]]

(* Nothing happens to the connection.                                      *)
LEMMA NetStutter ==
  ASSUME InFlight' = InFlight, UNCHANGED <<gone, received>>
  PROVE  UNCHANGED <<Net!netVars, received>>
BY DEF Net!netVars, State

(* A token is written.                                                     *)
LEMMA NetWrite ==
  ASSUME NEW token, "reader" \notin gone, UNCHANGED gone,
         InFlight' = Append(InFlight, token), Len(InFlight) < Len(Format) + 1
  PROVE  Net!Write("c", "client", token)
<1>1. Inbox(InFlight)' = [Inbox(InFlight) EXCEPT !["c"]["server"] = Append(@, token)]
  BY DEF Inbox
<1>2. Inbox(InFlight)["c"]["server"] = InFlight
  BY DEF Inbox
<1>3. ~Net!HungUp("c", "client")
  BY DEF Net!HungUp, Net!Peer, State
<1>4. QED
  BY <1>1, <1>2, <1>3 DEF Net!Write, Net!Peer, State, Inbox

(* A token is read.                                                        *)
LEMMA NetRead ==
  ASSUME InFlight # <<>>, InFlight' = Tail(InFlight), UNCHANGED gone
  PROVE  Net!Read("c", "server")
<1>1. Inbox(InFlight)' = [Inbox(InFlight) EXCEPT !["c"]["server"] = Tail(@)]
  BY DEF Inbox
<1>2. QED
  BY <1>1 DEF Net!Read, State, Inbox

(* Either end closes.                                                      *)
LEMMA NetHangup ==
  /\ gone' = gone \cup {"writer"} /\ InFlight' = InFlight => Net!Hangup({"c"}, "client")
  /\ gone' = gone \cup {"reader"} /\ InFlight' = <<>> => Net!Hangup({"c"}, "server")
<1>1. ASSUME gone' = gone \cup {"writer"}, InFlight' = InFlight
      PROVE  Net!Hangup({"c"}, "client")
  BY <1>1 DEF Net!Hangup, State
<1>2. ASSUME gone' = gone \cup {"reader"}, InFlight' = <<>>
      PROVE  Net!Hangup({"c"}, "server")
  BY <1>2 DEF Net!Hangup, State
<1>3. QED
  BY <1>1, <1>2

(* Every step is one on tokens, or none.                                   *)
LEMMA ChannelStep ==
  ASSUME MInv, [Next]_vars
  PROVE  [TokenStep]_<<Net!netVars, received>>
<1> DEFINE Stutters == UNCHANGED <<Net!netVars, received>>
<1>1. CASE UNCHANGED vars
  <2>1. InFlight' = InFlight /\ UNCHANGED <<gone, received>>
    BY <1>1 DEF vars, InFlight, Complete
  <2>2. QED
    BY <2>1, NetStutter
<1>2. CASE \E token \in Tokens : Send(token)
  <2>1. PICK token \in Tokens : Send(token)
    BY <1>2
  <2>2. /\ unwritten = <<>> /\ sent' = Append(sent, token) /\ unwritten' = Bytes(token)
        /\ UNCHANGED <<gone, received>>
    BY <2>1 DEF Send
  <2>3. sent \in Seq(Tokens) /\ Len(sent) \in Nat
    BY DEF MInv, TokensKnown
  <2>4. unwritten' # <<>>
    BY <2>2, TokenBytes, EmptySeq
  <2>5. Complete' = SubSeq(sent', 1, Len(sent))
    <3>1. Len(sent') - 1 = Len(sent)
      BY <2>2, <2>3, AppendProperties
    <3>2. QED
      BY <2>4, <3>1 DEF Complete
  <2>6. SubSeq(sent', 1, Len(sent)) = SubSeq(sent, 1, Len(sent))
    <3>1. /\ sent' \in Seq(Tokens) /\ Len(sent') = Len(sent) + 1
          /\ \A i \in 1..Len(sent) : sent'[i] = sent[i]
      BY <2>2, <2>3, AppendProperties
    <3>2. Len(sent) <= Len(sent')
      BY <2>3, <3>1
    <3>3. QED
      BY <2>3, <3>1, <3>2, SameSubSeq
  <2>7. Complete' = Complete
    BY <2>2, <2>3, <2>5, <2>6, SubSeqFull DEF Complete
  <2>8. InFlight' = InFlight
    BY <2>2, <2>7 DEF InFlight
  <2>9. QED
    BY <2>2, <2>8, NetStutter
<1>3. CASE WriteByte
  <2>1. UNCHANGED <<sent, gone, received>> /\ unwritten # <<>>
    BY <1>3 DEF WriteByte
  <2>2. CASE "reader" \in gone
    BY <2>1, <2>2, NetStutter DEF InFlight
  <2>3. CASE unwritten' # <<>>
    BY <2>1, <2>3, NetStutter DEF InFlight, Complete
  <2>4. CASE "reader" \notin gone /\ unwritten' = <<>>
    <3>1. /\ sent[Len(sent)] \in Tokens
          /\ InFlight' = Append(InFlight, sent[Len(sent)])
          /\ Len(InFlight) < Len(Format) + 1
      BY <2>1, <2>4, LastByteWritten
    <3>2. Net!Write("c", "client", sent[Len(sent)])
      BY <2>1, <2>4, <3>1, NetWrite
    <3>3. QED
      BY <2>1, <3>1, <3>2 DEF TokenStep
  <2>5. QED
    BY <2>2, <2>3, <2>4
<1>4. CASE WriterEnds
  <2>1. gone' = gone \cup {"writer"} /\ UNCHANGED <<sent, unwritten, received>>
    BY <1>4 DEF WriterEnds
  <2>2. InFlight' = InFlight
    BY <2>1 DEF InFlight, Complete
  <2>3. QED
    BY <2>1, <2>2, NetHangup DEF TokenStep
<1>5. CASE \E kind \in Kinds : Ask(kind)
  <2>1. UNCHANGED <<sent, unwritten, gone, received>>
    BY <1>5 DEF Ask
  <2>2. QED
    BY <2>1, NetStutter DEF InFlight, Complete
<1>6. ASSUME ReaderGoes, UNCHANGED <<sent, unwritten>>
      PROVE  TokenStep
  <2>1. gone' = gone \cup {"reader"} /\ UNCHANGED received
    BY <1>6 DEF ReaderGoes
  <2>2. InFlight' = <<>>
    BY <2>1 DEF InFlight
  <2>3. QED
    BY <2>1, <2>2, NetHangup DEF TokenStep
<1>7. CASE ReadByte
  <2>1. CASE /\ Len(received) < Len(sent)
             /\ received' = Append(received, sent[Len(received) + 1])
             /\ Len(received) + 1 = Len(sent) => unwritten = <<>>
             /\ UNCHANGED <<sent, unwritten, gone>>
    <3>1. "reader" \notin gone
      BY <1>7 DEF MInv, Reading, ReadByte, Asks
    <3>2. sent \in Seq(Tokens) /\ received \in Seq(Tokens)
      BY DEF MInv, TokensKnown
    <3>3. sent[Len(received) + 1] \in Tokens
      BY <2>1, <3>2
    <3>4. Len(received') = Len(received) + 1
      BY <2>1, <3>2, <3>3, AppendProperties
    <3>5. /\ InFlight # <<>> /\ Head(InFlight) = sent[Len(received) + 1]
          /\ InFlight' = Tail(InFlight)
      BY <2>1, <3>1, <3>4, LastByteRead
    <3>6. QED
      BY <2>1, <3>5, NetRead DEF TokenStep
  <2>2. CASE UNCHANGED <<sent, unwritten, gone, received>>
    BY <2>2, NetStutter DEF InFlight, Complete
  <2>3. QED
    BY <1>6, <1>7, <2>1, <2>2, ReadByteDoes
<1>8. CASE ReadFails
  BY <1>6, <1>8 DEF ReadFails
<1>9. CASE ReaderEnds
  BY <1>6, <1>9 DEF ReaderEnds
<1>10. QED
  BY <1>1, <1>2, <1>3, <1>4, <1>5, <1>7, <1>8, <1>9 DEF Next

(* Whatever is sent, however the steps of the two processes mix and        *)
(* whenever either of them ends: the bytes between send_ and recv_         *)
(* functions implement a connection that carries whole tokens.  That is    *)
(* what the modules of the news system rest on.                            *)
THEOREM BytesImplementTokens == Spec => TokenChannel
BY MInvAlways, ChannelStep, PTL DEF Spec, TokenChannel

=============================================================================
