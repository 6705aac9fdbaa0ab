--------------------------- MODULE MessageHandler ---------------------------
(***************************************************************************)
(* Class MessageHandler (messagehandler.cc) on the two ends of one         *)
(* Connection: how codes, numbers and strings become single bytes and are  *)
(* put together again, while either process may go between two bytes.      *)
(*                                                                         *)
(* The modules of the news system take a code or a whole parameter for one *)
(* token.  TokenChannel, below, is what allows them to.                    *)
(***************************************************************************)
EXTENDS Integers, Sequences

CONSTANTS
  Codes,        \* the codes that are sent, as their numbers in protocol.h
  Ints,         \* the numbers that are sent: values of a 32-bit int
  Texts,        \* the strings that are sent: sequences of signed chars
  Format,       \* the kinds of the tokens to send, in order
  Room          \* bytes that fit into the buffers of the connection

Kinds == {"code", "PAR_NUM", "PAR_STRING"}

ASSUME FormatAssumption == Format \in Seq(Kinds) /\ Room \in Nat \ {0}

VARIABLES
  sent,         \* the tokens given to a send_ function so far
  unwritten,    \* the bytes of the last of them that are still to be written
  wire,         \* the bytes written and not read
  gone,         \* the ends whose process or Connection is gone
  asked,        \* the kind of the recv_ function the reader is in, "" if none
  got,          \* the bytes that function has read
  received      \* the tokens that recv_ functions returned

vars == <<sent, unwritten, wire, gone, asked, got, received>>

(* The token that was sent, or is received, as number i. *)
Kind(i) == Format[i]
Tokens ==
  ({"code"} \X Codes) \cup ({"PAR_NUM"} \X Ints) \cup ({"PAR_STRING"} \X Texts)

Init ==
  /\ sent = <<>>
  /\ unwritten = <<>>
  /\ wire = <<>>
  /\ gone = {}
  /\ asked = ""
  /\ got = <<>>
  /\ received = <<>>

-----------------------------------------------------------------------------
(* Bytes.  An int has 32 bits; >> keeps its sign, and a char is signed.    *)

Int32 == {i \in Int : -2147483647 - 1 <= i /\ i <= 2147483647}
Byte == 0..255
SignedChar == -128..127

(* Every code of protocol.h is a byte; size() of a string that is sent is  *)
(* cast to an int, so that a longer one could not be told.                 *)
ASSUME TokensAssumption ==
  /\ Codes \subseteq Byte
  /\ \A i \in Ints : i \in Int32
  /\ \A t \in Texts : t \in Seq(SignedChar) /\ Len(t) \in Int32

(* What is left of an int that is written as an unsigned char, and what an *)
(* unsigned char becomes as a char.                                        *)
ToByte(i) == i % 256
ToChar(b) == IF b >= 128 THEN b - 256 ELSE b

(* A faulty variant of send_int, which sends the low byte first. *)
send_int_low_first(value) ==
  <<ToByte(value), ToByte(value \div 256), ToByte(value \div 65536), ToByte(value \div 16777216)>>

send_int(value) ==
  <<ToByte(value \div 16777216), ToByte(value \div 65536), ToByte(value \div 256), ToByte(value)>>

(* b1 << 24 shifts into the sign of the int. *)
recv_int(b) == ToChar(b[1]) * 16777216 + b[2] * 65536 + b[3] * 256 + b[4]

PAR_STRING == 40
PAR_NUM == 41

(* send_code, send_int_parameter and send_string_parameter. *)
Bytes(token) ==
  LET value == token[2]
  IN  CASE token[1] = "code" -> <<ToByte(value)>>
        [] token[1] = "PAR_NUM" -> <<PAR_NUM>> \o send_int(value)
        [] token[1] = "PAR_STRING" ->
             <<PAR_STRING>> \o send_int(Len(value)) \o [i \in DOMAIN value |-> ToByte(value[i])]

-----------------------------------------------------------------------------
(* recv_code, recv_int_parameter and recv_string_parameter, as what they   *)
(* make of the bytes they have read.                                       *)

Number(bytes) == recv_int(SubSeq(bytes, 2, 5))

(* They throw ConnectionClosedException.                                   *)
Throws(kind, bytes) ==
  \/ kind = "PAR_NUM" /\ bytes[1] # PAR_NUM
  \/ kind = "PAR_STRING" /\ bytes[1] # PAR_STRING
  \/ kind = "PAR_STRING" /\ Len(bytes) = 5 /\ Number(bytes) < 0

(* Faulty variants of the two operators below: a string whose last byte is *)
(* taken from what comes next, and characters that are not signed.         *)
Returns_too_late(kind, bytes) ==
  CASE kind = "code" -> TRUE
    [] kind = "PAR_NUM" -> Len(bytes) = 5
    [] kind = "PAR_STRING" -> Len(bytes) >= 5 /\ Len(bytes) = 6 + Number(bytes)

Result_unsigned(kind, bytes) ==
  CASE kind = "code" -> <<"code", bytes[1]>>
    [] kind = "PAR_NUM" -> <<"PAR_NUM", Number(bytes)>>
    [] kind = "PAR_STRING" -> <<"PAR_STRING", SubSeq(bytes, 6, Len(bytes))>>

Returns(kind, bytes) ==
  CASE kind = "code" -> TRUE
    [] kind = "PAR_NUM" -> Len(bytes) = 5
    [] kind = "PAR_STRING" -> Len(bytes) >= 5 /\ Len(bytes) = 5 + Number(bytes)

Result(kind, bytes) ==
  CASE kind = "code" -> <<"code", bytes[1]>>
    [] kind = "PAR_NUM" -> <<"PAR_NUM", Number(bytes)>>
    [] kind = "PAR_STRING" ->
         <<"PAR_STRING", [i \in 1..Len(bytes) - 5 |-> ToChar(bytes[i + 5])]>>

-----------------------------------------------------------------------------
(* A send_ function is called once the one before has returned. *)
Send(token) ==
  /\ "writer" \notin gone
  /\ unwritten = <<>>
  /\ Len(sent) < Len(Format)
  /\ token[1] = Kind(Len(sent) + 1)
  /\ sent' = Append(sent, token)
  /\ unwritten' = Bytes(token)
  /\ UNCHANGED <<wire, gone, asked, got, received>>

(* send_byte. *)
WriteByte ==
  /\ "writer" \notin gone
  /\ unwritten # <<>>
  /\ \/ "reader" \in gone /\ UNCHANGED wire
     \/ "reader" \notin gone /\ Len(wire) < Room /\ wire' = Append(wire, Head(unwritten))
  /\ unwritten' = Tail(unwritten)
  /\ UNCHANGED <<sent, gone, asked, got, received>>

(* The reader knows whether a code or a parameter comes next, but may be   *)
(* wrong about the kind of parameter.                                      *)
Ask(kind) ==
  /\ "reader" \notin gone
  /\ asked = ""
  /\ Len(received) < Len(Format)
  /\ kind = "code" <=> Kind(Len(received) + 1) = "code"
  /\ asked' = kind
  /\ UNCHANGED <<sent, unwritten, wire, gone, got, received>>

(* The reader is out of its recv_ function. *)
Leaves == asked' = "" /\ got' = <<>>

(* The process that a ConnectionClosedException reaches closes its end; so *)
(* does one that ends for any reason.                                      *)
ReaderGoes ==
  /\ gone' = gone \cup {"reader"}
  /\ wire' = <<>>
  /\ Leaves
  /\ UNCHANGED received

(* recv_byte. *)
ReadByte ==
  /\ asked # ""
  /\ wire # <<>>
  /\ LET bytes == Append(got, Head(wire))
     IN  \/ Throws(asked, bytes) /\ ReaderGoes
         \/ /\ ~Throws(asked, bytes) /\ Returns(asked, bytes)
            /\ received' = Append(received, Result(asked, bytes))
            /\ wire' = Tail(wire)
            /\ Leaves
            /\ UNCHANGED gone
         \/ /\ ~Throws(asked, bytes) /\ ~Returns(asked, bytes)
            /\ got' = bytes
            /\ wire' = Tail(wire)
            /\ UNCHANGED <<gone, asked, received>>
  /\ UNCHANGED <<sent, unwritten>>

(* The end of the stream, or a reset. *)
ReadFails ==
  /\ asked # ""
  /\ "writer" \in gone
  /\ ReaderGoes
  /\ UNCHANGED <<sent, unwritten>>

(* Either process ends, in the middle of a token or not; a writer also     *)
(* when it finds the reader gone.                                          *)
WriterEnds ==
  /\ "writer" \notin gone
  /\ gone' = gone \cup {"writer"}
  /\ UNCHANGED <<sent, unwritten, wire, asked, got, received>>

ReaderEnds ==
  /\ "reader" \notin gone
  /\ ReaderGoes
  /\ UNCHANGED <<sent, unwritten>>

Next ==
  \/ \E token \in Tokens : Send(token)
  \/ WriteByte \/ WriterEnds
  \/ \E kind \in Kinds : Ask(kind)
  \/ ReadByte \/ ReadFails \/ ReaderEnds

Spec == Init /\ [][Next]_vars

-----------------------------------------------------------------------------
(* What is received has the types that the recv_ functions declare: every  *)
(* number an int, every character a char; what is on the wire is bytes.    *)
TypeOK ==
  /\ \A i \in DOMAIN received :
       CASE received[i][1] = "code" -> received[i][2] \in Byte
         [] received[i][1] = "PAR_NUM" -> received[i][2] \in Int32
         [] received[i][1] = "PAR_STRING" -> received[i][2] \in Seq(SignedChar)
  /\ wire \in Seq(Byte) /\ Len(wire) <= Room
  /\ gone \subseteq {"writer", "reader"}
  /\ asked \in Kinds \cup {""}
  /\ asked = "" => got = <<>>

(* The tokens that are written to their last byte. *)
Complete == IF unwritten = <<>> THEN sent ELSE SubSeq(sent, 1, Len(sent) - 1)

InFlight == IF "reader" \in gone THEN <<>> ELSE SubSeq(Complete, Len(received) + 1, Len(Complete))

State(end) == IF end \in gone THEN "closed" ELSE "open"

Net == INSTANCE Sockets WITH
  Clients <- {"c"}, Capacity <- Len(Format) + 1, ListenBacklog <- 0,
  inbox <- [c \in {"c"} |-> [client |-> <<>>, server |-> InFlight]],
  ends <- [c \in {"c"} |-> [client |-> State("writer"), server |-> State("reader")]],
  backlog <- <<>>

(* What the callers of the send_ and recv_ functions see of a step: one of *)
(* module Sockets on whole tokens.                                         *)
TokenStep ==
  \/ \E token \in Tokens : Net!Write("c", "client", token) /\ UNCHANGED received
  \/ /\ Net!Read("c", "server")
     /\ received' = Append(received, Head(InFlight))
  \/ Net!Hangup({"c"}, "client") /\ UNCHANGED received
  \/ Net!Hangup({"c"}, "server") /\ UNCHANGED received

(* Seen from the callers of the send_ and recv_ functions, the connection  *)
(* carries whole tokens, as in module Sockets: each token arrives as it    *)
(* was sent, bit for bit and in order; one that was cut off, or is not of  *)
(* the kind asked for, never arrives, but ends the connection.             *)
TokenChannel == [][TokenStep]_<<Net!netVars, received>>

(* A recv_ function of the right kind reads no further than the token that *)
(* was sent: while it waits in the middle of one, and the writer is there, *)
(* there are bytes of that token to come.                                  *)
NeverWaitsInVain ==
  got # <<>> /\ "writer" \notin gone /\ asked = Kind(Len(received) + 1) =>
    wire # <<>> \/ unwritten # <<>>

=============================================================================
