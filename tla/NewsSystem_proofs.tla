------------------------- MODULE NewsSystem_proofs --------------------------
(***************************************************************************)
(* The descriptors of the newsserver, for any number of clients, any       *)
(* backlog and any limit, with kills wherever NewsSystem has them.         *)
(***************************************************************************)
EXTENDS NewsSystem, FiniteSetTheorems, SequenceTheorems, WellFoundedInduction, TLAPS

-----------------------------------------------------------------------------
(* Sequences that hold each of their elements once.                        *)

Distinct(s) == \A i, j \in DOMAIN s : s[i] = s[j] => i = j

(* push_back of an element that is not there. *)
LEMMA AppendDistinct ==
  ASSUME NEW S, NEW s \in Seq(S), NEW x \in S, x \notin ToSet(s), Distinct(s)
  PROVE  /\ Append(s, x) \in Seq(S)
         /\ Distinct(Append(s, x))
         /\ ToSet(Append(s, x)) = ToSet(s) \cup {x}
         /\ Len(Append(s, x)) = Len(s) + 1
<1> DEFINE t == Append(s, x)
<1>1. t \in Seq(S) /\ Len(t) = Len(s) + 1 /\ t[Len(s) + 1] = x
      /\ \A i \in 1..Len(s) : t[i] = s[i]
  OBVIOUS
<1>2. DOMAIN s = 1..Len(s) /\ DOMAIN t = 1..Len(t) /\ Len(s) \in Nat
  BY <1>1
<1> HIDE DEF t
<1>3. Distinct(t)
  BY <1>1, <1>2 DEF Distinct, ToSet
<1>4. ToSet(t) = ToSet(s) \cup {x}
  BY <1>1, <1>2 DEF ToSet
<1>5. QED
  BY <1>1, <1>3, <1>4 DEF t

(* The oldest element of a queue is taken out. *)
LEMMA TailDistinct ==
  ASSUME NEW S, NEW s \in Seq(S), s # <<>>, Distinct(s)
  PROVE  /\ Tail(s) \in Seq(S)
         /\ Distinct(Tail(s))
         /\ ToSet(Tail(s)) = ToSet(s) \ {Head(s)}
         /\ Head(s) \in ToSet(s)
<1> DEFINE t == Tail(s)
<1>1. t \in Seq(S) /\ Len(t) = Len(s) - 1 /\ Len(s) \in Nat \ {0} /\ Head(s) = s[1]
      /\ \A i \in 1..Len(s) - 1 : t[i] = s[i + 1]
  OBVIOUS
<1>2. DOMAIN s = 1..Len(s) /\ DOMAIN t = 1..Len(t)
  BY <1>1
<1> HIDE DEF t
<1>3. Distinct(t)
  BY <1>1, <1>2, SMTT(30) DEF Distinct
<1>4. ASSUME NEW x \in ToSet(s), x # s[1] PROVE x \in ToSet(t)
  <2>1. PICK i \in 2..Len(s) : s[i] = x
    BY <1>1, <1>2, <1>4 DEF ToSet
  <2>2. i - 1 \in DOMAIN t /\ t[i - 1] = x
    BY <1>1, <1>2, <2>1
  <2>3. QED
    BY <2>2 DEF ToSet
<1>5. ASSUME NEW x \in ToSet(t) PROVE x \in ToSet(s) /\ x # s[1]
  <2>1. PICK i \in 1..Len(s) - 1 : t[i] = x
    BY <1>1, <1>2 DEF ToSet
  <2>2. i + 1 \in DOMAIN s /\ s[i + 1] = x
    BY <1>1, <1>2, <2>1
  <2>3. QED
    BY <1>1, <1>2, <2>2, SMTT(30) DEF ToSet, Distinct
<1>6. QED
  BY <1>1, <1>2, <1>3, <1>4, <1>5, SMTT(30) DEF t, ToSet

(* One position is erased. *)
LEMMA RemoveDistinct ==
  ASSUME NEW S, NEW s \in Seq(S), Distinct(s), NEW k \in DOMAIN s
  PROVE  /\ RemoveAt(s, k) \in Seq(S)
         /\ Distinct(RemoveAt(s, k))
         /\ ToSet(RemoveAt(s, k)) = ToSet(s) \ {s[k]}
         /\ Len(RemoveAt(s, k)) = Len(s) - 1
<1> DEFINE t == RemoveAt(s, k)
<1>1. Len(s) \in Nat /\ k \in 1..Len(s) /\ DOMAIN s = 1..Len(s)
  OBVIOUS
<1>2. SubSeq(s, 1, k - 1) \in Seq(S) /\ Len(SubSeq(s, 1, k - 1)) = k - 1
      /\ \A i \in 1..k - 1 : SubSeq(s, 1, k - 1)[i] = s[i]
  BY <1>1
<1>3. SubSeq(s, k + 1, Len(s)) \in Seq(S) /\ Len(SubSeq(s, k + 1, Len(s))) = Len(s) - k
      /\ \A i \in 1..Len(s) - k : SubSeq(s, k + 1, Len(s))[i] = s[k + i]
  BY <1>1
<1>4. t \in Seq(S) /\ Len(t) = Len(s) - 1
      /\ \A i \in 1..Len(s) - 1 : t[i] = IF i < k THEN s[i] ELSE s[i + 1]
  <2> DEFINE a == SubSeq(s, 1, k - 1)
             b == SubSeq(s, k + 1, Len(s))
  <2>1. t = a \o b
    BY DEF RemoveAt
  <2> HIDE DEF a, b, t
  <2>2. a \in Seq(S) /\ b \in Seq(S) /\ Len(a) = k - 1 /\ Len(b) = Len(s) - k
        /\ (\A i \in 1..k - 1 : a[i] = s[i]) /\ (\A i \in 1..Len(s) - k : b[i] = s[k + i])
    BY <1>2, <1>3 DEF a, b
  <2>3. t \in Seq(S) /\ Len(t) = Len(s) - 1
        /\ \A i \in 1..Len(s) - 1 : t[i] = IF i <= k - 1 THEN a[i] ELSE b[i - (k - 1)]
    <3>1. /\ t \in Seq(S)
          /\ Len(t) = Len(a) + Len(b)
          /\ \A i \in 1..Len(a) + Len(b) : t[i] = IF i <= Len(a) THEN a[i] ELSE b[i - Len(a)]
      BY <2>1, <2>2, ConcatProperties
    <3>2. Len(a) + Len(b) = Len(s) - 1 /\ Len(a) = k - 1
      BY <1>1, <2>2
    <3>3. QED
      BY <3>1, <3>2
  <2>4. ASSUME NEW i \in 1..Len(s) - 1 PROVE t[i] = IF i < k THEN s[i] ELSE s[i + 1]
    <3>1. CASE i < k
      BY <1>1, <2>2, <2>3, <3>1
    <3>2. CASE ~(i < k)
      <4>1. i - (k - 1) \in 1..Len(s) - k /\ k + (i - (k - 1)) = i + 1
        BY <1>1, <3>2
      <4>2. b[i - (k - 1)] = s[i + 1]
        BY <2>2, <4>1
      <4>3. QED
        BY <1>1, <2>3, <3>2, <4>2
    <3>3. QED
      BY <3>1, <3>2
  <2>5. QED
    BY <2>3, <2>4
<1>5. DOMAIN t = 1..Len(s) - 1
  BY <1>1, <1>4
<1> HIDE DEF t
<1>6. Distinct(t)
  <2>1. SUFFICES ASSUME NEW i \in 1..Len(s) - 1, NEW j \in 1..Len(s) - 1, t[i] = t[j]
                 PROVE  i = j
    BY <1>5 DEF Distinct
  <2> DEFINE m == IF i < k THEN i ELSE i + 1
             n == IF j < k THEN j ELSE j + 1
  <2>2. t[i] = s[m] /\ t[j] = s[n]
    BY <1>4
  <2>3. m \in DOMAIN s /\ n \in DOMAIN s
    BY <1>1
  <2>4. m = n
    BY <2>1, <2>2, <2>3 DEF Distinct
  <2>5. QED
    BY <1>1, <2>4
<1>7. ASSUME NEW x \in ToSet(s), x # s[k] PROVE x \in ToSet(t)
  <2>1. PICK i \in 1..Len(s) : s[i] = x /\ i # k
    BY <1>1, <1>7 DEF ToSet
  <2>2. CASE i < k
    BY <1>1, <1>4, <1>5, <2>1, <2>2 DEF ToSet
  <2>3. CASE i > k
    <3>1. i - 1 \in 1..Len(s) - 1 /\ t[i - 1] = s[i]
      BY <1>1, <1>4, <2>1, <2>3
    <3>2. QED
      BY <1>5, <2>1, <3>1 DEF ToSet
  <2>4. QED
    BY <1>1, <2>1, <2>2, <2>3
<1>8. ASSUME NEW x \in ToSet(t) PROVE x \in ToSet(s) /\ x # s[k]
  <2>1. PICK i \in 1..Len(s) - 1 : t[i] = x
    BY <1>5 DEF ToSet
  <2>2. PICK j \in 1..Len(s) : s[j] = x /\ j # k
    BY <1>1, <1>4, <2>1
  <2>3. QED
    BY <1>1, <2>2 DEF ToSet, Distinct
<1>9. QED
  BY <1>1, <1>4, <1>6, <1>7, <1>8 DEF t, ToSet

(* As many elements as positions. *)
LEMMA DistinctCardinality ==
  ASSUME NEW S, NEW s \in Seq(S), Distinct(s)
  PROVE  IsFiniteSet(ToSet(s)) /\ Cardinality(ToSet(s)) = Len(s)
<1>1. Len(s) \in Nat /\ DOMAIN s = 1..Len(s)
  OBVIOUS
<1>2. s \in [1..Len(s) -> ToSet(s)]
  BY <1>1 DEF ToSet
<1>3. s \in Bijection(1..Len(s), ToSet(s))
  BY <1>1, <1>2 DEF Distinct, ToSet, Bijection, Injection, Surjection, IsInjective
<1>4. ExistsBijection(1..Len(s), ToSet(s))
  BY <1>3 DEF ExistsBijection
<1>5. QED
  BY <1>1, <1>4, FS_CountingElements, FS_NatBijection

-----------------------------------------------------------------------------
(* The inductive invariant: a connection is registered, waits to be        *)
(* registered or waits to be accepted, one of the three and once, and its  *)
(* end is open exactly then.  SocketsAccounted does not say that the three *)
(* exclude each other, without which closing a registered connection could *)
(* close one that waits.                                                   *)
Free == {"down", "select", "register"}

DescriptorInv ==
  /\ connections \in Seq(Clients) /\ Distinct(connections)
  /\ backlog \in Seq(Clients) /\ Distinct(backlog)
  /\ pending_socket \subseteq Clients
  /\ pending_socket # {} <=> phase = "register"
  /\ \A c, d \in pending_socket : c = d
  /\ ToSet(connections) \cap ToSet(backlog) = {}
  /\ pending_socket \cap (ToSet(connections) \cup ToSet(backlog)) = {}
  /\ ends \in [Clients -> [Ends -> {"open", "closed"}]]
  /\ \A c \in Clients : ends[c]["server"] = "open" <=> c \in Held
  /\ Len(connections) <= MaxSockets
  /\ phase = "register" => Len(connections) < MaxSockets
  /\ serving \subseteq ToSet(connections)
  /\ \A c, d \in serving : c = d
  /\ serving = {} <=> phase \in Free

(* What most steps leave alone. *)
SocketsStay ==
  /\ UNCHANGED <<ends, backlog, connections, pending_socket>>
  /\ phase' = "register" <=> phase = "register"
  /\ serving' \subseteq serving
  /\ serving' = {} <=> phase' \in Free

LEMMA SocketsStayInv ==
  ASSUME DescriptorInv, SocketsStay
  PROVE  DescriptorInv'
<1>1. /\ ToSet(connections') = ToSet(connections) /\ ToSet(backlog') = ToSet(backlog)
      /\ Distinct(connections') = Distinct(connections) /\ Distinct(backlog') = Distinct(backlog)
  BY DEF SocketsStay
<1>2. Held' = Held
  BY <1>1 DEF SocketsStay, Held
<1>3. QED
  BY <1>1, <1>2 DEF DescriptorInv, SocketsStay

(* No operation's handler waits for a registration. *)
LEMMA ServingSteps ==
  ASSUME DescriptorInv, NEW c \in serving,
         RecvCommand(c) \/ SendAns(c) \/ RecvParam(c) \/ CallDatabase(c)
           \/ SendAnswer(c) \/ RecvEnd(c)
  PROVE  SocketsStay
<1>1. CASE RecvCommand(c)
  BY <1>1 DEF RecvCommand, ReadExpected, Read, SocketsStay, Free, Reading
<1>2. CASE SendAns(c)
  BY <1>2 DEF SendAns, Write, PhaseAfter, SocketsStay, Free, Reading
<1>3. CASE RecvParam(c)
  BY <1>3 DEF RecvParam, ReadExpected, Read, PhaseAfter, SocketsStay, Free, Reading
<1>4. CASE CallDatabase(c)
  BY <1>4 DEF CallDatabase, netVars, SocketsStay, Free, Reading
<1>5. CASE SendAnswer(c)
  BY <1>5 DEF SendAnswer, Write, AfterAnswer, SocketsStay, Free, Reading
<1>6. CASE RecvEnd(c)
  BY <1>6 DEF RecvEnd, ReadExpected, Read, Idle, SocketsStay, Free, Reading
<1>7. QED
  BY <1>1, <1>2, <1>3, <1>4, <1>5, <1>6

(* All descriptors are closed with the process. *)
LEMMA ExitInv ==
  ASSUME DescriptorInv, Exit
  PROVE  DescriptorInv'
<1>1. /\ phase' = "down" /\ connections' = <<>> /\ backlog' = <<>> /\ pending_socket' = {}
      /\ serving' = {}
      /\ ends' = [c \in Clients |->
                    IF c \in Held THEN [ends[c] EXCEPT !["server"] = "closed"] ELSE ends[c]]
  BY DEF Exit, Hangup, Idle
<1>2. ends' \in [Clients -> [Ends -> {"open", "closed"}]]
  BY <1>1 DEF DescriptorInv, Ends
<1>3. \A c \in Clients : ends'[c]["server"] = "closed"
  BY <1>1 DEF DescriptorInv, Ends
<1>4. ToSet(connections') = {} /\ ToSet(backlog') = {} /\ Held' = {}
  BY <1>1 DEF ToSet, Held
<1>5. Distinct(connections') /\ Distinct(backlog')
  BY <1>1 DEF Distinct
<1>6. Len(connections') <= MaxSockets
  BY <1>1, MaxSocketsAssumption
<1>7. connections' \in Seq(Clients) /\ backlog' \in Seq(Clients)
  BY <1>1
<1>8. QED
  BY <1>1, <1>2, <1>3, <1>4, <1>5, <1>6, <1>7 DEF DescriptorInv, Free

(* What accept counts: while no connection waits to be registered, the     *)
(* open descriptors are those of the vector.                               *)
LEMMA DescriptorsAreRegistered ==
  ASSUME DescriptorInv, pending_socket = {}
  PROVE  Cardinality(Descriptors) = Len(connections)
<1>1. ToSet(connections) \subseteq Clients
  BY DEF DescriptorInv, ToSet
<1>2. Descriptors = ToSet(connections)
  BY <1>1 DEF DescriptorInv, Descriptors, Held
<1>3. QED
  BY <1>2, DistinctCardinality DEF DescriptorInv

(* A connection goes from the backlog to the pending socket ... *)
LEMMA AcceptInv ==
  ASSUME DescriptorInv, AcceptClient
  PROVE  DescriptorInv'
<1>1. /\ phase = "select" /\ phase' = "register" /\ backlog # <<>>
      /\ Cardinality(Descriptors) < MaxSockets
      /\ pending_socket' = {Head(backlog)} /\ backlog' = Tail(backlog)
      /\ UNCHANGED <<ends, connections, serving>>
  BY DEF AcceptClient, Accept
<1>2. pending_socket = {} /\ Len(connections) < MaxSockets
  <2>1. pending_socket = {}
    BY <1>1 DEF DescriptorInv
  <2>2. QED
    BY <1>1, <2>1, DescriptorsAreRegistered
<1>3. /\ backlog' \in Seq(Clients) /\ Distinct(backlog')
      /\ ToSet(backlog') = ToSet(backlog) \ {Head(backlog)}
      /\ Head(backlog) \in ToSet(backlog) /\ Head(backlog) \in Clients
  BY <1>1, TailDistinct DEF DescriptorInv
<1>4. connections' = connections /\ ToSet(connections') = ToSet(connections)
      /\ Distinct(connections') = Distinct(connections)
  BY <1>1
<1>5. Held' = Held
  BY <1>1, <1>2, <1>3, <1>4 DEF Held
<1>6. QED
  BY <1>1, <1>2, <1>3, <1>4, <1>5, MaxSocketsAssumption DEF DescriptorInv, Free

(* ... and from there to the vector. *)
LEMMA RegisterInv ==
  ASSUME DescriptorInv, RegisterConnection
  PROVE  DescriptorInv'
<1>1. PICK c \in pending_socket : connections' = Append(connections, c)
  BY DEF RegisterConnection, Register
<1>2. /\ phase = "register" /\ phase' = "select" /\ pending_socket' = {}
      /\ UNCHANGED <<ends, backlog, serving>>
  BY DEF RegisterConnection, Register, netVars
<1>3. c \in Clients /\ c \notin ToSet(connections) /\ pending_socket = {c}
  BY DEF DescriptorInv
<1>4. /\ connections' \in Seq(Clients) /\ Distinct(connections')
      /\ ToSet(connections') = ToSet(connections) \cup {c}
      /\ Len(connections') = Len(connections) + 1
  BY <1>1, <1>3, AppendDistinct DEF DescriptorInv
<1>5. Len(connections') <= MaxSockets
  BY <1>2, <1>4, MaxSocketsAssumption DEF DescriptorInv
<1>6. ToSet(backlog') = ToSet(backlog) /\ Distinct(backlog') = Distinct(backlog)
  BY <1>2
<1>7. Held' = Held
  BY <1>2, <1>3, <1>4, <1>6 DEF Held
<1>8. QED
  BY <1>2, <1>3, <1>4, <1>5, <1>6, <1>7 DEF DescriptorInv, Free

(* The connection that is dropped is one of the vector, and of no other. *)
LEMMA DropInv ==
  ASSUME DescriptorInv, NEW c \in serving, Drop(c)
  PROVE  DescriptorInv'
<1>1. PICK k \in DOMAIN connections :
        connections[k] = c /\ connections' = RemoveAt(connections, k)
  BY DEF Drop, Deregister, Erase
<1>2. /\ phase' = "select" /\ serving' = {} /\ UNCHANGED <<backlog, pending_socket>>
      /\ ends' = [d \in Clients |->
                    IF d = c THEN [ends[d] EXCEPT !["server"] = "closed"] ELSE ends[d]]
  BY DEF Drop, Deregister, Hangup, Idle
<1>3. /\ connections' \in Seq(Clients) /\ Distinct(connections')
      /\ ToSet(connections') = ToSet(connections) \ {c}
      /\ Len(connections') = Len(connections) - 1
  BY <1>1, RemoveDistinct DEF DescriptorInv
<1>4. c \in ToSet(connections) /\ c \in Clients
  BY <1>1 DEF DescriptorInv, ToSet
<1>5. c \notin ToSet(backlog) \cup pending_socket
  BY <1>4 DEF DescriptorInv
<1>6. ToSet(backlog') = ToSet(backlog) /\ Distinct(backlog') = Distinct(backlog)
  BY <1>2
<1>7. Held' = Held \ {c}
  BY <1>2, <1>3, <1>4, <1>5, <1>6 DEF Held
<1>8. ends' \in [Clients -> [Ends -> {"open", "closed"}]]
      /\ \A d \in Clients : ends'[d]["server"] = IF d = c THEN "closed" ELSE ends[d]["server"]
  BY <1>2 DEF DescriptorInv, Ends
<1>9. Len(connections') <= MaxSockets
  BY <1>3, MaxSocketsAssumption DEF DescriptorInv
<1>10. pending_socket = {} /\ phase # "register"
  BY DEF DescriptorInv, Free
<1>11. QED
  BY <1>2, <1>3, <1>4, <1>5, <1>6, <1>7, <1>8, <1>9, <1>10 DEF DescriptorInv, Free

(* find_if: among the connections that are ready there is a first one.     *)
LEMMA FirstReadyIs ==
  ASSUME ReadyConnections # {}, connections \in Seq(Clients)
  PROVE  /\ FirstReady \in ReadyConnections
         /\ \A j \in ReadyConnections : FirstReady <= j
<1> DEFINE R == OpToRel(<, Nat)
<1>1. IsWellFoundedOn(R, Nat)
  BY NatLessThanWellFounded
<1>2. \A x, y \in Nat : <<y, x>> \in R <=> y < x
  BY DEF OpToRel
<1> HIDE DEF R
<1>3. ReadyConnections \subseteq Nat
  BY DEF ReadyConnections
<1>4. PICK x \in ReadyConnections : \A y \in ReadyConnections : ~(<<y, x>> \in R)
  BY <1>1, <1>3, WFMin
<1>5. ASSUME NEW y \in ReadyConnections PROVE x <= y
  <2>1. x \in Nat /\ y \in Nat /\ ~(y < x)
    BY <1>2, <1>3, <1>4
  <2>2. QED
    BY <2>1
<1>6. QED
  BY <1>4, <1>5 DEF FirstReady

(* Whom select finds is registered. *)
LEMMA WaitInv ==
  ASSUME DescriptorInv, WaitForCommand
  PROVE  DescriptorInv'
<1>1. /\ phase = "select" /\ phase' = "command"
      /\ UNCHANGED <<connections, pending_socket, ends, backlog>>
      /\ serving' = {connections[FirstReady]}
      /\ connections[FirstReady] \in ToSet(connections)
  BY FirstReadyIs DEF WaitForCommand, netVars, ReadyConnections, ToSet, DescriptorInv
<1>2. /\ ToSet(connections') = ToSet(connections) /\ ToSet(backlog') = ToSet(backlog)
      /\ Distinct(connections') = Distinct(connections) /\ Distinct(backlog') = Distinct(backlog)
  BY <1>1
<1>3. Held' = Held
  BY <1>1, <1>2 DEF Held
<1>4. QED
  BY <1>1, <1>2, <1>3 DEF DescriptorInv, Free

(* A connection that the kernel completes is new to the process. *)
LEMMA ConnectInv ==
  ASSUME DescriptorInv, NEW c \in Clients, Connect(c), UNCHANGED serverVars
  PROVE  DescriptorInv'
<1>1. UNCHANGED <<connections, pending_socket, phase, serving>>
  BY DEF serverVars
<1>2. /\ ends[c]["server"] = "closed" /\ backlog' = Append(backlog, c)
      /\ ends' = [ends EXCEPT ![c] = [end \in Ends |-> "open"]]
  BY DEF Connect
<1>3. c \notin Held
  BY <1>2 DEF DescriptorInv
<1>4. /\ backlog' \in Seq(Clients) /\ Distinct(backlog')
      /\ ToSet(backlog') = ToSet(backlog) \cup {c}
  BY <1>2, <1>3, AppendDistinct DEF DescriptorInv, Held
<1>5. ToSet(connections') = ToSet(connections) /\ Distinct(connections') = Distinct(connections)
  BY <1>1
<1>6. Held' = Held \cup {c}
  BY <1>1, <1>4, <1>5 DEF Held
<1>7. ends' \in [Clients -> [Ends -> {"open", "closed"}]]
      /\ \A d \in Clients : ends'[d]["server"] = IF d = c THEN "open" ELSE ends[d]["server"]
  BY <1>2 DEF DescriptorInv, Ends
<1>8. QED
  BY <1>1, <1>3, <1>4, <1>5, <1>6, <1>7 DEF DescriptorInv, Held

(* A client that leaves closes its own end, which tells nobody. *)
LEMMA LeaveInv ==
  ASSUME DescriptorInv, NEW c \in Clients, Leave(c), UNCHANGED serverVars
  PROVE  DescriptorInv'
<1>1. UNCHANGED <<connections, pending_socket, phase, serving, backlog>>
  BY DEF serverVars, Leave
<1>2. ends' = [d \in Clients |->
                IF d \in {c} THEN [ends[d] EXCEPT !["client"] = "closed"] ELSE ends[d]]
  BY DEF Leave, Hangup
<1>3. ends' \in [Clients -> [Ends -> {"open", "closed"}]]
      /\ \A d \in Clients : ends'[d]["server"] = ends[d]["server"]
  BY <1>2 DEF DescriptorInv, Ends
<1>4. /\ ToSet(connections') = ToSet(connections) /\ ToSet(backlog') = ToSet(backlog)
      /\ Distinct(connections') = Distinct(connections) /\ Distinct(backlog') = Distinct(backlog)
  BY <1>1
<1>5. Held' = Held
  BY <1>1, <1>4 DEF Held
<1>6. QED
  BY <1>1, <1>3, <1>4, <1>5 DEF DescriptorInv

LEMMA DescriptorInit ==
  Init => DescriptorInv
<1> SUFFICES ASSUME Init PROVE DescriptorInv
  OBVIOUS
<1>1. /\ connections = <<>> /\ backlog = <<>> /\ pending_socket = {} /\ serving = {}
      /\ phase = "down" /\ ends = [c \in Clients |-> [end \in Ends |-> "closed"]]
  BY DEF Init, SocketsInit, ServerInit
<1>2. ToSet(connections) = {} /\ ToSet(backlog) = {} /\ Held = {}
      /\ Distinct(connections) /\ Distinct(backlog)
  BY <1>1 DEF ToSet, Held, Distinct
<1>3. ends \in [Clients -> [Ends -> {"open", "closed"}]]
      /\ \A c \in Clients : ends[c]["server"] = "closed"
  BY <1>1 DEF Ends
<1>4. connections \in Seq(Clients) /\ backlog \in Seq(Clients) /\ Len(connections) <= MaxSockets
  BY <1>1, MaxSocketsAssumption
<1>5. QED
  BY <1>1, <1>2, <1>3, <1>4 DEF DescriptorInv, Free

LEMMA DescriptorStep ==
  DescriptorInv /\ [Next]_vars => DescriptorInv'
<1> SUFFICES ASSUME DescriptorInv, [Next]_vars PROVE DescriptorInv'
  OBVIOUS
<1> USE DEF Free
<1>1. CASE ServerNext
  <2>1. CASE Start
    <3>1. SocketsStay
      BY <2>1 DEF Start, netVars, SocketsStay, DescriptorInv
    <3>2. QED
      BY <3>1, SocketsStayInv
  <2>2. CASE AcceptClient
    BY <2>2, AcceptInv
  <2>3. CASE AcceptFails
    BY <2>3, ExitInv DEF AcceptFails
  <2>4. CASE WaitForCommand
    BY <2>4, WaitInv
  <2>5. CASE RegisterConnection
    BY <2>5, RegisterInv
  <2>6. ASSUME NEW c \in serving, ServeStep(c) PROVE DescriptorInv'
    BY <2>6, ServingSteps, SocketsStayInv, DropInv DEF ServeStep
  <2>7. QED
    BY <1>1, <2>1, <2>2, <2>3, <2>4, <2>5, <2>6 DEF ServerNext, ServerStep
<1>2. CASE ServerDies
  BY <1>2, ExitInv DEF ServerDies, Die
<1>3. ASSUME NEW c \in Clients, UserNext(c) \/ ExchangeNext(c) PROVE DescriptorInv'
  <2>1. UNCHANGED serverVars
    BY <1>3 DEF UserNext, ExchangeNext, ClientDoes
  <2>2. CASE Connect(c)
    BY <2>1, <2>2, ConnectInv
  <2>3. CASE Leave(c)
    BY <2>1, <2>3, LeaveInv
  <2>4. CASE UNCHANGED <<ends, backlog>>
    <3>1. SocketsStay
      BY <2>1, <2>4 DEF serverVars, SocketsStay, DescriptorInv
    <3>2. QED
      BY <3>1, SocketsStayInv
  <2>5. Connect(c) \/ Leave(c) \/ UNCHANGED <<ends, backlog>>
    BY <1>3 DEF UserNext, ExchangeNext, ClientDoes, ConnectToServer, GiveCommand, Quit, Kill,
         Vanish, TimesOut, Exchange, Send, Recv, GivesUp, Write, Read, netVars
  <2>6. QED
    BY <2>2, <2>3, <2>4, <2>5
<1>4. CASE UNCHANGED vars
  <2>1. SocketsStay
    BY <1>4 DEF vars, netVars, serverVars, SocketsStay, DescriptorInv
  <2>2. QED
    BY <2>1, SocketsStayInv
<1>5. QED
  BY <1>1, <1>2, <1>3, <1>4 DEF Next

LEMMA DescriptorsAreSound ==
  Spec => []DescriptorInv
BY DescriptorInit, DescriptorStep, PTL DEF Spec

-----------------------------------------------------------------------------
(* The descriptors of the process are those of the connections it holds,   *)
(* each once: registerConnection, deregisterConnection and the end of the  *)
(* process leave no other end open and close none that is kept, and accept *)
(* is not called beyond the limit.                                         *)
THEOREM EverySocketIsAccounted ==
  Spec => []SocketsAccounted
<1>1. ASSUME DescriptorInv PROVE SocketsAccounted
  <2>1. Len(connections) = Cardinality(ToSet(connections))
    BY <1>1, DistinctCardinality DEF DescriptorInv
  <2>2. Len(connections) + Cardinality(pending_socket) <= MaxSockets
    <3>1. Len(connections) \in Nat
      BY <1>1 DEF DescriptorInv
    <3>2. CASE pending_socket = {}
      BY <1>1, <3>1, <3>2, FS_EmptySet, MaxSocketsAssumption DEF DescriptorInv
    <3>3. ASSUME NEW c \in pending_socket
          PROVE  Len(connections) + Cardinality(pending_socket) <= MaxSockets
      <4>1. pending_socket = {c} /\ Len(connections) < MaxSockets
        BY <1>1 DEF DescriptorInv
      <4>2. Cardinality(pending_socket) = 1
        BY <4>1, FS_Singleton
      <4>3. QED
        BY <3>1, <4>1, <4>2, MaxSocketsAssumption
    <3>4. QED
      BY <3>2, <3>3
  <2>3. QED
    BY <1>1, <2>1, <2>2 DEF SocketsAccounted, DescriptorInv
<1>2. QED
  BY <1>1, DescriptorsAreSound, PTL

(* The server ends by itself (AcceptFails) only with MaxSockets connections *)
(* in its vector: none of the descriptors that accept counts is taken by a *)
(* connection that it dropped.                                             *)
THEOREM AcceptFailsOnlyWhenFull ==
  Spec => ExitsOnlyWhenFull
<1>1. ASSUME DescriptorInv, AcceptFails PROVE Len(connections) >= MaxSockets
  <2>1. phase = "select" /\ Cardinality(Descriptors) >= MaxSockets
    BY <1>1 DEF AcceptFails
  <2>2. QED
    BY <1>1, <2>1, DescriptorsAreRegistered DEF DescriptorInv
<1>2. DescriptorInv => [AcceptFails => Len(connections) >= MaxSockets]_vars
  BY <1>1
<1>3. QED
  BY <1>2, DescriptorsAreSound, PTL DEF ExitsOnlyWhenFull

=============================================================================
