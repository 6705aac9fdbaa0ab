------------------------------ MODULE Sockets -------------------------------
(***************************************************************************)
(* The TCP connections between newsclient processes and the newsserver, as *)
(* class Connection and the socket calls of class Server use them.         *)
(*                                                                         *)
(* A newsclient process opens one connection in its life, so that its name *)
(* names the connection too; once both ends are closed the name is free    *)
(* for another process.  A connection has two ends, "client" and "server"; *)
(* what one end writes the other end reads, in order.  The kernel          *)
(* completes a connection and queues it in the backlog of the listening    *)
(* socket before the server accepts it, so that a client may write before  *)
(* the server knows of it.                                                 *)
(***************************************************************************)
EXTENDS Naturals, Sequences

CONSTANTS
  Clients,      \* newsclient processes
  Capacity,     \* tokens that fit into the buffers of one direction
  ListenBacklog \* the second argument of listen

ASSUME CapacityAssumption == Capacity \in Nat \ {0}

VARIABLES
  inbox,        \* inbox[c][end]: what this end of c's connection can still read
  ends,         \* ends[c][end]: is this end of c's connection "open" or "closed"?
  backlog       \* the connections that wait to be accepted, in order

netVars == <<inbox, ends, backlog>>

Ends == {"client", "server"}
Peer(end) == IF end = "client" THEN "server" ELSE "client"

SocketsInit ==
  /\ inbox = [c \in Clients |-> [end \in Ends |-> <<>>]]
  /\ ends = [c \in Clients |-> [end \in Ends |-> "closed"]]
  /\ backlog = <<>>

(* The other end will read nothing more and write nothing more. *)
HungUp(c, end) == ends[c][Peer(end)] = "closed"

(* select: a read would not block. *)
Readable(c, end) == inbox[c][end] # <<>> \/ HungUp(c, end)

(* Connection::write blocks while the buffers are full.  What is written   *)
(* to a closed connection is lost, or, once the peer's reset is here, the  *)
(* write fails and ConnectionClosedException is thrown (WriteFails).       *)
Write(c, end, token) ==
  /\ \/ /\ ~HungUp(c, end)
        /\ Len(inbox[c][Peer(end)]) < Capacity
        /\ inbox' = [inbox EXCEPT ![c][Peer(end)] = Append(@, token)]
     \/ /\ HungUp(c, end)
        /\ UNCHANGED inbox
  /\ UNCHANGED <<ends, backlog>>

WriteFails(c, end) == HungUp(c, end)

(* Connection::read blocks while there is nothing to read.  It throws at   *)
(* the end of the stream, or, after a reset, even with data in the buffer. *)
Read(c, end) ==
  /\ inbox[c][end] # <<>>
  /\ inbox' = [inbox EXCEPT ![c][end] = Tail(@)]
  /\ UNCHANGED <<ends, backlog>>

ReadFails(c, end) == HungUp(c, end)

(* What the end had not read is lost; the peer can read what was sent.     *)
Hangup(cs, end) ==
  /\ ends' = [c \in Clients |->
                IF c \in cs THEN [ends[c] EXCEPT ![end] = "closed"] ELSE ends[c]]
  /\ inbox' = [c \in Clients |->
                IF c \in cs THEN [inbox[c] EXCEPT ![end] = <<>>] ELSE inbox[c]]

(* connect: completed by the kernel while the listening socket has room.   *)
Connect(c) ==
  /\ Len(backlog) < ListenBacklog
  /\ ends[c]["server"] = "closed"
  /\ ends' = [ends EXCEPT ![c] = [end \in Ends |-> "open"]]
  /\ backlog' = Append(backlog, c)
  /\ UNCHANGED inbox

(* accept, which returns the oldest connection even if its client is gone. *)
Accept ==
  /\ backlog' = Tail(backlog)
  /\ UNCHANGED <<inbox, ends>>

=============================================================================
