----------------------------- MODULE TcpStreams -----------------------------
(***************************************************************************)
(* The TCP connections of the reliable servicers, as the code in           *)
(* src/src/client/reliable.rs and src/src/server/reliable.rs uses them     *)
(* (external: the operating system's sockets).                             *)
(*                                                                         *)
(* A stream keeps the order of what is written and loses nothing while     *)
(* both ends are open.  A read takes what fits the buffer it is given, and *)
(* the code decodes one message from the front of it: more messages in the *)
(* same read are lost.  buf_len is the number of messages the buffers of a *)
(* build hold.  The source passes an empty Vec, which is buf_len = 0: such *)
(* a read returns no bytes and takes none.  The other values are the same  *)
(* program with a buffer that holds something.                             *)
(***************************************************************************)
EXTENDS Integers, Sequences

CONSTANTS Clients,  \* connections made by the Client of this crate
          Peers,    \* connections made by other programs
          ReadLens, \* the buffer lengths to consider, in messages
          MaxSent,  \* bound: messages the server's application sends
          MaxUp     \* bound: messages a peer sends

Conns == Clients \cup Peers

ASSUME StreamsAssumption ==
  Clients \cap Peers = {} /\ ReadLens \subseteq Nat /\ MaxSent \in Nat /\ MaxUp \in Nat

VARIABLES
  buf_len,    \* length of the read buffers: chosen once, never changed
  client_end, \* the client's end of each connection: "none", "open", "closed"
  server_end, \* the server's: "none", "backlog" (not accepted), "open", "closed"
  up,         \* bytes under way to the server, as a sequence of messages
  down        \* bytes under way to the client

streamVars == <<buf_len, client_end, server_end, up, down>>

StreamsInit ==
  /\ buf_len \in ReadLens
  /\ client_end = [p \in Conns |-> "none"]
  /\ server_end = [p \in Conns |-> "none"]
  /\ up = [p \in Conns |-> << >>]
  /\ down = [p \in Conns |-> << >>]

-----------------------------------------------------------------------------
(***************************************************************************)
(* msg::reliable::ClientMessage, msg::reliable::ServerMessage and, in what *)
(* the servicers tell the application, ClientData.  What an application    *)
(* sends is numbered; id 0 is what a servicer sends of its own.            *)
(***************************************************************************)
JoinRequest             == [type |-> "JoinRequest", id |-> 0]
ClientChat(id)          == [type |-> "ChatMessage", id |-> id]
Confirmation(id)        == [type |-> "Confirmation", id |-> id]
AuthenticationError(id) == [type |-> "AuthenticationError", id |-> id]
ServerChat(id)          == [type |-> "ChatMessage", id |-> id]
ClientData              == [type |-> "ClientData", id |-> 0]

-----------------------------------------------------------------------------
\* TcpStream::connect to a bound listener, followed by a first write.
OpenAndWrite(p, messages) ==
  /\ client_end' = [client_end EXCEPT ![p] = "open"]
  /\ server_end' = [server_end EXCEPT ![p] = "backlog"]
  /\ up' = [up EXCEPT ![p] = messages]
  /\ UNCHANGED <<buf_len, down>>

\* A TcpStream is dropped.
CloseClientEnd(p) ==
  /\ client_end' = [client_end EXCEPT ![p] = "closed"]
  /\ UNCHANGED <<buf_len, server_end, up, down>>

CloseServerEnds(ps) ==
  /\ server_end' = [p \in Conns |-> IF p \in ps THEN "closed" ELSE server_end[p]]
  /\ UNCHANGED <<buf_len, client_end, up, down>>

\* write by the server.  What is written to a closed connection goes nowhere.
WriteDown(p, m) ==
  /\ down' = [down EXCEPT ![p] = Append(@, m)]
  /\ UNCHANGED <<buf_len, client_end, server_end, up>>

\* write by a program at the other end.
WriteUp(p, m) ==
  /\ up' = [up EXCEPT ![p] = Append(@, m)]
  /\ UNCHANGED <<buf_len, client_end, server_end, down>>

\* read: n of the messages under way are taken, the first of them is decoded.
ReadUp(p, m) ==
  \E n \in 1..buf_len :
     /\ n <= Len(up[p])
     /\ m = up[p][1]
     /\ up' = [up EXCEPT ![p] = SubSeq(@, n + 1, Len(@))]
     /\ UNCHANGED <<buf_len, client_end, server_end, down>>

ReadDown(p, m) ==
  \E n \in 1..buf_len :
     /\ n <= Len(down[p])
     /\ m = down[p][1]
     /\ down' = [down EXCEPT ![p] = SubSeq(@, n + 1, Len(@))]
     /\ UNCHANGED <<buf_len, client_end, server_end, up>>

\* read gives no bytes or an error: an empty buffer; the end of the stream;
\* a reset, which an end sends that is closed with bytes unread.
UpReadsNothing(p) ==
  buf_len = 0 \/ (client_end[p] = "closed" /\ (up[p] = << >> \/ down[p] # << >>))

DownReadsNothing(p) ==
  buf_len = 0 \/ (server_end[p] = "closed" /\ (down[p] = << >> \/ up[p] # << >>))

\* A blocking read certainly returns; with an empty buffer it may sooner.
UpReadable(p)   == up[p] # << >> \/ client_end[p] = "closed"
DownReadable(p) == down[p] # << >> \/ server_end[p] = "closed"
=============================================================================
