------------------------------ MODULE Reliable ------------------------------
(***************************************************************************)
(* The reliable half: clients of ReliableClient and peers, which are other *)
(* programs that speak the same protocol, on one server of ReliableServer. *)
(***************************************************************************)
EXTENDS ReliableClient, ReliableServer

CONSTANTS ServerMayQuit, \* whether the server's application may call quit
          ServerMayDrop  \* whether it may drop the Server object without that

ASSUME MayAssumption == ServerMayQuit \in BOOLEAN /\ ServerMayDrop \in BOOLEAN

VARIABLE peer_sent \* bound counter: messages each peer has sent

vars == <<reliableVars, serverVars, streamVars, peer_sent>>

Init ==
  /\ StreamsInit /\ ReliableInit /\ ServerInit
  /\ peer_sent = [p \in Peers |-> 0]

-----------------------------------------------------------------------------
\* A peer connects, sends messages of either kind in any order, and leaves.
PeerConnects(p) ==
  /\ client_end[p] = "none" /\ listener_pc # "exited"
  /\ OpenAndWrite(p, << >>)
  /\ UNCHANGED peer_sent

PeerSends(p) ==
  /\ client_end[p] = "open" /\ peer_sent[p] < MaxUp
  /\ \E m \in {JoinRequest, ClientChat(peer_sent[p] + 1)} : WriteUp(p, m)
  /\ peer_sent' = [peer_sent EXCEPT ![p] = @ + 1]

PeerLeaves(p) ==
  /\ client_end[p] = "open"
  /\ CloseClientEnd(p)
  /\ UNCHANGED peer_sent

PeerStep(p) ==
  /\ PeerConnects(p) \/ PeerSends(p) \/ PeerLeaves(p)
  /\ UNCHANGED <<reliableVars, serverVars>>

-----------------------------------------------------------------------------
\* The steps of a client, its servicer thread's first; those of the server.
ClientReads(p) == ReceiveServerMessage(p) /\ UNCHANGED <<serverVars, peer_sent>>

ClientRuns(p) ==
  /\ Rest(p) \/ DropServicer(p) \/ SpawnServicers(p)
  /\ UNCHANGED <<serverVars, peer_sent>>

ClientStep(p) ==
  /\ \/ Connect(p) /\ listener_pc # "exited"
     \/ ConnectFails(p) \/ ReliableClientApp(p) \/ ClientProcessEnds(p)
  /\ UNCHANGED <<serverVars, peer_sent>>

ClientsSame == UNCHANGED <<reliableVars, peer_sent>>

Next ==
  \/ \E p \in Clients : ClientReads(p) \/ ClientRuns(p) \/ ClientStep(p)
  \/ \E p \in Peers : PeerStep(p)
  \/ /\ \/ \E p \in Conns : ServicerRuns(p) \/ ServicerReads(p)
        \/ Listener \/ ServerGoes
        \/ \E user \in User, kind \in AppKinds : SendReliable(user, kind)
        \/ ServerMayQuit /\ QuitStores
        \/ ServerMayDrop /\ DropReceiver
     /\ ClientsSame

Spec == Init /\ [][Next]_vars

(***************************************************************************)
(* Threads are scheduled, and a read returns when there is something to    *)
(* read or the other end has closed; until then it may block for ever,     *)
(* since the streams have no timeout.  accept does not fail for ever while *)
(* a connection waits.  Nothing is assumed of the applications and of the  *)
(* peers, except that a quit or a drop that has begun goes on.             *)
(***************************************************************************)
FairSpec ==
  /\ Spec
  /\ \A p \in Conns :
       /\ WF_vars(ServicerRuns(p) /\ ClientsSame)
       /\ WF_vars(UpReadable(p) /\ ServicerReads(p) /\ ClientsSame)
  /\ \A p \in Clients :
       /\ WF_vars(ClientRuns(p))
       /\ WF_vars(DownReadable(p) /\ ClientReads(p))
  /\ WF_vars(Listener /\ ClientsSame)
  /\ SF_vars((\E p \in Conns : Accept(p)) /\ ClientsSame)
  /\ WF_vars(ServerGoes /\ ClientsSame)

-----------------------------------------------------------------------------
Ids == 0..MaxSent
ClientMessages == {JoinRequest} \cup {ClientChat(id) : id \in 1..MaxUp}
ServerMessages == [type : {"Confirmation", "AuthenticationError", "ChatMessage"}, id : Ids]
Addressed == [to : User, payload : ServerMessages]

\* Type correctness; a batch is a local variable of spin_once.
TypeOK ==
  /\ buf_len \in ReadLens
  /\ client_end \in [Conns -> {"none", "open", "closed"}]
  /\ server_end \in [Conns -> {"none", "backlog", "open", "closed"}]
  /\ up \in [Conns -> Seq(ClientMessages)]
  /\ down \in [Conns -> Seq(ServerMessages)]
  /\ client_pc \in [Clients -> {"idle", "joining", "confirmed", "spinning", "resting",
                                "leaving", "ended"}]
  /\ client_app \in [Clients -> {"none", "up", "quit", "gone"}]
  /\ chat_in \in [Clients -> Seq(Ids)]
  /\ chat_out \in [Clients -> 0..MaxChatOut]
  /\ shutdown \in [Clients -> BOOLEAN]
  /\ taken \in [Clients -> Seq(Ids)]
  /\ running \in BOOLEAN
  /\ listener_pc \in {"starting", "accepting", "check", "joining", "exited"}
  /\ servicer_pc \in [Conns -> {"none", "join", "answer", "announce", "drain", "forward",
                                "read", "check", "ended"}]
  /\ queue \in Seq(Addressed)
  /\ batch \in [Conns -> Seq(Addressed)]
  /\ \A p \in Conns : batch[p] # << >> => servicer_pc[p] \in {"drain", "forward"}
  /\ to_application \in [Conns -> Seq({ClientData} \cup ClientMessages)]
  /\ server_app \in {"up", "quitting", "closing", "dropping", "gone"}
  /\ server_shutdown \in BOOLEAN
  /\ sent \in Seq(User) /\ Len(sent) <= MaxSent
  /\ peer_sent \in [Peers -> 0..MaxUp]

(***************************************************************************)
(* The way of the application's messages to one connection: given to the   *)
(* client's application, in its queue, on the stream, drained, not yet     *)
(* drained.                                                                *)
(***************************************************************************)
Received(p) == IF p \in Clients THEN taken[p] \o chat_in[p] ELSE << >>
Written(p)  == Received(p) \o [i \in DOMAIN down[p] |-> down[p][i].id]
Way(p) ==
  Written(p) \o [i \in DOMAIN batch[p] |-> batch[p][i].payload.id]
             \o [i \in DOMAIN queue |-> queue[i].payload.id]

\* Id 0 is the servicer's own Confirmation.
IdsIn(s) == {s[i] : i \in DOMAIN s} \ {0}

(***************************************************************************)
(* A connection gets its messages in the order of send_reliable, although  *)
(* the servicers take turns at the queue: nothing overtakes on the way.    *)
(***************************************************************************)
NothingOvertakes ==
  \A p \in Conns : \A i, j \in DOMAIN Way(p) :
     i < j /\ Way(p)[j] # 0 => Way(p)[i] < Way(p)[j]

\* What is written to a connection is for the user who joined on it.
OnlyOwnMessages ==
  \A p \in Conns : \A id \in IdsIn(Written(p)) : sent[id] = UserOf[p]

(***************************************************************************)
(* No message is delivered on two connections, also when one user has      *)
(* joined twice: each is taken from the shared queue once.                 *)
(***************************************************************************)
NeverOnTwoConnections ==
  \A p, q \in Conns : p # q => IdsIn(Written(p)) \cap IdsIn(Written(q)) = {}

(***************************************************************************)
(* "Otherwise, a simple Confirmation is sent before world states begin     *)
(* streaming" (src/src/msg.rs:99): a client that waits for the answer to   *)
(* its JoinRequest gets that answer before anything else.                  *)
(***************************************************************************)
ConfirmationFirst ==
  \A p \in Clients : client_pc[p] = "joining" =>
     /\ chat_in[p] = << >>
     /\ down[p] # << >> => down[p][1] = Confirmation(0)

(***************************************************************************)
(* A client that believes it has joined is known to the server's           *)
(* application, is about to be, or the application is gone.                *)
(***************************************************************************)
ConfirmedIsAnnounced ==
  \A p \in Clients : client_pc[p] \in {"confirmed", "spinning", "resting"} =>
     to_application[p] # << >> \/ servicer_pc[p] = "announce" \/ ~ReceiverAlive

(***************************************************************************)
(* The application is told of a client once and before anything the client *)
(* says, and gets what it says in the order in which it was said, whatever *)
(* else a peer sends and however its messages share a read.                *)
(***************************************************************************)
JoinThenChats ==
  \A p \in Conns : \A i \in DOMAIN to_application[p] :
     /\ (to_application[p][i] = ClientData) <=> (i = 1)
     /\ i > 1 => to_application[p][i - 1].id < to_application[p][i].id

(***************************************************************************)
(* Once announced to the application, a client is not cut off by the       *)
(* server while it runs: not by what the client sends, nor by a failed     *)
(* read or write, nor by an application that is gone.  (A Drop is meant to *)
(* "drop a client", src/src/msg.rs:45, but Servicer::spin only logs it.)   *)
(***************************************************************************)
OnlyQuitCutsOff ==
  \A p \in Conns :
     to_application[p] # << >> /\ server_end[p] = "closed" => ~running

(***************************************************************************)
(* The listener will "wait for each servicer to join"                      *)
(* (src/src/server/reliable.rs:111): when it has ended, no connection is   *)
(* left open, accepted or not.                                             *)
(***************************************************************************)
NothingLeftOpen ==
  listener_pc = "exited" => \A p \in Conns : server_end[p] \in {"none", "closed"}

-----------------------------------------------------------------------------
\* Every connect comes back to its caller, unless the server is quitting.
ConnectReturns ==
  \A p \in Clients :
     client_pc[p] = "joining" ~> (client_pc[p] # "joining" \/ ~running)

(***************************************************************************)
(* A JoinRequest gets a JoinResponse, "a reason" or "a simple Confirmation" *)
(* (src/src/msg.rs:98), while the server runs and the client is there.     *)
(***************************************************************************)
JoinIsAnswered ==
  \A p \in Clients :
     client_pc[p] = "joining" ~>
        \/ client_pc[p] = "confirmed"
        \/ client_app[p] = "gone" \/ ~running \/ listener_pc = "exited"

\* It does in a build whose read buffers hold a message.
JoinIsAnsweredIfRead == buf_len > 0 => JoinIsAnswered

\* A client whose connection the server has closed ends its servicer.
ClientSeesEnd ==
  \A p \in Clients : server_end[p] = "closed" ~> client_pc[p] = "ended"

(***************************************************************************)
(* quit ends the listener and every servicer, once no client holds them in *)
(* a read: when all clients have left, sooner or later.                    *)
(***************************************************************************)
QuitEndsListener ==
  (<>~running /\ <>[](\A p \in Conns : client_end[p] # "open")) => <>(listener_pc = "exited")
=============================================================================
