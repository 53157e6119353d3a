--------------------------- MODULE ReliableServer ---------------------------
(***************************************************************************)
(* The server's TCP listener thread, its reliable servicer threads, one    *)
(* per connection (src/src/server/reliable.rs), and the part of the Server *)
(* object that starts, feeds and stops them (src/src/server/mod.rs).       *)
(*                                                                         *)
(* All servicers receive from one queue: a message is taken by whichever   *)
(* servicer gets to it first, and discarded if that one serves another     *)
(* user.  Warning and Drop are only logged by Servicer::spin, so after     *)
(* either the loop goes to its test of the kill switch ("check").          *)
(***************************************************************************)
EXTENDS TcpStreams

CONSTANTS User,      \* user names
          UserOf,    \* UserOf[p]: the user name in the credentials of connection p
          AppKinds   \* the kinds of ServerMessage the application sends

ASSUME ServerAssumption ==
  /\ UserOf \in [Conns -> User]
  /\ AppKinds \subseteq {"Confirmation", "AuthenticationError", "ChatMessage"}

VARIABLES
  running,        \* server_running, the listener's kill switch
  listener_pc,    \* "starting", "accepting", "check", "joining", "exited"
  servicer_pc,    \* "none", "join", "answer", "announce" (Servicer::new), "drain",
                  \* "forward", "read", "check" (Servicer::spin), "ended"
  queue,          \* application -> all servicers: ToClient messages
  batch,          \* messages a servicer has drained and not yet looked at
  to_application, \* what each servicer has sent to the application, in order
  server_app,     \* "up", "quitting", "closing", "dropping", "gone"
  server_shutdown,\* Server::shutdown
  sent            \* history: sent[id] is the user message id is for

applicationVars == <<server_app, server_shutdown, sent>>
serverVars == <<running, listener_pc, servicer_pc, queue, batch, to_application, applicationVars>>

\* Server::new and Servicer::listen.
ServerInit ==
  /\ running = TRUE
  /\ listener_pc = "starting"
  /\ servicer_pc = [p \in Conns |-> "none"]
  /\ queue = << >>
  /\ batch = [p \in Conns |-> << >>]
  /\ to_application = [p \in Conns |-> << >>]
  /\ server_app = "up"
  /\ server_shutdown = FALSE
  /\ sent = << >>

\* The application still holds to_reliable_servicer; from_servicer.
SenderAlive   == server_app \in {"up", "quitting", "dropping"}
ReceiverAlive == server_app \in {"up", "quitting", "closing"}

\* Connection p has no servicer thread, or no longer one.
NoThread(p) == servicer_pc[p] \in {"none", "ended"}

ServicerGoes(p, pc) == servicer_pc' = [servicer_pc EXCEPT ![p] = pc]

\* The step changes nothing else of the server.
ServicerOnlyGoes(p, pc) ==
  /\ ServicerGoes(p, pc)
  /\ UNCHANGED <<running, listener_pc, queue, batch, to_application, applicationVars>>

-----------------------------------------------------------------------------
\* The listener thread does only this to the rest of the server.
ListenerTo(pc) ==
  /\ listener_pc' = pc
  /\ UNCHANGED <<running, queue, batch, to_application, applicationVars>>

\* listen: set_nonblocking succeeds, or the thread ends and drops the listener.
ListenerStarts ==
  /\ listener_pc = "starting"
  /\ ListenerTo("accepting")
  /\ UNCHANGED <<servicer_pc, streamVars>>

Backlog == {p \in Conns : server_end[p] = "backlog"}

ListenerFails ==
  /\ listener_pc = "starting"
  /\ ListenerTo("exited")
  /\ CloseServerEnds(Backlog)
  /\ UNCHANGED servicer_pc

\* listen: a connection is accepted and a servicer thread started for it.
Accept(p) ==
  /\ listener_pc = "accepting" /\ server_end[p] = "backlog"
  /\ server_end' = [server_end EXCEPT ![p] = "open"]
  /\ ServicerGoes(p, "join")
  /\ ListenerTo("check")
  /\ UNCHANGED <<buf_len, client_end, up, down>>

\* listen: WouldBlock, or another error that is only logged.
AcceptFails ==
  /\ listener_pc = "accepting"
  /\ ListenerTo("check")
  /\ UNCHANGED <<servicer_pc, streamVars>>

(***************************************************************************)
(* listen looks at the kill switch after every attempt.  ListenerOnce is a *)
(* variant that stops accepting after the first.                           *)
(***************************************************************************)
ListenerOnce ==
  /\ listener_pc = "check"
  /\ ListenerTo("joining")
  /\ UNCHANGED <<servicer_pc, streamVars>>

ListenerChecks ==
  /\ listener_pc = "check"
  /\ ListenerTo(IF running THEN "accepting" ELSE "joining")
  /\ UNCHANGED <<servicer_pc, streamVars>>

(***************************************************************************)
(* listen: every servicer thread is joined, then the listener is dropped,  *)
(* and with it the connections it has not accepted.  ListenerLeaves is a   *)
(* variant that does not wait.                                             *)
(***************************************************************************)
ListenerLeaves ==
  /\ listener_pc = "joining"
  /\ ListenerTo("exited")
  /\ CloseServerEnds(Backlog)
  /\ UNCHANGED servicer_pc

ListenerJoins ==
  /\ listener_pc = "joining"
  /\ \A p \in Conns : NoThread(p)
  /\ ListenerTo("exited")
  /\ CloseServerEnds(Backlog)
  /\ UNCHANGED servicer_pc

-----------------------------------------------------------------------------
\* A servicer thread ends: its stream and its ends of the queues are dropped.
EndServicer(p) ==
  /\ ServicerGoes(p, "ended")
  /\ batch' = [batch EXCEPT ![p] = << >>]
  /\ CloseServerEnds({p})
  /\ UNCHANGED <<running, listener_pc, queue, to_application, applicationVars>>

(***************************************************************************)
(* Servicer::new fails: nothing could be read or decoded, the client is    *)
(* gone (peer_addr, read or write), or it sent something else than a       *)
(* JoinRequest (WrongMessageType).                                         *)
(***************************************************************************)
JoinFails(p) ==
  /\ \/ servicer_pc[p] = "join" /\ UpReadsNothing(p)
     \/ servicer_pc[p] = "join" /\ buf_len > 0 /\ up[p] # << >> /\ up[p][1] # JoinRequest
     \/ servicer_pc[p] \in {"join", "answer"} /\ client_end[p] = "closed"
  /\ EndServicer(p)

\* wait_for_join_request and authenticate_user, which accepts every user.
ReadJoinRequest(p) ==
  /\ servicer_pc[p] = "join" /\ ReadUp(p, JoinRequest)
  /\ ServicerOnlyGoes(p, "answer")

(***************************************************************************)
(* Servicer::new: the Confirmation is written.  JoinUnanswered is a        *)
(* variant that leaves it out.                                             *)
(***************************************************************************)
JoinUnanswered(p) ==
  /\ servicer_pc[p] = "answer"
  /\ ServicerOnlyGoes(p, "announce") /\ UNCHANGED streamVars

ConfirmJoin(p) ==
  /\ servicer_pc[p] = "answer"
  /\ WriteDown(p, Confirmation(0))
  /\ ServicerOnlyGoes(p, "announce")

(***************************************************************************)
(* Servicer::new: ClientData goes to the application, or the servicer      *)
(* fails with it, although the client has been told that it joined.        *)
(* AnnounceNothing is a variant that goes straight on.                     *)
(***************************************************************************)
AnnounceNothing(p) ==
  /\ servicer_pc[p] = "announce"
  /\ ServicerOnlyGoes(p, "drain") /\ UNCHANGED streamVars

AnnounceClient(p) ==
  /\ servicer_pc[p] = "announce"
  /\ \/ /\ ReceiverAlive
        /\ to_application' = [to_application EXCEPT ![p] = Append(@, ClientData)]
        /\ ServicerGoes(p, "drain")
        /\ UNCHANGED <<running, listener_pc, queue, batch, applicationVars, streamVars>>
     \/ ~ReceiverAlive /\ EndServicer(p)

-----------------------------------------------------------------------------
(***************************************************************************)
(* drain_spmc_receiver, one try_recv a step: other servicers take from the *)
(* same queue in between.  DrainToAll is a variant in which every servicer *)
(* that is draining gets the message.                                      *)
(***************************************************************************)
DrainToAll(p) ==
  /\ servicer_pc[p] = "drain" /\ queue # << >>
  /\ batch' = [q \in Conns |-> IF servicer_pc[q] = "drain" THEN Append(batch[q], Head(queue))
                                                           ELSE batch[q]]
  /\ queue' = Tail(queue)
  /\ UNCHANGED <<running, listener_pc, servicer_pc, to_application, applicationVars, streamVars>>

DrainOne(p) ==
  /\ servicer_pc[p] = "drain" /\ queue # << >>
  /\ batch' = [batch EXCEPT ![p] = Append(@, Head(queue))]
  /\ queue' = Tail(queue)
  /\ UNCHANGED <<running, listener_pc, servicer_pc, to_application, applicationVars, streamVars>>

\* Empty: go on with the batch.  Disconnected: it is discarded, a Drop is logged.
DrainEnds(p) ==
  /\ servicer_pc[p] = "drain" /\ queue = << >>
  /\ \/ SenderAlive /\ ServicerGoes(p, "forward") /\ UNCHANGED batch
     \/ ~SenderAlive /\ ServicerGoes(p, "check") /\ batch' = [batch EXCEPT ![p] = << >>]
  /\ UNCHANGED <<running, listener_pc, queue, to_application, applicationVars, streamVars>>

\* The test of to_client.to, and a variant that does not make it.
IsForAnyone(p, m) == TRUE
IsForUser(p, m) == m.to = UserOf[p]

(***************************************************************************)
(* "Forward any outgoing messages to the client", one a step; send_message *)
(* only logs a write that meets a reset.  ForwardLast is a variant that    *)
(* takes the batch from its end.                                           *)
(***************************************************************************)
ForwardLast(p) ==
  /\ servicer_pc[p] = "forward" /\ batch[p] # << >>
  /\ IF IsForUser(p, batch[p][Len(batch[p])])
     THEN WriteDown(p, batch[p][Len(batch[p])].payload)
     ELSE UNCHANGED streamVars
  /\ batch' = [batch EXCEPT ![p] = SubSeq(@, 1, Len(@) - 1)]
  /\ UNCHANGED <<running, listener_pc, servicer_pc, queue, to_application, applicationVars>>

Forward(p) ==
  /\ servicer_pc[p] = "forward" /\ batch[p] # << >>
  /\ IF IsForUser(p, Head(batch[p]))
     THEN WriteDown(p, Head(batch[p]).payload)
     ELSE UNCHANGED streamVars
  /\ batch' = [batch EXCEPT ![p] = Tail(@)]
  /\ UNCHANGED <<running, listener_pc, servicer_pc, queue, to_application, applicationVars>>

(***************************************************************************)
(* send_message fails with a Drop: the rest of the batch is dropped and    *)
(* nothing is read.  ForwardFailsKeeping is a variant that keeps the rest. *)
(***************************************************************************)
ForwardFailsKeeping(p) ==
  /\ servicer_pc[p] = "forward" /\ batch[p] # << >>
  /\ IsForUser(p, Head(batch[p])) /\ client_end[p] = "closed"
  /\ ServicerOnlyGoes(p, "check") /\ UNCHANGED streamVars

ForwardFails(p) ==
  /\ servicer_pc[p] = "forward" /\ batch[p] # << >>
  /\ IsForUser(p, Head(batch[p])) /\ client_end[p] = "closed"
  /\ batch' = [batch EXCEPT ![p] = << >>]
  /\ ServicerGoes(p, "check")
  /\ UNCHANGED <<running, listener_pc, queue, to_application, applicationVars, streamVars>>

ForwardEnds(p) ==
  /\ servicer_pc[p] = "forward" /\ batch[p] = << >>
  /\ ServicerOnlyGoes(p, "read") /\ UNCHANGED streamVars

-----------------------------------------------------------------------------
\* Nothing to deserialize, or a read error: a Warning, or a Drop, is logged.
ReadNothing(p) ==
  /\ servicer_pc[p] = "read" /\ UpReadsNothing(p)
  /\ ServicerOnlyGoes(p, "check") /\ UNCHANGED streamVars

\* handle_chat_message: to the application, or a Drop is logged.
ReadChat(p) ==
  /\ servicer_pc[p] = "read"
  /\ \E id \in 1..MaxUp :
        /\ ReadUp(p, ClientChat(id))
        /\ to_application' =
             IF ReceiverAlive THEN [to_application EXCEPT ![p] = Append(@, ClientChat(id))]
                              ELSE to_application
  /\ ServicerGoes(p, "check")
  /\ UNCHANGED <<running, listener_pc, queue, batch, applicationVars>>

(***************************************************************************)
(* A second JoinRequest: AlreadyConnected, which is only logged.  Rejoin   *)
(* is a variant that lets the client join again, RejoinEnds one that drops *)
(* the client.                                                             *)
(***************************************************************************)
Rejoin(p) ==
  /\ servicer_pc[p] = "read" /\ ReadUp(p, JoinRequest)
  /\ ServicerOnlyGoes(p, "announce")

RejoinEnds(p) ==
  /\ servicer_pc[p] = "read" /\ buf_len > 0 /\ up[p] # << >> /\ up[p][1] = JoinRequest
  /\ EndServicer(p)

RejectRejoin(p) ==
  /\ servicer_pc[p] = "read" /\ ReadUp(p, JoinRequest)
  /\ ServicerOnlyGoes(p, "check")

(***************************************************************************)
(* Servicer::spin looks at the kill switch after every spin_once.          *)
(* SpinAlways is a variant that does not.                                  *)
(***************************************************************************)
SpinAlways(p) ==
  /\ servicer_pc[p] = "check"
  /\ ServicerOnlyGoes(p, "drain") /\ UNCHANGED streamVars

CheckSwitch(p) ==
  /\ servicer_pc[p] = "check"
  /\ \/ /\ running
        /\ ServicerOnlyGoes(p, "drain") /\ UNCHANGED streamVars
     \/ ~running /\ EndServicer(p)

-----------------------------------------------------------------------------
\* reliable::ApplicationMessage::ToClient
ToClient(user, payload) == [to |-> user, payload |-> payload]

(***************************************************************************)
(* Server::send_reliable: the queue is disconnected when no thread is left *)
(* that holds a receiver.                                                  *)
(***************************************************************************)
SendReliable(user, kind) ==
  /\ server_app = "up" /\ ~server_shutdown
  /\ IF listener_pc = "exited" /\ \A p \in Conns : NoThread(p)
     THEN server_shutdown' = TRUE /\ UNCHANGED <<queue, sent>>
     ELSE /\ Len(sent) < MaxSent
          /\ sent' = Append(sent, user)
          /\ queue' = Append(queue, ToClient(user, [type |-> kind, id |-> Len(sent) + 1]))
          /\ UNCHANGED server_shutdown
  /\ UNCHANGED <<running, listener_pc, servicer_pc, batch, to_application, server_app, streamVars>>

AppTo(app) ==
  /\ server_app' = app
  /\ UNCHANGED <<listener_pc, servicer_pc, queue, batch, to_application,
                 server_shutdown, sent, streamVars>>

\* Server::quit: the switch, then to_reliable_servicer, then the other fields.
QuitStores ==
  server_app = "up" /\ AppTo("quitting") /\ running' = FALSE

QuitDropsSender ==
  server_app = "quitting" /\ AppTo("closing") /\ UNCHANGED running

QuitDropsReceiver ==
  server_app = "closing" /\ AppTo("gone") /\ UNCHANGED running

\* The Server object is dropped without quit: its fields go in their order,
\* from_servicer first, and nothing is stored in the switch.
DropReceiver ==
  server_app = "up" /\ AppTo("dropping") /\ UNCHANGED running

DropSender ==
  server_app = "dropping" /\ AppTo("gone") /\ UNCHANGED running

-----------------------------------------------------------------------------
\* What a servicer thread does without waiting for its client, and its reads.
ServicerRuns(p) ==
  \/ ConfirmJoin(p) \/ AnnounceClient(p)
  \/ DrainOne(p) \/ DrainEnds(p) \/ Forward(p) \/ ForwardFails(p) \/ ForwardEnds(p)
  \/ CheckSwitch(p)

ServicerReads(p) ==
  \/ JoinFails(p) \/ ReadJoinRequest(p)
  \/ ReadNothing(p) \/ ReadChat(p) \/ RejectRejoin(p)

Listener ==
  \/ ListenerStarts \/ ListenerFails \/ AcceptFails
  \/ ListenerChecks \/ ListenerJoins
  \/ \E p \in Conns : Accept(p)

ServerGoes == QuitDropsSender \/ QuitDropsReceiver \/ DropSender
=============================================================================
