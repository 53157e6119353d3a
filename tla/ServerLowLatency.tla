-------------------------- MODULE ServerLowLatency --------------------------
(***************************************************************************)
(* The server's low latency servicer thread (src/src/server/               *)
(* low_latency.rs) and the part of the Server object that feeds it         *)
(* (src/src/server/mod.rs).  One thread and one UDP socket serve every     *)
(* client.                                                                 *)
(*                                                                         *)
(* One iteration of Servicer::spin is two steps: the half that serves the  *)
(* application's queue (server_pc = "app") and the half that serves the    *)
(* socket (server_pc = "net").  A Warning ends the iteration, so one in    *)
(* the first half skips the second; Exit ends the thread.                  *)
(***************************************************************************)
EXTENDS UdpNetwork, ControllerSequence

CONSTANTS User,           \* user names
          UserOf,         \* UserOf[p]: the user that logs in from address p
          MaxAppQueue,    \* bound: messages queued for the servicer
          MaxAppMessages, \* bound: messages the application sends
          MaxWorlds,      \* bound: world states the application sends
          AppTicks        \* ticks the application itself acknowledges

VARIABLES
  app_queue,          \* application -> servicer: low_latency::ApplicationMessage
  address_user,       \* Servicer::address_user, a set of <<address, user>>
  last_tick_received, \* Servicer::last_tick_received, one for all clients
  to_application,     \* everything sent to the application: [from, payload]
  server_pc,          \* the half of spin_once the servicer is about to run
  server_app,         \* "up", "closing" (sender dropped), "quit" (receiver too)
  app_messages,       \* bound counter: messages the application has sent
  worlds              \* history: worlds[n] is the user world state n is for

serverVars == <<app_queue, address_user, last_tick_received, to_application,
                server_pc, server_app, app_messages, worlds>>

ServerInit ==
  /\ app_queue = << >>
  /\ address_user = {}
  /\ last_tick_received = 0
  /\ to_application = << >>
  /\ server_pc = "app"
  /\ server_app = "up"
  /\ app_messages = 0
  /\ worlds = << >>

-----------------------------------------------------------------------------
\* low_latency::ApplicationMessage
ToClient(user, payload) == [kind |-> "ToClient", to |-> user, payload |-> payload]
NewClient(addr, user)   == [kind |-> "NewClient", addr |-> addr, user |-> user]
ClientDisconnect(user)  == [kind |-> "ClientDisconnect", user |-> user]

\* msg::low_latency::ServerMessage
WorldState(world)      == [type |-> "WorldState", world |-> world]
LastTickReceived(tick) == [type |-> "LastTickReceived", tick |-> tick]

(***************************************************************************)
(* parse_application_messages, for a whole drained queue ms.  The loop of  *)
(* the source overwrites: an address book entry survives if no later       *)
(* message evicts it (BidirMap::insert removes the pairs that share the    *)
(* address or the user), and each variant of ServerMessage keeps its last  *)
(* message, whoever it is for.                                             *)
(*                                                                         *)
(* EvictsAddressOnly and OutgoingFirst are variants: a map that is not     *)
(* bidirectional, and a slot that keeps its first message.                 *)
(***************************************************************************)
EvictsAddressOnly(m, pair) ==
  \/ m.kind = "NewClient" /\ m.addr = pair[1]
  \/ m.kind = "ClientDisconnect" /\ m.user = pair[2]

Evicts(m, pair) ==
  \/ m.kind = "NewClient" /\ (m.addr = pair[1] \/ m.user = pair[2])
  \/ m.kind = "ClientDisconnect" /\ m.user = pair[2]

AddressBook(ms, book) ==
  LET Survives(pair, i) == \A j \in (i + 1)..Len(ms) : ~Evicts(ms[j], pair)
      Inserts == {i \in DOMAIN ms : ms[i].kind = "NewClient"}
  IN  {pair \in book : Survives(pair, 0)} \cup
      {<<ms[i].addr, ms[i].user>> :
          i \in {k \in Inserts : Survives(<<ms[k].addr, ms[k].user>>, k)}}

OutgoingFirst(ms, type) ==
  LET Slot == {i \in DOMAIN ms : ms[i].kind = "ToClient" /\ ms[i].payload.type = type}
  IN  {ms[i] : i \in {k \in Slot : \A j \in Slot : j >= k}}

Outgoing(ms, type) ==
  LET Slot == {i \in DOMAIN ms : ms[i].kind = "ToClient" /\ ms[i].payload.type = type}
  IN  {ms[i] : i \in {k \in Slot : \A j \in Slot : j <= k}}

\* The loop itself, message by message, for ParseMatchesLoop.
LoopBody(s, m) ==
  CASE m.kind = "ToClient"  -> [s EXCEPT !.outgoing[m.payload.type] = {m}]
    [] m.kind = "NewClient" ->
         [s EXCEPT !.book = {e \in @ : e[1] # m.addr /\ e[2] # m.user} \cup {<<m.addr, m.user>>}]
    [] m.kind = "ClientDisconnect" -> [s EXCEPT !.book = {e \in @ : e[2] # m.user}]

ParseLoop(ms, book) ==
  LET loop[n \in 0..Len(ms)] ==
        IF n = 0 THEN [book |-> book, outgoing |-> [type \in {"WorldState", "LastTickReceived"} |-> {}]]
        ELSE LoopBody(loop[n - 1], ms[n])
  IN  loop[Len(ms)]

\* A variant of send_message that sends to everyone.
SendMessageToAll(book, user, payload) ==
  {[dst |-> pair[1], body |-> payload] : pair \in book}

\* send_message: to the address of the user, or a log line if there is none.
SendMessage(book, user, payload) ==
  {[dst |-> pair[1], body |-> payload] : pair \in {e \in book : e[2] = user}}

Datagrams(ms, type, book) ==
  UNION {SendMessage(book, m.to, m.payload) : m \in Outgoing(ms, type)}

-----------------------------------------------------------------------------
(***************************************************************************)
(* The application thread.  Server::send_low_latency fails only when the   *)
(* servicer is gone, and the servicer leaves only after the application    *)
(* began to quit (ServerExitsOnlyOnQuit), so Server::shutdown stays false. *)
(***************************************************************************)
SendLowLatency(m) ==
  /\ server_app = "up"
  /\ Len(app_queue) < MaxAppQueue /\ app_messages < MaxAppMessages
  /\ app_queue' = Append(app_queue, m)
  /\ app_messages' = app_messages + 1
  /\ UNCHANGED <<address_user, last_tick_received, to_application, server_pc, server_app, networkVars>>

SendNewClient(p) ==
  SendLowLatency(NewClient(p, UserOf[p])) /\ UNCHANGED worlds

SendClientDisconnect(user) ==
  SendLowLatency(ClientDisconnect(user)) /\ UNCHANGED worlds

SendWorldState(user) ==
  /\ Len(worlds) < MaxWorlds
  /\ SendLowLatency(ToClient(user, WorldState(Len(worlds) + 1)))
  /\ worlds' = Append(worlds, user)

SendLastTick(user, tick) ==
  SendLowLatency(ToClient(user, LastTickReceived(tick))) /\ UNCHANGED worlds

\* Server::quit drops the queue to the servicer; the queue from the servicers
\* goes with the rest of the Server object when quit returns.
ServerQuitDropSender ==
  /\ server_app = "up" /\ server_app' = "closing"
  /\ UNCHANGED <<app_queue, address_user, last_tick_received, to_application, server_pc,
                 app_messages, worlds, networkVars>>

ServerQuitDropReceiver ==
  /\ server_app = "closing" /\ server_app' = "quit"
  /\ UNCHANGED <<app_queue, address_user, last_tick_received, to_application, server_pc,
                 app_messages, worlds, networkVars>>

-----------------------------------------------------------------------------
(***************************************************************************)
(* Servicer::forward_from_server_to_client.  The world state goes first;   *)
(* a send_to that fails is a Warning, which skips what is left of the      *)
(* iteration.  The drained messages are gone in every case.                *)
(***************************************************************************)
ForwardAppMessages(sent, next) ==
  /\ server_pc = "app" /\ server_app = "up"
  /\ address_user' = AddressBook(app_queue, address_user)
  /\ app_queue' = << >>
  /\ SendToClients(sent)
  /\ server_pc' = next
  /\ UNCHANGED <<last_tick_received, to_application, server_app, app_messages, worlds>>

ForwardFromServerToClient ==
  LET book  == AddressBook(app_queue, address_user)
      world == Datagrams(app_queue, "WorldState", book)
      tick  == Datagrams(app_queue, "LastTickReceived", book)
  IN  \/ ForwardAppMessages(world \cup tick, "net")
      \/ world # {} /\ ForwardAppMessages({}, "app")     \* the first send fails
      \/ tick # {} /\ ForwardAppMessages(world, "app")   \* the second send fails

\* A variant that takes a disconnected queue for an empty one.
AppDisconnectedIgnored ==
  /\ server_pc = "app" /\ server_app # "up"
  /\ server_pc' = "net" /\ app_queue' = << >>
  /\ UNCHANGED <<address_user, last_tick_received, to_application, server_app,
                 app_messages, worlds, networkVars>>

\* drain_spmc_receiver finds the queue disconnected and discards it: Exit.
AppDisconnected ==
  /\ server_pc = "app" /\ server_app # "up"
  /\ server_pc' = "exited" /\ app_queue' = << >>
  /\ UNCHANGED <<address_user, last_tick_received, to_application, server_app,
                 app_messages, worlds, networkVars>>

-----------------------------------------------------------------------------
(***************************************************************************)
(* Servicer::forward_from_client_to_server, with process_udp and           *)
(* handle_controller_input.  UsersAnywhere is a variant of the lookup that *)
(* forgets the address.                                                    *)
(***************************************************************************)
UsersAnywhere(addr) == {pair[2] : pair \in address_user}

UsersAt(addr) == {pair[2] : pair \in {e \in address_user : e[1] = addr}}

\* Nothing to receive on the non-blocking socket, or an error it reports.
ReceiveNothing ==
  /\ server_pc = "net" /\ server_pc' = "app"
  /\ UNCHANGED <<app_queue, address_user, last_tick_received, to_application, server_app,
                 app_messages, worlds, networkVars>>

\* A variant that takes a bad datagram for a reason to exit.
RejectAndExit(d) ==
  /\ server_pc = "net"
  /\ UsersAt(d.src) = {} \/ ToControllerSequence(d.packet) = {}
  /\ server_pc' = "exited"
  /\ UNCHANGED <<app_queue, address_user, last_tick_received, to_application, server_app,
                 app_messages, worlds, networkVars>>

\* UnknownSource or FailedToDecompress: a Warning.
RejectControllerInput(d) ==
  /\ server_pc = "net"
  /\ UsersAt(d.src) = {} \/ ToControllerSequence(d.packet) = {}
  /\ server_pc' = "app"
  /\ UNCHANGED <<app_queue, address_user, last_tick_received, to_application, server_app,
                 app_messages, worlds, networkVars>>

\* Variants: a sequence that ends at the latest tick is forwarded again; the
\* acknowledgement names the tick expected next.
AcceptNewerOrSame(user, cs) ==
  /\ LastTick(cs) >= last_tick_received
  /\ last_tick_received' = LastTick(cs)
  /\ to_application' = Append(to_application, [from |-> user, payload |-> cs])
  /\ SendToClients(SendMessage(address_user, user, LastTickReceived(LastTick(cs))))
  /\ server_pc' = "app"

AcceptNewerAckNext(user, cs) ==
  /\ LastTick(cs) > last_tick_received
  /\ last_tick_received' = LastTick(cs)
  /\ to_application' = Append(to_application, [from |-> user, payload |-> cs])
  /\ SendToClients(SendMessage(address_user, user, LastTickReceived(LastTick(cs) + 1)))
  /\ server_pc' = "app"

\* A sequence that ends after the latest tick received so far goes to the
\* application; if that fails the servicer exits without an acknowledgement.
AcceptNewer(user, cs) ==
  /\ LastTick(cs) > last_tick_received
  /\ last_tick_received' = LastTick(cs)
  /\ IF server_app = "quit"
     THEN server_pc' = "exited" /\ UNCHANGED <<to_application, networkVars>>
     ELSE /\ to_application' = Append(to_application, [from |-> user, payload |-> cs])
          /\ SendToClients(SendMessage(address_user, user, LastTickReceived(LastTick(cs))))
          /\ server_pc' = "app"

\* A variant that acknowledges the tick of the packet at hand.
AcknowledgeOwnTick(user, cs) ==
  /\ LastTick(cs) <= last_tick_received
  /\ SendToClients(SendMessage(address_user, user, LastTickReceived(LastTick(cs))))
  /\ server_pc' = "app"
  /\ UNCHANGED <<last_tick_received, to_application>>

\* Any other sequence is not forwarded, and acknowledged all the same.
AcknowledgeOlder(user, cs) ==
  /\ LastTick(cs) <= last_tick_received
  /\ SendToClients(SendMessage(address_user, user, LastTickReceived(last_tick_received)))
  /\ server_pc' = "app"
  /\ UNCHANGED <<last_tick_received, to_application>>

HandleControllerInput(d) ==
  /\ server_pc = "net"
  /\ \E user \in UsersAt(d.src), cs \in ToControllerSequence(d.packet) :
        AcceptNewer(user, cs) \/ AcknowledgeOlder(user, cs)
  /\ UNCHANGED <<app_queue, address_user, server_app, app_messages, worlds>>

-----------------------------------------------------------------------------
\* The servicer thread: Servicer::spin.
ServerSpin ==
  \/ ForwardFromServerToClient \/ AppDisconnected \/ ReceiveNothing
  \/ \E d \in uplink : RejectControllerInput(d) \/ HandleControllerInput(d)

\* The application thread.
ServerApp ==
  \/ \E p \in DOMAIN UserOf : SendNewClient(p)
  \/ \E user \in User : \/ SendClientDisconnect(user)
                        \/ SendWorldState(user)
                        \/ \E tick \in AppTicks : SendLastTick(user, tick)

ServerQuit == ServerQuitDropSender \/ ServerQuitDropReceiver
=============================================================================
