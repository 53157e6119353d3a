-------------------------- MODULE ClientLowLatency --------------------------
(***************************************************************************)
(* The low latency half of a client: the application thread's Client       *)
(* object (src/src/client/mod.rs) and its low latency servicer thread      *)
(* (src/src/client/low_latency.rs), joined by two in-process queues.       *)
(*                                                                         *)
(* One iteration of Servicer::spin is two steps: the receive half          *)
(* (client_pc = "recv") and the send half (client_pc = "send").  A Warning *)
(* in the receive half starts the next iteration, so the send half is      *)
(* skipped; Drop and Exit end the thread.                                  *)
(***************************************************************************)
EXTENDS UdpNetwork, ControllerSequence

CONSTANTS Clients,         \* client processes, each named by its UDP address
          Input,           \* controller snapshots (bitvec::BitVec values)
          MaxInputs,       \* bound: snapshots an application sends
          MaxTick,         \* bound: a client renumbers only below this tick
          MaxWorldQueue,   \* bound: world states queued for an application
          MaxProbes,       \* bound: datagrams counted as awaiting an ICMP reply
          MAX_PACKET_SIZE, \* util::MAX_PACKET_SIZE
          EncodedLen(_),   \* bytes bincode::serialize makes of a packet
          OversizedWorlds  \* world states longer than MAX_PACKET_SIZE

VARIABLES
  control_queue,   \* application -> servicer: Control(snapshot)
  world_queue,     \* servicer -> application: WorldState(state)
  controller_seq,  \* Servicer::controller_seq
  client_pc,       \* the half of spin_once the servicer is about to run
  client_app,      \* "up", "closing" (receiver dropped), "quit" (sender too)
  shutdown,        \* Client::shutdown
  probes,          \* datagrams sent whose ICMP reply may still come
  refused,         \* an ICMP reply is pending as an error of the socket
  pushed,          \* history: every snapshot queued by the application
  taken            \* history: the last world state given to the application

appVars    == <<client_app, shutdown, pushed, taken>>
socketVars == <<probes, refused>>
clientVars == <<control_queue, world_queue, controller_seq, client_pc, socketVars, appVars>>

ClientInit ==
  /\ control_queue  = [p \in Clients |-> << >>]
  /\ world_queue    = [p \in Clients |-> << >>]
  /\ controller_seq = [p \in Clients |-> NewSequence]
  /\ client_pc      = [p \in Clients |-> "recv"]
  /\ client_app     = [p \in Clients |-> "up"]
  /\ shutdown       = [p \in Clients |-> FALSE]
  /\ probes         = [p \in Clients |-> 0]
  /\ refused        = [p \in Clients |-> FALSE]
  /\ pushed         = [p \in Clients |-> << >>]
  /\ taken          = [p \in Clients |-> {}]

-----------------------------------------------------------------------------
(***************************************************************************)
(* The application thread.                                                 *)
(***************************************************************************)

\* Client::send_controller_input.  The send fails once the servicer is gone.
SendControllerInput(p, input) ==
  /\ client_app[p] = "up" /\ ~shutdown[p]
  /\ Len(pushed[p]) < MaxInputs
  /\ IF client_pc[p] = "exited"
     THEN /\ shutdown' = [shutdown EXCEPT ![p] = TRUE]
          /\ UNCHANGED <<control_queue, pushed>>
     ELSE /\ control_queue' = [control_queue EXCEPT ![p] = Append(@, input)]
          /\ pushed' = [pushed EXCEPT ![p] = Append(@, input)]
          /\ UNCHANGED shutdown
  /\ UNCHANGED <<world_queue, controller_seq, client_pc, client_app, taken, socketVars, networkVars>>

\* A variant of take_world_state that takes an empty queue for a closed one.
TakeWorldStateOrShutdown(p) ==
  /\ client_app[p] = "up" /\ ~shutdown[p]
  /\ world_queue[p] = << >>
  /\ shutdown' = [shutdown EXCEPT ![p] = TRUE]
  /\ UNCHANGED <<control_queue, world_queue, controller_seq, client_pc, client_app, pushed, taken,
                 socketVars, networkVars>>

\* Client::take_world_state.  The queue is drained and its last state given
\* away; states drained before a disconnection is noticed are discarded.
TakeWorldState(p) ==
  /\ client_app[p] = "up" /\ ~shutdown[p]
  /\ world_queue' = [world_queue EXCEPT ![p] = << >>]
  /\ IF client_pc[p] = "exited"
     THEN shutdown' = [shutdown EXCEPT ![p] = TRUE] /\ UNCHANGED taken
     ELSE /\ world_queue[p] # << >>
          /\ taken' = [taken EXCEPT ![p] = {world_queue[p][Len(world_queue[p])]}]
          /\ UNCHANGED shutdown
  /\ UNCHANGED <<control_queue, controller_seq, client_pc, client_app, pushed, socketVars, networkVars>>

\* Client::quit drops the queue from the servicer, then the queue to it.
QuitDropReceiver(p) ==
  /\ client_app[p] = "up"
  /\ client_app' = [client_app EXCEPT ![p] = "closing"]
  /\ world_queue' = [world_queue EXCEPT ![p] = << >>]
  /\ UNCHANGED <<control_queue, controller_seq, client_pc, shutdown, pushed, taken, socketVars, networkVars>>

QuitDropSender(p) ==
  /\ client_app[p] = "closing"
  /\ client_app' = [client_app EXCEPT ![p] = "quit"]
  /\ UNCHANGED <<control_queue, world_queue, controller_seq, client_pc, shutdown, pushed, taken,
                 socketVars, networkVars>>

-----------------------------------------------------------------------------
(***************************************************************************)
(* Servicer::forward_from_server_to_client.  A pending socket error is     *)
(* reported before any datagram.                                           *)
(***************************************************************************)
MayReceive(p) == client_pc[p] = "recv" /\ ~refused[p]

\* The read timeout (4 ms) passes without a datagram.
ReceiveTimeout(p) ==
  /\ MayReceive(p)
  /\ client_pc' = [client_pc EXCEPT ![p] = "send"]
  /\ UNCHANGED <<control_queue, world_queue, controller_seq, socketVars, appVars, networkVars>>

\* maybe_receive_udp turns ConnectionRefused into a Warning: next iteration.
ReceiveRefused(p) ==
  /\ client_pc[p] = "recv" /\ refused[p]
  /\ refused' = [refused EXCEPT ![p] = FALSE]
  /\ UNCHANGED <<control_queue, world_queue, controller_seq, client_pc, probes, appVars, networkVars>>

\* A world state cut at MAX_PACKET_SIZE fails to deserialize: a Warning, which
\* discards it.  One that fits goes to the application, or is a Drop when the
\* application dropped its end of the queue.
ReceiveWorldState(p, world) ==
  /\ MayReceive(p)
  /\ [type |-> "WorldState", world |-> world] \in Deliverable(p)
  /\ world \notin OversizedWorlds
  /\ IF client_app[p] = "up"
     THEN /\ Len(world_queue[p]) < MaxWorldQueue
          /\ world_queue' = [world_queue EXCEPT ![p] = Append(@, world)]
          /\ client_pc' = [client_pc EXCEPT ![p] = "send"]
     ELSE client_pc' = [client_pc EXCEPT ![p] = "exited"] /\ UNCHANGED world_queue
  /\ UNCHANGED <<control_queue, controller_seq, socketVars, appVars, networkVars>>

ReceiveTruncated(p, world) ==
  /\ MayReceive(p)
  /\ [type |-> "WorldState", world |-> world] \in Deliverable(p)
  /\ world \in OversizedWorlds
  /\ UNCHANGED <<clientVars, networkVars>>

ReceiveLastTick(p, tick) ==
  /\ MayReceive(p)
  /\ [type |-> "LastTickReceived", tick |-> tick] \in Deliverable(p)
  /\ LastTick(controller_seq[p]) < MaxTick
  /\ controller_seq' = [controller_seq EXCEPT ![p] = RemoveTillTick(@, tick)]
  /\ client_pc' = [client_pc EXCEPT ![p] = "send"]
  /\ UNCHANGED <<control_queue, world_queue, socketVars, appVars, networkVars>>

-----------------------------------------------------------------------------
(***************************************************************************)
(* Servicer::forward_from_client_to_server.  drain_mpsc_receiver finds the *)
(* queue disconnected when the application has dropped its sender, and     *)
(* then what was drained is discarded.  The first action is a variant that *)
(* takes a disconnected queue for an empty one.                            *)
(***************************************************************************)
SendIgnoresDisconnection(p) ==
  /\ client_pc[p] = "send" /\ client_app[p] = "quit"
  /\ client_pc' = [client_pc EXCEPT ![p] = "recv"]
  /\ control_queue' = [control_queue EXCEPT ![p] = << >>]
  /\ UNCHANGED <<world_queue, controller_seq, socketVars, appVars, networkVars>>

SendDisconnected(p) ==
  /\ client_pc[p] = "send" /\ client_app[p] = "quit"
  /\ client_pc' = [client_pc EXCEPT ![p] = "exited"]
  /\ control_queue' = [control_queue EXCEPT ![p] = << >>]
  /\ UNCHANGED <<world_queue, controller_seq, socketVars, appVars, networkVars>>

\* parse_application_messages, then send_controller_inputs: the outcomes of
\* the latter are the values next of client_pc.
Drained(p) == PushAll(controller_seq[p], control_queue[p])

DrainAndSend(p, next) ==
  /\ client_pc[p] = "send" /\ client_app[p] # "quit"
  /\ controller_seq' = [controller_seq EXCEPT ![p] = Drained(p)]
  /\ control_queue' = [control_queue EXCEPT ![p] = << >>]
  /\ client_pc' = [client_pc EXCEPT ![p] = next]
  /\ UNCHANGED <<world_queue, appVars>>

\* Nothing to send, or snapshots of several lengths (FailedToCompress).
SendNothing(p) ==
  /\ IsEmpty(Drained(p)) \/ ToCompressed(Drained(p)) = {}
  /\ DrainAndSend(p, "recv")
  /\ UNCHANGED <<socketVars, networkVars>>

TooLarge(packet) == EncodedLen(packet) > MAX_PACKET_SIZE

\* A variant that refuses a packet of exactly MAX_PACKET_SIZE bytes.
SendTooLargeAtLimit(p) ==
  /\ ~IsEmpty(Drained(p))
  /\ \E packet \in ToCompressed(Drained(p)) : EncodedLen(packet) >= MAX_PACKET_SIZE
  /\ DrainAndSend(p, "exited")
  /\ UNCHANGED <<socketVars, networkVars>>

SendTooLarge(p) ==
  /\ ~IsEmpty(Drained(p))
  /\ \E packet \in ToCompressed(Drained(p)) : TooLarge(packet)
  /\ DrainAndSend(p, "exited")
  /\ UNCHANGED <<socketVars, networkVars>>

\* send_to reports the pending ConnectionRefused, which CommError::from makes
\* a Drop; the datagram is not sent.
SendRefused(p) ==
  /\ ~IsEmpty(Drained(p)) /\ refused[p]
  /\ \E packet \in ToCompressed(Drained(p)) : ~TooLarge(packet)
  /\ DrainAndSend(p, "exited")
  /\ refused' = [refused EXCEPT ![p] = FALSE]
  /\ UNCHANGED <<probes, networkVars>>

SendDatagram(p) ==
  /\ ~IsEmpty(Drained(p)) /\ ~refused[p]
  /\ \E packet \in ToCompressed(Drained(p)) :
        ~TooLarge(packet) /\ SendToServer(p, packet)
  /\ DrainAndSend(p, "recv")
  /\ probes' = [probes EXCEPT ![p] = IF @ < MaxProbes THEN @ + 1 ELSE @]
  /\ UNCHANGED refused

-----------------------------------------------------------------------------
ReceiveHalf(p) ==
  \/ ReceiveTimeout(p) \/ ReceiveRefused(p)
  \/ \E body \in Deliverable(p) :
        \/ body.type = "WorldState" /\ (ReceiveWorldState(p, body.world) \/ ReceiveTruncated(p, body.world))
        \/ body.type = "LastTickReceived" /\ ReceiveLastTick(p, body.tick)

SendHalf(p) ==
  \/ SendDisconnected(p) \/ SendNothing(p) \/ SendTooLarge(p)
  \/ SendRefused(p) \/ SendDatagram(p)

\* The servicer thread: Servicer::spin.
ClientSpin(p) == ReceiveHalf(p) \/ SendHalf(p)

\* The application thread.
ClientApp(p) ==
  \/ \E input \in Input : SendControllerInput(p, input)
  \/ TakeWorldState(p)

ClientQuit(p) == QuitDropReceiver(p) \/ QuitDropSender(p)
=============================================================================
