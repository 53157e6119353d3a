----------------------------- MODULE LowLatency -----------------------------
(***************************************************************************)
(* The low latency protocol: the client applications and servicers of      *)
(* ClientLowLatency, the server application and servicer of                *)
(* ServerLowLatency, and the UDP network between them.                     *)
(*                                                                         *)
(* Clients retransmit every snapshot they hold until it is acknowledged;   *)
(* the server forwards the sequences that end later than all before and    *)
(* acknowledges the latest tick it has; an acknowledgement makes the       *)
(* client drop snapshots and renumber the rest.                            *)
(***************************************************************************)
EXTENDS ClientLowLatency, ServerLowLatency

CONSTANTS QuittingClients, \* clients whose application may call quit
          ServerMayQuit    \* whether the server's application may call quit

(***************************************************************************)
(* What the codec promises: decompressing gives back what was compressed.  *)
(* Module BitVecProofs proves it of the code's own codec (CodecLossless).  *)
(***************************************************************************)
BoundedSeqs == UNION {[1..n -> Input] : n \in 0..MaxInputs}

ASSUME CodecAssumption ==
  \A s \in BoundedSeqs : \A c \in Compress(s) : Decompress(c) = {s}

ASSUME BoundsAssumption ==
  /\ MaxInputs \in Nat /\ MaxTick \in Nat /\ MaxProbes \in Nat
  /\ MaxWorldQueue \in Nat /\ MaxAppQueue \in Nat
  /\ MaxAppMessages \in Nat /\ MaxWorlds \in Nat
  /\ AppTicks \subseteq Nat

ASSUME UserOfAssumption == UserOf \in [Clients -> User]

vars == <<clientVars, serverVars, networkVars>>

-----------------------------------------------------------------------------
\* A datagram reached the port of a server that is gone: the operating system
\* reports ConnectionRefused on the sender's connected socket.
IcmpRefused(p) ==
  /\ server_pc = "exited" /\ client_pc[p] # "exited"
  /\ probes[p] > 0
  /\ probes' = [probes EXCEPT ![p] = @ - 1]
  /\ refused' = [refused EXCEPT ![p] = TRUE]
  /\ UNCHANGED <<control_queue, world_queue, controller_seq, client_pc, appVars,
                 serverVars, networkVars>>

Init == ClientInit /\ ServerInit /\ NetworkInit

ClientStep(p) ==
  /\ ClientSpin(p) \/ ClientApp(p) \/ (p \in QuittingClients /\ ClientQuit(p))
  /\ UNCHANGED serverVars

ServerStep ==
  /\ ServerSpin \/ ServerApp \/ (ServerMayQuit /\ ServerQuit)
  /\ UNCHANGED clientVars

Next ==
  \/ \E p \in Clients : ClientStep(p) \/ IcmpRefused(p)
  \/ ServerStep

Spec == Init /\ [][Next]_vars

(***************************************************************************)
(* The servicer threads are always scheduled: their loops never block for  *)
(* longer than the 4 ms read timeout.  Nothing is assumed of the           *)
(* applications or of the network, except that a quit that has begun goes  *)
(* on to drop the second queue: it is a sequence of drops.                 *)
(***************************************************************************)
FairSpec ==
  /\ Spec
  /\ \A p \in Clients : /\ WF_vars(ClientSpin(p) /\ UNCHANGED serverVars)
                        /\ WF_vars(QuitDropSender(p) /\ UNCHANGED serverVars)
  /\ WF_vars(ServerSpin /\ UNCHANGED clientVars)
  /\ WF_vars(ServerQuitDropReceiver /\ UNCHANGED clientVars)

-----------------------------------------------------------------------------
\* The packets of a client that can be decoded: what it has told the server.
Reports(p) ==
  UNION {ToControllerSequence(d.packet) : d \in {e \in uplink : e.src = p}}

\* The acknowledgements sent to a client.
Acks(p) == {body.tick : body \in {b \in Deliverable(p) : b.type = "LastTickReceived"}}

Sequences == [start_tick : Nat, seq : BoundedSeqs]

\* Type correctness of the clients, of the server, and of both.
ClientTypeOK ==
  /\ control_queue \in [Clients -> BoundedSeqs]
  /\ world_queue \in [Clients -> Seq(1..MaxWorlds)]
  /\ controller_seq \in [Clients -> Sequences]
  /\ client_pc \in [Clients -> {"recv", "send", "exited"}]
  /\ client_app \in [Clients -> {"up", "closing", "quit"}]
  /\ shutdown \in [Clients -> BOOLEAN]
  /\ probes \in [Clients -> 0..MaxProbes]
  /\ refused \in [Clients -> BOOLEAN]
  /\ pushed \in [Clients -> BoundedSeqs]
  /\ taken \in [Clients -> SUBSET (1..MaxWorlds)]

ServerTypeOK ==
  /\ address_user \subseteq Clients \X User
  /\ last_tick_received \in Nat
  /\ to_application \in Seq([from : User, payload : Sequences])
  /\ server_pc \in {"app", "net", "exited"}
  /\ server_app \in {"up", "closing", "quit"}
  /\ worlds \in Seq(User) /\ Len(worlds) <= MaxWorlds

TypeOK == ClientTypeOK /\ ServerTypeOK

(***************************************************************************)
(* A tick number names one snapshot of a client: no two packets a client   *)
(* has put on the network, at any times, give different snapshots to the   *)
(* same tick, although remove_till_tick renumbers the snapshots it keeps.  *)
(***************************************************************************)
TickNamesOneInput ==
  \A p \in Clients : \A a, b \in Reports(p) : Agree(a, b)

(***************************************************************************)
(* The sequences handed to the server's application end at ever later      *)
(* ticks, however the network repeats and reorders the packets.            *)
(***************************************************************************)
DeliveredTicksIncrease ==
  \A i, j \in DOMAIN to_application :
     i < j => LastTick(to_application[i].payload) < LastTick(to_application[j].payload)

(***************************************************************************)
(* The protocol implements InputStream: whatever the network does, what    *)
(* the application gets from a user is a run of consecutive inputs of that *)
(* user's client, and each run ends later than all before it.              *)
(***************************************************************************)
Stream == INSTANCE InputStream WITH inputs <- pushed, delivered <- to_application

ImplementsInputStream == Stream!Spec

(***************************************************************************)
(* While its application is there, a servicer holds the latest snapshots   *)
(* of the application, in order and without a gap.                         *)
(***************************************************************************)
IsEndOf(s, t) ==
  Len(s) <= Len(t) /\ s = SubSeq(t, Len(t) - Len(s) + 1, Len(t))

HeldAreLatest ==
  \A p \in Clients :
     client_app[p] # "quit" => IsEndOf(controller_seq[p].seq \o control_queue[p], pushed[p])

(***************************************************************************)
(* An acknowledgement is never ahead of the clients: it is no later than   *)
(* the last tick of a packet some client sent, or is one the server's      *)
(* application sent itself.                                                *)
(***************************************************************************)
NoAckFromTheFuture ==
  \A p \in Clients : \A tick \in Acks(p) :
     \/ tick \in AppTicks
     \/ \E q \in Clients : \E a \in Reports(q) : tick = LastTick(a)

(***************************************************************************)
(* A client is told of a tick only if a sequence of its own user that ends *)
(* at that tick was given to the server's application.                     *)
(***************************************************************************)
AckMeansReceived ==
  \A p \in Clients : \A tick \in Acks(p) :
     \E i \in DOMAIN to_application :
        /\ to_application[i].from = UserOf[p]
        /\ LastTick(to_application[i].payload) = tick

(***************************************************************************)
(* LastTickReceived is the "World tick number for the latest client        *)
(* controller input received" (src/src/msg.rs:148): the tick a client is   *)
(* told of is the last tick of a packet that this client sent.             *)
(***************************************************************************)
AckIsOfOwnInput ==
  \A p \in Clients : \A tick \in Acks(p) : \E a \in Reports(p) : tick = LastTick(a)

(***************************************************************************)
(* A delivered sequence has "one" control input "for each game tick since  *)
(* the last tick received" (src/src/server/mod.rs:21): the ticks received  *)
(* never outnumber the snapshots the clients' applications took.           *)
(***************************************************************************)
OneInputPerTick ==
  \A i \in DOMAIN to_application :
     \E p \in Clients : /\ UserOf[p] = to_application[i].from
                        /\ LastTick(to_application[i].payload) <= Len(pushed[p])

(***************************************************************************)
(* An acknowledgement removes "inputs of ticks already received by the     *)
(* server" (src/src/client/low_latency.rs:118): a snapshot the servicer no *)
(* longer holds is one that the server's application was given.            *)
(***************************************************************************)
Delivered(user) ==
  UNION {{m.payload.seq[k] : k \in DOMAIN m.payload.seq} :
            m \in {to_application[i] : i \in {j \in DOMAIN to_application : to_application[j].from = user}}}

RemovedWereReceived ==
  \A p \in Clients : client_app[p] # "quit" =>
     LET removed == Len(pushed[p]) - Len(controller_seq[p].seq \o control_queue[p])
     IN  \A k \in 1..removed : pushed[p][k] \in Delivered(UserOf[p])

(***************************************************************************)
(* take_world_state "Consumes the latest world-state ... sent to us from   *)
(* the server" (src/src/client/mod.rs:158): what the application takes is  *)
(* never older than what it took before.                                   *)
(***************************************************************************)
WorldNeverGoesBack ==
  [][\A p \in Clients : \A old \in taken[p], new \in taken'[p] : old <= new]_vars

(***************************************************************************)
(* A world state reaches only the client of the user it is for.            *)
(***************************************************************************)
NoCrossTalk ==
  \A p \in Clients :
     \A w \in taken[p] \cup {world_queue[p][i] : i \in DOMAIN world_queue[p]} :
        w <= Len(worlds) /\ worlds[w] = UserOf[p]

\* The address book gives one address to a user and one user to an address.
AddressBookIsOneToOne ==
  \A a, b \in address_user : (a[1] = b[1] \/ a[2] = b[2]) => a = b

(***************************************************************************)
(* What AddressBook and Outgoing say of a whole queue is what the loop of  *)
(* parse_application_messages does with it, message by message.            *)
(***************************************************************************)
ParseMatchesLoop ==
  LET loop == ParseLoop(app_queue, address_user)
  IN  /\ loop.book = AddressBook(app_queue, address_user)
      /\ \A type \in DOMAIN loop.outgoing : loop.outgoing[type] = Outgoing(app_queue, type)

(***************************************************************************)
(* The server's servicer leaves only when its application has begun to     *)
(* quit: no packet, lost socket or unknown sender ends it.                 *)
(***************************************************************************)
ServerExitsOnlyOnQuit == server_pc = "exited" => server_app # "up"

(***************************************************************************)
(* A client's servicer leaves an application that has not quit only        *)
(* because the server is gone or because the inputs outgrew a packet.      *)
(***************************************************************************)
ClientExitIsJustified ==
  \A p \in Clients : client_pc[p] = "exited" /\ client_app[p] = "up" =>
     \/ server_pc = "exited"
     \/ \E packet \in ToCompressed(controller_seq[p]) : TooLarge(packet)

(***************************************************************************)
(* An application that has been told Shutdown by send_controller_input or  *)
(* take_world_state really lost its connection: the server is gone or the  *)
(* inputs outgrew a packet.  An idle queue or a refused socket is neither. *)
(***************************************************************************)
ShutdownIsJustified ==
  \A p \in Clients : shutdown[p] =>
     \/ server_pc = "exited"
     \/ \E packet \in ToCompressed(controller_seq[p]) : TooLarge(packet)

(***************************************************************************)
(* quit "tells their threads to join" (src/src/client/mod.rs:105 and       *)
(* src/src/server/mod.rs:110): once quit is called the thread ends.        *)
(***************************************************************************)
ClientQuitEnds ==
  \A p \in Clients : client_app[p] # "up" ~> client_pc[p] = "exited"

ServerQuitEnds == server_app # "up" ~> server_pc = "exited"
=============================================================================
