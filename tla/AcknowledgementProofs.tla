------------------------ MODULE AcknowledgementProofs ------------------------
(***************************************************************************)
(* Proofs about how the low latency servicers end and what their           *)
(* applications are told (the server's servicer leaves only when its       *)
(* application quits, a client's only for a reason), and about the         *)
(* acknowledgements that let a client drop its snapshots.                  *)
(***************************************************************************)
EXTENDS InputStreamProofs

-----------------------------------------------------------------------------
\* The server's servicer ends for good, and quitting is not taken back.
LEMMA ServerEndIsFinal ==
  ASSUME [Next]_vars
  PROVE  /\ server_pc = "exited" => server_pc' = "exited"
         /\ server_app # "up" => server_app' # "up"
<1>1. CASE UNCHANGED serverVars
  BY <1>1 DEF serverVars
<1>2. CASE ServerSpin
  BY <1>2 DEF ServerSpin, ForwardFromServerToClient, ForwardAppMessages, AppDisconnected,
    ReceiveNothing, RejectControllerInput, HandleControllerInput
<1>3. CASE ServerApp \/ ServerQuit
  BY <1>3 DEF ServerApp, ServerQuit, SendNewClient, SendClientDisconnect, SendWorldState,
    SendLastTick, SendLowLatency, ServerQuitDropSender, ServerQuitDropReceiver
<1>4. QED BY <1>1, <1>2, <1>3 DEF Next, ClientStep, IcmpRefused, ServerStep, vars

(***************************************************************************)
(* No packet, lost socket or unknown sender ends the server's servicer:    *)
(* when it has left, its application has begun to quit.                    *)
(***************************************************************************)
THEOREM ServerLeavesOnQuit == Spec => []ServerExitsOnlyOnQuit
<1>1. Init => ServerExitsOnlyOnQuit
  BY DEF Init, ServerInit, ServerExitsOnlyOnQuit
<1>2. ServerExitsOnlyOnQuit /\ [Next]_vars => ServerExitsOnlyOnQuit'
  <2> SUFFICES ASSUME server_pc = "exited" => server_app # "up", [Next]_vars, server_pc' = "exited"
               PROVE  server_app' # "up"
    BY DEF ServerExitsOnlyOnQuit
  <2>1. CASE UNCHANGED server_pc
    BY <2>1, ServerEndIsFinal
  <2>2. CASE ServerSpin
    <3>1. server_app # "up"
      BY <2>2 DEF ServerSpin, ForwardFromServerToClient, ForwardAppMessages, AppDisconnected,
        ReceiveNothing, RejectControllerInput, HandleControllerInput, AcceptNewer,
        AcknowledgeOlder
    <3>2. QED BY <3>1, ServerEndIsFinal
  <2>3. CASE ServerApp \/ ServerQuit
    BY <2>1, <2>3 DEF ServerApp, ServerQuit, SendNewClient, SendClientDisconnect,
      SendWorldState, SendLastTick, SendLowLatency, ServerQuitDropSender, ServerQuitDropReceiver
  <2>4. QED BY <2>1, <2>2, <2>3 DEF Next, ClientStep, IcmpRefused, ServerStep, vars, serverVars
<1>3. QED BY <1>1, <1>2, PTL DEF Spec

-----------------------------------------------------------------------------
(***************************************************************************)
(* The reasons for which a client's servicer may leave its application,    *)
(* and what makes them inductive: a refused socket is one of a server that *)
(* is gone, and Shutdown is told only of a servicer that left.             *)
(***************************************************************************)
Justified(p) ==
  \/ server_pc = "exited"
  \/ \E packet \in ToCompressed(controller_seq[p]) : TooLarge(packet)

ExitOf(p) ==
  /\ refused[p] => server_pc = "exited"
  /\ client_pc[p] = "exited" /\ client_app[p] = "up" => Justified(p)
  /\ shutdown[p] => client_pc[p] = "exited" /\ Justified(p)

ExitInv == \A p \in Clients : ExitOf(p)

\* What a step leaves alone keeps its reasons.
LEMMA ExitStays ==
  ASSUME [Next]_vars, NEW p \in Clients, ExitOf(p),
         client_pc'[p] = client_pc[p], client_app'[p] = client_app[p],
         shutdown'[p] = shutdown[p], refused'[p] = refused[p],
         controller_seq'[p] = controller_seq[p]
  PROVE  ExitOf(p)'
<1>1. server_pc = "exited" => server_pc' = "exited"
  BY ServerEndIsFinal
<1>2. Justified(p) => Justified(p)'
  BY <1>1 DEF Justified
<1>3. QED BY <1>1, <1>2 DEF ExitOf

\* Every step of client p changes only that client.
LEMMA OtherClients ==
  ASSUME TypeInv, NEW p \in Clients, ClientStep(p) \/ IcmpRefused(p), NEW q \in Clients, q # p
  PROVE  /\ client_pc'[q] = client_pc[q] /\ client_app'[q] = client_app[q]
         /\ shutdown'[q] = shutdown[q] /\ refused'[q] = refused[q]
         /\ controller_seq'[q] = controller_seq[q]
<1>0. /\ DOMAIN client_pc = Clients /\ DOMAIN client_app = Clients /\ DOMAIN shutdown = Clients
      /\ DOMAIN refused = Clients /\ DOMAIN controller_seq = Clients
  BY DEF TypeInv, TypeOK, ClientTypeOK
<1>1. CASE ReceiveHalf(p)
  BY <1>0, <1>1 DEF ReceiveHalf, ReceiveTimeout, ReceiveRefused, ReceiveWorldState,
    ReceiveTruncated, ReceiveLastTick, clientVars, socketVars, appVars
<1>2. CASE SendHalf(p)
  BY <1>0, <1>2 DEF SendHalf, SendDisconnected, SendNothing, SendTooLarge, SendRefused,
    SendDatagram, DrainAndSend, socketVars, appVars
<1>3. CASE ClientApp(p) \/ ClientQuit(p) \/ IcmpRefused(p)
  BY <1>0, <1>3 DEF ClientApp, ClientQuit, SendControllerInput, TakeWorldState,
    QuitDropReceiver, QuitDropSender, IcmpRefused, socketVars, appVars
<1>4. QED BY <1>1, <1>2, <1>3 DEF ClientStep, ClientSpin

\* The receive half ends the servicer only when the application has quit.
LEMMA ExitReceiveHalf ==
  ASSUME TypeInv, [Next]_vars, NEW p \in Clients, ExitOf(p), ReceiveHalf(p), UNCHANGED server_pc
  PROVE  ExitOf(p)'
<1>0. /\ DOMAIN client_pc = Clients /\ DOMAIN client_app = Clients /\ DOMAIN shutdown = Clients
      /\ DOMAIN refused = Clients /\ DOMAIN controller_seq = Clients
  BY DEF TypeInv, TypeOK, ClientTypeOK
<1>1. /\ client_pc[p] = "recv" /\ UNCHANGED <<client_app, shutdown>>
      /\ refused'[p] => refused[p]
      /\ client_pc'[p] = "exited" => client_app[p] # "up"
  BY <1>0 DEF ReceiveHalf, ReceiveTimeout, ReceiveRefused, ReceiveWorldState,
    ReceiveTruncated, ReceiveLastTick, MayReceive, clientVars, socketVars, appVars
<1>2. QED BY <1>1 DEF ExitOf

\* The send half ends it when the queue is closed, when the packet is too
\* large and then still held, or when the server is gone.
LEMMA ExitSendHalf ==
  ASSUME TypeInv, [Next]_vars, NEW p \in Clients, ExitOf(p), SendHalf(p), UNCHANGED server_pc
  PROVE  ExitOf(p)'
<1>0. /\ DOMAIN client_pc = Clients /\ DOMAIN refused = Clients /\ DOMAIN controller_seq = Clients
  BY DEF TypeInv, TypeOK, ClientTypeOK
<1>1. client_pc[p] = "send" /\ UNCHANGED <<client_app, shutdown>> /\ (refused'[p] => refused[p])
  BY <1>0 DEF SendHalf, SendDisconnected, SendNothing, SendTooLarge, SendRefused,
    SendDatagram, DrainAndSend, socketVars, appVars
<1>2. ~shutdown[p]
  BY <1>1 DEF ExitOf
<1>3. ASSUME client_pc'[p] = "exited", client_app[p] = "up" PROVE Justified(p)'
  <2>1. CASE SendDisconnected(p)
    BY <1>3, <2>1 DEF SendDisconnected
  <2>2. CASE SendNothing(p) \/ SendDatagram(p)
    <3>1. client_pc' = [client_pc EXCEPT ![p] = "recv"]
      BY <2>2 DEF SendNothing, SendDatagram, DrainAndSend
    <3>2. QED BY <1>0, <1>3, <3>1
  <2>3. CASE SendTooLarge(p)
    <3>1. controller_seq' = [controller_seq EXCEPT ![p] = Drained(p)]
      BY <2>3 DEF SendTooLarge, DrainAndSend
    <3>2. controller_seq'[p] = Drained(p)
      BY <1>0, <3>1
    <3>3. QED BY <2>3, <3>2 DEF SendTooLarge, Justified
  <2>4. CASE SendRefused(p)
    BY <2>4 DEF SendRefused, ExitOf, Justified
  <2>5. QED BY <2>1, <2>2, <2>3, <2>4 DEF SendHalf
<1>4. QED BY <1>1, <1>2, <1>3 DEF ExitOf

\* The application is told Shutdown only when its servicer has left.
LEMMA ExitClientApp ==
  ASSUME TypeInv, [Next]_vars, NEW p \in Clients, ExitOf(p), ClientApp(p) \/ ClientQuit(p),
         UNCHANGED server_pc
  PROVE  ExitOf(p)'
<1>0. DOMAIN client_app = Clients /\ DOMAIN shutdown = Clients
  BY DEF TypeInv, TypeOK, ClientTypeOK
<1>1. /\ UNCHANGED <<client_pc, refused, controller_seq>>
      /\ client_app'[p] = "up" => client_app[p] = "up"
      /\ shutdown'[p] => shutdown[p] \/ (client_pc[p] = "exited" /\ client_app[p] = "up")
  BY <1>0 DEF ClientApp, ClientQuit, SendControllerInput, TakeWorldState, QuitDropReceiver,
    QuitDropSender, socketVars
<1>2. Justified(p) => Justified(p)'
  BY <1>1 DEF Justified
<1>3. QED BY <1>1, <1>2 DEF ExitOf

\* Every step of the system keeps ExitInv.
LEMMA ExitStep == TypeInv /\ ExitInv /\ [Next]_vars => ExitInv'
<1> SUFFICES ASSUME TypeInv, ExitInv, [Next]_vars, NEW q \in Clients PROVE ExitOf(q)'
  BY DEF ExitInv
<1>0. ExitOf(q)
  BY DEF ExitInv
<1>1. ASSUME NEW p \in Clients, ClientStep(p) \/ IcmpRefused(p), q # p PROVE ExitOf(q)'
  <2>1. /\ client_pc'[q] = client_pc[q] /\ client_app'[q] = client_app[q]
        /\ shutdown'[q] = shutdown[q] /\ refused'[q] = refused[q]
        /\ controller_seq'[q] = controller_seq[q]
    BY <1>1, OtherClients
  <2>2. QED BY <1>0, <2>1, ExitStays
<1>2. CASE ClientStep(q)
  <2>1. UNCHANGED server_pc
    BY <1>2 DEF ClientStep, serverVars
  <2>2. QED
    BY <1>0, <1>2, <2>1, ExitReceiveHalf, ExitSendHalf, ExitClientApp DEF ClientStep, ClientSpin
<1>3. CASE IcmpRefused(q)
  <2>1. /\ server_pc = "exited" /\ UNCHANGED <<server_pc, client_pc, client_app, shutdown, controller_seq>>
    BY <1>3 DEF IcmpRefused, serverVars, appVars
  <2>2. QED BY <1>0, <2>1 DEF ExitOf, Justified
<1>4. CASE ServerStep \/ UNCHANGED vars
  <2>1. UNCHANGED <<client_pc, client_app, shutdown, refused, controller_seq>>
    BY <1>4 DEF ServerStep, vars, clientVars, appVars, socketVars
  <2>2. QED BY <1>0, <2>1, ExitStays
<1>5. QED BY <1>1, <1>2, <1>3, <1>4 DEF Next

\* ExitInv holds in every reachable state.
LEMMA ExitInvariant == Spec => []ExitInv
<1>1. Init => ExitInv
  BY DEF Init, ClientInit, ExitInv, ExitOf
<1>2. QED BY <1>1, ExitStep, TypeInvInvariant, PTL DEF Spec

(***************************************************************************)
(* A servicer that has left an application which did not quit lost its     *)
(* server or was asked to send more than a packet holds.                   *)
(***************************************************************************)
THEOREM ClientLeavesForAReason == Spec => []ClientExitIsJustified
<1>1. ExitInv => ClientExitIsJustified
  BY DEF ExitInv, ExitOf, Justified, ClientExitIsJustified
<1>2. QED BY <1>1, ExitInvariant, PTL

(***************************************************************************)
(* An application is told Shutdown only when that is so.                   *)
(***************************************************************************)
THEOREM ShutdownForAReason == Spec => []ShutdownIsJustified
<1>1. ExitInv => ShutdownIsJustified
  BY DEF ExitInv, ExitOf, Justified, ShutdownIsJustified
<1>2. QED BY <1>1, ExitInvariant, PTL

-----------------------------------------------------------------------------
(***************************************************************************)
(* NoAckFromTheFuture is inductive with the same fact about the tick the   *)
(* server remembers, which is one of a packet once a packet was accepted.  *)
(* That a packet is never empty keeps the initial 0 from being sent.       *)
(***************************************************************************)
Reported(tick) == \E q \in Clients : \E a \in Reports(q) : tick = LastTick(a)

ReportsEndAfterZero == \A q \in Clients : \A a \in Reports(q) : LastTick(a) > 0

QueuedAcksAreTheApplications ==
  \A i \in DOMAIN app_queue :
     app_queue[i].kind = "ToClient" /\ app_queue[i].payload.type = "LastTickReceived"
       => app_queue[i].payload.tick \in AppTicks

AcksAreReported ==
  \A d \in downlink :
     d.body.type = "LastTickReceived" => d.body.tick \in AppTicks \/ Reported(d.body.tick)

AckInv ==
  /\ ReportsEndAfterZero
  /\ QueuedAcksAreTheApplications
  /\ last_tick_received = 0 \/ Reported(last_tick_received)
  /\ AcksAreReported

\* A packet is sent of a sequence that is not empty.
LEMMA EndAfterZeroStep == TypeInv /\ ReportsEndAfterZero /\ [Next]_vars => ReportsEndAfterZero'
<1> SUFFICES ASSUME TypeInv, ReportsEndAfterZero, [Next]_vars PROVE ReportsEndAfterZero'
  OBVIOUS
<1>1. CASE UNCHANGED uplink
  BY <1>1 DEF ReportsEndAfterZero, Reports
<1>2. ASSUME NEW p \in Clients, SendDatagram(p) PROVE ReportsEndAfterZero'
  <2>1. /\ Reports(p)' = Reports(p) \cup {Drained(p)}
        /\ \A q \in Clients \ {p} : Reports(q)' = Reports(q)
    BY <1>2, ReportsAfterSend
  <2>2. Drained(p) \in Sequences /\ Drained(p).seq # << >>
    BY <1>2, DrainedFacts DEF SendDatagram, IsEmpty
  <2>3. LastTick(Drained(p)) > 0
    <3> DEFINE s == Drained(p).seq
               start == Drained(p).start_tick
    <3>1. s \in Seq(Input) /\ start \in Nat /\ s # << >>
      BY <2>2, BoundedSeqsIff DEF Sequences
    <3>2. LastTick(Drained(p)) = start + Len(s)
      BY DEF LastTick
    <3> HIDE DEF s, start
    <3>3. Len(s) \in Nat /\ Len(s) # 0
      BY <3>1
    <3>4. QED BY <3>1, <3>2, <3>3
  <2>4. QED BY <2>1, <2>3 DEF ReportsEndAfterZero
<1>3. QED BY <1>1, <1>2, UplinkSteps

\* What was reported stays so.
LEMMA ReportedStays ==
  ASSUME TypeInv, [Next]_vars
  PROVE  \A tick : Reported(tick) => Reported(tick)'
<1>1. \A q \in Clients : Reports(q) \subseteq Reports(q)'
  <2>1. CASE UNCHANGED uplink
    BY <2>1 DEF Reports
  <2>2. ASSUME NEW p \in Clients, SendDatagram(p)
        PROVE  \A q \in Clients : Reports(q) \subseteq Reports(q)'
    <3>1. /\ Reports(p)' = Reports(p) \cup {Drained(p)}
          /\ \A q \in Clients \ {p} : Reports(q)' = Reports(q)
      BY <2>2, ReportsAfterSend
    <3>2. QED BY <3>1
  <2>3. QED BY <2>1, <2>2, UplinkSteps
<1>2. QED BY <1>1 DEF Reported

\* Only the application's own acknowledgements are queued.
LEMMA QueuedAcksStep ==
  TypeInv /\ QueuedAcksAreTheApplications /\ [Next]_vars => QueuedAcksAreTheApplications'
<1> SUFFICES ASSUME TypeInv, QueuedAcksAreTheApplications, [Next]_vars
             PROVE  QueuedAcksAreTheApplications'
  OBVIOUS
<1>0. app_queue \in Seq(AppMessages)
  BY DEF TypeInv, TravelsTyped
<1>1. CASE Enqueues
  <2>1. PICK m : AppSends(m) /\ app_queue' = Append(app_queue, m)
    BY <1>1 DEF Enqueues
  <2>2. m.kind = "ToClient" /\ m.payload.type = "LastTickReceived" => m.payload.tick \in AppTicks
    BY <2>1 DEF AppSends, NewClient, ClientDisconnect, ToClient, LastTickReceived, WorldState
  <2>3. /\ DOMAIN app_queue' = 1..(Len(app_queue) + 1) /\ DOMAIN app_queue = 1..Len(app_queue)
        /\ \A i \in 1..Len(app_queue) : app_queue'[i] = app_queue[i]
        /\ app_queue'[Len(app_queue) + 1] = m
        /\ Len(app_queue) \in Nat
    BY <1>0, <2>1, AppendFacts
  <2>4. QED BY <2>2, <2>3 DEF QueuedAcksAreTheApplications
<1>2. CASE Serves \/ Answers \/ Rests
  BY <1>2 DEF Serves, Answers, HandleControllerInput, Rests, QueuedAcksAreTheApplications
<1>3. QED BY <1>1, <1>2, ServerSteps

\* The datagrams of the socket half acknowledge the tick then remembered.
LEMMA AnswerFacts ==
  ASSUME TypeInv, ReportsEndAfterZero, NEW d \in uplink, HandleControllerInput(d)
  PROVE  \E user \in UsersAt(d.src) :
           /\ last_tick_received' \in {last_tick_received} \cup {LastTick(a) : a \in Reports(d.src)}
           /\ \A e \in downlink' \ downlink :
                 /\ e.body = LastTickReceived(last_tick_received') /\ last_tick_received' > 0
                 /\ <<e.dst, user>> \in address_user
           /\ \/ UNCHANGED <<last_tick_received, to_application>>
              \/ /\ server_pc' = "exited" /\ UNCHANGED <<to_application, downlink>>
              \/ \E cs \in Sequences :
                    /\ last_tick_received' = LastTick(cs)
                    /\ to_application' = Append(to_application, [from |-> user, payload |-> cs])
<1>1. PICK user \in UsersAt(d.src), cs \in ToControllerSequence(d.packet) :
         AcceptNewer(user, cs) \/ AcknowledgeOlder(user, cs)
  BY DEF HandleControllerInput
<1>2. /\ cs \in Sequences /\ d.src \in Clients /\ last_tick_received \in Nat
      /\ address_user \subseteq Clients \X User
  BY DEF TypeInv, TypeOK, ServerTypeOK, TravelsTyped
<1>3. cs \in Reports(d.src)
  BY DEF Reports
<1>4. LastTick(cs) \in Nat /\ LastTick(cs) > 0
  BY <1>2, <1>3, LastTickNat DEF ReportsEndAfterZero
<1>5. ASSUME NEW tick, NEW e \in SendMessage(address_user, user, LastTickReceived(tick))
      PROVE  e.body = LastTickReceived(tick) /\ <<e.dst, user>> \in address_user
  <2>1. PICK pair \in address_user :
           pair[2] = user /\ e = [dst |-> pair[1], body |-> LastTickReceived(tick)]
    BY DEF SendMessage
  <2>2. e.dst = pair[1] /\ e.body = LastTickReceived(tick)
    BY <2>1
  <2>3. <<pair[1], pair[2]>> = pair
    BY <1>2
  <2>4. QED BY <2>1, <2>2, <2>3
<1>6. CASE AcceptNewer(user, cs)
  <2>1. last_tick_received' = LastTick(cs)
    BY <1>6 DEF AcceptNewer
  <2>2. CASE server_app = "quit"
    BY <1>3, <1>6, <2>1, <2>2 DEF AcceptNewer, networkVars
  <2>3. CASE server_app # "quit"
    <3>1. /\ to_application' = Append(to_application, [from |-> user, payload |-> cs])
          /\ downlink' = downlink \cup SendMessage(address_user, user, LastTickReceived(LastTick(cs)))
      BY <1>6, <2>3 DEF AcceptNewer, SendToClients
    <3>2. QED BY <1>2, <1>3, <1>4, <1>5, <2>1, <3>1
  <2>4. QED BY <2>2, <2>3
<1>7. CASE AcknowledgeOlder(user, cs)
  <2>1. /\ UNCHANGED <<last_tick_received, to_application>>
        /\ downlink' = downlink \cup SendMessage(address_user, user, LastTickReceived(last_tick_received))
        /\ LastTick(cs) <= last_tick_received
    BY <1>7 DEF AcknowledgeOlder, SendToClients
  <2>2. last_tick_received > 0
    BY <1>2, <1>4, <2>1
  <2>3. QED BY <1>5, <2>1, <2>2
<1>8. QED BY <1>1, <1>6, <1>7

\* Every step of the system keeps AckInv.
LEMMA AckStep == TypeInv /\ AckInv /\ [Next]_vars => AckInv'
<1> SUFFICES ASSUME TypeInv, AckInv, [Next]_vars PROVE AckInv'
  OBVIOUS
<1>0. ReportsEndAfterZero' /\ QueuedAcksAreTheApplications'
  BY EndAfterZeroStep, QueuedAcksStep DEF AckInv
<1>1. \A tick : Reported(tick) => Reported(tick)'
  BY ReportedStays
<1>2. CASE Enqueues \/ Rests
  BY <1>0, <1>1, <1>2 DEF Enqueues, Rests, AckInv, AcksAreReported
<1>3. CASE Serves
  <2>1. PICK sent : /\ downlink' = downlink \cup sent
                    /\ \A d \in sent : \E type : d \in Datagrams(app_queue, type, address_user')
    BY <1>3 DEF Serves
  <2>2. ASSUME NEW d \in sent, d.body.type = "LastTickReceived" PROVE d.body.tick \in AppTicks
    <3>1. PICK i \in DOMAIN app_queue : /\ app_queue[i].kind = "ToClient"
                                        /\ d.body = app_queue[i].payload
      BY <2>1, DatagramOrigin
    <3>2. QED BY <2>2, <3>1 DEF AckInv, QueuedAcksAreTheApplications
  <2>3. AcksAreReported'
    BY <1>1, <2>1, <2>2 DEF AckInv, AcksAreReported
  <2>4. QED BY <1>0, <1>1, <1>3, <2>3 DEF Serves, AckInv
<1>4. CASE Answers /\ UNCHANGED uplink
  <2>1. PICK d \in uplink : HandleControllerInput(d)
    BY <1>4 DEF Answers
  <2>2. d.src \in Clients
    BY DEF TypeInv, TravelsTyped
  <2>3. /\ last_tick_received' \in {last_tick_received} \cup {LastTick(a) : a \in Reports(d.src)}
        /\ \A e \in downlink' \ downlink :
              e.body = LastTickReceived(last_tick_received') /\ last_tick_received' > 0
    BY <2>1, AnswerFacts DEF AckInv
  <2>4. last_tick_received' = 0 \/ Reported(last_tick_received')
    BY <2>2, <2>3 DEF AckInv, Reported
  <2>5. Reported(last_tick_received') => Reported(last_tick_received)'
    BY <1>4 DEF Reported, Reports
  <2>6. \A e \in downlink' \ downlink : e.body.tick = last_tick_received' /\ last_tick_received' # 0
    BY <2>3 DEF LastTickReceived
  <2>7. ASSUME NEW e \in downlink', e.body.type = "LastTickReceived"
        PROVE  e.body.tick \in AppTicks \/ Reported(e.body.tick)'
    <3>1. CASE e \in downlink
      BY <1>1, <2>7, <3>1 DEF AckInv, AcksAreReported
    <3>2. CASE e \notin downlink
      <4>1. e.body.tick = last_tick_received' /\ Reported(last_tick_received')
        BY <2>4, <2>6, <3>2
      <4>2. QED BY <1>4, <4>1 DEF Reported, Reports
    <3>3. QED BY <3>1, <3>2
  <2>8. QED BY <1>0, <2>4, <2>5, <2>7 DEF AckInv, AcksAreReported
<1>5. QED BY <1>2, <1>3, <1>4, ServerSteps

\* AckInv holds in every reachable state.
LEMMA AckInvariant == Spec => []AckInv
<1>1. Init => AckInv
  BY DEF Init, ServerInit, NetworkInit, AckInv, ReportsEndAfterZero, Reports,
    QueuedAcksAreTheApplications, AcksAreReported
<1>2. QED BY <1>1, AckStep, TypeInvInvariant, PTL DEF Spec

(***************************************************************************)
(* An acknowledgement is never ahead of the clients, whatever the network  *)
(* repeats and whichever client is served: its tick is the last tick of a  *)
(* packet some client sent, or one the application sent itself.            *)
(***************************************************************************)
THEOREM AcksAreNotFromTheFuture == Spec => []NoAckFromTheFuture
<1>1. AckInv => NoAckFromTheFuture
  BY DEF AckInv, AcksAreReported, Reported, NoAckFromTheFuture, Acks, Deliverable
<1>2. QED BY <1>1, AckInvariant, PTL

-----------------------------------------------------------------------------
(***************************************************************************)
(* AckMeansReceived is a promise of a server with one user whose           *)
(* application sends no acknowledgements itself: last_tick_received is one *)
(* for all users, so with two of them a client is told of ticks that only  *)
(* the other reached (AckIsOfOwnInput and its run).                        *)
(***************************************************************************)
SingleUser == AppTicks = {} /\ \A p, q \in Clients : UserOf[p] = UserOf[q]

DeliveredAt(user, tick) ==
  \E i \in DOMAIN to_application :
     to_application[i].from = user /\ LastTick(to_application[i].payload) = tick

LatestDelivered == \A q \in Clients : DeliveredAt(UserOf[q], last_tick_received)

\* The tick remembered was delivered, unless the servicer left before it
\* could be; what was acknowledged was delivered.
ReceivedInv ==
  /\ server_pc # "exited" => last_tick_received = 0 \/ LatestDelivered
  /\ \A d \in downlink :
        d.body.type = "LastTickReceived" => DeliveredAt(UserOf[d.dst], d.body.tick)

\* What was delivered stays so.
LEMMA DeliveredStays ==
  ASSUME TypeInv, NEW user, NEW tick, DeliveredAt(user, tick),
         UNCHANGED to_application \/ \E m : to_application' = Append(to_application, m)
  PROVE  DeliveredAt(user, tick)'
<1>1. to_application \in Seq([from : User, payload : Sequences])
  BY DEF TypeInv, TypeOK, ServerTypeOK
<1>2. CASE UNCHANGED to_application
  BY <1>2 DEF DeliveredAt
<1>3. ASSUME NEW m, to_application' = Append(to_application, m) PROVE DeliveredAt(user, tick)'
  <2>1. /\ DOMAIN to_application' = 1..(Len(to_application) + 1)
        /\ DOMAIN to_application = 1..Len(to_application) /\ Len(to_application) \in Nat
        /\ \A i \in 1..Len(to_application) : to_application'[i] = to_application[i]
    BY <1>1, <1>3, AppendFacts
  <2>2. \A i \in DOMAIN to_application : i \in DOMAIN to_application'
    BY <2>1
  <2>3. QED BY <2>1, <2>2 DEF DeliveredAt
<1>4. QED BY <1>2, <1>3

\* Every step of a server with one user keeps ReceivedInv.
LEMMA ReceivedStep ==
  ASSUME SingleUser
  PROVE  TypeInv /\ AckInv /\ BookIsCredited /\ ReceivedInv /\ [Next]_vars => ReceivedInv'
<1> SUFFICES ASSUME TypeInv, AckInv, BookIsCredited, ReceivedInv, [Next]_vars PROVE ReceivedInv'
  OBVIOUS
<1>0. server_pc' # "exited" => server_pc # "exited"
  BY ServerEndIsFinal
<1>1. CASE Enqueues \/ Rests
  BY <1>0, <1>1 DEF Enqueues, Rests, ReceivedInv, LatestDelivered, DeliveredAt
<1>2. CASE Serves
  <2>1. PICK sent : /\ downlink' = downlink \cup sent
                    /\ \A d \in sent : \E type : d \in Datagrams(app_queue, type, address_user')
    BY <1>2 DEF Serves
  <2>2. \A d \in sent : d.body.type # "LastTickReceived"
    <3> SUFFICES ASSUME NEW d \in sent, d.body.type = "LastTickReceived" PROVE FALSE
      OBVIOUS
    <3>1. PICK i \in DOMAIN app_queue : /\ app_queue[i].kind = "ToClient"
                                        /\ d.body = app_queue[i].payload
      BY <2>1, DatagramOrigin
    <3>2. QED BY <3>1 DEF AckInv, QueuedAcksAreTheApplications, SingleUser
  <2>3. QED BY <1>0, <1>2, <2>1, <2>2 DEF Serves, ReceivedInv, LatestDelivered, DeliveredAt
<1>3. CASE Answers
  <2>1. PICK d \in uplink : HandleControllerInput(d)
    BY <1>3 DEF Answers
  <2>2. /\ server_pc = "net" /\ d.src \in Clients
        /\ address_user \subseteq Clients \X User
        /\ to_application \in Seq([from : User, payload : Sequences])
    BY <2>1 DEF HandleControllerInput, TypeInv, TypeOK, ServerTypeOK, TravelsTyped
  <2>3. PICK user \in UsersAt(d.src) :
           /\ \A e \in downlink' \ downlink :
                 /\ e.body = LastTickReceived(last_tick_received') /\ last_tick_received' > 0
                 /\ <<e.dst, user>> \in address_user
           /\ \/ UNCHANGED <<last_tick_received, to_application>>
              \/ /\ server_pc' = "exited" /\ UNCHANGED <<to_application, downlink>>
              \/ \E cs \in Sequences :
                    /\ last_tick_received' = LastTick(cs)
                    /\ to_application' = Append(to_application, [from |-> user, payload |-> cs])
    BY <2>1, AnswerFacts DEF AckInv
  <2>4. \A q \in Clients : UserOf[q] = user
    BY <2>2 DEF UsersAt, BookIsCredited, SingleUser
  <2>5. \A u, tick : DeliveredAt(u, tick) => DeliveredAt(u, tick)'
    BY <2>3, DeliveredStays
  <2>6. \/ server_pc' = "exited" /\ UNCHANGED downlink
        \/ last_tick_received' = 0
        \/ LatestDelivered'
    <3>1. CASE UNCHANGED <<last_tick_received, to_application>>
      BY <2>2, <3>1 DEF ReceivedInv, LatestDelivered, DeliveredAt
    <3>2. ASSUME NEW cs \in Sequences, last_tick_received' = LastTick(cs),
                 to_application' = Append(to_application, [from |-> user, payload |-> cs])
          PROVE  DeliveredAt(user, last_tick_received)'
      <4> DEFINE m == [from |-> user, payload |-> cs]
                 n == Len(to_application) + 1
      <4>1. m.from = user /\ m.payload = cs
        OBVIOUS
      <4> HIDE DEF m
      <4>2. n \in DOMAIN to_application' /\ to_application'[n] = m
        BY <2>2, <3>2, AppendFacts DEF m
      <4>3. QED BY <3>2, <4>1, <4>2 DEF DeliveredAt
    <3>3. QED BY <2>3, <2>4, <3>1, <3>2 DEF LatestDelivered
  <2>7. ASSUME NEW e \in downlink', e.body.type = "LastTickReceived"
        PROVE  DeliveredAt(UserOf[e.dst], e.body.tick)'
    <3>1. CASE e \in downlink
      BY <2>5, <2>7, <3>1 DEF ReceivedInv
    <3>2. CASE e \notin downlink
      <4>1. /\ e.body.tick = last_tick_received' /\ last_tick_received' # 0
            /\ e.dst \in Clients
        <5>1. /\ e.body = LastTickReceived(last_tick_received') /\ last_tick_received' > 0
              /\ <<e.dst, user>> \in Clients \X User
          BY <2>2, <2>3, <3>2
        <5>2. e.body.tick = last_tick_received'
          BY <5>1 DEF LastTickReceived
        <5>3. QED BY <5>1, <5>2
      <4>2. QED BY <2>6, <3>2, <4>1 DEF LatestDelivered
    <3>3. QED BY <3>1, <3>2
  <2>8. QED BY <2>6, <2>7 DEF ReceivedInv
<1>4. QED BY <1>1, <1>2, <1>3, ServerSteps

(***************************************************************************)
(* With one user, an acknowledgement means that the input was received:    *)
(* a sequence of that user which ends at the tick was given to the         *)
(* application, and before the acknowledgement was sent.                   *)
(***************************************************************************)
THEOREM AcksMeanReceived ==
  ASSUME SingleUser
  PROVE  Spec => []AckMeansReceived
<1>1. Init => ReceivedInv
  BY DEF Init, ServerInit, NetworkInit, ReceivedInv
<1>2. ReceivedInv => AckMeansReceived
  BY DEF ReceivedInv, DeliveredAt, AckMeansReceived, Acks, Deliverable
<1>3. TypeInv /\ AckInv /\ BookIsCredited /\ ReceivedInv /\ [Next]_vars => ReceivedInv'
  BY ReceivedStep
<1>4. QED
  BY <1>1, <1>2, <1>3, AckInvariant, CreditedInvariant, TypeInvInvariant, PTL DEF Spec
=============================================================================
