--------------------------- MODULE ReliableProofs ---------------------------
(***************************************************************************)
(* Proofs about Reliable, for every set of clients, peers and users, every *)
(* read buffer and every bound: types, how connections begin and end, and  *)
(* what a join tells the two sides.                                        *)
(***************************************************************************)
EXTENDS Reliable, TLAPS

-----------------------------------------------------------------------------
(***************************************************************************)
(* TypeOK in parts, by who owns the variables.                             *)
(***************************************************************************)
StreamsTyped ==
  /\ buf_len \in ReadLens
  /\ client_end \in [Conns -> {"none", "open", "closed"}]
  /\ server_end \in [Conns -> {"none", "backlog", "open", "closed"}]
  /\ up \in [Conns -> Seq(ClientMessages)]
  /\ down \in [Conns -> Seq(ServerMessages)]

ClientsTyped ==
  /\ client_pc \in [Clients -> {"idle", "joining", "confirmed", "spinning", "resting",
                                "leaving", "ended"}]
  /\ client_app \in [Clients -> {"none", "up", "quit", "gone"}]
  /\ chat_in \in [Clients -> Seq(Ids)]
  /\ chat_out \in [Clients -> 0..MaxChatOut]
  /\ shutdown \in [Clients -> BOOLEAN]
  /\ taken \in [Clients -> Seq(Ids)]

ServerTyped ==
  /\ running \in BOOLEAN
  /\ listener_pc \in {"starting", "accepting", "check", "joining", "exited"}
  /\ servicer_pc \in [Conns -> {"none", "join", "answer", "announce", "drain", "forward",
                                "read", "check", "ended"}]
  /\ queue \in Seq(Addressed)
  /\ batch \in [Conns -> Seq(Addressed)]
  /\ \A p \in Conns : batch[p] # << >> => servicer_pc[p] \in {"drain", "forward"}
  /\ to_application \in [Conns -> Seq({ClientData} \cup ClientMessages)]
  /\ server_app \in {"up", "quitting", "closing", "dropping", "gone"}
  /\ server_shutdown \in BOOLEAN
  /\ sent \in Seq(User) /\ Len(sent) <= MaxSent

PeersTyped == peer_sent \in [Peers -> 0..MaxUp]

\* The parts make up TypeOK.
LEMMA TypeOKParts == TypeOK <=> StreamsTyped /\ ClientsTyped /\ ServerTyped /\ PeersTyped
BY DEF TypeOK, StreamsTyped, ClientsTyped, ServerTyped, PeersTyped

-----------------------------------------------------------------------------
\* What is left of a sequence keeps its type.
LEMMA RestTyped ==
  ASSUME NEW S, NEW s \in Seq(S), NEW n \in 1..Len(s)
  PROVE  SubSeq(s, n + 1, Len(s)) \in Seq(S) /\ s[1] \in S
OBVIOUS

\* So do the head and the tail of a queue.
LEMMA HeadTailTyped ==
  ASSUME NEW S, NEW s \in Seq(S), s # << >>
  PROVE  Head(s) \in S /\ Tail(s) \in Seq(S)
OBVIOUS

\* Opening and closing the ends of connections.
LEMMA EndsTyped ==
  ASSUME StreamsTyped, NEW p \in Conns,
         \/ \E ms \in Seq(ClientMessages) : OpenAndWrite(p, ms)
         \/ CloseClientEnd(p)
         \/ \E ps : CloseServerEnds(ps)
  PROVE  StreamsTyped'
<1>1. ASSUME NEW ms \in Seq(ClientMessages), OpenAndWrite(p, ms) PROVE StreamsTyped'
  BY <1>1 DEF OpenAndWrite, StreamsTyped
<1>2. CASE CloseClientEnd(p)
  BY <1>2 DEF CloseClientEnd, StreamsTyped
<1>3. ASSUME NEW ps, CloseServerEnds(ps) PROVE StreamsTyped'
  BY <1>3 DEF CloseServerEnds, StreamsTyped
<1>4. QED BY <1>1, <1>2, <1>3

\* Writing to connections.
LEMMA WritesTyped ==
  ASSUME StreamsTyped, NEW p \in Conns,
         \/ \E m \in ServerMessages : WriteDown(p, m)
         \/ \E m \in ClientMessages : WriteUp(p, m)
  PROVE  StreamsTyped'
<1>1. ASSUME NEW m \in ServerMessages, WriteDown(p, m) PROVE StreamsTyped'
  <2>1. Append(down[p], m) \in Seq(ServerMessages)
    BY DEF StreamsTyped
  <2>2. QED BY <1>1, <2>1 DEF WriteDown, StreamsTyped
<1>2. ASSUME NEW m \in ClientMessages, WriteUp(p, m) PROVE StreamsTyped'
  <2>1. Append(up[p], m) \in Seq(ClientMessages)
    BY DEF StreamsTyped
  <2>2. QED BY <1>2, <2>1 DEF WriteUp, StreamsTyped
<1>3. QED BY <1>1, <1>2

\* Reading from connections.
LEMMA ReadsTyped ==
  ASSUME StreamsTyped, NEW p \in Conns, NEW m
  PROVE  /\ ReadUp(p, m) => StreamsTyped' /\ m \in ClientMessages
         /\ ReadDown(p, m) => StreamsTyped' /\ m \in ServerMessages
<1>0. buf_len \in Nat
  BY StreamsAssumption DEF StreamsTyped
<1>1. ASSUME ReadUp(p, m) PROVE StreamsTyped' /\ m \in ClientMessages
  <2>1. PICK n \in 1..buf_len :
           /\ n <= Len(up[p]) /\ m = up[p][1]
           /\ up' = [up EXCEPT ![p] = SubSeq(up[p], n + 1, Len(up[p]))]
           /\ UNCHANGED <<buf_len, client_end, server_end, down>>
    BY <1>1 DEF ReadUp
  <2>2. up[p] \in Seq(ClientMessages)
    BY DEF StreamsTyped
  <2>3. n \in 1..Len(up[p])
    BY <1>0, <2>1, <2>2
  <2>4. SubSeq(up[p], n + 1, Len(up[p])) \in Seq(ClientMessages) /\ up[p][1] \in ClientMessages
    BY <2>2, <2>3, RestTyped
  <2>5. QED BY <2>1, <2>4 DEF StreamsTyped
<1>2. ASSUME ReadDown(p, m) PROVE StreamsTyped' /\ m \in ServerMessages
  <2>1. PICK n \in 1..buf_len :
           /\ n <= Len(down[p]) /\ m = down[p][1]
           /\ down' = [down EXCEPT ![p] = SubSeq(down[p], n + 1, Len(down[p]))]
           /\ UNCHANGED <<buf_len, client_end, server_end, up>>
    BY <1>2 DEF ReadDown
  <2>2. down[p] \in Seq(ServerMessages)
    BY DEF StreamsTyped
  <2>3. n \in 1..Len(down[p])
    BY <1>0, <2>1, <2>2
  <2>4. SubSeq(down[p], n + 1, Len(down[p])) \in Seq(ServerMessages) /\ down[p][1] \in ServerMessages
    BY <2>2, <2>3, RestTyped
  <2>5. QED BY <2>1, <2>4 DEF StreamsTyped
<1>3. QED BY <1>1, <1>2

-----------------------------------------------------------------------------
\* Everything is empty and unconnected at first.
LEMMA TypeInit == Init => TypeOK
<1> SUFFICES ASSUME Init PROVE StreamsTyped /\ ClientsTyped /\ ServerTyped /\ PeersTyped
  BY TypeOKParts
<1>1. StreamsTyped
  BY DEF Init, StreamsInit, StreamsTyped
<1>2. ClientsTyped
  BY ClientAssumption DEF Init, ReliableInit, ClientsTyped
<1> DEFINE empty == << >>
<1>3. /\ empty \in Seq(User) /\ Len(empty) = 0 /\ empty \in Seq(Addressed)
      /\ empty \in Seq({ClientData} \cup ClientMessages)
  OBVIOUS
<1>4. /\ queue = empty /\ sent = empty
      /\ batch = [p \in Conns |-> empty] /\ to_application = [p \in Conns |-> empty]
  BY DEF Init, ServerInit
<1>5. ServerTyped
  <2> HIDE DEF empty
  <2>1. queue \in Seq(Addressed) /\ sent \in Seq(User) /\ Len(sent) <= MaxSent
    BY <1>3, <1>4, StreamsAssumption
  <2>2. batch \in [Conns -> Seq(Addressed)] /\ \A p \in Conns : batch[p] = empty
    BY <1>3, <1>4
  <2>3. to_application \in [Conns -> Seq({ClientData} \cup ClientMessages)]
    BY <1>3, <1>4
  <2>4. QED BY <2>1, <2>2, <2>3 DEF Init, ServerInit, ServerTyped, empty
<1>6. PeersTyped
  BY StreamsAssumption DEF Init, PeersTyped
<1>7. QED BY <1>1, <1>2, <1>5, <1>6

-----------------------------------------------------------------------------
\* A step of a client leaves the server's and the peers' variables alone.
LEMMA ServerTypedSame == ServerTyped /\ PeersTyped /\ UNCHANGED <<serverVars, peer_sent>> => ServerTyped' /\ PeersTyped'
BY DEF ServerTyped, PeersTyped, serverVars, applicationVars

\* The streams keep their types when they are left alone.
LEMMA StreamsTypedSame == StreamsTyped /\ UNCHANGED streamVars => StreamsTyped'
BY DEF StreamsTyped, streamVars

\* A message of the server that a client reads.
LEMMA TypeClientReads ==
  ASSUME StreamsTyped, ClientsTyped, NEW p \in Clients, ReceiveServerMessage(p)
  PROVE  StreamsTyped' /\ ClientsTyped'
<1>0. p \in Conns
  BY DEF Conns
<1>1. CASE ReceiveNothing(p)
  BY <1>1, StreamsTypedSame DEF ReceiveNothing, ClientGoes, ClientsTyped
<1>2. CASE ReceiveConfirmation(p)
  <2>1. StreamsTyped'
    BY <1>0, <1>2, ReadsTyped DEF ReceiveConfirmation
  <2>2. ClientsTyped'
    BY <1>2 DEF ReceiveConfirmation, ClientGoes, ClientsTyped
  <2>3. QED BY <2>1, <2>2
<1>3. CASE ReceiveAuthenticationError(p)
  <2>1. StreamsTyped'
    BY <1>0, <1>3, ReadsTyped DEF ReceiveAuthenticationError
  <2>2. ClientsTyped'
    BY <1>3 DEF ReceiveAuthenticationError, ClientGoes, ClientsTyped
  <2>3. QED BY <2>1, <2>2
<1>4. CASE ReceiveChat(p)
  <2>1. PICK id \in 1..MaxSent : ReadDown(p, ServerChat(id)) /\
          IF client_app[p] = "quit"
          THEN ClientGoes(p, "leaving") /\ UNCHANGED chat_in
          ELSE /\ ClientGoes(p, IF client_pc[p] = "joining" THEN "joining" ELSE "resting")
               /\ chat_in' = [chat_in EXCEPT ![p] = Append(@, id)]
    BY <1>4 DEF ReceiveChat
  <2>2. StreamsTyped'
    BY <1>0, <2>1, ReadsTyped
  <2>3. id \in Ids
    BY StreamsAssumption DEF Ids
  <2>4. Append(chat_in[p], id) \in Seq(Ids)
    BY <2>3 DEF ClientsTyped
  <2>5. chat_in' \in [Clients -> Seq(Ids)]
    BY <2>1, <2>4 DEF ClientsTyped
  <2>6. client_pc' \in [Clients -> {"idle", "joining", "confirmed", "spinning", "resting",
                                    "leaving", "ended"}]
    BY <2>1 DEF ClientsTyped, ClientGoes
  <2>7. QED BY <1>4, <2>2, <2>5, <2>6 DEF ReceiveChat, ClientsTyped
<1>5. QED BY <1>1, <1>2, <1>3, <1>4 DEF ReceiveServerMessage

\* The other steps of a client.
LEMMA TypeClientRuns ==
  ASSUME StreamsTyped, ClientsTyped, NEW p \in Clients,
         \/ Rest(p) \/ DropServicer(p) \/ SpawnServicers(p)
         \/ Connect(p) \/ ConnectFails(p) \/ ReliableClientApp(p) \/ ClientProcessEnds(p)
  PROVE  StreamsTyped' /\ ClientsTyped'
<1>0. p \in Conns
  BY DEF Conns
<1> DEFINE empty == << >>
<1>e. empty \in Seq(Ids)
  OBVIOUS
<1>1. CASE Rest(p)
  BY <1>1, StreamsTypedSame DEF Rest, ClientGoes, ClientsTyped
<1>2. CASE DropServicer(p)
  <2>1. StreamsTyped'
    BY <1>0, <1>2, EndsTyped DEF DropServicer
  <2>2. QED BY <1>2, <2>1 DEF DropServicer, ClientGoes, ClientsTyped
<1>3. CASE SpawnServicers(p)
  BY <1>3, StreamsTypedSame DEF SpawnServicers, ClientGoes, ClientsTyped
<1>4. CASE Connect(p)
  <2>1. <<JoinRequest>> \in Seq(ClientMessages)
    BY DEF ClientMessages
  <2>2. StreamsTyped'
    BY <1>0, <1>4, <2>1, EndsTyped DEF Connect
  <2>3. QED BY <1>4, <2>2 DEF Connect, ClientGoes, ClientsTyped
<1>5. CASE ConnectFails(p)
  BY <1>5, StreamsTypedSame DEF ConnectFails, ClientGoes, ClientsTyped
<1>6. CASE SendChatMessage(p)
  <2>1. chat_out' \in [Clients -> 0..MaxChatOut]
    <3>1. CASE client_pc[p] = "ended"
      BY <1>6, <3>1 DEF SendChatMessage, ClientsTyped
    <3>2. CASE client_pc[p] # "ended"
      <4>1. chat_out[p] < MaxChatOut /\ chat_out' = [chat_out EXCEPT ![p] = @ + 1]
        BY <1>6, <3>2 DEF SendChatMessage
      <4>2. chat_out[p] + 1 \in 0..MaxChatOut
        BY <4>1, ClientAssumption DEF ClientsTyped
      <4>3. QED BY <4>1, <4>2 DEF ClientsTyped
    <3>3. QED BY <3>1, <3>2
  <2>2. shutdown' \in [Clients -> BOOLEAN]
    BY <1>6 DEF SendChatMessage, ClientsTyped
  <2>3. QED BY <1>6, <2>1, <2>2, StreamsTypedSame DEF SendChatMessage, ClientsTyped
<1>7. CASE TakeChatHistory(p)
  <2>1. taken[p] \o chat_in[p] \in Seq(Ids)
    BY DEF ClientsTyped
  <2>2. taken' \in [Clients -> Seq(Ids)]
    BY <1>7, <2>1 DEF TakeChatHistory, ClientsTyped
  <2>3. chat_in' = [chat_in EXCEPT ![p] = empty]
    BY <1>7 DEF TakeChatHistory
  <2>4. chat_in' \in [Clients -> Seq(Ids)]
    <3> HIDE DEF empty
    <3>1. QED BY <1>e, <2>3 DEF ClientsTyped
  <2>5. shutdown' \in [Clients -> BOOLEAN]
    BY <1>7 DEF TakeChatHistory, ClientsTyped
  <2>6. QED BY <1>7, <2>2, <2>4, <2>5, StreamsTypedSame DEF TakeChatHistory, ClientsTyped
<1>8. CASE LowLatencyShutdown(p)
  BY <1>8, StreamsTypedSame DEF LowLatencyShutdown, ClientsTyped
<1>9. CASE Quit(p)
  <2>1. chat_in' = [chat_in EXCEPT ![p] = empty]
    BY <1>9 DEF Quit
  <2>2. chat_in' \in [Clients -> Seq(Ids)]
    <3> HIDE DEF empty
    <3>1. QED BY <1>e, <2>1 DEF ClientsTyped
  <2>3. QED BY <1>9, <2>2, StreamsTypedSame DEF Quit, ClientsTyped
<1>10. CASE ClientProcessEnds(p)
  <2>1. chat_in' = [chat_in EXCEPT ![p] = empty]
    BY <1>10 DEF ClientProcessEnds
  <2>2. chat_in' \in [Clients -> Seq(Ids)]
    <3> HIDE DEF empty
    <3>1. QED BY <1>e, <2>1 DEF ClientsTyped
  <2>3. StreamsTyped'
    BY <1>0, <1>10, EndsTyped DEF ClientProcessEnds
  <2>4. QED BY <1>10, <2>2, <2>3 DEF ClientProcessEnds, ClientGoes, ClientsTyped
<1>11. QED BY <1>1, <1>2, <1>3, <1>4, <1>5, <1>6, <1>7, <1>8, <1>9, <1>10
           DEF ReliableClientApp

\* A step of a peer.
LEMMA TypePeer ==
  ASSUME TypeOK, NEW p \in Peers, PeerStep(p)
  PROVE  TypeOK'
<1>0. /\ StreamsTyped /\ ClientsTyped /\ ServerTyped /\ PeersTyped /\ p \in Conns
  BY TypeOKParts DEF Conns
<1>1. ASSUME PeerConnects(p) PROVE StreamsTyped' /\ PeersTyped'
  <2>1. << >> \in Seq(ClientMessages)
    OBVIOUS
  <2>2. StreamsTyped'
    BY <1>0, <1>1, <2>1, EndsTyped DEF PeerConnects
  <2>3. PeersTyped'
    BY <1>0, <1>1 DEF PeerConnects, PeersTyped
  <2>4. QED BY <2>2, <2>3
<1>2. ASSUME PeerSends(p) PROVE StreamsTyped' /\ PeersTyped'
  <2>1. PICK m \in {JoinRequest, ClientChat(peer_sent[p] + 1)} : WriteUp(p, m)
    BY <1>2 DEF PeerSends
  <2>2. peer_sent[p] + 1 \in 1..MaxUp
    BY <1>0, <1>2, StreamsAssumption DEF PeersTyped, PeerSends
  <2>3. m \in ClientMessages
    BY <2>1, <2>2 DEF ClientMessages
  <2>4. StreamsTyped'
    BY <1>0, <2>1, <2>3, WritesTyped
  <2>5. PeersTyped'
    BY <1>0, <1>2, StreamsAssumption DEF PeersTyped, PeerSends
  <2>6. QED BY <2>4, <2>5
<1>3. ASSUME PeerLeaves(p) PROVE StreamsTyped' /\ PeersTyped'
  BY <1>0, <1>3, EndsTyped DEF PeerLeaves, PeersTyped
<1>4. StreamsTyped' /\ PeersTyped'
  BY <1>1, <1>2, <1>3 DEF PeerStep
<1>5. ClientsTyped' /\ ServerTyped'
  BY <1>0 DEF PeerStep, reliableVars, serverVars, applicationVars, ClientsTyped, ServerTyped
<1>6. QED
  <2>1. (TypeOK <=> StreamsTyped /\ ClientsTyped /\ ServerTyped /\ PeersTyped)'
    BY TypeOKParts, PTL
  <2>2. QED BY <1>4, <1>5, <2>1

-----------------------------------------------------------------------------
\* A servicer's place, and its batch when it is dropped with that.
LEMMA ServicerTyped ==
  ASSUME ServerTyped, NEW p \in Conns,
         NEW pc \in {"join", "answer", "announce", "drain", "forward", "read", "check", "ended"},
         ServicerGoes(p, pc),
         \/ batch' = [batch EXCEPT ![p] = << >>]
         \/ batch' = batch /\ (batch[p] = << >> \/ pc \in {"drain", "forward"}),
         UNCHANGED <<running, listener_pc, queue, to_application, applicationVars>>
  PROVE  ServerTyped'
<1> DEFINE empty == << >>
<1>1. empty \in Seq(Addressed)
  OBVIOUS
<1>2. /\ servicer_pc' = [servicer_pc EXCEPT ![p] = pc]
      /\ \/ batch' = [batch EXCEPT ![p] = empty]
         \/ batch' = batch /\ (batch[p] = empty \/ pc \in {"drain", "forward"})
  BY DEF ServicerGoes
<1>3. /\ batch \in [Conns -> Seq(Addressed)]
      /\ \A q \in Conns : batch[q] # empty => servicer_pc[q] \in {"drain", "forward"}
      /\ servicer_pc \in [Conns -> {"none", "join", "answer", "announce", "drain", "forward",
                                    "read", "check", "ended"}]
  BY DEF ServerTyped
<1>4. /\ batch' \in [Conns -> Seq(Addressed)]
      /\ \A q \in Conns : batch'[q] # empty => servicer_pc'[q] \in {"drain", "forward"}
      /\ servicer_pc' \in [Conns -> {"none", "join", "answer", "announce", "drain", "forward",
                                     "read", "check", "ended"}]
  <2> HIDE DEF empty
  <2>1. QED BY <1>1, <1>2, <1>3
<1>5. QED BY <1>4 DEF ServerTyped, applicationVars

\* A servicer thread ends.
LEMMA EndServicerTyped ==
  ASSUME StreamsTyped, ServerTyped, NEW p \in Conns, EndServicer(p)
  PROVE  StreamsTyped' /\ ServerTyped'
BY EndsTyped, ServicerTyped DEF EndServicer

\* Outside its loop over a batch, a servicer has none.
LEMMA ServicerMoves ==
  ASSUME ServerTyped, NEW p \in Conns,
         NEW pc \in {"join", "answer", "announce", "drain", "forward", "read", "check", "ended"},
         servicer_pc[p] \notin {"drain", "forward"} \/ batch[p] = << >>,
         ServicerOnlyGoes(p, pc)
  PROVE  ServerTyped'
<1>1. batch[p] = << >>
  BY DEF ServerTyped
<1>2. QED BY <1>1, ServicerTyped DEF ServicerOnlyGoes

\* What a servicer says to the application.
LEMMA TellsTyped ==
  ASSUME ServerTyped, NEW p \in Conns, NEW m \in {ClientData} \cup ClientMessages
  PROVE  [to_application EXCEPT ![p] = Append(@, m)] \in [Conns -> Seq({ClientData} \cup ClientMessages)]
<1>1. Append(to_application[p], m) \in Seq({ClientData} \cup ClientMessages)
  BY DEF ServerTyped
<1>2. QED BY <1>1 DEF ServerTyped

\* The steps of a servicer that do not read.
LEMMA TypeServicerRuns ==
  ASSUME StreamsTyped, ServerTyped, NEW p \in Conns, ServicerRuns(p)
  PROVE  StreamsTyped' /\ ServerTyped'
<1>1. CASE ConfirmJoin(p)
  <2>1. Confirmation(0) \in ServerMessages
    BY StreamsAssumption DEF Confirmation, ServerMessages, Ids
  <2>2. StreamsTyped'
    BY <1>1, <2>1, WritesTyped DEF ConfirmJoin
  <2>3. ServerTyped'
    BY <1>1, ServicerMoves DEF ConfirmJoin
  <2>4. QED BY <2>2, <2>3
<1>2. CASE AnnounceClient(p)
  <2>1. CASE ReceiverAlive
    <3>1. /\ to_application' = [to_application EXCEPT ![p] = Append(@, ClientData)]
          /\ ServicerGoes(p, "drain")
          /\ UNCHANGED <<running, listener_pc, queue, batch, applicationVars, streamVars>>
      BY <1>2, <2>1 DEF AnnounceClient
    <3>2. to_application' \in [Conns -> Seq({ClientData} \cup ClientMessages)]
      BY <3>1, TellsTyped
    <3>3. ServerTyped'
      BY <3>1, <3>2 DEF ServerTyped, ServicerGoes, applicationVars
    <3>4. QED BY <3>1, <3>3, StreamsTypedSame
  <2>2. CASE ~ReceiverAlive
    BY <1>2, <2>2, EndServicerTyped DEF AnnounceClient
  <2>3. QED BY <2>1, <2>2
<1>3. CASE DrainOne(p)
  <2>1. Head(queue) \in Addressed /\ Tail(queue) \in Seq(Addressed)
    BY <1>3, HeadTailTyped DEF DrainOne, ServerTyped
  <2>2. Append(batch[p], Head(queue)) \in Seq(Addressed)
    BY <2>1 DEF ServerTyped
  <2>3. /\ servicer_pc[p] = "drain"
        /\ batch' = [batch EXCEPT ![p] = Append(batch[p], Head(queue))]
        /\ queue' = Tail(queue)
        /\ UNCHANGED <<running, listener_pc, servicer_pc, to_application, applicationVars>>
    BY <1>3 DEF DrainOne
  <2>4. ServerTyped'
    BY <2>1, <2>2, <2>3 DEF ServerTyped, applicationVars
  <2>5. QED BY <1>3, <2>4, StreamsTypedSame DEF DrainOne
<1>4. CASE DrainEnds(p)
  <2>1. ServerTyped'
    BY <1>4, ServicerTyped DEF DrainEnds
  <2>2. QED BY <1>4, <2>1, StreamsTypedSame DEF DrainEnds
<1>5. CASE Forward(p)
  <2>1. Head(batch[p]) \in Addressed /\ Tail(batch[p]) \in Seq(Addressed)
    BY <1>5, HeadTailTyped DEF Forward, ServerTyped
  <2>2. Head(batch[p]).payload \in ServerMessages
    BY <2>1 DEF Addressed
  <2>3. StreamsTyped'
    BY <1>5, <2>2, WritesTyped, StreamsTypedSame DEF Forward
  <2>4. /\ servicer_pc[p] = "forward"
        /\ batch' = [batch EXCEPT ![p] = Tail(batch[p])]
        /\ UNCHANGED <<running, listener_pc, servicer_pc, queue, to_application, applicationVars>>
    BY <1>5 DEF Forward
  <2>5. ServerTyped'
    BY <2>1, <2>4 DEF ServerTyped, applicationVars
  <2>6. QED BY <2>3, <2>5
<1>6. CASE ForwardFails(p)
  <2>1. ServerTyped'
    BY <1>6, ServicerTyped DEF ForwardFails
  <2>2. QED BY <1>6, <2>1, StreamsTypedSame DEF ForwardFails
<1>7. CASE ForwardEnds(p)
  BY <1>7, ServicerMoves, StreamsTypedSame DEF ForwardEnds
<1>8. CASE CheckSwitch(p)
  BY <1>8, ServicerMoves, StreamsTypedSame, EndServicerTyped DEF CheckSwitch
<1>9. QED BY <1>1, <1>2, <1>3, <1>4, <1>5, <1>6, <1>7, <1>8 DEF ServicerRuns

\* The steps of a servicer that read.
LEMMA TypeServicerReads ==
  ASSUME StreamsTyped, ServerTyped, NEW p \in Conns, ServicerReads(p)
  PROVE  StreamsTyped' /\ ServerTyped'
<1>1. CASE JoinFails(p)
  BY <1>1, EndServicerTyped DEF JoinFails
<1>2. CASE ReadJoinRequest(p)
  BY <1>2, ReadsTyped, ServicerMoves DEF ReadJoinRequest
<1>3. CASE ReadNothing(p)
  BY <1>3, ServicerMoves, StreamsTypedSame DEF ReadNothing
<1>4. CASE ReadChat(p)
  <2>1. PICK id \in 1..MaxUp :
          /\ ReadUp(p, ClientChat(id))
          /\ to_application' =
               IF ReceiverAlive THEN [to_application EXCEPT ![p] = Append(@, ClientChat(id))]
                                ELSE to_application
    BY <1>4 DEF ReadChat
  <2>2. StreamsTyped' /\ ClientChat(id) \in ClientMessages
    BY <2>1, ReadsTyped
  <2>3. to_application' \in [Conns -> Seq({ClientData} \cup ClientMessages)]
    <3>1. CASE ReceiverAlive
      BY <2>1, <2>2, <3>1, TellsTyped
    <3>2. CASE ~ReceiverAlive
      BY <2>1, <3>2 DEF ServerTyped
    <3>3. QED BY <3>1, <3>2
  <2>4. ServerTyped'
    BY <1>4, <2>3 DEF ReadChat, ServicerGoes, ServerTyped, applicationVars
  <2>5. QED BY <2>2, <2>4
<1>5. CASE RejectRejoin(p)
  BY <1>5, ReadsTyped, ServicerMoves DEF RejectRejoin
<1>6. QED BY <1>1, <1>2, <1>3, <1>4, <1>5 DEF ServicerReads

-----------------------------------------------------------------------------
(***************************************************************************)
(* The life of a connection: both ends come into being together, the       *)
(* server's end is open exactly as long as a servicer thread owns it, a    *)
(* client's as long as connect or spin owns it, and there is no thread     *)
(* before the listener has started.                                        *)
(***************************************************************************)
EndsMatch(p) ==
  /\ client_end[p] = "none" <=> server_end[p] = "none"
  /\ server_end[p] = "open" <=> servicer_pc[p] \notin {"none", "ended"}
  /\ servicer_pc[p] = "ended" => server_end[p] = "closed"
  /\ listener_pc = "starting" => servicer_pc[p] = "none"

ClientMatches(p) ==
  /\ client_pc[p] = "idle" => client_end[p] = "none"
  /\ client_pc[p] \notin {"idle", "ended"} => client_end[p] = "open"

Life ==
  /\ \A p \in Conns : EndsMatch(p)
  /\ \A p \in Clients : ClientMatches(p)
  /\ NothingLeftOpen

\* Nothing is connected at first.
LEMMA LifeInit == Init => Life
BY DEF Init, StreamsInit, ReliableInit, ServerInit, Life, EndsMatch, ClientMatches, NothingLeftOpen, Conns

\* The life of connections depends on these variables only.
LEMMA LifeSame ==
  ASSUME Life, UNCHANGED <<client_end, server_end, servicer_pc, listener_pc>>,
         \A p \in Clients : client_pc'[p] \in {client_pc[p], "ended"} \/
            (client_pc[p] \notin {"idle", "ended"} /\ client_pc'[p] # "idle")
  PROVE  Life'
BY DEF Life, EndsMatch, ClientMatches, NothingLeftOpen

\* Reads and writes leave the ends of connections alone.
LEMMA EndsSame ==
  ASSUME NEW p, NEW m,
         \/ ReadUp(p, m) \/ ReadDown(p, m) \/ WriteUp(p, m) \/ WriteDown(p, m)
         \/ UNCHANGED streamVars
  PROVE  UNCHANGED <<buf_len, client_end, server_end>>
BY DEF ReadUp, ReadDown, WriteUp, WriteDown, streamVars

\* A connection that does not exist is opened, and waits to be accepted.
LEMMA LifeOpens ==
  ASSUME TypeOK, Life, NEW p \in Conns, client_end[p] = "none", listener_pc # "exited",
         NEW ms, OpenAndWrite(p, ms), UNCHANGED serverVars,
         \A q \in Clients : IF q = p THEN client_pc'[q] # "idle" ELSE client_pc'[q] = client_pc[q]
  PROVE  Life'
<1>1. /\ client_end' = [client_end EXCEPT ![p] = "open"]
      /\ server_end' = [server_end EXCEPT ![p] = "backlog"]
      /\ servicer_pc' = servicer_pc /\ listener_pc' = listener_pc
  BY DEF OpenAndWrite, serverVars
<1>2. /\ client_end \in [Conns -> {"none", "open", "closed"}]
      /\ server_end \in [Conns -> {"none", "backlog", "open", "closed"}]
  BY DEF TypeOK
<1>3. \A q \in Conns : EndsMatch(q)'
  BY <1>1, <1>2 DEF Life, EndsMatch
<1>4. \A q \in Clients : ClientMatches(q)'
  BY <1>1, <1>2 DEF Life, ClientMatches, Conns
<1>5. QED BY <1>1, <1>3, <1>4 DEF Life, NothingLeftOpen

\* A client closes its end of a connection it has opened.
LEMMA LifeCloses ==
  ASSUME TypeOK, Life, NEW p \in Conns, client_end[p] # "none", CloseClientEnd(p),
         UNCHANGED serverVars,
         \A q \in Clients : IF q = p THEN client_pc'[q] = "ended" ELSE client_pc'[q] = client_pc[q]
  PROVE  Life'
<1>1. /\ client_end' = [client_end EXCEPT ![p] = "closed"]
      /\ server_end' = server_end /\ servicer_pc' = servicer_pc /\ listener_pc' = listener_pc
  BY DEF CloseClientEnd, serverVars
<1>2. client_end \in [Conns -> {"none", "open", "closed"}]
  BY DEF TypeOK
<1>3. \A q \in Conns : EndsMatch(q)'
  BY <1>1, <1>2 DEF Life, EndsMatch
<1>4. \A q \in Clients : ClientMatches(q)'
  BY <1>1, <1>2 DEF Life, ClientMatches, Conns
<1>5. QED BY <1>1, <1>3, <1>4 DEF Life, NothingLeftOpen

\* A servicer that has a thread moves on, and the ends are left alone.
LEMMA LifeServicer ==
  ASSUME TypeOK, Life, NEW p \in Conns, NEW pc,
         servicer_pc[p] \notin {"none", "ended"}, pc \notin {"none", "ended"},
         servicer_pc' = [servicer_pc EXCEPT ![p] = pc] \/ servicer_pc' = servicer_pc,
         UNCHANGED <<client_end, server_end, listener_pc, client_pc>>
  PROVE  Life'
<1>1. servicer_pc \in [Conns -> {"none", "join", "answer", "announce", "drain", "forward",
                                 "read", "check", "ended"}]
  BY DEF TypeOK
<1>2. \A q \in Conns : EndsMatch(q)'
  BY <1>1 DEF Life, EndsMatch
<1>3. QED BY <1>2 DEF Life, ClientMatches, NothingLeftOpen

\* A servicer thread ends.
LEMMA LifeServicerEnds ==
  ASSUME TypeOK, Life, NEW p \in Conns, servicer_pc[p] \notin {"none", "ended"},
         EndServicer(p), UNCHANGED client_pc
  PROVE  Life'
<1>1. servicer_pc \in [Conns -> {"none", "join", "answer", "announce", "drain", "forward",
                                 "read", "check", "ended"}]
  BY DEF TypeOK
<1>2. /\ servicer_pc' = [servicer_pc EXCEPT ![p] = "ended"]
      /\ server_end' = [q \in Conns |-> IF q = p THEN "closed" ELSE server_end[q]]
      /\ UNCHANGED <<listener_pc, client_end>>
  BY DEF EndServicer, ServicerGoes, CloseServerEnds
<1>3. \A q \in Conns : EndsMatch(q)'
  BY <1>1, <1>2 DEF Life, EndsMatch
<1>4. QED BY <1>2, <1>3 DEF Life, ClientMatches, NothingLeftOpen

\* The listener ends, and with it the connections it has not accepted.
LEMMA LifeListenerEnds ==
  ASSUME TypeOK, Life, ListenerFails \/ ListenerJoins, UNCHANGED client_pc
  PROVE  Life'
<1>1. /\ listener_pc' = "exited" /\ listener_pc # "exited"
      /\ server_end' = [q \in Conns |-> IF server_end[q] = "backlog" THEN "closed" ELSE server_end[q]]
      /\ UNCHANGED <<servicer_pc, client_end>>
      /\ listener_pc = "starting" \/ \A q \in Conns : NoThread(q)
  BY DEF ListenerFails, ListenerJoins, ListenerTo, CloseServerEnds, Backlog
<1>2. \A q \in Conns : NoThread(q) /\ server_end[q] # "open"
  BY <1>1 DEF Life, EndsMatch, NoThread
<1>3. \A q \in Conns : server_end[q] \in {"none", "backlog", "open", "closed"}
  BY DEF TypeOK
<1>4. \A q \in Conns : EndsMatch(q)' /\ server_end'[q] \in {"none", "closed"}
  BY <1>1, <1>2, <1>3 DEF Life, EndsMatch, NoThread
<1>5. QED BY <1>1, <1>4 DEF Life, ClientMatches, NothingLeftOpen

\* The listener accepts a connection and starts a servicer.
LEMMA LifeAccepts ==
  ASSUME TypeOK, Life, NEW p \in Conns, Accept(p), UNCHANGED client_pc
  PROVE  Life'
<1>1. /\ listener_pc = "accepting" /\ server_end[p] = "backlog" /\ listener_pc' = "check"
      /\ server_end' = [server_end EXCEPT ![p] = "open"]
      /\ servicer_pc' = [servicer_pc EXCEPT ![p] = "join"]
      /\ UNCHANGED client_end
  BY DEF Accept, ServicerGoes, ListenerTo
<1>2. /\ server_end \in [Conns -> {"none", "backlog", "open", "closed"}]
      /\ servicer_pc \in [Conns -> {"none", "join", "answer", "announce", "drain", "forward",
                                    "read", "check", "ended"}]
  BY DEF TypeOK
<1>3. \A q \in Conns : EndsMatch(q)'
  BY <1>1, <1>2 DEF Life, EndsMatch
<1>4. QED BY <1>1, <1>3 DEF Life, ClientMatches, NothingLeftOpen

\* Before the thread is started there is no batch.
LEMMA NoThreadNoBatch ==
  ASSUME ServerTyped, Life, NEW p \in Conns, server_end[p] = "backlog"
  PROVE  servicer_pc[p] = "none" /\ batch[p] = << >>
BY DEF ServerTyped, Life, EndsMatch

-----------------------------------------------------------------------------
\* The steps of the listener keep types; an accepted connection has no batch.
LEMMA TypeListener ==
  ASSUME StreamsTyped, ServerTyped, Life, Listener
  PROVE  StreamsTyped' /\ ServerTyped'
<1>1. CASE ListenerStarts \/ AcceptFails \/ ListenerChecks
  <2>1. StreamsTyped'
    BY <1>1, StreamsTypedSame DEF ListenerStarts, AcceptFails, ListenerChecks
  <2>2. ServerTyped'
    BY <1>1 DEF ListenerStarts, AcceptFails, ListenerChecks, ListenerTo, ServerTyped, applicationVars
  <2>3. QED BY <2>1, <2>2
<1>2. CASE ListenerFails \/ ListenerJoins
  <2>1. StreamsTyped'
    BY <1>2 DEF ListenerFails, ListenerJoins, CloseServerEnds, StreamsTyped
  <2>2. ServerTyped'
    BY <1>2 DEF ListenerFails, ListenerJoins, ListenerTo, ServerTyped, applicationVars
  <2>3. QED BY <2>1, <2>2
<1>3. ASSUME NEW p \in Conns, Accept(p) PROVE StreamsTyped' /\ ServerTyped'
  <2>1. StreamsTyped'
    BY <1>3 DEF Accept, StreamsTyped
  <2>2. batch[p] = << >>
    BY <1>3, NoThreadNoBatch DEF Accept
  <2>3. /\ servicer_pc' \in [Conns -> {"none", "join", "answer", "announce", "drain", "forward",
                                       "read", "check", "ended"}]
        /\ \A q \in Conns \ {p} : servicer_pc'[q] = servicer_pc[q]
    BY <1>3 DEF Accept, ServicerGoes, ServerTyped
  <2>4. /\ listener_pc' = "check"
        /\ UNCHANGED <<running, queue, batch, to_application, applicationVars>>
    BY <1>3 DEF Accept, ListenerTo
  <2>5. ServerTyped'
    BY <2>2, <2>3, <2>4 DEF ServerTyped, applicationVars
  <2>6. QED BY <2>1, <2>5
<1>4. QED BY <1>1, <1>2, <1>3 DEF Listener

\* What the application does to the server, its quit and its drop.
LEMMA TypeApplication ==
  ASSUME StreamsTyped, ServerTyped,
         \/ ServerGoes \/ QuitStores \/ DropReceiver
         \/ \E user \in User, kind \in AppKinds : SendReliable(user, kind)
  PROVE  StreamsTyped' /\ ServerTyped'
<1>1. CASE ServerGoes \/ QuitStores \/ DropReceiver
  <2>1. StreamsTyped'
    BY <1>1, StreamsTypedSame
       DEF ServerGoes, QuitDropsSender, QuitDropsReceiver, DropSender, QuitStores, DropReceiver, AppTo
  <2>2. ServerTyped'
    BY <1>1 DEF ServerGoes, QuitDropsSender, QuitDropsReceiver, DropSender, QuitStores,
                DropReceiver, AppTo, ServerTyped
  <2>3. QED BY <2>1, <2>2
<1>2. ASSUME NEW user \in User, NEW kind \in AppKinds, SendReliable(user, kind)
      PROVE  StreamsTyped' /\ ServerTyped'
  <2>1. StreamsTyped'
    BY <1>2, StreamsTypedSame DEF SendReliable
  <2>2. UNCHANGED <<running, listener_pc, servicer_pc, batch, to_application, server_app>>
    BY <1>2 DEF SendReliable
  <2>3. CASE server_shutdown' = TRUE /\ UNCHANGED <<queue, sent>>
    BY <2>1, <2>2, <2>3 DEF ServerTyped
  <2>4. CASE /\ Len(sent) < MaxSent
             /\ sent' = Append(sent, user)
             /\ queue' = Append(queue, ToClient(user, [type |-> kind, id |-> Len(sent) + 1]))
             /\ UNCHANGED server_shutdown
    <3>1. sent \in Seq(User) /\ queue \in Seq(Addressed)
      BY DEF ServerTyped
    <3>2. Len(sent) + 1 \in Ids /\ Len(Append(sent, user)) <= MaxSent
      BY <2>4, <3>1, StreamsAssumption DEF Ids
    <3>3. ToClient(user, [type |-> kind, id |-> Len(sent) + 1]) \in Addressed
      BY <3>2, ServerAssumption DEF ToClient, Addressed, ServerMessages
    <3>4. queue' \in Seq(Addressed) /\ sent' \in Seq(User) /\ Len(sent') <= MaxSent
      BY <2>4, <3>1, <3>2, <3>3
    <3>5. QED BY <2>1, <2>2, <2>4, <3>4 DEF ServerTyped
  <2>5. QED BY <1>2, <2>3, <2>4 DEF SendReliable
<1>3. QED BY <1>1, <1>2

\* Every step keeps types, given the life of connections.
LEMMA TypeStep == TypeOK /\ Life /\ [Next]_vars => TypeOK'
<1> SUFFICES ASSUME TypeOK, Life, [Next]_vars PROVE TypeOK'
  OBVIOUS
<1>0. StreamsTyped /\ ClientsTyped /\ ServerTyped /\ PeersTyped
  BY TypeOKParts
<1>p. (TypeOK <=> StreamsTyped /\ ClientsTyped /\ ServerTyped /\ PeersTyped)'
  BY TypeOKParts, PTL
<1>1. ASSUME NEW p \in Clients, ClientReads(p) \/ ClientRuns(p) \/ ClientStep(p) PROVE TypeOK'
  <2>1. ServerTyped' /\ PeersTyped'
    BY <1>0, <1>1, ServerTypedSame DEF ClientReads, ClientRuns, ClientStep
  <2>2. StreamsTyped' /\ ClientsTyped'
    BY <1>0, <1>1, TypeClientReads, TypeClientRuns DEF ClientReads, ClientRuns, ClientStep
  <2>3. QED BY <1>p, <2>1, <2>2
<1>2. ASSUME NEW p \in Peers, PeerStep(p) PROVE TypeOK'
  BY <1>2, TypePeer
<1>3. ASSUME ClientsSame,
             \/ \E p \in Conns : ServicerRuns(p) \/ ServicerReads(p)
             \/ Listener \/ ServerGoes \/ QuitStores \/ DropReceiver
             \/ \E user \in User, kind \in AppKinds : SendReliable(user, kind)
      PROVE  TypeOK'
  <2>1. ClientsTyped' /\ PeersTyped'
    BY <1>0, <1>3 DEF ClientsSame, ClientsTyped, PeersTyped, reliableVars
  <2>2. StreamsTyped' /\ ServerTyped'
    BY <1>0, <1>3, TypeServicerRuns, TypeServicerReads, TypeListener, TypeApplication
  <2>3. QED BY <1>p, <2>1, <2>2
<1>4. CASE UNCHANGED vars
  BY <1>0, <1>p, <1>4
     DEF vars, reliableVars, serverVars, applicationVars, streamVars,
         StreamsTyped, ClientsTyped, ServerTyped, PeersTyped
<1>5. QED BY <1>1, <1>2, <1>3, <1>4 DEF Next

\* The steps of a client keep the life of connections.
LEMMA LifeClient ==
  ASSUME TypeOK, Life, NEW p \in Clients, ClientReads(p) \/ ClientRuns(p) \/ ClientStep(p)
  PROVE  Life'
<1>0. /\ p \in Conns /\ UNCHANGED serverVars /\ UNCHANGED <<servicer_pc, listener_pc>>
      /\ client_pc \in [Clients -> {"idle", "joining", "confirmed", "spinning", "resting",
                                    "leaving", "ended"}]
  BY DEF Conns, ClientReads, ClientRuns, ClientStep, serverVars, TypeOK
<1>1. CASE ReceiveServerMessage(p)
  <2>1. UNCHANGED <<client_end, server_end>>
    BY <1>1, EndsSame DEF ReceiveServerMessage, ReceiveNothing, ReceiveConfirmation,
                          ReceiveAuthenticationError, ReceiveChat
  <2>2. \E pc \in {"confirmed", "resting", "leaving", "joining"} :
           client_pc' = [client_pc EXCEPT ![p] = pc]
    BY <1>1 DEF ReceiveServerMessage, ReceiveNothing, ReceiveConfirmation,
                ReceiveAuthenticationError, ReceiveChat, ClientGoes
  <2>3. client_pc[p] \notin {"idle", "ended"}
    BY <1>1 DEF ReceiveServerMessage, ReceiveNothing, ReceiveConfirmation,
                ReceiveAuthenticationError, ReceiveChat, Receiving
  <2>4. QED BY <1>0, <2>1, <2>2, <2>3, LifeSame
<1>2. CASE Rest(p) \/ SpawnServicers(p)
  <2>1. UNCHANGED <<client_end, server_end>>
    BY <1>2 DEF Rest, SpawnServicers, streamVars
  <2>2. \E pc \in {"spinning", "leaving"} : client_pc' = [client_pc EXCEPT ![p] = pc]
    BY <1>2 DEF Rest, SpawnServicers, ClientGoes
  <2>3. client_pc[p] \notin {"idle", "ended"}
    BY <1>2 DEF Rest, SpawnServicers
  <2>4. QED BY <1>0, <2>1, <2>2, <2>3, LifeSame
<1>3. CASE DropServicer(p) \/ ClientProcessEnds(p)
  <2>1. /\ client_pc' = [client_pc EXCEPT ![p] = "ended"] /\ CloseClientEnd(p)
        /\ client_pc[p] \notin {"idle", "ended"}
    BY <1>3 DEF DropServicer, ClientProcessEnds, ClientGoes
  <2>2. client_end[p] # "none"
    BY <2>1 DEF Life, ClientMatches
  <2>3. QED BY <1>0, <2>1, <2>2, LifeCloses
<1>4. CASE Connect(p) /\ listener_pc # "exited"
  <2>1. /\ client_pc' = [client_pc EXCEPT ![p] = "joining"] /\ OpenAndWrite(p, <<JoinRequest>>)
        /\ client_pc[p] = "idle"
    BY <1>4 DEF Connect, ClientGoes
  <2>2. client_end[p] = "none"
    BY <2>1 DEF Life, ClientMatches
  <2>3. QED BY <1>0, <1>4, <2>1, <2>2, LifeOpens
<1>5. CASE ConnectFails(p)
  BY <1>0, <1>5, LifeSame DEF ConnectFails, ClientGoes, streamVars
<1>6. CASE ReliableClientApp(p)
  BY <1>0, <1>6, LifeSame DEF ReliableClientApp, SendChatMessage, TakeChatHistory,
                              LowLatencyShutdown, Quit, streamVars
<1>7. QED BY <1>1, <1>2, <1>3, <1>4, <1>5, <1>6 DEF ClientReads, ClientRuns, ClientStep

\* So do those of a peer.
LEMMA LifePeer ==
  ASSUME TypeOK, Life, NEW p \in Peers, PeerStep(p)
  PROVE  Life'
<1>0. p \in Conns /\ p \notin Clients /\ UNCHANGED serverVars /\ UNCHANGED <<servicer_pc, listener_pc, client_pc>>
  BY StreamsAssumption DEF Conns, PeerStep, serverVars, reliableVars
<1>1. CASE PeerConnects(p)
  BY <1>0, <1>1, LifeOpens DEF PeerConnects
<1>2. CASE PeerSends(p)
  BY <1>0, <1>2, EndsSame, LifeSame DEF PeerSends
<1>3. CASE PeerLeaves(p)
  BY <1>0, <1>3, LifeCloses DEF PeerLeaves
<1>4. QED BY <1>1, <1>2, <1>3 DEF PeerStep

\* So do those of a servicer.
LEMMA LifeServicerStep ==
  ASSUME TypeOK, Life, NEW p \in Conns, ServicerRuns(p) \/ ServicerReads(p), UNCHANGED client_pc
  PROVE  Life'
<1>0. servicer_pc[p] \notin {"none", "ended"}
  BY DEF ServicerRuns, ServicerReads, ConfirmJoin, AnnounceClient, DrainOne, DrainEnds, Forward,
         ForwardFails, ForwardEnds, CheckSwitch, JoinFails, ReadJoinRequest, ReadNothing,
         ReadChat, RejectRejoin
<1>1. CASE EndServicer(p)
  BY <1>0, <1>1, LifeServicerEnds
<1>2. CASE ~EndServicer(p)
  <2>1. UNCHANGED <<client_end, server_end, listener_pc>>
    BY <1>2, EndsSame
       DEF ServicerRuns, ServicerReads, ConfirmJoin, AnnounceClient, DrainOne, DrainEnds, Forward,
           ForwardFails, ForwardEnds, CheckSwitch, JoinFails, ReadJoinRequest, ReadNothing,
           ReadChat, RejectRejoin, ServicerOnlyGoes
  <2>2. \/ servicer_pc' = servicer_pc
        \/ \E pc \in {"answer", "announce", "drain", "forward", "check", "read"} :
              servicer_pc' = [servicer_pc EXCEPT ![p] = pc]
    BY <1>2
       DEF ServicerRuns, ServicerReads, ConfirmJoin, AnnounceClient, DrainOne, DrainEnds, Forward,
           ForwardFails, ForwardEnds, CheckSwitch, JoinFails, ReadJoinRequest, ReadNothing,
           ReadChat, RejectRejoin, ServicerOnlyGoes, ServicerGoes
  <2>3. QED BY <1>0, <2>1, <2>2, LifeServicer
<1>3. QED BY <1>1, <1>2

\* So do those of the listener and of the application.
LEMMA LifeServer ==
  ASSUME TypeOK, Life, UNCHANGED client_pc,
         \/ Listener \/ ServerGoes \/ QuitStores \/ DropReceiver
         \/ \E user \in User, kind \in AppKinds : SendReliable(user, kind)
  PROVE  Life'
<1>1. CASE ListenerStarts \/ AcceptFails \/ ListenerChecks
  <2>1. /\ UNCHANGED <<client_end, server_end, servicer_pc>>
        /\ listener_pc' \notin {"starting", "exited"}
    BY <1>1 DEF ListenerStarts, AcceptFails, ListenerChecks, ListenerTo, streamVars
  <2>2. QED BY <2>1 DEF Life, EndsMatch, ClientMatches, NothingLeftOpen
<1>2. CASE ListenerFails \/ ListenerJoins
  BY <1>2, LifeListenerEnds
<1>3. ASSUME NEW p \in Conns, Accept(p) PROVE Life'
  BY <1>3, LifeAccepts
<1>4. CASE \/ ServerGoes \/ QuitStores \/ DropReceiver
           \/ \E user \in User, kind \in AppKinds : SendReliable(user, kind)
  <2>1. UNCHANGED <<client_end, server_end, servicer_pc, listener_pc>>
    BY <1>4 DEF ServerGoes, QuitDropsSender, QuitDropsReceiver, DropSender, QuitStores,
                DropReceiver, AppTo, SendReliable, streamVars
  <2>2. QED BY <2>1, LifeSame
<1>5. QED BY <1>1, <1>2, <1>3, <1>4 DEF Listener

\* Every step does.
LEMMA LifeStep == TypeOK /\ Life /\ [Next]_vars => Life'
<1> SUFFICES ASSUME TypeOK, Life, [Next]_vars PROVE Life'
  OBVIOUS
<1>1. CASE UNCHANGED vars
  BY <1>1, LifeSame DEF vars, reliableVars, serverVars, streamVars
<1>2. ASSUME ClientsSame PROVE UNCHANGED client_pc
  BY <1>2 DEF ClientsSame, reliableVars
<1>3. QED BY <1>1, <1>2, LifeClient, LifePeer, LifeServicerStep, LifeServer DEF Next

\* Types and the life of connections, in every reachable state.
LEMMA LifeInvariant == Spec => [](TypeOK /\ Life)
<1>1. Init => TypeOK /\ Life
  BY TypeInit, LifeInit
<1>2. TypeOK /\ Life /\ [Next]_vars => (TypeOK /\ Life)'
  BY TypeStep, LifeStep
<1>3. QED BY <1>1, <1>2, PTL DEF Spec

(***************************************************************************)
(* Every variable of the reliable half keeps its type, and a servicer has  *)
(* a batch only while it drains the queue or forwards.                     *)
(***************************************************************************)
THEOREM ReliableTypeCorrect == Spec => []TypeOK
BY LifeInvariant, PTL

(***************************************************************************)
(* When the listener thread has ended, at its start or after it joined the *)
(* servicers, no connection is left open or waiting.                       *)
(***************************************************************************)
THEOREM NoConnectionOutlivesTheListener == Spec => []NothingLeftOpen
<1>1. Life => NothingLeftOpen
  BY DEF Life
<1>2. QED BY <1>1, LifeInvariant, PTL

-----------------------------------------------------------------------------
(***************************************************************************)
(* What one step may do to the server's side of connection p.  In Rests    *)
(* only the client at the other end may have read.                         *)
(***************************************************************************)
Looping == {"drain", "forward", "read", "check"}

TellsNothing(p) == to_application'[p] = to_application[p]
WritesNothing(p) == down'[p] = down[p]

Rests(p) == servicer_pc'[p] = servicer_pc[p] /\ TellsNothing(p)

Joins(p) ==
  /\ <<servicer_pc[p], servicer_pc'[p]>> \in {<<"none", "join">>, <<"join", "answer">>}
  /\ TellsNothing(p) /\ WritesNothing(p)

Confirms(p) ==
  /\ servicer_pc[p] = "answer" /\ servicer_pc'[p] = "announce"
  /\ TellsNothing(p) /\ down'[p] = Append(down[p], Confirmation(0))

Announces(p) ==
  /\ servicer_pc[p] = "announce" /\ servicer_pc'[p] = "drain"
  /\ to_application'[p] = Append(to_application[p], ClientData) /\ WritesNothing(p)

Loops(p) ==
  /\ servicer_pc[p] \in Looping /\ servicer_pc'[p] \in Looping /\ WritesNothing(p)
  /\ \/ TellsNothing(p)
     \/ \E id \in 1..MaxUp : to_application'[p] = Append(to_application[p], ClientChat(id))

Forwards(p) ==
  /\ servicer_pc[p] = "forward" /\ servicer_pc'[p] = "forward" /\ TellsNothing(p)
  /\ \E m \in ServerMessages : down'[p] = Append(down[p], m)

Ends(p) ==
  /\ \/ servicer_pc[p] \in {"join", "answer"}
     \/ servicer_pc[p] = "announce" /\ ~ReceiverAlive
     \/ servicer_pc[p] = "check" /\ ~running
  /\ servicer_pc'[p] = "ended" /\ TellsNothing(p) /\ WritesNothing(p)

ServerSide(p) ==
  Joins(p) \/ Confirms(p) \/ Announces(p) \/ Loops(p) \/ Forwards(p) \/ Ends(p)

ServerActs ==
  \/ \E p \in Conns : ServicerRuns(p) \/ ServicerReads(p)
  \/ Listener \/ ServerGoes \/ QuitStores \/ DropReceiver
  \/ \E user \in User, kind \in AppKinds : SendReliable(user, kind)

\* The end of a servicer, seen from its own and from every other connection.
LEMMA EndServicerSides ==
  ASSUME TypeOK, NEW p \in Conns, EndServicer(p),
         \/ servicer_pc[p] \in {"join", "answer"}
         \/ servicer_pc[p] = "announce" /\ ~ReceiverAlive
         \/ servicer_pc[p] = "check" /\ ~running,
         NEW q \in Conns
  PROVE  (Rests(q) /\ WritesNothing(q)) \/ ServerSide(q)
<1>1. /\ servicer_pc' = [servicer_pc EXCEPT ![p] = "ended"]
      /\ UNCHANGED <<to_application, down>>
  BY DEF EndServicer, ServicerGoes, CloseServerEnds
<1>2. servicer_pc'[q] = IF q = p THEN "ended" ELSE servicer_pc[q]
  BY <1>1 DEF TypeOK
<1>3. QED BY <1>1, <1>2 DEF Rests, ServerSide, Ends, TellsNothing, WritesNothing

\* A servicer that moves on and tells and writes nothing.
LEMMA MovesSides ==
  ASSUME TypeOK, NEW p \in Conns, NEW pc,
         \/ servicer_pc[p] = "join" /\ pc = "answer"
         \/ servicer_pc[p] \in Looping /\ pc \in Looping,
         ServicerGoes(p, pc) \/ (UNCHANGED servicer_pc /\ pc = servicer_pc[p]),
         UNCHANGED <<to_application, down>>,
         NEW q \in Conns
  PROVE  (Rests(q) /\ WritesNothing(q)) \/ ServerSide(q)
<1>1. servicer_pc'[q] = IF q = p THEN pc ELSE servicer_pc[q]
  BY DEF TypeOK, ServicerGoes
<1>2. QED BY <1>1 DEF Rests, ServerSide, Joins, Loops, TellsNothing, WritesNothing

\* Reads by a servicer, and steps without a stream, write nothing.
LEMMA UpOnly ==
  ASSUME NEW p, NEW m, ReadUp(p, m) \/ UNCHANGED streamVars
  PROVE  UNCHANGED down
BY DEF ReadUp, streamVars

\* The steps of a servicer, seen from every connection.
LEMMA ServicerRunsSides ==
  ASSUME TypeOK, NEW p \in Conns, ServicerRuns(p), NEW q \in Conns
  PROVE  (Rests(q) /\ WritesNothing(q)) \/ ServerSide(q)
<1>0. /\ servicer_pc \in [Conns -> {"none", "join", "answer", "announce", "drain", "forward",
                                    "read", "check", "ended"}]
      /\ down \in [Conns -> Seq(ServerMessages)]
      /\ to_application \in [Conns -> Seq({ClientData} \cup ClientMessages)]
      /\ StreamsTyped /\ ServerTyped
  BY TypeOKParts DEF TypeOK
<1>1. CASE ConfirmJoin(p)
  <2>1. /\ servicer_pc[p] = "answer" /\ servicer_pc' = [servicer_pc EXCEPT ![p] = "announce"]
        /\ down' = [down EXCEPT ![p] = Append(down[p], Confirmation(0))]
        /\ UNCHANGED to_application
    BY <1>1 DEF ConfirmJoin, WriteDown, ServicerOnlyGoes, ServicerGoes
  <2>2. CASE q = p
    BY <1>0, <2>1, <2>2 DEF ServerSide, Confirms, TellsNothing
  <2>3. CASE q # p
    BY <1>0, <2>1, <2>3 DEF Rests, TellsNothing, WritesNothing
  <2>4. QED BY <2>2, <2>3
<1>2. CASE AnnounceClient(p)
  <2>1. CASE ~ReceiverAlive
    BY <1>2, <2>1, EndServicerSides DEF AnnounceClient
  <2>2. CASE ReceiverAlive
    <3>1. /\ servicer_pc[p] = "announce" /\ servicer_pc' = [servicer_pc EXCEPT ![p] = "drain"]
          /\ to_application' = [to_application EXCEPT ![p] = Append(to_application[p], ClientData)]
          /\ UNCHANGED down
      BY <1>2, <2>2 DEF AnnounceClient, ServicerGoes, streamVars
    <3>2. CASE q = p
      BY <1>0, <3>1, <3>2 DEF ServerSide, Announces, WritesNothing
    <3>3. CASE q # p
      BY <1>0, <3>1, <3>3 DEF Rests, TellsNothing, WritesNothing
    <3>4. QED BY <3>2, <3>3
  <2>3. QED BY <2>1, <2>2
<1>3. CASE DrainOne(p)
  BY <1>3, UpOnly, MovesSides DEF DrainOne, Looping
<1>4. CASE DrainEnds(p)
  BY <1>4, UpOnly, MovesSides DEF DrainEnds, Looping
<1>5. CASE Forward(p)
  <2>1. Head(batch[p]) \in Addressed
    BY <1>0, <1>5, HeadTailTyped DEF Forward, ServerTyped
  <2>2. Head(batch[p]).payload \in ServerMessages
    BY <2>1 DEF Addressed
  <2>3. /\ servicer_pc[p] = "forward" /\ UNCHANGED <<servicer_pc, to_application>>
        /\ \/ down' = [down EXCEPT ![p] = Append(down[p], Head(batch[p]).payload)]
           \/ UNCHANGED down
    BY <1>5 DEF Forward, WriteDown, streamVars
  <2>4. CASE q = p /\ down'[p] = Append(down[p], Head(batch[p]).payload)
    BY <2>2, <2>3, <2>4 DEF ServerSide, Forwards, TellsNothing
  <2>5. CASE down'[q] = down[q]
    BY <2>3, <2>5 DEF Rests, TellsNothing, WritesNothing
  <2>6. QED BY <1>0, <2>3, <2>4, <2>5
<1>6. CASE ForwardFails(p)
  BY <1>6, UpOnly, MovesSides DEF ForwardFails, Looping
<1>7. CASE ForwardEnds(p)
  BY <1>7, UpOnly, MovesSides DEF ForwardEnds, Looping, ServicerOnlyGoes
<1>8. CASE CheckSwitch(p)
  <2>1. CASE running /\ ServicerOnlyGoes(p, "drain") /\ UNCHANGED streamVars
    BY <1>8, <2>1, UpOnly, MovesSides DEF CheckSwitch, Looping, ServicerOnlyGoes
  <2>2. CASE ~running /\ EndServicer(p)
    BY <1>8, <2>2, EndServicerSides DEF CheckSwitch
  <2>3. QED BY <1>8, <2>1, <2>2 DEF CheckSwitch
<1>9. QED BY <1>1, <1>2, <1>3, <1>4, <1>5, <1>6, <1>7, <1>8 DEF ServicerRuns

\* So for those that read.
LEMMA ServicerReadsSides ==
  ASSUME TypeOK, NEW p \in Conns, ServicerReads(p), NEW q \in Conns
  PROVE  (Rests(q) /\ WritesNothing(q)) \/ ServerSide(q)
<1>1. CASE JoinFails(p)
  BY <1>1, EndServicerSides DEF JoinFails
<1>2. CASE ReadJoinRequest(p)
  BY <1>2, UpOnly, MovesSides DEF ReadJoinRequest, ServicerOnlyGoes
<1>3. CASE ReadNothing(p)
  BY <1>3, UpOnly, MovesSides DEF ReadNothing, ServicerOnlyGoes, Looping
<1>4. CASE ReadChat(p)
  <2>1. PICK id \in 1..MaxUp :
          /\ ReadUp(p, ClientChat(id))
          /\ to_application' =
               IF ReceiverAlive THEN [to_application EXCEPT ![p] = Append(@, ClientChat(id))]
                                ELSE to_application
    BY <1>4 DEF ReadChat
  <2>2. /\ UNCHANGED down /\ servicer_pc[p] = "read"
        /\ servicer_pc' = [servicer_pc EXCEPT ![p] = "check"]
    BY <1>4, <2>1, UpOnly DEF ReadChat, ServicerGoes
  <2>3. /\ servicer_pc'[q] = IF q = p THEN "check" ELSE servicer_pc[q]
        /\ \/ to_application'[q] = to_application[q]
           \/ q = p /\ to_application'[q] = Append(to_application[q], ClientChat(id))
    BY <2>1, <2>2 DEF TypeOK
  <2>4. CASE q = p
    BY <2>2, <2>3, <2>4 DEF ServerSide, Loops, Looping, TellsNothing, WritesNothing
  <2>5. CASE q # p
    BY <2>2, <2>3, <2>5 DEF Rests, TellsNothing, WritesNothing
  <2>6. QED BY <2>4, <2>5
<1>5. CASE RejectRejoin(p)
  BY <1>5, UpOnly, MovesSides DEF RejectRejoin, ServicerOnlyGoes, Looping
<1>6. QED BY <1>1, <1>2, <1>3, <1>4, <1>5 DEF ServicerReads

\* The listener and the application, seen from every connection.
LEMMA ServerActsSides ==
  ASSUME TypeOK, Life, ServerActs, NEW q \in Conns
  PROVE  (Rests(q) /\ WritesNothing(q)) \/ ServerSide(q)
<1>1. ASSUME NEW p \in Conns, Accept(p) PROVE (Rests(q) /\ WritesNothing(q)) \/ ServerSide(q)
  <2>1. /\ servicer_pc[p] = "none" /\ UNCHANGED <<to_application, down>>
        /\ servicer_pc' = [servicer_pc EXCEPT ![p] = "join"]
    BY <1>1, NoThreadNoBatch, TypeOKParts DEF Accept, ServicerGoes, ListenerTo
  <2>2. servicer_pc'[q] = IF q = p THEN "join" ELSE servicer_pc[q]
    BY <2>1 DEF TypeOK
  <2>3. QED BY <2>1, <2>2 DEF Rests, ServerSide, Joins, TellsNothing, WritesNothing
<1>2. CASE \/ ListenerStarts \/ AcceptFails \/ ListenerChecks \/ ListenerFails \/ ListenerJoins
           \/ ServerGoes \/ QuitStores \/ DropReceiver
           \/ \E user \in User, kind \in AppKinds : SendReliable(user, kind)
  <2>1. UNCHANGED <<servicer_pc, to_application, down>>
    BY <1>2 DEF ListenerStarts, AcceptFails, ListenerChecks, ListenerFails, ListenerJoins, ListenerTo,
                CloseServerEnds, ServerGoes, QuitDropsSender, QuitDropsReceiver, DropSender,
                QuitStores, DropReceiver, AppTo, SendReliable, streamVars
  <2>2. QED BY <2>1 DEF Rests, TellsNothing, WritesNothing
<1>3. QED BY <1>1, <1>2, ServicerRunsSides, ServicerReadsSides DEF ServerActs, Listener

\* Client q is not touched; it acts.
ClientRests(q) ==
  client_pc'[q] = client_pc[q] /\ chat_in'[q] = chat_in[q] /\ taken'[q] = taken[q]

ClientActs(q) == ClientReads(q) \/ ClientRuns(q) \/ ClientStep(q)

\* A client touches only what is its own.
LEMMA ClientTouches ==
  ASSUME TypeOK, NEW p \in Clients, ClientActs(p), NEW q \in Conns
  PROVE  /\ Rests(q)
         /\ q # p => WritesNothing(q) /\ (q \in Clients => ClientRests(q))
<1>1. UNCHANGED <<servicer_pc, to_application>>
  BY DEF ClientActs, ClientReads, ClientRuns, ClientStep, serverVars
<1>2. ASSUME q # p PROVE WritesNothing(q)
  <2>1. \/ UNCHANGED down
        \/ \E s : down' = [down EXCEPT ![p] = s]
    BY DEF ClientActs, ClientReads, ClientRuns, ClientStep, ReceiveServerMessage, ReceiveNothing,
           ReceiveConfirmation, ReceiveAuthenticationError, ReceiveChat, ReadDown, Rest,
           DropServicer, SpawnServicers, Connect, OpenAndWrite, ConnectFails, ReliableClientApp,
           SendChatMessage, TakeChatHistory, LowLatencyShutdown, Quit, ClientProcessEnds,
           CloseClientEnd, streamVars
  <2>2. QED BY <1>2, <2>1 DEF TypeOK, WritesNothing
<1>3. ASSUME q # p, q \in Clients PROVE ClientRests(q)
  <2>1. /\ UNCHANGED client_pc \/ \E pc : client_pc' = [client_pc EXCEPT ![p] = pc]
        /\ UNCHANGED chat_in \/ \E s : chat_in' = [chat_in EXCEPT ![p] = s]
        /\ UNCHANGED taken \/ \E s : taken' = [taken EXCEPT ![p] = s]
    BY DEF ClientActs, ClientReads, ClientRuns, ClientStep, ReceiveServerMessage, ReceiveNothing,
           ReceiveConfirmation, ReceiveAuthenticationError, ReceiveChat, Rest,
           DropServicer, SpawnServicers, Connect, ConnectFails, ReliableClientApp,
           SendChatMessage, TakeChatHistory, LowLatencyShutdown, Quit, ClientProcessEnds, ClientGoes
  <2>2. QED BY <1>3, <2>1 DEF TypeOK, ClientRests
<1>4. QED BY <1>1, <1>2, <1>3 DEF Rests, TellsNothing

\* Every step, seen from one connection.
LEMMA Sides ==
  ASSUME TypeOK, Life, [Next]_vars, NEW q \in Conns
  PROVE  \/ /\ (Rests(q) /\ WritesNothing(q)) \/ ServerSide(q)
            /\ q \in Clients => ClientRests(q)
         \/ q \in Clients /\ Rests(q) /\ ClientActs(q)
<1>1. ASSUME NEW p \in Clients, ClientActs(p)
      PROVE  \/ /\ Rests(q) /\ WritesNothing(q)
                /\ q \in Clients => ClientRests(q)
             \/ q \in Clients /\ Rests(q) /\ ClientActs(q)
  BY <1>1, ClientTouches
<1>2. ASSUME NEW p \in Peers, PeerStep(p)
      PROVE  Rests(q) /\ WritesNothing(q) /\ (q \in Clients => ClientRests(q))
  <2>1. UNCHANGED <<servicer_pc, to_application, down, client_pc, chat_in, taken>>
    BY <1>2 DEF PeerStep, PeerConnects, PeerSends, PeerLeaves, OpenAndWrite, WriteUp,
                CloseClientEnd, serverVars, reliableVars
  <2>2. QED BY <2>1 DEF Rests, TellsNothing, WritesNothing, ClientRests
<1>3. ASSUME ServerActs, ClientsSame
      PROVE  /\ (Rests(q) /\ WritesNothing(q)) \/ ServerSide(q)
             /\ q \in Clients => ClientRests(q)
  BY <1>3, ServerActsSides DEF ClientsSame, reliableVars, ClientRests
<1>4. CASE UNCHANGED vars
  BY <1>4 DEF vars, serverVars, reliableVars, streamVars, Rests, TellsNothing, WritesNothing, ClientRests
<1>5. QED BY <1>1, <1>2, <1>3, <1>4 DEF Next, ServerActs, ClientActs

\* A server that was told to stop does not run again, nor does the receiver return.
LEMMA StoppedForGood ==
  ASSUME [Next]_vars
  PROVE  (~running => ~running') /\ (~ReceiverAlive => ~ReceiverAlive')
<1>1. CASE UNCHANGED <<running, server_app>>
  BY <1>1 DEF ReceiverAlive
<1>2. CASE ServerGoes \/ QuitStores \/ DropReceiver
  BY <1>2 DEF ServerGoes, QuitDropsSender, QuitDropsReceiver, DropSender, QuitStores,
              DropReceiver, AppTo, ReceiverAlive
<1>3. ASSUME NEW p \in Clients, ClientActs(p) PROVE UNCHANGED <<running, server_app>>
  BY <1>3 DEF ClientActs, ClientReads, ClientRuns, ClientStep, serverVars, applicationVars
<1>4. ASSUME NEW p \in Peers, PeerStep(p) PROVE UNCHANGED <<running, server_app>>
  BY <1>4 DEF PeerStep, serverVars, applicationVars
<1>5. ASSUME NEW p \in Conns, ServicerRuns(p) \/ ServicerReads(p) PROVE UNCHANGED <<running, server_app>>
  BY <1>5 DEF ServicerRuns, ServicerReads, ConfirmJoin, AnnounceClient, DrainOne, DrainEnds, Forward,
              ForwardFails, ForwardEnds, CheckSwitch, JoinFails, ReadJoinRequest, ReadNothing,
              ReadChat, RejectRejoin, ServicerOnlyGoes, EndServicer, applicationVars
<1>6. ASSUME Listener PROVE UNCHANGED <<running, server_app>>
  BY <1>6 DEF Listener, ListenerStarts, ListenerFails, AcceptFails, ListenerChecks, ListenerJoins,
              Accept, ListenerTo, applicationVars
<1>7. ASSUME NEW user \in User, NEW kind \in AppKinds, SendReliable(user, kind)
      PROVE  UNCHANGED <<running, server_app>>
  BY <1>7 DEF SendReliable
<1>8. CASE UNCHANGED vars
  BY <1>1, <1>8 DEF vars, serverVars, applicationVars
<1>9. QED BY <1>1, <1>2, <1>3, <1>4, <1>5, <1>6, <1>7, <1>8 DEF Next, ClientActs

-----------------------------------------------------------------------------
(***************************************************************************)
(* What a join tells the two sides.  Told: the application hears of a      *)
(* client when Servicer::new has succeeded, and a servicer it has heard of *)
(* ends only on a stopped server.  Answered: nothing is written before the *)
(* Confirmation, and when something is under way to the client, the        *)
(* application knows of it, is about to or is gone.  Waits: a client that  *)
(* waits for its answer has heard nothing yet, and the Confirmation is     *)
(* what comes first; it stays on the stream as long as the client waits.   *)
(***************************************************************************)
Told(p) ==
  /\ servicer_pc[p] \in {"none", "join", "answer", "announce"} => to_application[p] = << >>
  /\ servicer_pc[p] \in Looping => to_application[p] # << >>
  /\ servicer_pc[p] = "ended" /\ to_application[p] # << >> => ~running

Known(p) == to_application[p] # << >> \/ servicer_pc[p] = "announce" \/ ~ReceiverAlive

Answered(p) ==
  /\ servicer_pc[p] \in {"none", "join", "answer"} => down[p] = << >>
  /\ down[p] # << >> => Known(p)

Waits(p) ==
  /\ client_pc[p] \in {"confirmed", "spinning", "resting"} => Known(p)
  /\ client_pc[p] \in {"idle", "joining"} =>
       /\ chat_in[p] = << >>
       /\ down[p] # << >> => down[p][1] = Confirmation(0)
       /\ servicer_pc[p] \in {"announce"} \cup Looping => down[p] # << >>

JoinInv ==
  /\ \A p \in Conns : Told(p) /\ Answered(p)
  /\ \A p \in Clients : Waits(p)

\* Nothing was said at first.
LEMMA JoinInit == Init => JoinInv
BY DEF Init, StreamsInit, ReliableInit, ServerInit, JoinInv, Told, Answered, Waits, Looping, Conns

\* A sequence with one more element is not empty, and begins as before.
LEMMA AppendBegins ==
  ASSUME NEW S, NEW s \in Seq(S), NEW e \in S
  PROVE  /\ Append(s, e) # << >>
         /\ s = << >> => Append(s, e)[1] = e
         /\ s # << >> => Append(s, e)[1] = s[1]
OBVIOUS

\* A servicer's steps keep Told, and those of a client do not touch it.
LEMMA ToldStep ==
  ASSUME TypeOK, Life, [Next]_vars, NEW q \in Conns, Told(q)
  PROVE  Told(q)' /\ (Known(q) => Known(q)')
<1>0. /\ to_application[q] \in Seq({ClientData} \cup ClientMessages)
      /\ ~running => ~running'
      /\ ~ReceiverAlive => ~ReceiverAlive'
  BY StoppedForGood DEF TypeOK
<1>1. CASE Rests(q)
  BY <1>0, <1>1 DEF Rests, TellsNothing, Told, Known
<1>2. CASE Joins(q) \/ Confirms(q)
  BY <1>0, <1>2 DEF Joins, Confirms, TellsNothing, Told, Known, Looping
<1>3. CASE Announces(q)
  <2>1. Append(to_application[q], ClientData) # << >>
    BY <1>0, AppendBegins
  <2>2. QED BY <1>3, <2>1 DEF Announces, Told, Known, Looping
<1>4. CASE Loops(q)
  <2>1. to_application'[q] # << >>
    <3>1. CASE TellsNothing(q)
      BY <1>4, <3>1 DEF Loops, TellsNothing, Told
    <3>2. ASSUME NEW id \in 1..MaxUp, to_application'[q] = Append(to_application[q], ClientChat(id))
          PROVE  to_application'[q] # << >>
      <4>1. ClientChat(id) \in {ClientData} \cup ClientMessages
        BY DEF ClientMessages
      <4>2. QED BY <1>0, <3>2, <4>1, AppendBegins
    <3>3. QED BY <1>4, <3>1, <3>2 DEF Loops
  <2>2. QED BY <1>4, <2>1 DEF Loops, Told, Known, Looping
<1>5. CASE Forwards(q)
  BY <1>0, <1>5 DEF Forwards, TellsNothing, Told, Known, Looping
<1>6. CASE Ends(q)
  BY <1>0, <1>6 DEF Ends, TellsNothing, Told, Known, Looping
<1>7. QED BY <1>1, <1>2, <1>3, <1>4, <1>5, <1>6, Sides DEF ServerSide

\* A message that is read was the first on the stream.
LEMMA ReadSomething ==
  ASSUME TypeOK, NEW q \in Clients, NEW m, ReadDown(q, m)
  PROVE  down[q] # << >> /\ down[q][1] = m
<1>1. PICK n \in 1..buf_len : n <= Len(down[q]) /\ m = down[q][1]
  BY DEF ReadDown
<1>2. buf_len \in Nat /\ down[q] \in Seq(ServerMessages)
  BY StreamsAssumption DEF TypeOK, Conns
<1>3. Len(down[q]) # 0
  BY <1>1, <1>2
<1>4. QED BY <1>1, <1>3

\* What a client reads of the stream leaves less of it, never more.
LEMMA ReadLeavesLess ==
  ASSUME TypeOK, NEW q \in Clients, ClientActs(q)
  PROVE  \/ down'[q] = down[q]
         \/ ReceiveServerMessage(q) /\ down[q] # << >>
<1>1. CASE ReceiveServerMessage(q) /\ ~ReceiveNothing(q)
  <2>1. \E m : ReadDown(q, m)
    BY <1>1 DEF ReceiveServerMessage, ReceiveConfirmation, ReceiveAuthenticationError, ReceiveChat
  <2>2. QED BY <1>1, <2>1, ReadSomething
<1>2. CASE ReceiveNothing(q) \/ ~ReceiveServerMessage(q)
  <2>1. UNCHANGED down
    BY <1>2 DEF ClientActs, ClientReads, ClientRuns, ClientStep, ReceiveNothing, Rest, DropServicer,
                SpawnServicers, Connect, OpenAndWrite, ConnectFails, ReliableClientApp,
                SendChatMessage, TakeChatHistory, LowLatencyShutdown, Quit, ClientProcessEnds,
                CloseClientEnd, streamVars
  <2>2. QED BY <2>1
<1>3. QED BY <1>1, <1>2

\* The streams to the clients.
LEMMA AnsweredStep ==
  ASSUME TypeOK, Life, [Next]_vars, NEW q \in Conns, Told(q), Answered(q)
  PROVE  Answered(q)'
<1>0. Known(q) => Known(q)'
  BY ToldStep
<1>1. CASE (Rests(q) /\ WritesNothing(q)) \/ ServerSide(q)
  <2>1. CASE WritesNothing(q) /\ (Rests(q) \/ Joins(q) \/ Announces(q) \/ Loops(q) \/ Ends(q))
    <3>1. servicer_pc'[q] \in {"none", "join", "answer"} => servicer_pc[q] \in {"none", "join", "answer"}
      BY <2>1 DEF Rests, Joins, Announces, Loops, Ends, Looping
    <3>2. QED BY <1>0, <2>1, <3>1 DEF WritesNothing, Answered
  <2>2. CASE Confirms(q)
    BY <2>2 DEF Confirms, Answered, Known
  <2>3. CASE Forwards(q)
    <3>1. to_application[q] # << >>
      BY <2>3 DEF Forwards, Told, Looping
    <3>2. QED BY <2>3, <3>1 DEF Forwards, TellsNothing, Answered, Known
  <2>4. QED BY <1>1, <2>1, <2>2, <2>3 DEF ServerSide, Joins, Announces, Loops, Ends
<1>2. CASE q \in Clients /\ Rests(q) /\ ClientActs(q)
  <2>1. down'[q] = down[q] \/ down[q] # << >>
    BY <1>2, ReadLeavesLess
  <2>2. QED BY <1>0, <1>2, <2>1 DEF Rests, Answered
<1>3. QED BY <1>1, <1>2, Sides

\* A client that waits, while the server acts.
LEMMA WaitsServerStep ==
  ASSUME TypeOK, NEW q \in Clients, Told(q), Answered(q), Waits(q), Known(q) => Known(q)',
         ClientRests(q), (Rests(q) /\ WritesNothing(q)) \/ ServerSide(q)
  PROVE  Waits(q)'
<1>0. down[q] \in Seq(ServerMessages) /\ q \in Conns
  BY DEF TypeOK, Conns
<1>1. CASE WritesNothing(q) /\ (Rests(q) \/ Joins(q) \/ Announces(q) \/ Loops(q) \/ Ends(q))
  <2>1. servicer_pc'[q] \in {"announce"} \cup Looping => servicer_pc[q] \in {"announce"} \cup Looping
    BY <1>1 DEF Rests, Joins, Announces, Loops, Ends, Looping
  <2>2. QED BY <1>1, <2>1 DEF WritesNothing, ClientRests, Waits
<1>2. CASE Confirms(q)
  <2>1. Confirmation(0) \in ServerMessages
    BY StreamsAssumption DEF Confirmation, ServerMessages, Ids
  <2>2. down[q] = << >> /\ down'[q] = Append(down[q], Confirmation(0))
    BY <1>2 DEF Confirms, Answered
  <2>3. down'[q] # << >> /\ down'[q][1] = Confirmation(0)
    BY <1>0, <2>1, <2>2, AppendBegins
  <2>4. QED BY <2>3 DEF ClientRests, Waits
<1>3. CASE Forwards(q)
  <2>1. PICK m \in ServerMessages : down'[q] = Append(down[q], m)
    BY <1>3 DEF Forwards
  <2>2. /\ down'[q] # << >>
        /\ down[q] # << >> => down'[q][1] = down[q][1]
    BY <1>0, <2>1, AppendBegins
  <2>3. client_pc[q] \in {"idle", "joining"} => down[q] # << >> /\ down[q][1] = Confirmation(0)
    BY <1>3 DEF Forwards, Waits, Looping
  <2>4. QED BY <2>2, <2>3 DEF ClientRests, Waits
<1>4. QED BY <1>1, <1>2, <1>3 DEF ServerSide, Joins, Announces, Loops, Ends

\* A client that waits reads the Confirmation and nothing else.
LEMMA WaitsClientStep ==
  ASSUME TypeOK, NEW q \in Clients, Answered(q), Waits(q), Known(q) => Known(q)',
         Rests(q), ClientActs(q)
  PROVE  Waits(q)'
<1>0. /\ client_pc \in [Clients -> {"idle", "joining", "confirmed", "spinning", "resting",
                                    "leaving", "ended"}]
      /\ chat_in \in [Clients -> Seq(Ids)]
  BY DEF TypeOK
<1>1. CASE ReceiveNothing(q) \/ ReceiveAuthenticationError(q)
  <2>1. client_pc'[q] = "leaving"
    BY <1>0, <1>1 DEF ReceiveNothing, ReceiveAuthenticationError, ClientGoes
  <2>2. QED BY <2>1 DEF Waits
<1>2. CASE ReceiveConfirmation(q)
  <2>1. client_pc'[q] \in {"confirmed", "resting"}
    BY <1>0, <1>2 DEF ReceiveConfirmation, ClientGoes
  <2>2. down[q] # << >> \/ client_pc[q] = "spinning"
    BY <1>2, ReadSomething DEF ReceiveConfirmation
  <2>3. QED BY <2>1, <2>2 DEF Answered, Waits
<1>3. CASE ReceiveChat(q)
  <2>1. PICK id \in 1..MaxSent : ReadDown(q, ServerChat(id))
    BY <1>3 DEF ReceiveChat
  <2>2. down[q] # << >> /\ down[q][1] = ServerChat(id)
    BY <2>1, ReadSomething
  <2>3. ServerChat(id) # Confirmation(0)
    BY DEF ServerChat, Confirmation
  <2>4. client_pc[q] = "spinning"
    BY <1>3, <2>2, <2>3 DEF ReceiveChat, Receiving, Waits
  <2>5. client_pc'[q] \in {"leaving", "resting"}
    BY <1>0, <1>3, <2>4 DEF ReceiveChat, ClientGoes
  <2>6. QED BY <2>4, <2>5 DEF Waits
<1>4. CASE Rest(q) \/ SpawnServicers(q)
  <2>1. client_pc'[q] \in {"spinning", "leaving"} /\ client_pc[q] \in {"resting", "confirmed"}
    BY <1>0, <1>4 DEF Rest, SpawnServicers, ClientGoes
  <2>2. QED BY <2>1 DEF Waits
<1>5. CASE DropServicer(q) \/ ClientProcessEnds(q) \/ ConnectFails(q)
  <2>1. client_pc'[q] = "ended"
    BY <1>0, <1>5 DEF DropServicer, ClientProcessEnds, ConnectFails, ClientGoes
  <2>2. QED BY <2>1 DEF Waits
<1>6. CASE Connect(q)
  <2>1. /\ client_pc[q] = "idle" /\ client_pc'[q] = "joining" /\ UNCHANGED <<chat_in, down>>
    BY <1>0, <1>6 DEF Connect, ClientGoes, OpenAndWrite
  <2>2. QED BY <2>1 DEF Waits, Rests
<1>7. CASE ReliableClientApp(q)
  <2>1. /\ UNCHANGED <<client_pc, down>>
        /\ chat_in' = chat_in \/ chat_in' = [chat_in EXCEPT ![q] = << >>]
    BY <1>7 DEF ReliableClientApp, SendChatMessage, TakeChatHistory, LowLatencyShutdown, Quit, streamVars
  <2>2. chat_in'[q] = chat_in[q] \/ chat_in'[q] = << >>
    BY <1>0, <2>1
  <2>3. QED BY <2>1, <2>2 DEF Waits, Rests
<1>8. QED BY <1>1, <1>2, <1>3, <1>4, <1>5, <1>6, <1>7
          DEF ClientActs, ClientReads, ClientRuns, ClientStep, ReceiveServerMessage

\* Every step keeps what a join tells the two sides.
LEMMA JoinStep == TypeOK /\ Life /\ JoinInv /\ [Next]_vars => JoinInv'
<1> SUFFICES ASSUME TypeOK, Life, JoinInv, [Next]_vars PROVE JoinInv'
  OBVIOUS
<1>1. ASSUME NEW q \in Conns PROVE Told(q)' /\ Answered(q)'
  BY ToldStep, AnsweredStep DEF JoinInv
<1>2. ASSUME NEW q \in Clients PROVE Waits(q)'
  <2>1. q \in Conns /\ Told(q) /\ Answered(q) /\ Waits(q)
    BY DEF JoinInv, Conns
  <2>2. Known(q) => Known(q)'
    BY <2>1, ToldStep
  <2>3. QED BY <2>1, <2>2, Sides, WaitsServerStep, WaitsClientStep
<1>3. QED BY <1>1, <1>2 DEF JoinInv

\* So it holds in every reachable state.
LEMMA JoinInvariant == Spec => [](TypeOK /\ Life /\ JoinInv)
<1>1. Init => JoinInv
  BY JoinInit
<1>2. TypeOK /\ Life /\ JoinInv /\ [Next]_vars => JoinInv'
  BY JoinStep
<1>3. QED BY <1>1, <1>2, LifeInvariant, PTL DEF Spec

(***************************************************************************)
(* A client in Client::connect reads the Confirmation of its servicer      *)
(* before anything else, and no chat message can have come to it.          *)
(***************************************************************************)
THEOREM AnswerComesFirst == Spec => []ConfirmationFirst
<1>1. JoinInv => ConfirmationFirst
  BY DEF JoinInv, Waits, ConfirmationFirst
<1>2. QED BY <1>1, JoinInvariant, PTL

(***************************************************************************)
(* A client whose connect has succeeded is known to the server's           *)
(* application, is about to be, or that application is gone.               *)
(***************************************************************************)
THEOREM ConfirmedClientIsKnown == Spec => []ConfirmedIsAnnounced
<1>1. JoinInv => ConfirmedIsAnnounced
  BY DEF JoinInv, Waits, Known, ConfirmedIsAnnounced
<1>2. QED BY <1>1, JoinInvariant, PTL

(***************************************************************************)
(* The server closes the connection of a client it has announced only when *)
(* quit has stopped it.                                                    *)
(***************************************************************************)
THEOREM AnnouncedClientIsKept == Spec => []OnlyQuitCutsOff
<1>1. TypeOK /\ Life /\ JoinInv => OnlyQuitCutsOff
  <2> SUFFICES ASSUME TypeOK, Life, JoinInv, NEW p \in Conns,
                      to_application[p] # << >>, server_end[p] = "closed"
               PROVE  ~running
    BY DEF OnlyQuitCutsOff
  <2>1. servicer_pc[p] \in {"none", "ended"}
    BY DEF Life, EndsMatch
  <2>2. QED BY <2>1 DEF JoinInv, Told
<1>2. QED BY <1>1, JoinInvariant, PTL
=============================================================================
