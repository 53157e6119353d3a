------------------------- MODULE AddressBookProofs -------------------------
(***************************************************************************)
(* Proofs about the server's address book and about what goes out through  *)
(* it: the book is one to one, a client is credited as the user it logged  *)
(* in as, a world state reaches only the user it is for, and the batch     *)
(* form of parse_application_messages does what its loop does.             *)
(***************************************************************************)
EXTENDS LowLatencyProofs, LoopInduction

-----------------------------------------------------------------------------
(***************************************************************************)
(* The steps of the system, as the server's queue, address book and socket *)
(* see them.                                                               *)
(***************************************************************************)
AppSends(m) ==
  \/ (\E p \in Clients : m = NewClient(p, UserOf[p])) /\ UNCHANGED worlds
  \/ (\E user \in User : m = ClientDisconnect(user)) /\ UNCHANGED worlds
  \/ (\E user \in User, tick \in AppTicks : m = ToClient(user, LastTickReceived(tick)))
       /\ UNCHANGED worlds
  \/ \E user \in User : /\ m = ToClient(user, WorldState(Len(worlds) + 1))
                        /\ worlds' = Append(worlds, user)

Enqueues ==
  /\ \E m : AppSends(m) /\ app_queue' = Append(app_queue, m)
  /\ UNCHANGED <<address_user, downlink, last_tick_received, to_application>>

Serves ==
  /\ address_user' = AddressBook(app_queue, address_user)
  /\ app_queue' = << >>
  /\ \E sent : /\ downlink' = downlink \cup sent
               /\ \A d \in sent : \E type : d \in Datagrams(app_queue, type, address_user')
  /\ UNCHANGED <<worlds, last_tick_received, to_application>>

Answers == \E d \in uplink : HandleControllerInput(d)

\* A queue that is dropped or left as it is, and nothing else of the server.
Rests ==
  /\ app_queue' \in {app_queue, << >>}
  /\ UNCHANGED <<address_user, downlink, last_tick_received, to_application, worlds>>

\* Every step of the system is one of these to the server.
LEMMA ServerSteps ==
  ASSUME [Next]_vars
  PROVE  \/ (Enqueues \/ Serves \/ Answers) /\ UNCHANGED <<clientVars, uplink>>
         \/ Rests
<1>1. ASSUME NEW p \in Clients, ClientStep(p) PROVE Rests
  <2>1. UNCHANGED downlink
    BY <1>1 DEF ClientStep, ClientSpin, ReceiveHalf, ReceiveTimeout, ReceiveRefused,
      ReceiveWorldState, ReceiveTruncated, ReceiveLastTick, SendHalf, SendDisconnected,
      SendNothing, SendTooLarge, SendRefused, SendDatagram, SendToServer, ClientApp, ClientQuit,
      SendControllerInput, TakeWorldState, QuitDropReceiver, QuitDropSender, networkVars
  <2>2. QED BY <1>1, <2>1 DEF ClientStep, Rests, serverVars
<1>2. ASSUME NEW p \in Clients, IcmpRefused(p) PROVE Rests
  BY <1>2 DEF IcmpRefused, Rests, serverVars, networkVars
<1>3. CASE UNCHANGED vars
  BY <1>3 DEF vars, Rests, serverVars, networkVars
<1>4. CASE ServerStep
  <2>0. UNCHANGED clientVars
    BY <1>4 DEF ServerStep
  <2>1. CASE ForwardFromServerToClient
    <3> DEFINE book  == AddressBook(app_queue, address_user)
               world == Datagrams(app_queue, "WorldState", book)
               tick  == Datagrams(app_queue, "LastTickReceived", book)
    <3>1. \/ ForwardAppMessages(world \cup tick, "net")
          \/ ForwardAppMessages({}, "app")
          \/ ForwardAppMessages(world, "app")
      BY <2>1 DEF ForwardFromServerToClient
    <3>2. ASSUME NEW sent, NEW next, sent \subseteq world \cup tick, ForwardAppMessages(sent, next)
          PROVE  Serves /\ UNCHANGED uplink
      BY <3>2 DEF ForwardAppMessages, SendToClients, Serves
    <3> HIDE DEF world, tick
    <3>3. QED BY <2>0, <3>1, <3>2
  <2>2. CASE AppDisconnected \/ ReceiveNothing \/ \E d \in uplink : RejectControllerInput(d)
    BY <2>2 DEF AppDisconnected, ReceiveNothing, RejectControllerInput, Rests, networkVars
  <2>3. ASSUME NEW d \in uplink, HandleControllerInput(d) PROVE Answers /\ UNCHANGED uplink
    BY <2>3 DEF HandleControllerInput, Answers, AcceptNewer, AcknowledgeOlder, SendToClients,
      networkVars
  <2>4. CASE ServerQuit
    BY <2>4 DEF ServerQuit, ServerQuitDropSender, ServerQuitDropReceiver, Rests, networkVars
  <2>5. CASE ServerApp
    <3>1. ASSUME NEW m, SendLowLatency(m), AppSends(m) PROVE Enqueues /\ UNCHANGED uplink
      BY <3>1 DEF SendLowLatency, Enqueues, networkVars
    <3>2. \E m : SendLowLatency(m) /\ AppSends(m)
      BY <2>5, UserOfAssumption DEF ServerApp, SendNewClient, SendClientDisconnect,
        SendWorldState, SendLastTick, AppSends
    <3>3. QED BY <2>0, <3>1, <3>2
  <2>6. QED BY <1>4, <2>0, <2>1, <2>2, <2>3, <2>4, <2>5 DEF ServerStep, ServerSpin
<1>5. QED BY <1>1, <1>2, <1>3, <1>4 DEF Next


-----------------------------------------------------------------------------
(***************************************************************************)
(* The address book.                                                       *)
(***************************************************************************)

\* A pair of the new book is an old one that no message of the queue evicts,
\* or one inserted by a message that none after it evicts.
LEMMA AddressBookPairs ==
  ASSUME NEW ms \in Seq(AppMessages), NEW book, NEW pair \in AddressBook(ms, book)
  PROVE  \/ pair \in book /\ \A j \in 1..Len(ms) : ~Evicts(ms[j], pair)
         \/ \E i \in 1..Len(ms) :
               /\ ms[i].kind = "NewClient" /\ pair = <<ms[i].addr, ms[i].user>>
               /\ \A j \in (i + 1)..Len(ms) : ~Evicts(ms[j], pair)
<1>1. DOMAIN ms = 1..Len(ms) /\ Len(ms) \in Nat
  OBVIOUS
<1>2. 0 + 1 = 1
  OBVIOUS
<1>3. QED BY <1>1, <1>2 DEF AddressBook

\* parse_application_messages leaves a one to one book one to one.
LEMMA AddressBookStaysOneToOne ==
  ASSUME NEW ms \in Seq(AppMessages), NEW book \in SUBSET (Clients \X User),
         \A a, b \in book : (a[1] = b[1] \/ a[2] = b[2]) => a = b
  PROVE  \A a, b \in AddressBook(ms, book) : (a[1] = b[1] \/ a[2] = b[2]) => a = b
<1> DEFINE Old(a) == a \in book /\ \A j \in 1..Len(ms) : ~Evicts(ms[j], a)
           New(a, i) == /\ ms[i].kind = "NewClient" /\ a = <<ms[i].addr, ms[i].user>>
                        /\ \A j \in (i + 1)..Len(ms) : ~Evicts(ms[j], a)
<1>1. \A a \in AddressBook(ms, book) : Old(a) \/ \E i \in 1..Len(ms) : New(a, i)
  BY AddressBookPairs
<1>2. ASSUME NEW a, NEW b, NEW k \in 1..Len(ms), New(b, k), a[1] = b[1] \/ a[2] = b[2]
      PROVE  Evicts(ms[k], a)
  BY <1>2 DEF Evicts
<1>3. ASSUME NEW a, NEW b, NEW k \in 1..Len(ms), Old(a), New(b, k)
      PROVE  ~(a[1] = b[1] \/ a[2] = b[2])
  BY <1>2, <1>3
<1>4. ASSUME NEW a, NEW b, NEW i \in 1..Len(ms), NEW k \in 1..Len(ms), New(a, i), New(b, k),
             a[1] = b[1] \/ a[2] = b[2]
      PROVE  a = b
  <2>1. Len(ms) \in Nat
    OBVIOUS
  <2>2. CASE i = k
    BY <1>4, <2>2
  <2>3. CASE i < k
    <3>1. k \in (i + 1)..Len(ms)
      BY <2>1, <2>3
    <3>2. Evicts(ms[k], a)
      BY <1>2, <1>4
    <3>3. QED BY <1>4, <3>1, <3>2
  <2>4. CASE k < i
    <3>1. i \in (k + 1)..Len(ms)
      BY <2>1, <2>4
    <3>2. Evicts(ms[i], b)
      BY <1>2, <1>4
    <3>3. QED BY <1>4, <3>1, <3>2
  <2>5. QED BY <2>2, <2>3, <2>4
<1> HIDE DEF Old, New
<1>5. \A a, b : Old(a) /\ Old(b) /\ (a[1] = b[1] \/ a[2] = b[2]) => a = b
  BY DEF Old
<1>6. QED BY <1>1, <1>3, <1>4, <1>5

(***************************************************************************)
(* Whatever the order in which the application adds and drops clients, a   *)
(* user has one address and an address one user.                           *)
(***************************************************************************)
THEOREM AddressBookStays == Spec => []AddressBookIsOneToOne
<1>1. Init => AddressBookIsOneToOne
  BY DEF Init, ServerInit, AddressBookIsOneToOne
<1>2. TypeInv /\ AddressBookIsOneToOne /\ [Next]_vars => AddressBookIsOneToOne'
  <2> SUFFICES ASSUME TypeInv, AddressBookIsOneToOne, [Next]_vars PROVE AddressBookIsOneToOne'
    OBVIOUS
  <2>1. app_queue \in Seq(AppMessages) /\ address_user \in SUBSET (Clients \X User)
    BY DEF TypeInv, TypeOK, ServerTypeOK, TravelsTyped
  <2>2. UNCHANGED address_user \/ address_user' = AddressBook(app_queue, address_user)
    BY ServerSteps DEF Enqueues, Serves, Answers, HandleControllerInput, Rests
  <2>3. QED BY <2>1, <2>2, AddressBookStaysOneToOne DEF AddressBookIsOneToOne
<1>3. QED BY <1>1, <1>2, TypeInvInvariant, PTL DEF Spec

-----------------------------------------------------------------------------
(***************************************************************************)
(* Every address in the book or on its way to it belongs to the user it is *)
(* filed under.                                                            *)
(***************************************************************************)
BookIsCredited ==
  /\ \A pair \in address_user : pair[2] = UserOf[pair[1]]
  /\ \A i \in DOMAIN app_queue :
        app_queue[i].kind = "NewClient" => app_queue[i].user = UserOf[app_queue[i].addr]

\* Every step of the system keeps BookIsCredited.
LEMMA CreditedStep == TypeInv /\ BookIsCredited /\ [Next]_vars => BookIsCredited'
<1> SUFFICES ASSUME TypeInv, BookIsCredited, [Next]_vars PROVE BookIsCredited'
  OBVIOUS
<1>0. app_queue \in Seq(AppMessages)
  BY DEF TypeInv, TravelsTyped
<1>1. CASE Enqueues
  <2>1. PICK m : AppSends(m) /\ app_queue' = Append(app_queue, m)
    BY <1>1 DEF Enqueues
  <2>2. m.kind = "NewClient" => m.user = UserOf[m.addr]
    BY <2>1 DEF AppSends, NewClient, ClientDisconnect, ToClient
  <2>3. /\ DOMAIN app_queue' = 1..(Len(app_queue) + 1) /\ DOMAIN app_queue = 1..Len(app_queue)
        /\ \A i \in 1..Len(app_queue) : app_queue'[i] = app_queue[i]
        /\ app_queue'[Len(app_queue) + 1] = m
        /\ Len(app_queue) \in Nat
    BY <1>0, <2>1, AppendFacts
  <2>4. QED BY <1>1, <2>2, <2>3 DEF Enqueues, BookIsCredited
<1>2. CASE Serves
  <2>1. \A pair \in address_user' : pair[2] = UserOf[pair[1]]
    <3> SUFFICES ASSUME NEW pair \in AddressBook(app_queue, address_user)
                 PROVE  pair[2] = UserOf[pair[1]]
      BY <1>2 DEF Serves
    <3>1. CASE pair \in address_user
      BY <3>1 DEF BookIsCredited
    <3>2. ASSUME NEW i \in 1..Len(app_queue), app_queue[i].kind = "NewClient",
                 pair = <<app_queue[i].addr, app_queue[i].user>>
          PROVE  pair[2] = UserOf[pair[1]]
      BY <1>0, <3>2 DEF BookIsCredited
    <3>3. QED BY <1>0, <3>1, <3>2, AddressBookPairs
  <2>2. QED BY <1>2, <2>1 DEF Serves, BookIsCredited
<1>3. CASE Answers \/ Rests
  BY <1>3 DEF Answers, HandleControllerInput, Rests, BookIsCredited
<1>4. QED BY <1>1, <1>2, <1>3, ServerSteps

\* BookIsCredited holds in every reachable state.
LEMMA CreditedInvariant == Spec => []BookIsCredited
<1>1. Init => BookIsCredited
  BY DEF Init, ServerInit, BookIsCredited
<1>2. QED BY <1>1, CreditedStep, TypeInvInvariant, PTL DEF Spec

-----------------------------------------------------------------------------
(***************************************************************************)
(* NoCrossTalk is inductive together with the same fact about the world    *)
(* states still queued for the servicer and those on the network.          *)
(***************************************************************************)
IsFor(w, user) == w \in 1..Len(worlds) /\ worlds[w] = user

WorldsAreAddressed ==
  /\ \A i \in DOMAIN app_queue :
        app_queue[i].kind = "ToClient" /\ app_queue[i].payload.type = "WorldState"
          => IsFor(app_queue[i].payload.world, app_queue[i].to)
  /\ \A d \in downlink : d.body.type = "WorldState" => IsFor(d.body.world, UserOf[d.dst])

\* NoCrossTalk, said with IsFor.
WorldsAtClient(p) ==
  /\ \A w \in taken[p] : IsFor(w, UserOf[p])
  /\ \A i \in DOMAIN world_queue[p] : IsFor(world_queue[p][i], UserOf[p])

WorldsAtClients == \A p \in Clients : WorldsAtClient(p)

\* The two ways of saying it agree.
LEMMA NoCrossTalkIff == TypeInv => (NoCrossTalk <=> WorldsAtClients)
<1> SUFFICES ASSUME TypeInv, NEW p \in Clients
             PROVE  (\A w \in taken[p] \cup {world_queue[p][i] : i \in DOMAIN world_queue[p]} :
                        w <= Len(worlds) /\ worlds[w] = UserOf[p])
                    <=> WorldsAtClient(p)
  BY DEF NoCrossTalk, WorldsAtClients
<1>1. /\ taken[p] \subseteq 1..MaxWorlds /\ world_queue[p] \in Seq(1..MaxWorlds)
      /\ Len(worlds) \in Nat
  BY DEF TypeInv, TypeOK, ClientTypeOK, ServerTypeOK
<1>2. \A i \in DOMAIN world_queue[p] : world_queue[p][i] \in 1..MaxWorlds
  BY <1>1, ElementOf
<1>3. \A w \in 1..MaxWorlds : w \in 1..Len(worlds) <=> w <= Len(worlds)
  BY <1>1, BoundsAssumption
<1>4. QED BY <1>1, <1>2, <1>3 DEF IsFor, WorldsAtClient

\* A world state is for whom it was, whatever is sent after it.
LEMMA IsForStays ==
  ASSUME TypeInv, NEW w, NEW user, IsFor(w, user),
         UNCHANGED worlds \/ \E u : worlds' = Append(worlds, u)
  PROVE  IsFor(w, user)'
<1>1. worlds \in Seq(User)
  BY DEF TypeInv, TypeOK, ServerTypeOK
<1>2. CASE UNCHANGED worlds
  BY <1>2 DEF IsFor
<1>3. ASSUME NEW u, worlds' = Append(worlds, u) PROVE IsFor(w, user)'
  <2>1. /\ Len(worlds') = Len(worlds) + 1 /\ Len(worlds) \in Nat
        /\ \A i \in 1..Len(worlds) : worlds'[i] = worlds[i]
    BY <1>1, <1>3
  <2>2. QED BY <2>1 DEF IsFor
<1>4. QED BY <1>2, <1>3

\* The list of world states sent only grows.
LEMMA WorldsSteps ==
  ASSUME [Next]_vars
  PROVE  UNCHANGED worlds \/ \E u : worlds' = Append(worlds, u)
BY ServerSteps DEF Enqueues, AppSends, Serves, Answers, HandleControllerInput, Rests

\* A datagram made from a queue carries the payload of one of its messages,
\* to an address filed under the user the message is for.
LEMMA DatagramOrigin ==
  ASSUME NEW ms, NEW type, NEW book, NEW d \in Datagrams(ms, type, book)
  PROVE  \E i \in DOMAIN ms, pair \in book :
            /\ ms[i].kind = "ToClient" /\ pair[2] = ms[i].to
            /\ d.dst = pair[1] /\ d.body = ms[i].payload
<1>1. PICK m \in Outgoing(ms, type) : d \in SendMessage(book, m.to, m.payload)
  BY DEF Datagrams
<1>2. PICK i \in DOMAIN ms : m = ms[i] /\ ms[i].kind = "ToClient"
  BY DEF Outgoing
<1>3. PICK pair \in book : pair[2] = m.to /\ d = [dst |-> pair[1], body |-> m.payload]
  BY <1>1 DEF SendMessage
<1>4. d.dst = pair[1] /\ d.body = m.payload
  BY <1>3
<1>5. QED BY <1>2, <1>3, <1>4

\* Every step of the system keeps WorldsAreAddressed.
LEMMA AddressedStep ==
  TypeInv /\ BookIsCredited /\ BookIsCredited' /\ WorldsAreAddressed /\ [Next]_vars
    => WorldsAreAddressed'
<1> SUFFICES ASSUME TypeInv, BookIsCredited, BookIsCredited', WorldsAreAddressed, [Next]_vars
             PROVE  WorldsAreAddressed'
  OBVIOUS
<1>0. app_queue \in Seq(AppMessages) /\ worlds \in Seq(User)
  BY DEF TypeInv, TypeOK, ServerTypeOK, TravelsTyped
<1>1. \A w, user : IsFor(w, user) => IsFor(w, user)'
  BY WorldsSteps, IsForStays
<1>2. CASE Enqueues
  <2>1. PICK m : AppSends(m) /\ app_queue' = Append(app_queue, m)
    BY <1>2 DEF Enqueues
  <2>2. m.kind = "ToClient" /\ m.payload.type = "WorldState" => IsFor(m.payload.world, m.to)'
    <3>1. ASSUME NEW user \in User, m = ToClient(user, WorldState(Len(worlds) + 1)),
                 worlds' = Append(worlds, user)
          PROVE  IsFor(m.payload.world, m.to)'
      <4>1. m.payload.world = Len(worlds) + 1 /\ m.to = user
        BY <3>1 DEF ToClient, WorldState
      <4>2. Len(worlds') = Len(worlds) + 1 /\ Len(worlds) \in Nat /\ worlds'[Len(worlds) + 1] = user
        BY <1>0, <3>1
      <4>3. QED BY <4>1, <4>2 DEF IsFor
    <3>2. QED BY <2>1, <3>1 DEF AppSends, NewClient, ClientDisconnect, ToClient, LastTickReceived
  <2>3. /\ DOMAIN app_queue' = 1..(Len(app_queue) + 1) /\ DOMAIN app_queue = 1..Len(app_queue)
        /\ \A i \in 1..Len(app_queue) : app_queue'[i] = app_queue[i]
        /\ app_queue'[Len(app_queue) + 1] = m
        /\ Len(app_queue) \in Nat
    BY <1>0, <2>1, AppendFacts
  <2>4. QED BY <1>1, <1>2, <2>2, <2>3 DEF Enqueues, WorldsAreAddressed
<1>3. CASE Serves
  <2>1. PICK sent : /\ downlink' = downlink \cup sent
                    /\ \A d \in sent : \E type : d \in Datagrams(app_queue, type, address_user')
    BY <1>3 DEF Serves
  <2>2. ASSUME NEW d \in sent, d.body.type = "WorldState" PROVE IsFor(d.body.world, UserOf[d.dst])
    <3>1. PICK i \in DOMAIN app_queue, pair \in address_user' :
             /\ app_queue[i].kind = "ToClient" /\ pair[2] = app_queue[i].to
             /\ d.dst = pair[1] /\ d.body = app_queue[i].payload
      BY <2>1, DatagramOrigin
    <3>2. pair[2] = UserOf[pair[1]]
      BY DEF BookIsCredited
    <3>3. QED BY <2>2, <3>1, <3>2 DEF WorldsAreAddressed
  <2>3. QED BY <1>1, <1>3, <2>1, <2>2 DEF Serves, WorldsAreAddressed
<1>4. CASE Answers
  <2>1. UNCHANGED <<app_queue, worlds>>
    BY <1>4 DEF Answers, HandleControllerInput
  <2>2. \A d \in downlink' : d \in downlink \/ d.body.type = "LastTickReceived"
    BY <1>4 DEF Answers, HandleControllerInput, AcceptNewer, AcknowledgeOlder, SendToClients,
      SendMessage, LastTickReceived, networkVars
  <2>3. QED BY <1>1, <2>1, <2>2 DEF WorldsAreAddressed
<1>5. CASE Rests
  BY <1>1, <1>5 DEF Rests, WorldsAreAddressed
<1>6. QED BY <1>2, <1>3, <1>4, <1>5, ServerSteps

\* Every step of the system keeps WorldsAtClients.
LEMMA AtClientsStep ==
  TypeInv /\ WorldsAreAddressed /\ WorldsAtClients /\ [Next]_vars => WorldsAtClients'
<1> DEFINE Q(p) == \A i \in DOMAIN world_queue[p] : IsFor(world_queue[p][i], UserOf[p])
           T(p) == \A w \in taken[p] : IsFor(w, UserOf[p])
<1> SUFFICES ASSUME TypeInv, WorldsAreAddressed, \A p \in Clients : T(p) /\ Q(p), [Next]_vars
             PROVE  \A p \in Clients : T(p)' /\ Q(p)'
  BY DEF WorldsAtClients, WorldsAtClient
<1>0. /\ world_queue \in [Clients -> Seq(1..MaxWorlds)]
      /\ taken \in [Clients -> SUBSET (1..MaxWorlds)]
  BY DEF TypeInv, TypeOK, ClientTypeOK
<1>1. \A w, user : IsFor(w, user) => IsFor(w, user)'
  BY WorldsSteps, IsForStays
<1>2. ASSUME UNCHANGED <<world_queue, taken>> PROVE \A p \in Clients : T(p)' /\ Q(p)'
  BY <1>1, <1>2
<1>3. ASSUME NEW p \in Clients,
             \A q \in Clients \ {p} : world_queue'[q] = world_queue[q] /\ taken'[q] = taken[q],
             T(p)', Q(p)'
      PROVE  \A q \in Clients : T(q)' /\ Q(q)'
  BY <1>1, <1>3
<1>4. ASSUME NEW p \in Clients, world_queue' = [world_queue EXCEPT ![p] = << >>],
             \/ UNCHANGED taken
             \/ /\ world_queue[p] # << >>
                /\ taken' = [taken EXCEPT ![p] = {world_queue[p][Len(world_queue[p])]}]
      PROVE  \A q \in Clients : T(q)' /\ Q(q)'
  <2> DEFINE last == world_queue[p][Len(world_queue[p])]
  <2>1. world_queue[p] # << >> => IsFor(last, UserOf[p])
    <3>1. world_queue[p] \in Seq(1..MaxWorlds)
      BY <1>0
    <3>2. world_queue[p] # << >> => Len(world_queue[p]) \in DOMAIN world_queue[p]
      BY <3>1
    <3>3. QED BY <3>2
  <2>2. taken' = taken \/ (world_queue[p] # << >> /\ taken' = [taken EXCEPT ![p] = {last}])
    BY <1>4
  <2> HIDE DEF last
  <2>3. /\ world_queue'[p] = << >>
        /\ \A q \in Clients \ {p} : world_queue'[q] = world_queue[q] /\ taken'[q] = taken[q]
        /\ taken'[p] = taken[p] \/ (world_queue[p] # << >> /\ taken'[p] = {last})
    BY <1>0, <1>4, <2>2
  <2>4. Q(p)'
    BY <2>3
  <2>5. T(p)'
    BY <1>1, <2>1, <2>3
  <2>6. QED BY <1>3, <2>3, <2>4, <2>5
<1>5. ASSUME NEW p \in Clients, NEW w, ReceiveWorldState(p, w)
      PROVE  \A q \in Clients : T(q)' /\ Q(q)'
  <2> DEFINE longer == Append(world_queue[p], w)
  <2>1. UNCHANGED taken
    BY <1>5 DEF ReceiveWorldState, appVars
  <2>2. IsFor(w, UserOf[p])
    <3> DEFINE body == [type |-> "WorldState", world |-> w]
    <3>1. PICK d \in downlink : d.dst = p /\ d.body = body
      BY <1>5 DEF ReceiveWorldState, Deliverable
    <3>2. body.type = "WorldState" /\ body.world = w
      OBVIOUS
    <3> HIDE DEF body
    <3>3. QED BY <3>1, <3>2 DEF WorldsAreAddressed
  <2>3. CASE client_app[p] = "up"
    <3>1. world_queue' = [world_queue EXCEPT ![p] = longer]
      BY <1>5, <2>3 DEF ReceiveWorldState
    <3>2. /\ DOMAIN longer = 1..(Len(world_queue[p]) + 1)
          /\ DOMAIN world_queue[p] = 1..Len(world_queue[p])
          /\ \A i \in 1..Len(world_queue[p]) : longer[i] = world_queue[p][i]
          /\ longer[Len(world_queue[p]) + 1] = w
          /\ Len(world_queue[p]) \in Nat
      <4>1. world_queue[p] \in Seq(1..MaxWorlds)
        BY <1>0
      <4>2. QED BY <4>1, AppendFacts
    <3> HIDE DEF longer
    <3>3. world_queue'[p] = longer /\ \A q \in Clients \ {p} : world_queue'[q] = world_queue[q]
      BY <1>0, <3>1
    <3>4. Q(p)'
      BY <1>1, <2>2, <3>2, <3>3
    <3>5. T(p)'
      BY <1>1, <2>1
    <3>6. QED BY <1>3, <2>1, <3>3, <3>4, <3>5
  <2>4. CASE client_app[p] # "up"
    BY <1>2, <1>5, <2>1, <2>4 DEF ReceiveWorldState
  <2>5. QED BY <2>3, <2>4
<1> HIDE DEF T, Q
<1>6. ASSUME NEW p \in Clients, ClientStep(p) PROVE \A q \in Clients : T(q)' /\ Q(q)'
  <2>1. CASE TakeWorldState(p)
    BY <1>4, <2>1 DEF TakeWorldState
  <2>2. CASE QuitDropReceiver(p)
    BY <1>4, <2>2 DEF QuitDropReceiver
  <2>3. CASE UNCHANGED <<world_queue, taken>>
    BY <1>2, <2>3
  <2>4. CASE ReceiveHalf(p)
    BY <1>2, <1>5, <2>4 DEF ReceiveHalf, ReceiveTimeout, ReceiveRefused, ReceiveTruncated,
      ReceiveLastTick, clientVars, appVars
  <2>5. CASE SendHalf(p)
    BY <1>2, <2>5 DEF SendHalf, SendDisconnected, SendNothing, SendTooLarge, SendRefused,
      SendDatagram, DrainAndSend, appVars
  <2>6. CASE QuitDropSender(p) \/ \E input \in Input : SendControllerInput(p, input)
    BY <1>2, <2>6 DEF QuitDropSender, SendControllerInput
  <2>7. QED
    BY <1>6, <2>1, <2>2, <2>4, <2>5, <2>6 DEF ClientStep, ClientSpin, ClientApp, ClientQuit
<1>7. ASSUME NEW p \in Clients, IcmpRefused(p) PROVE \A q \in Clients : T(q)' /\ Q(q)'
  BY <1>2, <1>7 DEF IcmpRefused, appVars
<1>8. CASE ServerStep \/ UNCHANGED vars
  BY <1>2, <1>8 DEF ServerStep, vars, clientVars, appVars
<1>9. QED BY <1>6, <1>7, <1>8 DEF Next

(***************************************************************************)
(* A world state reaches only the client of the user it is for, although   *)
(* clients come and go and the address book changes between the queueing   *)
(* of a message, its sending and its delivery.                             *)
(***************************************************************************)
THEOREM WorldsReachTheirUser == Spec => []NoCrossTalk
<1>1. Init => WorldsAreAddressed /\ WorldsAtClients
  BY DEF Init, ClientInit, ServerInit, NetworkInit, WorldsAreAddressed, WorldsAtClients,
    WorldsAtClient
<1>2. QED
  BY <1>1, AddressedStep, AtClientsStep, NoCrossTalkIff, CreditedInvariant, TypeInvInvariant, PTL
  DEF Spec

-----------------------------------------------------------------------------
(***************************************************************************)
(* The batch form of parse_application_messages is its loop.               *)
(***************************************************************************)

\* The states of the loop and the first of them.
Slots == {"WorldState", "LastTickReceived"}
LoopStart(book) == [book |-> book, outgoing |-> [type \in Slots |-> {}]]
ParseStates == [book : SUBSET (Clients \X User), outgoing : [Slots -> SUBSET AppMessages]]

\* A message is of one of three kinds; only ToClient has a slot.
LEMMA MessageKinds ==
  ASSUME NEW m \in AppMessages
  PROVE  \/ m.kind = "ToClient" /\ m.payload.type \in Slots
         \/ m.kind = "NewClient" /\ m.addr \in Clients /\ m.user \in User
         \/ m.kind = "ClientDisconnect" /\ m.user \in User
BY DEF AppMessages, ServerMessages, Slots

\* What the body of the loop does with one message.
LEMMA BodyCases ==
  ASSUME NEW s \in ParseStates, NEW m \in AppMessages
  PROVE  /\ LoopBody(s, m) \in ParseStates
         /\ LoopBody(s, m).book =
              {e \in s.book : ~Evicts(m, e)} \cup
              (IF m.kind = "NewClient" THEN {<<m.addr, m.user>>} ELSE {})
         /\ \A type \in Slots :
               LoopBody(s, m).outgoing[type] =
                 IF m.kind = "ToClient" /\ m.payload.type = type THEN {m} ELSE s.outgoing[type]
<1> DEFINE t == LoopBody(s, m)
           Rest == {e \in s.book : ~Evicts(m, e)}
<1>1. s.book \in SUBSET (Clients \X User) /\ s.outgoing \in [Slots -> SUBSET AppMessages]
  BY DEF ParseStates
<1>2. CASE m.kind = "ToClient" /\ m.payload.type \in Slots
  <2> DEFINE o == [s.outgoing EXCEPT ![m.payload.type] = {m}]
  <2>1. t = [s EXCEPT !.outgoing = o]
    BY <1>2 DEF LoopBody
  <2>2. o \in [Slots -> SUBSET AppMessages] /\ \A type \in Slots : o[type] = IF m.payload.type = type THEN {m} ELSE s.outgoing[type]
    BY <1>1, <1>2
  <2> HIDE DEF o
  <2>3. t \in ParseStates /\ t.book = s.book /\ t.outgoing = o
    BY <1>1, <2>1, <2>2 DEF ParseStates
  <2>4. Rest = s.book
    BY <1>2 DEF Evicts
  <2> HIDE DEF t
  <2>5. t.book = Rest \cup (IF m.kind = "NewClient" THEN {<<m.addr, m.user>>} ELSE {})
    BY <1>2, <2>3, <2>4
  <2> QED BY <1>2, <2>2, <2>3, <2>5 DEF t
<1>3. CASE m.kind = "NewClient" /\ m.addr \in Clients /\ m.user \in User
  <2> DEFINE b == {e \in s.book : e[1] # m.addr /\ e[2] # m.user} \cup {<<m.addr, m.user>>}
  <2>1. t = [s EXCEPT !.book = b]
    BY <1>3 DEF LoopBody
  <2>2. b \in SUBSET (Clients \X User)
    BY <1>1, <1>3
  <2>3. b = Rest \cup {<<m.addr, m.user>>}
    BY <1>3 DEF Evicts
  <2> HIDE DEF b
  <2>4. t \in ParseStates /\ t.book = b /\ t.outgoing = s.outgoing
    BY <1>1, <2>1, <2>2 DEF ParseStates
  <2> HIDE DEF t
  <2> QED BY <1>3, <2>3, <2>4 DEF t
<1>4. CASE m.kind = "ClientDisconnect" /\ m.user \in User
  <2> DEFINE b == {e \in s.book : e[2] # m.user}
  <2>1. t = [s EXCEPT !.book = b]
    BY <1>4 DEF LoopBody
  <2>2. b \in SUBSET (Clients \X User)
    BY <1>1
  <2>3. b = Rest
    BY <1>4 DEF Evicts
  <2> HIDE DEF b
  <2>4. t \in ParseStates /\ t.book = b /\ t.outgoing = s.outgoing
    BY <1>1, <2>1, <2>2 DEF ParseStates
  <2> HIDE DEF t
  <2> QED BY <1>4, <2>3, <2>4 DEF t
<1> QED BY <1>2, <1>3, <1>4, MessageKinds

\* One more message evicts from the book and may insert into it.
LEMMA AddressBookOneMore ==
  ASSUME NEW ms \in Seq(AppMessages), NEW m \in AppMessages, NEW book
  PROVE  AddressBook(Append(ms, m), book) =
           {e \in AddressBook(ms, book) : ~Evicts(m, e)} \cup
           (IF m.kind = "NewClient" THEN {<<m.addr, m.user>>} ELSE {})
<1> DEFINE more == Append(ms, m)
           N == Len(ms)
           Survives(pair, i) == \A j \in (i + 1)..N : ~Evicts(ms[j], pair)
           Outlives(pair, i) == \A j \in (i + 1)..(N + 1) : ~Evicts(more[j], pair)
           Here(pair) == \/ pair \in book /\ Survives(pair, 0)
                         \/ \E i \in 1..N : /\ ms[i].kind = "NewClient" /\ pair = <<ms[i].addr, ms[i].user>>
                                            /\ Survives(pair, i)
           There(pair) == \/ pair \in book /\ Outlives(pair, 0)
                          \/ \E i \in 1..(N + 1) : /\ more[i].kind = "NewClient"
                                                   /\ pair = <<more[i].addr, more[i].user>>
                                                   /\ Outlives(pair, i)
<1>1. /\ N \in Nat /\ DOMAIN ms = 1..N /\ DOMAIN more = 1..(N + 1) /\ Len(more) = N + 1
      /\ more[N + 1] = m /\ \A i \in 1..N : more[i] = ms[i]
  OBVIOUS
<1> HIDE DEF more
<1>2. \A pair : pair \in AddressBook(ms, book) <=> Here(pair)
  BY <1>1 DEF AddressBook
<1>3. \A pair : pair \in AddressBook(more, book) <=> There(pair)
  BY <1>1 DEF AddressBook
<1> HIDE DEF N
<1>4. ASSUME NEW pair, NEW i \in 0..N PROVE Outlives(pair, i) <=> Survives(pair, i) /\ ~Evicts(m, pair)
  <2>1. \A j : j \in (i + 1)..(N + 1) <=> j \in (i + 1)..N \/ j = N + 1
    BY <1>1
  <2>2. \A j \in (i + 1)..N : more[j] = ms[j]
    BY <1>1
  <2> QED BY <1>1, <2>1, <2>2
<1>5. ASSUME NEW pair PROVE Outlives(pair, N + 1)
  BY <1>1
<1> HIDE DEF Survives, Outlives
<1>6. ASSUME NEW pair PROVE There(pair) <=> \/ Here(pair) /\ ~Evicts(m, pair)
                                            \/ m.kind = "NewClient" /\ pair = <<m.addr, m.user>>
  <2>1. 0 \in 0..N /\ \A i \in 1..N : i \in 0..N
    BY <1>1
  <2>2. \A i : i \in 1..(N + 1) <=> i \in 1..N \/ i = N + 1
    BY <1>1
  <2>3. ASSUME There(pair)
        PROVE  (Here(pair) /\ ~Evicts(m, pair)) \/ (m.kind = "NewClient" /\ pair = <<m.addr, m.user>>)
    BY <1>1, <1>4, <2>1, <2>2, <2>3
  <2>4. ASSUME Here(pair), ~Evicts(m, pair) PROVE There(pair)
    BY <1>1, <1>4, <2>1, <2>2, <2>4
  <2>5. ASSUME m.kind = "NewClient", pair = <<m.addr, m.user>> PROVE There(pair)
    <3>1. N + 1 \in 1..(N + 1) /\ more[N + 1] = m
      BY <1>1
    <3> QED BY <1>5, <2>5, <3>1
  <2> QED BY <2>3, <2>4, <2>5
<1> HIDE DEF Here, There
<1>7. \A pair : pair \in AddressBook(more, book) <=>
                  \/ pair \in AddressBook(ms, book) /\ ~Evicts(m, pair)
                  \/ m.kind = "NewClient" /\ pair = <<m.addr, m.user>>
  BY <1>2, <1>3, <1>6
<1> QED BY <1>7 DEF more

\* One more message takes its slot and leaves the other.
LEMMA OutgoingOneMore ==
  ASSUME NEW ms \in Seq(AppMessages), NEW m \in AppMessages, NEW type
  PROVE  Outgoing(Append(ms, m), type) =
           IF m.kind = "ToClient" /\ m.payload.type = type THEN {m} ELSE Outgoing(ms, type)
<1> DEFINE more == Append(ms, m)
           N == Len(ms)
           Slot == {i \in 1..N : ms[i].kind = "ToClient" /\ ms[i].payload.type = type}
           Wider == {i \in 1..(N + 1) : more[i].kind = "ToClient" /\ more[i].payload.type = type}
<1>1. /\ N \in Nat /\ DOMAIN ms = 1..N /\ DOMAIN more = 1..(N + 1)
      /\ more[N + 1] = m /\ \A i \in 1..N : more[i] = ms[i]
  OBVIOUS
<1> HIDE DEF more
<1>2. Outgoing(ms, type) = {ms[i] : i \in {k \in Slot : \A j \in Slot : j <= k}}
  BY <1>1 DEF Outgoing
<1>3. Outgoing(more, type) = {more[i] : i \in {k \in Wider : \A j \in Wider : j <= k}}
  BY <1>1 DEF Outgoing
<1> HIDE DEF N
<1>4. CASE m.kind = "ToClient" /\ m.payload.type = type
  <2>1. N + 1 \in Wider /\ \A j \in Wider : j \in 1..(N + 1)
    BY <1>1, <1>4
  <2>2. {k \in Wider : \A j \in Wider : j <= k} = {N + 1}
    BY <1>1, <2>1
  <2> QED BY <1>1, <1>3, <1>4, <2>2 DEF more
<1>5. CASE ~(m.kind = "ToClient" /\ m.payload.type = type)
  <2>1. Wider = Slot
    <3>1. \A i : i \in 1..(N + 1) <=> i \in 1..N \/ i = N + 1
      BY <1>1
    <3> QED BY <1>1, <1>5, <3>1
  <2>2. \A i \in Slot : more[i] = ms[i]
    BY <1>1
  <2> HIDE DEF Wider, Slot
  <2>3. Outgoing(more, type) = {ms[i] : i \in {k \in Slot : \A j \in Slot : j <= k}}
    BY <1>3, <2>1, <2>2
  <2> QED BY <1>2, <1>5, <2>3 DEF more
<1> QED BY <1>4, <1>5

\* What a round of the loop does with the message m in state s.
BodyEffect(s, m) ==
  /\ LoopBody(s, m) \in ParseStates
  /\ LoopBody(s, m).book =
       {e \in s.book : ~Evicts(m, e)} \cup
       (IF m.kind = "NewClient" THEN {<<m.addr, m.user>>} ELSE {})
  /\ \A type \in Slots :
        LoopBody(s, m).outgoing[type] =
          IF m.kind = "ToClient" /\ m.payload.type = type THEN {m} ELSE s.outgoing[type]

\* f is the sequence of the loop's states over the messages ms.
IsParse(f, ms, book) ==
  /\ f \in [0..Len(ms) -> ParseStates]
  /\ f[0] = LoopStart(book)
  /\ \A k \in 0..(Len(ms) - 1) : f[k + 1] = LoopBody(f[k], ms[k + 1])

\* Every round has that effect.
LEMMA BodyHasEffect == \A s \in ParseStates, m \in AppMessages : BodyEffect(s, m)
BY BodyCases DEF BodyEffect

\* The loop of parse_application_messages has its sequence of states and
\* ends in the last.
LEMMA ParseRuns ==
  ASSUME NEW ms \in Seq(AppMessages), NEW book \in SUBSET (Clients \X User)
  PROVE  \E f : IsParse(f, ms, book) /\ ParseLoop(ms, book) = f[Len(ms)]
<1> DEFINE N == Len(ms)
           start == LoopStart(book)
           Loop(h) == h = [k \in 0..N |->
                             IF k = 0 THEN [book |-> book, outgoing |-> [type \in {"WorldState", "LastTickReceived"} |-> {}]]
                             ELSE LoopBody(h[k - 1], ms[k])]
           loop == CHOOSE h : Loop(h)
           g == [x \in ParseStates \X (1..N) |-> LoopBody(x[1], ms[x[2]])]
<1>1. ParseLoop(ms, book) = loop[N]
  BY DEF ParseLoop
<1>2. N \in Nat /\ \A k \in 1..N : ms[k] \in AppMessages
  OBVIOUS
<1> HIDE DEF N
<1>3. IsBody(g, ParseStates, N)
  BY <1>2, BodyHasEffect DEF IsBody, BodyEffect
<1>4. \A s \in ParseStates, k \in 1..N : g[<<s, k>>] = LoopBody(s, ms[k])
  OBVIOUS
<1> HIDE DEF g
<1>5. start \in ParseStates
  BY DEF LoopStart, ParseStates
<1>0. start = [book |-> book, outgoing |-> [type \in {"WorldState", "LastTickReceived"} |-> {}]]
  BY DEF LoopStart, Slots
<1> HIDE DEF start
<1>6. PICK f : IsRun(f, g, ParseStates, start, N)
  BY <1>2, <1>3, <1>5, LoopStates
<1>7. Loop(f)
  <2>1. \A k \in 1..N : f[k] = LoopBody(f[k - 1], ms[k])
    <3> TAKE k \in 1..N
    <3>1. f[k - 1] \in ParseStates
      BY <1>2, <1>6 DEF IsRun
    <3> QED BY <3>1, <1>4, <1>6 DEF IsRun
  <2>2. \A k \in 0..N : f[k] = IF k = 0 THEN start ELSE LoopBody(f[k - 1], ms[k])
    BY <1>2, <1>6, <2>1 DEF IsRun
  <2> QED BY <1>6, <2>2, <1>0 DEF IsRun
<1>8. Loop(loop)
  <2> HIDE DEF Loop
  <2> QED BY <1>7
<1>9. loop[0] = start /\ \A k \in 0..(N - 1) : loop[k + 1] = LoopBody(loop[k], ms[k + 1])
  <2> HIDE DEF loop
  <2>1. \A k \in 0..N : loop[k] = IF k = 0 THEN start ELSE LoopBody(loop[k - 1], ms[k])
    BY <1>8, <1>0
  <2>2. ASSUME NEW k \in 0..(N - 1) PROVE loop[k + 1] = LoopBody(loop[k], ms[k + 1])
    <3>1. k + 1 \in 0..N /\ k + 1 # 0 /\ (k + 1) - 1 = k
      BY <1>2
    <3> QED BY <2>1, <3>1
  <2> QED BY <1>2, <2>1, <2>2
<1>10. \A k \in 0..N : loop[k] \in ParseStates
  <2> HIDE DEF loop, Loop
  <2> DEFINE S == {k \in 0..N : loop[k] \in ParseStates}
  <2>1. 0 \in S
    BY <1>2, <1>5, <1>9
  <2>2. ASSUME NEW k \in 0..(N - 1), k \in S PROVE k + 1 \in S
    <3>1. loop[k] \in ParseStates /\ ms[k + 1] \in AppMessages /\ k + 1 \in 0..N
      BY <1>2, <2>2
    <3>2. LoopBody(loop[k], ms[k + 1]) \in ParseStates
      BY <3>1, BodyHasEffect DEF BodyEffect
    <3> QED BY <3>1, <3>2, <1>9
  <2> HIDE DEF S
  <2>3. N \in Nat
    BY <1>2
  <2>4. \A k \in 0..N : k \in S
    BY <2>1, <2>2, <2>3, BoundedInduction
  <2> QED BY <2>4 DEF S
<1>11. loop \in [0..N -> ParseStates]
  <2> HIDE DEF loop
  <2>1. loop = [k \in 0..N |-> loop[k]]
    BY <1>8
  <2> QED BY <1>10, <2>1
<1> HIDE DEF loop, Loop
<1>12. IsParse(loop, ms, book)
  BY <1>9, <1>11 DEF IsParse, N, start
<1> QED BY <1>1, <1>12 DEF N

\* The messages up to the next one.
LEMMA NextMessage ==
  ASSUME NEW ms \in Seq(AppMessages), NEW k \in 0..(Len(ms) - 1)
  PROVE  /\ ms[k + 1] \in AppMessages
         /\ SubSeq(ms, 1, k) \in Seq(AppMessages)
         /\ SubSeq(ms, 1, k + 1) = Append(SubSeq(ms, 1, k), ms[k + 1])
OBVIOUS

\* After k rounds the loop has done what the batch form says of the first k
\* messages; after all of them, of the queue.
LEMMA ParseIsBatch ==
  ASSUME NEW ms \in Seq(AppMessages), NEW book \in SUBSET (Clients \X User)
  PROVE  /\ ParseLoop(ms, book).book = AddressBook(ms, book)
         /\ DOMAIN ParseLoop(ms, book).outgoing = Slots
         /\ \A type \in Slots : ParseLoop(ms, book).outgoing[type] = Outgoing(ms, type)
<1>1. PICK f : IsParse(f, ms, book) /\ ParseLoop(ms, book) = f[Len(ms)]
  BY ParseRuns
<1> DEFINE N == Len(ms)
           first(k) == SubSeq(ms, 1, k)
           S == {k \in 0..N : /\ f[k].book = AddressBook(first(k), book)
                              /\ \A type \in Slots : f[k].outgoing[type] = Outgoing(first(k), type)}
<1>2. N \in Nat /\ \A k \in 0..N : f[k] \in ParseStates
  BY <1>1 DEF IsParse
<1>3. 0 \in S
  <2>1. first(0) = << >>
    OBVIOUS
  <2>2. AddressBook(<< >>, book) = book
    BY DEF AddressBook
  <2>3. \A type : Outgoing(<< >>, type) = {}
    BY DEF Outgoing
  <2>4. f[0].book = book /\ \A type \in Slots : f[0].outgoing[type] = {}
    BY <1>1 DEF IsParse, LoopStart
  <2> HIDE DEF first
  <2>5. 0 \in 0..N
    BY <1>2
  <2>6. f[0].book = AddressBook(first(0), book)
    BY <2>1, <2>2, <2>4
  <2>7. \A type \in Slots : f[0].outgoing[type] = Outgoing(first(0), type)
    BY <2>1, <2>3, <2>4
  <2> HIDE DEF N
  <2> QED BY <2>5, <2>6, <2>7
<1>4. ASSUME NEW k \in 0..(N - 1), k \in S PROVE k + 1 \in S
  <2> DEFINE m == ms[k + 1]
             t == first(k)
  <2>1. m \in AppMessages /\ t \in Seq(AppMessages) /\ first(k + 1) = Append(t, m)
    BY NextMessage
  <2>2. k + 1 \in 0..N /\ k \in 0..N /\ f[k] \in ParseStates /\ f[k + 1] = LoopBody(f[k], m)
    BY <1>1, <1>2 DEF IsParse
  <2>3. f[k].book = AddressBook(t, book) /\ \A type \in Slots : f[k].outgoing[type] = Outgoing(t, type)
    BY <1>4
  <2> HIDE DEF m, t, first, N
  <2>4. BodyEffect(f[k], m)
    BY <2>1, <2>2, BodyHasEffect
  <2>5. AddressBook(Append(t, m), book) =
           {e \in AddressBook(t, book) : ~Evicts(m, e)} \cup
           (IF m.kind = "NewClient" THEN {<<m.addr, m.user>>} ELSE {})
    BY <2>1, AddressBookOneMore
  <2>6. \A type : Outgoing(Append(t, m), type) =
           IF m.kind = "ToClient" /\ m.payload.type = type THEN {m} ELSE Outgoing(t, type)
    BY <2>1, OutgoingOneMore
  <2>7. f[k + 1].book = AddressBook(first(k + 1), book)
    BY <2>1, <2>2, <2>3, <2>4, <2>5 DEF BodyEffect
  <2>8. \A type \in Slots : f[k + 1].outgoing[type] = Outgoing(first(k + 1), type)
    BY <2>1, <2>2, <2>3, <2>4, <2>6 DEF BodyEffect
  <2> QED BY <2>2, <2>7, <2>8
<1>5. first(N) = ms
  OBVIOUS
<1>6. N \in S
  <2> HIDE DEF S, N
  <2>1. \A k \in 0..N : k \in S
    BY <1>2, <1>3, <1>4, BoundedInduction
  <2> QED BY <1>2, <2>1
<1>7. f[N] \in ParseStates
  BY <1>2
<1>8. DOMAIN f[N].outgoing = Slots
  BY <1>7 DEF ParseStates
<1>9. f[N].book = AddressBook(ms, book) /\ \A type \in Slots : f[N].outgoing[type] = Outgoing(ms, type)
  <2> HIDE DEF first, N
  <2> QED BY <1>5, <1>6
<1> QED BY <1>1, <1>8, <1>9

\* In every reachable state, handling the server's queue as a batch has the
\* effect of handling it message by message as the code does
\* (parse_application_messages, server/low_latency.rs): the last ToClient of
\* a kind is the one left in its slot, and of the insertions and removals
\* the address book keeps those no later message undoes.
THEOREM ParseIsItsLoop == Spec => []ParseMatchesLoop
<1>1. TypeInv => ParseMatchesLoop
  <2> SUFFICES ASSUME TypeInv PROVE ParseMatchesLoop
    OBVIOUS
  <2>1. app_queue \in Seq(AppMessages) /\ address_user \in SUBSET (Clients \X User)
    <3>1. app_queue \in Seq(AppMessages)
      BY DEF TypeInv, TravelsTyped
    <3>2. address_user \subseteq Clients \X User
      BY DEF TypeInv, TypeOK, ServerTypeOK
    <3> QED BY <3>1, <3>2
  <2> DEFINE loop == ParseLoop(app_queue, address_user)
  <2>2. /\ loop.book = AddressBook(app_queue, address_user)
        /\ DOMAIN loop.outgoing = Slots
        /\ \A type \in Slots : loop.outgoing[type] = Outgoing(app_queue, type)
    BY <2>1, ParseIsBatch
  <2> HIDE DEF loop
  <2>3. \A type \in DOMAIN loop.outgoing : loop.outgoing[type] = Outgoing(app_queue, type)
    BY <2>2
  <2> QED BY <2>2, <2>3 DEF ParseMatchesLoop, loop
<1>2. QED BY <1>1, TypeInvInvariant, PTL
=============================================================================
