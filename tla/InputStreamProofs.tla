-------------------------- MODULE InputStreamProofs --------------------------
(***************************************************************************)
(* Proofs that the low latency protocol implements InputStream, and about  *)
(* the two ends of it: what a client's servicer holds and what the server  *)
(* acknowledges.                                                           *)
(***************************************************************************)
EXTENDS AddressBookProofs

-----------------------------------------------------------------------------
(***************************************************************************)
(* Ends and windows of sequences.                                          *)
(***************************************************************************)

\* Being the end of a sequence, element by element.
LEMMA EndIff ==
  ASSUME NEW S, NEW s \in Seq(S), NEW t \in Seq(S)
  PROVE  IsEndOf(s, t) <=>
           Len(s) <= Len(t) /\ \A i \in 1..Len(s) : s[i] = t[Len(t) - Len(s) + i]
<1> DEFINE k == Len(t) - Len(s)
           u == SubSeq(t, k + 1, Len(t))
<1>1. Len(s) \in Nat /\ Len(t) \in Nat
  OBVIOUS
<1>2. ASSUME Len(s) <= Len(t)
      PROVE  /\ u \in Seq(S) /\ Len(u) = Len(s)
             /\ \A i \in 1..Len(s) : u[i] = t[k + i]
  <2>1. k \in 0..Len(t)
    BY <1>1, <1>2
  <2> HIDE DEF k
  <2>2. u \in Seq(S) /\ Len(u) = Len(t) - k /\ \A i \in 1..(Len(t) - k) : u[i] = t[k + i]
    BY <2>1
  <2>3. Len(t) - k = Len(s)
    BY <1>1 DEF k
  <2>4. QED BY <2>2, <2>3
<1>3. ASSUME Len(s) <= Len(t), \A i \in 1..Len(s) : s[i] = t[k + i] PROVE s = u
  <2> HIDE DEF k, u
  <2>1. QED BY <1>1, <1>2, <1>3
<1>4. QED BY <1>1, <1>2, <1>3 DEF IsEndOf

\* The end of a sequence is a window of it.
LEMMA EndIsWindow ==
  ASSUME NEW S, NEW s \in Seq(S), NEW t \in Seq(S), IsEndOf(s, t)
  PROVE  Stream!IsWindow(s, t)
<1> DEFINE k == Len(t) - Len(s)
<1>1. Len(s) \in Nat /\ Len(t) \in Nat /\ Len(s) <= Len(t)
  BY DEF IsEndOf
<1>2. k \in 0..(Len(t) - Len(s)) /\ k + Len(s) = Len(t)
  BY <1>1
<1>3. s = SubSeq(t, k + 1, Len(t))
  BY DEF IsEndOf
<1>4. s = SubSeq(t, k + 1, k + Len(s))
  BY <1>2, <1>3
<1> HIDE DEF k
<1>5. QED BY <1>2, <1>4 DEF Stream!IsWindow

\* A window stays one when a snapshot is added.
LEMMA WindowGrows ==
  ASSUME NEW S, NEW s \in Seq(S), NEW t \in Seq(S), NEW x \in S, Stream!IsWindow(s, t)
  PROVE  Stream!IsWindow(s, Append(t, x))
<1> DEFINE u == Append(t, x)
<1>1. PICK k \in 0..(Len(t) - Len(s)) : s = SubSeq(t, k + 1, k + Len(s))
  BY DEF Stream!IsWindow
<1>2. Len(s) \in Nat /\ Len(t) \in Nat /\ k \in Nat /\ k + Len(s) <= Len(t)
  BY <1>1
<1>3. u \in Seq(S) /\ Len(u) = Len(t) + 1 /\ \A i \in 1..Len(t) : u[i] = t[i]
  OBVIOUS
<1>4. k \in 0..(Len(u) - Len(s))
  BY <1>2, <1>3
<1> HIDE DEF u
<1>5. SubSeq(u, k + 1, k + Len(s)) = SubSeq(t, k + 1, k + Len(s))
  BY <1>2, <1>3
<1>6. QED BY <1>1, <1>4, <1>5 DEF Stream!IsWindow, u

\* The end stays one when both get the same snapshot.
LEMMA EndAppend ==
  ASSUME NEW S, NEW s \in Seq(S), NEW q \in Seq(S), NEW t \in Seq(S), NEW x \in S,
         IsEndOf(s \o q, t)
  PROVE  IsEndOf(s \o Append(q, x), Append(t, x))
<1> DEFINE old == s \o q
           new == s \o Append(q, x)
           u == Append(t, x)
<1>1. old \in Seq(S) /\ Len(old) \in Nat /\ Len(t) \in Nat
  OBVIOUS
<1>2. new = Append(old, x)
  OBVIOUS
<1>3. Len(old) <= Len(t) /\ \A i \in 1..Len(old) : old[i] = t[Len(t) - Len(old) + i]
  BY <1>1, EndIff
<1> HIDE DEF old
<1>4. /\ new \in Seq(S) /\ Len(new) = Len(old) + 1 /\ new[Len(old) + 1] = x
      /\ \A i \in 1..Len(old) : new[i] = old[i]
  <2> HIDE DEF new
  <2>1. QED BY <1>1, <1>2
<1>5. /\ u \in Seq(S) /\ Len(u) = Len(t) + 1 /\ u[Len(t) + 1] = x
      /\ \A i \in 1..Len(t) : u[i] = t[i]
  OBVIOUS
<1> HIDE DEF new, u
<1>6. Len(new) <= Len(u)
  BY <1>1, <1>3, <1>4, <1>5
<1>7. ASSUME NEW i \in 1..Len(new) PROVE new[i] = u[Len(u) - Len(new) + i]
  <2>1. Len(u) - Len(new) = Len(t) - Len(old)
    BY <1>1, <1>4, <1>5
  <2>2. CASE i = Len(old) + 1
    BY <1>1, <1>4, <1>5, <2>1, <2>2
  <2>3. CASE i \in 1..Len(old)
    <3>1. Len(t) - Len(old) + i \in 1..Len(t)
      BY <1>1, <1>3, <2>3
    <3>2. QED BY <1>3, <1>4, <1>5, <2>1, <2>3, <3>1
  <2>4. QED BY <1>1, <1>4, <2>2, <2>3
<1>8. IsEndOf(new, u)
  BY <1>4, <1>5, <1>6, <1>7, EndIff
<1>9. QED BY <1>8 DEF new, u

\* What concatenation makes of its parts.
LEMMA ConcatFacts ==
  ASSUME NEW S, NEW s \in Seq(S), NEW q \in Seq(S)
  PROVE  /\ s \o q \in Seq(S) /\ Len(s \o q) = Len(s) + Len(q)
         /\ \A i \in 1..Len(s) : (s \o q)[i] = s[i]
         /\ \A i \in 1..Len(q) : (s \o q)[Len(s) + i] = q[i]
OBVIOUS

\* The end stays one when its front is removed.
LEMMA EndRemove ==
  ASSUME NEW S, NEW s \in Seq(S), NEW q \in Seq(S), NEW t \in Seq(S),
         NEW end \in 0..Len(s), IsEndOf(s \o q, t)
  PROVE  IsEndOf(SubSeq(s, end + 1, Len(s)) \o q, t)
<1> DEFINE rest == SubSeq(s, end + 1, Len(s))
           old == s \o q
           new == rest \o q
<1>1. Len(s) \in Nat /\ Len(q) \in Nat /\ Len(t) \in Nat /\ end \in Nat /\ end <= Len(s)
  OBVIOUS
<1>2. /\ rest \in Seq(S) /\ Len(rest) = Len(s) - end
      /\ \A i \in 1..Len(rest) : rest[i] = s[i + end]
  BY <1>1
<1> HIDE DEF rest
<1>3. /\ old \in Seq(S) /\ Len(old) = Len(s) + Len(q)
      /\ \A i \in 1..Len(s) : old[i] = s[i]
      /\ \A i \in 1..Len(q) : old[Len(s) + i] = q[i]
  BY ConcatFacts
<1>4. /\ new \in Seq(S) /\ Len(new) = Len(rest) + Len(q)
      /\ \A i \in 1..Len(rest) : new[i] = rest[i]
      /\ \A i \in 1..Len(q) : new[Len(rest) + i] = q[i]
  <2>1. rest \in Seq(S)
    BY <1>2
  <2>2. QED BY <2>1, ConcatFacts
<1>5. Len(old) <= Len(t) /\ \A i \in 1..Len(old) : old[i] = t[Len(t) - Len(old) + i]
  BY <1>3, EndIff
<1> HIDE DEF old, new
<1>6. \A i \in 1..Len(new) : new[i] = old[i + end]
  <2> SUFFICES ASSUME NEW i \in 1..Len(new) PROVE new[i] = old[i + end]
    OBVIOUS
  <2>1. CASE i \in 1..Len(rest)
    <3>1. i + end \in 1..Len(s)
      BY <1>1, <1>2, <2>1
    <3>2. QED BY <1>2, <1>3, <1>4, <2>1, <3>1
  <2>2. CASE i \notin 1..Len(rest)
    <3> DEFINE j == i - Len(rest)
    <3>1. j \in 1..Len(q) /\ i = Len(rest) + j /\ i + end = Len(s) + j
      BY <1>1, <1>2, <1>4, <2>2
    <3> HIDE DEF j
    <3>2. QED BY <1>3, <1>4, <3>1
  <2>3. QED BY <2>1, <2>2
<1>7. Len(new) <= Len(t) /\ Len(new) = Len(old) - end /\ Len(old) \in Nat
  BY <1>1, <1>2, <1>3, <1>4, <1>5
<1>8. ASSUME NEW i \in 1..Len(new) PROVE new[i] = t[Len(t) - Len(new) + i]
  <2>1. i + end \in 1..Len(old) /\ Len(t) - Len(old) + (i + end) = Len(t) - Len(new) + i
    BY <1>1, <1>7
  <2>2. QED BY <1>5, <1>6, <2>1
<1>9. IsEndOf(new, t)
  BY <1>4, <1>7, <1>8, EndIff
<1>10. QED BY <1>9 DEF new, rest

-----------------------------------------------------------------------------
(***************************************************************************)
(* What a servicer holds.                                                  *)
(***************************************************************************)

\* A step of client p alone keeps HeldAreLatest if it does for p.
LEMMA HeldOfOthers ==
  ASSUME HeldAreLatest, NEW p \in Clients, UNCHANGED client_app,
         \A q \in Clients \ {p} : /\ controller_seq'[q] = controller_seq[q]
                                  /\ control_queue'[q] = control_queue[q]
                                  /\ pushed'[q] = pushed[q],
         client_app[p] # "quit" => IsEndOf(controller_seq'[p].seq \o control_queue'[p], pushed'[p])
  PROVE  HeldAreLatest'
BY DEF HeldAreLatest

\* A step that leaves every sequence alone keeps HeldAreLatest.
LEMMA HeldQuiet ==
  ASSUME HeldAreLatest, UNCHANGED <<controller_seq, control_queue, pushed>>,
         \A q \in Clients : client_app'[q] # "quit" => client_app[q] # "quit"
  PROVE  HeldAreLatest'
BY DEF HeldAreLatest

\* Every step of a client's application keeps HeldAreLatest.
LEMMA HeldClientApp ==
  ASSUME TypeInv, HeldAreLatest, NEW p \in Clients, ClientApp(p) \/ ClientQuit(p)
  PROVE  HeldAreLatest'
<1>0. ClientTypeOK
  BY DEF TypeInv, TypeOK
<1>1. ASSUME NEW input \in Input, SendControllerInput(p, input) PROVE HeldAreLatest'
  <2>1. UNCHANGED <<controller_seq, client_app>>
    BY <1>1 DEF SendControllerInput
  <2>2. CASE client_pc[p] = "exited"
    BY <1>1, <2>1, <2>2, HeldQuiet DEF SendControllerInput
  <2>3. CASE client_pc[p] # "exited"
    <3>1. /\ control_queue' = [control_queue EXCEPT ![p] = Append(control_queue[p], input)]
          /\ pushed' = [pushed EXCEPT ![p] = Append(pushed[p], input)]
      BY <1>1, <2>3 DEF SendControllerInput
    <3>2. /\ control_queue \in [Clients -> Seq(Input)] /\ pushed \in [Clients -> Seq(Input)]
          /\ controller_seq[p].seq \in Seq(Input)
      BY <1>0, SequenceTypes
    <3>3. /\ control_queue'[p] = Append(control_queue[p], input)
          /\ pushed'[p] = Append(pushed[p], input)
          /\ \A q \in Clients \ {p} : control_queue'[q] = control_queue[q] /\ pushed'[q] = pushed[q]
      BY <3>1, <3>2
    <3>4. client_app[p] # "quit" => IsEndOf(controller_seq[p].seq \o control_queue[p], pushed[p])
      BY DEF HeldAreLatest
    <3>5. client_app[p] # "quit" =>
            IsEndOf(controller_seq[p].seq \o Append(control_queue[p], input), Append(pushed[p], input))
      <4>1. control_queue[p] \in Seq(Input) /\ pushed[p] \in Seq(Input)
        BY <3>2
      <4>2. QED BY <3>2, <3>4, <4>1, EndAppend
    <3>6. QED BY <2>1, <3>3, <3>5, HeldOfOthers
  <2>4. QED BY <2>2, <2>3
<1>2. CASE TakeWorldState(p)
  BY <1>2, HeldQuiet DEF TakeWorldState
<1>3. CASE ClientQuit(p)
  <2>1. UNCHANGED <<controller_seq, control_queue, pushed>>
    BY <1>3 DEF ClientQuit, QuitDropReceiver, QuitDropSender
  <2>2. /\ client_app[p] # "quit"
        /\ \E state : client_app' = [client_app EXCEPT ![p] = state]
    BY <1>3 DEF ClientQuit, QuitDropReceiver, QuitDropSender
  <2>3. \A q \in Clients : client_app'[q] # "quit" => client_app[q] # "quit"
    BY <1>0, <2>2 DEF ClientTypeOK
  <2>4. QED BY <2>1, <2>3, HeldQuiet
<1>4. QED BY <1>1, <1>2, <1>3 DEF ClientApp

\* Every step of a client's servicer keeps HeldAreLatest.
LEMMA HeldClientSpin ==
  ASSUME TypeInv, HeldAreLatest, NEW p \in Clients, ClientSpin(p)
  PROVE  HeldAreLatest'
<1> DEFINE held == controller_seq[p].seq
           queued == control_queue[p]
<1>0. ClientTypeOK /\ TravelsTyped
  BY DEF TypeInv, TypeOK
<1>1. /\ controller_seq \in [Clients -> Sequences] /\ control_queue \in [Clients -> BoundedSeqs]
      /\ held \in Seq(Input) /\ queued \in Seq(Input) /\ pushed[p] \in Seq(Input)
  BY <1>0, SequenceTypes DEF ClientTypeOK
<1>2. client_app[p] # "quit" => IsEndOf(held \o queued, pushed[p])
  BY DEF HeldAreLatest
<1>3. UNCHANGED <<client_app, pushed>>
  BY DEF ClientSpin, ReceiveHalf, ReceiveTimeout, ReceiveRefused, ReceiveWorldState,
    ReceiveTruncated, ReceiveLastTick, SendHalf, SendDisconnected, SendNothing, SendTooLarge,
    SendRefused, SendDatagram, DrainAndSend, clientVars, appVars
<1>4. ASSUME NEW tick, ReceiveLastTick(p, tick) PROVE HeldAreLatest'
  <2> DEFINE r == RemoveTillTick(controller_seq[p], tick)
  <2>1. tick \in Nat
    BY <1>0, <1>4, DeliverableTyped DEF ReceiveLastTick
  <2>2. PICK end \in 0..Len(held) : r.seq = SubSeq(held, end + 1, Len(held))
    BY <1>1, <2>1, RemoveTillTickFacts
  <2>3. controller_seq' = [controller_seq EXCEPT ![p] = r] /\ UNCHANGED control_queue
    BY <1>4 DEF ReceiveLastTick
  <2> HIDE DEF r, held, queued
  <2>4. client_app[p] # "quit" => IsEndOf(r.seq \o queued, pushed[p])
    BY <1>1, <1>2, <2>2, EndRemove
  <2>5. /\ controller_seq'[p] = r
        /\ \A q \in Clients \ {p} : controller_seq'[q] = controller_seq[q]
    BY <1>1, <2>3
  <2>6. client_app[p] # "quit" => IsEndOf(controller_seq'[p].seq \o control_queue'[p], pushed'[p])
    BY <1>3, <2>3, <2>4, <2>5 DEF queued
  <2>7. QED BY <1>3, <2>3, <2>5, <2>6, HeldOfOthers
<1>5. ASSUME NEW next, DrainAndSend(p, next) PROVE HeldAreLatest'
  <2> DEFINE sent == Drained(p)
  <2>1. sent.seq = held \o queued
    BY DrainedFacts
  <2>2. /\ controller_seq' = [controller_seq EXCEPT ![p] = sent]
        /\ control_queue' = [control_queue EXCEPT ![p] = << >>]
    BY <1>5 DEF DrainAndSend
  <2>3. (held \o queued) \o << >> = held \o queued
    <3> HIDE DEF held, queued
    <3>1. held \o queued \in Seq(Input)
      BY <1>1
    <3>2. QED BY <3>1
  <2> HIDE DEF sent, held, queued
  <2>4. /\ controller_seq'[p] = sent /\ control_queue'[p] = << >>
        /\ \A q \in Clients \ {p} : /\ controller_seq'[q] = controller_seq[q]
                                    /\ control_queue'[q] = control_queue[q]
    BY <1>1, <2>2
  <2>5. client_app[p] # "quit" => IsEndOf(controller_seq'[p].seq \o control_queue'[p], pushed'[p])
    BY <1>2, <1>3, <2>1, <2>3, <2>4
  <2>6. QED BY <1>3, <2>4, <2>5, HeldOfOthers
<1>6. CASE SendDisconnected(p)
  <2>1. /\ client_app[p] = "quit" /\ UNCHANGED controller_seq
        /\ control_queue' = [control_queue EXCEPT ![p] = << >>]
    BY <1>6 DEF SendDisconnected
  <2>2. \A q \in Clients \ {p} : control_queue'[q] = control_queue[q]
    BY <1>1, <2>1
  <2>3. QED BY <1>3, <2>1, <2>2, HeldOfOthers
<1>7. CASE UNCHANGED <<controller_seq, control_queue>>
  BY <1>3, <1>7, HeldQuiet
<1>8. QED
  BY <1>4, <1>5, <1>6, <1>7 DEF ClientSpin, ReceiveHalf, ReceiveTimeout, ReceiveRefused,
    ReceiveWorldState, ReceiveTruncated, SendHalf, SendNothing, SendTooLarge, SendRefused,
    SendDatagram, clientVars

\* Every step of the system keeps HeldAreLatest.
LEMMA HeldStep == TypeInv /\ HeldAreLatest /\ [Next]_vars => HeldAreLatest'
<1> SUFFICES ASSUME TypeInv, HeldAreLatest, [Next]_vars PROVE HeldAreLatest'
  OBVIOUS
<1>1. ASSUME NEW p \in Clients, ClientStep(p) PROVE HeldAreLatest'
  BY <1>1, HeldClientApp, HeldClientSpin DEF ClientStep
<1>2. ASSUME NEW p \in Clients, IcmpRefused(p) PROVE HeldAreLatest'
  BY <1>2, HeldQuiet DEF IcmpRefused, appVars
<1>3. CASE ServerStep
  BY <1>3, HeldQuiet DEF ServerStep, clientVars, appVars
<1>4. CASE UNCHANGED vars
  BY <1>4, HeldQuiet DEF vars, clientVars, appVars
<1>5. QED BY <1>1, <1>2, <1>3, <1>4 DEF Next

(***************************************************************************)
(* However acknowledgements, drains and inputs interleave, a servicer      *)
(* holds the latest snapshots of its application: none is lost from the    *)
(* middle and none is sent out of order.                                   *)
(***************************************************************************)
THEOREM ServicerHoldsTheLatest == Spec => []HeldAreLatest
<1>1. Init => HeldAreLatest
  <2> SUFFICES ASSUME Init, NEW p \in Clients
               PROVE  IsEndOf(controller_seq[p].seq \o control_queue[p], pushed[p])
    BY DEF HeldAreLatest
  <2>1. controller_seq[p].seq = << >> /\ control_queue[p] = << >> /\ pushed[p] = << >>
    BY DEF Init, ClientInit, NewSequence
  <2>2. IsEndOf(<< >>, << >>)
    <3> DEFINE empty == << >>
    <3>1. empty \in Seq(Input) /\ Len(empty) = 0
      OBVIOUS
    <3> HIDE DEF empty
    <3>2. /\ Len(empty) <= Len(empty)
          /\ \A i \in 1..Len(empty) : empty[i] = empty[Len(empty) - Len(empty) + i]
      BY <3>1
    <3>3. IsEndOf(empty, empty)
      BY <3>1, <3>2, EndIff
    <3>4. QED BY <3>3 DEF empty
  <2>3. << >> \o << >> = << >>
    OBVIOUS
  <2>4. QED BY <2>1, <2>2, <2>3
<1>2. QED BY <1>1, HeldStep, TypeInvInvariant, PTL DEF Spec

-----------------------------------------------------------------------------
(***************************************************************************)
(* What a client has reported, and to whom it is credited.                 *)
(***************************************************************************)

\* Every report of a client is a run of consecutive inputs of that client.
ReportsAreWindows ==
  \A p \in Clients : \A a \in Reports(p) : Stream!IsWindow(a.seq, pushed[p])

\* A step sends nothing, or is a SendDatagram of one client.
LEMMA UplinkSteps ==
  ASSUME [Next]_vars
  PROVE  UNCHANGED uplink \/ \E p \in Clients : SendDatagram(p)
<1>1. ASSUME NEW p \in Clients, ClientStep(p) PROVE UNCHANGED uplink \/ SendDatagram(p)
  BY <1>1 DEF ClientStep, ClientSpin, ReceiveHalf, ReceiveTimeout, ReceiveRefused,
    ReceiveWorldState, ReceiveTruncated, ReceiveLastTick, SendHalf, SendDisconnected,
    SendNothing, SendTooLarge, SendRefused, ClientApp, ClientQuit, SendControllerInput,
    TakeWorldState, QuitDropReceiver, QuitDropSender, networkVars
<1>2. ASSUME NEW p \in Clients, IcmpRefused(p) PROVE UNCHANGED uplink
  BY <1>2 DEF IcmpRefused, networkVars
<1>3. CASE ServerStep
  <2>1. CASE ServerSpin
    BY <2>1 DEF ServerSpin, ForwardFromServerToClient, ForwardAppMessages, AppDisconnected,
      ReceiveNothing, RejectControllerInput, HandleControllerInput, AcceptNewer,
      AcknowledgeOlder, SendToClients, networkVars
  <2>2. CASE ServerApp \/ ServerQuit
    BY <2>2 DEF ServerApp, ServerQuit, SendNewClient, SendClientDisconnect, SendWorldState,
      SendLastTick, SendLowLatency, ServerQuitDropSender, ServerQuitDropReceiver, networkVars
  <2>3. QED BY <1>3, <2>1, <2>2 DEF ServerStep
<1>4. CASE UNCHANGED vars
  BY <1>4 DEF vars, networkVars
<1>5. QED BY <1>1, <1>2, <1>3, <1>4 DEF Next

\* A step takes no snapshot, or is a SendControllerInput of one client.
LEMMA PushedSteps ==
  ASSUME [Next]_vars
  PROVE  \/ UNCHANGED pushed
         \/ /\ UNCHANGED <<uplink, serverVars>>
            /\ \E p \in Clients, input \in Input :
                  pushed' = [pushed EXCEPT ![p] = Append(pushed[p], input)]
<1>1. ASSUME NEW p \in Clients, ClientApp(p), UNCHANGED serverVars
      PROVE  \/ UNCHANGED pushed
             \/ /\ UNCHANGED <<uplink, serverVars>>
                /\ \E input \in Input : pushed' = [pushed EXCEPT ![p] = Append(pushed[p], input)]
  BY <1>1 DEF ClientApp, SendControllerInput, TakeWorldState, networkVars
<1>2. ASSUME NEW p \in Clients, ClientSpin(p) \/ ClientQuit(p) PROVE UNCHANGED pushed
  BY <1>2 DEF ClientSpin, ReceiveHalf, ReceiveTimeout, ReceiveRefused, ReceiveWorldState,
    ReceiveTruncated, ReceiveLastTick, SendHalf, SendDisconnected, SendNothing, SendTooLarge,
    SendRefused, SendDatagram, DrainAndSend, ClientQuit, QuitDropReceiver, QuitDropSender,
    clientVars, appVars
<1>3. ASSUME NEW p \in Clients, IcmpRefused(p) PROVE UNCHANGED pushed
  BY <1>3 DEF IcmpRefused, appVars
<1>4. CASE ServerStep \/ UNCHANGED vars
  BY <1>4 DEF ServerStep, vars, clientVars, appVars
<1>5. QED BY <1>1, <1>2, <1>3, <1>4 DEF Next, ClientStep

\* Every step of the system keeps ReportsAreWindows.
LEMMA WindowsStep ==
  TypeInv /\ HeldAreLatest /\ ReportsAreWindows /\ [Next]_vars => ReportsAreWindows'
<1> SUFFICES ASSUME TypeInv, HeldAreLatest, ReportsAreWindows, [Next]_vars
             PROVE  ReportsAreWindows'
  OBVIOUS
<1>0. ClientTypeOK
  BY DEF TypeInv, TypeOK
<1>1. pushed \in [Clients -> Seq(Input)]
  BY <1>0, SequenceTypes
<1>2. CASE UNCHANGED <<uplink, pushed>>
  BY <1>2 DEF ReportsAreWindows, Reports
<1>3. ASSUME NEW p \in Clients, SendDatagram(p) PROVE ReportsAreWindows'
  <2>1. UNCHANGED pushed /\ client_app[p] # "quit"
    BY <1>3 DEF SendDatagram, DrainAndSend, appVars
  <2>2. IsEndOf(Drained(p).seq, pushed[p]) /\ Drained(p) \in Sequences
    BY <2>1, DrainedFacts DEF HeldAreLatest
  <2>3. Drained(p).seq \in Seq(Input) /\ pushed[p] \in Seq(Input)
    BY <1>1, <2>2, BoundedSeqsIff DEF Sequences
  <2>4. Stream!IsWindow(Drained(p).seq, pushed[p])
    BY <2>2, <2>3, EndIsWindow
  <2>5. /\ Reports(p)' = Reports(p) \cup {Drained(p)}
        /\ \A q \in Clients \ {p} : Reports(q)' = Reports(q)
    BY <1>3, ReportsAfterSend
  <2>6. QED BY <2>1, <2>4, <2>5 DEF ReportsAreWindows
<1>4. ASSUME NEW p \in Clients, NEW input \in Input, UNCHANGED uplink,
             pushed' = [pushed EXCEPT ![p] = Append(pushed[p], input)]
      PROVE  ReportsAreWindows'
  <2> SUFFICES ASSUME NEW q \in Clients, NEW a \in Reports(q)
               PROVE  Stream!IsWindow(a.seq, pushed'[q])
    BY <1>4 DEF ReportsAreWindows, Reports
  <2>1. Stream!IsWindow(a.seq, pushed[q])
    BY DEF ReportsAreWindows
  <2>2. CASE q # p
    BY <1>1, <1>4, <2>1, <2>2
  <2>3. CASE q = p
    <3>1. pushed'[q] = Append(pushed[q], input) /\ pushed[q] \in Seq(Input)
      BY <1>1, <1>4, <2>3
    <3>2. a.seq \in Seq(Input)
      BY ReportsTyped, BoundedSeqsIff DEF Sequences
    <3>3. QED BY <2>1, <3>1, <3>2, WindowGrows
  <2>4. QED BY <2>2, <2>3
<1>5. QED BY <1>2, <1>3, <1>4, UplinkSteps, PushedSteps

-----------------------------------------------------------------------------
(***************************************************************************)
(* The refinement: taking a snapshot is TakeSnapshot, accepting a sequence *)
(* that ends later than all before is Deliver, every other step stutters.  *)
(***************************************************************************)

\* A packet the server accepts is delivered as the abstract stream allows.
LEMMA AcceptIsDeliver ==
  ASSUME TypeInv, ReportsAreWindows, BookIsCredited, DeliveredInv, UNCHANGED pushed,
         NEW d \in uplink, HandleControllerInput(d)
  PROVE  UNCHANGED to_application \/ Stream!Deliver(d.src)
<1>1. PICK user \in UsersAt(d.src), cs \in ToControllerSequence(d.packet) :
         AcceptNewer(user, cs) \/ AcknowledgeOlder(user, cs)
  BY DEF HandleControllerInput
<1>2. CASE to_application' = to_application
  BY <1>2
<1>3. CASE to_application' # to_application
  <2> DEFINE m == [from |-> user, payload |-> cs]
             n == Len(to_application)
  <2>1. /\ LastTick(cs) > last_tick_received
        /\ to_application' = Append(to_application, m)
    BY <1>1, <1>3 DEF AcceptNewer, AcknowledgeOlder
  <2>2. /\ to_application \in Seq([from : User, payload : Sequences])
        /\ last_tick_received \in Nat /\ cs \in Sequences /\ d.src \in Clients
    BY DEF TypeInv, TypeOK, ServerTypeOK, TravelsTyped
  <2>3. m.from = user /\ m.payload = cs
    OBVIOUS
  <2> HIDE DEF m
  <2>4. /\ DOMAIN to_application = 1..n /\ n \in Nat
        /\ Len(to_application') = n + 1 /\ to_application'[n + 1] = m
    BY <2>1, <2>2
  <2>5. user = UserOf[d.src]
    BY DEF UsersAt, BookIsCredited
  <2>6. Stream!IsWindow(cs.seq, pushed[d.src])
    BY <2>2 DEF ReportsAreWindows, Reports
  <2>7. \A i \in DOMAIN to_application :
           Stream!EndTick(to_application[i].payload) < Stream!EndTick(cs)
    <3> SUFFICES ASSUME NEW i \in DOMAIN to_application
                 PROVE  LastTick(to_application[i].payload) < LastTick(cs)
      BY DEF Stream!EndTick, LastTick
    <3>1. to_application[i] \in [from : User, payload : Sequences]
      BY <2>2, ElementOf
    <3>2. LastTick(to_application[i].payload) \in Nat /\ LastTick(cs) \in Nat
      BY <2>2, <3>1, LastTickNat
    <3>3. LastTick(to_application[i].payload) <= last_tick_received
      BY DEF DeliveredInv
    <3>4. QED BY <2>1, <2>2, <3>2, <3>3
  <2>8. Stream!Deliver(d.src)
    BY <2>1, <2>3, <2>4, <2>5, <2>6, <2>7 DEF Stream!Deliver
  <2>9. QED BY <2>8
<1>4. QED BY <1>2, <1>3

\* Every step of the system is a step of the stream or none.
LEMMA StreamStep ==
  TypeInv /\ ReportsAreWindows /\ BookIsCredited /\ DeliveredInv /\ [Next]_vars
    => [Stream!Next]_<<pushed, to_application>>
<1> SUFFICES ASSUME TypeInv, ReportsAreWindows, BookIsCredited, DeliveredInv, [Next]_vars
             PROVE  [Stream!Next]_<<pushed, to_application>>
  OBVIOUS
<1>1. ASSUME NEW p \in Clients, NEW input \in Input, UNCHANGED serverVars,
             pushed' = [pushed EXCEPT ![p] = Append(pushed[p], input)]
      PROVE  Stream!Next
  <2>1. Stream!TakeSnapshot(p, input)
    BY <1>1 DEF Stream!TakeSnapshot, serverVars
  <2>2. QED BY <2>1 DEF Stream!Next
<1>2. CASE Answers /\ UNCHANGED <<clientVars, uplink>>
  <2>1. PICK d \in uplink : HandleControllerInput(d)
    BY <1>2 DEF Answers
  <2>2. UNCHANGED pushed
    BY <1>2 DEF clientVars, appVars
  <2>3. d.src \in Clients
    BY DEF TypeInv, TravelsTyped
  <2>4. UNCHANGED to_application \/ Stream!Deliver(d.src)
    BY <2>1, <2>2, AcceptIsDeliver
  <2>5. QED BY <2>2, <2>3, <2>4 DEF Stream!Next
<1>3. CASE UNCHANGED to_application
  BY <1>1, <1>3, PushedSteps
<1>4. QED BY <1>2, <1>3, ServerSteps DEF Enqueues, Serves, Rests

(***************************************************************************)
(* The protocol implements InputStream: what the server's application gets *)
(* from a user is, each time, a run of consecutive inputs of a client of   *)
(* that user, which ends later than all before it, although packets are    *)
(* lost, repeated and reordered and clients renumber what they hold.       *)
(***************************************************************************)
THEOREM ProtocolImplementsStream == Spec => ImplementsInputStream
<1>1. Init => Stream!Init
  BY DEF Init, ClientInit, ServerInit, Stream!Init
<1>2. Init => ReportsAreWindows /\ DeliveredInv
  BY DEF Init, ServerInit, NetworkInit, ReportsAreWindows, Reports, DeliveredInv,
    DeliveredTicksIncrease
<1>3. QED
  BY <1>1, <1>2, StreamStep, WindowsStep, DeliveredInvStep, ServicerHoldsTheLatest,
    CreditedInvariant, TypeInvInvariant, PTL DEF Spec, ImplementsInputStream, Stream!Spec
=============================================================================
