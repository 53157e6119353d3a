-------------------------- MODULE LowLatencyProofs --------------------------
(***************************************************************************)
(* Proofs about LowLatency, for every set of clients, users, snapshots and *)
(* ticks, every bound and every codec that satisfies CodecAssumption.      *)
(***************************************************************************)
EXTENDS LowLatency, TLAPS

-----------------------------------------------------------------------------
(***************************************************************************)
(* What TypeOK needs to be inductive: the types of what travels, and that  *)
(* the snapshots held and queued were taken by the application.            *)
(***************************************************************************)
ServerMessages ==
  [type : {"WorldState"}, world : 1..MaxWorlds] \cup
  [type : {"LastTickReceived"}, tick : Nat]

AppMessages ==
  [kind : {"ToClient"}, to : User, payload : ServerMessages] \cup
  [kind : {"NewClient"}, addr : Clients, user : User] \cup
  [kind : {"ClientDisconnect"}, user : User]

TravelsTyped ==
  /\ \A d \in uplink :
        /\ d.src \in Clients
        /\ \E cs \in Sequences : ToControllerSequence(d.packet) = {cs}
  /\ downlink \subseteq [dst : Clients, body : ServerMessages]
  /\ app_queue \in Seq(AppMessages)

HeldWerePushed ==
  \A p \in Clients : Len(controller_seq[p].seq) + Len(control_queue[p]) <= Len(pushed[p])

TypeInv == TypeOK /\ TravelsTyped /\ HeldWerePushed

-----------------------------------------------------------------------------
\* The bounded sequences are the sequences of at most MaxInputs snapshots.
LEMMA BoundedSeqsIff ==
  \A s : s \in BoundedSeqs <=> s \in Seq(Input) /\ Len(s) <= MaxInputs
<1>1. ASSUME NEW s \in BoundedSeqs PROVE s \in Seq(Input) /\ Len(s) <= MaxInputs
  <2>1. PICK n \in 0..MaxInputs : s \in [1..n -> Input]
    BY <1>1 DEF BoundedSeqs
  <2>2. n \in Nat BY BoundsAssumption
  <2>3. QED BY <2>1, <2>2, BoundsAssumption
<1>2. ASSUME NEW s, s \in Seq(Input), Len(s) <= MaxInputs PROVE s \in BoundedSeqs
  <2>1. s \in [1..Len(s) -> Input] /\ Len(s) \in 0..MaxInputs
    BY <1>2, BoundsAssumption
  <2>2. QED BY <2>1 DEF BoundedSeqs
<1>3. QED BY <1>1, <1>2

\* What remove_till_tick leaves is the end of what there was, numbered past
\* every tick it had.
LEMMA RemoveTillTickFacts ==
  ASSUME NEW cs \in Sequences, NEW tick \in Nat
  PROVE  /\ RemoveTillTick(cs, tick) \in Sequences
         /\ RemoveTillTick(cs, tick).start_tick = LastTick(cs) + 1
         /\ \E end \in 0..Len(cs.seq) :
               RemoveTillTick(cs, tick).seq = SubSeq(cs.seq, end + 1, Len(cs.seq))
<1> DEFINE tick_count == LastTick(cs) - tick
           end == IF LastTick(cs) <= tick THEN 0
                  ELSE IF tick_count <= Len(cs.seq) THEN tick_count
                  ELSE Len(cs.seq)
           r == RemoveTillTick(cs, tick)
<1>1. /\ cs.start_tick \in Nat /\ cs.seq \in Seq(Input) /\ Len(cs.seq) <= MaxInputs
      /\ Len(cs.seq) \in Nat
  BY BoundedSeqsIff DEF Sequences
<1>2. LastTick(cs) \in Nat
  BY <1>1 DEF LastTick
<1>3. end \in 0..Len(cs.seq)
  BY <1>1, <1>2
<1>4. r = [start_tick |-> LastTick(cs) + 1, seq |-> SubSeq(cs.seq, end + 1, Len(cs.seq))]
  BY DEF RemoveTillTick
<1> HIDE DEF end, r
<1>5. /\ SubSeq(cs.seq, end + 1, Len(cs.seq)) \in Seq(Input)
      /\ Len(SubSeq(cs.seq, end + 1, Len(cs.seq))) = Len(cs.seq) - end
  BY <1>1, <1>3
<1>6. r.seq \in BoundedSeqs
  <2> DEFINE rest == SubSeq(cs.seq, end + 1, Len(cs.seq))
  <2>1. rest \in Seq(Input) /\ Len(rest) <= MaxInputs
    BY <1>1, <1>3, <1>5, BoundsAssumption
  <2>2. r.seq = rest BY <1>4
  <2> HIDE DEF rest
  <2>3. QED BY <2>1, <2>2, BoundedSeqsIff
<1>7. r \in Sequences
  BY <1>2, <1>4, <1>6 DEF Sequences
<1>8. QED BY <1>3, <1>4, <1>7 DEF r

\* The empty sequence is a bounded one.
LEMMA EmptyIsBounded == << >> \in BoundedSeqs /\ Len(<< >>) = 0
<1> DEFINE empty == << >>
<1>1. empty \in Seq(Input) /\ Len(empty) = 0 /\ Len(empty) <= MaxInputs
  BY BoundsAssumption
<1> HIDE DEF empty
<1>2. empty \in BoundedSeqs
  BY <1>1, BoundedSeqsIff
<1>3. QED BY <1>1, <1>2 DEF empty

\* last_tick of a typed sequence is a natural number.
LEMMA LastTickNat ==
  ASSUME NEW cs \in Sequences
  PROVE  LastTick(cs) \in Nat
<1>1. cs.start_tick \in Nat /\ cs.seq \in Seq(Input)
  BY BoundedSeqsIff DEF Sequences
<1>2. QED BY <1>1 DEF LastTick

\* What Append adds and what it leaves in place.
LEMMA AppendFacts ==
  ASSUME NEW S, NEW s \in Seq(S), NEW x
  PROVE  /\ DOMAIN Append(s, x) = 1..(Len(s) + 1) /\ DOMAIN s = 1..Len(s)
         /\ \A i \in 1..Len(s) : Append(s, x)[i] = s[i]
         /\ Append(s, x)[Len(s) + 1] = x
         /\ Len(s) \in Nat
OBVIOUS

\* An element of a sequence has the type of its elements.
LEMMA ElementOf ==
  ASSUME NEW S, NEW s \in Seq(S), NEW i \in DOMAIN s
  PROVE  s[i] \in S
OBVIOUS

\* So has the last one, the one take_world_state gives away.
LEMMA LastElement ==
  ASSUME NEW S, NEW s \in Seq(S), s # << >>
  PROVE  s[Len(s)] \in S
OBVIOUS

\* The same types without the bound on the lengths.
LEMMA SequenceTypes ==
  ASSUME ClientTypeOK
  PROVE  /\ control_queue \in [Clients -> Seq(Input)]
         /\ pushed \in [Clients -> Seq(Input)]
         /\ controller_seq \in [Clients -> [start_tick : Nat, seq : Seq(Input)]]
BY BoundedSeqsIff DEF ClientTypeOK, Sequences

-----------------------------------------------------------------------------
\* Every queue is empty, every tick is 0: the initial states are typed.
LEMMA TypeInvInit == Init => TypeInv
<1> SUFFICES ASSUME Init PROVE TypeInv
  OBVIOUS
<1>1. << >> \in BoundedSeqs
  BY EmptyIsBounded
<1>2. NewSequence \in Sequences
  BY <1>1 DEF NewSequence, Sequences
<1>3. TypeOK
  BY <1>1, <1>2, BoundsAssumption
  DEF Init, ClientInit, ServerInit, TypeOK, ClientTypeOK, ServerTypeOK
<1>4. TravelsTyped
  BY BoundsAssumption DEF Init, ServerInit, NetworkInit, TravelsTyped
<1>5. HeldWerePushed
  BY DEF Init, ClientInit, NewSequence, HeldWerePushed
<1>6. QED BY <1>3, <1>4, <1>5 DEF TypeInv

\* The client's application changes neither the server nor the network.
LEMMA TypeInvClientApp ==
  ASSUME TypeInv, NEW p \in Clients, ClientApp(p) \/ ClientQuit(p), UNCHANGED serverVars
  PROVE  TypeInv'
<1>0. ClientTypeOK /\ ServerTypeOK /\ TravelsTyped /\ HeldWerePushed
  BY DEF TypeInv, TypeOK
<1>1. ServerTypeOK'
  BY <1>0 DEF ServerTypeOK, serverVars
<1>2. UNCHANGED networkVars
  BY DEF ClientApp, ClientQuit, SendControllerInput, TakeWorldState, QuitDropReceiver, QuitDropSender
<1>3. TravelsTyped'
  BY <1>0, <1>2 DEF TravelsTyped, serverVars, networkVars
<1>4. CASE \E input \in Input : SendControllerInput(p, input)
  <2>1. PICK input \in Input : SendControllerInput(p, input)
    BY <1>4
  <2>2. CASE client_pc[p] = "exited"
    <3>1. ClientTypeOK'
      BY <1>0, <2>1, <2>2 DEF SendControllerInput, ClientTypeOK, socketVars
    <3>2. HeldWerePushed'
      BY <1>0, <2>1, <2>2 DEF SendControllerInput, HeldWerePushed
    <3>3. QED BY <1>1, <1>3, <3>1, <3>2 DEF TypeInv, TypeOK
  <2>3. CASE client_pc[p] # "exited"
    <3>1. /\ Len(controller_seq[p].seq) + Len(control_queue[p]) <= Len(pushed[p])
          /\ Len(pushed[p]) < MaxInputs
      BY <1>0, <2>1 DEF HeldWerePushed, SendControllerInput
    <3>2. Len(control_queue[p]) < MaxInputs
      BY <3>1, <1>0, SequenceTypes, BoundsAssumption
    <3>3. /\ Append(control_queue[p], input) \in Seq(Input)
          /\ Append(pushed[p], input) \in Seq(Input)
          /\ Len(Append(control_queue[p], input)) = Len(control_queue[p]) + 1
          /\ Len(Append(pushed[p], input)) = Len(pushed[p]) + 1
          /\ Len(Append(control_queue[p], input)) <= MaxInputs
          /\ Len(Append(pushed[p], input)) <= MaxInputs
      BY <3>1, <3>2, <1>0, SequenceTypes, BoundsAssumption
    <3>4. /\ Append(control_queue[p], input) \in BoundedSeqs
          /\ Append(pushed[p], input) \in BoundedSeqs
      BY <3>3, BoundedSeqsIff
    <3>5. ClientTypeOK'
      BY <1>0, <2>1, <2>3, <3>4 DEF SendControllerInput, ClientTypeOK, socketVars
    <3>6. HeldWerePushed'
      <4> SUFFICES ASSUME NEW q \in Clients
                   PROVE  Len(controller_seq'[q].seq) + Len(control_queue'[q]) <= Len(pushed'[q])
        BY DEF HeldWerePushed
      <4>1. CASE q = p
        <5>1. /\ controller_seq' = controller_seq
              /\ control_queue'[p] = Append(control_queue[p], input)
              /\ pushed'[p] = Append(pushed[p], input)
          BY <1>0, <2>1, <2>3, SequenceTypes DEF SendControllerInput
        <5> DEFINE a == Len(controller_seq[p].seq)
                   b == Len(control_queue[p])
                   c == Len(pushed[p])
        <5>2. a \in Nat /\ b \in Nat /\ c \in Nat
          BY <1>0, SequenceTypes
        <5>3. a + b <= c
          BY <3>1
        <5>4. /\ Len(controller_seq'[q].seq) = a
              /\ Len(control_queue'[q]) = b + 1
              /\ Len(pushed'[q]) = c + 1
          BY <4>1, <5>1, <3>3
        <5> HIDE DEF a, b, c
        <5>5. QED BY <5>2, <5>3, <5>4
      <4>2. CASE q # p
        BY <4>2, <1>0, <2>1, <2>3, SequenceTypes DEF SendControllerInput, HeldWerePushed
      <4>3. QED BY <4>1, <4>2
    <3>7. QED BY <1>1, <1>3, <3>5, <3>6 DEF TypeInv, TypeOK
  <2>4. QED BY <2>2, <2>3
<1>5. CASE TakeWorldState(p)
  <2>1. << >> \in Seq(1..MaxWorlds)
    OBVIOUS
  <2>2. world_queue[p] # << >> => world_queue[p][Len(world_queue[p])] \in 1..MaxWorlds
    <3>1. world_queue[p] \in Seq(1..MaxWorlds)
      BY <1>0 DEF ClientTypeOK
    <3>2. QED BY <3>1, LastElement
  <2>3. ClientTypeOK'
    <3>1. CASE client_pc[p] = "exited"
      BY <1>0, <1>5, <2>1, <3>1 DEF TakeWorldState, ClientTypeOK, socketVars
    <3>2. CASE client_pc[p] # "exited"
      <4> DEFINE last == {world_queue[p][Len(world_queue[p])]}
      <4>1. /\ taken' = [taken EXCEPT ![p] = last]
            /\ last \in SUBSET (1..MaxWorlds)
        BY <1>5, <2>2, <3>2 DEF TakeWorldState
      <4> HIDE DEF last
      <4>2. taken' \in [Clients -> SUBSET (1..MaxWorlds)]
        BY <1>0, <4>1 DEF ClientTypeOK
      <4>3. QED
        BY <1>0, <1>5, <2>1, <3>2, <4>2 DEF TakeWorldState, ClientTypeOK, socketVars
    <3>3. QED BY <3>1, <3>2
  <2>4. HeldWerePushed'
    BY <1>0, <1>5 DEF TakeWorldState, HeldWerePushed
  <2>5. QED BY <1>1, <1>3, <2>3, <2>4 DEF TypeInv, TypeOK
<1>6. CASE QuitDropReceiver(p)
  <2>1. << >> \in Seq(1..MaxWorlds)
    OBVIOUS
  <2>2. ClientTypeOK'
    BY <1>0, <1>6, <2>1 DEF QuitDropReceiver, ClientTypeOK, socketVars
  <2>3. HeldWerePushed'
    BY <1>0, <1>6 DEF QuitDropReceiver, HeldWerePushed
  <2>4. QED BY <1>1, <1>3, <2>2, <2>3 DEF TypeInv, TypeOK
<1>7. CASE QuitDropSender(p)
  <2>1. ClientTypeOK' /\ HeldWerePushed'
    BY <1>0, <1>7 DEF QuitDropSender, ClientTypeOK, HeldWerePushed, socketVars
  <2>2. QED BY <1>1, <1>3, <2>1 DEF TypeInv, TypeOK
<1>8. QED BY <1>4, <1>5, <1>6, <1>7 DEF ClientApp, ClientQuit

-----------------------------------------------------------------------------
\* What a client receives has the type of what the server sends.
LEMMA DeliverableTyped ==
  ASSUME TravelsTyped, NEW p \in Clients
  PROVE  /\ \A w : [type |-> "WorldState", world |-> w] \in Deliverable(p) => w \in 1..MaxWorlds
         /\ \A t : [type |-> "LastTickReceived", tick |-> t] \in Deliverable(p) => t \in Nat
<1>1. \A body \in Deliverable(p) : body \in ServerMessages
  BY DEF TravelsTyped, Deliverable
<1>2. \A w : [type |-> "WorldState", world |-> w] \in ServerMessages => w \in 1..MaxWorlds
  BY DEF ServerMessages
<1>3. \A t : [type |-> "LastTickReceived", tick |-> t] \in ServerMessages => t \in Nat
  BY DEF ServerMessages
<1>4. QED BY <1>1, <1>2, <1>3

\* The sequence sent is what was held followed by what was queued.
LEMMA DrainedFacts ==
  ASSUME TypeInv, NEW p \in Clients
  PROVE  /\ Drained(p) \in Sequences
         /\ Drained(p).start_tick = controller_seq[p].start_tick
         /\ Drained(p).seq = controller_seq[p].seq \o control_queue[p]
         /\ Len(Drained(p).seq) = Len(controller_seq[p].seq) + Len(control_queue[p])
<1> DEFINE held == controller_seq[p].seq
           queued == control_queue[p]
           all == held \o queued
<1>1. /\ controller_seq[p] \in [start_tick : Nat, seq : Seq(Input)]
      /\ held \in Seq(Input) /\ queued \in Seq(Input)
  BY SequenceTypes DEF TypeInv, TypeOK
<1>2. Len(held) + Len(queued) <= MaxInputs
  <2>1. Len(held) + Len(queued) <= Len(pushed[p])
    BY DEF TypeInv, HeldWerePushed
  <2>2. pushed[p] \in BoundedSeqs
    BY DEF TypeInv, TypeOK, ClientTypeOK
  <2>3. Len(pushed[p]) \in Nat /\ Len(pushed[p]) <= MaxInputs
    <3> DEFINE all_pushed == pushed[p]
    <3>1. all_pushed \in Seq(Input) /\ Len(all_pushed) <= MaxInputs
      BY <2>2, BoundedSeqsIff
    <3>2. Len(all_pushed) \in Nat
      <4> HIDE DEF all_pushed
      <4>1. QED BY <3>1
    <3>3. QED BY <3>1, <3>2
  <2>4. Len(held) \in Nat /\ Len(queued) \in Nat
    <3> HIDE DEF held, queued
    <3>1. QED BY <1>1
  <2> HIDE DEF held, queued
  <2>5. QED BY <2>1, <2>3, <2>4, BoundsAssumption
<1>3. Drained(p) = [start_tick |-> controller_seq[p].start_tick, seq |-> all]
  BY DEF Drained, PushAll
<1>4. all \in Seq(Input) /\ Len(all) = Len(held) + Len(queued)
  <2> HIDE DEF held, queued
  <2>1. QED BY <1>1
<1>5. all \in BoundedSeqs
  <2>1. Len(all) <= MaxInputs
    <3> HIDE DEF all
    <3>1. QED BY <1>2, <1>4
  <2> HIDE DEF all
  <2>2. QED BY <1>4, <2>1, BoundedSeqsIff
<1>6. Drained(p) \in Sequences
  BY <1>1, <1>3, <1>5 DEF Sequences
<1>7. /\ Drained(p).start_tick = controller_seq[p].start_tick
      /\ Drained(p).seq = all
  <2> HIDE DEF all
  <2>1. QED BY <1>3
<1>8. Len(Drained(p).seq) = Len(held) + Len(queued)
  <2>1. Len(Drained(p).seq) = Len(all)
    BY <1>7
  <2>2. QED BY <1>4, <2>1
<1>9. QED BY <1>6, <1>7, <1>8

\* The server decodes a packet to the sequence it was made from.
LEMMA PacketDecodes ==
  ASSUME NEW cs \in Sequences, NEW packet \in ToCompressed(cs)
  PROVE  ToControllerSequence(packet) = {cs}
<1>1. PICK c \in Compress(cs.seq) : packet = [start_tick |-> cs.start_tick, comp_seq |-> c]
  BY DEF ToCompressed
<1>2. cs.seq \in BoundedSeqs /\ cs = [start_tick |-> cs.start_tick, seq |-> cs.seq]
  BY DEF Sequences
<1>3. Decompress(packet.comp_seq) = {cs.seq}
  BY <1>1, <1>2, CodecAssumption
<1>4. QED BY <1>1, <1>2, <1>3 DEF ToControllerSequence

-----------------------------------------------------------------------------
\* The client's servicer: the receive half.
LEMMA TypeInvReceiveHalf ==
  ASSUME TypeInv, NEW p \in Clients, ReceiveHalf(p), UNCHANGED serverVars
  PROVE  TypeInv'
<1>0. ClientTypeOK /\ ServerTypeOK /\ TravelsTyped /\ HeldWerePushed
  BY DEF TypeInv, TypeOK
<1>1. ServerTypeOK'
  BY <1>0 DEF ServerTypeOK, serverVars
<1>2. UNCHANGED networkVars
  BY DEF ReceiveHalf, ReceiveTimeout, ReceiveRefused, ReceiveWorldState, ReceiveTruncated,
    ReceiveLastTick
<1>3. TravelsTyped'
  BY <1>0, <1>2 DEF TravelsTyped, serverVars, networkVars
<1>4. CASE ReceiveTimeout(p) \/ ReceiveRefused(p)
  <2>1. ClientTypeOK'
    BY <1>0, <1>4 DEF ReceiveTimeout, ReceiveRefused, ClientTypeOK, socketVars, appVars
  <2>2. HeldWerePushed'
    BY <1>0, <1>4 DEF ReceiveTimeout, ReceiveRefused, HeldWerePushed, appVars
  <2>3. QED BY <1>1, <1>3, <2>1, <2>2 DEF TypeInv, TypeOK
<1>5. ASSUME NEW w, ReceiveWorldState(p, w) PROVE TypeInv'
  <2>1. w \in 1..MaxWorlds
    BY <1>0, <1>5, DeliverableTyped DEF ReceiveWorldState
  <2>2. Append(world_queue[p], w) \in Seq(1..MaxWorlds)
    <3>1. world_queue[p] \in Seq(1..MaxWorlds)
      BY <1>0 DEF ClientTypeOK
    <3>2. QED BY <2>1, <3>1
  <2>3. UNCHANGED <<control_queue, controller_seq, socketVars, appVars>>
    BY <1>5 DEF ReceiveWorldState
  <2>4. /\ world_queue' \in [Clients -> Seq(1..MaxWorlds)]
        /\ client_pc' \in [Clients -> {"recv", "send", "exited"}]
    <3> DEFINE longer == Append(world_queue[p], w)
    <3>1. CASE client_app[p] = "up"
      <4>1. /\ world_queue' = [world_queue EXCEPT ![p] = longer]
            /\ client_pc' = [client_pc EXCEPT ![p] = "send"]
        BY <1>5, <3>1 DEF ReceiveWorldState
      <4> HIDE DEF longer
      <4>2. QED BY <1>0, <2>2, <4>1 DEF ClientTypeOK, longer
    <3>2. CASE client_app[p] # "up"
      <4>1. /\ world_queue' = world_queue
            /\ client_pc' = [client_pc EXCEPT ![p] = "exited"]
        BY <1>5, <3>2 DEF ReceiveWorldState
      <4>2. QED BY <1>0, <4>1 DEF ClientTypeOK
    <3>3. QED BY <3>1, <3>2
  <2>5. ClientTypeOK'
    BY <1>0, <2>3, <2>4 DEF ClientTypeOK, socketVars, appVars
  <2>6. HeldWerePushed'
    BY <1>0, <2>3 DEF HeldWerePushed, appVars
  <2>7. QED BY <1>1, <1>3, <2>5, <2>6 DEF TypeInv, TypeOK
<1>6. ASSUME NEW w, ReceiveTruncated(p, w) PROVE TypeInv'
  <2>1. ClientTypeOK' /\ HeldWerePushed'
    BY <1>0, <1>6 DEF ReceiveTruncated, ClientTypeOK, HeldWerePushed, clientVars, socketVars, appVars
  <2>2. QED BY <1>1, <1>3, <2>1 DEF TypeInv, TypeOK
<1>7. ASSUME NEW t, ReceiveLastTick(p, t) PROVE TypeInv'
  <2> DEFINE cs == controller_seq[p]
             r == RemoveTillTick(controller_seq[p], t)
  <2>1. t \in Nat
    BY <1>0, <1>7, DeliverableTyped DEF ReceiveLastTick
  <2>2. cs \in Sequences
    BY <1>0 DEF ClientTypeOK
  <2>3. /\ r \in Sequences
        /\ \E end \in 0..Len(cs.seq) : r.seq = SubSeq(cs.seq, end + 1, Len(cs.seq))
    BY <2>1, <2>2, RemoveTillTickFacts
  <2>4. /\ controller_seq' = [controller_seq EXCEPT ![p] = r]
        /\ UNCHANGED <<control_queue, pushed>>
    BY <1>7 DEF ReceiveLastTick, appVars
  <2> HIDE DEF cs, r
  <2>5. ClientTypeOK'
    BY <1>0, <1>7, <2>3, <2>4 DEF ReceiveLastTick, ClientTypeOK, socketVars, appVars
  <2>6. Len(r.seq) <= Len(cs.seq)
    <3>1. cs.seq \in Seq(Input)
      BY <2>2, BoundedSeqsIff DEF Sequences
    <3>2. QED BY <2>3, <3>1
  <2>7. HeldWerePushed'
    <3> SUFFICES ASSUME NEW q \in Clients
                 PROVE  Len(controller_seq'[q].seq) + Len(control_queue'[q]) <= Len(pushed'[q])
      BY DEF HeldWerePushed
    <3>1. CASE q = p
      <4> DEFINE a == Len(cs.seq)
                 b == Len(control_queue[p])
                 c == Len(pushed[p])
                 d == Len(r.seq)
      <4>1. a \in Nat /\ b \in Nat /\ c \in Nat
        BY <1>0, SequenceTypes DEF cs
      <4>2. d \in Nat
        BY <2>3, BoundedSeqsIff DEF Sequences
      <4>3. a + b <= c
        BY <1>0 DEF HeldWerePushed, cs
      <4>4. d <= a
        BY <2>6
      <4>5. /\ Len(controller_seq'[q].seq) = d
            /\ Len(control_queue'[q]) = b
            /\ Len(pushed'[q]) = c
        BY <3>1, <2>4, <1>0 DEF ClientTypeOK
      <4> HIDE DEF a, b, c, d
      <4>6. QED BY <4>1, <4>2, <4>3, <4>4, <4>5
    <3>2. CASE q # p
      BY <3>2, <1>0, <2>4 DEF HeldWerePushed, ClientTypeOK
    <3>3. QED BY <3>1, <3>2
  <2>8. QED BY <1>1, <1>3, <2>5, <2>7 DEF TypeInv, TypeOK
<1>8. QED BY <1>4, <1>5, <1>6, <1>7 DEF ReceiveHalf

\* The client's servicer: the send half.
LEMMA TypeInvSendHalf ==
  ASSUME TypeInv, NEW p \in Clients, SendHalf(p), UNCHANGED serverVars
  PROVE  TypeInv'
<1> DEFINE sent == Drained(p)
<1>0. ClientTypeOK /\ ServerTypeOK /\ TravelsTyped /\ HeldWerePushed
  BY DEF TypeInv, TypeOK
<1>1. ServerTypeOK'
  BY <1>0 DEF ServerTypeOK, serverVars
<1>2. << >> \in BoundedSeqs /\ Len(<< >>) = 0
  BY EmptyIsBounded
<1>3. /\ sent \in Sequences
      /\ Len(sent.seq) = Len(controller_seq[p].seq) + Len(control_queue[p])
  BY DrainedFacts
<1>4. ASSUME SendDisconnected(p) PROVE TypeInv'
  <2>1. ClientTypeOK'
    BY <1>0, <1>2, <1>4 DEF SendDisconnected, ClientTypeOK, socketVars, appVars
  <2>2. HeldWerePushed'
    <3> SUFFICES ASSUME NEW q \in Clients
                 PROVE  Len(controller_seq'[q].seq) + Len(control_queue'[q]) <= Len(pushed'[q])
      BY DEF HeldWerePushed
    <3>1. /\ UNCHANGED <<controller_seq, pushed>>
          /\ control_queue' = [control_queue EXCEPT ![p] = << >>]
      BY <1>4 DEF SendDisconnected, appVars
    <3>2. CASE q = p
      <4> DEFINE a == Len(controller_seq[p].seq)
                 b == Len(control_queue[p])
                 c == Len(pushed[p])
      <4>1. a \in Nat /\ b \in Nat /\ c \in Nat
        BY <1>0, SequenceTypes
      <4>2. a + b <= c
        BY <1>0 DEF HeldWerePushed
      <4>3. /\ Len(controller_seq'[q].seq) = a
            /\ Len(control_queue'[q]) = 0
            /\ Len(pushed'[q]) = c
        BY <1>0, <1>2, <3>1, <3>2 DEF ClientTypeOK
      <4> HIDE DEF a, b, c
      <4>4. QED BY <4>1, <4>2, <4>3
    <3>3. CASE q # p
      BY <1>0, <3>1, <3>3 DEF HeldWerePushed, ClientTypeOK
    <3>4. QED BY <3>2, <3>3
  <2>3. TravelsTyped'
    BY <1>0, <1>4 DEF SendDisconnected, TravelsTyped, serverVars, networkVars
  <2>4. QED BY <1>1, <2>1, <2>2, <2>3 DEF TypeInv, TypeOK
<1>5. ASSUME NEW next \in {"recv", "exited"}, DrainAndSend(p, next)
      PROVE  /\ HeldWerePushed'
             /\ (probes' \in [Clients -> 0..MaxProbes] /\ refused' \in [Clients -> BOOLEAN]) => ClientTypeOK'
  <2>1. /\ controller_seq' = [controller_seq EXCEPT ![p] = sent]
        /\ control_queue' = [control_queue EXCEPT ![p] = << >>]
        /\ client_pc' = [client_pc EXCEPT ![p] = next]
        /\ UNCHANGED <<world_queue, client_app, shutdown, pushed, taken>>
    BY <1>5 DEF DrainAndSend, appVars
  <2> HIDE DEF sent
  <2>2. ASSUME probes' \in [Clients -> 0..MaxProbes], refused' \in [Clients -> BOOLEAN]
        PROVE  ClientTypeOK'
    BY <1>0, <1>2, <1>3, <2>1, <2>2 DEF ClientTypeOK
  <2>3. HeldWerePushed'
    <3> SUFFICES ASSUME NEW q \in Clients
                 PROVE  Len(controller_seq'[q].seq) + Len(control_queue'[q]) <= Len(pushed'[q])
      BY DEF HeldWerePushed
    <3>1. CASE q = p
      <4> DEFINE a == Len(controller_seq[p].seq)
                 b == Len(control_queue[p])
                 c == Len(pushed[p])
      <4>1. a \in Nat /\ b \in Nat /\ c \in Nat
        BY <1>0, SequenceTypes
      <4>2. a + b <= c
        BY <1>0 DEF HeldWerePushed
      <4>3. /\ Len(controller_seq'[q].seq) = a + b
            /\ Len(control_queue'[q]) = 0
            /\ Len(pushed'[q]) = c
        BY <1>0, <1>2, <1>3, <2>1, <3>1 DEF ClientTypeOK
      <4> HIDE DEF a, b, c
      <4>4. QED BY <4>1, <4>2, <4>3
    <3>2. CASE q # p
      BY <1>0, <2>1, <3>2 DEF HeldWerePushed, ClientTypeOK
    <3>3. QED BY <3>1, <3>2
  <2>4. QED BY <2>2, <2>3
<1>6. CASE SendNothing(p) \/ SendTooLarge(p)
  <2>1. /\ UNCHANGED <<probes, refused, uplink, downlink>>
        /\ \E next \in {"recv", "exited"} : DrainAndSend(p, next)
    BY <1>6 DEF SendNothing, SendTooLarge, socketVars, networkVars
  <2>2. ClientTypeOK' /\ HeldWerePushed'
    BY <1>0, <1>5, <2>1 DEF ClientTypeOK
  <2>3. TravelsTyped'
    BY <1>0, <2>1 DEF TravelsTyped, serverVars
  <2>4. QED BY <1>1, <2>2, <2>3 DEF TypeInv, TypeOK
<1>7. CASE SendRefused(p)
  <2>1. /\ UNCHANGED <<probes, uplink, downlink>>
        /\ refused' = [refused EXCEPT ![p] = FALSE]
        /\ DrainAndSend(p, "exited")
    BY <1>7 DEF SendRefused, networkVars
  <2>2. refused' \in [Clients -> BOOLEAN] /\ probes' \in [Clients -> 0..MaxProbes]
    BY <1>0, <2>1 DEF ClientTypeOK
  <2>3. ClientTypeOK' /\ HeldWerePushed'
    BY <1>5, <2>1, <2>2
  <2>4. TravelsTyped'
    BY <1>0, <2>1 DEF TravelsTyped, serverVars
  <2>5. QED BY <1>1, <2>3, <2>4 DEF TypeInv, TypeOK
<1>8. CASE SendDatagram(p)
  <2>1. PICK packet \in ToCompressed(sent) : SendToServer(p, packet)
    BY <1>8 DEF SendDatagram
  <2>2. /\ UNCHANGED <<refused, downlink>>
        /\ probes' = [probes EXCEPT ![p] = IF probes[p] < MaxProbes THEN probes[p] + 1 ELSE probes[p]]
        /\ DrainAndSend(p, "recv")
        /\ uplink' = uplink \cup {[src |-> p, packet |-> packet]}
    BY <1>8, <2>1 DEF SendDatagram, SendToServer
  <2>3. refused' \in [Clients -> BOOLEAN] /\ probes' \in [Clients -> 0..MaxProbes]
    BY <1>0, <2>2, BoundsAssumption DEF ClientTypeOK
  <2>4. ClientTypeOK' /\ HeldWerePushed'
    BY <1>5, <2>2, <2>3
  <2>5. ToControllerSequence(packet) = {sent}
    BY <1>3, <2>1, PacketDecodes
  <2> HIDE DEF sent
  <2>6. TravelsTyped'
    BY <1>0, <1>3, <2>2, <2>5 DEF TravelsTyped, serverVars
  <2>7. QED BY <1>1, <2>4, <2>6 DEF TypeInv, TypeOK
<1>9. QED BY <1>4, <1>6, <1>7, <1>8 DEF SendHalf

\* An ICMP reply changes only the state of a socket.
LEMMA TypeInvIcmp ==
  ASSUME TypeInv, NEW p \in Clients, IcmpRefused(p)
  PROVE  TypeInv'
<1>0. ClientTypeOK /\ ServerTypeOK /\ TravelsTyped /\ HeldWerePushed
  BY DEF TypeInv, TypeOK
<1>1. ClientTypeOK'
  BY <1>0, BoundsAssumption DEF IcmpRefused, ClientTypeOK, appVars
<1>2. ServerTypeOK' /\ TravelsTyped'
  BY <1>0 DEF IcmpRefused, ServerTypeOK, TravelsTyped, serverVars, networkVars
<1>3. HeldWerePushed'
  BY <1>0 DEF IcmpRefused, HeldWerePushed, appVars
<1>4. QED BY <1>1, <1>2, <1>3 DEF TypeInv, TypeOK

-----------------------------------------------------------------------------
\* The server's steps leave the clients as they are.
LEMMA TypeInvServerApp ==
  ASSUME TypeInv, ServerApp \/ ServerQuit, UNCHANGED clientVars
  PROVE  TypeInv'
<1>0. ClientTypeOK /\ ServerTypeOK /\ TravelsTyped /\ HeldWerePushed
  BY DEF TypeInv, TypeOK
<1>1. ClientTypeOK' /\ HeldWerePushed'
  BY <1>0 DEF ClientTypeOK, HeldWerePushed, clientVars, appVars, socketVars
<1>2. ASSUME NEW m \in AppMessages, SendLowLatency(m),
             worlds' \in Seq(User), Len(worlds') <= MaxWorlds
      PROVE  TypeInv'
  <2>1. ServerTypeOK'
    BY <1>0, <1>2 DEF SendLowLatency, ServerTypeOK
  <2>2. app_queue' \in Seq(AppMessages)
    BY <1>0, <1>2 DEF SendLowLatency, TravelsTyped
  <2>3. TravelsTyped'
    BY <1>0, <1>2, <2>2 DEF SendLowLatency, TravelsTyped, networkVars
  <2>4. QED BY <1>1, <2>1, <2>3 DEF TypeInv, TypeOK
<1>3. ASSUME NEW p \in DOMAIN UserOf, SendNewClient(p) PROVE TypeInv'
  <2>1. NewClient(p, UserOf[p]) \in AppMessages
    BY UserOfAssumption DEF NewClient, AppMessages
  <2>2. QED BY <1>0, <1>2, <1>3, <2>1 DEF SendNewClient, ServerTypeOK
<1>4. ASSUME NEW u \in User, SendClientDisconnect(u) PROVE TypeInv'
  <2>1. ClientDisconnect(u) \in AppMessages
    BY DEF ClientDisconnect, AppMessages
  <2>2. QED BY <1>0, <1>2, <1>4, <2>1 DEF SendClientDisconnect, ServerTypeOK
<1>5. ASSUME NEW u \in User, SendWorldState(u) PROVE TypeInv'
  <2>1. /\ worlds \in Seq(User) /\ Len(worlds) < MaxWorlds
        /\ worlds' = Append(worlds, u)
    BY <1>0, <1>5 DEF SendWorldState, ServerTypeOK
  <2>2. /\ Len(worlds) + 1 \in 1..MaxWorlds
        /\ worlds' \in Seq(User) /\ Len(worlds') <= MaxWorlds
    BY <2>1, BoundsAssumption
  <2>3. ToClient(u, WorldState(Len(worlds) + 1)) \in AppMessages
    BY <2>2 DEF ToClient, WorldState, AppMessages, ServerMessages
  <2>4. QED BY <1>2, <1>5, <2>2, <2>3 DEF SendWorldState
<1>6. ASSUME NEW u \in User, NEW t \in AppTicks, SendLastTick(u, t) PROVE TypeInv'
  <2>1. ToClient(u, LastTickReceived(t)) \in AppMessages
    BY BoundsAssumption DEF ToClient, LastTickReceived, AppMessages, ServerMessages
  <2>2. QED BY <1>0, <1>2, <1>6, <2>1 DEF SendLastTick, ServerTypeOK
<1>7. CASE ServerQuit
  <2>1. ServerTypeOK' /\ TravelsTyped'
    BY <1>0, <1>7 DEF ServerQuit, ServerQuitDropSender, ServerQuitDropReceiver, ServerTypeOK,
      TravelsTyped, networkVars
  <2>2. QED BY <1>1, <2>1 DEF TypeInv, TypeOK
<1>8. QED BY <1>3, <1>4, <1>5, <1>6, <1>7 DEF ServerApp

\* What parse_application_messages and send_message produce.
LEMMA AddressBookTyped ==
  ASSUME NEW ms \in Seq(AppMessages), NEW book \in SUBSET (Clients \X User)
  PROVE  AddressBook(ms, book) \subseteq Clients \X User
<1> SUFFICES ASSUME NEW i \in DOMAIN ms, ms[i].kind = "NewClient"
             PROVE  <<ms[i].addr, ms[i].user>> \in Clients \X User
  BY DEF AddressBook
<1>1. ms[i] \in AppMessages
  OBVIOUS
<1>2. ms[i].addr \in Clients /\ ms[i].user \in User
  BY <1>1 DEF AppMessages
<1>3. QED BY <1>2

\* Every datagram of send_message carries the payload it was given.
LEMMA SendMessageTyped ==
  ASSUME NEW book \in SUBSET (Clients \X User), NEW user, NEW payload \in ServerMessages
  PROVE  SendMessage(book, user, payload) \subseteq [dst : Clients, body : ServerMessages]
BY DEF SendMessage

\* So do the datagrams made from a drained queue.
LEMMA DatagramsTyped ==
  ASSUME NEW ms \in Seq(AppMessages), NEW book \in SUBSET (Clients \X User), NEW type
  PROVE  Datagrams(ms, type, book) \subseteq [dst : Clients, body : ServerMessages]
<1>1. \A m \in Outgoing(ms, type) : m \in AppMessages /\ m.kind = "ToClient"
  BY DEF Outgoing
<1>2. \A m \in Outgoing(ms, type) : m.payload \in ServerMessages
  BY <1>1 DEF AppMessages
<1>3. QED BY <1>2, SendMessageTyped DEF Datagrams

\* The server's servicer: the half that serves the application's queue.
LEMMA TypeInvForward ==
  ASSUME TypeInv, ForwardFromServerToClient \/ AppDisconnected, UNCHANGED clientVars
  PROVE  TypeInv'
<1>0. ClientTypeOK /\ ServerTypeOK /\ TravelsTyped /\ HeldWerePushed
  BY DEF TypeInv, TypeOK
<1>1. ClientTypeOK' /\ HeldWerePushed'
  BY <1>0 DEF ClientTypeOK, HeldWerePushed, clientVars, appVars, socketVars
<1>2. << >> \in Seq(AppMessages)
  OBVIOUS
<1>3. ASSUME NEW sent \in SUBSET [dst : Clients, body : ServerMessages],
             NEW next \in {"app", "net"}, ForwardAppMessages(sent, next)
      PROVE  TypeInv'
  <2>1. address_user' \subseteq Clients \X User
    BY <1>0, <1>3, AddressBookTyped DEF ForwardAppMessages, ServerTypeOK, TravelsTyped
  <2>2. ServerTypeOK'
    BY <1>0, <1>3, <2>1 DEF ForwardAppMessages, ServerTypeOK
  <2>3. TravelsTyped'
    BY <1>0, <1>2, <1>3 DEF ForwardAppMessages, SendToClients, TravelsTyped
  <2>4. QED BY <1>1, <2>2, <2>3 DEF TypeInv, TypeOK
<1>4. CASE ForwardFromServerToClient
  <2> DEFINE book  == AddressBook(app_queue, address_user)
             world == Datagrams(app_queue, "WorldState", book)
             tick  == Datagrams(app_queue, "LastTickReceived", book)
             typed == [dst : Clients, body : ServerMessages]
  <2>1. app_queue \in Seq(AppMessages) /\ address_user \in SUBSET (Clients \X User)
    BY <1>0 DEF TravelsTyped, ServerTypeOK
  <2>2. book \in SUBSET (Clients \X User)
    BY <2>1, AddressBookTyped
  <2>3. world \subseteq typed /\ tick \subseteq typed
    BY <2>1, <2>2, DatagramsTyped
  <2>4. \/ ForwardAppMessages(world \cup tick, "net")
        \/ ForwardAppMessages({}, "app")
        \/ ForwardAppMessages(world, "app")
    BY <1>4 DEF ForwardFromServerToClient
  <2> HIDE DEF book, world, tick
  <2>5. world \cup tick \in SUBSET typed /\ {} \in SUBSET typed /\ world \in SUBSET typed
    BY <2>3
  <2>6. QED BY <1>3, <2>4, <2>5
<1>5. CASE AppDisconnected
  <2>1. ServerTypeOK' /\ TravelsTyped'
    BY <1>0, <1>2, <1>5 DEF AppDisconnected, ServerTypeOK, TravelsTyped, networkVars
  <2>2. QED BY <1>1, <2>1 DEF TypeInv, TypeOK
<1>6. QED BY <1>4, <1>5

\* The server's servicer: the half that serves the socket.
LEMMA TypeInvReceive ==
  ASSUME TypeInv, UNCHANGED clientVars,
         \/ ReceiveNothing
         \/ \E d \in uplink : RejectControllerInput(d) \/ HandleControllerInput(d)
  PROVE  TypeInv'
<1>0. ClientTypeOK /\ ServerTypeOK /\ TravelsTyped /\ HeldWerePushed
  BY DEF TypeInv, TypeOK
<1>1. ClientTypeOK' /\ HeldWerePushed'
  BY <1>0 DEF ClientTypeOK, HeldWerePushed, clientVars, appVars, socketVars
<1>2. CASE ReceiveNothing \/ \E d \in uplink : RejectControllerInput(d)
  <2>1. ServerTypeOK' /\ TravelsTyped'
    BY <1>0, <1>2 DEF ReceiveNothing, RejectControllerInput, ServerTypeOK, TravelsTyped, networkVars
  <2>2. QED BY <1>1, <2>1 DEF TypeInv, TypeOK
<1>3. ASSUME NEW d \in uplink, HandleControllerInput(d) PROVE TypeInv'
  <2>1. PICK user \in UsersAt(d.src), cs \in ToControllerSequence(d.packet) :
           AcceptNewer(user, cs) \/ AcknowledgeOlder(user, cs)
    BY <1>3 DEF HandleControllerInput
  <2>2. UNCHANGED <<app_queue, address_user, server_app, app_messages, worlds>>
    BY <1>3 DEF HandleControllerInput
  <2>3. user \in User /\ cs \in Sequences /\ address_user \in SUBSET (Clients \X User)
    BY <1>0 DEF UsersAt, ServerTypeOK, TravelsTyped
  <2>4. LastTick(cs) \in Nat /\ last_tick_received \in Nat
    BY <1>0, <2>3, LastTickNat DEF ServerTypeOK
  <2>5. ASSUME NEW t \in Nat
        PROVE  SendMessage(address_user, user, LastTickReceived(t))
                 \subseteq [dst : Clients, body : ServerMessages]
    <3>1. LastTickReceived(t) \in ServerMessages
      BY DEF LastTickReceived, ServerMessages
    <3>2. QED BY <2>3, <3>1, SendMessageTyped
  <2>6. CASE AcceptNewer(user, cs)
    <3>1. Append(to_application, [from |-> user, payload |-> cs])
             \in Seq([from : User, payload : Sequences])
      BY <1>0, <2>3 DEF ServerTypeOK
    <3>2. ServerTypeOK'
      BY <1>0, <2>2, <2>4, <2>6, <3>1 DEF AcceptNewer, ServerTypeOK
    <3>3. TravelsTyped'
      BY <1>0, <2>2, <2>4, <2>5, <2>6 DEF AcceptNewer, SendToClients, TravelsTyped, networkVars
    <3>4. QED BY <1>1, <3>2, <3>3 DEF TypeInv, TypeOK
  <2>7. CASE AcknowledgeOlder(user, cs)
    <3>1. ServerTypeOK'
      BY <1>0, <2>2, <2>7 DEF AcknowledgeOlder, ServerTypeOK
    <3>2. TravelsTyped'
      BY <1>0, <2>2, <2>4, <2>5, <2>7 DEF AcknowledgeOlder, SendToClients, TravelsTyped
    <3>3. QED BY <1>1, <3>1, <3>2 DEF TypeInv, TypeOK
  <2>8. QED BY <2>1, <2>6, <2>7
<1>4. QED BY <1>2, <1>3

-----------------------------------------------------------------------------
\* Every step of the system keeps TypeInv.
LEMMA TypeInvStep == TypeInv /\ [Next]_vars => TypeInv'
<1> SUFFICES ASSUME TypeInv, [Next]_vars PROVE TypeInv'
  OBVIOUS
<1>1. ASSUME NEW p \in Clients, ClientStep(p) PROVE TypeInv'
  BY <1>1, TypeInvClientApp, TypeInvReceiveHalf, TypeInvSendHalf DEF ClientStep, ClientSpin
<1>2. ASSUME NEW p \in Clients, IcmpRefused(p) PROVE TypeInv'
  BY <1>2, TypeInvIcmp
<1>3. CASE ServerStep
  BY <1>3, TypeInvServerApp, TypeInvForward, TypeInvReceive DEF ServerStep, ServerSpin
<1>4. CASE UNCHANGED vars
  BY <1>4 DEF vars, clientVars, serverVars, networkVars, socketVars, appVars, TypeInv, TypeOK,
    ClientTypeOK, ServerTypeOK, TravelsTyped, HeldWerePushed
<1>5. QED BY <1>1, <1>2, <1>3, <1>4 DEF Next

\* TypeInv holds in every reachable state.
LEMMA TypeInvInvariant == Spec => []TypeInv
BY TypeInvInit, TypeInvStep, PTL DEF Spec

(***************************************************************************)
(* Every variable keeps its type, whatever the bounds and the codec.       *)
(***************************************************************************)
THEOREM TypeCorrect == Spec => []TypeOK
<1>1. TypeInv => TypeOK
  BY DEF TypeInv
<1>2. QED BY <1>1, TypeInvInvariant, PTL

-----------------------------------------------------------------------------
(***************************************************************************)
(* TickNamesOneInput is inductive together with two facts about what a     *)
(* client holds: it ends no earlier than anything the client has reported, *)
(* and agrees with all of it.  An acknowledgement renumbers from past the  *)
(* end, so the new numbers are in no report; a push extends past the end.  *)
(***************************************************************************)
ReportsBehind ==
  \A p \in Clients : \A a \in Reports(p) :
     /\ LastTick(a) <= LastTick(controller_seq[p])
     /\ Agree(a, controller_seq[p])

TickInv == TickNamesOneInput /\ ReportsBehind

\* Agreement on the ticks covered by both is symmetric.
LEMMA AgreeSymmetric ==
  ASSUME NEW a \in Sequences, NEW b \in Sequences, Agree(a, b)
  PROVE  Agree(b, a)
BY DEF Agree

\* Pushing snapshots leaves the numbers of those before alone.
LEMMA AgreeAfterPush ==
  ASSUME NEW a \in Sequences, NEW cs \in Sequences, NEW inputs \in Seq(Input),
         LastTick(a) <= LastTick(cs), Agree(a, cs)
  PROVE  /\ LastTick(a) <= LastTick(PushAll(cs, inputs))
         /\ Agree(a, PushAll(cs, inputs))
<1> DEFINE start == cs.start_tick
           s == cs.seq
           long == PushAll(cs, inputs)
<1>1. start \in Nat /\ s \in Seq(Input) /\ a.start_tick \in Nat /\ a.seq \in Seq(Input)
  BY BoundedSeqsIff DEF Sequences
<1>2. long.start_tick = start /\ long.seq = s \o inputs
  BY DEF PushAll
<1>3. LastTick(a) \in Nat /\ LastTick(cs) \in Nat
  BY LastTickNat
<1>4. LastTick(cs) = start + Len(s)
  BY DEF LastTick
<1> HIDE DEF start, s, long
<1>5. Len(s \o inputs) = Len(s) + Len(inputs) /\ Len(s) \in Nat /\ Len(inputs) \in Nat
  BY <1>1
<1>6. LastTick(long) = start + (Len(s) + Len(inputs))
  BY <1>2, <1>5 DEF LastTick
<1>7. LastTick(a) <= LastTick(long)
  BY <1>1, <1>3, <1>4, <1>5, <1>6
<1>8. ASSUME NEW tick \in Ticks(a) \cap Ticks(long)
      PROVE  InputAt(a, tick) = InputAt(long, tick)
  <2>1. /\ tick \in Int /\ start <= tick /\ tick < start + Len(s)
        /\ tick \in Ticks(a)
    BY <1>1, <1>2, <1>3, <1>4, <1>8 DEF Ticks
  <2>2. tick \in Ticks(cs)
    BY <1>1, <1>3, <1>4, <2>1 DEF Ticks, start
  <2>3. InputAt(a, tick) = InputAt(cs, tick)
    BY <2>1, <2>2 DEF Agree
  <2>4. tick - start + 1 \in 1..Len(s)
    BY <1>1, <1>5, <2>1
  <2>5. (s \o inputs)[tick - start + 1] = s[tick - start + 1]
    BY <1>1, <1>5, <2>4
  <2>6. InputAt(cs, tick) = s[tick - start + 1]
    BY DEF InputAt, s, start
  <2>7. InputAt(long, tick) = (s \o inputs)[tick - start + 1]
    BY <1>2 DEF InputAt
  <2>8. QED BY <2>3, <2>5, <2>6, <2>7
<1>9. Agree(a, long)
  BY <1>8 DEF Agree
<1>10. QED BY <1>7, <1>9 DEF long

\* An acknowledgement gives what is kept numbers that were never used.
LEMMA AgreeAfterRemoval ==
  ASSUME NEW a \in Sequences, NEW cs \in Sequences, NEW tick \in Nat,
         LastTick(a) <= LastTick(cs)
  PROVE  /\ LastTick(a) <= LastTick(RemoveTillTick(cs, tick))
         /\ Agree(a, RemoveTillTick(cs, tick))
<1> DEFINE r == RemoveTillTick(cs, tick)
<1>1. r \in Sequences /\ r.start_tick = LastTick(cs) + 1
  BY RemoveTillTickFacts
<1> HIDE DEF r
<1>2. LastTick(a) \in Nat /\ LastTick(cs) \in Nat /\ LastTick(r) \in Nat
  BY <1>1, LastTickNat
<1>3. LastTick(r) >= r.start_tick
  <2>1. r.seq \in Seq(Input) /\ r.start_tick \in Nat
    BY <1>1, BoundedSeqsIff DEF Sequences
  <2>2. Len(r.seq) \in Nat
    BY <2>1
  <2>3. QED BY <2>1, <2>2 DEF LastTick
<1>4. LastTick(a) <= LastTick(r)
  BY <1>1, <1>2, <1>3
<1>5. a.start_tick \in Nat
  BY DEF Sequences
<1>6. Ticks(a) \cap Ticks(r) = {}
  BY <1>1, <1>2, <1>5 DEF Ticks
<1>7. Agree(a, r)
  BY <1>6 DEF Agree
<1>8. QED BY <1>4, <1>7 DEF r

\* What a client has reported is a typed sequence.
LEMMA ReportsTyped ==
  ASSUME TypeInv, NEW p \in Clients
  PROVE  Reports(p) \subseteq Sequences
<1>1. \A d \in uplink : ToControllerSequence(d.packet) \subseteq Sequences
  BY DEF TypeInv, TravelsTyped
<1>2. QED BY <1>1 DEF Reports

\* A step that sends nothing and leaves every sequence as it is, or pushes
\* to one, or renumbers one, keeps TickInv.
LEMMA TickInvQuiet ==
  ASSUME TypeInv, TickInv, UNCHANGED uplink,
         \A p \in Clients :
            \/ controller_seq'[p] = controller_seq[p]
            \/ controller_seq'[p] = Drained(p)
            \/ \E tick \in Nat : controller_seq'[p] = RemoveTillTick(controller_seq[p], tick)
  PROVE  TickInv'
<1>1. \A p : Reports(p)' = Reports(p)
  BY DEF Reports
<1>2. TickNamesOneInput'
  BY <1>1 DEF TickInv, TickNamesOneInput
<1>3. ASSUME NEW p \in Clients, NEW a \in Reports(p)
      PROVE  LastTick(a) <= LastTick(controller_seq'[p]) /\ Agree(a, controller_seq'[p])
  <2>1. a \in Sequences /\ controller_seq[p] \in Sequences /\ control_queue[p] \in Seq(Input)
    BY <1>3, ReportsTyped, SequenceTypes DEF TypeInv, TypeOK, ClientTypeOK
  <2>2. LastTick(a) <= LastTick(controller_seq[p]) /\ Agree(a, controller_seq[p])
    BY <1>3 DEF TickInv, ReportsBehind
  <2>3. CASE controller_seq'[p] = controller_seq[p]
    BY <2>2, <2>3
  <2>4. CASE controller_seq'[p] = Drained(p)
    BY <2>1, <2>2, <2>4, AgreeAfterPush DEF Drained
  <2>5. CASE \E tick \in Nat : controller_seq'[p] = RemoveTillTick(controller_seq[p], tick)
    BY <2>1, <2>2, <2>5, AgreeAfterRemoval
  <2>6. QED BY <1>3, <2>3, <2>4, <2>5
<1>4. ReportsBehind'
  BY <1>1, <1>3 DEF ReportsBehind
<1>5. QED BY <1>2, <1>4 DEF TickInv

\* A datagram adds the sequence the client then holds to its reports.
LEMMA ReportsAfterSend ==
  ASSUME TypeInv, NEW p \in Clients, SendDatagram(p)
  PROVE  /\ Reports(p)' = Reports(p) \cup {Drained(p)}
         /\ \A q \in Clients \ {p} : Reports(q)' = Reports(q)
<1> DEFINE sent == Drained(p)
<1>1. PICK packet \in ToCompressed(sent) : SendToServer(p, packet)
  BY DEF SendDatagram
<1>2. ToControllerSequence(packet) = {sent}
  BY <1>1, DrainedFacts, PacketDecodes
<1>3. uplink' = uplink \cup {[src |-> p, packet |-> packet]}
  BY <1>1 DEF SendToServer
<1> HIDE DEF sent
<1>4. Reports(p)' = Reports(p) \cup {sent}
  <2> DEFINE new == [src |-> p, packet |-> packet]
             Of(S) == UNION {ToControllerSequence(d.packet) : d \in {e \in S : e.src = p}}
  <2>1. new.src = p /\ ToControllerSequence(new.packet) = {sent}
    BY <1>2
  <2>2. Of(uplink \cup {new}) = Of(uplink) \cup {sent}
    <3> HIDE DEF new
    <3>1. QED BY <2>1
  <2>3. QED BY <1>3, <2>2 DEF Reports
<1>5. \A q \in Clients \ {p} : Reports(q)' = Reports(q)
  BY <1>3 DEF Reports
<1>6. QED BY <1>4, <1>5 DEF sent

\* A datagram reports the sequence the client then holds.
LEMMA TickInvSendDatagram ==
  ASSUME TypeInv, TickInv, NEW p \in Clients, SendDatagram(p)
  PROVE  TickInv'
<1> DEFINE sent == Drained(p)
<1>1. sent \in Sequences
  BY DrainedFacts
<1>2. controller_seq' = [controller_seq EXCEPT ![p] = sent]
  BY DEF SendDatagram, DrainAndSend
<1>3. controller_seq'[p] = sent /\ \A q \in Clients \ {p} : controller_seq'[q] = controller_seq[q]
  <2>1. controller_seq \in [Clients -> Sequences]
    BY DEF TypeInv, TypeOK, ClientTypeOK
  <2> HIDE DEF sent
  <2>2. QED BY <1>2, <2>1
<1>4. \A a \in Reports(p) :
         a \in Sequences /\ LastTick(a) <= LastTick(sent) /\ Agree(a, sent)
  <2> SUFFICES ASSUME NEW a \in Reports(p)
               PROVE  a \in Sequences /\ LastTick(a) <= LastTick(sent) /\ Agree(a, sent)
    OBVIOUS
  <2>1. a \in Sequences /\ controller_seq[p] \in Sequences /\ control_queue[p] \in Seq(Input)
    BY ReportsTyped, SequenceTypes DEF TypeInv, TypeOK, ClientTypeOK
  <2>2. LastTick(a) <= LastTick(controller_seq[p]) /\ Agree(a, controller_seq[p])
    BY DEF TickInv, ReportsBehind
  <2>3. QED BY <2>1, <2>2, AgreeAfterPush DEF Drained
<1> HIDE DEF sent
<1>5. Reports(p)' = Reports(p) \cup {sent}
  BY ReportsAfterSend DEF sent
<1>6. \A q \in Clients \ {p} : Reports(q)' = Reports(q)
  BY ReportsAfterSend
<1>7. LastTick(sent) <= LastTick(sent) /\ Agree(sent, sent)
  BY <1>1, LastTickNat DEF Agree
<1>8. TickNamesOneInput'
  <2> SUFFICES ASSUME NEW q \in Clients, NEW a \in Reports(q)', NEW b \in Reports(q)'
               PROVE  Agree(a, b)
    BY DEF TickNamesOneInput
  <2>1. CASE q # p
    BY <1>6, <2>1 DEF TickInv, TickNamesOneInput
  <2>2. CASE q = p
    <3>1. CASE a \in Reports(p) /\ b \in Reports(p)
      BY <3>1 DEF TickInv, TickNamesOneInput
    <3>2. CASE b = sent
      BY <1>4, <1>5, <1>7, <2>2, <3>2
    <3>3. CASE a = sent /\ b \in Reports(p)
      BY <1>1, <1>4, <3>3, AgreeSymmetric
    <3>4. QED BY <1>5, <2>2, <3>1, <3>2, <3>3
  <2>3. QED BY <2>1, <2>2
<1>9. ReportsBehind'
  <2> SUFFICES ASSUME NEW q \in Clients, NEW a \in Reports(q)'
               PROVE  LastTick(a) <= LastTick(controller_seq'[q]) /\ Agree(a, controller_seq'[q])
    BY DEF ReportsBehind
  <2>1. CASE q # p
    BY <1>3, <1>6, <2>1 DEF TickInv, ReportsBehind
  <2>2. CASE q = p
    BY <1>3, <1>4, <1>5, <1>7, <2>2
  <2>3. QED BY <2>1, <2>2
<1>10. QED BY <1>8, <1>9 DEF TickInv

\* Every step of the system keeps TickInv.
LEMMA TickInvStep == TypeInv /\ TickInv /\ [Next]_vars => TickInv'
<1> SUFFICES ASSUME TypeInv, TickInv, [Next]_vars PROVE TickInv'
  OBVIOUS
<1>0. controller_seq \in [Clients -> Sequences] /\ TravelsTyped
  BY DEF TypeInv, TypeOK, ClientTypeOK
<1>1. CASE UNCHANGED <<uplink, controller_seq>>
  BY <1>1, TickInvQuiet
<1>2. ASSUME NEW p \in Clients, NEW tick, ReceiveLastTick(p, tick) PROVE TickInv'
  <2>1. tick \in Nat
    BY <1>0, <1>2, DeliverableTyped DEF ReceiveLastTick
  <2>2. /\ UNCHANGED uplink
        /\ controller_seq' = [controller_seq EXCEPT ![p] = RemoveTillTick(controller_seq[p], tick)]
    BY <1>2 DEF ReceiveLastTick, networkVars
  <2>3. \A q \in Clients : \/ controller_seq'[q] = controller_seq[q]
                           \/ controller_seq'[q] = RemoveTillTick(controller_seq[q], tick)
    BY <1>0, <2>2
  <2>4. QED BY <2>1, <2>2, <2>3, TickInvQuiet
<1>3. ASSUME NEW p \in Clients, NEW next, DrainAndSend(p, next), UNCHANGED uplink PROVE TickInv'
  <2>1. controller_seq' = [controller_seq EXCEPT ![p] = Drained(p)]
    BY <1>3 DEF DrainAndSend
  <2>2. \A q \in Clients : controller_seq'[q] = controller_seq[q] \/ controller_seq'[q] = Drained(q)
    BY <1>0, <2>1
  <2>3. QED BY <1>3, <2>2, TickInvQuiet
<1>4. ASSUME NEW p \in Clients, ReceiveHalf(p) PROVE TickInv'
  <2>1. \/ UNCHANGED <<uplink, controller_seq>>
        \/ \E tick : ReceiveLastTick(p, tick)
    BY <1>4 DEF ReceiveHalf, ReceiveTimeout, ReceiveRefused, ReceiveWorldState, ReceiveTruncated,
      networkVars, clientVars
  <2>2. QED BY <1>1, <1>2, <2>1
<1>5. ASSUME NEW p \in Clients, SendHalf(p) PROVE TickInv'
  <2>1. CASE SendDisconnected(p)
    BY <1>1, <2>1 DEF SendDisconnected, networkVars
  <2>2. CASE SendNothing(p) \/ SendTooLarge(p) \/ SendRefused(p)
    BY <1>3, <2>2 DEF SendNothing, SendTooLarge, SendRefused, networkVars
  <2>3. CASE SendDatagram(p)
    BY <2>3, TickInvSendDatagram
  <2>4. QED BY <1>5, <2>1, <2>2, <2>3 DEF SendHalf
<1>6. ASSUME NEW p \in Clients, ClientStep(p) PROVE TickInv'
  <2>1. CASE ClientApp(p) \/ ClientQuit(p)
    BY <1>1, <2>1 DEF ClientApp, ClientQuit, SendControllerInput, TakeWorldState,
      QuitDropReceiver, QuitDropSender, networkVars
  <2>2. QED BY <1>4, <1>5, <1>6, <2>1 DEF ClientStep, ClientSpin
<1>7. ASSUME NEW p \in Clients, IcmpRefused(p) PROVE TickInv'
  BY <1>1, <1>7 DEF IcmpRefused, networkVars
<1>8. CASE ServerStep
  <2>1. UNCHANGED controller_seq
    BY <1>8 DEF ServerStep, clientVars
  <2>2. CASE ServerSpin
    BY <1>1, <2>1, <2>2 DEF ServerSpin, ForwardFromServerToClient, ForwardAppMessages,
      AppDisconnected, ReceiveNothing, RejectControllerInput, HandleControllerInput,
      AcceptNewer, AcknowledgeOlder, SendToClients, networkVars
  <2>3. CASE ServerApp \/ ServerQuit
    BY <1>1, <2>1, <2>3 DEF ServerApp, ServerQuit, SendNewClient, SendClientDisconnect,
      SendWorldState, SendLastTick, SendLowLatency, ServerQuitDropSender, ServerQuitDropReceiver,
      networkVars
  <2>4. QED BY <1>8, <2>2, <2>3 DEF ServerStep
<1>9. CASE UNCHANGED vars
  BY <1>1, <1>9 DEF vars, clientVars, networkVars
<1>10. QED BY <1>6, <1>7, <1>8, <1>9 DEF Next

(***************************************************************************)
(* A tick number names one snapshot of a client for ever: the server can   *)
(* put together packets sent before and after any acknowledgement.         *)
(***************************************************************************)
THEOREM TicksNeverReused == Spec => []TickNamesOneInput
<1>1. Init => TickInv
  BY DEF Init, NetworkInit, TickInv, TickNamesOneInput, ReportsBehind, Reports
<1>2. TickInv => TickNamesOneInput
  BY DEF TickInv
<1>3. QED BY <1>1, <1>2, TickInvStep, TypeInvInvariant, PTL DEF Spec

-----------------------------------------------------------------------------
\* What was delivered ends no later than the latest tick received.
DeliveredInv ==
  /\ DeliveredTicksIncrease
  /\ \A i \in DOMAIN to_application : LastTick(to_application[i].payload) <= last_tick_received

\* Every step of the system keeps DeliveredInv.
LEMMA DeliveredInvStep == TypeInv /\ DeliveredInv /\ [Next]_vars => DeliveredInv'
<1> SUFFICES ASSUME TypeInv, DeliveredInv, [Next]_vars PROVE DeliveredInv'
  OBVIOUS
<1>1. CASE UNCHANGED <<to_application, last_tick_received>>
  BY <1>1 DEF DeliveredInv, DeliveredTicksIncrease
<1>2. ASSUME NEW d \in uplink, HandleControllerInput(d) PROVE DeliveredInv'
  <2>1. PICK user \in UsersAt(d.src), cs \in ToControllerSequence(d.packet) :
           AcceptNewer(user, cs) \/ AcknowledgeOlder(user, cs)
    BY <1>2 DEF HandleControllerInput
  <2>2. CASE AcknowledgeOlder(user, cs)
    BY <1>1, <2>2 DEF AcknowledgeOlder
  <2>3. CASE AcceptNewer(user, cs)
    <3> DEFINE m == [from |-> user, payload |-> cs]
               old == to_application
               L(i) == LastTick(old[i].payload)
    <3>1. /\ old \in Seq([from : User, payload : Sequences])
          /\ last_tick_received \in Nat /\ cs \in Sequences
      BY DEF TypeInv, TypeOK, ServerTypeOK, TravelsTyped
    <3>2. /\ last_tick_received' = LastTick(cs) /\ LastTick(cs) > last_tick_received
          /\ LastTick(cs) \in Nat
      BY <2>3, <3>1, LastTickNat DEF AcceptNewer
    <3>3. \A i \in DOMAIN old : L(i) \in Nat /\ L(i) < LastTick(cs)
      <4> SUFFICES ASSUME NEW i \in DOMAIN old PROVE L(i) \in Nat /\ L(i) < LastTick(cs)
        OBVIOUS
      <4>1. old[i] \in [from : User, payload : Sequences]
        BY <3>1, ElementOf
      <4>2. L(i) \in Nat
        BY <4>1, LastTickNat
      <4>3. L(i) <= last_tick_received
        BY DEF DeliveredInv
      <4>4. QED BY <3>1, <3>2, <4>2, <4>3
    <3>4. CASE to_application' = old
      BY <3>1, <3>2, <3>3, <3>4 DEF DeliveredInv, DeliveredTicksIncrease
    <3>5. CASE to_application' = Append(old, m)
      <4>2. m.payload = cs
        OBVIOUS
      <4> HIDE DEF m
      <4>1. /\ DOMAIN to_application' = 1..(Len(old) + 1) /\ DOMAIN old = 1..Len(old)
            /\ \A i \in 1..Len(old) : to_application'[i] = old[i]
            /\ to_application'[Len(old) + 1] = m
            /\ Len(old) \in Nat
        BY <3>1, <3>5, AppendFacts
      <4>3. \A i \in DOMAIN to_application' : LastTick(to_application'[i].payload) <= last_tick_received'
        BY <3>1, <3>2, <3>3, <4>1, <4>2
      <4>4. DeliveredTicksIncrease'
        <5> SUFFICES ASSUME NEW i \in DOMAIN to_application', NEW j \in DOMAIN to_application', i < j
                     PROVE  LastTick(to_application'[i].payload) < LastTick(to_application'[j].payload)
          BY DEF DeliveredTicksIncrease
        <5>1. i \in 1..Len(old)
          BY <4>1
        <5>2. CASE j \in 1..Len(old)
          BY <4>1, <5>1, <5>2 DEF DeliveredInv, DeliveredTicksIncrease
        <5>3. CASE j = Len(old) + 1
          BY <3>3, <4>1, <4>2, <5>1, <5>3
        <5>4. QED BY <4>1, <5>2, <5>3
      <4>5. QED BY <4>3, <4>4 DEF DeliveredInv
    <3>6. QED BY <2>3, <3>4, <3>5 DEF AcceptNewer
  <2>4. QED BY <2>1, <2>2, <2>3
<1>3. ASSUME NEW p \in Clients, ClientStep(p) \/ IcmpRefused(p) PROVE DeliveredInv'
  BY <1>1, <1>3 DEF ClientStep, IcmpRefused, serverVars
<1>4. CASE ServerStep
  <2>1. CASE ServerSpin
    BY <1>1, <1>2, <2>1 DEF ServerSpin, ForwardFromServerToClient, ForwardAppMessages,
      AppDisconnected, ReceiveNothing, RejectControllerInput
  <2>2. CASE ServerApp \/ ServerQuit
    BY <1>1, <2>2 DEF ServerApp, ServerQuit, SendNewClient, SendClientDisconnect,
      SendWorldState, SendLastTick, SendLowLatency, ServerQuitDropSender, ServerQuitDropReceiver
  <2>3. QED BY <1>4, <2>1, <2>2 DEF ServerStep
<1>5. CASE UNCHANGED vars
  BY <1>1, <1>5 DEF vars, serverVars
<1>6. QED BY <1>3, <1>4, <1>5 DEF Next

(***************************************************************************)
(* The server's application gets sequences that end at ever later ticks.   *)
(***************************************************************************)
THEOREM DeliveriesAreOrdered == Spec => []DeliveredTicksIncrease
<1>1. Init => DeliveredInv
  BY DEF Init, ServerInit, DeliveredInv, DeliveredTicksIncrease
<1>2. DeliveredInv => DeliveredTicksIncrease
  BY DEF DeliveredInv
<1>3. QED BY <1>1, <1>2, DeliveredInvStep, TypeInvInvariant, PTL DEF Spec
=============================================================================
