# A verification project for game_network

`game_network` is a client/server networking layer for games. Each side runs an
application thread and servicer threads that talk to it over in-process queues.
A *low latency* servicer (UDP) carries controller inputs up and world states
down; a *reliable* servicer (TCP) carries the join handshake and chat. This
project models both halves and the data structures under them, checks them with
TLC on small instances and proves nearly all of the safety results with TLAPS for
all instances.

## 1. Inventory

| Component | Source | State | Operations |
|---|---|---|---|
| BitVec | `src/src/bitvec.rs` | `storage` (u32 words), `len_of_last` | `new`, `push`, `append`, `range`, `get`, `len`, `is_empty`, iteration |
| CompressedBitVec | `src/src/bitvec.rs` | payload bits, `element_size` | `compress`, `decompress` |
| ControllerSequence | `src/src/control.rs` | `start_tick`, `seq` | `push`, `remove_till_tick`, `last_tick`, `is_empty`, to and from the compressed form, `append` (no caller) |
| Client object | `src/src/client/mod.rs` | four queues, `world_state`, `chat_history`, `shutdown` | `connect`, `quit`, `send_controller_input`, `take_world_state`, chat |
| Client low latency servicer | `src/src/client/low_latency.rs` | `controller_seq`, a connected socket with a 4 ms read timeout | `spin`: receive half, send half |
| Server object | `src/src/server/mod.rs` | queues, `shutdown`, the listener's kill switch | `send_low_latency`, `send_reliable`, `receive_iter`, `quit` |
| Server low latency servicer | `src/src/server/low_latency.rs` | `address_user`, `last_tick_received`, a non-blocking socket | `spin`: application half, socket half |
| Queue and socket helpers | `src/src/util.rs` | none | drain a queue, receive at most one datagram |
| Messages and errors | `src/src/msg.rs` | none | `Warning`, `Drop`, `Exit` and the classification of I/O errors |
| Client reliable servicer | `src/src/client/reliable.rs` | stream, server UDP port | join, receive chat |
| Server reliable servicers, listener | `src/src/server/reliable.rs` | a stream and a user per thread, kill switch | accept, join, chat, shut down |

How they interact. `Client::send_controller_input` queues a snapshot of the
controller; the client's servicer pushes it to `controller_seq`, and on every
iteration sends the *whole* sequence, compressed, to the server. The server's
servicer looks the source address up in `address_user`, forwards a sequence
that ends later than everything before it to the application, and answers every
sequence with `LastTickReceived`. The client applies that to its sequence with
`remove_till_tick`. In the other direction the server's application queues
`NewClient`, `ClientDisconnect`, world states and ticks; the servicer drains the
queue, updates `address_user` and sends the latest message of each kind.
Either application quits by dropping its ends of the queues.

On the reliable side the listener thread accepts a connection and starts a
servicer thread for it, which waits for a `JoinRequest`, answers with
`Confirmation`, sends `ClientData` to the application and then spins: drain the
queue that *all* reliable servicers share, forward what is for its own user,
read one message from the client, look at the kill switch. `Client::connect`
sends the request, waits for the answer, and starts both client threads.

What is hard: four threads and a network that loses, repeats, delays and
reorders; retransmission against an acknowledgement that both removes and
*renumbers*; one tick counter for all users; an address book that changes while
packets are under way; shutdown that is signalled only by dropped queues, from
any point of two loops whose error paths skip half an iteration; a packet size
limit; word boundaries in the bit vector; one thread per connection competing
for one queue; streams whose reads block without a timeout and buffers that hold
nothing; a join in three steps that either side may abandon; a kill switch that
is looked at only between reads. The `hazards` of `PROJECT.json` list
each of these at its line.

What makes each component correct:

- BitVec is a list of booleans with one representation per list; the codec is
  lossless and total on what it may receive.
- The input protocol never reuses a tick, delivers in order, keeps the newest
  snapshots without a gap, acknowledges what was received, and credits inputs
  to the user who made them.
- The world state path reaches the right user, and goes forward.
- Threads end when their application quits, and not before without a reason.
- The reliable half answers a join before anything else, tells the application of
  a client once and first, and delivers what the application sends to the right
  connection, in order and at most once; connect returns, and quit ends the
  listener and leaves no connection open.

## 2. Modules

| Module | Models |
|---|---|
| `ControllerSequence` | `control.rs`. Operators on records `[start_tick, seq]`; the codec is a parameter. |
| `UdpNetwork` | External. Two sets of datagrams that only grow: whatever was sent may be received at any time, any number of times, or never. |
| `ClientLowLatency` | The application's low latency calls on `Client` and the client's servicer thread, for every client at once (functions of the client). |
| `ServerLowLatency` | The application's calls on `Server` and the server's servicer thread. |
| `LowLatency` | The composition, its assumptions, fairness and properties. |
| `MCLowLatency` | Instances for TLC, with the codec of `BitVecCodec`. |
| `LowLatencyProofs` | Proofs about `LowLatency`: types, ticks, order of deliveries. |
| `AddressBookProofs`, `InputStreamProofs`, `AcknowledgementProofs` | Proofs about `LowLatency`: address book, world states and the parser's loop; the refinement; acknowledgements and the ends of threads. |
| `InputStream` | The abstract specification of the input protocol, which `LowLatency` implements. |
| `TcpStreams` | External. TCP connections with both ends and what is under way in each direction, and the messages of `msg::reliable`. |
| `ReliableClient` | The client's reliable servicer, `Client::connect` and the chat calls of `Client`. |
| `ReliableServer` | The listener, the reliable servicer threads, `Server::new`, `send_reliable`, `quit` and the drop of a `Server`. |
| `Reliable` | The composition with peers, its fairness and properties. |
| `MCReliable` | Instances for TLC. |
| `ReliableProofs`, `ReliableOrderProofs` | Proofs about `Reliable`: types, life of connections and the join; the order of messages both ways. |
| `BitVec`, `BitVecCodec` | `bitvec.rs` as operators; a word is the set of its one-bits, `WordBits` is 32 in the source. |
| `BoolList` | The abstract specification of a BitVec. |
| `BitVecObject`, `MCBitVec` | One vector under its operations, shown to implement `BoolList`. |
| `BitVecProofs` | Proofs about `BitVec`, `BitVecCodec` and `BitVecObject`. |
| `LoopInduction` | Lemmas about loops: induction over their rounds, and that a recursive function over the rounds exists. |

An `Option` of the source is a set with at most one element. Operators named as
*variants* in the comments are plausible wrong versions of the definition after
them; no specification uses them. They exist so that each property can be shown
to fail when the code is wrong in that way.

### State and actions

One iteration of a servicer's `spin` is two actions, one per half of
`spin_once`; `client_pc` and `server_pc` say which half is next or that the
thread ended. A `Warning` goes back to the first half; `Drop` ends the client's
servicer but is only logged by the server's; `Exit` ends both.

- *Client, receive half*: `ReceiveTimeout`, `ReceiveRefused`,
  `ReceiveWorldState`, `ReceiveTruncated`, `ReceiveLastTick`.
- *Client, send half*: `SendDisconnected`, `SendNothing`, `SendTooLarge`,
  `SendRefused`, `SendDatagram`. The last four share `DrainAndSend`: the
  queue is drained and pushed before the outcome of the send is known.
- *Client's application*: `SendControllerInput`, `TakeWorldState`, and `quit`
  as two steps, because the servicer may run between the two drops.
- *Server, application half*: `ForwardFromServerToClient` (all sent, first send
  fails, second send fails), `AppDisconnected`.
- *Server, socket half*: `ReceiveNothing`, `RejectControllerInput`,
  `HandleControllerInput` (`AcceptNewer` or `AcknowledgeOlder`).
- *Server's application*: `SendNewClient`, `SendClientDisconnect`,
  `SendWorldState`, `SendLastTick`, and `quit` in two steps.
- *Environment*: `IcmpRefused` marks a connected socket after the server ended.

Draining a queue is one step although `try_recv` is called once per message:
the drain takes effect at its last `try_recv`, because a message queued before
that is included and one queued after it is not, and nothing else of the thread
is visible in between. `pushed`, `taken` and `worlds` are history variables and
guard nothing but bounds.

`parse_application_messages` is modelled by what a whole batch amounts to
(`AddressBook`, `Outgoing`). `ParseLoop` is the loop itself, message by message, and
`ParseMatchesLoop`, which the `worlds` run checks and `ParseIsItsLoop` proves, is
that the two agree.

The code as it stands never starts the two ends together: `Server::new` creates
the low latency servicer without spinning it, and the join over TCP reads into
an empty buffer. The low latency models take their servicer as running and the
address book as filled by the application's `NewClient`, which is what the code
around them is written for.

### The reliable half

**The read buffer.** Every `read` of the reliable half is given
`Vec::<u8>::new()`, whose length is 0: no byte is ever taken from a stream. In
the model the length of the buffers is `buf_len`, in messages, chosen once from
`ReadLens`. `buf_len = 0` is the source. Any other value is the same program with
a buffer that holds something, trimmed to what was read; it is there to check
the code behind the reads, which the source as written cannot reach. The runs
`reliable` and `reliable_stop` check both kinds of build at once;
`join_as_written` is the source alone. With a buffer of 2, two messages may come
in one read, and the second is lost, as the code decodes only one.

A read of no bytes, `UpReadsNothing` or `DownReadsNothing`, is an empty buffer,
the end of the stream, or a reset (sent by an end that closes with bytes
unread). With an empty buffer a read returns at once or when there is
something to read, depending on the system call the standard library makes, so
the model allows both and assumes only the second.

*Client* (`client_pc`). `Connect`, `ConnectFails`; while "joining" (in
`Servicer::connect`) or "spinning" (in `spin`): `ReceiveNothing`,
`ReceiveConfirmation`, `ReceiveAuthenticationError`, `ReceiveChat`; after a
message in `spin` the thread is "resting" and `Rest` goes on or ends in the
panic of `Instant` subtraction; an error leads to "leaving", and `DropServicer`
closes the stream; `SpawnServicers` is the rest of `Client::connect`, with
the failure of the low latency servicer's connect. The application calls
`SendChatMessage`, `TakeChatHistory`, `Quit`; `LowLatencyShutdown` is the other half
setting the flag they share; `ClientProcessEnds` is a crash or exit. `Quit` is one
step because the servicer never looks at the second of the two queues dropped.

*Server*. The listener (`listener_pc`): `ListenerStarts` or `ListenerFails`
(`set_nonblocking`), `Accept`, `AcceptFails`, `ListenerChecks` (the switch),
`ListenerJoins`. A servicer (`servicer_pc`), one action per access to something
shared: `JoinFails`, `ReadJoinRequest`, `ConfirmJoin`, `AnnounceClient`; then the loop
`DrainOne`, `DrainEnds`, `Forward`, `ForwardFails`, `ForwardEnds`, a read
(`ReadNothing`, `ReadChat`, `RejectRejoin`) and `CheckSwitch`. Here the drain is one
`try_recv` a step, because other servicers take from the same queue in between.
The application: `SendReliable`; `quit` in three steps; the drop without `quit` in two,
which leaves the switch alone.

*Peers* are other programs that speak the protocol: they send `JoinRequest` and
`ChatMessage` in any order and close at any time. They are needed because this
crate's client sends nothing after its `JoinRequest`.

`to_application` is kept per connection: the order between messages of different
servicers is not used by any property. `sent` and `taken` are history variables.

## 3. Runs

| Run | Instance | Shows |
|---|---|---|
| `inputs` | 1 client, 3 snapshots, ticks up to 7, packets of one word | `TypeOK`, `TickNamesOneInput`, `DeliveredTicksIncrease`, `HeldAreLatest`, `AckMeansReceived`, `ClientExitIsJustified` |
| `two_users` | 2 clients of 2 users, 2 snapshots each | `ImplementsInputStream`, `NoAckFromTheFuture` |
| `worlds` | 3 addresses of 2 users, batches of up to 3, 4 messages, 2 world states, one of them oversized | `NoCrossTalk`, `AddressBookIsOneToOne`, `ParseMatchesLoop` |
| `quit` | 1 client, mixed snapshot lengths, both sides may quit, fair | `ServerExitsOnlyOnQuit`, `ClientExitIsJustified`, `ShutdownIsJustified`, `ClientQuitEnds`, `ServerQuitEnds` |
| `bitvec` | vectors of up to 8 bits in words of 3 | `Canonical`, `IsEmptyAgrees`, `ActsAsList`, `CodecRoundTrip`, `MixedLengthsRejected` |
| `one_input_per_tick` | 1 client, 1 snapshot | violation of `OneInputPerTick` |
| `removed_inputs` | 1 client, 2 snapshots | violation of `RemovedWereReceived` |
| `shared_tick` | 2 clients of 2 users | violation of `AckIsOfOwnInput` |
| `world_order` | 1 client, 2 world states | violation of `WorldNeverGoesBack` |
| `reliable` | 1 client and 1 peer of one user, 2 messages each way, buffers of 0 and 2, quit and drop | `TypeOK`, `NothingOvertakes`, `OnlyOwnMessages`, `NeverOnTwoConnections`, `ConfirmationFirst`, `ConfirmedIsAnnounced`, `JoinThenChats`, `OnlyQuitCutsOff`, `NothingLeftOpen` |
| `reliable_stop` | the same with 1 message each way, buffers of 0 and 1, fair | `ConnectReturns`, `JoinIsAnsweredIfRead`, `ClientSeesEnd`, `QuitEndsListener` |
| `join_as_written` | 1 client, buffers of 0, fair | violation of `JoinIsAnswered` |

What the violations show, each against a line of the repository:

- `remove_till_tick` drains `last_tick - tick` snapshots from the front, which
  is the number *not* acknowledged. With the acknowledgement of everything sent
  it removes nothing; with that of an older packet it removes snapshots the
  server may never have got (`removed_inputs`).
- It then numbers what is left from `last_tick + 1`, so a snapshot gets new
  ticks and is forwarded again (`one_input_per_tick`). By the same rule a tick
  number is never given twice, which is what `TickNamesOneInput` says.
- `last_tick_received` is shared by all users, so a user who is behind another
  is not forwarded and is told a tick it never reached (`shared_tick`). With
  one user the stronger `AckMeansReceived` holds (`inputs`).
- World states are not ordered (`world_order`).
- With the buffers of the source no join is answered (`join_as_written`): the
  server's servicer fails to decode nothing and ends, the client takes no bytes
  for a closed stream.

`InputStream` is what is left of "one input per tick": runs of consecutive
inputs, each credited to the user whose client made them, each ending at a
later tick than all before. Inputs may be missing between runs and may be in
several runs, which is what the first two violations are about.

Other places where the code and its comments differ, modelled as the code has
them and without a run of their own: a `Drop` does not "drop a client"
(`src/src/msg.rs:45`), `Servicer::spin` only logs it (`OnlyQuitCutsOff` holds because
of that); the queue to "all reliable servicers" (`src/src/server/reliable.rs:51`)
gives each message to one of them, who discards it if it is for another user;
the listener does not stop when the switch "goes out of scope"
(`src/src/server/reliable.rs:110`); chat is not forwarded to the server
(`src/src/client/mod.rs:146`), and `quit` does not reach the client's reliable
servicer through its queues (`src/src/client/mod.rs:105`): it ends when the server
closes the stream or when a chat message cannot be handed on.

Bounds. Every one is a constant in a guard: `MaxInputs`, `MaxTick` (a client
applies acknowledgements only below it), `MaxProbes`, `MaxWorldQueue`,
`MaxAppQueue`, `MaxAppMessages`, `MaxWorlds`. Three snapshots and tick 7 allow two
renumberings with packets of all three generations on the network together,
which is where reuse of a tick would show; words of 5 bits and a limit of 33
bytes make two different snapshots, or one repeated, fit a packet while three
different ones do not, so the size limit is met on both sides. Three addresses for two users
allow a rejoin from another address with the old one still booked. Words of 3
bits and 8 bits in all cross two word boundaries with elements of up to 5 bits.

In the reliable half the bounds are `MaxSent`, `MaxUp` and `MaxChatOut`, in guards
of the applications and peers, and `AppKinds`, the kinds of message the server's
application sends (chat in `reliable`, `AuthenticationError` in `reliable_stop`).
Two connections of one user compete for messages to that user, which is where
one could be delivered twice; messages to a second user, who is not
connected, must go nowhere. Two messages each way are enough for an overtaking,
for two in one read, and for a peer to join and then chat or join again. The
client's chat calls that only fill a queue nobody reads are exercised in
`reliable_stop`. No symmetry is used.

Fairness (`FairSpec`, in `quit`). Weak fairness of each servicer thread: its loop
never blocks, the client's for more than the 4 ms read timeout, the server's not
at all. Weak fairness of the second drop of each `quit`, which is the next
statement of the same function. Nothing is assumed of the network, of the
applications, or of which outcome a receive has. `quit` switches off the deadlock
check because both sides really stop there. Its world states fit a packet: an
endless stream of datagrams that do not deserialize would keep the client in the
receive half, and whether such a stream can be unbroken is a question of time,
which is not modelled.

In `Reliable` the threads are weakly fair in the steps they take without waiting,
and in a read only when there is something to read or the other end has closed:
the streams have no timeout, so a read may block for ever, and does when a client
is silent. `accept` is strongly fair: it may fail, with `WouldBlock` or otherwise,
but not for ever while connections wait. The steps of `quit` and of the drop after
the first are weakly fair. Nothing is assumed of applications and peers, so
`QuitEndsListener` has the condition that every client leaves. These runs switch
off the deadlock check: a server that has quit and clients that have left stop.

## 4. Proofs

Every safety property the passing runs check is also a theorem: all their
invariants, and both refinements. The theorems hold for every set of clients,
peers, users and snapshots, every value of the bounds, every packet limit, codec,
buffer length and word width that satisfies the assumptions:

| Module | Theorem | States |
|---|---|---|
| `LowLatencyProofs` | `TypeCorrect` | `Spec => []TypeOK` |
| | `TicksNeverReused` | `Spec => []TickNamesOneInput` |
| | `DeliveriesAreOrdered` | `Spec => []DeliveredTicksIncrease` |
| `InputStreamProofs` | `ServicerHoldsTheLatest` | `Spec => []HeldAreLatest` |
| | `ProtocolImplementsStream` | `Spec => ImplementsInputStream` |
| `AcknowledgementProofs` | `AcksAreNotFromTheFuture` | `Spec => []NoAckFromTheFuture` |
| | `AcksMeanReceived` | `Spec => []AckMeansReceived`, if `SingleUser` |
| | `ServerLeavesOnQuit` | `Spec => []ServerExitsOnlyOnQuit` |
| | `ClientLeavesForAReason` | `Spec => []ClientExitIsJustified` |
| | `ShutdownForAReason` | `Spec => []ShutdownIsJustified` |
| `AddressBookProofs` | `AddressBookStays` | `Spec => []AddressBookIsOneToOne` |
| | `WorldsReachTheirUser` | `Spec => []NoCrossTalk` |
| | `ParseIsItsLoop` | `Spec => []ParseMatchesLoop` |
| `ReliableProofs` | `ReliableTypeCorrect` | `Spec => []TypeOK` |
| | `NoConnectionOutlivesTheListener` | `Spec => []NothingLeftOpen` |
| | `AnswerComesFirst` | `Spec => []ConfirmationFirst` |
| | `ConfirmedClientIsKnown` | `Spec => []ConfirmedIsAnnounced` |
| | `AnnouncedClientIsKept` | `Spec => []OnlyQuitCutsOff` |
| `ReliableOrderProofs` | `JoinComesFirstThenChats` | `Spec => []JoinThenChats` |
| | `MessagesKeepTheirOrder` | `Spec => []NothingOvertakes` |
| | `ClientsGetTheirOwn` | `Spec => []OnlyOwnMessages` |
| | `EachIsDeliveredOnce` | `Spec => []NeverOnTwoConnections` |
| `BitVecProofs` | `RepresentationHolds` | `Spec => []Represented` |
| | `CanonicalHolds` | `Spec => []Canonical` |
| | `IsEmptyHolds` | `Spec => []IsEmptyAgrees` |
| | `ActsAsListHolds` | `Spec => ActsAsList` |
| | `OnlyMixedLengthsRejected` | `compress` rejects exactly the sequences with elements of several lengths |
| | `MixedLengthsHolds` | `Spec => []MixedLengthsRejected` |
| | `CodecLossless` | what `compress` makes of a sequence, `decompress` turns into that sequence |
| | `CodecRoundTripHolds` | `Spec => []CodecRoundTrip` |

Assumptions. Low latency: `CodecAssumption` (what was compressed decompresses to
itself; `CodecLossless` proves it of the code's codec for all snapshots that are
BitVecs, and TLC evaluates it on every instance),
`BoundsAssumption` (bounds are natural numbers) and `UserOfAssumption`. Reliable:
`StreamsAssumption` and `ClientAssumption` (bounds and buffer lengths are natural
numbers, no client is a peer), `ServerAssumption` (every connection has a user,
and the application sends kinds of message that exist) and `MayAssumption`. BitVec:
`WordBitsAssumption` (a word has at least one bit) and `ObjectAssumption` (the bound
and the element sizes are natural numbers, the vectors appended are lists of
booleans).
`SingleUser`, the hypothesis of one theorem only, is that all clients are of one
user and that the application sends no acknowledgements itself; the run `inputs`
is such an instance, and `shared_tick` shows what happens otherwise.

### The low latency half

`TypeOK` alone is not inductive. `TypeInv` adds `TravelsTyped`, the types of
what is on the network and in the server's queue (a received tick becomes part
of the client's state), and `HeldWerePushed`: the snapshots held and queued are
no more than the application sent, which bounds the sequences. The proof has a
lemma per thread and half, and a step per action.

`TickNamesOneInput` talks about packets only. It is inductive together with
`ReportsBehind`: every packet on the network agrees with the sequence the client
now holds, and ends no later than it. `AgreeAfterPush` keeps that under pushes,
since new snapshots get ticks past all reported ones; `AgreeAfterRemoval` keeps
it under acknowledgements, since `start_tick` moves past `last_tick` whatever
tick was acknowledged. The acknowledged tick does not matter, so the theorem
holds with shared, stale and repeated acknowledgements.

`DeliveredTicksIncrease` is inductive with the bound that no delivered sequence
ends after `last_tick_received`.

`HeldAreLatest` says that what a servicer holds, then what is queued for it, is
the end of what its application sent. Draining moves the border between the two
and an acknowledgement moves its beginning. From it follows `ReportsAreWindows`:
a packet is a window of what was pushed, and stays one as more is pushed. That,
`BookIsCredited` (below) and the bound of `DeliveredTicksIncrease` are what a step
of `InputStream` asks of a delivery; all other steps of the protocol are pushes
or stutter.

The server's half of a step is one of four (`Enqueues`, `Serves`, `Answers`,
`Rests`), which `ServerSteps` proves once and the proofs about address book and
acknowledgements use. `AddressBookIsOneToOne` is inductive by itself.
`NoCrossTalk` needs to be followed back to where a world state comes from:
`BookIsCredited` (the book, and the `NewClient`s in the queue, give an address to
the user who is there) and `WorldsAreAddressed` (in the queue a world state is
addressed to its user; on the network, to a client of that user).

`NoAckFromTheFuture` is inductive with the same fact about `last_tick_received`
and with `ReportsEndAfterZero`: since no packet is empty, a packet that is not
newer than `last_tick_received` cannot be answered with the initial 0.
`AckMeansReceived` is inductive with the same fact about `last_tick_received`
while the servicer runs: it sets the tick before it hands the sequence on, and
when that fails it leaves without an acknowledgement.

The exits need that a marked socket means an exited server, and that the reason
a servicer left for stays: after it ended its sequence does not change.

`ParseMatchesLoop` needs no invariant but the types. `AddressBookOneMore` and
`OutgoingOneMore` say what one more message does to the batch form, `BodyCases` what
a round does to the state of the loop, and the two agree after every number of
rounds.

### The reliable half

`Life` relates the ends of a connection to the program counters of client, servicer
and listener (`EndsMatch`, `ClientMatches`), which is what `NothingLeftOpen` needs: a
servicer that has not ended has an open end, and the listener leaves only after all
have ended, or before any began. `TypeOK` is inductive together with it, because a
connection that is accepted must not have a thread, or a batch, already.

`JoinInv` is about the join: what the application was told, by where the servicer is
(`Told`); nothing is written before the answer, and whatever is written is of a
client the application knows or will know (`Answered`); a client that waits finds
the `Confirmation` at the head of the stream (`Waits`). The last needs that a
servicer past its answer has left something to read, or the client would have
read it and be past waiting. `ConfirmationFirst`, `ConfirmedIsAnnounced` and
`OnlyQuitCutsOff` follow. The steps of one side are summarised for the other
(`ServerSide`, `ClientActs`), so that the join is not proved action by action for
both.

`Chats` is `JoinThenChats` with the stream added: numbers increase along what the
application was told and then along the stream, and none is larger than what the
peer has sent. A read that takes several messages drops all but the first, which
keeps the order.

`WayInv` is the invariant for the other direction. For each connection there are
five stations: given to the application, waiting in the client's queue, on the
stream, in the batch, in the shared queue. `Line` says that numbers increase
within each, that every station is below those after it, and that no number
exceeds the number of messages sent. It is stated for every pair of stations
because one in the middle may be empty. `WaySteps` reduces all actions to nine
things a step can do to the stations of a connection; for each, a lemma (`LineDrains`,
`LineForwards`, `LineReads`, ...) about sequences of numbers alone shows that the
line is kept. A message that *another* servicer drains only shortens the queue,
which is why the order survives the competition for it. `NothingOvertakes` is
that the five stations in a row are in order. `OnlyOwnMessages` needs `Genuine`,
that queue and batches carry messages under the addressee they were sent to.
`NeverOnTwoConnections` needs `Apart`, that no two connections hold the same
message, their batches included: a message is added to what a connection holds
only by draining it, it was then in the queue and so above all that anyone held,
and one step changes one batch (`OneBatch`).

### BitVec and its codec

The operators of `BitVec` and `BitVecCodec` are loops, and what a loop computes is
proved by induction on its rounds. The library's induction theorems take the
property as an operator, which the provers cannot instantiate. `LoopInduction`
takes it as a *set* of numbers instead: a set of numbers that is not empty has a
least element (from the well-foundedness of the order on numbers), so a set that
contains 0, and with a number its successor, contains all (`SetInduction`,
`BoundedInduction`). `LoopStates` proves by the same means that a loop whose body is
a function on a set of states has a sequence of states, which is what the definition
of a recursive function rests on.

`BitVecs` is the representation invariant: a vector has no unused word but possibly
its only one, and no one-bit beyond the bits in use. `PushBits` says that `push`
keeps it and appends one bit, with the two cases of the source, a full last word or
not; it rests on the uniqueness of quotient and remainder (`DivModUnique`), by which
the pushed bit has a position of its own. `BitsDetermine` says that vectors in
`BitVecs` with the same bits are equal, hence `Canonical`; `AppendBits` and `RangeBits`
say that the other operations change the bits as they change a list, hence
`ActsAsList`.

`CodecLossless` runs both loops at once (`LoopsInStep`): after `k` rounds, `compress`
has written the payload that `decompress`, starting at its front, has read when it
has rebuilt the first `k` elements; the same element is the previous one in both,
and what is written later does not change what was read (`CompressExtends`).
`CodecRoundTrip` starts from a payload that nobody compressed. `ReadsOn` follows
`decompress` over it: the bits read so far, compressed again, take no more than the
bits that were read, because a full element that repeats its predecessor is written
as one bit. `OnlyMixedLengthsRejected` says that `compress` accepts what `decompress`
returned.

### Only model-checked

The liveness properties, `ClientQuitEnds`, `ServerQuitEnds`, `ConnectReturns`,
`JoinIsAnsweredIfRead`, `ClientSeesEnd` and `QuitEndsListener`: the provers do not
handle fairness.

## 5. Not modelled

- `ControllerSequence::append`, which has no caller.
- `Server::receive_iter`, which hands out the receiving end of a queue and changes
  nothing; the model records what is sent into that queue.
- Both halves in one state space. They share the `shutdown` flag of `Client`
  (`LowLatencyShutdown`) and the queue to the server's application; the join gives the
  low latency half its port and, through the application, its `NewClient`, which
  `LowLatency` leaves to the application as the code does.
- A TCP message split over two reads, write buffers that are full, and failures of
  `thread::spawn`. Accepted sockets block, as on Linux.
- Overflow of tick numbers: `usize`, one per snapshot or acknowledgement.
- The clock: only that a read times out, and that the client's sleep may panic.
- I/O errors other than a refused connection and a failed send at the low latency
  server, and the closed and reset streams of the reliable half: a failed
  acknowledgement is a lost datagram.
- Passwords: `authenticate_user` accepts everybody.
- Logging, the example program, serde's derived code.

## 6. Where it could go

All safety properties are proved. What could be added:

1. *One state space for both halves*, with the join over TCP feeding the address
   book of the low latency half, once `Server::new` spins that half.
2. *Splitting of TCP messages over reads*, once the read buffers have a length.
