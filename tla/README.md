# TLA+ models of the QUIC simulation

The repository simulates QUIC on OMNeT++/INET: a *connection manager* module on
each host, driven by messages of the application, packets from a UDP socket and
timers, and below it one connection object per connection, at the client or at
the server. These modules model the data transfer of one connection - what the
client keeps about packets, streams and windows, what the server keeps about
packet numbers, the ACK frames between them, and the network that loses packets -
the setting up of several connections between several hosts and one server, the
reconnection that sends data before the answer of the server (0-RTT), and the
message classes all of them are built from.

## The system

| component | source | state | operations | talks to |
|---|---|---|---|---|
| connection manager | `ConnectionManager.cc` | the list of connections, one ACK timer per server connection, remembered transport parameters | `handleMessage` (application messages, timers), `socketDataArrived` (packets) | calls the connections; sends to the socket; schedules timers |
| client connection | `QuicConnectionClient.cc`, `QuicConnection.cc` | `packet_counter`, `Bytes_in_flight`, `send_unacked`, `duplicate_Acks`, `ACKED_out_of_order`, `waiting_retransmission`, `packets_to_send` | handshake, send, ACK, loss, retransmission | owns the next three |
| streams | `QuicStreamArr.cc` | per stream: size, offset, window, acknowledged bytes, blocked, done | fill a packet, block and free, acknowledge, return credit | called by both connections |
| send queue | `QuicSendQueue.cc` | copies of unacknowledged packets; each copy is its own RTO timer | find, remove, find lost | called by the client connection |
| congestion control | `QuicNewReno.cc` | `snd_cwnd`, `ssthresh`, `snd_una`, `snd_max`, `recover`, `lossRecovery`, round trip estimate | ACK, duplicate ACK, timeout | called by the client connection |
| server connection | `QuicConnectionServer.cc` | `rcv_next`, `received_out_of_order`, `current_largest`, streams seen and done | packet, stream frame, handshake | called by the manager |
| receive queue | `QuicReceiveQueue.cc` | per stream being received: bytes counted, final size | count, check, remove | called by the server connection |
| ACK frame | `createAckRange`, `handleAckTimeout`, `processPacketFrames` | none | pack, unpack | server to client |
| connection set-up | `ConnectionManager.cc`, `ProcessInitiateHandshake` | connection lists, connection IDs, the Initial packet that is its own timer, `connections_done` | application message, Initial, its timeout, response, end | both managers |
| 0-RTT | `ConnectionManager.cc`, `ProcessClientZeroRtt` | `old_trans_parameters` | reconnection, data before the response | both managers |
| message classes | `headers_and_frames/*_m.cc`, `timer_msg_m.cc`, `ack_timer_msg_m.cc`, `retransmission_info_m.cc` | members, one array | set, copy, pack, edit through the descriptor | used by all |
| applications | `Client_Module.cc`, `Server_Module.cc` | one timer | send one configuration message | the manager |
| statistics | `handleUpdateThroughput*` | counters, two timers | emit signals | result files only |

A handler runs to its end before the next event; there are no threads. What is
hard is the order of events: any packet may be lost in either direction, an RTO
timer may expire while the packet or its ACK is still on its way, an ACK may be
overtaken by the retransmission it would have made unnecessary, and one handler
changes the same counters through five methods. The retransmission design adds
to it: a retransmitted packet gets a new number and carries the history of its
earlier ones, the server books all of them, and the client removes packets in
three different ways (listed in an ACK, implied by an in order ACK, found lost).

What makes each component correct:

* ACK frame: the client reads exactly the numbers the server wrote, into an
  array of the right size.
* Server: no number that arrived is forgotten, none that did not is reported,
  and none waits at or below `rcv_next`; every arrival leads to an ACK.
* Client: each byte taken from a stream is in one packet of the send queue or
  acknowledged once; flight size and credit follow the queue; a timer runs for
  queued packets only; the window allows progress.
* Set-up: IDs tell the connections of a list apart although they are random, a
  connection keeps the one counterpart it got whatever copies of its Initial
  packet arrive, a response finds its connection and its Initial packet, and
  the server knows when the last connection is over.
* 0-RTT: early data changes the books of the connection as late data does, and
  the answer, when it comes, finds them in order; the handshake is retried
  until it comes.
* Message classes: an object is a value; a copy shares nothing with its
  original.
* The whole: a byte is acknowledged only after it arrived, the connection
  closes only when everything arrived, and it does close.

`PROJECT.json` lists the hazards at their lines, with the properties that cover
them.

## Modules

| module | models |
|---|---|
| `QuicAckRanges` | packing and unpacking an ACK frame, as operators |
| `QuicConnectionServer` | the server connection with its receive queue, streams and ACK timer |
| `QuicStreamArr`, `QuicSendQueue`, `QuicNewReno` | the parts of a client connection, as operators on their state |
| `QuicConnectionClient` | the client connection, its RTO timers and the handlers that drive it |
| `QuicTransfer` | a client, a server (`INSTANCE`) and two lossy channels |
| `QuicZeroRtt` | `QuicTransfer` for a reconnection: Initial packet, early data, response |
| `StreamDelivery` | the abstract specification: what a connection promises the application |
| `QuicRetransmission` | between the two: how numbered packets and retransmissions keep the promise |
| `QuicHandshake` | the connection managers of the client hosts and of one server: IDs, Initial packets, responses, ends |
| `QuicMessages` | the members and the descriptors of the 24 message classes |
| `QuicMessageObjects` | objects of a message class, with the memory of their arrays |
| `MessageValues` | the abstract specification of these objects: values |
| `FoldTheorems`, `QuicConnectionClientProofs`, `QuicConnectionServerProofs`, `QuicTransferProofs`, `QuicZeroRttProofs`, `QuicRetransmissionProofs`, `QuicHandshakeProofs`, `QuicMessageObjectsProofs` | theorems and lemmas |
| `MCMessages`, `MCServer`, `MCTransfer`, `MCZeroRtt`, `MCHandshake` | instances for TLC |

`QuicHandshake` stands beside `QuicTransfer`: it has many connections, of each
of which a transfer is two steps, and `QuicTransfer` has one connection whose
set-up is one step.

### State and actions

Server variables have the names of the code. The list `received_out_of_order`
is a set, because the code sorts it and removes duplicates after each insertion.
`ack_timer` says whether the ACK timer is scheduled. `ReceivePacket` is
`ProcessServerReceivedPacket`, `setAckTimer` and the frames of a data packet;
`AckTimeout` is `handleAckTimeout`. The loop that pops the list is the closed
form `Popped`; the property `PoppedIsTheLoop` compares it with the loop itself.
`arrived` is a history variable.

The client is one record, `client`, and each method is an operator from records
to records, so that a handler reads like the calls it makes: `ReceiveAck` is
`cancelRTOonPackets`, `ProcessClientACK`, `updateLostPackets`, `getLostPackets`,
`sendReadyPackets`. A copy in the send queue and its timer are one object in the
code; here `queue` holds the packets and `timers` the numbers whose timer is
scheduled. Packets carry frames with stream, offset, length and FIN, and no
content. Headers, padding and the packet size are kept as far as the windows see
them (`HeaderSize`, `MinPacketSize`, `MaxPayload`). `updateFlowControl` pops
the header of an acknowledged packet before its length is added to
`send_unacked` (`QuicConnectionClient.cc:295`); whether the length still counts
a popped header is up to INET, so `PoppedSize`, what the pop takes off, is a
constant, 0 in `completion` and a header elsewhere. `QuicNewReno` computes modulo
`Word`, 2^32 in the code.

Stream identifiers are positions in the stream array, starting at 1.
`last_stream_index_checked` is `last`. `bytes_left_to_send_in_stream` is not
kept, because it always changes together with the offset.

`QuicTransfer` adds `acks`, the channel back, the counters of its bounds and the
history variable `delivered`. There is no clock: a scheduled timer may expire at
any moment. The networks of the repository (PPP links with a packet error rate,
drop tail queues, droppers, a cloud with constant delay) keep the order of
packets, so the channels are sequences that lose elements and never reorder or
duplicate them.

In `QuicHandshake` a client connection is a record with its IDs and whether its
Initial packet is in the send queue; the copy there is the timer, so that is
also whether the timer is scheduled. `Live(h)` is the list of a client host and
`servers` that of the server. `AddNewConnection` is the SENDER message,
`HandshakeInit` and `InitialTimeout` the handlers of these timers,
`ReceiveInitial` and `ReceiveResponse` the two branches of `socketDataArrived`
for long headers, `ServerEnds` the booking of a connection that ended and the
comparison that stops the timers of the statistics, and `ClientCloses` the
deletion. The two are independent: the client closes when its bytes are
acknowledged (`ConnectionManager.cc:536`), whatever the server has counted, and
the server may never take the transfer for ended. `failed` is set where a handler passes `cancelEvent` a null pointer
or schedules a timer twice, which ends a simulation.

In `QuicZeroRtt` the send queue holds the copy of the Initial packet too, under
the number -1 that its header really has, and `data` and `acks` carry the
Initial packet and the response among the packets and ACK frames.
`HandshakeInit` is `handleHandshakeInit` with `ProcessClientZeroRtt`. The
Initial packet and the early data leave at one instant with one timeout, so
`HandshakeTimeout` lets their timers expire together; after the first answer
`DataTimeout` lets each expire alone. The server ignores early data that comes
before the Initial packet (`ServerIgnores`). A remembered set of transport
parameters is taken to equal the one in the response, as both come from the
same server module. `failed` is set where the code ends the simulation: a long
header read as a short one, a null `retransmission_info`, a division by zero.

The connection window of a client is taken from the parameter of the stream
window (`ConnectionManager.cc:66`), so `ConnectionWindow` equals `StreamWindow`
in all instances.

A message class in `QuicMessages` is the list of its members with their
defaults and the list of the fields of its descriptor, read from the generated
file; the methods, which are the same text in every class, are written once in
`QuicMessageObjects`. An array member is a pointer to a block and a size,
because that is where copying, resizing and destroying can go wrong; `memory`
has the blocks and the objects, and a block that is deleted is gone from it. In
some behaviours the objects are ACK frames made by the branches of
`handleAckTimeout` from a server state (`Reports`), and the client reads them,
or copies of them, with the decoder of `QuicAckRanges`.

`Delivery` in `QuicTransfer` is the refinement mapping to `StreamDelivery`:
written bytes are those of the streams, acknowledged ones those that left their
stream and are in no packet of the queue, and closed is the deletion of the
connection. `ImplementsDelivery` is the refinement. `Retransmission` maps to
`QuicRetransmission`, which has packets with their numbers and bytes, and leaves
out streams, windows, timers and ACK frames: there each handler of the client
is one `ClientTurn` that may drop what arrived, replace packets by
retransmissions, and add packets with new bytes. `ImplementsRetransmission`
says that the handlers do no more than that.

## Runs

| run | instance | checks | result |
|---|---|---|---|
| `messages` | two objects of each class, three changes, arrays up to 2; ACK frames of all server states with numbers up to 10 | `OwnsItsBlock`, `BehavesLikeValues`, `RoundTrip`, `ArrayFits` | hold |
| `server_arrivals` | five arrivals of numbers up to 5, any order, repetition and history of up to two numbers | type, `WaitingAboveNext`, `QuietMeansReported`, `AckHasContent`, `ArrivedIsKept`, `NeverTakenBack`, `PoppedIsTheLoop` | hold |
| `transfer` | streams of 6 and 4 bytes, packets of 2, stream window 9, one lost packet, one lost ACK, two early timeouts | bookkeeping of the client, `InOrderArrived`, `ClosedIsComplete`, `SendsWithinWindow`, `NeverFails`, `ImplementsRetransmission`, `ImplementsDelivery` | hold |
| `completion` | a stream of 6 one byte packets and one added at any moment, three lost packets, one early timeout, no lost ACK | `WindowNeverStarves`, `EventuallyClosed` | hold |
| `stuck` | one lost packet and one lost ACK | `EventuallyClosed` | violated |
| `spurious` | one lost packet, one lost ACK, one early timeout | `StreamDoneIsComplete` | violated |
| `server_ended` | two lost packets | `EndedIsComplete` | violated |
| `handshake` | two connections of one host, two lost Initial packets, two lost responses | `NeverFails`, `KeepsPeer`, `EventuallyDone` | hold |
| `handshake_ids` | three connections of two hosts, random numbers out of three that may repeat, one early timeout | `IDsDistinct`, `Paired`, `StopsWithTheLast` | hold |
| `zero_rtt` | streams of 9 and 5 bytes, three lost Initial packets, three lost ACKs | `NeverFails`, `FlightMatchesData`, `CreditConserved`, `HandshakeIsRetried`, `SendsWithinWindow`, `ImplementsDelivery`, `EventuallyClosed` | hold |
| `zero_rtt_lost` | one lost 0-RTT packet | `NeverFails` | violated |
| `zero_rtt_response` | the response lost | `HandshakeIsRetried` | violated |

What the properties of `transfer` say:

* `BytesConserved`: for each stream, bytes sent are bytes acknowledged plus bytes
  in the send queue. `FlightMatchesQueue` and `CreditConserved` say the same of
  `Bytes_in_flight` and of the stream windows.
* `UnaBehindMax`: the acknowledged sequence number never overtakes the one sent.
* `TimersAreQueued`: what was acknowledged is never sent again later.
* `NumbersNameOnePacket`: retransmission never splits or merges packets.
* `InOrderArrived`: what the server reports as in order did arrive.
* `ClosedIsComplete`: the connection is deleted only when the server has every
  byte, and leaves no timer behind.
* `SendsWithinWindow`: new data respects both windows.
* `NeverFails`: the simulation goes on. The congestion window is not zero when it
  divides, no packet with a long header is read as one with a short header, and
  a packet found lost has a description.
* `ImplementsRetransmission`: what an in order ACK takes out of the queue beyond
  the numbers it lists did arrive, a retransmission carries the bytes and all
  the numbers of the packet it replaces, and new packets carry new bytes.

What those of the handshake runs say:

* `NeverFails`: a response finds the Initial packet of its connection, and no
  timer is scheduled twice. `KeepsPeer`: an open connection keeps its
  counterpart; a late response would give it another in the middle of the data.
* `EventuallyDone`: lost Initial packets and responses are made up for.
* `IDsDistinct`, `Paired`: packets, which carry nothing but a destination ID,
  reach the connection they are for.
* `StopsWithTheLast`: the timers of the statistics run until the last of the
  server's connections has ended, and stop then. The code compares the sizes of
  a set of IDs and of a list, so this rests on the IDs being distinct. Both
  sizes may agree while another connection is still to come; the property
  allows that.

What those of `zero_rtt` say: `NeverFails` that packets with a long header, a
copy of the Initial packet in the send queue and a segment size that is still
zero do no harm; `FlightMatchesData` that the Initial packet,
which sits in the send queue and is not counted in flight, does not disturb the
count when it leaves; `CreditConserved` that the response, which sets the
windows of streams that sent already, does not grant credit twice;
`HandshakeIsRetried` that the timer of the Initial packet runs until the
response comes;
`SendsWithinWindow` that the loop for early data, which stops only at a window
of exactly zero, does not run past it; and `EventuallyClosed` that a connection
whose early data the server ignored still delivers it.

What those of `messages` say: `OwnsItsBlock` that no two objects share an array
and none is lost or deleted twice; `BehavesLikeValues` is a
refinement of `MessageValues`, about copies, packing and array changes. The
model has one list of members for each class, where the code writes them out in
`copy`, `parsimPack` and `parsimUnpack`; the three lists are the same in all 24
classes, and a later slip in one of them would not be seen here.

### What the violations show

* `stuck`: an in order ACK cancels the timers of all older packets, but removes
  them from the queue only if the smallest packet of the ACK is still queued.
  If that one was retransmitted under another number, older packets stay with
  no timer. `completion` marks the border: with losses of data only, the
  connection always completes, with one loss in each direction it may not.
  Links with a packet error rate, as in `QuicHighLossNetwork.ned`, lose in both
  directions.
* `spurious`: the server counts the bytes of a retransmission again when the
  first copy waits out of order, and may close a stream that misses bytes.
* `server_ended`: `ended` is set when the streams seen so far are done.
* `zero_rtt_lost`: a 0-RTT packet that later ACKs find lost waits for its
  retransmission with its long header, and the loop that logs the waiting
  packets peeks a short one.
* `zero_rtt_response`: an in order ACK cancels the timers of everything below
  its smallest number, and the Initial packet has the number -1. If the
  response was lost, nothing asks for it again. `zero_rtt` marks the border: it
  loses neither the response nor 0-RTT packets.

The details, with the lines and comments, are the findings in `PROJECT.json`.

Some more things the model shows have no run. `send_unacked` misses packets that
were acknowledged while others waited out of order, so the flight size used on
leaving recovery (`QuicNewReno.cc:102`) can be too large; only that window
depends on it. Each copy of an Initial packet makes a server connection, and
after a lost response the first of them is never used, never ends and is never
deleted; so, by `StopsWithTheLast`, the timers of the statistics run for ever,
also when every transfer is over at both ends. The same follows when the byte
count of a stream runs past its final size (see `spurious`). The timers also
stop when all connections so far are over, and nothing starts them for one that
comes later.
And if the response takes longer than the first timeout of an Initial packet, a
second one follows, for which `findInitialPacket` returns a null pointer: with
`MaxEarlyTimeouts` 1 and distinct numbers `NeverFails` of the handshake is
violated. The first timeout is 3 s, far above the delays in the repository's
networks, so `handshake` has 0.

### Bounds

`MaxNumber`, `MaxReceived`: the server looks at the order of numbers only, and
five arrivals make two holes, a history across them and a repetition of any of
them. `MaxDataLosses`, `MaxAckLosses`, `MaxEarlyTimeouts` bound the network and
the timers that expire while something is on its way; a timer that expires when
nothing is on its way is not bounded. The instances are chosen so that streams
share packets, a stream is held back by its window, an ACK arrives in and out of
order, retransmissions are lost or unnecessary, and (`completion`) fast recovery is
entered, inflated and left. `Word` is 4096, small enough to make a wrap visible
and larger than any size that occurs. `kPacketThreshold` is 3 as in the code.

`Losable` in `QuicZeroRtt` names the kinds of packets that may be lost. Either
the response may be lost or data and ACKs, because a second Initial packet at
the server makes a second connection there, which is in `QuicHandshake` only
(`ZeroRttAssumption`). Three losses of Initial packets make the early data be
sent and ignored up to four times.

In `messages` two objects are enough for copying and assigning, and three
changes for an array to be made, changed and copied over; a value is 0 or 1, as
the methods only carry values along. Numbers up to 10 give ACK frames of up to
five ranges.

`IDs` stand for the values of `std::rand`. With `Repeats` false a value is drawn
once, as almost always with 31 bits, and the draws are interchangeable, so the
smallest value left is taken; nine values are enough for every draw of these
instances. With `Repeats` true any value may come again: three values for the
six IDs of three connections make the server draw new IDs, and run out of them
(there the loop of the code would go on for ever, and the model takes no step).
`MaxInitialLosses` and `MaxResponseLosses` bound the network; `MaxEarlyTimeouts`
bounds only timeouts while a packet of that handshake is on its way.

All runs say `CHECK_DEADLOCK FALSE`: the transfer and the handshake stop when the
connections are closed and the channels empty, and the server alone stops at its
bound. (A connection of `zero_rtt_lost` stops where the simulation would end.)

### Fairness

The simulation kernel executes every scheduled event. So a packet that is not
lost arrives, an ACK timer that is scheduled expires, and an RTO timer that is
not cancelled expires. `FairSpec` states this; losing packets and adding streams
get no fairness. Weak fairness is enough because none of these is disabled
again by anything but itself, a loss (bounded), or, for an RTO timer, an ACK; it
is stated on the part of the state that only the action in question changes.

`ZeroRttFairSpec` is the same for a reconnection; that it sends its Initial
packet at all is part of it (`HandshakeInit` is a scheduled timer).

In `QuicHandshake` the same holds of the handshake timer, the timer of the
Initial packet, and packets on their way. `FairSpec` adds that a transfer
completes at the client (`ClientCloses`), which `completion` shows
and `stuck` limits; that the server takes it for ended (`ServerEnds`) has no
fairness, since its count of bytes may run past the final size. `EventuallyDone` is about the set-up and takes the transfer
for granted. Asking for a connection has no fairness.

## Proofs

### The server

`QuicConnectionServerProofs` proves for every set of packets, of any number, in
any order and with any histories, what `server_arrivals` checks on small ones:
`TypeCorrect`, `WaitingSafe`, `NothingForgotten`, `QuietSafe`, `AckNeverEmpty`
and `Monotone`. The only assumption is that packet numbers are naturals and
histories finite (`PacketsAssumption`).

`WaitingAboveNext` is not inductive alone. The invariant `ServerInv` adds that
the list is finite, which makes the number of popped elements and so `rcv_next`
a natural number, and that `current_largest` is below `rcv_next`, strictly while an ACK
is due and nothing waits. The two lemmas that carry the argument are about
`Popped`: what is left in the list is above the new `rcv_next` (`LeftIsAbove`:
take the smallest element left, everything below it was popped, so it is above
the old `rcv_next` plus their number), and what is popped is below it
(`TakenIsBelow`: an element goes only if it is at most the old `rcv_next` plus
the number of elements before it, and it is one more). `ReceiveInv` and
`AckTimeoutInv` are the steps, `Invariance` the conclusion.

The module also proves that the two ends of an ACK frame agree.
`AckRangesRoundTrip`: the numbers the client unpacks from an out of order frame
are those of the server's list, from the largest down, and the client has
allocated one place for each, for every finite set of numbers. On the server's
side `HolesIs` says what the ranges stand for: between two jumps of the
descending missing numbers there are missing numbers only, at a jump received
ones only. On the client's side the loop invariant (`DecodeStep`) is that after
each range it has exactly the numbers down to that range, in descending order,
and stands at its lower end. `AckInOrderRoundTrip` says the same of a frame
without ranges.

### The design of retransmission

`QuicRetransmissionProofs` first proves `DeliverySafe`: the abstract
specification `StreamDelivery` implies that acknowledged bytes arrived and that
a closed connection delivered everything. With `TransferDelivers` (below) this
is what the application relies on.

It then proves that `QuicRetransmission` implements
`StreamDelivery` (`RetransmissionDelivers`), for every set of bytes, any number
of packets, losses and retransmissions, and a network that also reorders and
duplicates. The argument: a number stands for the same bytes wherever it is a name of
a packet (`SameBytes`: a retransmission is the only way to share a number, and
it takes the bytes along), so when any packet with a name of a queued packet
arrives, the bytes of that packet arrived (`ArrivedBytes`), and what the client
drops from the queue was delivered or is in the packet that replaces it
(`TurnDrops`). `NamesStayDifferent` proves on the way that packets of the queue
have no number in common, which `NumbersNameOnePacket` states of the code.

### Client, server and network

`QuicTransferProofs` proves the invariants that `transfer` and `spurious` check
on small instances for all sizes of streams, windows and packets, any bounds on
losses and late timeouts, and streams added later: `BytesConserved`,
`FlightMatchesQueue`, `CreditConserved`, `TimersAreQueued`,
`NumbersNameOnePacket`, `InOrderArrived` and `ClosedIsComplete`, and the two
refinements `ImplementsRetransmission` and `ImplementsDelivery`. It assumes
`ClientAssumption` and `TransferAssumption`: sizes are naturals, there is a
stream, a packet has room for more than its header, and what the pop of a
header takes off is nothing or the header.

The methods of the client are folds over sequences, and so is the decoder of
ACK frames. What a fold computes is an induction over data, and the induction
theorems of the library cannot be instantiated here; `NatSetInduction` of
`FoldTheorems` is the same principle about sets of naturals, and `SeqInduction`
about sets of sequences: a set that holds the empty sequence and, with a
sequence, all sequences one element longer holds every sequence. An invariant of
a loop becomes such a set. `FoldTheorems` takes the folded operator as a
`CONSTANT`; each loop of the client is an `INSTANCE` of it (`Lost` for the
packets to send again, `Turns` for the round robin over the streams, `Visits`
for the streams that fill a packet, and so on). `FoldTheorems` extends no more
of the library than it needs, because every instance repeats all of it.

* `QuicConnectionClientProofs` first has what the proofs need of a send queue
  sorted by number: taking packets out by number (`WithNumbers`,
  `WithoutNumbers`) keeps the order and splits sizes and bytes into disjoint
  parts (`TotalSizeSplit`), a sorted sequence is determined by its set
  (`ByNumberIs`).
* It then follows the handlers method by method.
  `ClientInv` is the state between two calls, also in the middle of a handler:
  the types, the order of the queue and that no two packets share a number
  (`Ordered`), that every byte handed out is acknowledged or in a packet that
  is queued or waits for its turn, once, with `Bytes_in_flight` the sum of the
  sizes (`Accounted`), and that streams sent a prefix without gaps (`Sent`).
  `Credited` and `Timed` add the windows and the timers. `Turn` relates the
  state before a loop to the one after it, in the terms of the action
  `Turn` of `QuicRetransmission`: which packets were made, from which numbers
  and bytes. `Going` is all of these, and each method of the handlers keeps it
  (`CreateGoing`, `UpdateLostGoing`, `WaitingGoing`, `NewPacketGoing`,
  `SendTurnGoing`, `SendReadyGoing`). One loop after the other composes, and a
  handler is a chain of such lemmas.
* `QuicTransferProofs` has the inductive invariant `TransferInv`, which TLC
  checked before it was proved. None of the listed invariants is inductive
  alone: what an in order ACK takes out of the queue is everything up to its
  number, so the bytes are delivered only if the frame is truthful
  (`AckPart`), which holds because what the server counts in order arrived
  (`ServerPart`), which holds because the network keeps the order and carries
  only numbers already given out (`NetPart`). `ClientPart` says that between two
  handlers nothing waits to be sent again and that a closed client has
  acknowledged everything, `StartPart` that nothing is on its way before the
  response. The server's steps are the ones of
  `QuicConnectionServerProofs`, by `INSTANCE`.

`TransferRetransmits` takes the facts `Turn` collected on the way: each handler
of the client does to the send queue what `QuicRetransmission` allows, with
bytes `<<stream, offset>>` for its data. Since `RetransmissionDelivers` is
proved, `TransferDelivers` follows, once what the two call acknowledged is shown
to be the same set: the bytes handed out and not in the queue
(`BytesConserved`). So the chain is proved from the handlers of the code to the
promise to the application, and `ClosedMeansComplete` is its last consequence:
when the client deletes its connection, the server has every byte of every
stream and no packet or timer of the client is left.

Three more theorems are about the counters of the congestion control, which are
uint32 in the code. `SendsStayWithinWindow` is the action property
`SendsWithinWindow` without a further hypothesis: an RTO timer repeats a packet
and adds nothing, and the loop over new data stops before the window does
(`Paced`: what is left of the window and what is in flight always sum up to the
window the loop started with). The other two hold as long as the counters do
not wrap, which a connection of less than 2^32 bytes satisfies; the hypothesis is stated
in packets, since every packet has at most `MaxPayload` bytes:
`packet_counter * MaxPayload < Word` for `UnaStaysBehindMax`, with room for four
packets more (`NoWrap`) for `WindowStaysOpen`. Their invariant is `SteadyInv`, again
checked with TLC before it was proved.

* `InSequence` relates four pieces of the client: `send_unacked`, the bytes in
  flight and the packets acknowledged out of order together are at most
  `snd_max`, and `snd_una` is at most `send_unacked`. The second loop of
  `ProcessClientACK` adds the whole size of what leaves the out of order list to
  `send_unacked`, so without the list the property is not inductive. It is an
  inequality because `updateFlowControl` may pop the headers before the sizes
  are added.
* The window itself needs an upper bound, since a sum that wraps could make it
  small. `GrowthPart` finds it by counting: an ACK lets the window grow by at
  most a packet (`ReactionWindow`), and each ACK that reaches the client was
  caused by data packets of its own. `Underway` counts the packets and the
  frames on their way and the ACK the server owes; the window is at most
  two packets, plus one for each packet sent that is no longer under way
  (`Growth`). During recovery the threshold has the same bound, because the window
  falls back to it.

`ConnectionNeverFails` is `NeverFails` for connections without early data, with
no hypothesis on wrapping. The window may wrap to zero, but the code divides by
it only when it is at least the threshold, and `SoundInv` says that from the
response on the threshold is not zero (`Floored`): the response sets it to the
largest number of a word, which `WordAssumption` (`Word > 1`) keeps above zero,
and every later value is at least two packets. The other part of `SoundInv`,
`Short`, follows the methods of a handler as `Going` does: a retransmission takes
over the form of the header, so a long one could only come from early data.

Three definitions of the model have a form that can be reasoned about:
`WithNumbers` and `WithoutNumbers` flatten a sequence of sequences of length one
or none, `StreamBytes` is a sum, and `QueuePacket` is one operator for
`sendPacket`'s insertion.

### Reconnections

`QuicZeroRttProofs` proves of a reconnection with early data what the run
`zero_rtt` asks on a small instance: `FlightMatchesData`
(`FlightMatchesEarlyData`), `CreditConserved` (`EarlyCreditConserved`),
`HandshakeIsRetried` (`HandshakeStaysRetried`) and `ImplementsDelivery`
(`ZeroRttDelivers`), and also `ClosedIsComplete` (`EarlyClosedMeansComplete`), for
all sizes, any losses of Initial packets, of early data, later data and ACKs,
and timers that expire at any time.

Each has one hypothesis, `"response" \notin Losable`: the network keeps the
response of the server. It is not a convenience. When the response is lost, the
client can read an ACK frame before it; the run `zero_rtt_response` shows that
`HandshakeIsRetried` is then violated by the code. Without the hypothesis that
theorem is false.

During the handshake the send queue begins with the copy of the Initial packet,
whose number -1 is not one of `packet_counter` and is outside the types of the
client's invariant. The proof therefore looks at the connection without that
copy and its timer, `View`, and at the channels without the Initial packet
(`Net`) and without the response (`Frames`), and shows that what is left takes the
steps of a connection that `QuicTransferProofs` already follows:

* `ZeroRttTurn`, which makes the early data, and `HandshakeTimeout`, which sends
  the Initial packet and everything behind it again, are one more loop over
  `NewPacketGoing` and `ExpireRTO` each (`Started`, `TimeoutStarted`), so the
  bytes, windows and timers come out as after any other turn. The code sends the
  packets again in ascending order of number, so the Initial packet stays in front
  (`Holding`).
* The response removes the Initial packet, sets the windows and sends what was
  waiting: `ResponseGoing` is one lemma for this and for the response of a first
  connection.
* `ZeroRttInv` is inductive. `ViewPart` says that the client is new, waits with
  the Initial packet in front and its timer running (`Waiting`), or is open or
  closed as in a transfer. `OrderPart` says that the Initial packet is in front of
  all data, so the server cannot get data it will number before it knows the
  connection; `AnswerPart` that the response is in front of every ACK frame while
  the client waits, and that every frame is truthful. `ServerPart` and
  `SizesPart` are those of `TransferInv`.

Data that reaches a server without the connection is ignored; for the abstract
design this is a loss (`DataDrops`). So a reconnection refines
`QuicRetransmission` with the queue of `View` (`ZeroRttRetransmits`), and
`RetransmissionDelivers` gives the promise to the application again.

### Congestion control and set-up

At its end `QuicConnectionClientProofs` proves, for every packet size and any
order of the calls of `QuicNewReno`,
that the congestion window does not fall below a packet (`WindowKeepsPacket`)
and is not zero where it divides (`NeverDividesByZero`), from the response of
the server on. `CongestionNext` lets any call come at any time, more than the
client does; its guard `SumsFit` says that the sums stay below 2^32. The invariant
adds that the threshold, to which the window falls back, is at least a packet.

`QuicHandshakeProofs` proves `IDsStayDistinct`: `IDsDistinct` for any number of
hosts and connections, any losses, and random numbers that may repeat, from
`HandshakeAssumption` (numbers are positive naturals). With the types of the
records it is inductive (`IDsInv`): the two actions that bring a connection into
a list (`AddKeeps`, `InitialKeeps`) compare its ID with those of the list,
and the others keep every ID and add nothing (`SourcesKept`).

It proves more facts of the set-up. `AlwaysPaired` is
`Paired` with no more assumptions than above: the server has a connection for
every response on its way and for every open client connection (`PairInv`),
because it makes the connection before it sends the response and gives it an ID
that no other has. `CalmNeverFails` and `CalmKeepsPeer` are `NeverFails` and
`KeepsPeer`, for any number of hosts, connections and losses, under `Calm`,
which is what the run `handshake` has too: random numbers do not repeat, and no
Initial packet expires while it or its response is on its way. The invariant
`PeerInv` says that numbers in use were drawn once (`Fresh`), so that an ID
names one connection on the whole network, and that at most one packet of each
connection is on its way (`OnePacket`), so that no second response can come.

`TimersStopWithTheLast` is `StopsWithTheLast`, from `HandshakeAssumption` alone.
`StatisticsInv` adds to `IDsInv` that the list is finite, that only IDs of the
list are booked, and that the timers run only while the list is empty or has a
connection that did not end. With distinct IDs the list has as many connections
as IDs (`SizesAgree`), so equal sizes mean that all of them are booked.

### Message objects

`QuicMessageObjectsProofs` proves what `messages` checks with two objects, three
changes and arrays of two, for any number of objects, changes and elements, and
any state of the server: `BlocksAreOwned` (`OwnsItsBlock`), `FrameRoundTrip`
(`RoundTrip`), `FrameArrayFits` (`ArrayFits`) and `ObjectsAreValues`, the
refinement `BehavesLikeValues`.

The invariant `MessageInv` says of the memory (`Owned`) that a live object has a
null pointer and the size zero or points to a block of its size, that two
objects never have a block in common, and that every block has an object; and of
behaviours with an ACK frame that every live object holds the frame the server
wrote. `OwnsItsBlock` counts blocks and owners; `OneOwnerEach` shows that the
pointer is a bijection between them.

The argument has three layers.

* Each method is described by `Sets`: the object gets these values and these
  elements, ownership holds afterwards, and no other object changes (`SetterIs`,
  `SetArraySizeIs`, `InsertElementIs`, `EraseElementIs`, `CopyIs` and so on).
  The methods that change the length of an array are a `Reattach`, which
  `ReattachIs` describes, and those that write in place are under `RewriteIs`.
* Packing and unpacking are folds over the members of the class. `PackTrace`
  names the buffers in between, and the loop invariant of `UnpackIs` is that
  after some members those of the object are the ones of the packed object and
  the rest of the buffer is what the later members packed. It does not depend on
  the class.
* Each action either gives one object a value (`Gives`), removes one
  (`Removes`), or changes nothing. So an action keeps the invariant if what it
  gives is allowed, and it is a step of `MessageValues` by what it gives:
  `GivesVals` translates `Gives` into the abstract values, and there is one lemma for
  each abstract action (`CreateIsNew`, `CopyIsCopyOf`, `SetterIsChangeField`,
  `ResizeIs`, `OneElementIs`, `DestroyIsDiscard`).

`RoundTrip` and `ArrayFits` then follow from `AckRangesRoundTrip` and
`AckInOrderRoundTrip`: `WriteAckIs` says which values the setters of
`handleAckTimeout` leave in the object, and `ReadAckIs` that the getters find
them, because no two names have the same member.

The proofs assume of the server's state (`ReportsAssumption`) that the list is
finite and that an empty list leaves `current_largest` below `rcv_next`, which
`AckNeverEmpty` proves of the server; and of the classes, which are data,
`ClassData` and `AckFrameData`: the members with a value have a default, a name
stands for one of them, and the range count of an ACK frame is 0 by default.
These two have no parameters, so TLC evaluates them in full for all 24 classes.

### Only model-checked

* The liveness properties: nothing here proves fairness or `ENABLED`.
* `PoppedIsTheLoop`, whose reference is recursive.
* Of reconnections with early data, `NeverFails` and `SendsWithinWindow`. The
  first fails when early data is lost (`zero_rtt_lost`), so a proof would have to
  follow which numbers the loss detection can reach while nothing is lost. The
  second needs that the loop over early data, which ends only when the window is
  used up exactly (`QuicConnectionClient.cc:226`), meets the remembered windows
  of the instance exactly.

## Not modelled

* The content of Initial packets and responses, but for the windows the client
  takes from a response (`QuicTransfer`), the maps of statistics indices, and
  the list of remembered transport parameters (`old_trans_parameters`).
* Round trip time and the length of the retransmission timeout
  (`QuicNewReno.cc`, from `rttMeasurementComplete` on): there is no clock, and
  timers may expire at any moment.
* Several copies of an Initial packet at the server together with early data:
  the two are modelled apart, in `QuicHandshake` and `QuicZeroRtt`.
* Statistics, signals and byte counters that nothing reads back, except
  whether the timers of the statistics run.
* Reordering and duplication of packets in `QuicTransfer`: the networks of the
  repository do neither. The packet number bookkeeping of the server alone and
  `QuicRetransmission` are checked and proved without this assumption;
  `InOrderArrived` needs it (`QuicConnectionServer.cc:127`).
* Streams added for a connection that was deleted (`ConnectionManager.cc:199`):
  the message is dropped, and nothing says what should happen.
* Text forms of message values, and the immutability of packet contents, which
  is the packet library's.
* Applications (`Client_Module.cc`, `Server_Module.cc` send one message each at
  a configured time), the applications of the first simulation (`SimV1_*`),
  network descriptions.

## Plan

1. Several Initial packets with early data: `QuicZeroRtt` with the list of
   server connections of `QuicHandshake`, so that a lost response and lost data
   can be combined.
2. Reference definitions for `FramesToSend` and `UpdateCongestionAlgo` over
   bounded inputs.
