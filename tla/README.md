# A verification of bcf

bcf is a C++/Qt library that carries requests, replies and files over a serial
port or a TCP connection. A user builds a `RequestHandler`, which owns a channel,
the parsers and builders of the protocols spoken on it, and a helper that sends
and receives files with the YModem protocol. This directory holds TLA+ modules
translated from its source, the TLC configurations that check them, and proofs
that TLAPS checks.

## Inventory

| Component | State | Operations | Hard because |
|---|---|---|---|
| `YModem` (`ymodem.cpp`) | stage, time and error counters, 8-bit block number, last packet | one slot of `receive` or `transmit`, `abort` | two peers, retries, a line that loses and delays |
| `YmodemTransmit`, `YmodemFileReceive` | status, open file, counts, 10 ms timer | start, stop, slot, `callback(Status)` | many ways out, each of which must close, stop and report |
| `FileTransmitHelper` | the two sides, the channel | start, cancel, clean-up on a final status | gives the channel back in the middle of a slot |
| `SerialChannel_QT`, `TCPClientChannel_QT` | port, passive or active mode | open, read, write, both modes, `onReceivedData` | `clear()` drops what is in flight (serial only) |
| `IChannel` | queue, condition variable, thread, state | open, close, push, pop, callbacks | three threads, a data race, a lost wakeup |
| `RequestHandler` | pending requests with their limits, callbacks | connect, request, `slotParseOver`, `slotTimeout` | replies race timeouts; callbacks reenter |
| `RequestHandlerBuilder`, `ChannelManager`, `ProtocolBuilderManager` | options, maps | build, create, look up | called in any order |
| `ProtocolParserManager`, `ByHeadProtocolParser` | a buffer per parser | sniff, parse | a stream cut into arbitrary pieces |
| `ByteBuffer` | bytes, read and write position | get, put, mid, replace | bounds |
| `getNextSeq` | one counter | next | wraps |

A transfer works like this. `startTransmitWithYModel` and `startRecvWithYModel`
switch the channel to its active mode (nothing is parsed, reading is left to the
transfer) and start a timer. Each time it fires, the slot stops it, runs one step
of the stage machine in `ymodem.cpp`, which reads at most one packet, calls
`callback` for what has to be done with the file and writes an answer, and starts
the timer again if the status is Establish or Transmit. A final status goes
through the helper, which gives the channel back (passive mode, port cleared) and
then calls the user. All of this runs on one event loop per side, so that the slot
is the grain of atomicity; the concurrency is that of the two peers and the line.

What makes each component correct: the file received is the file sent, or a
beginning of it, and never reported complete when it is not; files, timers and the
channel are given back however a transfer ends, and its user is told once; every
transfer ends. For requests: each callback is called once, with the answer to
its own request or a time-out; for the channel: what arrives is handed over once,
in order, and soon; for the parser: what it returns does not depend on how the
stream was cut.

## Plan

1. YModem, both sides and the line: done.
2. `RequestHandler` with the timer, the pending map, callbacks that ask again and
   the wrap of `getNextSeq`; the abstract request and reply, and that the code
   implements it: done.
3. `Channel`: the queue, the condition variable and the callback thread, with the
   notify that is lost and the race in `popall`: done. Between 2 and 3 stands one
   signal: what `Receive` appends to `got`, `RequestHandler` takes from `posted`.
4. `ProtocolParser` over a stream cut in pieces, with the `ByteBuffer` it keeps, and
   `Receive`, which joins it to the channel; the abstract `FrameDelivery`: done.
5. The framing of YModem packets byte by byte (`PacketReader`), which implements the
   line of whole items (`ItemLine`) that the transfer's model reads: done.
6. Proofs: types, handles, reports, requests and their time-outs, receiving from
   port to model, the reading of packets, that a line without faults keeps the file
   whole (`FileIsPrefix`, `RxFinishMeansComplete`), that a clean transfer implements the
   abstract one and ends alike on both sides (`ImplementsFileTransfer`, `Agreement`), and
   that on a line that loses packets no block is written out of its place as long as the
   answers to the header arrive (`InPlace`, `LossKeepsOrder`): done.

## Modules

* `YModem`: the constants, the items of a line, the counters, reading, `clear()`.
* `YModemTransmit`: the sending side. `tx` holds the fields of `YModem` and
  `YmodemTransmit` (stage, time, err, blk for `timeCount`, `errorCount`,
  `dataCount`; buf for `txBuffer`; count for `fileCount`), the mode of the channel
  and two counters of what happened, `told` and `runs`. One action per stage, one
  each for start, a start that is refused, cancel, and the reading of left-over
  bytes by the channel.
* `YModemReceive`: the receiving side, in the same way. `file` is what was written.
* `YModemTransfer`: both sides and a line that loses and damages packets. `faults`
  counts what befell each of the two lines, and by itself (`opening`) what befell the
  answers to the header.
* `FileTransfer`: what a transfer promises, whatever the protocol.
* `YModemProperties`: the properties, and `ImplementsFileTransfer`, which maps a
  status to idle, running, done or failed and the bytes written to `saved`.
* `YModemInStep`: `InStep`, the relation between the two sides and the packets between
  them on a line without faults; checked by the run `late` and proved.
* `YModemTurns`: `TakeTurns`, whose turn it is on a clean line, from the first C to the
  last ACK; checked by the run `clean` and proved.
* `YModemPlaces`: `InPlace`, that both sides and the packets between them agree which part
  of the file a block number stands for, whatever the line loses, damages or delays;
  checked by the run `lossy` and proved.
* `YModemLemmas`, `YModemTransmitProofs`, `YModemReceiveProofs`, `YModemProofs`:
  the proofs.
* `RequestHandler`: requests. `asked` lists the requests made and what became of
  each; `pending` is `m_callbacks`, by number; `last` is the counter of
  `getNextSeq`; `due` the timer; `running` the callback under way; `posted` the
  signals of the parser's thread that the loop has not taken; `peer`, `answered`,
  `pushes` and `open` the other end and the connection. `Request`, `SlotParseOver`
  and `SlotTimeout` are the code's functions; the last two stop where they call a
  user's callback, in which `Request` may happen, and go on in `AnswerReturn` and
  `TimeoutReturn`.
* `RequestReply`: what a request promises: refused at once, or decided once, by an
  answer that was given to it or by its time-out.
* `RequestProperties`: the properties, and `ImplementsRequestReply`.
* `RequestProofs`, `RequestReplyProofs`: the proofs.

* `ByteBuffer`: what the parsers use of the class of that name, as functions of a
  record with `buf`, `rpos` and `wpos`.
* `ProtocolParser`: the parser manager and its parsers. `buffers` is the `m_buffer` of
  each, `at` how far `parseByAll` is with the piece in hand, `got` the models handed to
  `signalParseOver`. `Sniff` is a parser's sniff; `Parse` is one round of its parse,
  which waits for more (`Wait`) or makes a model (`Deliver`).
* `Channel`: `IChannel`. `loop` and `thread` say where the event loop and the user
  callback thread stand; every place between two of them at which the other thread may
  come in is a state. `queue` is `m_Queue`, `hand` the deque `popall` swapped out;
  `state`, `isexit` and `set` are `m_state`, `m_isexit` and whether `m_dataCallback` is
  there.
* `Receive`: both, with the frames a peer sends (`Build`) as the stream the port
  receives and `ParseByAll` as the data callback.
* `FrameDelivery`: what receiving promises. `ReceiveProperties`: the properties, and
  `ImplementsFrameDelivery`, which maps the models to the frames they were made of.
  `ReceiveProofs`: the proofs.
* `PacketReader`: `YModem::receivePacket` byte by byte, with `code`, `rxLength` and
  `rxBuffer` as in the code; `ItemLine`: items read whole, once and in order.
  `PacketReaderProofs`: the proofs.

A YModem handler is one step. What it writes before it reports a final status is written
before `clear()`, and what it writes after is not: `TxReport` and `RxReport` keep
that order, on which the second ACK of the receiver depends
(`ymodemreceiver.cpp:186`). The two threads of a channel, on the contrary, are modelled
by their smallest steps between lock, wait and write.

### Abstractions

Of transfers:

* An item of a line is a one-byte code or a whole packet. A packet that has come
  only in part is one that has not come yet (a slot that finds part of a packet
  does what a slot that finds nothing does); `PacketReader` shows that reading byte
  by byte gives this line. The CRC and the complemented number
  are the field `good`; loss and damage hit whole items.
* A payload is named by the place of the file it was read from; sizes count units
  of 128 bytes. `SohSize = 2` and `StxSize = 4` keep a short last packet, of both
  kinds, within reach. The filling past the end is 0.
* `Prompt` says how late the line is. TRUE: as long as nothing was lost or damaged the
  answer arrives before the peer repeats itself, so that a side finds nothing only when
  nothing is under way, and `clear()` finds nothing else on the line than the model lets
  it drop. With the 5 seconds between repetitions that the code starts with this is a line in
  working order; `setTimeOut(2000)` leaves 410 ms between them (`timeDivide` 40), in which a
  slow serial line may not deliver a packet of 1 KB: such a line is late. After a
  fault both sides wait for what went astray with the same period, begun within a slot
  or two of each other, and neither puts the other's count back: the NAK of the
  receiver and the repetition of the sender may both be written
  (`ymodem.cpp:1252-1270`, `1358`). So from the first fault on a side may also find
  nothing, whatever is under way, in each slot that makes it repeat itself (`Quiet`), and `clear()`
  may come before or after what is under way arrives. FALSE: any delay; a side may find
  nothing at any time, and `clear()` drops any part (over TCP it drops none).
* `Spaced` says whether the name of the file has a space in it. The sender writes the name
  as it is (`ymodemtransmit.cpp:143`); the receiver ends it at a space as at a 0 and takes what
  follows for the size (`ymodemreceiver.cpp:123-135`), which is 0 if it is no number, or any
  number (`Sizes`; sizes beyond what any transfer of the file writes, `SizeMax`, are not told
  apart). In the runs `Spaced` is FALSE, and whatever is claimed below of the contents of the
  file, by a run or a theorem, is claimed of a name without a space. With one the file is
  lost on a perfect line: see "Read in the code".
* CodeA1 and CodeA2 do what CodeCan does. A file opened for writing can be written.
* Callers start a transfer only when none is running on that side. Starts, faults
  and, where `Cancels` is FALSE, cancels are bounded by `MaxRuns` and `MaxFaults`.
* Leaving the block number at 3 or 4 values, not 256, makes it wrap in a file of
  three blocks. The limits `TimeDivide`, `TimeMax` and `ErrorMax` are small.

Of requests:

* The timer fires on time, and callbacks and slots take none: `Elapse` passes a unit
  of time, and does not while a callback runs or the timer is due. Requests age up to
  `AgeMax`, from which on ages are not told apart.
* Callbacks are given, and run no event loop of their own (a dialog in a callback lets
  the slots in while an iterator stands in the map).
* A request is refused with any of the three errors when it cannot be sent; which
  of a missing builder and a foreign thread it is does not matter to the map. A
  write that the port accepts is sent.
* The peer answers a request once, late or never, with the number of the request;
  with `PeerCounts` it takes its numbers from a `getNextSeq` of its own, as the
  examples do. A channel that closes takes with it what the peer has not answered.
* `getNextSeq` starts at 0 and comes round before `SeqMax`, so `SeqMax = 3` gives
  the numbers 1, 2, 0; the map is keyed by `int`, so its pass begins with the
  numbers of the upper half (`Key`).
* `Resends` lets a user ask again with a model that was used before, which keeps
  its number. `MaxRequests` and `MaxPushes` bound what is asked and pushed.

Of receiving:

* A cell of a buffer is a field of a head or a byte of a body, so that a cut within a
  field counts as one before it. The stream is the frames the peer lays out, and a
  piece of it is named by the two places between which it lies. `seq` and the bytes
  of a body are the frame's number, so that a model shows what it was made of;
  `cmd` is the field no parser gets if heads are big-endian (`BigEndian`, the code's
  default; below).
* `CleanCuts` restricts the cuts to those the code handles: a piece ends with a frame
  (several may come in one piece), or lies within one head; and the connection is broken
  between two frames. Without it see stream_cut.
* `Races` lets `popall` swap while `pushqueueAndNotify` holds the lock. The outcomes
  of that undefined behaviour are: the new piece comes along, stays, or is lost.
  `m_state`, which is not atomic in the code, is read and written as if it were.
* `LeastPiece`, `MaxFrames`, `MaxBody`, `MaxCloses` and `MaxGot` are bounds. With
  clean cuts no more models are made than there are frames, whatever `MaxGot` is (proved).
* The raw data callback and those of failure and error pass on a call and are left
  out. `m_isexit` starts with any value, as the code does not give it one
  (`ichannel.h:141`).

Of the reader of packets:

* A byte has what it looks like (`SOH`, `STX` or any one-byte code, `ACK`), and for the
  model only, the item it belongs to and its place there. Each data byte of a packet may
  look like a code. Every data byte of one packet looks the same; this is enough for a
  reader that has lost its place to begin a packet of either length, or an item of one
  byte, at any of them.
* What a packet must have to pass the CRC is that its bytes are those of one item
  (`Genuine`). A read brings from one byte to all that is asked for. Giving up a stage
  with a packet half read counts as a loss (`MaxLost`).

## Runs

| Run | Instance | Checks |
|---|---|---|
| clean | prompt line, no faults, 3 blocks, number wraps, two transfers a side, files that do not open | `ImplementsFileTransfer`, `Agreement`, `TakeTurns`, `HeaderLeadsToFinish` |
| late | any delay, no faults, one transfer, cancels | `FileIsPrefix`, `RxFinishMeansComplete`, `InStep` |
| lossy | prompt until a fault, 3 faults on either line, 3 blocks, errors up to 1, one transfer, cancels, local failures, fairness | `TypeOK`, `LossKeepsOrder`, `InPlace`, the properties of files, timers, reports and silence, `TxEnds`, `RxEnds` |
| lost_c | prompt, 1 fault | violates `RxFinishMeansComplete` |
| unreported | prompt, cancels | violates `EndIsReported` |
| request | 3 requests, numbers 1, 2, 0, one unasked model, fairness | `TypeOK`, the properties of callbacks, entries and time, `ImplementsRequestReply`, `EveryRequestEnds` |
| request_late_reply | as request | violates `GivenIsUnasked` |
| request_peer_counts | the peer numbers its models itself | violates `OkIsItsAnswer` |
| receive | 2 parsers, 2 frames of either type with a body of 0 or 1, clean cuts, a close, the destructor, fairness | `TypeOK`, `NothingLost`, `CallbackFirst`, `NothingLeft`, `SilentAfterClose`, `ImplementsFrameDelivery`, `CloseReturns`, `EveryFrameIsHandedOver` |
| stream_cut | 1 parser, 2 frames, cut anywhere | violates `ModelsAreFrames` |
| channel_race | as receive, with the race of `popall` | violates `NothingLost` |
| packet_reader | 3 items of 1, 3 or 4 bytes, any reads, a byte lost | `TypeOK`, `ImplementsItemLine`, `EveryItemIsRead` |

`FileIsPrefix`, `RxFinishMeansComplete`, `InStep`, `Agreement`, `HeaderLeadsToFinish`,
`LossKeepsOrder` and `InPlace` are of one transfer a side (`OneTransfer`);
`ImplementsFileTransfer` and the others of all.
Changing a constant by hand shows more: `HeaderLeadsToFinish` holds with `FileSize = 0`;
with `Resends = TRUE` in `Request.cfg`, `WaitingIsPending` and `EveryRequestEnds` are
violated: a user who asks again with the same model in the callback that tells its
time-out finds the old entry still in the map, `emplace` keeps it
(`requesthandler.cpp:195`), the erase after the callback takes it away, and the new
request has neither answer nor time-out. With `Spaced = TRUE` in `YModemClean.cfg`,
`ImplementsFileTransfer` and `RxFinishMeansComplete` are violated: the receiver
finishes with size 0 and nothing written. With two lost packets and four block numbers
in `YModemLostC.cfg` (`FileSize = 9`), `RxFinishMeansComplete` is violated
though every answer arrives (`faults.toTx = 0 /\ faults.opening = 0`): a first fault is repaired by
both sides, so that one packet is answered twice; on the second answer the sender goes on before the
block it has sent is acknowledged, and is a block ahead from then on. The last
block is lost; the answer to the one before makes the sender write EOT, which the receiver accepts
without comparing `fileCount` with `fileSize` (`ymodem.cpp:780`).

What they show: on a line that loses nothing the block numbers keep every
repeated block out of the file, at any delay, through a wrap of the number and
with the sender running ahead. On a line that loses packets the two sides may end up
one block apart, and the transfer then stops short or even finishes so; but what is
written is a beginning of the file, as long as the answers to the header arrive. All the ways out of a transfer give back the file, the
timer and (on the receiving side) the channel. Every transfer ends, on a line that
falls silent, or on which up to `MaxFaults` (three) items turn to noise. Three blocks and two
faults are what it takes for a block to be lost, to be repeated by both sides, for the
answers to put the sender a block ahead and for that block to be lost in turn; with one
error allowed (`ErrorMax = 1`) either side also gives up on too many errors. The properties of files, timers,
reports and silence are proved for any number of faults and transfers.

For requests: three of them, made from the loop or from within each other's
callbacks, are what it takes for an entry to be made while the timer's pass stands
before, at and after its key, and for the number to come round with one request
still waiting. `Timeout = 3` is no multiple of `Interval = 2`, so that the limit is
reached within a period, and the free phase of the timer gives the early and the
late extreme. Each callback is called once; no entry is lost, left over, or taken
for another; answers in any order reach the request they were given to; a request
times out no sooner than its time and less than two periods later; and every
request ends, whether or not the peer answers and the channel stays open.

For receiving: two frames and two parsers are what it takes for a frame to be cut, to be
glued to the next, and to stand before a frame of its own or of another type; the thread
may be told to leave at each of its places, with pieces in the queue and in its hand.
Nothing is lost, doubled or overtaken between the two threads; no piece meets an unset
callback; each frame is handed over, even when the notify comes between the test of
the thread and its wait (five seconds later: `WaitTimeout`); close and the destructor
return from wherever the thread is, and nothing is handed over after they have.

For the reader of packets: three items are one to lose a byte of, one that is read in the
wrong place for it, and one to find its place again. Until a byte is lost the items
come out as they were written; after it none comes twice and none before another, which
is the line the transfer's model assumes, with `good` for what passes as genuine. What
does look like a code is then acted upon: a data byte that happens to be CAN, A or a
aborts the transfer.

Six runs are violated by what the code does:

* lost_c. The receiver answers the header by ACK and C. On the ACK the sender reads the
  first block into `txBuffer`, to be sent on the C (`ymodem.cpp:1155`). The C is lost. The time
  limit of the sender (or a NAK) makes it repeat `txBuffer`, which is the first block,
  while it is still in the stage Established (`ymodem.cpp:1237`). The receiver writes the
  block and acknowledges it; on this ACK the sender reads the *next* block over it and
  calls it 1 as well. When the next repetition sends it, the receiver takes it for the first
  block again, drops it and acknowledges it. The sender comes to the end of the file, and
  both sides finish with status 3, which `src/examples/ymodel/README.md:30` gives as the
  sign that the file has been saved, with the second block missing.
* unreported. A sender that gives up after establishing ends with `StatusError`,
  and `ymodemtransmit.cpp:208` calls no callback: the user is not told, and the
  channel stays in its active mode. `globaldefine.h:17` says that the time limit of
  either side is reported as `StatusTimeout`.
* request_late_reply. A reply that comes after its request timed out finds no entry,
  and `slotParseOver` hands it to `ReceiveCallback`, of which
  `src/include/requesthandler.h:70` says that what it is given is certainly not the
  answer to a request.
* request_peer_counts. `slotParseOver` takes any model with a pending number for the
  answer. `src/README.md:115` proposes `getNextSeq` to keep numbers unique on a
  channel; but each end has a counter of its own, from 0, so that the first model a
  peer sends of itself completes our first request.
* stream_cut. `parse` takes the head from the buffer before it looks whether the body is
  there, and does not put it back (`byheadprotocol.h:117`); lengths are compared with
  `size()`, which counts what was read before. In the run's trace a piece brings a whole
  frame and a part of the next one's head: behind the frame that head is read past the
  end of the buffer, as zeros, and handed over as a model nobody sent. A piece that
  ends within a body makes the next one be read as a head from the middle of a frame. `src/README.md:25` promises whole
  packets whatever is glued or split.
* channel_race. `popall` tries the lock and swaps whether or not it got it
  (`ichannel.cpp:121`). In the midst of an `emplace_back` on the loop this is a data
  race, by which the piece just received may be in neither deque; `ichannel.h:69`
  says that each is handed over.

Read in the code, not shown by a run:

* `cmd` is 0 in every model of a big-endian frame: the four bytes are cut down to
  `uint16_t` before they are swapped (`byheadprotocol.h:119-124`); of a little-endian one
  it is the field. `Cmd` says so. The abstract delivery compares models with frames by all
  but this field and the parser that made them.
* A file whose name has a space: the file "a b.txt" is received as "a" with the size
  "b.txt", which is 0; nothing is written, and both sides report StatusFinish
  (`ymodemreceiver.cpp:123-135`). The runs leave it out (`Spaced`).
* Two parsers on one channel, which `src/README.md:26` offers: each keeps every piece, so
  that a frame of another type stays at the head of its buffer and stops it, or, behind a
  frame of its own, is parsed by the wrong parser. `NothingLeft` and
  `EveryFrameIsHandedOver` are therefore of streams of one type (`OneType`);
  `ImplementsFrameDelivery` says that what does come out is right all the same, of
  parsers that share the layout of the head.
* Opening again: the thread is started before `m_state` is Opened, and may find Closed and
  end (`ichannel.cpp:56`); the parser's buffer outlives the connection
  (`iprotocolparser.h:43`); a thread that was not joined makes the new one throw
  (`ichannel.cpp:68`). `Lives` asks for a channel that was never closed.
* `read` of -1 passes for a byte read, so that the old byte of `rxBuffer` is taken
  (`ymodem.cpp:237`). A port in use reports no error in the models.

Where properties are not claimed: `RxFinishMeansComplete` is claimed of no line that loses or
damages anything (lost_c, and the lost packets above). `FileIsPrefix` is not claimed when
answers to the header are lost or damaged: the sender may then read the second block over the
first, be told by a second C to send it with number 1, and the receiver writes it as the first.
`LossKeepsOrder` therefore asks for these answers to be spared (`faults.opening = 0`), and for
a file whose block numbers do not come round (`Short`, up to 255 blocks in the code), since
sides that are apart may be a whole round apart. On a late line two transfers are not told apart (packets
carry no transfer number). With cancels, a C written by the slot after
`stopReceive` may start the next sender, so `clean` has none.

Deadlock is not checked: a system in which both transfers are over has nothing to
do. Fairness (`FairSpec`): each side's timer fires again and again as long as it
is running, and bytes that no slot reads are taken off the port by the channel;
that is the Qt event loop. Nobody has to start, to cancel, or to lose anything.
That transfers end is checked on the line with faults. For requests fairness
is that of one event loop: a posted signal is taken, a due timer fires, time passes
and callbacks return. The peer owes no answer and the channel need not open. For receiving
the thread runs, and the loop ends what it has begun; nobody has to open, to send or to
close. For the reader of packets the slot, which comes back with the timer, reads again,
and bytes on the line come to the port.

## Proofs

`YModemProofs` proves, for every value of the constants, `Prompt` TRUE or FALSE, any
number of faults and transfers: `[]TypeOK`, `[]TxHandle`, `[]RxHandle`,
`[]NoStraySlot`, `[]RxToldOnce`, `[]TxToldAtMostOnce`, `[]RxWithinSize` and
`TxSilentAfterEnd`. The assumptions are those named in `YModem` and
`YModemTransfer`: limits are naturals, packets are not empty, those of STX no shorter than
those of SOH, there are more than two block numbers.

The inductive invariant is `IInv`: both lines carry items, and each side is sound by
itself. `TxSound` says of the sender that its file is open exactly in the data
stages, that a timer outside the stage None means a running status, and that its
reports do not outnumber its starts and, when equal, leave it stopped with the
channel passive; the last clause is what makes the induction go through for a
report, which is only made by a transfer that has not been reported. `RxSound`
says the same of the receiver, whose reports are exact, and bounds the file by the
size in the header. Neither speaks of the other side, so what arrives may be
anything, and a step of one leaves the other's part alone. Under it lies a
weaker predicate, `TxReady` or `RxReady`, of a state before `TxSlot` or `RxSlot`
sets the timer from the status: each branch of a stage is shown to give a ready
state, and the slot lemma does the rest.

It proves as well that a file whose name has no space (`~Spaced`) arrives whole when nothing
is lost or damaged, on a line however late, for every size of file and packet, with local
failures and cancels: `[](faults = NoFault => FileIsPrefix)` and
`[](faults = NoFault /\ OneTransfer => RxFinishMeansComplete)`. Here the two sides must be
related, and the packets between them: a late line may hold any number of
repetitions, and the sender, which takes the answer to a repetition for the answer to
the next block, may be several blocks ahead. Block numbers alone do not say why
that is harmless, for they come round. `InStep` (module `YModemInStep`) says it: the packets
under way continue each other (`Continues`): each is the one before it again, the one
that follows it in the file, or the CAN of a sender that gives up. The first continues
what the receiver took last (`RxAt`, which relates it to the stage, the block number
and the file), and the last is what the sender keeps in `txBuffer` (`TxAt`). So
whatever the receiver reads is the block it has or the next one. In the stage
Established the sender reads a block on the ACK and sends it on the C, so `TxAt` also
needs that every ACK on the way back has its C behind it (`Answered`), which is what
the run lost_c takes away. `InStep` is inductive together with `IInv`: the steps of the
receiver are in `YModemReceiveProofs` (`RxTickInStep`), those of the sender in
`YModemTransmitProofs` (`TxTickInStep`), and `YModemProofs` joins them with starts,
drains and faults (`TransmitInStep`, `ReceiveInStep`).

On a clean line (`Clean`: prompt, no faults, no cancels, no space in the name, `TimeDivide` not 0) the two sides
end alike and carry out the abstract transfer: `[]Agreement` and
`Spec => ImplementsFileTransfer`. The invariant is `TakeTurns` (module `YModemTurns`): a
disjunction of the turns a transfer consists of, each of which gives the stages of
both sides and what is on both lines, and `AtRest` for what holds throughout. Each turn
names the side that has something to read; the other waits. There is one lemma for
each turn and each side (`TxOpened`, `RxOpened`, ...), which shows to which turns its slot
leads; `TransmitTurns` and `ReceiveTurns` join them. Every condition is needed. With
faults, lost_c is the counterexample. With cancels, the last slot of the receiver writes a C
that no turn has room for. With `TimeDivide = 0` a side repeats itself in every slot, and
`Agreement` fails (`TimeMax = 1`, `ErrorMax = 2`); `setTimeOut` allows no less than two
seconds, which makes `timeDivide` 40, so that the code has no such side. An empty file is
the exception to the turns: the sender writes EOT on the ACK and again on the C behind it,
and two packets are under way to the end (`EmptyTurn`). `TakeTurns` is claimed for one
transfer of such a file; `Agreement` (of one transfer anyway) and `ImplementsFileTransfer`
(where nothing is ever written) are claimed for it all the same. Of the step from turns to the
abstract transfer the hard part is that what the receiver writes extends what it had
(`RxGrows`).

Whatever the line does, prompt or late, with any number of faults, cancels and local
failures: `[]InPlace` and `[]LossKeepsOrder` (of one transfer of a `Short` file without a space in its
name, as long as `faults.opening = 0`). That the two sides are where they should be
cannot be claimed: two repetitions of one packet put the sender a block ahead
for good. What remains true is that a number stands for one part of the file
(`BlockOf`). `InPlace` says it of all places a block can be: of `txBuffer`,
with the count of what was read (`TxPlaced`), of each packet that passes for good
(`Placed`), and of the receiver, whose file is written up to the block it took last
(`RxPlaced`). As the receiver only writes the block after that one, the file is a
beginning, and since a lost block leaves it waiting for a number that never comes, it
stays one. The one step at which a number is given away wrongly is the ACK in the stage
Established, on which the sender reads a block and calls it 1 whichever it is; it is
harmless while each ACK before it has its C behind it and no block is under way (`NoBlockYet`,
`Answered`), and it is this that a fault in the answers to the header takes away. Once a side is
over, nothing is claimed of it but the file (`FileBegun`). `InPlace` is inductive together with `IInv`:
`TxTickPuts` and `RxTickPuts` are the slots, `TransmitInPlace`, `ReceiveInPlace` and `FaultInPlace` the
steps.

`RequestProofs` proves, for every `SeqMax`, `Timeout`, `Interval`, and whether or not
models are asked again or the peer numbers its answers itself: `[]TypeOK`,
`[]CalledOnce`, `[]PendingWaits` and `[]NeverEarly`. `CalledOnce` is not inductive:
what calls a callback twice is an entry left for a decided request, so the invariant
`IInv` says that each entry is linked to a request of its number (`Linked`) and
waits, but for the one whose callback is under way (`PendingWaits`). `NeverEarly` needs
what the time that is left is worth: `OnTime(e, d)` says that no time was taken off an entry yet, or that
the age of its request and the time it has left make up the time-out, less the `d`
until the timer next visits the entry; `Visit` reads that `d` from `due` and, within
a pass, from whether the key is ahead of the callback under way. `WalkSteps` says what one stretch of the pass,
from a key to the next callback, does to entries and requests.

`RequestReplyProofs` adds what holds where numbers are unique (`UniqueNumbers`: no
model is asked again and the counter does not come round; the README of bcf asks for
it, `src/README.md:115`): `[]WaitingIsPending`, `[]NeverLate`, and, where the peer
answers by the numbers it was given, `[]OkIsItsAnswer` and
`Spec => ImplementsRequestReply`. `UInv` adds that the i-th request has the i-th
number, that the entry of a callback under way is in the map, and `InTime`, the bound
from above. `AInv` adds that a model on its way carries the number of the request it
answers, or one no request has, so that the entry it finds is that of its request
(`FoundIsAnswered`); with it every step is one of `RequestReply` or changes nothing
there (`ReplyStep`). The run request_peer_counts, and
`Resends = TRUE` by hand, show that these conditions are needed.

`ReceiveProofs` proves of the channel, whether or not `popall` races: `[]CallbackFirst`
and `SilentAfterClose`, from `ChannelInv`, which says at which places the thread may be
when the loop has joined it, and that there is nothing in queue or hand before the callback
is set. Where it does not race, `[]NothingLost`: `PiecesInv` adds that hand and queue, one
behind the other, cover the stream from what was handed over to what has arrived
(`Covers`), which a push extends at one end (`CoversAppend`) and a piece handed over at the
other (`CoversTail`), and which swapping does not change.

Where the cuts are clean as well, for any number of parsers, frames and pieces:
`[]TypeOK`, `[]NothingLeft`, `[]ModelsAreFrames` and `Spec => ImplementsFrameDelivery`.
What must be known is what lies in each buffer. The parser of the first frame is
the only one that ever comes past the head of its buffer; the others keep all that came
(`OthersStand`). Of the first one, `FirstInv` says that its read position is where the next frame begins
of which no model was made (`Filled`); that between two pieces (`Idle`) it keeps nothing
from before that place, and behind it at most a part of a head or a frame of another
type; and that while it parses (`Parsing`) there is something to parse, up to
the end of a frame or within a head. `GotInv` says that the models are those of
the frames before. `StreamInv` adds that every piece in queue and hand is one of a clean cut. With `FrameFacts`,
`HereFacts` and `CellAt`, which say what stands where in the stream, `PutFilled` says what
writing a piece behind a buffer gives and `WholeFrame` what a parser reads there; `SniffTurned`
and `ParseTurned` are the step of the parser that is next. The runs channel_race and
stream_cut show that neither assumption can be dropped.

`PacketReaderProofs` proves, for packets, lines and losses of any length and number,
`[]TypeOK` and `Spec => ImplementsItemLine`. The invariant speaks of the bytes that are not
in a returned packet yet, those in `rxBuffer` and behind them the line (`Unread`): each is a
byte of an item (`Sound`), they lie in the order they were written in (`Sorted`), behind all
that was read as an item (`ReadInv`), and, while none is missing, they are all the bytes of the
items that were not read (`Complete`). `Complete` says where each byte of an item stands, and
not only which byte follows which: that the first bytes are one whole item
would otherwise take an induction along the line. `Fetched` shows that a read either leaves
these bytes as they are or takes the first of them as a packet.

Only model-checked: that transfers, requests and deliveries end (`TxEnds`, `RxEnds`,
`HeaderLeadsToFinish`, `EveryRequestEnds`, `CloseReturns`, `EveryFrameIsHandedOver`,
`EveryItemIsRead`), since liveness is out of the prover's reach. Every invariant and action
property of the passing runs is the conclusion of a theorem. Not claimed at all: with faults,
`RxFinishMeansComplete` and `Agreement`; with faults on the answers to the header, `FileIsPrefix`;
of a name with a space, anything of the contents of the file but that it does not exceed the size in
the header (`RxWithinSize`).

## Not modelled

* `setTimeOut`: a constant computed once, for which the models take `TimeDivide` as it is;
  of its minimum of two seconds the proofs on prompt lines use that `TimeDivide` is not 0.
* Failing writes to the receiving disk: a block that was not written is acknowledged, so
  that nothing could be claimed of the file.
* A second start during a transfer, a cancel before any start (a null pointer), progress
  callbacks.
* Event loops within callbacks and requests without a callback, which are undefined or
  end the program.
* The raw data, failure and error callbacks of a channel; ports that fail to open.
* Lengths of 2^31 and more in a head, where the `int` of the comparison overflows.
* `ChannelManager` and `ProtocolBuilderManager`, which look up; what of `ByteBuffer` the
  library does not call; Qt, byte order and platform headers; the example programs.
