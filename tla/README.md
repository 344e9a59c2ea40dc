# OCTNET-TFTP in TLA+

Models of the TFTP server and client in `src/src`, the TLC configurations that
check them on small instances, and TLAPS proofs that hold for every instance.

## 1. The system

| part | state | operations | talks to |
|---|---|---|---|
| **server application** `server_app/` | io_context, signal set | `run`, `on_signal` (SIGTERM) | starts the server, runs the io_context |
| **acceptor** `server/server_acceptor.hpp` | one UDP socket on the server's port, one packet buffer | `start`, `stop`, `request_receive`, `on_packet_received` | the server, through `request_handler` |
| **server** `server/server.hpp` | `m_connections`, a set of shared pointers | `start`, `stop`, `handle_server_packet`, `connection_created`, `connection_terminated` | makes a connection per request; connections call it back when they end |
| **read_connection** | socket, timer, reader, block number, retry counter, outgoing and incoming buffer | `start`, `stop`, `on_packet_sent`, `on_send_timeout`, `on_packet_received` | the client's endpoint, the server |
| **write_connection** | the same with a writer and the next expected block number | the same | the same |
| **client_get**, **client_put** `client_app/` | the same, and a resolver, the server's endpoint, whether the request is complete | `start`, `stop`, `on_resolve_query`, `on_packet_sent`, `on_send_timeout`, `on_packet_received` | the server's port, then the endpoint that answers first |
| **client application** | one request | `run`, `on_signal` | client_get or client_put |
| **packets** `common/packet*.hpp`, `deserializer.hpp` | none | `build_packet`, `parse_packet` | every endpoint |
| **octet files** `common/file_io.hpp` | a FILE | `read`, `write`, `close` | connections and clients |
| **netascii** `common/netascii_io.hpp` | one pending character each way | `read`, `write` | on top of the octet files |
| **io manager** `server_app/default_io_manager.hpp` | base directory | `create_reader`, `create_writer` | connections |

Every process runs its io_context on one thread, so handlers do not overlap.
All concurrency is between the handlers and what completes in between: a timer
expires, datagrams arrive, are lost, repeated or reordered, an operation fails.
That makes these behaviours hard:

- *Handlers that are already queued.* `cancel()` and `expires_after()` do not
  reach a wait that has expired; `close()` does not reach a receive that has
  completed. Their handlers run later, in a state they were not started for: a
  timeout of block 1 is handled after block 2 went out, or after the
  connection ended.
- *Several receives on one buffer.* Each retransmission that is sent starts
  another `async_receive_from`, and all of them use the same buffer and the
  same sender endpoint. A second datagram overwrites the first while the
  handler of the first is queued, and is then parsed with the first one's size.
- *Receives used up by a packet that is ignored.* No early return of a receive
  handler starts the next receive: the connection then lives by its timer only.
- *16-bit block numbers* that wrap in three classes, and are compared as `int`
  in `client_get`.
- *Steps that fail half-way:* `start()` throws after the connection was
  inserted; a read fails after its block number was used up; a write fails with
  part of the block in the file.
- *Life time.* Connections are kept by the set and by their queued handlers;
  the acceptor by a `unique_ptr` although it calls `shared_from_this()`.

What makes each part correct:

- *connection:* it is never left with nothing to run; it ends once there is no
  new block to come; no packet is tried more often than the limit; what is on the
  wire is the file; what is stored is the blocks in order, each once; what is
  acknowledged is written; it is started once and silent once terminated.
- *client:* the same, and the blocks of the file come from, or go to, one endpoint.
- *server:* it never becomes deaf; each request gets its connection; the set
  holds exactly the connections that serve, so that none leaks and `stop`
  reaches them all.
- *packets, netascii:* what is built or written is what is parsed or read back.

## 2. Modules

| module | what it is | code |
|---|---|---|
| `Tftp` | packets, error codes, block numbers, `parse_packet` | `common/defs.hpp`, `packet*.hpp`, `deserializer.hpp` |
| `AsioEndpoint` | what a socket and a timer hold, and what the calls do to them | external: ASIO, as `src/src` uses it |
| `Connection` | abstract: new, serving, ending, released, and when packets may go out | what `server.hpp` relies on |
| `ReadConnection` | server's side of a download | `read_connection.hpp`, the reader of `file_io.hpp` |
| `WriteConnection` | server's side of an upload | `write_connection.hpp`, the writer of `file_io.hpp` |
| `Server` | application, acceptor, set of connections, each seen as a `Connection` | `server.hpp`, `server_acceptor.hpp`, `server_app.hpp` |
| `ClientGet`, `ClientPut` | the clients | `client_get.hpp`, `client_put.hpp` |
| `Transfer` | abstract: blocks are stored in order, each once and in its place, the sender at most one ahead; the bytes of a block may be spoilt (`Garbled`) | what both ends of a transfer promise together |
| `Download` | `ClientGet` and `ReadConnection` over a network | the classes above, `handle_rrq_packet` |
| `Upload` | `ClientPut` and `WriteConnection` over a network | the classes above, `handle_wrq_packet` |
| `Loops` | what a loop over a sequence computes, as a recursive function (`Fold`), and what is picked out of one (`Picked`), in a form that can be reasoned about | the loops of `Netascii` and `Codec` |
| `StoredBlocks` | the blocks a receiver's file holds whole | part of the refinement mappings |
| `Netascii` | translation of characters, packet by packet | `netascii_io.hpp` |
| `Codec` | packets as bytes: builder, deserializer, parser, receive buffer | `packet.hpp`, `packet_builder.hpp`, `packet_parser.hpp`, `deserializer.hpp` |
| `MC*` | values for TLC: what may arrive | |
| `*Proofs` | theorems about the module they are named after; `DownloadProofs` also about `ClientGet`, `WireProofs` about `Netascii` and `Codec`; `CommonProofs` has the lemmas on `AsioEndpoint`, `Tftp`, `Loops` and `StoredBlocks` that the others cite | |

`ReadConnection` and `WriteConnection` implement `Connection`
(`Life == INSTANCE Connection WITH phase <- Phase`), and `Server` uses the
connections only through `Connection`: property `ConnectionsAreUsedWell` says
that what the server does to each object is a behaviour of `Connection`. The
abstract module is where the two levels meet.

`Download` EXTENDS `ClientGet` and takes the connection as `S == INSTANCE
ReadConnection`, whose variables have an `s_` in front; `net` is the one
variable both share. A datagram either side ever sent can be received at any
later time, any number of times, or never: that is all the network does, it is
the `Arrivals` of each component replaced by what the other has really sent. A
step is a step of the client, of the connection, a timeout, or a reception.
`Upload` is built alike. Both implement `Transfer` (`T == INSTANCE Transfer WITH
sent <- ...`; `stored` is the sequence of blocks the receiver has written whole;
in `Upload` it is called `written`). `TypeOK` of a client is in two parts for
the sake of the compositions: `StateOK` is about the client itself, and what
`net` holds is added where nobody else puts datagrams there.

A request can arrive twice and make two connections. The client keeps to the
one whose first answer it handles first, and by symmetry that one may be called
`Conn`. Of the other one only what can still matter to the client is kept: once the
client has its server, packets that are ignored but use up a receive
operation; and at any time an ERROR. Before the client has its server no other
packet of `Other` need be considered, for if it were handled, `Other` would be
`Conn`. In an upload the other one does one thing more: it opens the same file
with mode `wb` and truncates what `Conn` has written (`OtherOpens`). `erased` counts
the blocks that are gone; any number of those written by then may be, since the
others can still be in `Conn`'s stdio buffer. `written` is what `Conn` wrote,
`stored` what of it is still in the file.

`Codec` is the detail behind `Tftp`. `TftpIsSound` says of every packet, every
buffer and every size that the `parse_packet` of `Tftp`, which has records for
packets, agrees with the bytes on all that an endpoint reads.

**State.** Variables have the names of the members they model. `io` is socket,
timer and the queue of completions together; `m_out` is the outgoing buffer as
a packet; `m_in` is the incoming buffer *and* the sender endpoint, the two
members all receives share. `net` collects the datagrams that were put on the
wire and is never emptied, so it stands for a network that keeps, repeats and
reorders. `tries` is a history variable: how often the packet in `m_out` was
handed to ASIO. `registered` says whether `m_connections` holds the object.
In `Server`, `phase` holds each connection's life, `peer` the request it was
made for, and `refused` whether the system denied the acceptor its socket.

**Actions.** One action per handler and outcome. A handler runs to its end in
one step, with every call it makes: `AckReceived` cancels the timer, reads the
next block, fills the buffer and starts the send, or terminates. The handler
picks a completion from `io` (`take_sent`, `take_expired`, ...), in any order,
since ASIO promises none between different operations. The kernel has actions
of its own: `TimerExpires`, `Receive(d)`, `ReceiveBreaks`. A handler that is
given `operation_aborted` returns at once in every class with an endpoint, so a
cancelled operation is dropped where it is cancelled. The acceptor's handler
does not look for `operation_aborted`; there the aborted receive is queued as an
error, and `ReceiveFailed` requests another receive on the closed socket.

**Data.** The bytes of a block are its position in the file, or `Garbled` when
a payload was cut or lengthened by the wrong size. `parse_packet` takes the
packet whose bytes are in the buffer and the size the operation reported; when
the two disagree a DATA packet is garbled and any other is rejected. Where the
source of a block matters, in `ClientGet`, a block that is longer than the datagram
it was parsed from has the source `Garbled`: its end is left over from another
datagram, whose source nobody knows. A block's `whole` says that the write took
all of the payload it was given, right or garbled. File names, modes
and error texts are one fixed text. A read or write fails when it likes; a
failed read is sticky (`ferror`), a failed write may leave part of the block.

## 3. Runs

| run | asks | result |
|---|---|---|
| `read_connection` | A client that sends acknowledgements of every number, errors and junk at any time, from two endpoints | all properties hold |
| `write_connection` | A client that sends full blocks of every number and an empty one, and errors, and another endpoint that sends blocks; writes fail | all properties hold |
| `client_get` | Two endpoints that answer the request, with blocks of every number, and errors | all properties hold |
| `client_put` | Two endpoints that acknowledge the request and blocks, and errors; reads fail | all properties hold |
| `server` | Requests, other packets and junk; `start()` throws; `stop()`; SIGTERM; receive errors | all properties hold |
| `download` | Both ends of a download over a network that loses, repeats and reorders; both time out and fail; datagrams overwrite one another in the buffers | both properties hold |
| `upload` | Both ends of an upload over that network | both properties hold |
| `netascii` | Every short file, read, sent in packets and written; and any characters from another program | all properties hold |
| `codec` | Every small packet, built, received into a used buffer, and parsed with its own size or that of another | all properties hold |
| `download_burst` | Is what the client of that download stores what the server sent? | violated, see section 6 |
| `upload_reopened` | Does the server have the whole file when the client of an upload ends well, although the request may arrive twice? | violated, see section 6 |
| `server_start` | Does `run()` fail only if the system refuses the socket? | violated, see section 6 |

The properties, by what could go wrong:

- `NeverAbandoned`: an object that is still held (a client: whose socket is
  open) has a completion queued or its timer running. It is the property every
  early return of a handler could break.
- `RetryBudget`: `tries` stays within `DEFAULT_RETRY_COUNTER`, though stale
  timeouts decrement the counter of a packet they do not belong to.
- `WireMatchesFile` (the senders): every DATA packet ever sent carries its own
  block under its own wrapped number; nothing is read past the short block.
- `InOrderOnce` (the receivers): repeated, late and skipped blocks leave no
  trace in the file. After a write that failed it says what the code does with a
  block that arrives on another pending receive: the block that failed is the
  only one written, behind what the failed write left. In `client_get` the
  property has `num = i`, not modulo: the comparison is made as `int`, so a
  download stops at block 65535.
- `AckedIsWritten`: no acknowledgement without a completed write of the block.
  For `write_connection`, whose numbers wrap, it is about the ACK kept for
  retransmission: that one is of the block written last, so that a number of the
  lap before never stands in for a block; ACK 0 of the request only goes with an
  empty file. In `client_get` numbers do not wrap, and it is about every ACK on
  the wire. It says that the write took the payload the parser gave it, not that
  the payload is right: see `StoredIsTheFile`.
- `OneServer` (get): every block of the file was sent by one endpoint, although
  before the first answer any source is accepted. Only the end of a block that a
  burst lengthened may be another's. `OneServer` (put): all blocks go to one
  endpoint.
- `ImplementsConnection`: refinement of `Connection`; after
  `connection_terminated` nothing more goes out.
- `AcceptorListens`, `SetIsExact`, `RequestsServed`, `ConnectionsAreUsedWell`:
  the server's part, as in section 1. `SetIsExact` names the one leak: a
  connection whose `start()` threw stays in the set.
- `ImplementsTransfer`: the two ends together keep the promise of `Transfer`. It
  needs both: that the sender takes no old acknowledgement for a new one, and
  that the receiver acknowledges what it has stored. It holds in bursts too,
  because `Transfer` lets the bytes of a block be `Garbled`; that they can be,
  `download_burst` shows. What it excludes is that a block is lost, stored
  twice, or stored in the place of another.
- `EndsWithTheFile`: the client of a download that acknowledges a last block has
  stored one for each of the file's, unless the last it stored was cut short by
  a burst. `SuccessIsEarned`: when the client of an upload ends because its last
  block was acknowledged, `Conn` has written one for each. The converse is not
  true, since the last ACK is sent once and may be lost. Whether the server's
  file still has them is `SuccessIsStored`, which does not hold.
- `WireIsNetascii`, `FileIsRestored`: the reader's packets, joined, are the
  encoding of its file, and the writer restores the file, with a pair of
  characters split by the end of a packet, and without the `close` that would
  write a pending CR. `TextSurvives`: from any other program, line feeds and
  ordinary characters arrive in order.
- `RoundTrip`, `TftpIsSound`: what is built is parsed; the records of `Tftp`
  stand for the bytes.
- `Released`: everything ends. A `write_connection` does once the client has no
  new block to send: `<>[][UNCHANGED file]_vars` is the condition. It is needed,
  since a client that sends full blocks for ever, with numbers that wrap, keeps
  its connection for ever. The other three end whatever arrives: a file that is
  sent is finite, and the numbers of `client_get` do not wrap.
- `TypeOK`: one per module.

**Bounds.** `DEFAULT_RETRY_COUNTER` is 2 or 3: 2 is the least with a
retransmission, 3 has one that is neither the first nor the last.
`DEFAULT_DATA_SIZE` = 2 gives empty, short and full blocks. `BlockModulus` = 3
makes numbers wrap within a file of three blocks. `write_connection` has
`BlockModulus` = 2 and `MaxStored` = 3, so that blocks 1, 0 and again 1 are
written: an ACK of a second lap is told from one of the first. `MaxBurst` = 2 is
how many receives may complete before the handler of the first runs: two are
what it takes to overwrite a buffer. `MaxStored` is the number of blocks that
stops the arrival of a block that would be written, and of nothing else:
repeated and old blocks arrive at any time, and no handler is held back. In
`client_get` numbers do not wrap and stop the download by themselves. `Conn` has
three objects: one that fails to start, one that ended, one that serves. What
may arrive is always available and arrives any number of times. The sets are
given in the `MC` modules.

In `download` and `upload` the file has two blocks, a full and a short one,
`MaxBurst` is 2, and `MaxTimeouts` = 2 timers expire on both sides together: enough
for crossing repetitions of a block and its acknowledgement, or for one side to
give up; the theorems are for every number.
`Blocks` is less than `BlockModulus`, an assumption of these modules: the
network keeps datagrams for ever, and a block older than the wrap would be taken for
a new one; with 65536 numbers and a timer of one second a real network does not
keep them so long. The endpoints are distinct: the client's is neither a
connection's nor the server's, and `Conn` and `Other` differ. `MaxStored` = 9 in
`upload` is not reached. `upload_reopened` needs no burst for its
counterexample and has `MaxBurst` = 1.

`netascii` takes every file of up to `MaxLength` = 5 characters out of CR, LF,
NUL and a letter, a peer file that ends or fails anywhere, and packets of two
characters, so that pairs fall within packets and across. `codec` has bytes of
six values and numbers that need both bytes.

**Fairness.** `FairSpec` adds `WF(RunHandler)`: the io_context runs handlers
that are ready. No handler in particular is favoured, so nothing depends on
their order. And `WF(TimerExpires)`: time passes. Nothing is assumed about
arrivals, sends or failures; in particular no packet need ever arrive. The
server has `WF(AcceptorHandler)` only: its one receive operation has one
completion at a time, which nothing disables short of the end of the process.
That is enough for `RequestsServed`, and connections need not end for it.

**The owner of the acceptor.** `AcceptorIsShared` is `FALSE` for the code as it
is: then `run` always fails, which is what `server_start` shows, and nothing
behind it would be reachable. The `server` run sets it to `TRUE`, as if
`server.hpp:30` held a `shared_ptr`, to check all the rest of the server.

Deadlock is not checked: each of these processes ends, and stays ended.

## 4. Proofs

`tlapm` proves, with no assumption but the named ones on the constants
(`TftpAssumption` and one per module: counts and sizes are positive, the last
block is shorter than a full one, what arrives is packets whose numbers have the
width of the wire):

| module | theorems |
|---|---|
| `ReadConnectionProofs` | `TypeOK`, `NeverAbandoned`, `RetryBudget`, `WireMatchesFile`; every behaviour implements `Connection` |
| `WriteConnectionProofs` | `TypeOK`, `NeverAbandoned`, `RetryBudget`, `InOrderOnce`, `AckedIsWritten`; every behaviour implements `Connection` |
| `ServerProofs` | `TypeOK`, `AcceptorListens`, `SetIsExact`, `ConnectionsAreUsedWell` |
| `DownloadProofs` | of `ClientGet`: `TypeOK`, `NeverAbandoned`, `RetryBudget`, `InOrderOnce`, `OneServer`, `AckedIsWritten`; of `Download`: `EndsWithTheFile`, `StoredInPlace`; every behaviour implements `Transfer` |
| `ClientPutProofs` | `TypeOK`, `NeverAbandoned`, `RetryBudget`, `WireMatchesFile`, `OneServer` |
| `UploadProofs` | `SuccessIsEarned`; every behaviour implements `Transfer` |
| `WireProofs` | of `Netascii`: `WireIsNetascii`, `FileIsRestored`, `TextSurvives`; of `Codec`: `RoundTrip`, `TftpIsSound` |
| `CommonProofs` | lemmas only: what each socket operation does to the counts of completions; type and range of packets, block numbers, `parse_packet`; where a loop ends; what is picked out of a sequence that grows; what a write does to the blocks stored whole |

These are all the safety properties the passing runs check. The endpoints'
theorems hold for files of any length, any retry limit, block size, number width
and burst, any set of arriving datagrams and any number of connections. Those of
the compositions hold for any number of timeouts, any burst and every file
shorter than the wrap of the block numbers. They are about which blocks are
stored, and where; that a burst leaves their bytes alone would be false, as
`download_burst` shows. `StoredInPlace` says what is left of `StoredIsTheFile`:
the i-th block stored is the i-th of the file, or `Garbled`.

*The connections.* None of the properties is inductive alone. Each proof module
has an `IInv` of named parts; the ones that carry the argument are

- `Budget`: while `m_retry_counter` is positive, it and `tries` add up to
  `DEFAULT_RETRY_COUNTER + 1`. `RetryBudget` is the visible half of that sum;
- `HeldWhileOpen`: after `start()`, the server holds the connection exactly as
  long as its socket is open, and then something drives it. `NeverAbandoned`
  is the consequence; the equality is what the refinement needs, for a queued
  timeout of a terminated connection sends again, and on a closed socket
  nothing goes out;
- `BeforeStart`: nothing has happened before `start()`;
- `Owed` (write): the number expected is the one that must follow the file as it
  is, whole or partial block last; it carries `InOrderOnce` past a failed write;
- `Position` (read) and `Expected` (write): the block number is the position in
  the file modulo `BlockModulus` until a read or a write fails. They carry
  `WireMatchesFile` and `InOrderOnce` over the wrap of the number;
- `MatchesFile(m_out)` (read): the packet kept for retransmission is
  as good as those on the wire, since it will be there again. The ACK kept by
  a write connection is `AckedIsWritten` itself: `m_out` and the end of the file
  change in the same steps;
- `Refused` (write): a connection that has no writer has no receive pending, so
  no DATA packet can reach its `write`.

Every action is one of a few kinds of steps, and the lemmas say what each kind
preserves: `FrameStep` (completions move), `EndStep` (the handler ends in
`terminate`), `SendStep` (it ends in `send_packet`). The lemmas on
`AsioEndpoint` say what each call did to `io`, so no step looks inside it. The
refinement theorem takes the same steps, with `IInv` on both sides, to a step
of `Connection` or a stutter.

*The server.* `IInv` adds to the type invariant, `AcceptorListens` and `SetIsExact`
only that nothing has happened before `run`. `HandlerKeepsOne` says that taking
one receive and requesting one keeps their sum, on an open socket and on a
closed one. The action property follows from the phases of the connections in
the set.

*The clients.* The same kinds of steps, and more to carry:

- `BeforeAddress`: until the server's name is resolved nothing is pending on the
  socket and the request is not complete. With it the first send, which the
  resolver's answer starts, finds the counts it expects;
- `Incoming` (get): what is received is of a peer and has a number the wire can
  hold. A download stops at the last number because the comparison is made as
  `int`, and that needs the bound;
- `Writer`, `Owed`, `Counted` (get): the writer is set exactly when the request is
  complete, and until a write fails the number acknowledged last is the length
  of the file. They carry `InOrderOnce`, as in the connections;
- `Position` (put): the number of the last block is its position in the file,
  modulo `BlockModulus`, until a read fails, and a client that has not sent its
  last block has one to read;
- `OfFile` (put), `Acked` (get): the packet in `m_out` is as good as those on the
  wire, since it may be sent again. `OfFile` says too that a server was
  accepted, and `ToServer` that the block went to it. They stay true because
  the file is only read on and the server is kept (`GoesOn`).

Each `IInv` is about the client alone, not about what others put on `net`.
`StepOfOthersInv` says that a step of anybody else preserves it, so the compositions
have it for nothing.

*The compositions.* `DInv` and `UInv` are the client's `IInv` and what ties the
two sides together:

- `Sound`, of every datagram on the network, however old: a DATA packet is a
  block of the sender's file under its own number (`OfFile`), an ACK is of a
  block the receiver has stored (`Earned`). The same is said of the buffers
  (`Buffer`, `Buffers`) and of the packets kept for retransmission, through
  which such a packet passes;
- `Sender` and `Receiver`, or `Writes`: the block number is the position in the
  file without a modulo, and the number acknowledged is the count of whole
  blocks;
- `InStep`: the sender is at most one block ahead.

`OfFile` and `Earned` are monotone: no later step takes them back, which is why
a network that keeps datagrams for ever does no harm. From `Earned` and `InStep`
a sender that goes on was told of its current block, so its step is `T!Send`;
from `OfFile` and `InStep` a receiver that stores was given the block that
follows, so its step is `T!Store`; all others leave both variables of
`Transfer`. `EndsWithTheFile` and `SuccessIsEarned` then follow from the size of
the last block. Both invariants were checked by TLC on the instances of the runs
before they were proved.

The lemmas on `StoredBlocks` say that a whole block appended to the file is
appended to `stored`, and a partial one is not. They follow from how the number
of positions up to the end grows (`NthOfMore`).

*Loops.* What a recursive definition computes needs an induction, and the
library's induction theorems take an operator as a parameter, which the prover
does not instantiate. Two lemmas of `CommonProofs` do without. `Induction` is
about a set: if 0 is in it, and with each number the next, all are; it argues
about the least number that is not (`LeastNatural`). `FoldRuns` says that the
recursive function in `Fold` exists, as the union of its beginnings; from it
follow `FoldInvariant`, the rule of an invariant for a loop, and `FoldOfAppend`,
what one element more does. The loops of `Netascii` and `Codec` are instances of
`Fold`, so that their lemmas are about one turn each.

*Netascii.* The theorems hold for every set of ordinary characters, every size
of packets, every length of files, and wherever the file of the reader or that
of the writer fails. `EndOf(source, p)` is where the encoding of the first `p`
characters ends; the encodings of the beginnings of a file are the beginnings of
its encoding (`UptoStarts`). `NetasciiInv` then says where both sides stand:

- `ReaderAt`: the reader that took `p` characters has sent as many as encode
  them, but for one if a character is pending, and what it sent is how the
  encoding begins (`Continues`);
- `WriterAt`: what the writer was given ends where some number of characters of
  the file ends, or within a pair, and it has written these characters and no
  others; a CR is pending exactly where a CR of the encoding was given and
  nothing behind it. After a failure it has still written a beginning of the file;
- for another program's characters nothing of that is known, but each turn
  of the loop of `write` writes the line feed or ordinary character it is given
  and no other (`WriteText`), which carries `TextSurvives`.

*Codec.* The theorems hold for every base of the bytes above 5, so for 256,
every size of the buffer, and all texts without a 0, blocks, numbers of two
bytes and finite sets of options. `CodecInv` says that the buffer begins with
the bytes of the packet received last, and nothing about what is behind them.
`Agrees(bytes, packet)` says that two sequences are equal as far as both go:
that is all a handler with a size of its own can rely on. For each kind of
packet one lemma says what the parser makes of bytes that agree with it, for
every size:

- a DATA packet is read with its number and the rest of the bytes, unless these
  end in the header (`DataSeen`);
- an ACK packet only if there are four (`AckSeen`), and an ERROR packet only if
  they end where its message does: with fewer no 0 ends them, with more either
  none does or there is more than one string (`TextAgrees`, `ErrorSeen`);
- a request is read as it was written if the size is its own (`RequestSeen`),
  and otherwise as some request or not at all. The strings a buffer holds are
  those between its zeros (`HoldsStrings`), and the options are restored
  whatever order they were written in (`OptionsRestored`).

`PacketsAreRestored` and `EndpointsSeePackets` compare these with what was
built and with what `Tftp` says. So the endpoints' theorems, which are about
records, hold for the bytes behind them.

**Left to TLC:** the liveness properties `Released` and `RequestsServed`, since
fairness and ENABLED are beyond the prover.

## 5. What is not modelled

- *Two connections on one file, beyond the truncation:* the second
  `write_connection` gets no block, as the client keeps to the first, so it writes
  nothing. The hole that is left in the file where blocks were erased is not
  told from the end of a short file.
- *The writer of netascii after a failed write:* the transfer is taken as over,
  although a repeated block may be written again (`WriteConnection` has that).
- *A full socket:* a send is done, or fails, when it is requested; the bytes of
  `m_out_packet_data` are not replaced while it waits.
- *stdio buffering:* a block counts as stored when `fwrite` took it; the flush
  in `fclose` and its ignored error are not modelled.
- *Paths and modes:* which names are refused is data; the three outcomes of
  the io manager (null, not open, open) are all in `Start`.
- *The client application:* it makes one fixed request. In `ClientGet` its mode
  is one `open_writer` knows.
- *`stop` of a connection or a client from outside*, other than through
  `server::stop`: nothing in the repository calls it.
- *Failure of `open`, `bind` or `close` inside a connection*, beyond `start()`
  throwing (which is `Server`'s "stillborn" and the clients' "failed").
- *Build files*, `make_unique`.

## 6. Disagreements between code and documentation

`src/README.md:3` promises a server application. `server.hpp:30` owns the
acceptor with a `unique_ptr`, `server_acceptor.hpp:60` calls
`shared_from_this()`, which throws `bad_weak_ptr`, and `server_app::run` returns
`EXIT_FAILURE` with the socket granted (`server_start`).

`src/README.md:3` and `:9` promise a TFTP client and server after RFC 1350. With
two receives pending, which one retransmission is enough for, two datagrams can
be received before the first handler runs. The handler parses the bytes of the
second with the size of the first (`client_get.hpp:155` and `:186`).
`download_burst` shows a full first block that is stored cut to the size of an
ERROR packet that came before it, and, being short, taken for the last; a
repeated block 1 followed by a short block 2 makes the client store stale bytes
in the same way. The first of the two datagrams may even be a stranger's: its
source is looked at, and the packet dropped, only when its handler runs
(`:180`), and by then its bytes are behind those of the server's block. The
other three classes share the buffer alike.

Nor are the client's files safe at the server when a write request arrives
twice, because the client sent it again or the network repeated it. Each makes a
`write_connection` (`server.hpp:65`) that opens the file with mode `wb`
(`file_io.hpp:119`), so the second truncates what the first has acknowledged.
The client goes on with the first one, gets its last ACK and ends well; the
server's file lacks what was erased (`upload_reopened`).

The comments at `netascii_io.hpp:170` and `:181` tell a NUL that follows a CR
from one that does not. The code keeps `m_pending_cr` over other characters, so
that CR, a letter, NUL becomes the letter and a CR. No run asks for the NULs;
`TextSurvives` is about all other characters but CR.

Behaviour that no document speaks of; all but the last is in the models:

- a read error of a netascii file ends the transfer as if the file had ended
  (`netascii_io.hpp:80`);
- a CR that another program sends last is never written, since nobody closes
  the writer;
- after `server::stop` the acceptor requests receives on its closed socket for
  ever, so `io_context::run` would not return; `server_app` does not call it;
- a connection whose `start()` throws stays in `m_connections`;
- after the ERROR for a failed write, a block that arrives on another pending
  receive is written again, and acknowledged if that works;
- `client_get` cannot receive more than 65535 blocks, while the server wraps;
- without an address for the server's name the clients leave their socket open;
- the pending wait for SIGTERM keeps `io_context::run` of the client application
  from returning when its transfer has ended.

## 7. Plan

Done, in this order: `Tftp`, `AsioEndpoint`, `ReadConnection` with `Connection`,
`WriteConnection`, `Server`, their proofs, `ClientGet`, `ClientPut`, `Transfer`
with `Download` and `Upload`, `Netascii`, `Codec`, the proofs of the clients and of
the two compositions, and those of `Netascii` and `Codec`.

What could follow are models of what section 5 leaves out: the stdio buffer,
with what is lost of it when the process is killed or a flush fails; a socket
that is full when a packet is retransmitted; a client of `netascii` that
receives a block again after a failed write.
