# AchillesLink in TLA+

A formal model of AchillesLink, a small C++ reactor network library
(`src/`, edge-triggered epoll, one `EventLoop` per thread, TCP connections with
user-space buffers, three codecs and a bundled asynchronous logger).

The modules translate the code. TLC checks them on small instances, TLAPS proves the
safety properties of every component modelled (loop, connection, buffer, codecs, server
and client, logger) for every value of their constants. `PROJECT.json` lists the runs, the
source lines behind each definition, a mutation of the code for every property, the
hazards and the theorems. Paths below are relative to `src/`, the root of the repository.

## 1. The system

| Component | State | Operations | Used by |
|---|---|---|---|
| `EventLoop` (`src/reactor/EventLoop.cpp`) | `looping_`, `quit_`, `pending_functors_` (mutex), `calling_pending_functors_`, eventfd | `loop`, `quit`, `runInLoop`, `enqueueInLoop`, `doPendingFunctors`, `wakeUp`, `handleWakeUp` | every thread |
| `Epoll` (`src/reactor/Epoll.cpp`) | epoll descriptor, event array | `poll`, `updateEvent`, `removeEvent` | `EventLoop` |
| `Channel` (`src/reactor/Channel.cpp`) | interest `events_`, `active_events_`, four callbacks | `enable…`, `disable…`, `handleEvent` | connections, acceptor, connector, eventfd |
| `TcpConnection` (`src/net/TcpConnection.cpp`) | `state_`, `input_buffer_`, `output_buffer_` | `connectEstablished`, `send`, `shutdown`, `handleRead/Write/Close/Error` | server, client, user code on any thread |
| `ByteBuffer` (`src/net/ByteBuffer.*`) | vector, `reader_index_`, `writer_index_` | `append`, `prepend`, `retrieve…`, `makeSpace`, `readFd` | connections, codecs |
| codecs (`include/protocol/*`) | none | `encode`, `decode` | user callbacks |
| `TcpServer` (`src/TcpServer.cpp`) | `connections_`, acceptor | `start`, `handleNewConnection`, `removeConnection` | user |
| `TcpClient` (`src/TcpClient.cpp`) | `sock_`, `connect_channel_`, `connection_` | `connect`, `handleWrite`, `newConnection`, `removeConnection` | user |
| `LogHandlerManager` (`third_party/argus_log`) | queue, mutex, condition variable, `is_stop_`, handlers | `pushEvent`, worker, destructor, `addHandler` | every `LOG_…` statement |

**How they interact.** One thread runs `loop()`: `epoll_wait()` without timeout,
then `Channel::handleEvent()` for each ready descriptor, then the queued
functors. Everything on a connection is meant to happen on that thread; other
threads reach it through `enqueueInLoop()`, which pushes under a mutex and writes
to an eventfd. `TcpConnection::send()` follows this rule, `shutdown()` does not.
All interest except after `disableWriting()`/`disableAll()` is edge-triggered
(`READ_EVENT` and `WRITE_EVENT` both hold `EPOLLET`, and clearing `WRITE_EVENT`
clears it for reading, too). The user's message callback gets the input buffer
and decodes in a loop.

**What is hard here.** Lost wake-ups between flag, queue and eventfd; edges that
are reported once; the order of a direct `write()` and buffered bytes; a half
close that has to wait for the buffer; close, error, read and write callbacks in
one `handleEvent()`; calls from foreign threads in the middle of a handler;
moving bytes inside a vector with two indices; messages cut anywhere by TCP;
shutting down a worker through a condition variable; lifetimes of channels that
destroy themselves. `PROJECT.json` lists them as hazards with their lines.

**What makes each part correct.** Loop: no functor is lost, doubled, reordered or
left waiting, and `quit()` ends it. Connection: bytes leave once and in order,
nothing accepted is cut off by `shutdown()`, the owner hears of the end once, no
edge is missed. Buffer: it is a queue of bytes in bounded memory, and an empty
one has its header room. Codecs: messages come out whole, once, in order, as soon as
they are complete. Logger: every event reaches every handler in one order, and
what was logged before exit is written. Server and client: an entry in the map
exactly while a connection is open, one owner per descriptor, no use of a
destroyed channel.

## 2. Modules

| Module | Models | Extends / instantiates |
|---|---|---|
| `FunctorQueue` | abstract: a FIFO of work, `Enqueue` and `Execute` | – |
| `EventLoop` | `EventLoop` with all its threads, and the eventfd in epoll | `FunctorQueue` as refined specification |
| `EventLoopProofs` | its theorems | `EventLoop`, TLAPS |
| `Channel` | interest, callback order, and (external) epoll's ready list | – |
| `GracefulStream` | abstract: an ordered stream that may be finished when drained | – |
| `TcpConnection` | one connection, its loop, its peer, its callers | `Channel`; `FunctorQueue` as its task queue; `GracefulStream` as refined specification |
| `TcpConnectionProofs` | its theorems | `TcpConnection`, TLAPS |
| `Buffer` | `ByteBuffer`'s methods as functions on a record | – |
| `ByteQueue` | abstract: a sequence of bytes | – |
| `ByteBuffer` | a buffer under every sequence of calls | `Buffer`; `ByteQueue` as refined specification |
| `BufferProofs` | lemmas: what each method of `Buffer` does to the readable bytes, the indices and the vector | `Buffer`, SequenceTheorems, TLAPS |
| `ByteBufferProofs` | `ByteBuffer`'s theorems | `ByteBuffer`, `BufferProofs` |
| `RpcCodec`, `ModbusCodec`, `HttpCodec` | `encode`/`decode` as functions over `Buffer` | `Buffer` |
| `CodecStream` | sender, stream, `handleRead()`, decode loop | the three codecs; `FunctorQueue` as refined specification |
| `CodecStreamProofs` | its theorems, and lemmas on each codec's frame | `CodecStream`, `BufferProofs` |
| `Ownership` | sockets, the descriptor table, who refers to a connection, the peers, epoll | `Channel` |
| `TcpServer` | accepting, `connections_`, the destructor | `Ownership` |
| `TcpClient` | `connect()`, the handshake's end, two holders of one number, the destructor | `Ownership` |
| `Endpoints` | server and client on one loop: the list `poll()` returned, callbacks, who may still be used | `TcpServer`, `TcpClient` |
| `OwnershipProofs` | lemmas: what holds of descriptors, objects and references whatever is done with them, and that `Settle` keeps it | `Ownership`, WellFoundedInduction, TLAPS |
| `EndpointsProofs` | the theorems of `Endpoints` | `Endpoints`, `OwnershipProofs` |
| `LogHandlerManager` | producers, worker, destructor | `FunctorQueue` as refined specification |
| `LogHandlerManagerProofs` | its theorems | `LogHandlerManager`, TLAPS |
| `MC…` | instances for TLC: finite sets of bytes and messages | the module of the same name |

The connection is composed with the loop through abstraction: `EventLoop` is
proved to implement `FunctorQueue`, and `TcpConnection` uses `FunctorQueue` for
the functors that `send()` posts. `CodecStream` likewise uses an ordered stream
of bytes, which is what `TcpConnection` is proved to provide. `Endpoints` composes
server and client: they share the loop, the list of active channels and the
process's descriptors, through which each can get in the other's way. It shares
`Channel` with `TcpConnection`: the interest masks, the order of callbacks and
the kernel's ready list are the same definitions.

### Grain and correspondence

An action is a stretch of code between two accesses to something another thread
or the kernel may change at the same time.

* **EventLoop.** `pc` is the place of the loop thread: `new` (before `loop()`),
  `starting` (between the stores of lines 52 and 53), `check` (the `while`),
  `poll` (inside `epoll_wait()`), `dispatch` (the `for` over active channels),
  `swap`, `run`, `body` (`doPendingFunctors()`). `callpc[t]` is the place of
  thread `t` inside `enqueueInLoop()` (pushed, not yet past line 103) or `quit()`
  (stored, not yet woken). User code runs before `loop()`, in any callback
  (`dispatch`) and in functors (`body`); in all three it may call the loop.
  `wakeCount` is the eventfd's counter and `wakeReady` its place on epoll's ready
  list, which under `EPOLLET` is cleared by `epoll_wait()` and set by each write.
* **TcpConnection.** `pc` and `todo` are the loop thread's place in
  `handleEvent()` and the callbacks it still has to make, computed once from the
  events `epoll_wait()` returned. `handleWrite()` and `sendInLoop()` are split at
  their system calls, because another thread's `shutdown()` reads `state_` and
  `output_buffer_` in between; `shutpc[t]` is the place of `t` in `shutdown()`.
  The kernel's side is external: `room` in the send buffer, `inq`, `fin`, `rst`,
  `err` (`SO_ERROR`), and which changes put the descriptor back on the ready list
  (`ReadyAfterEdge`, `ReadyAfterUpdate`, `ReadyAfterWait`). Bytes are the name of
  their message, repeated `Size[m]` times: enough to see order, loss and repetition.
* **Buffer.** A record of the vector's cells and the two indices, 0-based as in
  the code. `MustGrow` is the test of `makeSpace()`, `Resized` and `Compacted`
  its branches. The byte values are a parameter.
* **CodecStream.** Header length, magic, and integer widths are parameters scaled
  down for TLC; the sum of line 45 of `RpcCodec.h` is taken modulo its width. All
  header fields that the codec only copies are one cell (`meta`). An HTTP request
  is one cell for its request line, one for its length if it has one, and one for
  the empty line; the search for the empty line is a search for that cell.
* **Ownership, TcpServer, TcpClient, Endpoints.** One action per callback of
  `handleEvent()` and one per turn of the `for` over active channels. `active` is
  `poll()`'s list, `current` and `todo` the channel whose `handleEvent()` is on the
  stack. A socket of `Conns` comes from a peer, socket `a` of `Attempts` from the
  client's `a`-th `connect()`; `table` says which socket a number stands for, `fd[s]`
  is the number that the connection's `socket_` holds, `sock` the one of `sock_`.
  Whoever closes a number closes what `table` has there, as in the process.
  References are counted by where they are: an entry of `connections_`,
  `connection_`, or `kept` by the user. `Settle`, part of every action that takes
  a reference away, destroys what has none left and closes its number; `NewFd`
  gives out the lowest free one, as the kernel does. `connect()` and both
  destructors are calls of a functor. Of the connection only its end and its
  reading are kept; the rest is `TcpConnection`'s. Reading the flags of a destroyed
  channel is undefined, and so is a close callback whose owner is gone: the loop
  goes on or the process ends (`UseAfterEnd`, `HandleClose`).
* **LogHandlerManager.** One action per critical section, per store of
  `is_stop_` and per call on the condition variable; the worker alone keeps the
  mutex over two actions, from evaluating the predicate to sleeping.

## 3. Runs

| Run | Shows | Bounds |
|---|---|---|
| `EventLoop` | no lost wake-up, the eventfd never goes silent, one FIFO queue; functors run, `quit()` ends the loop | loop thread + 2 threads, 3 functors, everybody may quit, before `loop()` too |
| `EventLoopEarlyQuit` (violated) | a `quit()` between lines 52 and 53 is lost | 1 other thread, nobody quits before `loop()` (`EarlyQuits = FALSE`) |
| `TcpConn` | order, write interest, half close, own writes, close callback, final state, `GracefulStream`; pending shutdown completed, output flushed, input read | 2 messages of 3 bytes and 1 byte, send buffer of 2, 2 units of input, a peer that may close and reset |
| `TcpConnEof` (violated) | data and FIN in one edge: the FIN is never seen | 2 units of input |
| `TcpConnCrossShutdown` (violated) | `shutdown()` on another thread cuts accepted bytes off | 1 message, 1 caller |
| `ByteBuffer` | indices, header room, memory, `ByteQueue` | header room 2, first size 1, chunks ≤ 2, ≤ 3 bytes waiting |
| `CodecStream` | framing, no message left behind, for all three codecs | 3 messages, 3 bodies, any cut |
| `HttpReusedRequest` (violated) | a reused request keeps a stale body | the same, HTTP only |
| `Endpoints` | `connections_` is exactly the open connections as long as no closed one's number was wider than `uint16_t`, guarded connections are safe, who can lose a descriptor, no leak, only accepted handshakes become connections; descriptors come back, the outcome of a handshake and an announced connection are noticed | 2 peers, 2 calls of `connect()`, 2 descriptors, 2 and 5, of which 5 is no `uint16_t` (its values are 0 to 2); one connection of each side guarded, the client's is reset, one dropped at any time, one never kept; both owners may be destroyed |
| `EndpointsUseAfterEnd` (violated) | a channel is used after its destruction when the user keeps nothing | 2 peers, no client |
| `LogManager` | notification, order, drain, every event handled | 2 threads, 3 events, 2 handlers |
| `LogManagerStop` (violated) | lost notification in the destructor | 1 thread, 2 events |

**Why these bounds are enough.** *Loop:* the interesting schedules need a push
before, during and after the swap and a second writer of the eventfd: three
functors and two threads. *Connection:* with messages of 3 bytes and of 1 byte and
a send buffer of 2, a write may be whole, partial or refused, and the rest of the
long message waits while the short one, from the loop or from another thread, is
sent: it would fit, and must not overtake. Two units of input may come in one edge
or two; reads take all there is, because `InputIsRead` is only claimed for that
(below). More messages are covered by the proofs, which know no bound. *Buffer:*
with 2 cells of header room and chunks of 2 every branch of `makeSpace()` is
reached with overlapping and non-overlapping copies, and buffers are drained and
refilled without limit. *Codecs:* one body is itself a whole empty RPC frame and
one looks like the end of HTTP headers, so a decoder that loses the frame border
delivers something that was never sent; three messages make two borders, cut at
every place. *Logger:* two producers let one notification stand for two events;
three events can be in the queue, in the worker's hand and done at once. *Endpoints:* two
descriptors for up to four sockets: `accept()` and `socket()` fail, and a number given
up stands for something else at once; one `poll()` returns the acceptor together with
connections of either side, in any order; the second `connect()` finds the first one
pending, refused, connected, closed or gone. Number 5 stands for one from 65536 on: its
entry is not found when it is closed, and that of 2 is erased for it. One of the client's
sockets sends and one is reset; the code that meets this is the same for the server's. The
one that is reset is guarded: after its close callback the kernel still reports it, so that
`poll()` returns a closed connection which the user may be about to drop. The model
ends once a connection has lost its descriptor (`Lost`): what two objects do to each
other over one number afterwards is not pursued.

**Fairness.** The code's threads are ordinary threads: a thread that is inside a
call or a handler and not blocked goes on (weak fairness of `ReturnFromCall`,
`LoopWithoutPoll`, `Handlers`, `ShutdownGoesOn`, `NotifyAfterPush`, `Worker`,
`Destructor`). `epoll_wait()` must return only if the eventfd is ready (weak
fairness of `Poll /\ WakeIsReported`); other descriptors and signals need never
wake it, and no user needs to call anything. In `TcpConnection` the loop also
serves other connections; each round looks at every ready descriptor and runs the
queued functors, so `Dispatch` and `RunTask`, which are enabled again and again
while the loop goes round, are strongly fair. `PeerDrains` is an assumption on the
peer: it keeps reading. `Sleep`'s wake-up is fair only as a consequence of
`notify_one()`; spurious wake-ups are possible and never required. In `Endpoints`
the loop goes on unless it is inside `epoll_wait()` with nothing to report and no
functor posted (`PollMustReturn`); the user is assumed to drop closed connections
some day (strong fairness of `UserDrops` on them), without which no descriptor can
come back.

## 4. What the runs show about the code

* **quit() can be lost.** `loop()` stores `quit_ = false` after it has announced
  itself through `looping_` (`EventLoop.cpp:52-53`).
* **One read per edge.** `handleRead()` reads once, up to the buffer's room, under
  `EPOLLET`. Input beyond it waits for the next input, and a FIN that came with
  the data is never seen (`TcpConnection.cpp:139`). The README's "level-triggered"
  is not what `Channel.cpp:17` subscribes.
* **shutdown() is not thread-safe** (`TcpConnection.cpp:83-95`).
* **A request may be delivered with the body of an earlier one.**
  `HttpCodec::decode()` assigns a body only if there is one
  (`HttpCodec.h:71`), and `BasicUsage.cpp:44` declares the request before its
  decode loop. `RpcCodec.h:60` has the same shape. `FreshMessage = TRUE`, an object
  for each message, is what `CodecStream` shows to be enough.
* **A channel is used after its destruction** (`Channel.cpp:38`). The close callback
  erases the server's entry in place (`TcpServer.cpp:81`), usually the last
  reference, while `handleEvent()` of that channel is on the stack; `TcpClient.cpp:94`
  does the same. `GuardedAreSafe` says what a user can do about it: keep a reference
  until the close, drop it in a functor, and keep the server or client as long.
* **Two objects close one number** (`TcpClient.cpp:80`). `DescriptorsAreTheirs` says
  when it hurts: never before the client that once had a connection connects again or
  is destroyed. After that it does, see below.
* **A failed handshake is seen for the wrong reason** (`TcpClient.cpp:63`): in place of
  `SO_ERROR` the stale `errno` is tested. It is `EEXIST`, since `disableAll()` has just
  had `EPOLL_CTL_ADD` refused (`Epoll.cpp:41`); `ConnectionWasAccepted` rests on that.
* **A wide descriptor is never removed** (`TcpServer.cpp:79`). `removeConnection()` takes
  the number as `uint16_t`. From 65536 on the entry of a closed connection stays, with
  its descriptor, and another connection's may be erased in its place. `Missed` names
  those entries: `EntryPerOpenConnection` holds until there is one, and
  `DescriptorsComeBack` is said of the server's connections with narrow numbers.
* **The logger may hang at exit** (`LogHandlerManager.cpp:65`).

### What the runs do not keep

Met with TLC while modelling, recorded here and in the hazards rather than as runs
of their own; each needs one changed constant or one more property:

* `SetupPosts = TRUE` (the loop's thread calls `enqueueInLoop()` before
  `loop()`): no wake-up is written, `NoLostWakeup` and `NoFunctorStarves` fail.
* `EarlyQuits = TRUE` in `EventLoopEarlyQuit`: a `quit()` that comes before `loop()` is
  overwritten at line 53 as well.
* `ShutdownCallers` with another thread also breaks `CloseCallbackOnce` and
  `ClosedIsFinal`: line 86 overwrites `CLOSED`, and a second close event runs the
  close callback again.
* `PeerResets = TRUE`: `sigpipe` is reachable, by a second `write()` after a
  reset. `OwnWritesSucceed` says that this is the only way.
* `ReadMax < MaxArrivals` in `TcpConn`: `InputIsRead` fails, see above.
* "A waiting connection is accepted" in `Endpoints`: two arrive in one edge, `accept()`
  is called once (`TcpServer.cpp:58`), the second one waits for a third.
  `AnnouncedIsAccepted` is what holds.
* `Lost = {}` in `Endpoints`, `DescriptorsAreTheirs` without its condition.
  `TcpClient.h:5` names reconnecting. `connect()` while there is a connection closes the
  number of the live connection, which is in no epoll set from then on. `connect()` after the
  connection has ended: its `socket_` has closed the number that `sock_` still holds;
  if it is the lowest free one the new socket gets it, and `sock_.reset()`
  (`TcpClient.cpp:27`) closes it again, so that `connect()` fails with `EBADF`; if a
  connection of the server has it by now, that one loses its descriptor, as it does
  in `~TcpClient`. Only if a lower number is free, reconnecting works. After a failed
  handshake, where `sock_` is the only holder, it always does.
* A user who keeps a connection beyond its `TcpServer` or `TcpClient`: its close callback
  runs on the destroyed object (`Owner(s)` not in `owners` in `HandleClose`).

## 5. Proofs

All proofs are checked to the last leaf. Each module follows the same argument:
`Init => IInv`, `IInv /\ [Next]_vars => IInv'` with one step per action, and
`IInv => ` the property; the refinements map every step to a step of the abstract
specification or to a stutter, under `IInv`.

**EventLoop** (`EventLoopProofs`, any threads and functors). `NoLostWakeup` only
speaks of the loop inside `epoll_wait()`. It becomes inductive with
`QueuedMeansWoken`: at every place where the queue is not about to be swapped, a
non-empty queue has a wake-up that is on the ready list or still to be written.
`Phases` ties `calling_pending_functors_` to the place of the loop, which is what
makes the test of line 103 sufficient, and `WakeUpArmed` gives that a written
wake-up is reported. Assumption: `~ SetupPosts`.

**TcpConnection** (`TcpConnectionProofs`, any messages, sizes, capacities, number of
threads). `CheckedState` says that what a handler has checked still holds when it
acts: `state_` is `CONNECTED` throughout `sendInLoop()`. With it `ShutAfterDrain`
(SHUT_WR after the last byte, and no byte after it) is inductive, and with it all
safety properties of the run. Assumption: `Disciplined`, only the loop thread
calls `shutdown()`; the run `TcpConnCrossShutdown` shows that it is needed.
`TypeOK` needs no such assumption and is proved without it.

**ByteBuffer** (`ByteBufferProofs`, any bytes, `PREPEND`, first size, read size).
`TypeOK` holds `0 <= reader_index_ <= writer_index_ <= size`, from which every
unsigned difference of the code is a natural number and every copy inside the
vector. Lemmas say what each method does to the readable bytes (compaction moves
them unchanged, growth keeps them); the refinement of `ByteQueue`, the header room and
the bound on memory follow.

**LogHandlerManager** (`LogHandlerManagerProofs`, any threads, events, handlers). The
worker's check of the queue and its sleep are two actions; `Places` says what holds
between them (the mutex keeps the queue empty), which makes `NoLostNotification`
inductive. `HandlersAgree` needs that handlers differ (`Distinct`) and that none is
added late (`Untouched`); `StopDrains` needs that what is owed is in the queue or
taken, and that the worker leaves with the queue empty (`Owing`). That the destructor
comes to an end is liveness, and false (`LogManagerStop`).

**Endpoints** (`EndpointsProofs` over `OwnershipProofs`, any number of peers, attempts and
descriptors, whatever the user keeps). None of the run's invariants is inductive alone:
each rests on what relates objects, numbers and references; `IInv` is `LoopTypes`,
`Objects`, `DescriptorsAreTheirs` and `GuardedAreSafe`, and `Objects` has these parts:

* `Table`: every number in use is that of a connection or of `sock_`
  (`NumbersHaveHolders`); a pending attempt is the client's last and its number is that of
  `sock_` alone (`PendingIsLast`), which is so of `sock_` as long as the client never had a
  connection (`NeverShared`). `NumbersStand`, that each connection's number stands for
  its socket, holds while `Lost` is empty.
* `References`: an entry of `connections_` is an open connection and the reverse
  (`EntriesAreOpen`), as long as no closed one was missed because its number is no
  `uint16_t`; `connection_` is one while it is set (`ClientRefIsOpen`), and a guarded
  connection that is not closed is kept (`GuardedAreKept`). With `ClosedAreKept`, a closed
  one still exists only because the user keeps it or its entry was missed, nothing is destroyed unnoticed.
* `Waiting`, `ReadyAreOpen`: what the acceptor has in its backlog and what epoll watches.
* `InUse`: what is left of `poll()`'s list is a connection or a pending attempt, a
  guarded one has not been destroyed, and where functors run the list is empty: that is
  why a user who drops a reference in a functor is safe, and `GuardedAreSafe` is
  inductive with it.
* `Accepted`: each connection of the client's was accepted by its peer.

Every operation that takes a reference away ends in `Settle`; `SettleKeepsObjects` says
once what it keeps, of objects that are no state yet, and is the last step of those
actions' proofs. That `NewFd` is a free number needs that a set of numbers has a least
one (`LeastNumber`). There are no assumptions but those on the constants, and none that
relates the numbers to the width of `uint16_t`. `EntryPerOpenConnection` excepts the time
from the first missed entry on, and no theorem says anything of the time after a
connection has lost its descriptor, where the model ends.

**CodecStream** (`CodecStreamProofs` over `BufferProofs`, any messages, any cut). The
invariant says that what is in the buffer and on the wire together are the frames of the
messages sent and not yet received, one after the other (`StreamIsFramed`). It is said by
where each frame ends (`Framed`), not by a recursive concatenation, so that appending a
frame and taking the first one away need no induction. For each codec there are three
facts: its frame cell by cell, what `encode()` appends (`RpcEncodes`, …), and what
`decode()` does in front of anything: of a whole frame it returns the message and leaves
the rest (`DecodesWhole`), of a proper part it returns nothing and leaves the buffer as it
was (`DecodesPart`). `FrontOfBuffer` says that one of the two is always the case. The
other parts are `ReceivedIsPrefix`, `OnlyAPartWaits` (outside the callback),
`RoomForHeader` (`retrieve()` may put the indices behind the header room) and
`MessageIsNew`. TLC checked `IInv` before it was proved. Hypothesis: `FreshMessage`, the
callback decodes each message into an object of its own; the run `HttpReusedRequest` shows
that it is needed. Assumptions on the constants: a length fits a header field and the
width it is computed in (`CellsAssumption`, `WidthAssumption`), a request line is not the
empty line (`HeadersAssumption`).

**Only model-checked.** Liveness: the nine properties of the runs that end in `~>` and the
like, such as `NoFunctorStarves`, `ShutdownCompletes`, `DescriptorsComeBack` or
`AnswerIsNoticed`. It rests on fairness and so on ENABLED, which is beyond the prover
used. All invariants, safety action properties and refinements of the runs that hold are
theorems. The runs that are violated have no counterpart here: their counterexamples are
what makes the hypotheses above necessary.

## 6. Not modelled

* `~EventLoop`: the eventfd closed under another thread's `wakeUp()`.
* `HttpCodec::encode`, which only appends, and malformed headers.
* `Socket`, `InetAddress`: single system calls. What a socket owns, its descriptor,
  is part of `Ownership`.
* `Logger`, `LogEvent`, handlers: formatting and output.
* Data races as such: `state_`, `output_buffer_` and `handlers_` are plain members
  read by foreign threads. The model takes each read and write as atomic and
  explores their interleavings; what else the compiler may do is not modelled.
  `addHandler()` after the first event is left out for that reason.
* System calls that fail for lack of resources (`epoll_ctl`, `eventfd`, `bind`),
  and overflow of the eventfd's 64-bit counter.
* Message texts, addresses, log levels.

## 7. Plan

1. *(done)* `EventLoop` and its refinement, safety proved.
2. *(done)* `Channel` and `TcpConnection`, safety proved, liveness checked.
3. *(done)* `Buffer`, `ByteBuffer`, `ByteQueue`, proved.
4. *(done)* `LogHandlerManager`; the RPC, Modbus and HTTP codecs on a cut stream.
5. *(done)* `TcpServer`: descriptors, the connection map, lifetimes inside one `poll()`.
6. *(done)* `TcpClient`, and `Endpoints`: both on one loop and one descriptor table.
7. *(done)* Proofs for `Endpoints`: its six invariants.
8. *(done)* Proofs for `LogHandlerManager`.
9. *(done)* Proofs for `CodecStream`: framing for each codec, and its refinement.
10. What is still worth proving: that a guarded connection's close callback finds its
    owner, as an action property; that a codec that is not fresh still keeps the frame
    borders (`NothingLeftBehind` without `FreshMessage`).

## 8. Running

    tlc -workers 2 -config EventLoop.cfg MCEventLoop
    tlapm EventLoopProofs.tla

and likewise for the other rows of section 3 and the other `…Proofs` modules.
