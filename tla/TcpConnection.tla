---------------------------- MODULE TcpConnection ----------------------------
(***************************************************************************)
(* mnsx::achilles::TcpConnection (src/net/TcpConnection.cpp): one          *)
(* established connection with its buffers and state machine, the loop     *)
(* thread that runs its handlers and the user's callbacks, other threads   *)
(* that hold a reference to it, its socket and its entry in epoll.         *)
(*                                                                         *)
(* The loop's task queue is the one EventLoop is shown to implement. Loop  *)
(* code is one action up to the next access to state that another thread   *)
(* may also touch, or to the socket. The connection stays alive: somebody  *)
(* holds a reference to it.                                                *)
(*                                                                         *)
(* Bounds: each message is sent once; Capacity is the kernel's send        *)
(* buffer; the peer sends at most MaxArrivals units of input.              *)
(***************************************************************************)
EXTENDS Naturals, Sequences, Channel

CONSTANTS
  LoopThread, OtherThreads,
  Messages,        \* each sent at most once
  Size,            \* Size[m]: the bytes of message m
  Capacity,        \* bytes the kernel's send buffer takes
  ReadMax,         \* units of input that one read() returns at most
  MaxArrivals,     \* units of input the peer sends at most
  ShutdownCallers, \* the threads that may call shutdown()
  PeerCloses,      \* may the peer send a FIN?
  PeerResets       \* may the peer reset the connection?

Threads == {LoopThread} \cup OtherThreads

ASSUME ThreadsAssumption ==
  LoopThread \notin OtherThreads /\ ShutdownCallers \subseteq Threads
ASSUME SizesAssumption ==
  /\ Size \in [Messages -> Nat \ {0}] /\ Capacity \in Nat \ {0}
  /\ ReadMax \in Nat \ {0} /\ MaxArrivals \in Nat
ASSUME PeerAssumption == PeerCloses \in BOOLEAN /\ PeerResets \in BOOLEAN

VARIABLES
  state,         \* state_
  outbuf,        \* output_buffer_
  events,        \* events_ of channel_, also the interest epoll knows
  ready,         \* the connection is on the epoll ready list
  room,          \* free bytes in the kernel's send buffer
  inq,           \* units of input the kernel holds
  arrivals,      \* history: units the peer has sent
  fin, rst,      \* the peer has closed; has reset the connection
  err,           \* SO_ERROR is set
  wrShut,        \* shutdown(SHUT_WR) has been done
  pc,            \* where the loop thread is
  todo,          \* callbacks handleEvent() still has to invoke
  rest,          \* bytes sendInLoop() has still to place
  flushed,       \* bytes handleWrite() wrote and has not yet retrieved
  shutpc,        \* where each thread is inside shutdown()
  tasks, ran,    \* the loop's task queue and the history of what it ran
  fresh,         \* messages nobody has sent yet
  accepted,      \* history: bytes sendInLoop() accepted
  wire,          \* history: bytes the kernel took
  closeCalls,    \* history: invocations of on_close_callback_
  sigpipe        \* a write() raised SIGPIPE, which nobody handles

peer  == <<inq, arrivals, fin, rst>>
calls == <<shutpc, tasks, ran, fresh>>
out   == <<outbuf, rest, flushed, accepted, wire, room>>
vars  == <<state, out, events, ready, peer, err, wrShut, pc, todo, calls,
           closeCalls, sigpipe>>

States == {"CONNECTING", "CONNECTED", "DISCONNECTED", "CLOSED"}
LoopPC == {"new", "idle", "event", "user", "send", "append", "flushed",
           "drained"}

Content(m) == [i \in 1..Size[m] |-> m]

FQ == INSTANCE FunctorQueue
        WITH Functors <- Messages, queue <- tasks, executed <- ran

Init ==
  /\ state = "CONNECTING"
  /\ outbuf = << >> /\ rest = << >> /\ flushed = 0
  /\ events = NONE_EVENT /\ ready = FALSE
  /\ room = Capacity /\ inq = 0 /\ arrivals = 0
  /\ fin = FALSE /\ rst = FALSE /\ err = FALSE /\ wrShut = FALSE
  /\ pc = "new" /\ todo = {}
  /\ shutpc = [t \in Threads |-> "idle"]
  /\ tasks = << >> /\ ran = << >>
  /\ fresh = Messages
  /\ accepted = << >> /\ wire = << >>
  /\ closeCalls = 0 /\ sigpipe = FALSE

-----------------------------------------------------------------------------
(* The socket.                                                             *)

Occurs(event) ==
  CASE event = "IN"    -> inq > 0 \/ fin \/ rst
    [] event = "RDHUP" -> fin \/ rst
    [] event = "HUP"   -> rst \/ (fin /\ wrShut)
    [] event = "ERR"   -> err
    [] event = "OUT"   -> room > 0 \/ wrShut \/ rst

Mask == {event \in {"IN", "RDHUP", "HUP", "ERR", "OUT"} : Occurs(event)}

(* write(): as much as fits, or ECONNRESET if SO_ERROR says so, or EPIPE   *)
(* together with SIGPIPE (SO_ERROR is EPIPE if the reset follows a FIN).   *)
WriteWorks == ~ rst /\ ~ wrShut

WriteCount(bytes) == IF Len(bytes) <= room THEN Len(bytes) ELSE room

WriteSome(bytes) ==
  /\ wire' = wire \o SubSeq(bytes, 1, WriteCount(bytes))
  /\ room' = room - WriteCount(bytes)

WriteFails == err' = FALSE /\ sigpipe' = (fin \/ ~ err)

(* shutdown(SHUT_WR) wakes whoever polls the socket; after a reset it does *)
(* nothing (ENOTCONN).                                                     *)
ShutWr ==
  IF rst THEN UNCHANGED <<wrShut, ready>> ELSE wrShut' = TRUE /\ ready' = TRUE

(* Channel::update(): EPOLL_CTL_ADD the first time, EPOLL_CTL_MOD after.   *)
Update(newEvents) ==
  /\ events' = newEvents
  /\ ready' = ReadyAfterUpdate(ready, Mask, newEvents)

PeerSends ==
  /\ ~ fin /\ ~ rst /\ arrivals < MaxArrivals
  /\ arrivals' = arrivals + 1 /\ inq' = inq + 1
  /\ ready' = ReadyAfterEdge(ready, "IN", events)
  /\ UNCHANGED <<state, out, events, fin, rst, err, wrShut, pc, todo, calls,
                 closeCalls, sigpipe>>

(* A change of the connection's state wakes pollers whatever they ask for. *)
PeerClosesDown ==
  /\ PeerCloses /\ ~ fin /\ ~ rst
  /\ fin' = TRUE /\ ready' = TRUE
  /\ UNCHANGED <<state, out, events, inq, arrivals, rst, err, wrShut, pc, todo,
                 calls, closeCalls, sigpipe>>

PeerResetsDown ==
  /\ PeerResets /\ ~ rst
  /\ rst' = TRUE /\ err' = TRUE /\ ready' = TRUE
  /\ UNCHANGED <<state, out, events, inq, arrivals, fin, wrShut, pc, todo, calls,
                 closeCalls, sigpipe>>

(* The peer acknowledges: a full send buffer becomes writable again.       *)
PeerDrains ==
  /\ ~ rst /\ room < Capacity
  /\ room' = Capacity
  /\ ready' = IF room = 0 THEN ReadyAfterEdge(ready, "OUT", events) ELSE ready
  /\ UNCHANGED <<state, outbuf, rest, flushed, accepted, wire, events, peer,
                 err, wrShut, pc, todo, calls, closeCalls, sigpipe>>

-----------------------------------------------------------------------------
(* The loop thread. It takes a step only outside its own shutdown(), and   *)
(* nobody does once SIGPIPE has ended the process.                         *)

LoopAt(place) == pc = place /\ shutpc[LoopThread] = "idle" /\ ~ sigpipe

LoopStep(from, to) == LoopAt(from) /\ pc' = to

(* The owner of the new connection: state, registration, user's callback.  *)
ConnectEstablished ==
  /\ LoopStep("new", "user")
  /\ state' = "CONNECTED"
  /\ Update(EnableReading(events))
  /\ UNCHANGED <<out, peer, err, wrShut, todo, calls, closeCalls, sigpipe>>

(* epoll_wait() looks at the ready channel and handleEvent() starts.       *)
Dispatch ==
  /\ LoopStep("idle", "event") /\ ready
  /\ todo' = HandleEvent(Reported(Mask, events))
  /\ ready' = ReadyAfterWait(Mask, events)
  /\ UNCHANGED <<state, out, events, peer, err, wrShut, calls, closeCalls,
                 sigpipe>>

Callback(name, next) ==
  /\ LoopStep("event", next)
  /\ name \in todo /\ InvokedBefore(name) \cap todo = {}

EventDone ==
  /\ LoopStep("event", "idle") /\ todo = {}
  /\ UNCHANGED <<state, out, events, ready, peer, err, wrShut, todo, calls,
                 closeCalls, sigpipe>>

(* handleClose(). Only the loop thread executes it.                        *)
HandleCloseUnchecked ==
  /\ state' = "CLOSED"
  /\ Update(DisableAll)
  /\ closeCalls' = closeCalls + 1

HandleClose ==
  IF state = "CLOSED" THEN UNCHANGED <<state, events, ready, closeCalls>>
  ELSE /\ state' = "CLOSED"
       /\ Update(DisableAll)
       /\ closeCalls' = closeCalls + 1

CloseEvent ==
  /\ Callback("close", "event")
  /\ HandleClose
  /\ todo' = todo \ {"close"}
  /\ UNCHANGED <<out, peer, err, wrShut, calls, sigpipe>>

(* handleError(): getsockopt(SO_ERROR) clears the error; it is logged.     *)
ErrorEvent ==
  /\ Callback("error", "event")
  /\ err' = FALSE
  /\ todo' = todo \ {"error"}
  /\ UNCHANGED <<state, out, events, ready, peer, wrShut, calls, closeCalls,
                 sigpipe>>

(* handleRead(): one read(). Data goes to the user's callback, 0 closes,   *)
(* an error (EAGAIN too) ends in handleError(). A reset is an error once,  *)
(* unless a FIN came first, and 0 after that.                              *)
ReadDataUnbounded ==
  /\ Callback("read", "user") /\ inq > 0
  /\ inq' = inq - ReadMax
  /\ todo' = todo \ {"read"}
  /\ UNCHANGED <<state, out, events, ready, arrivals, fin, rst, err, wrShut,
                 calls, closeCalls, sigpipe>>

ReadData ==
  /\ Callback("read", "user") /\ inq > 0
  /\ inq' = IF inq <= ReadMax THEN 0 ELSE inq - ReadMax
  /\ todo' = todo \ {"read"}
  /\ UNCHANGED <<state, out, events, ready, arrivals, fin, rst, err, wrShut,
                 calls, closeCalls, sigpipe>>

ReadNothing ==
  /\ Callback("read", "event") /\ inq = 0
  /\ IF fin \/ (rst /\ ~ err) THEN HandleClose /\ UNCHANGED err
     ELSE err' = FALSE /\ UNCHANGED <<state, events, ready, closeCalls>>
  /\ todo' = todo \ {"read"}
  /\ UNCHANGED <<out, peer, wrShut, calls, sigpipe>>

(* handleWrite(): nothing to do, EAGAIN, or an error, which is logged ...  *)
WriteNothing ==
  /\ Callback("write", "event")
  /\ IF outbuf = << >> \/ (WriteWorks /\ room = 0)
       THEN UNCHANGED <<err, sigpipe>>
       ELSE ~ WriteWorks /\ WriteFails
  /\ todo' = todo \ {"write"}
  /\ UNCHANGED <<state, out, events, ready, peer, wrShut, calls, closeCalls>>

(* ... or write() takes some bytes,                                        *)
WriteData ==
  /\ Callback("write", "flushed")
  /\ outbuf # << >> /\ WriteWorks /\ room > 0
  /\ WriteSome(outbuf)
  /\ flushed' = WriteCount(outbuf)
  /\ UNCHANGED <<state, outbuf, rest, accepted, events, ready, peer, err,
                 wrShut, todo, calls, closeCalls, sigpipe>>

(* they are retrieved, writing is disabled once the buffer is empty,       *)
RetrieveKeepingWriting ==
  /\ LoopStep("flushed", IF flushed = Len(outbuf) THEN "drained" ELSE "event")
  /\ outbuf' = SubSeq(outbuf, flushed + 1, Len(outbuf))
  /\ flushed' = 0
  /\ todo' = IF flushed = Len(outbuf) THEN todo ELSE todo \ {"write"}
  /\ UNCHANGED <<state, rest, accepted, wire, room, events, ready, peer, err,
                 wrShut, calls, closeCalls, sigpipe>>

RetrieveAndDisable ==
  /\ LoopStep("flushed", IF flushed = Len(outbuf) THEN "drained" ELSE "event")
  /\ outbuf' = SubSeq(outbuf, flushed + 1, Len(outbuf))
  /\ flushed' = 0
  /\ IF flushed = Len(outbuf)
       THEN Update(DisableWriting(events)) /\ UNCHANGED todo
       ELSE todo' = todo \ {"write"} /\ UNCHANGED <<events, ready>>
  /\ UNCHANGED <<state, rest, accepted, wire, room, peer, err, wrShut, calls,
                 closeCalls, sigpipe>>

(* and a shutdown() that waited for this is completed.                     *)
DrainedWithoutShutdown ==
  /\ LoopStep("drained", "event")
  /\ todo' = todo \ {"write"}
  /\ UNCHANGED <<state, out, events, ready, peer, err, wrShut, calls,
                 closeCalls, sigpipe>>

Drained ==
  /\ LoopStep("drained", "event")
  /\ IF state = "DISCONNECTED" THEN ShutWr ELSE UNCHANGED <<wrShut, ready>>
  /\ todo' = todo \ {"write"}
  /\ UNCHANGED <<state, out, events, peer, err, calls, closeCalls, sigpipe>>

(* sendInLoop(): the state check,                                          *)
BeginSend(m) ==
  IF state = "CONNECTED"
    THEN rest' = Content(m) /\ accepted' = accepted \o Content(m) /\ pc' = "send"
    ELSE UNCHANGED <<rest, accepted>> /\ pc' = "user"

(* a write() unless earlier bytes are still waiting,                       *)
SendWriteAlways ==
  /\ LoopStep("send", "append")
  /\ IF WriteWorks
       THEN /\ WriteSome(rest)
            /\ rest' = SubSeq(rest, WriteCount(rest) + 1, Len(rest))
            /\ UNCHANGED <<err, sigpipe>>
       ELSE rest' = << >> /\ WriteFails /\ UNCHANGED <<wire, room>>
  /\ UNCHANGED <<state, outbuf, flushed, accepted, events, ready, peer, wrShut,
                 todo, calls, closeCalls>>

SendWrite ==
  /\ LoopStep("send", "append")
  /\ IF outbuf # << >> THEN UNCHANGED <<rest, wire, room, err, sigpipe>>
     ELSE IF WriteWorks
       THEN /\ WriteSome(rest)
            /\ rest' = SubSeq(rest, WriteCount(rest) + 1, Len(rest))
            /\ UNCHANGED <<err, sigpipe>>
       ELSE rest' = << >> /\ WriteFails /\ UNCHANGED <<wire, room>>
  /\ UNCHANGED <<state, outbuf, flushed, accepted, events, ready, peer, wrShut,
                 todo, calls, closeCalls>>

(* and what is left goes to the output buffer.                             *)
SendAppendQuietly ==
  /\ LoopStep("append", "user")
  /\ outbuf' = outbuf \o rest /\ rest' = << >>
  /\ UNCHANGED <<state, flushed, accepted, wire, room, events, ready, peer, err,
                 wrShut, todo, calls, closeCalls, sigpipe>>

SendAppend ==
  /\ LoopStep("append", "user")
  /\ IF rest = << >> THEN UNCHANGED <<outbuf, rest, events, ready>>
     ELSE /\ outbuf' = outbuf \o rest /\ rest' = << >>
          /\ Update(EnableWriting(events))
  /\ UNCHANGED <<state, flushed, accepted, wire, room, peer, err, wrShut, todo,
                 calls, closeCalls, sigpipe>>

(* doPendingFunctors() runs the oldest sendInLoop() handed over.           *)
RunTask ==
  /\ LoopAt("idle")
  /\ FQ!Execute
  /\ BeginSend(Head(tasks))
  /\ UNCHANGED <<state, outbuf, flushed, wire, room, events, ready, peer, err,
                 wrShut, todo, shutpc, fresh, closeCalls, sigpipe>>

(* Other functors and other connections' callbacks are user code as well.  *)
EnterUserCode ==
  /\ LoopStep("idle", "user")
  /\ UNCHANGED <<state, out, events, ready, peer, err, wrShut, todo, calls,
                 closeCalls, sigpipe>>

UserReturns ==
  /\ LoopStep("user", "event")
  /\ UNCHANGED <<state, out, events, ready, peer, err, wrShut, todo, calls,
                 closeCalls, sigpipe>>

-----------------------------------------------------------------------------
(* Calls by the user, from any thread. A callback, or a thread that has    *)
(* been given the connection, holds a reference once it is established.    *)

CanCall(t) ==
  /\ shutpc[t] = "idle" /\ pc # "new" /\ ~ sigpipe
  /\ t = LoopThread => pc = "user"

(* send() on the loop thread goes straight to sendInLoop(), ...            *)
SendLocally(m) ==
  /\ CanCall(LoopThread) /\ m \in fresh
  /\ BeginSend(m)
  /\ fresh' = fresh \ {m}
  /\ UNCHANGED <<state, outbuf, flushed, wire, room, events, ready, peer, err,
                 wrShut, todo, shutpc, tasks, ran, closeCalls, sigpipe>>

(* ... elsewhere it is handed to the loop. (state_ is read a moment before *)
(* the functor is pushed; sendInLoop() checks it again anyway.)            *)
SendRemotely(t, m) ==
  /\ t # LoopThread /\ CanCall(t) /\ m \in fresh
  /\ IF state = "CONNECTED" THEN FQ!Enqueue(m) ELSE UNCHANGED <<tasks, ran>>
  /\ fresh' = fresh \ {m}
  /\ UNCHANGED <<state, out, events, ready, peer, err, wrShut, pc, todo, shutpc,
                 closeCalls, sigpipe>>

(* shutdown(), whoever calls it: the state check,                          *)
ShutdownAnyState(t) ==
  /\ CanCall(t) /\ t \in ShutdownCallers
  /\ shutpc' = [shutpc EXCEPT ![t] = "checked"]
  /\ UNCHANGED <<state, out, events, ready, peer, err, wrShut, pc, todo, tasks,
                 ran, fresh, closeCalls, sigpipe>>

Shutdown(t) ==
  /\ CanCall(t) /\ t \in ShutdownCallers /\ state = "CONNECTED"
  /\ shutpc' = [shutpc EXCEPT ![t] = "checked"]
  /\ UNCHANGED <<state, out, events, ready, peer, err, wrShut, pc, todo, tasks,
                 ran, fresh, closeCalls, sigpipe>>

(* the new state,                                                          *)
ShutdownMark(t) ==
  /\ shutpc[t] = "checked" /\ ~ sigpipe
  /\ state' = "DISCONNECTED"
  /\ shutpc' = [shutpc EXCEPT ![t] = "marked"]
  /\ UNCHANGED <<out, events, ready, peer, err, wrShut, pc, todo, tasks, ran,
                 fresh, closeCalls, sigpipe>>

(* and SHUT_WR if readableBytes() says that nothing is waiting.            *)
ShutdownWriteAtOnce(t) ==
  /\ shutpc[t] = "marked" /\ ~ sigpipe
  /\ ShutWr
  /\ shutpc' = [shutpc EXCEPT ![t] = "idle"]
  /\ UNCHANGED <<state, out, events, peer, err, pc, todo, tasks, ran, fresh,
                 closeCalls, sigpipe>>

ShutdownWrite(t) ==
  /\ shutpc[t] = "marked" /\ ~ sigpipe
  /\ IF outbuf = << >> THEN ShutWr ELSE UNCHANGED <<wrShut, ready>>
  /\ shutpc' = [shutpc EXCEPT ![t] = "idle"]
  /\ UNCHANGED <<state, out, events, peer, err, pc, todo, tasks, ran, fresh,
                 closeCalls, sigpipe>>

-----------------------------------------------------------------------------
Handlers ==
  \/ ConnectEstablished \/ EventDone
  \/ CloseEvent \/ ErrorEvent \/ ReadData \/ ReadNothing
  \/ WriteNothing \/ WriteData \/ RetrieveAndDisable \/ Drained
  \/ SendWrite \/ SendAppend \/ UserReturns

ShutdownGoesOn(t) == ShutdownMark(t) \/ ShutdownWrite(t)

UserCall ==
  \/ \E m \in Messages : \/ SendLocally(m)
                         \/ \E t \in OtherThreads : SendRemotely(t, m)
  \/ \E t \in Threads : Shutdown(t)

Peer == PeerSends \/ PeerClosesDown \/ PeerResetsDown \/ PeerDrains

Next ==
  \/ Handlers \/ Dispatch \/ RunTask \/ EnterUserCode
  \/ UserCall
  \/ \E t \in Threads : ShutdownGoesOn(t)
  \/ Peer

Spec == Init /\ [][Next]_vars

(* Callbacks return, every round of the loop looks at each ready channel   *)
(* and runs the queued functors, and the peer keeps reading.               *)
Fairness ==
  /\ WF_vars(Handlers)
  /\ SF_vars(Dispatch) /\ SF_vars(RunTask)
  /\ \A t \in Threads : WF_vars(ShutdownGoesOn(t))
  /\ WF_vars(PeerDrains)

FairSpec == Spec /\ Fairness

-----------------------------------------------------------------------------
(* Properties.                                                             *)

(* Every variable keeps its type; in particular no count goes below 0.     *)
TypeOK ==
  /\ state \in States
  /\ outbuf \in Seq(Messages) /\ rest \in Seq(Messages)
  /\ accepted \in Seq(Messages) /\ wire \in Seq(Messages)
  /\ flushed \in 0..Len(outbuf)
  /\ events \subseteq READ_EVENT \cup WRITE_EVENT
  /\ room \in 0..Capacity
  /\ arrivals \in 0..MaxArrivals /\ inq \in 0..arrivals
  /\ ready \in BOOLEAN /\ fin \in BOOLEAN /\ rst \in BOOLEAN
  /\ err \in BOOLEAN /\ wrShut \in BOOLEAN /\ sigpipe \in BOOLEAN
  /\ pc \in LoopPC
  /\ todo \subseteq {"close", "error", "read", "write"}
  /\ shutpc \in [Threads -> {"idle", "checked", "marked"}]
  /\ tasks \in Seq(Messages) /\ ran \in Seq(Messages)
  /\ fresh \subseteq Messages
  /\ closeCalls \in Nat

(* The outgoing direction is an ordered stream, closed only when drained.  *)
Stream == INSTANCE GracefulStream WITH sent <- wire, finished <- wrShut

RefinesGracefulStream == Stream!Spec

(* The order promised by "output_buffer_ empty or append": bytes the       *)
(* kernel has not taken are exactly those in the buffer and in hand.       *)
StreamInOrder ==
  ~ rst => accepted = wire \o SubSeq(outbuf, flushed + 1, Len(outbuf)) \o rest

(* Write events are subscribed exactly while the buffer holds something:   *)
(* otherwise bytes are stuck, or a level-triggered loop spins.             *)
WriteInterest ==
  state # "CLOSED" => ("OUT" \in events <=> outbuf # << >>)

(* shutdown() waits for the buffer: SHUT_WR never cuts off accepted bytes  *)
(* (TcpConnection.cpp:88).                                                 *)
HalfCloseLosesNothing == wrShut /\ ~ rst => outbuf = << >> /\ rest = << >>

(* The connection's own steps never lead to a write() after SHUT_WR, whose *)
(* SIGPIPE nobody ignores: it takes a peer that resets the connection.     *)
OwnWritesSucceed == sigpipe => rst

(* "already closed, return at once" (TcpConnection.cpp:183): the owner     *)
(* hears once that the connection is closed.                               *)
CloseCallbackOnce == closeCalls <= 1

(* CLOSED is final: nothing reopens a state machine that has ended.        *)
ClosedIsFinal == [][state = "CLOSED" => state' = "CLOSED"]_vars

(* shutdown() with bytes still waiting is completed by handleWrite().      *)
ShutdownCompletes == state = "DISCONNECTED" ~> wrShut \/ rst \/ state = "CLOSED"

(* Bytes in the output buffer leave it, no write event is missed; only the *)
(* end of the connection strands them (a FIN from the peer included, on    *)
(* which handleRead() closes whatever is still waiting).                   *)
OutputFlushed == outbuf # << >> ~> outbuf = << >> \/ rst \/ state = "CLOSED"

(* Input that one read() can take is read although its edge is reported    *)
(* only once: no change of the interest loses it, and a reset comes after  *)
(* it. Only the end of the process (SIGPIPE) comes in between.             *)
InputIsRead == inq > 0 ~> inq = 0 \/ state = "CLOSED" \/ sigpipe

(* A level-triggered loop (README.md:14) reports the end of input until    *)
(* handleRead() has met it and closes (:147).                              *)
PeerCloseIsNoticed == fin ~> state = "CLOSED"

-----------------------------------------------------------------------------
(* Why they hold when only the loop thread calls shutdown().               *)

Disciplined == ShutdownCallers \subseteq {LoopThread}

(* The place of the loop thread and the data of the handler it is in.      *)
Control ==
  /\ (state = "CONNECTING") <=> (pc = "new")
  /\ (flushed > 0) <=> (pc = "flushed")
  /\ rest # << >> => pc \in {"send", "append"}
  /\ pc = "drained" => outbuf = << >>

(* Nobody else is inside shutdown(), so the state that a handler or        *)
(* shutdown() has checked is still the state when it acts on it.           *)
CheckedState ==
  /\ \A t \in OtherThreads : shutpc[t] = "idle"
  /\ shutpc[LoopThread] # "idle" => pc = "user"
  /\ shutpc[LoopThread] = "checked" => state = "CONNECTED"
  /\ shutpc[LoopThread] = "marked" => state = "DISCONNECTED"
  /\ pc \in {"send", "append"} => state = "CONNECTED"

(* SHUT_WR comes after the last byte, and no byte comes after it.           *)
ShutAfterDrain ==
  wrShut => /\ state \in {"DISCONNECTED", "CLOSED"}
            /\ outbuf = << >> /\ rest = << >>

CloseCounted == closeCalls = IF state = "CLOSED" THEN 1 ELSE 0

IInv == TypeOK /\ Control /\ CheckedState /\ ShutAfterDrain /\ StreamInOrder
          /\ WriteInterest /\ CloseCounted
=============================================================================
