------------------------------ MODULE Endpoints ------------------------------
(***************************************************************************)
(* A TcpServer and a TcpClient on one EventLoop: accepting, connecting,    *)
(* connections that end, and the destructors of both, over one descriptor  *)
(* table.                                                                  *)
(*                                                                         *)
(* epoll_wait() returns raw pointers to channels; each handleEvent() reads *)
(* its channel again after every callback. A connection is destroyed, with *)
(* channel and socket, as soon as neither its owner nor the user nor a     *)
(* running callback refers to it. The order of the channels in one poll()  *)
(* is left open.                                                           *)
(*                                                                         *)
(* Bound: the model ends when a connection has lost its descriptor (Lost). *)
(***************************************************************************)
EXTENDS TcpServer, TcpClient

-----------------------------------------------------------------------------
(* loop(): poll, then the channels it returned, then the functors.         *)

NextStageSwapped ==
  [poll |-> "functors", functors |-> "channels", channels |-> "poll"]

NextStage ==
  [poll |-> "channels", channels |-> "functors", functors |-> "poll"]

(* epoll_wait() returns what has occurred, or nothing but a wake-up.       *)
Poll ==
  LET Returned == {ch \in ready : Occurred(ch) # {}}
  IN  /\ stage = "poll"
      /\ active' = [ch \in Returned |-> Occurred(ch)]
      /\ ready' = {ch \in ready : ReadyAfterWait(Mask(ch), Interest(ch))}
      /\ stage' = NextStage[stage]
      /\ UNCHANGED <<peers, table, life, fd, events, client, refs, owners, current,
                     todo, dangling>>

ChannelsDone ==
  /\ stage = "channels" /\ current = None /\ active = << >>
  /\ stage' = NextStage[stage]
  /\ UNCHANGED <<peers, object, client, refs, owners, active, current, todo,
                 dangling>>

FunctorsDone ==
  /\ stage = "functors"
  /\ stage' = NextStage[stage]
  /\ UNCHANGED <<peers, object, client, refs, owners, active, current, todo,
                 dangling>>

Remaining(ch) == Restrict(active, DOMAIN active \ {ch})

AcceptEvent ==
  /\ stage = "channels" /\ current = None /\ Acceptor \in DOMAIN active
  /\ HandleNewConnection
  /\ active' = Remaining(Acceptor)
  /\ UNCHANGED <<answer, input, fin, rst, client, owners, stage, current, todo,
                 dangling>>

(* The callbacks a channel has: connect_channel_ only one. A connection    *)
(* never asks for write events here, and its error callback only logs.     *)
Callbacks(s) ==
  IF life[s] \in {"connecting", "failed"} THEN {"write"} ELSE {"close", "read"}

(* handleEvent() starts with the events its channel was returned with.     *)
BeginEvent(s) ==
  /\ stage = "channels" /\ current = None /\ s \in DOMAIN active
  /\ current' = s
  /\ todo' = HandleEvent(active[s]) \cap Callbacks(s)
  /\ active' = Remaining(s)
  /\ UNCHANGED <<peers, object, client, refs, owners, stage, dangling>>

Owner(s) == IF s \in Conns THEN "server" ELSE "client"

(* handleClose() and the owner's close callback. When they return, the     *)
(* last reference may be gone. A callback whose owner is gone has nothing  *)
(* to work on: whatever it does, it removes no reference the model knows.  *)
HandleClose(s) ==
  IF life[s] = "CLOSED"
    THEN UNCHANGED <<object, refs, stage, dangling>>
    ELSE /\ events' = [events EXCEPT ![s] = DisableAll]
         /\ IF Owner(s) \in owners
              THEN /\ IF s \in Conns
                        THEN RemoveConnection(fd[s]) /\ UNCHANGED connection
                        ELSE RemoveClientConnection /\ UNCHANGED connections
                   /\ UNCHANGED <<kept, stage, dangling>>
              ELSE /\ dangling' = dangling \cup {s}
                   /\ stage' \in {stage, "crashed"}
                   /\ UNCHANGED refs
         /\ Settle([life EXCEPT ![s] = "CLOSED"], fd, table,
                   IF ReadyAfterUpdate(s \in ready, Mask(s), DisableAll)
                   THEN ready \cup {s} ELSE ready)

(* A callback, invoked on a channel that is still there.                   *)
Callback(name) ==
  /\ stage = "channels" /\ current # None /\ life[current] # "destroyed"
  /\ name \in todo /\ InvokedBefore(name) \cap todo = {}
  /\ todo' = todo \ {name}
  /\ UNCHANGED <<backlog, answer, fin, rst, client, owners, active, current>>

CloseEvent ==
  /\ Callback("close")
  /\ HandleClose(current)
  /\ UNCHANGED input

(* handleRead(): input goes to the user's callback; the end closes.        *)
ReadEvent ==
  /\ Callback("read")
  /\ IF current \in input
       THEN input' = input \ {current} /\ UNCHANGED <<object, refs, stage, dangling>>
       ELSE /\ IF current \in fin \cup rst THEN HandleClose(current)
               ELSE UNCHANGED <<object, refs, stage, dangling>>
            /\ UNCHANGED input

(* TcpClient::handleWrite().                                               *)
WriteEvent ==
  /\ Callback("write")
  /\ HandleWrite(current)
  /\ UNCHANGED <<input, stage, dangling>>

(* After the last callback handleEvent() has tested its flags once more,   *)
(* and returns. The write callback, which ends connect_channel_, is its    *)
(* last: no flag is read after it.                                         *)
EventDone ==
  /\ stage = "channels" /\ current # None /\ life[current] # "destroyed"
  /\ todo = {}
  /\ current' = None
  /\ UNCHANGED <<peers, object, client, refs, owners, stage, active, todo, dangling>>

(* The flags of a channel that is gone are read: whatever the memory holds *)
(* now, the loop goes on, or the process ends in a callback of no object.  *)
UseAfterEnd ==
  /\ stage = "channels" /\ current # None /\ life[current] = "destroyed"
  /\ dangling' = dangling \cup {current}
  /\ stage' \in {stage, "crashed"}
  /\ current' = None /\ todo' = {}
  /\ UNCHANGED <<peers, object, client, refs, owners, active>>

-----------------------------------------------------------------------------
Loop ==
  /\ Lost = {}
  /\ \/ Poll \/ ChannelsDone \/ FunctorsDone
     \/ AcceptEvent
     \/ \E s \in Sockets : BeginEvent(s)
     \/ CloseEvent \/ ReadEvent \/ WriteEvent \/ EventDone \/ UseAfterEnd

Peers ==
  \/ \E c \in Conns : PeerConnects(c)
  \/ \E a \in Attempts : PeerAnswers(a)
  \/ \E s \in Sockets : PeerSends(s) \/ PeerLeaves(s)

User ==
  \/ Connect \/ DestroyServer \/ DestroyClient
  \/ \E s \in Sockets : UserDrops(s)

Next == Loop \/ (Lost = {} /\ (Peers \/ User))

Spec == Init /\ [][Next]_vars

(* The loop runs on unless it is inside epoll_wait(), which returns if a   *)
(* channel has something to report or the user has posted the functor that *)
(* drops a closed connection; and the user does drop closed connections.   *)
PollMustReturn ==
  \/ \E ch \in ready : Occurred(ch) # {}
  \/ \E s \in kept : life[s] = "CLOSED"

Fairness ==
  /\ WF_vars(Loop /\ (stage # "poll" \/ PollMustReturn))
  /\ SF_vars(\E s \in kept : UserDrops(s) /\ life[s] = "CLOSED")

FairSpec == Spec /\ Fairness

-----------------------------------------------------------------------------
(* Properties.                                                             *)

(* Every variable keeps its type; what the kernel refused is no descriptor *)
(* to enter, and no live connection is without one.                        *)
TypeOK ==
  /\ backlog \in Seq(Conns)
  /\ answer \in [Attempts -> {"none", "accepted", "refused"}]
  /\ input \subseteq Sockets /\ fin \subseteq Sockets /\ rst \subseteq Sockets
  /\ table \in [Fds -> Sockets \cup {None}]
  /\ ready \subseteq Sockets \cup {Acceptor}
  /\ life \in [Sockets -> {"unborn", "waiting", "connecting", "failed", "CONNECTED",
                           "CLOSED", "destroyed"}]
  /\ fd \in [Sockets -> {NoFd} \cup Fds]
  /\ events \in [Sockets -> {NONE_EVENT, READ_EVENT, WRITE_EVENT}]
  /\ DOMAIN connections \subseteq Fds /\ Range(connections) \subseteq Conns
  /\ connection \in Attempts \cup {None} /\ kept \subseteq Sockets
  /\ sock \in {NoFd} \cup Fds /\ attempt \in 0..MaxAttempts
  /\ owners \subseteq {"server", "client"}
  /\ stage \in {"poll", "channels", "functors", "crashed"}
  /\ DOMAIN active \subseteq Sockets \cup {Acceptor}
  /\ current \in Sockets \cup {None} /\ todo \subseteq {"close", "read", "write"}
  /\ dangling \subseteq Sockets
  /\ \A s \in Sockets : (fd[s] # NoFd) = (life[s] \in Live)

(* "manages the life cycle of connections" (TcpServer.cpp:5): the map has  *)
(* exactly the connections that are open, each under the descriptor it     *)
(* owns, although descriptors are used again. So it is until a connection  *)
(* closes whose number is no uint16_t (TcpServer.cpp:79): removeConnection *)
(* then leaves its entry for ever, and erases another one's in its place.  *)
(* It is said of the time before any connection has lost its descriptor,   *)
(* where the model ends.                                                   *)
EntryPerOpenConnection ==
  "server" \in owners /\ Missed = {} =>
    /\ \A d \in DOMAIN connections :
         life[connections[d]] = "CONNECTED" /\ fd[connections[d]] = d
    /\ \A c \in Conns :
         life[c] = "CONNECTED"
           => fd[c] \in DOMAIN connections /\ connections[fd[c]] = c

(* Which user is safe: a connection that is kept until it is closed and    *)
(* dropped in a functor, and whose owner lives until then, is never used   *)
(* after its end, neither in its own handleEvent() nor in the list of      *)
(* channels poll() returned, and its close callback finds its owner.       *)
GuardedAreSafe == dangling \cap Guarded = {}

(* Two objects hold the number of a client's connection, sock_ and the     *)
(* connection's socket_ (TcpClient.cpp:80). A connection, the client's or  *)
(* the server's, loses its descriptor to the other's close() only if, with *)
(* a connection once made, the client is told to connect again or is       *)
(* destroyed.                                                              *)
DescriptorsAreTheirs == Lost # {} => SharedNumberGivenUp

(* "all resources are safely reclaimed" (README.md:24): every open number  *)
(* is that of a connection somebody refers to, or sock_'s.                 *)
NoDescriptorLeaks ==
  \A d \in Fds :
    table[d] # None /\ d # sock
      => \E s \in Sockets : life[s] \in Live /\ fd[s] = d

(* The error of a handshake is read in a way that loses it (errno in place *)
(* of SO_ERROR, TcpClient.cpp:63), and still no socket is taken for a      *)
(* connection but one whose peer has accepted.                             *)
ConnectionWasAccepted == \A a \in HadConnection : answer[a] = "accepted"

(* README.md:24, with smart pointers all resources are safely reclaimed,   *)
(* also on abnormal disconnection: the loop never uses a channel that has  *)
(* been destroyed, whatever the user keeps.                                *)
NoUseAfterEnd == dangling = {}

(* Where the process, or the model, has come to its end.                   *)
Over == stage = "crashed" \/ Lost # {}

(* Whose peer has left, and what is closed in epoll for ever otherwise.    *)
Leaving == {s \in Sockets \ Senders :
              /\ life[s] \in Live /\ s \in fin \cup rst /\ Owner(s) \in owners
              /\ s \in Conns => fd[s] < FD_WORD}

(* A connection whose peer has left is closed and its descriptor comes     *)
(* back (README.md:24), although disableAll() leaves it in epoll (unless   *)
(* input came last in the same edge, the owner is gone, or it is one of    *)
(* the server's and its number no uint16_t, so that its entry stays).      *)
DescriptorsComeBack == Leaving # {} ~> Leaving = {} \/ Over

(* The outcome of a non-blocking connect() is one edge: it is not missed.  *)
Answered == {a \in Attempts : life[a] = "connecting" /\ answer[a] # "none"}

AnswerIsNoticed == Answered # {} ~> Answered = {} \/ Over

(* accept() is called once for each edge, so of several that arrive at     *)
(* once only the first is accepted: but that one is, if there is a         *)
(* descriptor for it.                                                      *)
AnnouncedIsAccepted ==
  \A c \in Conns :
    (/\ backlog # << >> /\ Head(backlog) = c
     /\ Acceptor \in ready \cup DOMAIN active)
      ~> life[c] # "waiting" \/ FreeFds = {} \/ Over
=============================================================================
