------------------------------ MODULE Ownership ------------------------------
(***************************************************************************)
(* Sockets, the numbers that stand for them, and the objects that hold     *)
(* those numbers, in a process with a TcpServer and a TcpClient on one     *)
(* loop: the state both work on, what the kernel and the peers do to it,   *)
(* and what happens when the last reference to a connection goes.          *)
(*                                                                         *)
(* A socket of Conns is accepted by the server, socket a of Attempts is    *)
(* what the client's a-th connect() created. A Socket object only holds a  *)
(* number and closes it in its destructor, whatever it stands for by then. *)
(*                                                                         *)
(* Of a connection only what its lifetime depends on is modelled: reading, *)
(* and CLOSED; the rest is module TcpConnection's.                         *)
(*                                                                         *)
(* Bounds: each peer of Conns connects once, each sender of Senders has at *)
(* most one unit of input on its way; the client connects MaxAttempts      *)
(* times; Fds are the descriptors the process has left.                    *)
(***************************************************************************)
EXTENDS Integers, Sequences, Functions, Channel

CONSTANTS
  Conns,         \* the sockets the server may be asked to accept
  MaxAttempts,   \* calls of TcpClient::connect()
  Acceptor,      \* accept_channel_
  Fds,           \* the numbers that nothing else in the process uses
  FD_WORD,       \* 2^16: removeConnection() takes a uint16_t
  Senders,       \* those whose peers send input
  Resetters,     \* those whose peers reset, also after their FIN
  Guarded,       \* the user keeps these until closed, and drops them in a functor
  Loose          \* the user keeps these, and drops them at any time

Attempts == 1..MaxAttempts
Sockets  == Conns \cup Attempts

ASSUME ConnsAssumption ==
  /\ MaxAttempts \in Nat /\ Conns \cap Attempts = {}
  /\ Acceptor \notin Sockets
  /\ Senders \subseteq Sockets /\ Resetters \subseteq Sockets
ASSUME UserAssumption ==
  Guarded \subseteq Sockets /\ Loose \subseteq Sockets /\ Guarded \cap Loose = {}
ASSUME FdAssumption == Fds \subseteq Nat /\ FD_WORD \in Nat \ {0}

VARIABLES
  backlog,       \* the listening socket's queue of established connections
  answer,        \* what became of the handshake of each attempt
  input,         \* sockets whose input the kernel holds
  fin, rst,      \* those whose peer has closed, has reset
  table,         \* the process's descriptor table: the socket behind a number
  ready,         \* channels on the epoll ready list
  life,          \* where a socket and its TcpConnection are
  fd,            \* the number that socket_ of a TcpConnection holds
  events,        \* events_ of the channel registered for a socket
  connections,   \* TcpServer::connections_: from number to connection
  connection,    \* TcpClient::connection_
  sock,          \* the number that TcpClient::sock_ holds
  attempt,       \* how often connect() was called: sock_ is of the last one
  owners,        \* which of server and client exist
  kept,          \* connections the user holds a shared_ptr to
  stage,         \* where loop() is
  active,        \* channels of the last poll() still to handle, with events
  current, todo, \* the one being handled, callbacks it still invokes
  dangling       \* history: connections one of whose callbacks ran on what was gone

peers  == <<backlog, answer, input, fin, rst>>
object == <<table, ready, life, fd, events>>
client == <<sock, attempt>>
refs   == <<connections, connection, kept>>
loop   == <<stage, active, current, todo, dangling>>
vars   == <<peers, object, client, refs, owners, loop>>

Live == {"CONNECTED", "CLOSED"}
None == Acceptor     \* no socket, no connection
NoFd == -1

Init ==
  /\ backlog = << >> /\ answer = [a \in Attempts |-> "none"]
  /\ input = {} /\ fin = {} /\ rst = {}
  /\ table = [d \in Fds |-> None] /\ ready = {}
  /\ life = [s \in Sockets |-> "unborn"] /\ fd = [s \in Sockets |-> NoFd]
  /\ events = [s \in Sockets |-> NONE_EVENT]
  /\ connections = << >> /\ connection = None /\ kept = {}
  /\ sock = NoFd /\ attempt = 0
  /\ owners = {"server", "client"}
  /\ stage = "poll" /\ active = << >> /\ current = None /\ todo = {}
  /\ dangling = {}

-----------------------------------------------------------------------------
(* The descriptor table.                                                   *)

FreeFds == {d \in Fds : table[d] = None}

(* socket() and accept() give the lowest free number, or fail (EMFILE).    *)
NewFd ==
  IF FreeFds = {} THEN NoFd ELSE CHOOSE d \in FreeFds : \A e \in FreeFds : d <= e

(* ~Socket(): close(d), of no effect if d is not open.                     *)
ClosedNever(tab, d) == tab

Closed(tab, d) == [e \in Fds |-> IF e = d THEN None ELSE tab[e]]

Open(s) == s \in Range(table)

(* Connections whose number no longer stands for their socket.             *)
Lost ==
  {s \in Sockets : life[s] \in Live /\ ~ \E d \in Fds : d = fd[s] /\ table[d] = s}

-----------------------------------------------------------------------------
(* epoll and the peers.                                                    *)

(* SO_ERROR of an attempt: refused, or reset before anybody looked.        *)
SoError(a) == answer[a] = "refused" \/ a \in rst

Mask(ch) ==
  IF ch = Acceptor THEN IF backlog = << >> THEN {} ELSE {"IN"}
  ELSE UNION {IF ch \in input \cup fin \cup rst THEN {"IN"} ELSE {},
              IF ch \in fin \cup rst THEN {"RDHUP"} ELSE {},
              IF ch \in rst THEN {"HUP"} ELSE {},
              IF ch \in Conns THEN {"OUT"}
              ELSE CASE answer[ch] = "none"     -> {}
                     [] answer[ch] = "accepted" -> {"OUT"}
                     [] answer[ch] = "refused"  -> {"IN", "RDHUP", "HUP", "OUT"}}

InterestNotEnabled(ch) == IF ch = Acceptor THEN NONE_EVENT ELSE events[ch]

Interest(ch) == IF ch = Acceptor THEN EnableReading(NONE_EVENT) ELSE events[ch]

Occurred(ch) == Reported(Mask(ch), Interest(ch))

(* A closed socket leaves epoll; a failed attempt was taken out.           *)
Registered(s) == Open(s) /\ life[s] \in Live \cup {"connecting"}

PeerConnects(c) ==
  /\ "server" \in owners /\ life[c] = "unborn"
  /\ life' = [life EXCEPT ![c] = "waiting"]
  /\ backlog' = Append(backlog, c)
  /\ ready' = ready \cup {Acceptor}
  /\ UNCHANGED <<answer, input, fin, rst, table, fd, events, client, refs, owners,
                 loop>>

(* The handshake of an attempt ends, in a connection or an error.          *)
PeerAnswers(a) ==
  /\ life[a] = "connecting" /\ answer[a] = "none"
  /\ \E result \in {"accepted", "refused"} :
       answer' = [answer EXCEPT ![a] = result]
  /\ ready' = ready \cup {a}
  /\ UNCHANGED <<backlog, input, fin, rst, table, life, fd, events, client, refs,
                 owners, loop>>

(* Is there somebody at the other end?                                     *)
Established(s) ==
  \/ life[s] = "waiting"
  \/ Registered(s) /\ (s \in Attempts => answer[s] = "accepted")

PeerSends(s) ==
  /\ s \in Senders \ (input \cup fin \cup rst) /\ Established(s)
  /\ input' = input \cup {s}
  /\ ready' = IF Registered(s) /\ ReadyAfterEdge(s \in ready, "IN", events[s])
              THEN ready \cup {s} ELSE ready
  /\ UNCHANGED <<backlog, answer, fin, rst, table, life, fd, events, client, refs,
                 owners, loop>>

(* A FIN or a reset wakes pollers whatever they ask for.                   *)
PeerLeaves(s) ==
  /\ Established(s) /\ s \notin rst
  /\ \/ s \notin fin /\ fin' = fin \cup {s} /\ UNCHANGED rst
     \/ s \in Resetters /\ rst' = rst \cup {s} /\ UNCHANGED fin
  /\ ready' = IF Registered(s) THEN ready \cup {s} ELSE ready
  /\ UNCHANGED <<backlog, answer, input, table, life, fd, events, client, refs,
                 owners, loop>>

-----------------------------------------------------------------------------
(* References.                                                             *)

(* The state of the objects after newLife, newFd and newTable, once what   *)
(* nobody refers to is destroyed: it closes the number it holds. What is   *)
(* not open any more leaves epoll.                                         *)
Settle(newLife, newFd, newTable, newReady) ==
  LET Orphans == {s \in Sockets :
                    /\ newLife[s] \in Live
                    /\ s \notin Range(connections') \cup {connection'} \cup kept'}
      Numbers == {newFd[s] : s \in Orphans}
  IN  /\ life' = [s \in Sockets |-> IF s \in Orphans THEN "destroyed" ELSE newLife[s]]
      /\ fd' = [s \in Sockets |-> IF s \in Orphans THEN NoFd ELSE newFd[s]]
      /\ table' = [d \in Fds |-> IF d \in Numbers THEN None ELSE newTable[d]]
      /\ ready' = newReady \cap (Range(table') \cup {Acceptor})

(* connectEstablished() of a new connection that holds d: it is read from, *)
(* and shown to the user, who may keep it.                                 *)
ConnectEstablished(s, d, newTable, newLife) ==
  /\ events' = [events EXCEPT ![s] = EnableReading(NONE_EVENT)]
  /\ kept' = kept \cup ({s} \cap (Guarded \cup Loose))
  /\ Settle([newLife EXCEPT ![s] = "CONNECTED"], [fd EXCEPT ![s] = d], newTable,
            IF ReadyAfterUpdate(FALSE, Mask(s), READ_EVENT)
            THEN ready \cup {s} ELSE ready \ {s})

(* The user lets go of a connection. A functor (stage "functors") is the   *)
(* only place where no channel is in use.                                  *)
UserDrops(s) ==
  /\ s \in kept /\ stage # "crashed"
  /\ s \in Guarded => stage = "functors" /\ life[s] = "CLOSED"
  /\ kept' = kept \ {s}
  /\ UNCHANGED <<connections, connection>>
  /\ Settle(life, fd, table, ready)
  /\ UNCHANGED <<peers, events, client, owners, loop>>

(* A user who guards a connection destroys its owner only after its end.   *)
UserMayEnd(mine) ==
  stage = "functors" /\ \A s \in mine \cap Guarded : life[s] # "CONNECTED"
=============================================================================
