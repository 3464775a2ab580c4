------------------------------ MODULE TcpClient ------------------------------
(***************************************************************************)
(* mnsx::achilles::TcpClient (src/TcpClient.cpp) over the sockets and      *)
(* objects of module Ownership.                                            *)
(*                                                                         *)
(* While an attempt is "connecting" its socket is registered with          *)
(* connect_channel_; once there is a connection, with that one's channel,  *)
(* and two objects hold its number: sock_ and the connection's socket_.    *)
(***************************************************************************)
EXTENDS Ownership

(* The attempts that became a connection.                                  *)
HadConnection == {a \in Attempts : life[a] \in Live \cup {"destroyed"}}

(* sock_ was told to close a number which a connection had held as well.   *)
SharedNumberGivenUp ==
  \E a \in HadConnection : a < attempt \/ "client" \notin owners

(* newConnection(): the former connection_ goes, unless the user keeps it. *)
NewConnection(a, d, newTable, newLife) ==
  /\ connection' = a
  /\ UNCHANGED connections
  /\ ConnectEstablished(a, d, newTable, newLife)

(* The event that tells that the handshake is over.                        *)
HandshakeEventRead == EnableReading(NONE_EVENT)

HandshakeEvent == EnableWriting(NONE_EVENT)

(* connect(), called by a functor. The new Socket exists before reset()    *)
(* deletes the former one, and so its number is taken before that one's is *)
(* closed. A former attempt that is still pending is given up.             *)
Connect ==
  LET a       == attempt + 1
      created == IF NewFd = NoFd THEN table ELSE [table EXCEPT ![NewFd] = a]
      left    == Closed(created, sock)
      others  == [s \in Sockets |-> IF life[s] = "connecting" THEN "failed" ELSE life[s]]
  IN  /\ stage = "functors" /\ "client" \in owners /\ attempt < MaxAttempts
      /\ attempt' = a /\ sock' = NewFd
      /\ \/ /\ a \in Range(left)              \* connected at once
            /\ answer' = [answer EXCEPT ![a] = "accepted"]
            /\ NewConnection(a, NewFd, left, others)
         \/ /\ a \in Range(left)              \* EINPROGRESS
            /\ events' = [events EXCEPT ![a] = HandshakeEvent]
            /\ UNCHANGED <<answer, refs>>
            /\ Settle([others EXCEPT ![a] = "connecting"], fd, left, ready)
         \/ /\ answer' = IF a \in Range(left) THEN [answer EXCEPT ![a] = "refused"]
                         ELSE answer          \* refused at once, EBADF
            /\ UNCHANGED <<events, refs>>
            /\ Settle([others EXCEPT ![a] = "failed"], fd, left, ready)
      /\ UNCHANGED <<backlog, input, fin, rst, owners, loop>>

(* handleWrite() of connect_channel_: it is taken out of epoll, and the    *)
(* outcome read. In place of the error itself errno is tested, which is    *)
(* EEXIST: disableAll() has just tried to add what was there.              *)
EEXIST == 17

HandshakeErrorIgnored(a) == 0

HandshakeError(a) == IF SoError(a) THEN EEXIST ELSE 0

HandleWriteCloses(a) ==
  IF HandshakeError(a) # 0
    THEN /\ life' = [life EXCEPT ![a] = "failed"]
         /\ table' = Closed(table, sock)
         /\ ready' = ready \ {a}
         /\ UNCHANGED <<events, fd, refs>>
    ELSE NewConnection(a, sock, table, life)

HandleWrite(a) ==
  IF HandshakeError(a) # 0
    THEN /\ life' = [life EXCEPT ![a] = "failed"]
         /\ events' = [events EXCEPT ![a] = DisableAll]
         /\ ready' = ready \ {a}
         /\ UNCHANGED <<table, fd, refs>>
    ELSE NewConnection(a, sock, table, life)

(* removeConnection() runs its functor in place, like the server's.        *)
RemoveClientConnection == connection' = None

(* ~TcpClient(), called by a functor: connection_, then connect_channel_   *)
(* and sock_, which closes its number.                                     *)
DestroyClient ==
  /\ "client" \in owners /\ UserMayEnd(Attempts)
  /\ owners' = owners \ {"client"}
  /\ connection' = None /\ sock' = NoFd
  /\ UNCHANGED <<connections, kept, attempt>>
  /\ Settle([s \in Sockets |-> IF life[s] = "connecting" THEN "failed" ELSE life[s]],
            fd, Closed(table, sock), ready)
  /\ UNCHANGED <<peers, events, loop>>
=============================================================================
