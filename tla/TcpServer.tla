------------------------------ MODULE TcpServer ------------------------------
(***************************************************************************)
(* mnsx::achilles::TcpServer (src/TcpServer.cpp) over the sockets and      *)
(* objects of module Ownership.                                            *)
(***************************************************************************)
EXTENDS Ownership

(* handleNewConnection(): one accept() for each event; what it returns is  *)
(* entered and registered.                                                 *)
EnterConnection ==
  LET c == Head(backlog)
  IN  /\ backlog' = Tail(backlog)
      /\ connections' = [d \in DOMAIN connections \cup {NewFd} |->
                           IF d = NewFd THEN c ELSE connections[d]]
      /\ UNCHANGED connection
      /\ ConnectEstablished(c, NewFd, [table EXCEPT ![NewFd] = c], life)

HandleNewConnectionAnyFd ==
  IF backlog = << >> THEN UNCHANGED <<backlog, object, refs>>
  ELSE EnterConnection

HandleNewConnection ==
  IF backlog = << >> \/ NewFd = NoFd
    THEN UNCHANGED <<backlog, object, refs>>
    ELSE EnterConnection

(* removeConnection() runs its functor in place, on the loop's own thread. *)
RemoveConnectionNever(d) == UNCHANGED connections

RemoveConnectionByte(d) ==
  connections' = Restrict(connections, DOMAIN connections \ {d % 2})

RemoveConnection(d) ==
  connections' = Restrict(connections, DOMAIN connections \ {d % FD_WORD})

(* The entries that it missed, because their number is no uint16_t.        *)
Missed == {d \in DOMAIN connections : d >= FD_WORD /\ life[connections[d]] = "CLOSED"}

(* ~TcpServer(), called by a functor: the connections nobody keeps go, and *)
(* the listening socket with those that wait in it.                        *)
DestroyServer ==
  /\ "server" \in owners /\ UserMayEnd(Conns)
  /\ owners' = owners \ {"server"}
  /\ connections' = << >> /\ backlog' = << >>
  /\ UNCHANGED <<connection, kept>>
  /\ Settle([s \in Sockets |-> IF life[s] = "waiting" THEN "destroyed" ELSE life[s]],
            fd, table, ready \ {Acceptor})
  /\ UNCHANGED <<answer, input, fin, rst, events, client, loop>>
=============================================================================
