---------------------------- MODULE OwnershipProofs ----------------------------
(***************************************************************************)
(* What holds of descriptors, objects and references whatever the server,  *)
(* the client and the loop do with them, and that Settle, which ends every *)
(* operation that gives up a reference, keeps it.                          *)
(*                                                                         *)
(* The parts of the invariant are operators of the values they are about,  *)
(* because the operations hand Settle objects that are no state yet:       *)
(* L, F and T stand for life, fd and table, sk and at for sock and         *)
(* attempt, ow for owners, cs, cn and kp for connections, connection and   *)
(* kept.                                                                   *)
(***************************************************************************)
EXTENDS Ownership, WellFoundedInduction, TLAPS

-----------------------------------------------------------------------------
(* The lowest free number.                                                 *)

(* A set of numbers has a least one.                                       *)
LEMMA LeastNumber ==
  ASSUME NEW N \in SUBSET Nat, N # {}
  PROVE  \E n \in N : \A m \in N : n <= m
<1> DEFINE Less == {p \in Nat \X Nat : p[1] < p[2]}
<1>1. IsWellFoundedOn(Less, Nat)
  BY NatLessThanWellFounded DEF OpToRel
<1>2. PICK n \in N : \A m \in N : ~ (<<m, n>> \in Less)
  <2> HIDE DEF Less
  <2> QED BY <1>1, WFMin, Zenon
<1>3. ASSUME NEW m \in N PROVE n <= m
  <2>1. ~ (<<m, n>> \in Less)
    BY <1>2, Zenon
  <2>2. n \in Nat /\ m \in Nat
    OBVIOUS
  <2>3. QED BY <2>1, <2>2
<1>4. QED BY <1>3

(* A new descriptor is one that was free; -1 is returned only for want of  *)
(* one.                                                                    *)
LEMMA NewFdIsFree ==
  /\ NewFd \in {NoFd} \cup Fds
  /\ NewFd # NoFd => NewFd \in Fds /\ table[NewFd] = None
<1>1. CASE FreeFds = {}
  BY <1>1 DEF NewFd
<1>2. CASE FreeFds # {}
  <2>1. FreeFds \in SUBSET Nat
    BY FdAssumption DEF FreeFds
  <2>2. \E d \in FreeFds : \A e \in FreeFds : d <= e
    BY <1>2, <2>1, LeastNumber
  <2>3. (CHOOSE d \in FreeFds : \A e \in FreeFds : d <= e) \in FreeFds
    BY <2>2, Zenon
  <2>4. NewFd \in FreeFds
    BY <1>2, <2>3 DEF NewFd
  <2>5. QED BY <2>4 DEF FreeFds
<1>3. QED BY <1>1, <1>2

(* No descriptor is -1, and none that is a uint16_t is changed when it is  *)
(* made one.                                                               *)
LEMMA NumbersAreNaturals ==
  /\ NoFd \notin Fds
  /\ \A d \in Fds : d \in Nat /\ (d < FD_WORD => d % FD_WORD = d)
                   /\ d % FD_WORD < FD_WORD
<1>1. \A d \in Nat, w \in Nat \ {0} : (d < w => d % w = d) /\ d % w < w
  OBVIOUS
<1>2. QED BY <1>1, FdAssumption DEF NoFd

-----------------------------------------------------------------------------
(* The parts of the invariant.                                             *)

Lives == {"unborn", "waiting", "connecting", "failed", "CONNECTED", "CLOSED",
          "destroyed"}

(* What was a connection once: a callback may still be on its stack.       *)
Had == Live \cup {"destroyed"}

TableTypes(L, F, T, sk, at) ==
  /\ T \in [Fds -> Sockets \cup {None}]
  /\ L \in [Sockets -> Lives]
  /\ F \in [Sockets -> {NoFd} \cup Fds]
  /\ sk \in {NoFd} \cup Fds /\ at \in 0..MaxAttempts
  /\ \A s \in Sockets : (F[s] # NoFd) = (L[s] \in Live)

(* Each open number is that of a connection, or sock_'s, which is that of  *)
(* the last attempt.                                                       *)
NumbersHaveHolders(L, F, T, sk, at) ==
  \A d \in Fds : T[d] # None =>
    \/ L[T[d]] \in Live /\ F[T[d]] = d
    \/ L[T[d]] \in {"connecting", "failed"} /\ d = sk /\ T[d] = at

(* An attempt that is pending is the last one, and its number is sock_'s   *)
(* alone.                                                                  *)
PendingIsLast(L, F, T, sk, at, ow) ==
  \A s \in Sockets : L[s] = "connecting" =>
    /\ s = at /\ s \in Attempts /\ "client" \in ow
    /\ sk \in Fds /\ T[sk] = s /\ \A r \in Sockets : F[r] # sk

(* As long as there was no connection sock_'s number is sock_'s alone.     *)
NeverShared(L, F, T, sk, at) ==
  (\A a \in Attempts : L[a] \notin Had) =>
    \/ sk = NoFd
    \/ at \in Attempts /\ T[sk] = at /\ \A r \in Sockets : F[r] # sk

(* Only sockets of the client's are attempts, and none before its time.    *)
KindsOfSockets(L, at) ==
  /\ \A a \in Attempts : (a > at => L[a] = "unborn") /\ L[a] # "waiting"
  /\ \A c \in Conns : L[c] \notin {"connecting", "failed"}

Table(L, F, T, sk, at, ow) ==
  /\ TableTypes(L, F, T, sk, at)
  /\ NumbersHaveHolders(L, F, T, sk, at)
  /\ PendingIsLast(L, F, T, sk, at, ow)
  /\ NeverShared(L, F, T, sk, at)
  /\ KindsOfSockets(L, at)

(* A connection's number stands for its socket.                            *)
NumbersStand(L, F, T) == \A s \in Sockets : L[s] \in Live => T[F[s]] = s

RefTypes(cs, cn, kp) ==
  /\ DOMAIN cs \subseteq Fds /\ \A d \in DOMAIN cs : cs[d] \in Conns
  /\ cn \in Attempts \cup {None} /\ kp \subseteq Sockets

(* The entries of closed connections, which removeConnection() missed.     *)
MissedIn(L, cs) == {d \in DOMAIN cs : d >= FD_WORD /\ L[cs[d]] = "CLOSED"}

(* The server's entries are under the numbers of their connections. They   *)
(* are the open ones, until one is missed: it stays, and an open one's may *)
(* be gone.                                                                *)
EntriesAreOpen(L, F, ow, cs) ==
  /\ \A d \in DOMAIN cs : L[cs[d]] \in Live /\ F[cs[d]] = d
  /\ \A d \in DOMAIN cs : L[cs[d]] = "CLOSED" => d >= FD_WORD
  /\ "server" \in ow /\ MissedIn(L, cs) = {} =>
       \A c \in Conns : L[c] = "CONNECTED" => F[c] \in DOMAIN cs /\ cs[F[c]] = c
  /\ "server" \notin ow => DOMAIN cs = {}

(* They stay right when no connection of the server's changes.             *)
LEMMA SameEntries ==
  ASSUME NEW L, NEW F, NEW L2, NEW F2, NEW ow, NEW ow2, NEW cs,
         EntriesAreOpen(L, F, ow, cs), \A d \in DOMAIN cs : cs[d] \in Conns,
         "server" \in ow <=> "server" \in ow2,
         \A c \in Conns : L[c] \in Live \/ L2[c] \in Live
                           => L2[c] = L[c] /\ F2[c] = F[c]
  PROVE  EntriesAreOpen(L2, F2, ow2, cs)
<1>1. \A d \in DOMAIN cs : L2[cs[d]] = L[cs[d]] /\ F2[cs[d]] = F[cs[d]]
  BY DEF EntriesAreOpen
<1>2. MissedIn(L2, cs) = MissedIn(L, cs)
  BY <1>1 DEF MissedIn
<1>3. \A c \in Conns : L2[c] = "CONNECTED" => L[c] = "CONNECTED" /\ F2[c] = F[c]
  BY DEF Live
<1>4. QED BY <1>1, <1>2, <1>3 DEF EntriesAreOpen

ClientRefIsOpen(L, ow, cn) == cn # None => L[cn] = "CONNECTED" /\ "client" \in ow

(* An open connection that is guarded is kept, and its owner is there.     *)
GuardedAreKept(L, ow, kp) ==
  \A s \in Guarded : L[s] = "CONNECTED" =>
    s \in kp /\ (s \in Conns => "server" \in ow) /\ (s \in Attempts => "client" \in ow)

References(L, F, ow, cs, cn, kp) ==
  /\ RefTypes(cs, cn, kp)
  /\ EntriesAreOpen(L, F, ow, cs)
  /\ ClientRefIsOpen(L, ow, cn)
  /\ GuardedAreKept(L, ow, kp)

(* Who still refers to a closed connection is the user, or the entry that  *)
(* was missed.                                                             *)
ClosedAreKept(L, cs, kp) ==
  \A s \in Sockets : L[s] = "CLOSED" => s \in kp \cup Range(cs)

(* What waits to be accepted.                                              *)
Waiting(L, bl, ow) ==
  /\ \A i \in 1..Len(bl) : L[bl[i]] = "waiting"
  /\ \A i, j \in 1..Len(bl) : i # j => bl[i] # bl[j]
  /\ bl # << >> => "server" \in ow

-----------------------------------------------------------------------------
(* Settle.                                                                 *)

Orphans(L, cs, cn, kp) ==
  {s \in Sockets : L[s] \in Live /\ s \notin Range(cs) \cup {cn} \cup kp}

(* The objects L2, F2 and T2 are those that are left when O is destroyed.  *)
Settled(O, L, F, T, L2, F2, T2) ==
  /\ L2 = [s \in Sockets |-> IF s \in O THEN "destroyed" ELSE L[s]]
  /\ F2 = [s \in Sockets |-> IF s \in O THEN NoFd ELSE F[s]]
  /\ T2 = [d \in Fds |-> IF d \in {F[s] : s \in O} THEN None ELSE T[d]]

(* Settle destroys those nobody refers to.                                 *)
LEMMA SettleDestroysOrphans ==
  ASSUME NEW L, NEW F, NEW T, NEW R, Settle(L, F, T, R)
  PROVE  /\ Settled(Orphans(L, connections', connection', kept'), L, F, T,
                    life', fd', table')
         /\ ready' = R \cap (Range(table') \cup {Acceptor})
  BY DEF Settle, Settled, Orphans

(* The table still says who holds what ...                                 *)
LEMMA TableSettles ==
  ASSUME NEW L, NEW F, NEW T, NEW sk, NEW at, NEW ow, NEW L2, NEW F2, NEW T2, NEW O,
         O \subseteq {s \in Sockets : L[s] \in Live},
         Table(L, F, T, sk, at, ow), Settled(O, L, F, T, L2, F2, T2)
  PROVE  Table(L2, F2, T2, sk, at, ow)
<1> USE DEF Table
<1>1. /\ \A s \in Sockets : /\ s \in O => L2[s] = "destroyed" /\ F2[s] = NoFd
                            /\ s \notin O => L2[s] = L[s] /\ F2[s] = F[s]
      /\ \A d \in Fds : T2[d] = None \/ (T2[d] = T[d] /\ \A s \in O : F[s] # d)
      /\ \A d \in Fds : (\A s \in O : F[s] # d) => T2[d] = T[d]
  BY DEF Settled
<1>2. \A s \in O : L[s] \in Live /\ s \in Sockets
  OBVIOUS
<1>3. TableTypes(L2, F2, T2, sk, at)
  BY <1>1, <1>2 DEF Settled, TableTypes, Live, Lives
<1>4. NumbersHaveHolders(L2, F2, T2, sk, at)
  BY <1>1, <1>2 DEF NumbersHaveHolders, TableTypes, Live
<1>5. PendingIsLast(L2, F2, T2, sk, at, ow)
  BY <1>1, <1>2 DEF PendingIsLast, Live, TableTypes, NoFd
<1>6. NeverShared(L2, F2, T2, sk, at)
  <2> SUFFICES ASSUME \A a \in Attempts : L2[a] \notin Had, sk # NoFd
               PROVE  at \in Attempts /\ T2[sk] = at /\ \A r \in Sockets : F2[r] # sk
    BY DEF NeverShared
  <2>1. \A a \in Attempts : L[a] \notin Had
    BY <1>1 DEF Sockets, Had
  <2>2. at \in Attempts /\ T[sk] = at /\ \A r \in Sockets : F[r] # sk
    BY <2>1 DEF NeverShared
  <2>3. sk \in Fds
    BY DEF TableTypes
  <2>4. QED BY <1>1, <1>2, <2>2, <2>3
<1>7. KindsOfSockets(L2, at)
  BY <1>1, <1>2 DEF KindsOfSockets, Live, Sockets
<1>8. QED BY <1>3, <1>4, <1>5, <1>6, <1>7

(* ... no connection that remains has lost its number ...                  *)
LEMMA NumbersStandSettled ==
  ASSUME NEW L, NEW F, NEW T, NEW sk, NEW at, NEW L2, NEW F2, NEW T2, NEW O,
         O \subseteq {s \in Sockets : L[s] \in Live},
         TableTypes(L, F, T, sk, at), Settled(O, L, F, T, L2, F2, T2),
         NumbersStand(L, F, T)
  PROVE  NumbersStand(L2, F2, T2)
<1> SUFFICES ASSUME NEW s \in Sockets, L2[s] \in Live
             PROVE  T2[F2[s]] = s
  BY DEF NumbersStand
<1>1. s \notin O /\ L2[s] = L[s] /\ F2[s] = F[s]
  BY DEF Settled, Live
<1>2. F[s] \in Fds /\ T[F[s]] = s
  BY <1>1 DEF TableTypes, NumbersStand
<1>3. \A r \in O : T[F[r]] = r
  BY DEF NumbersStand
<1>4. \A r \in O : F[r] # F[s]
  BY <1>1, <1>2, <1>3
<1>5. QED BY <1>1, <1>2, <1>4 DEF Settled

(* ... and the references are to what is left.                             *)
LEMMA ReferencesSettle ==
  ASSUME NEW L, NEW F, NEW T, NEW ow, NEW cs, NEW cn, NEW kp, NEW L2, NEW F2, NEW T2,
         References(L, F, ow, cs, cn, kp),
         Settled(Orphans(L, cs, cn, kp), L, F, T, L2, F2, T2)
  PROVE  References(L2, F2, ow, cs, cn, kp) /\ ClosedAreKept(L2, cs, kp)
<1> DEFINE O == Orphans(L, cs, cn, kp)
<1> USE DEF References
<1>1. \A s \in Sockets : /\ s \in O => L2[s] = "destroyed" /\ F2[s] = NoFd
                         /\ s \notin O => L2[s] = L[s] /\ F2[s] = F[s]
  BY DEF Settled
<1>2. /\ \A d \in DOMAIN cs : cs[d] \notin O
      /\ cn \notin O /\ \A s \in kp : s \notin O
  BY DEF Orphans, Range
<1>3. ClosedAreKept(L2, cs, kp)
  <2> SUFFICES ASSUME NEW s \in Sockets, L2[s] = "CLOSED"
               PROVE  s \in kp \cup Range(cs)
    BY DEF ClosedAreKept
  <2>1. L[s] = "CLOSED" /\ s \notin O
    BY <1>1
  <2>2. s \in Range(cs) \cup {cn} \cup kp
    BY <2>1 DEF Orphans, Live
  <2>3. s # cn
    BY <2>1, UserAssumption, ConnsAssumption DEF ClientRefIsOpen, None
  <2>4. QED BY <2>2, <2>3
<1> HIDE DEF O
<1>4. EntriesAreOpen(L2, F2, ow, cs)
  <2>1. \A d \in DOMAIN cs : L2[cs[d]] = L[cs[d]] /\ F2[cs[d]] = F[cs[d]]
    BY <1>1, <1>2 DEF RefTypes, Sockets
  <2>2. MissedIn(L2, cs) = MissedIn(L, cs)
    BY <2>1 DEF MissedIn
  <2>3. \A c \in Conns : L2[c] = "CONNECTED" => L[c] = "CONNECTED" /\ F2[c] = F[c]
    BY <1>1 DEF Sockets
  <2>4. QED BY <2>1, <2>2, <2>3 DEF EntriesAreOpen
<1>5. ClientRefIsOpen(L2, ow, cn)
  BY <1>1, <1>2 DEF ClientRefIsOpen, RefTypes, Sockets
<1>6. GuardedAreKept(L2, ow, kp)
  BY <1>1, <1>2, UserAssumption DEF GuardedAreKept
<1>7. QED BY <1>3, <1>4, <1>5, <1>6

(* Nothing that waits has been an object yet.                              *)
LEMMA WaitingSettles ==
  ASSUME NEW L, NEW F, NEW T, NEW bl \in Seq(Conns), NEW ow,
         NEW L2, NEW F2, NEW T2, NEW O,
         O \subseteq {s \in Sockets : L[s] \in Live},
         Settled(O, L, F, T, L2, F2, T2), Waiting(L, bl, ow)
  PROVE  Waiting(L2, bl, ow)
<1>1. \A i \in 1..Len(bl) : bl[i] \in Sockets
  BY DEF Sockets
<1>2. \A i \in 1..Len(bl) : bl[i] \notin O
  BY DEF Waiting, Live
<1>3. QED BY <1>1, <1>2 DEF Waiting, Settled
=============================================================================
