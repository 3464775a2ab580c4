---------------------------- MODULE EndpointsProofs ----------------------------
(***************************************************************************)
(* Proofs for Endpoints: for any number of peers, attempts and             *)
(* descriptors, whatever the user keeps.                                   *)
(***************************************************************************)
EXTENDS Endpoints, OwnershipProofs

-----------------------------------------------------------------------------
(* The inductive invariant.                                                *)

(* The types of what OwnershipProofs is not about.                         *)
LoopTypes ==
  /\ backlog \in Seq(Conns)
  /\ answer \in [Attempts -> {"none", "accepted", "refused"}]
  /\ input \subseteq Sockets /\ fin \subseteq Sockets /\ rst \subseteq Sockets
  /\ ready \subseteq Sockets \cup {Acceptor}
  /\ events \in [Sockets -> {NONE_EVENT, READ_EVENT, WRITE_EVENT}]
  /\ owners \subseteq {"server", "client"}
  /\ stage \in {"poll", "channels", "functors", "crashed"}
  /\ DOMAIN active \subseteq Sockets \cup {Acceptor}
  /\ current \in Sockets \cup {None} /\ todo \subseteq {"close", "read", "write"}
  /\ dangling \subseteq Sockets

(* The channels that poll() returned: those of connections and of pending  *)
(* attempts, and one of an attempt has its answer.                         *)
ListedAreUsable(L, an, ac, cu) ==
  \A s \in DOMAIN ac \cap Sockets :
    /\ s # cu
    /\ L[s] \in Had \cup {"connecting"} /\ (s \in Guarded => L[s] # "destroyed")
    /\ L[s] = "connecting" /\ "OUT" \in ac[s] => an[s] # "none"

(* The one that is handled, and the callbacks it still has to invoke.      *)
CurrentIsUsable(L, an, cu, td) ==
  cu \in Sockets =>
    /\ L[cu] \in Had \cup {"connecting", "failed"}
    /\ cu \in Guarded => L[cu] # "destroyed"
    /\ "write" \in td => L[cu] = "connecting" /\ an[cu] # "none"
    /\ "close" \in td \/ "read" \in td => L[cu] \in Had

(* Where functors run no channel is in use.                                *)
InUse(L, an, st, ac, cu, td) ==
  /\ st \in {"poll", "functors"} => DOMAIN ac = {} /\ cu = None
  /\ ListedAreUsable(L, an, ac, cu)
  /\ CurrentIsUsable(L, an, cu, td)

(* What epoll watches is a connection or a pending attempt.                *)
ReadyAreOpen(L, rd) == \A s \in rd \cap Sockets : L[s] \in Live \cup {"connecting"}

(* Every connection of the client's was accepted.                          *)
Accepted(L, an) == \A a \in Attempts : L[a] \in Had => an[a] = "accepted"

Objects ==
  /\ Table(life, fd, table, sock, attempt, owners)
  /\ References(life, fd, owners, connections, connection, kept)
  /\ ClosedAreKept(life, connections, kept)
  /\ Waiting(life, backlog, owners)
  /\ InUse(life, answer, stage, active, current, todo)
  /\ ReadyAreOpen(life, ready)
  /\ Accepted(life, answer)

IInv == LoopTypes /\ Objects /\ DescriptorsAreTheirs /\ GuardedAreSafe

(* As long as no connection has lost its number all numbers stand.         *)
LEMMA LostMeansNumbers ==
  ASSUME IInv
  PROVE  Lost = {} <=> NumbersStand(life, fd, table)
<1>1. \A s \in Sockets : life[s] \in Live => fd[s] \in Fds
  BY DEF IInv, Objects, Table, TableTypes
<1>2. QED BY <1>1 DEF Lost, NumbersStand

(* The invariant after an operation that gives up references.              *)
LEMMA SettleKeepsObjects ==
  ASSUME NEW L, NEW F, NEW T, NEW R, Settle(L, F, T, R),
         Table(L, F, T, sock', attempt', owners'),
         References(L, F, owners', connections', connection', kept'),
         backlog' \in Seq(Conns), Waiting(L, backlog', owners'),
         InUse(L, answer', stage', active', current', todo'),
         \A s \in Guarded : s \in DOMAIN active' \/ s = current'
                              => (L[s] \in Live => s \in kept' \cup Range(connections')),
         \A s \in R \cap Sockets : L[s] = "failed" => s \notin Range(T),
         Accepted(L, answer')
  PROVE  /\ Objects' /\ ready' \subseteq R
         /\ \A s \in Sockets : L[s] \in Had => life'[s] \in Had
         /\ NumbersStand(L, F, T) => Lost' = {}
<1> DEFINE O == Orphans(L, connections', connection', kept')
<1>1. Settled(O, L, F, T, life', fd', table')
  BY SettleDestroysOrphans, Zenon
<1>2. ready' = R \cap (Range(table') \cup {Acceptor})
  BY SettleDestroysOrphans, Zenon
<1>3. O \subseteq {s \in Sockets : L[s] \in Live}
  BY DEF Orphans
<1>4. References(life', fd', owners', connections', connection', kept')
      /\ ClosedAreKept(life', connections', kept')
  BY <1>1, ReferencesSettle, Zenon
<1>5. \A s \in Guarded : s \in DOMAIN active' \/ s = current' => s \notin O
  BY DEF Orphans
<1> HIDE DEF O
<1>6. Table(life', fd', table', sock', attempt', owners')
  BY <1>1, <1>3, TableSettles, Zenon
<1>7. Waiting(life', backlog', owners')
  BY <1>1, <1>3, WaitingSettles, Zenon
<1>8. \A s \in Sockets : /\ s \in O => life'[s] = "destroyed" /\ L[s] \in Live
                         /\ s \notin O => life'[s] = L[s]
  BY <1>1, <1>3 DEF Settled
<1>9. Accepted(life', answer')
  BY <1>8 DEF Accepted, Had, Sockets
<1>10. InUse(life', answer', stage', active', current', todo')
  <2>1. ListedAreUsable(life', answer', active', current')
    BY <1>5, <1>8 DEF InUse, ListedAreUsable, Had, Live
  <2>2. CurrentIsUsable(life', answer', current', todo')
    BY <1>5, <1>8 DEF InUse, CurrentIsUsable, Had, Live
  <2>3. QED BY <2>1, <2>2 DEF InUse
<1>11. ReadyAreOpen(life', ready')
  <2> SUFFICES ASSUME NEW s \in Sockets, s \in ready'
               PROVE  life'[s] \in Live \cup {"connecting"}
    BY DEF ReadyAreOpen
  <2>1. s \in R /\ s # Acceptor
    BY <1>2, ConnsAssumption
  <2>2. PICK d \in Fds : table'[d] = s
    BY <1>2, <2>1, <1>1 DEF Range, Settled
  <2>3. life'[s] \in Live \cup {"connecting", "failed"}
    BY <1>6, <2>2, <2>1 DEF Table, NumbersHaveHolders, None
  <2>4. T[d] = s
    BY <1>1, <2>1, <2>2 DEF Settled, None
  <2>5. s \in Range(T)
    BY <2>4 DEF Range, Table, TableTypes
  <2>6. L[s] # "failed"
    BY <2>1, <2>5
  <2>7. life'[s] # "failed"
    BY <1>8, <2>6
  <2>8. QED BY <2>3, <2>7
<1>12. ASSUME NumbersStand(L, F, T) PROVE Lost' = {}
  <2>1. NumbersStand(life', fd', table')
    BY <1>1, <1>3, <1>12, NumbersStandSettled DEF Table
  <2>2. \A s \in Sockets : life'[s] \in Live => fd'[s] \in Fds
    BY <1>6 DEF Table, TableTypes
  <2>3. QED BY <2>1, <2>2 DEF Lost, NumbersStand
<1>13. \A s \in Sockets : L[s] \in Had => life'[s] \in Had
  BY <1>8 DEF Had
<1>14. QED
  BY <1>2, <1>4, <1>6, <1>7, <1>9, <1>10, <1>11, <1>12, <1>13 DEF Objects

-----------------------------------------------------------------------------
(* The loop and the peers: no object changes hands.                        *)

(* Steps that leave objects, owners and references alone.                  *)
LEMMA SameObjects ==
  ASSUME IInv, Lost = {}, UNCHANGED <<table, life, fd, client, refs, owners>>,
         LoopTypes', Waiting(life', backlog', owners'),
         InUse(life', answer', stage', active', current', todo'),
         ReadyAreOpen(life', ready'), Accepted(life', answer'), GuardedAreSafe'
  PROVE  IInv'
<1>1. /\ Table(life', fd', table', sock', attempt', owners')
      /\ References(life', fd', owners', connections', connection', kept')
      /\ ClosedAreKept(life', connections', kept')
  BY DEF IInv, Objects, client, refs
<1>2. DescriptorsAreTheirs'
  BY DEF DescriptorsAreTheirs, Lost
<1>3. QED BY <1>1, <1>2 DEF IInv, Objects

(* What is still listed after a channel was taken off the list.            *)
LEMMA RemainingAreListed ==
  ASSUME NEW ch
  PROVE  /\ DOMAIN Remaining(ch) = DOMAIN active \ {ch}
         /\ \A s \in DOMAIN Remaining(ch) : Remaining(ch)[s] = active[s]
  BY DEF Remaining, Restrict

(* Where a functor runs, no channel is in use.                             *)
LEMMA NothingInUse ==
  ASSUME IInv, stage \in {"poll", "functors"}
  PROVE  DOMAIN active = {} /\ current = None
  BY DEF IInv, Objects, InUse

(* poll() returns channels that are there, an attempt's with its answer.   *)
LEMMA PollKeeps == IInv /\ Lost = {} /\ Poll => IInv'
<1> SUFFICES ASSUME IInv, Lost = {}, Poll PROVE IInv'
  OBVIOUS
<1>1. UNCHANGED <<peers, table, life, fd, events, client, refs, owners, current,
                  todo, dangling>>
  BY DEF Poll
<1>2. /\ stage' = "channels" /\ ready' \subseteq ready /\ current = None
      /\ DOMAIN active' \subseteq ready
      /\ \A s \in DOMAIN active' : active'[s] = Occurred(s)
  BY NothingInUse DEF Poll, NextStage
<1>3. LoopTypes'
  BY <1>1, <1>2 DEF IInv, LoopTypes, peers
<1>4. ReadyAreOpen(life', ready')
  BY <1>1, <1>2 DEF IInv, Objects, ReadyAreOpen
<1>5. ListedAreUsable(life', answer', active', current')
  <2> SUFFICES ASSUME NEW s \in Sockets, s \in DOMAIN active'
               PROVE  /\ s # current'
                      /\ life[s] \in Live \cup {"connecting"}
                      /\ life[s] = "connecting" /\ "OUT" \in active'[s]
                           => answer'[s] # "none"
    BY <1>1 DEF ListedAreUsable, Had, Live
  <2>1. life[s] \in Live \cup {"connecting"}
    BY <1>2 DEF IInv, Objects, ReadyAreOpen
  <2>2. s # current'
    BY <1>1, <1>2, ConnsAssumption DEF None
  <2>3. ASSUME life[s] = "connecting", "OUT" \in active'[s], answer[s] = "none"
        PROVE  FALSE
    <3>1. s \in Attempts /\ s \notin Conns /\ s # Acceptor
      BY <2>3, ConnsAssumption DEF IInv, Objects, Table, PendingIsLast
    <3>2. "OUT" \in Mask(s)
      BY <1>2, <2>3 DEF Occurred, Reported
    <3>3. QED BY <2>3, <3>1, <3>2 DEF Mask
  <2>4. QED BY <1>1, <2>1, <2>2, <2>3 DEF peers
<1>6. InUse(life', answer', stage', active', current', todo')
  BY <1>1, <1>2, <1>5, ConnsAssumption DEF InUse, CurrentIsUsable, None
<1>7. Waiting(life', backlog', owners') /\ Accepted(life', answer') /\ GuardedAreSafe'
  BY <1>1 DEF IInv, Objects, peers, GuardedAreSafe
<1>8. QED BY <1>1, <1>3, <1>4, <1>6, <1>7, SameObjects

(* The other two stages end with no channel in use.                        *)
LEMMA StageEndsKeep == IInv /\ Lost = {} /\ (ChannelsDone \/ FunctorsDone) => IInv'
<1> SUFFICES ASSUME IInv, Lost = {}, ChannelsDone \/ FunctorsDone PROVE IInv'
  OBVIOUS
<1>1. UNCHANGED <<peers, object, client, refs, owners, active, current, todo, dangling>>
  BY DEF ChannelsDone, FunctorsDone
<1>2. /\ stage' \in {"poll", "functors"} /\ stage \in {"channels", "functors"}
      /\ DOMAIN active = {} /\ current = None
  BY NothingInUse DEF ChannelsDone, FunctorsDone, NextStage
<1>3. LoopTypes' /\ ReadyAreOpen(life', ready')
  BY <1>1, <1>2 DEF IInv, LoopTypes, Objects, peers, object
<1>4. InUse(life', answer', stage', active', current', todo')
  BY <1>1, <1>2 DEF IInv, Objects, InUse, peers, object
<1>5. Waiting(life', backlog', owners') /\ Accepted(life', answer') /\ GuardedAreSafe'
  BY <1>1 DEF IInv, Objects, peers, object, GuardedAreSafe
<1>6. QED BY <1>1, <1>3, <1>4, <1>5, SameObjects DEF object

(* handleEvent() begins with callbacks for what its channel is.            *)
LEMMA BeginEventKeeps ==
  ASSUME IInv, Lost = {}, NEW s \in Sockets, BeginEvent(s)
  PROVE  IInv'
<1>1. /\ UNCHANGED <<peers, object, client, refs, owners, stage, dangling>>
      /\ stage = "channels" /\ s \in DOMAIN active /\ current' = s
      /\ active' = Remaining(s)
  BY DEF BeginEvent
<1>2. /\ life[s] \in {"connecting", "failed"} => todo' \subseteq {"write"}
      /\ life[s] \notin {"connecting", "failed"} => todo' \subseteq {"close", "read"}
      /\ "write" \in todo' => "OUT" \in active[s]
  BY DEF BeginEvent, Callbacks, HandleEvent
<1>3. /\ life[s] \in Had \cup {"connecting"} /\ (s \in Guarded => life[s] # "destroyed")
      /\ life[s] = "connecting" /\ "OUT" \in active[s] => answer[s] # "none"
  BY <1>1 DEF IInv, Objects, InUse, ListedAreUsable
<1>4. CurrentIsUsable(life', answer', current', todo')
  BY <1>1, <1>2, <1>3 DEF CurrentIsUsable, Had, Live, peers, object
<1>l. /\ DOMAIN active' = DOMAIN active \ {s}
      /\ \A x \in DOMAIN active' : active'[x] = active[x]
  BY <1>1, RemainingAreListed
<1>5. ListedAreUsable(life', answer', active', current')
  <2>1. life' = life /\ answer' = answer
    BY <1>1 DEF peers, object
  <2>2. ListedAreUsable(life, answer, active, current)
    BY DEF IInv, Objects, InUse
  <2>3. QED BY <1>1, <1>l, <2>1, <2>2 DEF ListedAreUsable
<1>6. InUse(life', answer', stage', active', current', todo')
  BY <1>1, <1>4, <1>5 DEF InUse
<1>7. LoopTypes' /\ ReadyAreOpen(life', ready')
  <2>1. todo' \subseteq {"close", "read", "write"}
    BY <1>2
  <2>2. DOMAIN active' \subseteq Sockets \cup {Acceptor}
    BY <1>l DEF IInv, LoopTypes
  <2>3. QED BY <1>1, <2>1, <2>2 DEF IInv, LoopTypes, Objects, peers, object
<1>8. Waiting(life', backlog', owners') /\ Accepted(life', answer') /\ GuardedAreSafe'
  BY <1>1 DEF IInv, Objects, peers, object, GuardedAreSafe
<1>9. QED BY <1>1, <1>6, <1>7, <1>8, SameObjects DEF object

(* handleEvent() ends, or reads the flags of a channel that is gone: not   *)
(* a guarded one.                                                          *)
LEMMA EventEndsKeep == IInv /\ Lost = {} /\ (EventDone \/ UseAfterEnd) => IInv'
<1> SUFFICES ASSUME IInv, Lost = {}, EventDone \/ UseAfterEnd PROVE IInv'
  OBVIOUS
<1>1. /\ UNCHANGED <<peers, object, client, refs, owners, active>>
      /\ stage = "channels" /\ stage' \in {"channels", "crashed"}
      /\ current # None /\ current' = None /\ todo' = {}
      /\ \/ dangling' = dangling
         \/ life[current] = "destroyed" /\ dangling' = dangling \cup {current}
  BY DEF EventDone, UseAfterEnd
<1>2. current \in Sockets
  BY <1>1 DEF IInv, LoopTypes
<1>3. LoopTypes' /\ ReadyAreOpen(life', ready')
  BY <1>1, <1>2 DEF IInv, LoopTypes, Objects, peers, object
<1>4. GuardedAreSafe'
  BY <1>1, <1>2 DEF IInv, Objects, InUse, CurrentIsUsable, GuardedAreSafe
<1>5. InUse(life', answer', stage', active', current', todo')
  BY <1>1, <1>2, ConnsAssumption
     DEF IInv, Objects, InUse, ListedAreUsable, CurrentIsUsable, peers, object, None
<1>6. Waiting(life', backlog', owners') /\ Accepted(life', answer')
  BY <1>1, <1>2 DEF IInv, Objects, peers, object
<1>7. QED BY <1>1, <1>3, <1>4, <1>5, <1>6, SameObjects DEF object

(* A peer that answers, sends or leaves only marks a channel ready that is *)
(* registered.                                                             *)
LEMMA PeersOfSocketsKeep ==
  ASSUME IInv, Lost = {}, NEW s \in Sockets,
         (s \in Attempts /\ PeerAnswers(s)) \/ PeerSends(s) \/ PeerLeaves(s)
  PROVE  IInv'
<1>1. /\ UNCHANGED <<backlog, table, life, fd, events, client, refs, owners, loop>>
      /\ input' \subseteq Sockets /\ fin' \subseteq Sockets /\ rst' \subseteq Sockets
      /\ ready' \subseteq ready \cup {s}
      /\ s \in ready' => s \in ready \/ life[s] \in Live \cup {"connecting"}
  BY DEF PeerAnswers, PeerSends, PeerLeaves, Registered, IInv, LoopTypes
<1>2. \/ answer' = answer
      \/ /\ s \in Attempts /\ life[s] = "connecting" /\ answer[s] = "none"
         /\ \E result \in {"accepted", "refused"} :
              answer' = [answer EXCEPT ![s] = result]
  BY DEF PeerAnswers, PeerSends, PeerLeaves
<1>3. /\ answer' \in [Attempts -> {"none", "accepted", "refused"}]
      /\ \A a \in Attempts : life[a] # "connecting" => answer'[a] = answer[a]
      /\ \A a \in Attempts : answer[a] # "none" => answer'[a] # "none"
  BY <1>2 DEF IInv, LoopTypes
<1>4. LoopTypes'
  BY <1>1, <1>3 DEF IInv, LoopTypes, loop
<1>5. ReadyAreOpen(life', ready')
  BY <1>1 DEF IInv, Objects, ReadyAreOpen
<1>6. Accepted(life', answer')
  BY <1>1, <1>3 DEF IInv, Objects, Accepted, Had, Live
<1>7. \A r \in Sockets : life[r] = "connecting" => r \in Attempts
  BY DEF IInv, Objects, Table, PendingIsLast
<1>8. InUse(life', answer', stage', active', current', todo')
  BY <1>1, <1>3, <1>7 DEF IInv, Objects, InUse, ListedAreUsable, CurrentIsUsable, loop
<1>9. Waiting(life', backlog', owners') /\ GuardedAreSafe'
  BY <1>1 DEF IInv, Objects, loop, GuardedAreSafe
<1>10. QED BY <1>1, <1>4, <1>5, <1>6, <1>8, <1>9, SameObjects

(* A peer that connects waits at the end of the backlog.                   *)
LEMMA PeerConnectsKeeps ==
  ASSUME IInv, Lost = {}, NEW c \in Conns, PeerConnects(c)
  PROVE  IInv'
<1>1. /\ "server" \in owners /\ life[c] = "unborn" /\ c \in Sockets
      /\ life' = [life EXCEPT ![c] = "waiting"] /\ backlog' = Append(backlog, c)
      /\ ready' = ready \cup {Acceptor}
      /\ UNCHANGED <<answer, input, fin, rst, table, fd, events, client, refs, owners, loop>>
  BY DEF PeerConnects, Sockets
<1>2. /\ life \in [Sockets -> Lives] /\ backlog \in Seq(Conns)
      /\ c \notin Attempts
  BY ConnsAssumption DEF IInv, Objects, Table, TableTypes, LoopTypes
<1>3. \A s \in Sockets : life'[s] = IF s = c THEN "waiting" ELSE life[s]
  BY <1>1, <1>2
<1>4. Table(life', fd', table', sock', attempt', owners')
  <2> USE <1>1, <1>2, <1>3 DEF client
  <2> USE DEF IInv, Objects, Table
  <2>1. TableTypes(life', fd', table', sock', attempt')
    BY DEF TableTypes, Lives, Live
  <2>2. NumbersHaveHolders(life', fd', table', sock', attempt')
    BY DEF TableTypes, NumbersHaveHolders, Live
  <2>3. PendingIsLast(life', fd', table', sock', attempt', owners')
    BY DEF PendingIsLast
  <2>4. NeverShared(life', fd', table', sock', attempt')
    BY DEF NeverShared, Sockets
  <2>5. KindsOfSockets(life', attempt')
    BY DEF KindsOfSockets, Sockets
  <2>6. QED BY <2>1, <2>2, <2>3, <2>4, <2>5
<1>5. /\ References(life', fd', owners', connections', connection', kept')
      /\ ClosedAreKept(life', connections', kept')
  <2>1. EntriesAreOpen(life', fd', owners', connections')
    <3>1. \A r \in Conns : life[r] \in Live \/ life'[r] \in Live => life'[r] = life[r]
      BY <1>1, <1>3 DEF Live, Sockets
    <3>2. QED BY <1>1, <3>1, SameEntries DEF IInv, Objects, References, RefTypes, refs
  <2>2. QED
    BY <1>1, <1>2, <1>3, <2>1, UserAssumption
       DEF IInv, Objects, References, RefTypes, ClientRefIsOpen, GuardedAreKept,
           ClosedAreKept, refs, Sockets
<1>6. backlog' \in Seq(Conns) /\ Waiting(life', backlog', owners')
  <2>1. /\ Len(backlog') = Len(backlog) + 1 /\ Len(backlog) \in Nat
        /\ backlog' \in Seq(Conns)
        /\ \A i \in 1..Len(backlog) : backlog'[i] = backlog[i] /\ backlog[i] \in Conns
        /\ backlog'[Len(backlog) + 1] = c
    BY <1>1, <1>2
  <2>2. \A i \in 1..Len(backlog') : i \in 1..Len(backlog) \/ i = Len(backlog) + 1
    BY <2>1
  <2>3. \A i \in 1..Len(backlog) : life[backlog[i]] = "waiting" /\ backlog[i] # c
    BY <1>1 DEF IInv, Objects, Waiting
  <2>4. \A i \in 1..Len(backlog') : life'[backlog'[i]] = "waiting"
    BY <1>3, <2>1, <2>2, <2>3 DEF Sockets
  <2>5. \A i, j \in 1..Len(backlog') : i # j => backlog'[i] # backlog'[j]
    BY <2>1, <2>2, <2>3 DEF IInv, Objects, Waiting
  <2>6. QED BY <1>1, <2>1, <2>4, <2>5 DEF Waiting
<1>7. LoopTypes' /\ GuardedAreSafe'
  BY <1>1, <1>6 DEF IInv, LoopTypes, GuardedAreSafe, loop
<1>8. InUse(life', answer', stage', active', current', todo')
  BY <1>1, <1>3 DEF IInv, Objects, InUse, ListedAreUsable, CurrentIsUsable, Had, Live, loop
<1>9. ReadyAreOpen(life', ready')
  BY <1>1, <1>3, ConnsAssumption DEF IInv, Objects, ReadyAreOpen, Live
<1>10. Accepted(life', answer')
  BY <1>1, <1>2, <1>3 DEF IInv, Objects, Accepted, Sockets
<1>11. DescriptorsAreTheirs'
  <2>1. Lost' = {}
    BY <1>1, <1>3 DEF Lost, Live
  <2>2. QED BY <2>1 DEF DescriptorsAreTheirs
<1>12. QED BY <1>4, <1>5, <1>6, <1>7, <1>8, <1>9, <1>10, <1>11 DEF IInv, Objects

-----------------------------------------------------------------------------
(* Operations that give up references.                                     *)

(* A guarded connection is kept as long as it lives, or stays in an entry  *)
(* that was missed.                                                        *)
LEMMA GuardedLiveAreKept ==
  ASSUME IInv
  PROVE  \A s \in Guarded : life[s] \in Live =>
           s \in kept \/ (life[s] = "CLOSED" /\ s \in Range(connections))
  BY UserAssumption
     DEF IInv, Objects, References, GuardedAreKept, ClosedAreKept, Live

(* UserDrops: a guarded connection is dropped where no channel is in use.  *)
LEMMA UserDropsKeeps ==
  ASSUME IInv, Lost = {}, NEW s \in Sockets, UserDrops(s)
  PROVE  IInv'
<1>1. /\ s \in Guarded => stage = "functors" /\ life[s] = "CLOSED"
      /\ kept' = kept \ {s} /\ UNCHANGED <<connections, connection>>
      /\ Settle(life, fd, table, ready)
      /\ UNCHANGED <<peers, events, client, owners, loop>>
  BY DEF UserDrops
<1> USE DEF IInv, Objects
<1>2. References(life, fd, owners', connections', connection', kept')
  BY <1>1 DEF References, RefTypes, EntriesAreOpen, ClientRefIsOpen, GuardedAreKept
<1>3. /\ Table(life, fd, table, sock', attempt', owners')
      /\ backlog' \in Seq(Conns) /\ Waiting(life, backlog', owners')
      /\ InUse(life, answer', stage', active', current', todo')
      /\ Accepted(life, answer')
  BY <1>1 DEF client, peers, loop, LoopTypes
<1>4. ASSUME NEW g \in Guarded, g \in DOMAIN active' \/ g = current', life[g] \in Live
      PROVE  g \in kept' \cup Range(connections')
  <2>1. g \in kept \cup Range(connections')
    BY <1>1, <1>4, GuardedLiveAreKept
  <2>2. stage # "functors"
    BY <1>1, <1>4, NothingInUse, UserAssumption, ConnsAssumption DEF loop, None
  <2>3. QED BY <1>1, <2>1, <2>2
<1>5. \A r \in ready \cap Sockets : life[r] # "failed"
  BY DEF ReadyAreOpen, Live
<1>6. Objects' /\ ready' \subseteq ready /\ Lost' = {}
  <2>1. NumbersStand(life, fd, table)
    BY LostMeansNumbers
  <2>2. QED BY <1>1, <1>2, <1>3, <1>4, <1>5, <2>1, SettleKeepsObjects
<1>7. LoopTypes' /\ GuardedAreSafe'
  BY <1>1, <1>6 DEF LoopTypes, GuardedAreSafe, peers, loop
<1>8. QED BY <1>6, <1>7 DEF DescriptorsAreTheirs

(* The callbacks of handleEvent() are invoked on a channel that is there.  *)
LEMMA CallbackFacts ==
  ASSUME IInv, NEW name, Callback(name)
  PROVE  /\ current \in Sockets /\ stage = "channels"
         /\ life[current] # "destroyed"
         /\ todo' = todo \ {name} /\ name \in todo
         /\ UNCHANGED <<backlog, answer, fin, rst, client, owners, active, current>>
  BY DEF Callback, IInv, LoopTypes

(* What is left to invoke stays usable.                                    *)
LEMMA FewerCallbacks ==
  ASSUME NEW L, NEW an, NEW ac, NEW cu, NEW td, NEW td2,
         td2 \subseteq td, InUse(L, an, "channels", ac, cu, td)
  PROVE  /\ InUse(L, an, "channels", ac, cu, td2)
         /\ InUse(L, an, "crashed", ac, cu, td2)
  BY DEF InUse, CurrentIsUsable

(* handleClose(): whoever owned the connection refers to it no longer; a   *)
(* guarded one finds its owner.                                            *)
LEMMA HandleCloseKeeps ==
  ASSUME IInv, Lost = {}, NEW name \in {"close", "read"}, Callback(name),
         HandleClose(current), UNCHANGED input
  PROVE  IInv'
<1> DEFINE s == current
           L == [life EXCEPT ![s] = "CLOSED"]
<1>1. /\ s \in Sockets /\ stage = "channels" /\ life[s] \in Live
      /\ todo' \subseteq todo
      /\ UNCHANGED <<backlog, answer, fin, rst, client, owners, active, current>>
  BY CallbackFacts DEF IInv, Objects, InUse, CurrentIsUsable, Had, Live
<1>2. CASE life[s] = "CLOSED"
  <2>1. UNCHANGED <<object, refs, stage, dangling>>
    BY <1>2 DEF HandleClose
  <2>2. InUse(life', answer', stage', active', current', todo')
    BY <1>1, <2>1, FewerCallbacks DEF IInv, Objects, object
  <2>3. LoopTypes' /\ GuardedAreSafe'
    BY <1>1, <2>1 DEF IInv, LoopTypes, GuardedAreSafe, object
  <2>4. /\ Waiting(life', backlog', owners') /\ ReadyAreOpen(life', ready')
        /\ Accepted(life', answer')
    BY <1>1, <2>1 DEF IInv, Objects, object
  <2>5. QED BY <1>1, <2>1, <2>2, <2>3, <2>4, SameObjects DEF object
<1>3. CASE life[s] # "CLOSED"
  <2> DEFINE R == IF ReadyAfterUpdate(s \in ready, Mask(s), DisableAll)
                  THEN ready \cup {s} ELSE ready
  <2>1. /\ life[s] = "CONNECTED"
        /\ events' = [events EXCEPT ![s] = DisableAll]
        /\ Settle(L, fd, table, R)
        /\ kept' = kept
        /\ stage' \in {stage, "crashed"}
    BY <1>1, <1>3 DEF HandleClose, Live, refs
  <2>2. /\ s \in Conns /\ "server" \in owners =>
             /\ connections' = Restrict(connections, DOMAIN connections \ {fd[s] % FD_WORD})
             /\ UNCHANGED <<connection, dangling>>
        /\ s \notin Conns /\ "client" \in owners =>
             /\ connection' = None /\ UNCHANGED <<connections, dangling>>
        /\ (s \in Conns /\ "server" \notin owners) \/ (s \notin Conns /\ "client" \notin owners)
             => UNCHANGED <<connections, connection>> /\ dangling' = dangling \cup {s}
    BY <1>3 DEF HandleClose, Owner, RemoveConnection, RemoveClientConnection, refs
  <2>3. R \subseteq ready \cup {s}
    OBVIOUS
  <2> HIDE DEF R
  <2>4. /\ life \in [Sockets -> Lives] /\ L \in [Sockets -> Lives]
        /\ fd[s] \in Fds /\ table[fd[s]] = s
        /\ \A r \in Sockets : L[r] = IF r = s THEN "CLOSED" ELSE life[r]
    BY <1>1, LostMeansNumbers
       DEF IInv, Objects, Table, TableTypes, Lives, NumbersStand
  <2> HIDE DEF L
  <2>5. Table(L, fd, table, sock', attempt', owners')
    <3> USE <1>1, <2>1, <2>4 DEF client
    <3> USE DEF IInv, Objects, Table
    <3>1. TableTypes(L, fd, table, sock', attempt')
      BY DEF TableTypes, Live
    <3>2. NumbersHaveHolders(L, fd, table, sock', attempt')
      BY DEF TableTypes, NumbersHaveHolders, Live
    <3>3. PendingIsLast(L, fd, table, sock', attempt', owners')
      BY DEF PendingIsLast
    <3>4. NeverShared(L, fd, table, sock', attempt')
      BY DEF NeverShared, Sockets, Had, Live
    <3>5. KindsOfSockets(L, attempt')
      BY DEF KindsOfSockets, Sockets
    <3>6. QED BY <3>1, <3>2, <3>3, <3>4, <3>5
  <2>6. References(L, fd, owners', connections', connection', kept')
    <3> USE DEF IInv, Objects, References
    <3>2. RefTypes(connections', connection', kept')
      BY <2>1, <2>2 DEF RefTypes, Restrict
    <3>3. ClientRefIsOpen(L, owners', connection')
      BY <1>1, <2>2, <2>4, ConnsAssumption DEF ClientRefIsOpen, RefTypes, Sockets, None
    <3>4. EntriesAreOpen(L, fd, owners', connections')
      <4>1. CASE s \in Conns /\ "server" \in owners
        <5> DEFINE e == fd[s] % FD_WORD
        <5>1. /\ DOMAIN connections' = DOMAIN connections \ {e}
              /\ \A d \in DOMAIN connections' : connections'[d] = connections[d]
          BY <2>2, <4>1 DEF Restrict
        <5>2. fd[s] \in Nat /\ e < FD_WORD /\ (fd[s] < FD_WORD => e = fd[s])
          BY <2>4, NumbersAreNaturals
        <5> HIDE DEF e
        <5>3. /\ DOMAIN connections \subseteq Nat
              /\ \A d \in DOMAIN connections :
                   connections[d] \in Sockets /\ fd[connections[d]] = d
          BY FdAssumption DEF EntriesAreOpen, RefTypes, Sockets
        <5>4. ASSUME NEW d \in DOMAIN connections'
              PROVE  /\ L[connections'[d]] \in Live /\ fd[connections'[d]] = d
                     /\ L[connections'[d]] = "CLOSED" => d >= FD_WORD
          <6>1. CASE connections[d] = s
            BY <2>4, <5>1, <5>2, <5>3, <6>1, FdAssumption DEF Live
          <6>2. CASE connections[d] # s
            BY <2>4, <5>1, <5>3, <6>2 DEF EntriesAreOpen
          <6>3. QED BY <6>1, <6>2
        <5>5. ASSUME MissedIn(L, connections') = {}, NEW c \in Conns, L[c] = "CONNECTED"
              PROVE  fd[c] \in DOMAIN connections' /\ connections'[fd[c]] = c
          <6>1. \A d \in DOMAIN connections : d >= FD_WORD => d \in DOMAIN connections'
            BY <5>1, <5>2, <5>3, FdAssumption
          <6>2. MissedIn(life, connections) = {}
            BY <2>4, <5>1, <5>3, <5>5, <6>1 DEF MissedIn
          <6>3. /\ fd[s] \in DOMAIN connections /\ connections[fd[s]] = s
                /\ fd[c] \in DOMAIN connections /\ connections[fd[c]] = c /\ c # s
            BY <2>1, <2>4, <4>1, <5>5, <6>2 DEF EntriesAreOpen, Sockets
          <6>4. fd[s] < FD_WORD
            <7> SUFFICES ASSUME fd[s] >= FD_WORD PROVE FALSE
              BY <5>2, FdAssumption
            <7>1. fd[s] \in DOMAIN connections' /\ connections'[fd[s]] = s
              BY <5>1, <6>1, <6>3
            <7>2. fd[s] \in MissedIn(L, connections')
              BY <1>1, <2>4, <7>1 DEF MissedIn
            <7>3. QED BY <5>5, <7>2
          <6>5. fd[c] # e
            BY <5>2, <6>3, <6>4
          <6>6. QED BY <5>1, <6>3, <6>5
        <5>6. QED BY <1>1, <4>1, <5>4, <5>5 DEF EntriesAreOpen
      <4>2. CASE s \in Conns /\ "server" \notin owners
        BY <1>1, <2>2, <4>2 DEF EntriesAreOpen
      <4>3. CASE s \notin Conns
        <5>1. \A c \in Conns : L[c] = life[c]
          BY <1>1, <2>4, <4>3 DEF Sockets
        <5>2. QED BY <1>1, <2>2, <4>3, <5>1, SameEntries DEF RefTypes
      <4>4. QED BY <4>1, <4>2, <4>3
    <3>5. GuardedAreKept(L, owners', kept')
      BY <1>1, <2>1, <2>4, UserAssumption DEF GuardedAreKept
    <3>6. QED BY <3>2, <3>3, <3>4, <3>5
  <2>7. backlog' \in Seq(Conns) /\ Waiting(L, backlog', owners')
    BY <1>1, <2>1, <2>4 DEF IInv, Objects, LoopTypes, Waiting, Sockets
  <2>8. InUse(L, answer', stage', active', current', todo')
    <3>1. InUse(L, answer, "channels", active, current, todo)
      BY <1>1, <2>1, <2>4
         DEF IInv, Objects, InUse, ListedAreUsable, CurrentIsUsable, Had, Live
    <3>2. QED BY <1>1, <2>1, <3>1, FewerCallbacks
  <2>9. \A g \in Guarded : L[g] \in Live => g \in kept' \cup Range(connections')
    <3> SUFFICES ASSUME NEW g \in Guarded, L[g] \in Live, g \notin kept
                 PROVE  g \in Range(connections')
      BY <2>1
    <3>1. g \in Sockets /\ life[g] \in Live
      BY <1>1, <2>4, UserAssumption
    <3>2. life[g] = "CLOSED" /\ g \in Range(connections)
      BY <3>1, GuardedLiveAreKept
    <3>3. PICK d \in DOMAIN connections : connections[d] = g
      BY <3>2 DEF Range
    <3>4. d >= FD_WORD /\ d \in Nat
      BY <3>2, <3>3, FdAssumption
         DEF IInv, Objects, References, RefTypes, EntriesAreOpen
    <3>5. d # fd[s] % FD_WORD
      <4> DEFINE e == fd[s] % FD_WORD
      <4>1. e < FD_WORD
        BY <2>4, NumbersAreNaturals
      <4> HIDE DEF e
      <4> SUFFICES d # e
        BY DEF e
      <4>2. QED BY <3>4, <4>1, FdAssumption
    <3>6. d \in DOMAIN connections' /\ connections'[d] = g
      BY <2>2, <3>3, <3>5 DEF Restrict
    <3>7. QED BY <3>6 DEF Range
  <2>10. \A r \in R \cap Sockets : L[r] # "failed"
    BY <2>3, <2>4 DEF IInv, Objects, ReadyAreOpen, Live
  <2>11. Accepted(L, answer')
    BY <1>1, <2>4 DEF IInv, Objects, Accepted, Sockets, Had
  <2>12. NumbersStand(L, fd, table)
    BY <1>1, <2>4, LostMeansNumbers DEF NumbersStand
  <2>13. Objects' /\ ready' \subseteq R /\ Lost' = {}
    BY <2>1, <2>5, <2>6, <2>7, <2>8, <2>9, <2>10, <2>11, <2>12, SettleKeepsObjects
  <2>14. events' \in [Sockets -> {NONE_EVENT, READ_EVENT, WRITE_EVENT}]
    BY <2>1 DEF IInv, LoopTypes, DisableAll
  <2>15. LoopTypes'
    BY <1>1, <2>1, <2>2, <2>3, <2>7, <2>13, <2>14 DEF IInv, LoopTypes
  <2>16. GuardedAreSafe'
    BY <1>1, <2>1, <2>2
       DEF IInv, Objects, References, GuardedAreKept, GuardedAreSafe, Sockets
  <2>17. QED BY <2>13, <2>15, <2>16 DEF IInv, DescriptorsAreTheirs
<1>4. QED BY <1>2, <1>3

(* The close callback of a connection ...                                  *)
LEMMA CloseEventKeeps == IInv /\ Lost = {} /\ CloseEvent => IInv'
  BY HandleCloseKeeps DEF CloseEvent

(* ... and its read callback, which closes at the end of the input.        *)
LEMMA ReadEventKeeps == IInv /\ Lost = {} /\ ReadEvent => IInv'
<1> SUFFICES ASSUME IInv, Lost = {}, ReadEvent PROVE IInv'
  OBVIOUS
<1>1. CASE HandleClose(current) /\ UNCHANGED input
  BY <1>1, HandleCloseKeeps DEF ReadEvent
<1>2. CASE UNCHANGED <<object, refs, stage, dangling>> /\ input' \subseteq input
  <2>1. /\ stage = "channels" /\ todo' \subseteq todo
        /\ UNCHANGED <<backlog, answer, fin, rst, client, owners, active, current>>
    BY CallbackFacts DEF ReadEvent
  <2>2. InUse(life', answer', stage', active', current', todo')
    BY <1>2, <2>1, FewerCallbacks DEF IInv, Objects, object
  <2>3. LoopTypes' /\ GuardedAreSafe'
    BY <1>2, <2>1 DEF IInv, LoopTypes, GuardedAreSafe, object
  <2>4. /\ Waiting(life', backlog', owners') /\ ReadyAreOpen(life', ready')
        /\ Accepted(life', answer')
    BY <1>2, <2>1 DEF IInv, Objects, object
  <2>5. QED BY <1>2, <2>1, <2>2, <2>3, <2>4, SameObjects DEF object
<1>3. QED BY <1>1, <1>2 DEF ReadEvent

-----------------------------------------------------------------------------
(* Operations that make a connection.                                      *)

(* A descriptor that is free is nobody's.                                  *)
LEMMA FreeFdFacts ==
  ASSUME IInv, Lost = {}, NewFd # NoFd
  PROVE  /\ NewFd \in Fds /\ table[NewFd] = None
         /\ \A s \in Sockets : fd[s] # NewFd
<1>1. NewFd \in Fds /\ table[NewFd] = None
  BY NewFdIsFree
<1>2. ASSUME NEW s \in Sockets, fd[s] = NewFd PROVE FALSE
  <2>1. life[s] \in Live
    BY <1>1, <1>2 DEF IInv, Objects, Table, TableTypes, NoFd
  <2>2. table[NewFd] = s
    BY <1>2, <2>1, LostMeansNumbers DEF NumbersStand
  <2>3. QED BY <1>1, <2>2, ConnsAssumption DEF None
<1>3. QED BY <1>1, <1>2

(* accept() returns a descriptor of which nobody knows, and the connection *)
(* is entered under it.                                                    *)
LEMMA EnterConnectionKeeps ==
  ASSUME IInv, Lost = {}, stage = "channels", current = None,
         backlog # << >>, NewFd # NoFd, EnterConnection,
         active' = Remaining(Acceptor),
         UNCHANGED <<answer, input, fin, rst, client, owners, stage, current, todo, dangling>>
  PROVE  IInv'
<1> DEFINE c == Head(backlog)
           d == NewFd
           L == [life EXCEPT ![c] = "CONNECTED"]
           F == [fd EXCEPT ![c] = d]
           T == [table EXCEPT ![d] = c]
           R == IF ReadyAfterUpdate(FALSE, Mask(c), READ_EVENT)
                THEN ready \cup {c} ELSE ready \ {c}
<1>1. /\ backlog' = Tail(backlog) /\ connection' = connection
      /\ DOMAIN connections' = DOMAIN connections \cup {d}
      /\ \A e \in DOMAIN connections' : connections'[e] = IF e = d THEN c ELSE connections[e]
      /\ events' = [events EXCEPT ![c] = EnableReading(NONE_EVENT)]
      /\ kept' = kept \cup ({c} \cap (Guarded \cup Loose))
      /\ Settle(L, F, T, R)
  BY Zenon DEF EnterConnection, ConnectEstablished
<1>2. R \subseteq ready \cup {c}
  OBVIOUS
<1> HIDE DEF R
<1>3. /\ d \in Fds /\ table[d] = None /\ \A s \in Sockets : fd[s] # d
  BY FreeFdFacts
<1>4. /\ c \in Conns /\ life[c] = "waiting" /\ "server" \in owners
      /\ backlog' \in Seq(Conns)
      /\ \A i \in 1..Len(backlog') :
           life[backlog'[i]] = "waiting" /\ backlog'[i] # c /\ backlog'[i] \in Conns
      /\ \A i, j \in 1..Len(backlog') : i # j => backlog'[i] # backlog'[j]
  <2>1. /\ Len(backlog) \in Nat /\ Len(backlog) # 0 /\ c = backlog[1]
        /\ Len(backlog') = Len(backlog) - 1 /\ backlog' \in Seq(Conns)
        /\ \A i \in 1..Len(backlog') : backlog'[i] = backlog[i + 1]
    BY <1>1 DEF IInv, LoopTypes
  <2>2. \A i \in 1..Len(backlog') : i + 1 \in 1..Len(backlog) /\ i + 1 # 1
    BY <2>1
  <2>3. 1 \in 1..Len(backlog)
    BY <2>1
  <2>4. /\ c \in Conns /\ life[c] = "waiting" /\ "server" \in owners
    BY <2>1, <2>3 DEF IInv, LoopTypes, Objects, Waiting
  <2>5. \A i \in 1..Len(backlog') :
          life[backlog'[i]] = "waiting" /\ backlog'[i] # c /\ backlog'[i] \in Conns
    BY <2>1, <2>2, <2>3 DEF IInv, LoopTypes, Objects, Waiting
  <2>6. \A i, j \in 1..Len(backlog') : i # j => backlog'[i] # backlog'[j]
    BY <2>1, <2>2 DEF IInv, LoopTypes, Objects, Waiting
  <2>7. QED BY <2>1, <2>4, <2>5, <2>6
<1> HIDE DEF c, d
<1>5. /\ c \in Sockets /\ c \notin Attempts /\ c # None
      /\ life \in [Sockets -> Lives] /\ L \in [Sockets -> Lives]
      /\ fd[c] = NoFd
      /\ \A s \in Sockets : /\ L[s] = IF s = c THEN "CONNECTED" ELSE life[s]
                            /\ F[s] = IF s = c THEN d ELSE fd[s]
      /\ \A e \in Fds : T[e] = IF e = d THEN c ELSE table[e]
  BY <1>3, <1>4, ConnsAssumption
     DEF IInv, Objects, Table, TableTypes, Lives, Live, Sockets, None
<1>6. TableTypes(L, F, T, sock', attempt')
  BY <1>3, <1>5 DEF IInv, Objects, Table, TableTypes, Live, client, NoFd
<1> HIDE DEF L, F, T
<1>7. Table(L, F, T, sock', attempt', owners')
  <2> USE <1>3, <1>4, <1>5 DEF client
  <2> USE DEF IInv, Objects, Table
  <2>1. NumbersHaveHolders(L, F, T, sock', attempt')
    <3> SUFFICES ASSUME NEW e \in Fds, T[e] # None
                 PROVE  \/ L[T[e]] \in Live /\ F[T[e]] = e
                        \/ L[T[e]] \in {"connecting", "failed"} /\ e = sock /\ T[e] = attempt
      BY DEF NumbersHaveHolders
    <3>1. CASE e = d
      BY <3>1 DEF Live
    <3>2. CASE e # d
      BY <3>2 DEF NumbersHaveHolders, TableTypes, Live
    <3>3. QED BY <3>1, <3>2
  <2>2. PendingIsLast(L, F, T, sock', attempt', owners')
    BY ConnsAssumption DEF PendingIsLast, None
  <2>3. NeverShared(L, F, T, sock', attempt')
    BY ConnsAssumption DEF NeverShared, Sockets, None, TableTypes
  <2>4. KindsOfSockets(L, attempt')
    BY DEF KindsOfSockets, Sockets
  <2>5. QED BY <1>6, <2>1, <2>2, <2>3, <2>4
<1>8. d \notin DOMAIN connections
  BY <1>3 DEF IInv, Objects, References, RefTypes, EntriesAreOpen, Sockets
<1>9. References(L, F, owners', connections', connection', kept')
  <2> USE <1>1, <1>3, <1>4, <1>5, <1>8
  <2> USE DEF IInv, Objects, References
  <2>1. RefTypes(connections', connection', kept')
    BY DEF RefTypes
  <2>2. EntriesAreOpen(L, F, owners', connections')
    <3>1. ASSUME NEW e \in DOMAIN connections'
          PROVE  /\ L[connections'[e]] \in Live /\ F[connections'[e]] = e
                 /\ L[connections'[e]] = "CLOSED" => e >= FD_WORD
      <4>1. CASE e = d
        BY <4>1 DEF Live
      <4>2. CASE e # d
        <5>1. e \in DOMAIN connections /\ connections'[e] = connections[e]
          BY <4>2
        <5>2. /\ connections[e] \in Sockets /\ connections[e] # c
              /\ life[connections[e]] \in Live /\ fd[connections[e]] = e
              /\ life[connections[e]] = "CLOSED" => e >= FD_WORD
          BY <5>1 DEF EntriesAreOpen, RefTypes, Sockets, Live
        <5>3. QED BY <5>1, <5>2
      <4>3. QED BY <4>1, <4>2
    <3>2. MissedIn(life, connections) \subseteq MissedIn(L, connections')
      <4>1. \A e \in DOMAIN connections : e \in DOMAIN connections' /\ e # d
                                          /\ connections[e] \in Sockets
        BY DEF RefTypes, Sockets
      <4>2. QED BY <4>1 DEF MissedIn
    <3>3. ASSUME MissedIn(L, connections') = {}, NEW r \in Conns, L[r] = "CONNECTED"
          PROVE  F[r] \in DOMAIN connections' /\ connections'[F[r]] = r
      <4>1. CASE r = c
        BY <4>1
      <4>2. CASE r # c
        BY <3>2, <3>3, <4>2 DEF EntriesAreOpen, Sockets
      <4>3. QED BY <4>1, <4>2
    <3>4. QED BY <3>1, <3>3 DEF EntriesAreOpen
  <2>3. ClientRefIsOpen(L, owners', connection')
    BY DEF ClientRefIsOpen, RefTypes, Sockets
  <2>4. GuardedAreKept(L, owners', kept')
    BY UserAssumption DEF GuardedAreKept
  <2>5. QED BY <2>1, <2>2, <2>3, <2>4
<1>10. backlog' \in Seq(Conns) /\ Waiting(L, backlog', owners')
  BY <1>4, <1>5 DEF Waiting, Sockets
<1>11. InUse(L, answer', stage', active', current', todo')
  <2>1. \A s \in DOMAIN active' : s \in DOMAIN active /\ active'[s] = active[s]
    BY RemainingAreListed
  <2>2. ListedAreUsable(L, answer, active', None)
    BY <1>4, <1>5, <2>1, ConnsAssumption
       DEF IInv, Objects, InUse, ListedAreUsable, Had, Live, None
  <2>3. CurrentIsUsable(L, answer, None, todo)
    BY ConnsAssumption DEF CurrentIsUsable, None
  <2>4. QED BY <2>2, <2>3 DEF InUse
<1>12. \A g \in Guarded : L[g] \in Live => g \in kept' \cup Range(connections')
  <2>1. Range(connections) \subseteq Range(connections')
    BY <1>1, <1>8 DEF Range
  <2>2. QED BY <1>1, <1>5, <2>1, GuardedLiveAreKept, UserAssumption
<1>13. \A r \in R \cap Sockets : L[r] # "failed"
  BY <1>2, <1>5 DEF IInv, Objects, ReadyAreOpen, Live
<1>14. Accepted(L, answer')
  BY <1>5 DEF IInv, Objects, Accepted, Sockets
<1>15. NumbersStand(L, F, T)
  BY <1>3, <1>5, LostMeansNumbers DEF NumbersStand, IInv, Objects, Table, TableTypes
<1>16. Objects' /\ ready' \subseteq R /\ Lost' = {}
  BY <1>1, <1>7, <1>9, <1>10, <1>11, <1>12, <1>13, <1>14, <1>15, SettleKeepsObjects
<1>17. events' \in [Sockets -> {NONE_EVENT, READ_EVENT, WRITE_EVENT}]
  BY <1>1, <1>5 DEF IInv, LoopTypes, EnableReading, NONE_EVENT
<1>18. LoopTypes' /\ GuardedAreSafe'
  <2>1. ready' \subseteq Sockets \cup {Acceptor}
    BY <1>2, <1>5, <1>16 DEF IInv, LoopTypes
  <2>2. DOMAIN active' \subseteq Sockets \cup {Acceptor}
    <3>1. DOMAIN active' \subseteq DOMAIN active
      BY RemainingAreListed
    <3>2. QED BY <3>1 DEF IInv, LoopTypes
  <2>3. QED BY <1>4, <1>17, <2>1, <2>2 DEF IInv, LoopTypes, GuardedAreSafe
<1>19. QED BY <1>16, <1>18 DEF IInv, DescriptorsAreTheirs

(* handleNewConnection() leaves alone what it cannot accept.               *)
LEMMA AcceptEventKeeps == IInv /\ Lost = {} /\ AcceptEvent => IInv'
<1> SUFFICES ASSUME IInv, Lost = {}, AcceptEvent PROVE IInv'
  OBVIOUS
<1>1. /\ stage = "channels" /\ current = None /\ active' = Remaining(Acceptor)
      /\ UNCHANGED <<answer, input, fin, rst, client, owners, stage, current, todo,
                     dangling>>
  BY DEF AcceptEvent
<1>2. CASE UNCHANGED <<backlog, object, refs>>
  <2>1. InUse(life', answer', stage', active', current', todo')
    BY <1>1, <1>2, RemainingAreListed
       DEF IInv, Objects, InUse, ListedAreUsable, CurrentIsUsable, object
  <2>2. LoopTypes' /\ GuardedAreSafe'
    <3>1. DOMAIN active' \subseteq DOMAIN active
      BY <1>1, RemainingAreListed
    <3>2. QED BY <1>1, <1>2, <3>1 DEF IInv, LoopTypes, GuardedAreSafe, object
  <2>3. /\ Waiting(life', backlog', owners') /\ ReadyAreOpen(life', ready')
        /\ Accepted(life', answer')
    BY <1>1, <1>2 DEF IInv, Objects, object
  <2>4. QED BY <1>1, <1>2, <2>1, <2>2, <2>3, SameObjects DEF object
<1>3. CASE backlog # << >> /\ NewFd # NoFd /\ EnterConnection
  BY <1>1, <1>3, EnterConnectionKeeps
<1>4. QED BY <1>2, <1>3 DEF AcceptEvent, HandleNewConnection

(* L and F are L0 and fd when a has become a connection that holds d.      *)
BecomesConnection(a, d, L0, L, F) ==
  \A s \in Sockets : /\ L[s] = IF s = a THEN "CONNECTED" ELSE L0[s]
                     /\ F[s] = IF s = a THEN d ELSE fd[s]

(* newConnection(): whatever else was done to the objects, the connection  *)
(* is referred to, and kept if the user guards it.                         *)
LEMMA NewConnectionKeeps ==
  ASSUME IInv, Lost = {}, NEW a \in Attempts, NEW d \in Fds, NEW T, NEW L0,
         NEW L, NEW F,
         BecomesConnection(a, d, L0, L, F),
         NEW R, R \subseteq ready \cup {a}, Settle(L, F, T, R),
         connection' = a, UNCHANGED connections,
         kept' = kept \cup ({a} \cap (Guarded \cup Loose)),
         life[a] \notin Had, "client" \in owners,
         \A r \in Sockets : r # a =>
           L0[r] = life[r] \/ (life[r] = "connecting" /\ L0[r] = "failed"),
         Table(L, F, T, sock', attempt', owners'),
         UNCHANGED <<owners, backlog>>,
         \A b \in Attempts : b # a => answer'[b] = answer[b],
         answer'[a] = "accepted",
         InUse(L, answer', stage', active', current', todo'),
         \A r \in ready \cap Sockets : r # a /\ L0[r] = "failed" => r \notin Range(T)
  PROVE  /\ Objects' /\ ready' \subseteq Sockets \cup {Acceptor}
         /\ kept' \subseteq Sockets
         /\ \A s \in Sockets : life[s] \in Had => life'[s] \in Had
         /\ NumbersStand(L, F, T) => Lost' = {}
<1>1. a \in Sockets /\ a \notin Conns /\ a # None
  BY ConnsAssumption DEF Sockets, None
<1>2. \A s \in Sockets : /\ L[s] = IF s = a THEN "CONNECTED" ELSE L0[s]
                         /\ F[s] = IF s = a THEN d ELSE fd[s]
  BY DEF BecomesConnection
<1>3. References(L, F, owners', connections', connection', kept')
  <2> USE <1>1, <1>2
  <2> USE DEF IInv, Objects, References
  <2>1. RefTypes(connections', connection', kept')
    BY DEF RefTypes
  <2>2. EntriesAreOpen(L, F, owners', connections')
    <3>1. \A c \in Conns : L[c] \in Live \/ life[c] \in Live
                            => L[c] = life[c] /\ F[c] = fd[c]
      BY DEF Sockets, Live
    <3>2. QED BY <3>1, SameEntries DEF RefTypes
  <2>3. ClientRefIsOpen(L, owners', connection')
    BY DEF ClientRefIsOpen
  <2>4. GuardedAreKept(L, owners', kept')
    BY UserAssumption DEF GuardedAreKept
  <2>5. QED BY <2>1, <2>2, <2>3, <2>4
<1>4. backlog' \in Seq(Conns) /\ Waiting(L, backlog', owners')
  BY <1>1, <1>2 DEF IInv, Objects, LoopTypes, Waiting, Sockets
<1>5. \A g \in Guarded : L[g] \in Live => g \in kept' \cup Range(connections')
  BY <1>1, <1>2, GuardedLiveAreKept, UserAssumption DEF Live
<1>6. \A r \in R \cap Sockets : L[r] = "failed" => r \notin Range(T)
  BY <1>1, <1>2
<1>7. Accepted(L, answer')
  BY <1>1, <1>2 DEF IInv, Objects, Accepted, Sockets, Had, Live
<1>8. /\ Objects' /\ ready' \subseteq R
      /\ \A s \in Sockets : L[s] \in Had => life'[s] \in Had
      /\ NumbersStand(L, F, T) => Lost' = {}
  BY <1>3, <1>4, <1>5, <1>6, <1>7, SettleKeepsObjects
<1>9. \A s \in Sockets : life[s] \in Had => L[s] \in Had
  BY <1>1, <1>2 DEF Had, Live
<1>10. kept' \subseteq Sockets /\ ready' \subseteq Sockets \cup {Acceptor}
  BY <1>1, <1>2, <1>8 DEF IInv, LoopTypes, Objects, References, RefTypes
<1>11. \A s \in Sockets : life[s] \in Had => life'[s] \in Had
  BY <1>8, <1>9, Zenon
<1>12. QED BY <1>8, <1>10, <1>11

(* handleWrite(): an attempt without an error was accepted, and its number *)
(* is now held by two.                                                     *)
LEMMA WriteEventKeeps == IInv /\ Lost = {} /\ WriteEvent => IInv'
<1> SUFFICES ASSUME IInv, Lost = {}, WriteEvent PROVE IInv'
  OBVIOUS
<1> DEFINE a == current
<1>1. /\ a \in Sockets /\ stage = "channels"
      /\ todo' \subseteq todo /\ "write" \in todo
      /\ UNCHANGED <<backlog, answer, fin, rst, client, owners, active, current,
                     input, stage, dangling>>
  BY CallbackFacts DEF WriteEvent
<1>2. life[a] = "connecting" /\ answer[a] # "none"
  BY <1>1 DEF IInv, Objects, InUse, CurrentIsUsable
<1>3. /\ a = attempt /\ a \in Attempts /\ a \notin Conns /\ "client" \in owners
      /\ sock \in Fds /\ table[sock] = a /\ \A r \in Sockets : fd[r] # sock
      /\ life \in [Sockets -> Lives] /\ fd \in [Sockets -> {NoFd} \cup Fds]
  BY <1>1, <1>2, ConnsAssumption DEF IInv, Objects, Table, TableTypes, PendingIsLast
<1>4. \A s \in Sockets : life[s] = "connecting" => s = a
  BY <1>3 DEF IInv, Objects, Table, PendingIsLast
<1>5. CASE HandshakeError(a) # 0
  <2>1. /\ life' = [life EXCEPT ![a] = "failed"]
        /\ events' = [events EXCEPT ![a] = DisableAll]
        /\ ready' = ready \ {a}
        /\ UNCHANGED <<table, fd, refs>>
    BY <1>5 DEF WriteEvent, HandleWrite
  <2>2. \A s \in Sockets : life'[s] = IF s = a THEN "failed" ELSE life[s]
    BY <1>3, <2>1
  <2>3. Table(life', fd', table', sock', attempt', owners')
    <3> USE <1>1, <1>2, <1>3, <2>1, <2>2 DEF client
    <3> USE DEF IInv, Objects, Table
    <3>1. TableTypes(life', fd', table', sock', attempt')
      BY DEF TableTypes, Lives, Live
    <3>2. NumbersHaveHolders(life', fd', table', sock', attempt')
      BY DEF TableTypes, NumbersHaveHolders, Live
    <3>3. PendingIsLast(life', fd', table', sock', attempt', owners')
      BY DEF PendingIsLast
    <3>4. NeverShared(life', fd', table', sock', attempt')
      BY DEF NeverShared, Sockets
    <3>5. KindsOfSockets(life', attempt')
      BY DEF KindsOfSockets, Sockets
    <3>6. QED BY <3>1, <3>2, <3>3, <3>4, <3>5
  <2>4. /\ References(life', fd', owners', connections', connection', kept')
        /\ ClosedAreKept(life', connections', kept')
    <3>1. \A c \in Conns : life'[c] = life[c]
      BY <1>3, <2>2 DEF Sockets
    <3>2. EntriesAreOpen(life', fd', owners', connections')
      BY <1>1, <2>1, <3>1, SameEntries DEF IInv, Objects, References, RefTypes, refs
    <3>3. QED
      BY <1>1, <1>2, <2>1, <2>2, <3>2, UserAssumption
         DEF IInv, Objects, References, RefTypes, ClientRefIsOpen, GuardedAreKept,
             ClosedAreKept, refs, Sockets
  <2>5. Waiting(life', backlog', owners')
    BY <1>1, <1>2, <2>2 DEF IInv, Objects, LoopTypes, Waiting, Sockets
  <2>6. InUse(life', answer', stage', active', current', todo')
    <3>1. ListedAreUsable(life', answer', active', current')
      BY <1>1, <2>2 DEF IInv, Objects, InUse, ListedAreUsable
    <3>2. todo' = {}
      BY <1>1, <1>2, CallbackFacts
         DEF WriteEvent, IInv, LoopTypes, Objects, InUse, CurrentIsUsable, Had, Live
    <3>3. CurrentIsUsable(life', answer', current', todo')
      BY <1>1, <1>3, <2>2, <3>2 DEF CurrentIsUsable
    <3>4. QED BY <1>1, <3>1, <3>3 DEF InUse
  <2>7. ReadyAreOpen(life', ready') /\ Accepted(life', answer')
    BY <1>1, <1>2, <2>1, <2>2 DEF IInv, Objects, ReadyAreOpen, Accepted, Had, Live, Sockets
  <2>8. events' \in [Sockets -> {NONE_EVENT, READ_EVENT, WRITE_EVENT}]
    BY <2>1 DEF IInv, LoopTypes, DisableAll
  <2>9. LoopTypes' /\ GuardedAreSafe'
    BY <1>1, <2>1, <2>8 DEF IInv, LoopTypes, GuardedAreSafe
  <2>10. DescriptorsAreTheirs'
    <3>1. Lost' = {}
      BY <1>2, <2>1, <2>2 DEF Lost, Live
    <3>2. QED BY <3>1 DEF DescriptorsAreTheirs
  <2>11. QED BY <2>3, <2>4, <2>5, <2>6, <2>7, <2>9, <2>10 DEF IInv, Objects
<1>6. CASE HandshakeError(a) = 0
  <2> DEFINE L == [life EXCEPT ![a] = "CONNECTED"]
             F == [fd EXCEPT ![a] = sock]
  <2>1. NewConnection(a, sock, table, life)
    BY <1>6 DEF WriteEvent, HandleWrite
  <2>2. answer[a] = "accepted"
    BY <1>2, <1>3, <1>6 DEF HandshakeError, EEXIST, SoError, IInv, LoopTypes
  <2>3. \A s \in Sockets : /\ L[s] = IF s = a THEN "CONNECTED" ELSE life[s]
                           /\ F[s] = IF s = a THEN sock ELSE fd[s]
    BY <1>3
  <2>4. TableTypes(L, F, table, sock', attempt')
    BY <1>1, <1>3, <2>3, NumbersAreNaturals
       DEF IInv, Objects, Table, TableTypes, Lives, Live, client
  <2> HIDE DEF L, F
  <2>5. Table(L, F, table, sock', attempt', owners')
    <3> USE <1>1, <1>2, <1>3, <1>4, <2>3 DEF client
    <3> USE DEF IInv, Objects, Table
    <3>1. NumbersHaveHolders(L, F, table, sock', attempt')
      BY DEF TableTypes, NumbersHaveHolders, Live
    <3>2. PendingIsLast(L, F, table, sock', attempt', owners')
      BY DEF PendingIsLast
    <3>3. NeverShared(L, F, table, sock', attempt')
      BY DEF NeverShared, Had, Live
    <3>4. KindsOfSockets(L, attempt')
      BY DEF KindsOfSockets, Sockets
    <3>5. QED BY <2>4, <3>1, <3>2, <3>3, <3>4
  <2>6. InUse(L, answer', stage', active', current', todo')
    <3>1. ListedAreUsable(L, answer', active', current')
      BY <1>1, <2>3 DEF IInv, Objects, InUse, ListedAreUsable
    <3>2. "write" \notin todo'
      BY CallbackFacts DEF WriteEvent
    <3>3. CurrentIsUsable(L, answer', current', todo')
      BY <1>1, <2>3, <3>2 DEF CurrentIsUsable, Had, Live
    <3>4. QED BY <1>1, <3>1, <3>3 DEF InUse
  <2>7. NumbersStand(L, F, table)
    BY <1>3, <2>3, LostMeansNumbers DEF NumbersStand
  <2>8. \A r \in ready \cap Sockets : life[r] # "failed"
    BY DEF IInv, Objects, ReadyAreOpen, Live
  <2>9. /\ Objects' /\ ready' \subseteq Sockets \cup {Acceptor}
        /\ events' \in [Sockets -> {NONE_EVENT, READ_EVENT, WRITE_EVENT}]
        /\ Lost' = {}
    <3>1. L = [life EXCEPT ![a] = "CONNECTED"] /\ F = [fd EXCEPT ![a] = sock]
      BY DEF L, F
    <3>2. life[a] \notin Had
      BY <1>2 DEF Had, Live
    <3> DEFINE R == IF ReadyAfterUpdate(FALSE, Mask(a), READ_EVENT)
                    THEN ready \cup {a} ELSE ready \ {a}
    <3>3. /\ connection' = a /\ UNCHANGED connections
          /\ events' = [events EXCEPT ![a] = EnableReading(NONE_EVENT)]
          /\ kept' = kept \cup ({a} \cap (Guarded \cup Loose))
          /\ Settle(L, F, table, R)
      BY <2>1, <3>1 DEF NewConnection, ConnectEstablished
    <3>4. R \subseteq ready \cup {a}
      OBVIOUS
    <3>5. BecomesConnection(a, sock, life, L, F)
      BY <2>3 DEF BecomesConnection
    <3>6. events' \in [Sockets -> {NONE_EVENT, READ_EVENT, WRITE_EVENT}]
      BY <1>1, <3>3 DEF IInv, LoopTypes, EnableReading, NONE_EVENT
    <3> HIDE DEF R
    <3>7. QED
      BY <1>1, <1>3, <2>2, <3>5, <3>6, <2>5, <2>6, <2>7, <2>8, <3>2, <3>3, <3>4,
         NewConnectionKeeps
  <2>10. LoopTypes' /\ GuardedAreSafe'
    BY <1>1, <2>9 DEF IInv, LoopTypes, GuardedAreSafe
  <2>11. QED BY <2>9, <2>10 DEF IInv, DescriptorsAreTheirs
<1>7. QED BY <1>5, <1>6

(* The references stay right if none of them, and no connection, changes.  *)
LEMMA SameReferences ==
  ASSUME IInv, NEW L, UNCHANGED <<owners, refs>>,
         \A s \in Sockets : L[s] = life[s] \/ (life[s] \notin Live /\ L[s] \notin Live)
  PROVE  References(L, fd, owners', connections', connection', kept')
<1> USE DEF IInv, Objects, References, refs
<1>1. RefTypes(connections', connection', kept')
  OBVIOUS
<1>2. EntriesAreOpen(L, fd, owners', connections')
  BY SameEntries DEF RefTypes, Sockets, Live
<1>3. ClientRefIsOpen(L, owners', connection')
  BY DEF ClientRefIsOpen, RefTypes, Sockets, Live
<1>4. GuardedAreKept(L, owners', kept')
  BY UserAssumption DEF GuardedAreKept, Live
<1>5. QED BY <1>1, <1>2, <1>3, <1>4

(* others and left are life and table when connect() has got its new       *)
(* socket and closed the former sock_'s number. If both are one number, of *)
(* a connection that has ended, the new socket is closed at once.          *)
ConnectCreates(others, left) ==
  LET a       == attempt + 1
      created == IF NewFd = NoFd THEN table ELSE [table EXCEPT ![NewFd] = a]
  IN  /\ left = Closed(created, sock)
      /\ others = [s \in Sockets |-> IF life[s] = "connecting" THEN "failed" ELSE life[s]]

(* What holds of the objects before the outcome is known.                  *)
LEMMA ConnectFacts ==
  ASSUME IInv, Lost = {}, NEW others, NEW left, ConnectCreates(others, left),
         attempt < MaxAttempts, NEW a, a = attempt + 1
  PROVE  /\ a \in Attempts /\ a \in Sockets /\ a \notin Conns /\ a # None
         /\ life[a] = "unborn" /\ a \notin ready
         /\ others \in [Sockets -> Lives]
         /\ \A s \in Sockets :
              others[s] = IF life[s] = "connecting" THEN "failed" ELSE life[s]
         /\ left \in [Fds -> Sockets \cup {None}]
         /\ \A d \in Fds :
              left[d] = IF d = sock THEN None ELSE IF d = NewFd THEN a ELSE table[d]
         /\ \A d \in Fds : table[d] # a
         /\ a \in Range(left) =>
              NewFd \in Fds /\ left[NewFd] = a /\ \A s \in Sockets : fd[s] # NewFd
<1>1. /\ attempt \in Nat /\ MaxAttempts \in Nat
      /\ table \in [Fds -> Sockets \cup {None}] /\ life \in [Sockets -> Lives]
  BY ConnsAssumption DEF IInv, Objects, Table, TableTypes
<1>2. a \in Attempts /\ a \in Sockets /\ a \notin Conns /\ a # None /\ a > attempt
  BY <1>1, ConnsAssumption DEF Attempts, Sockets, None
<1>3. life[a] = "unborn"
  BY <1>2 DEF IInv, Objects, Table, KindsOfSockets
<1>4. a \notin ready
  BY <1>2, <1>3 DEF IInv, Objects, ReadyAreOpen, Live
<1>5. \A d \in Fds : table[d] # a
  BY <1>2, <1>3 DEF IInv, Objects, Table, NumbersHaveHolders, Live
<1>6. /\ others \in [Sockets -> Lives]
      /\ \A s \in Sockets :
           others[s] = IF life[s] = "connecting" THEN "failed" ELSE life[s]
  BY <1>1 DEF ConnectCreates, Lives
<1>7. /\ left \in [Fds -> Sockets \cup {None}]
      /\ \A d \in Fds :
           left[d] = IF d = sock THEN None ELSE IF d = NewFd THEN a ELSE table[d]
  <2>1. NewFd = NoFd => NewFd \notin Fds
    BY NumbersAreNaturals
  <2>2. CASE NewFd = NoFd
    BY <1>1, <2>1, <2>2 DEF ConnectCreates, Closed
  <2>3. CASE NewFd # NoFd
    BY <1>1, <1>2, <2>3, NewFdIsFree DEF ConnectCreates, Closed
  <2>4. QED BY <2>2, <2>3
<1>8. ASSUME a \in Range(left)
      PROVE  NewFd \in Fds /\ left[NewFd] = a /\ \A s \in Sockets : fd[s] # NewFd
  <2>1. PICK d \in Fds : left[d] = a
    BY <1>7, <1>8 DEF Range
  <2>2. d = NewFd
    BY <1>2, <1>5, <1>7, <2>1
  <2>3. NewFd # NoFd
    BY <2>2, NumbersAreNaturals
  <2>4. QED BY <2>1, <2>2, <2>3, FreeFdFacts
<1>9. QED BY <1>2, <1>3, <1>4, <1>5, <1>6, <1>7, <1>8

(* Each outcome gives the new attempt a state, and a connection a number.  *)
LEMMA ConnectTable ==
  ASSUME IInv, Lost = {}, NEW others, NEW left, ConnectCreates(others, left),
         attempt < MaxAttempts, "client" \in owners, NEW a, a = attempt + 1,
         NEW L, NEW F, L \in [Sockets -> Lives],
         \A s \in Sockets : s # a => L[s] = others[s] /\ F[s] = fd[s],
         \/ L[a] = "CONNECTED" /\ F[a] = NewFd /\ a \in Range(left)
         \/ L[a] = "connecting" /\ F[a] = fd[a] /\ a \in Range(left)
         \/ L[a] = "failed" /\ F[a] = fd[a],
         F \in [Sockets -> {NoFd} \cup Fds],
         UNCHANGED owners
  PROVE  /\ Table(L, F, left, NewFd, a, owners')
         /\ NumbersStand(L, F, left) \/ \E b \in Attempts : life[b] \in Had
<1> USE ConnectFacts, NewFdIsFree
<1> USE DEF IInv, Objects, Table
<1>1. TableTypes(L, F, left, NewFd, a)
  BY DEF TableTypes, Live, Attempts, NoFd
<1>2. NumbersHaveHolders(L, F, left, NewFd, a)
  <2> SUFFICES ASSUME NEW d \in Fds, left[d] # None
               PROVE  \/ L[left[d]] \in Live /\ F[left[d]] = d
                      \/ L[left[d]] \in {"connecting", "failed"} /\ d = NewFd /\ left[d] = a
    BY DEF NumbersHaveHolders
  <2>1. CASE d = NewFd
    BY <2>1 DEF Live
  <2>2. CASE d # NewFd
    <3>1. d # sock /\ left[d] = table[d] /\ table[d] # a /\ table[d] \in Sockets
      BY <2>2 DEF TableTypes
    <3>2. life[table[d]] \in Live /\ fd[table[d]] = d
      BY <3>1 DEF NumbersHaveHolders
    <3>3. QED BY <3>1, <3>2 DEF Live
  <2>3. QED BY <2>1, <2>2
<1>3. PendingIsLast(L, F, left, NewFd, a, owners')
  <2> SUFFICES ASSUME NEW s \in Sockets, L[s] = "connecting"
               PROVE  s = a /\ NewFd \in Fds /\ left[NewFd] = a
                      /\ \A r \in Sockets : F[r] # NewFd
    BY DEF PendingIsLast
  <2>1. s = a
    OBVIOUS
  <2>2. QED BY <2>1
<1>4. NeverShared(L, F, left, NewFd, a)
  <2> SUFFICES ASSUME \A b \in Attempts : L[b] \notin Had, NewFd # NoFd
               PROVE  left[NewFd] = a /\ \A r \in Sockets : F[r] # NewFd
    BY DEF NeverShared
  <2>1. \A b \in Attempts : life[b] \notin Had
    BY DEF Had, Live, Sockets
  <2>2. sock = NoFd \/ (table[sock] = attempt /\ attempt \in Attempts)
    BY <2>1 DEF NeverShared
  <2>3. NewFd # sock
    BY <2>2, ConnsAssumption DEF None, Sockets
  <2>4. \A r \in Sockets : F[r] = fd[r]
    BY DEF Had, Live
  <2>5. NewFd \in Fds /\ \A r \in Sockets : fd[r] # NewFd
    BY FreeFdFacts
  <2>6. left[NewFd] = a
    BY <2>3, <2>5
  <2>7. QED BY <2>4, <2>5, <2>6
<1>5. KindsOfSockets(L, a)
  <2> SUFFICES ASSUME NEW s \in Sockets
               PROVE  /\ s \in Attempts => (s > a => L[s] = "unborn") /\ L[s] # "waiting"
                      /\ s \in Conns => L[s] \notin {"connecting", "failed"}
    BY DEF KindsOfSockets, Sockets
  <2>1. CASE s = a
    BY <2>1 DEF Attempts
  <2>2. CASE s # a
    <3>1. L[s] = IF life[s] = "connecting" THEN "failed" ELSE life[s]
      BY <2>2
    <3>2. s \in Attempts /\ s > a => s > attempt
      BY DEF TableTypes, Attempts
    <3>3. life[s] = "connecting" => s = attempt /\ s \in Attempts /\ s \notin Conns
      BY ConnsAssumption DEF PendingIsLast
    <3>4. attempt \in Nat
      BY DEF TableTypes
    <3>5. QED BY <3>1, <3>2, <3>3, <3>4 DEF KindsOfSockets
  <2>3. QED BY <2>1, <2>2
<1>6. ASSUME \A b \in Attempts : life[b] \notin Had
      PROVE  NumbersStand(L, F, left)
  <2> SUFFICES ASSUME NEW s \in Sockets, L[s] \in Live PROVE left[F[s]] = s
    BY DEF NumbersStand
  <2>1. CASE s = a
    BY <2>1 DEF Live
  <2>2. CASE s # a
    <3>1. life[s] \in Live /\ F[s] = fd[s] /\ fd[s] \in Fds
      BY <2>2 DEF Live, TableTypes
    <3>2. table[fd[s]] = s
      BY <3>1, LostMeansNumbers DEF NumbersStand
    <3>3. fd[s] # sock
      <4>1. sock = NoFd \/ \A r \in Sockets : fd[r] # sock
        BY <1>6, Zenon DEF NeverShared
      <4>2. QED BY <3>1, <4>1, NumbersAreNaturals
    <3>4. fd[s] # NewFd
      BY <3>1, <3>2, ConnsAssumption, NumbersAreNaturals DEF None
    <3>5. QED BY <3>1, <3>2, <3>3, <3>4
  <2>3. QED BY <2>1, <2>2
<1>7. QED BY <1>1, <1>2, <1>3, <1>4, <1>5, <1>6

(* A step after which a number may have lost its socket: then sock_'s was  *)
(* shared, and its attempt is over.                                        *)
LEMMA SharedIsGivenUp ==
  ASSUME NEW b \in Attempts, life'[b] \in Had,
         b < attempt' \/ "client" \notin owners'
  PROVE  DescriptorsAreTheirs'
  BY DEF DescriptorsAreTheirs, SharedNumberGivenUp, HadConnection, Had

(* An attempt that had a connection is not a later one than the last.      *)
LEMMA HadIsPast ==
  ASSUME IInv, NEW b \in Attempts, life[b] \in Had
  PROVE  b < attempt + 1
<1>1. attempt \in Nat /\ b \in Nat
  BY DEF IInv, Objects, Table, TableTypes, Attempts
<1>2. ~ (b > attempt)
  BY DEF IInv, Objects, Table, KindsOfSockets, Had, Live
<1>3. QED BY <1>1, <1>2

(* connect(), whatever comes of it.                                        *)
LEMMA ConnectKeeps == IInv /\ Lost = {} /\ Connect => IInv'
<1> SUFFICES ASSUME IInv, Lost = {}, Connect PROVE IInv'
  OBVIOUS
<1> DEFINE a       == attempt + 1
           created == IF NewFd = NoFd THEN table ELSE [table EXCEPT ![NewFd] = a]
           left    == Closed(created, sock)
           others  == [s \in Sockets |-> IF life[s] = "connecting" THEN "failed" ELSE life[s]]
<1>1. /\ stage = "functors" /\ "client" \in owners /\ attempt < MaxAttempts
      /\ attempt' = a /\ sock' = NewFd
      /\ UNCHANGED <<backlog, input, fin, rst, owners, loop>>
      /\ \/ /\ a \in Range(left)
            /\ answer' = [answer EXCEPT ![a] = "accepted"]
            /\ NewConnection(a, NewFd, left, others)
         \/ /\ a \in Range(left)
            /\ events' = [events EXCEPT ![a] = HandshakeEvent]
            /\ UNCHANGED <<answer, refs>>
            /\ Settle([others EXCEPT ![a] = "connecting"], fd, left, ready)
         \/ /\ answer' = IF a \in Range(left) THEN [answer EXCEPT ![a] = "refused"]
                         ELSE answer
            /\ UNCHANGED <<events, refs>>
            /\ Settle([others EXCEPT ![a] = "failed"], fd, left, ready)
  BY DEF Connect
<1>2. ConnectCreates(others, left)
  BY DEF ConnectCreates
<1> HIDE DEF left, others
<1>3. /\ a \in Attempts /\ a \in Sockets /\ a \notin Conns /\ a # None
      /\ life[a] = "unborn" /\ a \notin ready
      /\ others \in [Sockets -> Lives]
      /\ \A s \in Sockets :
           others[s] = IF life[s] = "connecting" THEN "failed" ELSE life[s]
      /\ left \in [Fds -> Sockets \cup {None}]
      /\ \A d \in Fds :
           left[d] = IF d = sock THEN None ELSE IF d = NewFd THEN a ELSE table[d]
      /\ \A d \in Fds : table[d] # a
      /\ a \in Range(left) =>
           NewFd \in Fds /\ left[NewFd] = a /\ \A s \in Sockets : fd[s] # NewFd
  <2> HIDE DEF a
  <2>1. a = attempt + 1
    BY DEF a
  <2>2. QED BY <1>1, <1>2, <2>1, ConnectFacts
<1> HIDE DEF a
<1>4. /\ DOMAIN active = {} /\ current = None /\ DOMAIN active' = {} /\ current' = None
      /\ stage' = "functors"
  BY <1>1, NothingInUse DEF loop
<1>5. \A L : InUse(L, answer', stage', active', current', todo')
  BY <1>4, ConnsAssumption DEF InUse, ListedAreUsable, CurrentIsUsable, None
<1>6. \A r \in ready \cap Sockets : r # a /\ others[r] = "failed" => r \notin Range(left)
  <2> SUFFICES ASSUME NEW r \in Sockets, r \in ready, r # a, others[r] = "failed",
                      NEW d \in Fds, left[d] = r
               PROVE  FALSE
    BY <1>3 DEF Range
  <2>1. life[r] = "connecting"
    BY <1>3 DEF IInv, Objects, ReadyAreOpen, Live
  <2>2. r # None
    BY ConnsAssumption DEF None
  <2>3. d # sock /\ table[d] = r
    BY <1>3, <2>2
  <2>4. QED BY <2>1, <2>2, <2>3 DEF IInv, Objects, Table, NumbersHaveHolders, Live
<1>7. /\ backlog' \in Seq(Conns) /\ GuardedAreSafe'
      /\ \A L : (\A c \in Conns : L[c] = others[c]) => Waiting(L, backlog', owners')
  BY <1>1, <1>3 DEF IInv, Objects, LoopTypes, Waiting, GuardedAreSafe, loop, Sockets
<1>8. fd \in [Sockets -> {NoFd} \cup Fds] /\ fd[a] = NoFd
  BY <1>3 DEF IInv, Objects, Table, TableTypes, Live
<1>9. \A b \in Attempts : life[b] \in Had => others[b] = life[b] /\ b # a
  BY <1>3 DEF Had, Live, Sockets
<1>10. /\ answer' \in [Attempts -> {"none", "accepted", "refused"}]
       /\ \A b \in Attempts : b # a => answer'[b] = answer[b]
  BY <1>1, <1>3 DEF IInv, LoopTypes
<1>11. ASSUME Objects', ready' \subseteq Sockets \cup {Acceptor},
              events' \in [Sockets -> {NONE_EVENT, READ_EVENT, WRITE_EVENT}],
              \A s \in Attempts : life[s] \in Had => life'[s] \in Had,
              (\E b \in Attempts : life[b] \in Had) \/ Lost' = {}
       PROVE  IInv'
  <2>1. LoopTypes'
    BY <1>1, <1>7, <1>10, <1>11 DEF IInv, LoopTypes, loop
  <2>2. DescriptorsAreTheirs'
    <3>1. CASE Lost' = {}
      BY <3>1 DEF DescriptorsAreTheirs
    <3>2. CASE \E b \in Attempts : life[b] \in Had
      <4>1. PICK b \in Attempts : life[b] \in Had
        BY <3>2
      <4>2. life'[b] \in Had /\ b < attempt'
        BY <1>1, <1>11, <4>1, HadIsPast DEF a
      <4>3. QED BY <4>2, SharedIsGivenUp
    <3>3. QED BY <1>11, <3>1, <3>2
  <2>3. QED BY <1>7, <1>11, <2>1, <2>2 DEF IInv
<1>12. ASSUME NEW L, L \in [Sockets -> Lives],
              \A s \in Sockets : s # a => L[s] = others[s],
              \/ L[a] = "connecting" /\ a \in Range(left)
              \/ L[a] = "failed" /\ a \notin ready,
              UNCHANGED refs, Settle(L, fd, left, ready),
              events' \in [Sockets -> {NONE_EVENT, READ_EVENT, WRITE_EVENT}]
       PROVE  IInv'
  <2>1. /\ Table(L, fd, left, sock', attempt', owners')
        /\ NumbersStand(L, fd, left) \/ \E b \in Attempts : life[b] \in Had
    <3>1. a = attempt + 1
      BY DEF a
    <3>2. QED BY <1>1, <1>2, <1>8, <1>12, <3>1, ConnectTable
  <2>2. References(L, fd, owners', connections', connection', kept')
    BY <1>1, <1>3, <1>12, SameReferences DEF Live
  <2>3. Accepted(L, answer')
    BY <1>3, <1>10, <1>12 DEF IInv, Objects, Accepted, Had, Live, Sockets
  <2>4. \A g \in Guarded : g \in DOMAIN active' \/ g = current' => FALSE
    BY <1>4, UserAssumption, ConnsAssumption DEF None
  <2>5. \A r \in ready \cap Sockets : L[r] = "failed" => r \notin Range(left)
    BY <1>3, <1>6, <1>12
  <2>6. Waiting(L, backlog', owners')
    BY <1>3, <1>7, <1>12 DEF Sockets
  <2>7. /\ Objects' /\ ready' \subseteq ready
        /\ \A s \in Sockets : L[s] \in Had => life'[s] \in Had
        /\ NumbersStand(L, fd, left) => Lost' = {}
    BY <1>5, <1>7, <1>12, <2>1, <2>2, <2>3, <2>4, <2>5, <2>6, SettleKeepsObjects
  <2>8. \A s \in Attempts : life[s] \in Had => life'[s] \in Had
    BY <1>9, <1>12, <2>7 DEF Sockets
  <2>9. ready' \subseteq Sockets \cup {Acceptor}
    BY <2>7 DEF IInv, LoopTypes
  <2>10. QED BY <1>11, <1>12, <2>1, <2>7, <2>8, <2>9
<1>13. CASE /\ a \in Range(left)
            /\ answer' = [answer EXCEPT ![a] = "accepted"]
            /\ NewConnection(a, NewFd, left, others)
  <2> DEFINE L == [others EXCEPT ![a] = "CONNECTED"]
             F == [fd EXCEPT ![a] = NewFd]
  <2>1. /\ L \in [Sockets -> Lives] /\ F \in [Sockets -> {NoFd} \cup Fds]
        /\ \A s \in Sockets : s # a => L[s] = others[s] /\ F[s] = fd[s]
        /\ L[a] = "CONNECTED" /\ F[a] = NewFd
    BY <1>3, <1>8, <1>13 DEF Lives
  <2>2. answer'[a] = "accepted"
    BY <1>3, <1>13 DEF IInv, LoopTypes
  <2> HIDE DEF L, F
  <2>3. /\ Table(L, F, left, sock', attempt', owners')
        /\ NumbersStand(L, F, left) \/ \E b \in Attempts : life[b] \in Had
    <3>1. a = attempt + 1
      BY DEF a
    <3>2. QED BY <1>1, <1>2, <1>13, <2>1, <3>1, ConnectTable
  <2>4. /\ Objects' /\ ready' \subseteq Sockets \cup {Acceptor}
        /\ events' \in [Sockets -> {NONE_EVENT, READ_EVENT, WRITE_EVENT}]
        /\ \A s \in Sockets : life[s] \in Had => life'[s] \in Had
        /\ NumbersStand(L, F, left) => Lost' = {}
    <3>1. NewFd \in Fds /\ life[a] \notin Had /\ "client" \in owners
      BY <1>1, <1>3, <1>13 DEF Had, Live
    <3>2. UNCHANGED <<owners, backlog>>
      BY <1>1
    <3>3. \A r \in Sockets : r # a =>
            others[r] = life[r] \/ (life[r] = "connecting" /\ others[r] = "failed")
      BY <1>3
    <3>4. InUse(L, answer', stage', active', current', todo')
      BY <1>5
    <3>5. L = [others EXCEPT ![a] = "CONNECTED"] /\ F = [fd EXCEPT ![a] = NewFd]
      BY DEF L, F
    <3> DEFINE R == IF ReadyAfterUpdate(FALSE, Mask(a), READ_EVENT)
                    THEN ready \cup {a} ELSE ready \ {a}
    <3>6. /\ connection' = a /\ UNCHANGED connections
          /\ events' = [events EXCEPT ![a] = EnableReading(NONE_EVENT)]
          /\ kept' = kept \cup ({a} \cap (Guarded \cup Loose))
          /\ Settle(L, F, left, R)
      BY <1>13, <3>5 DEF NewConnection, ConnectEstablished
    <3>7. R \subseteq ready \cup {a}
      OBVIOUS
    <3> HIDE DEF R
    <3>8. BecomesConnection(a, NewFd, others, L, F)
      BY <2>1 DEF BecomesConnection
    <3>9. events' \in [Sockets -> {NONE_EVENT, READ_EVENT, WRITE_EVENT}]
      BY <1>3, <3>6 DEF IInv, LoopTypes, EnableReading, NONE_EVENT
    <3>10. QED
      BY <1>3, <1>6, <1>10, <2>2, <2>3, <3>1, <3>2, <3>3, <3>4, <3>6, <3>7, <3>8,
         <3>9, NewConnectionKeeps
  <2>5. QED BY <1>11, <2>3, <2>4 DEF Sockets
<1>14. CASE /\ a \in Range(left)
            /\ events' = [events EXCEPT ![a] = HandshakeEvent]
            /\ UNCHANGED <<answer, refs>>
            /\ Settle([others EXCEPT ![a] = "connecting"], fd, left, ready)
  <2> DEFINE L == [others EXCEPT ![a] = "connecting"]
  <2>1. /\ L \in [Sockets -> Lives] /\ L[a] = "connecting"
        /\ \A s \in Sockets : s # a => L[s] = others[s]
    BY <1>3 DEF Lives
  <2>2. events' \in [Sockets -> {NONE_EVENT, READ_EVENT, WRITE_EVENT}]
    BY <1>3, <1>14
       DEF IInv, LoopTypes, HandshakeEvent, EnableWriting, NONE_EVENT
  <2>3. Settle(L, fd, left, ready)
    BY <1>14
  <2> HIDE DEF L
  <2>4. QED BY <1>12, <1>14, <2>1, <2>2, <2>3
<1>15. CASE /\ UNCHANGED <<events, refs>>
            /\ Settle([others EXCEPT ![a] = "failed"], fd, left, ready)
  <2> DEFINE L == [others EXCEPT ![a] = "failed"]
  <2>1. /\ L \in [Sockets -> Lives] /\ L[a] = "failed"
        /\ \A s \in Sockets : s # a => L[s] = others[s]
    BY <1>3 DEF Lives
  <2>2. events' \in [Sockets -> {NONE_EVENT, READ_EVENT, WRITE_EVENT}]
    BY <1>15 DEF IInv, LoopTypes
  <2>3. Settle(L, fd, left, ready)
    BY <1>15
  <2> HIDE DEF L
  <2>4. QED BY <1>3, <1>12, <1>15, <2>1, <2>2, <2>3
<1>16. QED BY <1>1, <1>13, <1>14, <1>15

(* ~TcpServer(): its entries go, and what waits in its listening socket;   *)
(* those the user guards are closed.                                       *)
LEMMA DestroyServerKeeps == IInv /\ Lost = {} /\ DestroyServer => IInv'
<1> SUFFICES ASSUME IInv, Lost = {}, DestroyServer PROVE IInv'
  OBVIOUS
<1> DEFINE L == [s \in Sockets |-> IF life[s] = "waiting" THEN "destroyed" ELSE life[s]]
<1>1. /\ stage = "functors" /\ owners' = owners \ {"server"}
      /\ \A s \in Conns \cap Guarded : life[s] # "CONNECTED"
      /\ connections' = << >> /\ backlog' = << >>
      /\ UNCHANGED <<connection, kept, answer, input, fin, rst, events, client, loop>>
      /\ Settle(L, fd, table, ready \ {Acceptor})
  BY DEF DestroyServer, UserMayEnd
<1>2. /\ DOMAIN active = {} /\ current = None /\ DOMAIN active' = {} /\ current' = None
      /\ stage' = "functors"
  BY <1>1, NothingInUse DEF loop
<1>3. /\ life \in [Sockets -> Lives] /\ L \in [Sockets -> Lives]
      /\ \A s \in Sockets : L[s] = IF life[s] = "waiting" THEN "destroyed" ELSE life[s]
      /\ \A a \in Attempts : L[a] = life[a]
  BY DEF IInv, Objects, Table, TableTypes, KindsOfSockets, Lives, Sockets
<1> HIDE DEF L
<1>4. Table(L, fd, table, sock', attempt', owners')
  <2> USE <1>1, <1>3 DEF client
  <2> USE DEF IInv, Objects, Table
  <2>1. TableTypes(L, fd, table, sock', attempt')
    BY DEF TableTypes, Live
  <2>2. NumbersHaveHolders(L, fd, table, sock', attempt')
    BY DEF TableTypes, NumbersHaveHolders, Live
  <2>3. PendingIsLast(L, fd, table, sock', attempt', owners')
    BY DEF PendingIsLast
  <2>4. NeverShared(L, fd, table, sock', attempt')
    BY DEF NeverShared
  <2>5. KindsOfSockets(L, attempt')
    BY DEF KindsOfSockets, Sockets
  <2>6. QED BY <2>1, <2>2, <2>3, <2>4, <2>5
<1>5. References(L, fd, owners', connections', connection', kept')
  <2> USE <1>1, <1>3
  <2> USE DEF IInv, Objects, References
  <2>1. DOMAIN connections' = {}
    OBVIOUS
  <2>2. RefTypes(connections', connection', kept')
    BY <2>1 DEF RefTypes
  <2>3. EntriesAreOpen(L, fd, owners', connections')
    BY <2>1 DEF EntriesAreOpen
  <2>4. ClientRefIsOpen(L, owners', connection')
    BY DEF ClientRefIsOpen, RefTypes, Sockets
  <2>5. GuardedAreKept(L, owners', kept')
    BY UserAssumption DEF GuardedAreKept
  <2>6. QED BY <2>2, <2>3, <2>4, <2>5
<1>6. backlog' \in Seq(Conns) /\ Waiting(L, backlog', owners')
  BY <1>1 DEF Waiting
<1>7. InUse(L, answer', stage', active', current', todo')
  BY <1>2, ConnsAssumption DEF InUse, ListedAreUsable, CurrentIsUsable, None
<1>8. \A g \in Guarded : g \in DOMAIN active' \/ g = current' => FALSE
  BY <1>2, UserAssumption, ConnsAssumption DEF None
<1>9. \A r \in (ready \ {Acceptor}) \cap Sockets : L[r] # "failed"
  BY <1>3 DEF IInv, Objects, ReadyAreOpen, Live
<1>10. Accepted(L, answer')
  BY <1>1, <1>3 DEF IInv, Objects, Accepted
<1>11. NumbersStand(L, fd, table)
  BY <1>3, LostMeansNumbers DEF NumbersStand, Live
<1>12. Objects' /\ ready' \subseteq ready /\ Lost' = {}
  <2>1. /\ Objects' /\ ready' \subseteq ready \ {Acceptor}
        /\ NumbersStand(L, fd, table) => Lost' = {}
    BY <1>1, <1>4, <1>5, <1>6, <1>7, <1>8, <1>9, <1>10, SettleKeepsObjects
  <2>2. QED BY <1>11, <2>1
<1>13. LoopTypes' /\ GuardedAreSafe'
  BY <1>1, <1>6, <1>12 DEF IInv, LoopTypes, GuardedAreSafe, loop
<1>14. QED BY <1>12, <1>13 DEF IInv, DescriptorsAreTheirs

(* ~TcpClient(): sock_ closes its number, which may be a connection's.     *)
LEMMA DestroyClientKeeps == IInv /\ Lost = {} /\ DestroyClient => IInv'
<1> SUFFICES ASSUME IInv, Lost = {}, DestroyClient PROVE IInv'
  OBVIOUS
<1> DEFINE L == [s \in Sockets |-> IF life[s] = "connecting" THEN "failed" ELSE life[s]]
           T == Closed(table, sock)
<1>1. /\ stage = "functors" /\ owners' = owners \ {"client"}
      /\ \A s \in Attempts \cap Guarded : life[s] # "CONNECTED"
      /\ connection' = None /\ sock' = NoFd
      /\ UNCHANGED <<connections, kept, attempt, peers, events, loop>>
      /\ Settle(L, fd, T, ready)
  BY DEF DestroyClient, UserMayEnd
<1>2. /\ DOMAIN active = {} /\ current = None /\ DOMAIN active' = {} /\ current' = None
      /\ stage' = "functors"
  BY <1>1, NothingInUse DEF loop
<1>3. /\ life \in [Sockets -> Lives] /\ L \in [Sockets -> Lives]
      /\ \A s \in Sockets : L[s] = IF life[s] = "connecting" THEN "failed" ELSE life[s]
      /\ T \in [Fds -> Sockets \cup {None}]
      /\ \A d \in Fds : T[d] = IF d = sock THEN None ELSE table[d]
  BY DEF IInv, Objects, Table, TableTypes, Lives, Closed
<1> HIDE DEF L, T
<1>4. Table(L, fd, T, sock', attempt', owners')
  <2> USE <1>1, <1>3
  <2> USE DEF IInv, Objects, Table
  <2>1. TableTypes(L, fd, T, sock', attempt')
    BY DEF TableTypes, Live
  <2>2. NumbersHaveHolders(L, fd, T, sock', attempt')
    <3> SUFFICES ASSUME NEW d \in Fds, T[d] # None
                 PROVE  L[T[d]] \in Live /\ fd[T[d]] = d
      BY DEF NumbersHaveHolders
    <3>1. d # sock /\ T[d] = table[d] /\ table[d] \in Sockets
      BY DEF TableTypes
    <3>2. life[table[d]] \in Live /\ fd[table[d]] = d
      BY <3>1 DEF NumbersHaveHolders
    <3>3. QED BY <3>1, <3>2 DEF Live
  <2>3. PendingIsLast(L, fd, T, sock', attempt', owners')
    BY DEF PendingIsLast
  <2>4. NeverShared(L, fd, T, sock', attempt')
    BY DEF NeverShared
  <2>5. KindsOfSockets(L, attempt')
    <3>1. \A s \in Sockets : life[s] = "connecting" => s = attempt /\ s \in Attempts
      BY DEF PendingIsLast
    <3>2. attempt \in Nat
      BY DEF TableTypes
    <3>3. \A a \in Attempts : (a > attempt => L[a] = "unborn") /\ L[a] # "waiting"
      BY <3>1, <3>2 DEF KindsOfSockets, Sockets, Attempts
    <3>4. \A c \in Conns : L[c] \notin {"connecting", "failed"}
      BY <3>1 DEF KindsOfSockets, Sockets
    <3>5. QED BY <3>3, <3>4 DEF KindsOfSockets
  <2>6. QED BY <2>1, <2>2, <2>3, <2>4, <2>5
<1>5. References(L, fd, owners', connections', connection', kept')
  <2> USE <1>1, <1>3
  <2> USE DEF IInv, Objects, References
  <2>1. RefTypes(connections', connection', kept')
    BY DEF RefTypes
  <2>2. EntriesAreOpen(L, fd, owners', connections')
    <3>1. \A c \in Conns : L[c] \in Live \/ life[c] \in Live => L[c] = life[c]
      BY DEF Sockets, Live
    <3>2. "server" \in owners <=> "server" \in owners'
      OBVIOUS
    <3>3. QED BY <3>1, <3>2, SameEntries DEF RefTypes
  <2>3. ClientRefIsOpen(L, owners', connection')
    BY DEF ClientRefIsOpen
  <2>4. GuardedAreKept(L, owners', kept')
    BY UserAssumption DEF GuardedAreKept
  <2>5. QED BY <2>1, <2>2, <2>3, <2>4
<1>6. backlog' \in Seq(Conns) /\ Waiting(L, backlog', owners')
  BY <1>1, <1>3 DEF IInv, Objects, LoopTypes, Waiting, peers, Sockets
<1>7. InUse(L, answer', stage', active', current', todo')
  BY <1>2, ConnsAssumption DEF InUse, ListedAreUsable, CurrentIsUsable, None
<1>8. \A g \in Guarded : g \in DOMAIN active' \/ g = current' => FALSE
  BY <1>2, UserAssumption, ConnsAssumption DEF None
<1>9. \A r \in ready \cap Sockets : L[r] = "failed" => r \notin Range(T)
  <2> SUFFICES ASSUME NEW r \in Sockets, r \in ready, L[r] = "failed",
                      NEW d \in Fds, T[d] = r
               PROVE  FALSE
    BY <1>3 DEF Range
  <2>1. life[r] = "connecting"
    BY <1>3 DEF IInv, Objects, ReadyAreOpen, Live
  <2>2. r # None
    BY ConnsAssumption DEF None
  <2>3. d # sock /\ table[d] = r
    BY <1>3, <2>2
  <2>4. QED BY <2>1, <2>2, <2>3 DEF IInv, Objects, Table, NumbersHaveHolders, Live
<1>10. Accepted(L, answer')
  BY <1>1, <1>3 DEF IInv, Objects, Accepted, Had, Live, Sockets, peers
<1>11. /\ Objects' /\ ready' \subseteq ready
       /\ \A s \in Sockets : L[s] \in Had => life'[s] \in Had
       /\ NumbersStand(L, fd, T) => Lost' = {}
  BY <1>1, <1>4, <1>5, <1>6, <1>7, <1>8, <1>9, <1>10, SettleKeepsObjects
<1>12. DescriptorsAreTheirs'
  <2>1. CASE \E b \in Attempts : life[b] \in Had
    <3>1. PICK b \in Attempts : life[b] \in Had
      BY <2>1
    <3>2. life'[b] \in Had /\ "client" \notin owners'
      BY <1>1, <1>3, <1>11, <3>1 DEF Had, Live, Sockets
    <3>3. QED BY <3>2, SharedIsGivenUp
  <2>2. CASE \A b \in Attempts : life[b] \notin Had
    <3> SUFFICES NumbersStand(L, fd, T)
      BY <1>11 DEF DescriptorsAreTheirs
    <3> SUFFICES ASSUME NEW s \in Sockets, L[s] \in Live PROVE T[fd[s]] = s
      BY DEF NumbersStand
    <3>1. life[s] \in Live /\ fd[s] \in Fds
      BY <1>3 DEF Live, IInv, Objects, Table, TableTypes
    <3>2. table[fd[s]] = s
      BY <3>1, LostMeansNumbers DEF NumbersStand
    <3>3. fd[s] # sock
      <4>1. sock = NoFd \/ \A r \in Sockets : fd[r] # sock
        BY <2>2 DEF IInv, Objects, Table, NeverShared
      <4>2. QED BY <3>1, <4>1, NumbersAreNaturals
    <3>4. QED BY <1>3, <3>1, <3>2, <3>3
  <2>3. QED BY <2>1, <2>2
<1>13. LoopTypes' /\ GuardedAreSafe'
  BY <1>1, <1>6, <1>11 DEF IInv, LoopTypes, GuardedAreSafe, loop, peers
<1>14. QED BY <1>11, <1>12, <1>13 DEF IInv

-----------------------------------------------------------------------------
(* The theorems.                                                           *)

(* At the start there are a server and a client, and nothing else.         *)
LEMMA InitHolds == Init => IInv
<1> SUFFICES ASSUME Init PROVE IInv
  OBVIOUS
<1> USE DEF Init
<1>1. MaxAttempts \in Nat /\ Acceptor \notin Sockets /\ 0 \in 0..MaxAttempts
  BY ConnsAssumption
<1>2. LoopTypes
  BY <1>1 DEF LoopTypes
<1>3. Table(life, fd, table, sock, attempt, owners)
  BY <1>1 DEF Table, TableTypes, NumbersHaveHolders, PendingIsLast, NeverShared,
              KindsOfSockets, Lives, Live, Sockets
<1>4. References(life, fd, owners, connections, connection, kept)
  BY UserAssumption DEF References, RefTypes, EntriesAreOpen, ClientRefIsOpen,
                        GuardedAreKept, Sockets
<1>5. ClosedAreKept(life, connections, kept) /\ Waiting(life, backlog, owners)
  BY DEF ClosedAreKept, Waiting
<1>6. InUse(life, answer, stage, active, current, todo)
  BY <1>1 DEF InUse, ListedAreUsable, CurrentIsUsable, None
<1>7. ReadyAreOpen(life, ready) /\ Accepted(life, answer)
  BY DEF ReadyAreOpen, Accepted, Had, Live, Sockets
<1>8. DescriptorsAreTheirs /\ GuardedAreSafe
  BY DEF DescriptorsAreTheirs, GuardedAreSafe, Lost, Live
<1>9. QED BY <1>2, <1>3, <1>4, <1>5, <1>6, <1>7, <1>8 DEF IInv, Objects

(* Every step of the loop, the peers and the user keeps it.                *)
LEMMA StepKeeps == IInv /\ [Next]_vars => IInv'
<1> SUFFICES ASSUME IInv, [Next]_vars PROVE IInv'
  OBVIOUS
<1>1. CASE Loop
  <2>1. Lost = {}
    BY <1>1 DEF Loop
  <2>2. CASE Poll \/ ChannelsDone \/ FunctorsDone
    BY <2>1, <2>2, PollKeeps, StageEndsKeep
  <2>3. CASE AcceptEvent
    BY <2>1, <2>3, AcceptEventKeeps
  <2>4. CASE \E s \in Sockets : BeginEvent(s)
    BY <2>1, <2>4, BeginEventKeeps
  <2>5. CASE CloseEvent \/ ReadEvent \/ WriteEvent
    BY <2>1, <2>5, CloseEventKeeps, ReadEventKeeps, WriteEventKeeps
  <2>6. CASE EventDone \/ UseAfterEnd
    BY <2>1, <2>6, EventEndsKeep
  <2>7. QED BY <1>1, <2>2, <2>3, <2>4, <2>5, <2>6 DEF Loop
<1>2. CASE Lost = {} /\ Peers
  <2>1. CASE \E c \in Conns : PeerConnects(c)
    BY <1>2, <2>1, PeerConnectsKeeps
  <2>2. CASE \E a \in Attempts : PeerAnswers(a)
    BY <1>2, <2>2, PeersOfSocketsKeep DEF Sockets
  <2>3. CASE \E s \in Sockets : PeerSends(s) \/ PeerLeaves(s)
    BY <1>2, <2>3, PeersOfSocketsKeep
  <2>4. QED BY <1>2, <2>1, <2>2, <2>3 DEF Peers
<1>3. CASE Lost = {} /\ User
  <2>1. CASE Connect
    BY <1>3, <2>1, ConnectKeeps
  <2>2. CASE DestroyServer
    BY <1>3, <2>2, DestroyServerKeeps
  <2>3. CASE DestroyClient
    BY <1>3, <2>3, DestroyClientKeeps
  <2>4. CASE \E s \in Sockets : UserDrops(s)
    BY <1>3, <2>4, UserDropsKeeps
  <2>5. QED BY <1>3, <2>1, <2>2, <2>3, <2>4 DEF User
<1>4. CASE UNCHANGED vars
  <2> USE <1>4 DEF vars, peers, object, client, refs, loop
  <2>1. LoopTypes'
    BY DEF IInv, LoopTypes
  <2>2. Objects'
    BY DEF IInv, Objects
  <2>3. DescriptorsAreTheirs'
    BY DEF IInv, DescriptorsAreTheirs, SharedNumberGivenUp, HadConnection, Lost
  <2>4. GuardedAreSafe'
    BY DEF IInv, GuardedAreSafe
  <2>5. QED BY <2>1, <2>2, <2>3, <2>4 DEF IInv
<1>5. QED BY <1>1, <1>2, <1>3, <1>4 DEF Next

(* What the other theorems follow from: the inductive invariant holds.     *)
LEMMA InvariantHolds == Spec => []IInv
  BY InitHolds, StepKeeps, PTL DEF Spec

(* Every variable keeps its type, whatever number of sockets, attempts and *)
(* descriptors there is.                                                   *)
THEOREM TypeCorrect == Spec => []TypeOK
<1>1. ASSUME IInv PROVE TypeOK
  <2>1. LoopTypes
    BY <1>1 DEF IInv
  <2>2. /\ TableTypes(life, fd, table, sock, attempt)
        /\ RefTypes(connections, connection, kept)
    BY <1>1 DEF IInv, Objects, Table, References
  <2>3. Range(connections) \subseteq Conns
    BY <2>2 DEF RefTypes, Range
  <2>4. QED BY <2>1, <2>2, <2>3 DEF TypeOK, LoopTypes, TableTypes, RefTypes, Lives
<1>2. IInv => TypeOK
  BY <1>1
<1>3. QED BY <1>2, InvariantHolds, PTL

(* TcpServer manages the life cycle of its connections: its map has        *)
(* exactly the open ones, each under the descriptor it owns, however often *)
(* a descriptor is used again, and whatever the numbers are, until one     *)
(* that is no uint16_t is closed. This says nothing of the time after a    *)
(* connection has lost its descriptor, where the model ends.               *)
THEOREM EntryPerOpenConnectionHolds == Spec => []EntryPerOpenConnection
<1>1. ASSUME IInv PROVE EntryPerOpenConnection
  <2> SUFFICES ASSUME "server" \in owners, Missed = {}
               PROVE  /\ \A d \in DOMAIN connections :
                           /\ life[connections[d]] = "CONNECTED"
                           /\ fd[connections[d]] = d
                      /\ \A c \in Conns : life[c] = "CONNECTED" =>
                           fd[c] \in DOMAIN connections /\ connections[fd[c]] = c
    BY DEF EntryPerOpenConnection
  <2>1. EntriesAreOpen(life, fd, owners, connections)
    BY <1>1 DEF IInv, Objects, References
  <2>2. MissedIn(life, connections) = {}
    BY DEF Missed, MissedIn
  <2>3. QED BY <2>1, <2>2 DEF EntriesAreOpen, MissedIn, Live
<1>2. IInv => EntryPerOpenConnection
  BY <1>1
<1>3. QED BY <1>2, InvariantHolds, PTL

(* A connection the user keeps until it is closed, drops in a functor, and *)
(* whose owner outlives it, is never used by the loop after its end.       *)
THEOREM GuardedAreSafeHolds == Spec => []GuardedAreSafe
<1>1. IInv => GuardedAreSafe
  BY DEF IInv
<1>2. QED BY <1>1, InvariantHolds, PTL

(* That TcpClient::sock_ and a connection's socket_ hold the same number   *)
(* costs somebody a descriptor only if, with a connection once made, the   *)
(* client is told to connect again or is destroyed.                        *)
THEOREM DescriptorsAreTheirsHolds == Spec => []DescriptorsAreTheirs
<1>1. IInv => DescriptorsAreTheirs
  BY DEF IInv
<1>2. QED BY <1>1, InvariantHolds, PTL

(* Every open number is that of a connection that is there, or sock_'s.    *)
THEOREM NoDescriptorLeaksHolds == Spec => []NoDescriptorLeaks
<1>1. ASSUME IInv PROVE NoDescriptorLeaks
  <2> SUFFICES ASSUME NEW d \in Fds, table[d] # None, d # sock
               PROVE  \E s \in Sockets : life[s] \in Live /\ fd[s] = d
    BY DEF NoDescriptorLeaks
  <2>1. life[table[d]] \in Live /\ fd[table[d]] = d
    BY <1>1 DEF IInv, Objects, Table, NumbersHaveHolders
  <2>2. table[d] \in Sockets
    BY <1>1 DEF IInv, Objects, Table, TableTypes
  <2>3. QED BY <2>1, <2>2
<1>2. IInv => NoDescriptorLeaks
  BY <1>1
<1>3. QED BY <1>2, InvariantHolds, PTL

(* Although handleWrite() reads errno and not SO_ERROR, no socket is taken *)
(* for a connection but one whose peer has accepted.                       *)
THEOREM ConnectionWasAcceptedHolds == Spec => []ConnectionWasAccepted
<1>1. IInv => ConnectionWasAccepted
  BY DEF IInv, Objects, Accepted, ConnectionWasAccepted, HadConnection, Had
<1>2. QED BY <1>1, InvariantHolds, PTL
=============================================================================
