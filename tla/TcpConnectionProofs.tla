------------------------- MODULE TcpConnectionProofs -------------------------
(***************************************************************************)
(* Proofs for TcpConnection, for any number of messages of any size, of    *)
(* other threads, and for any send buffer.                                 *)
(***************************************************************************)
EXTENDS TcpConnection, SequenceTheorems, TLAPS

(* A sequence is its first n elements followed by the others.              *)
LEMMA Split ==
  ASSUME NEW S, NEW s \in Seq(S), NEW n \in 0..Len(s)
  PROVE  /\ SubSeq(s, 1, n) \in Seq(S) /\ SubSeq(s, n + 1, Len(s)) \in Seq(S)
         /\ Len(SubSeq(s, 1, n)) = n
         /\ Len(SubSeq(s, n + 1, Len(s))) = Len(s) - n
         /\ s = SubSeq(s, 1, n) \o SubSeq(s, n + 1, Len(s))
<1>1. Len(s) \in Nat /\ \A i \in 1..Len(s) : s[i] \in S
  BY LenProperties
<1>2. SubSeq(s, 1, n) \in Seq(S) /\ Len(SubSeq(s, 1, n)) = n
  BY <1>1, SubSeqProperties
<1>3. /\ SubSeq(s, n + 1, Len(s)) \in Seq(S)
      /\ Len(SubSeq(s, n + 1, Len(s))) = Len(s) - n
  <2>1. \A i \in n + 1 .. Len(s) : s[i] \in S
    BY <1>1
  <2>2. n + 1 \in Int /\ Len(s) \in Int
    BY <1>1
  <2>3. /\ SubSeq(s, n + 1, Len(s)) \in Seq(S)
        /\ Len(SubSeq(s, n + 1, Len(s)))
             = IF n + 1 <= Len(s) THEN Len(s) - (n + 1) + 1 ELSE 0
    BY <2>1, <2>2, SubSeqProperties
  <2>4. QED BY <1>1, <2>3
<1>4. SubSeq(s, 1, n) \o SubSeq(s, n + 1, Len(s)) = SubSeq(s, 1, Len(s))
  <2>1. 1 \in 1..Len(s)+1 /\ n \in 1-1..Len(s) /\ Len(s) \in n..Len(s)
    BY <1>1
  <2>2. QED BY <2>1, ConcatAdjacentSubSeq
<1>5. QED BY <1>2, <1>3, <1>4, SubSeqFull

(* The part after the last element is empty, the part after none is all.   *)
LEMMA SplitEnds ==
  ASSUME NEW S, NEW s \in Seq(S)
  PROVE  /\ SubSeq(s, 1, Len(s)) = s
         /\ SubSeq(s, Len(s) + 1, Len(s)) = << >>
  BY SubSeqFull, SubSeqEmpty, LenProperties

LEMMA Associative ==
  ASSUME NEW S, NEW a \in Seq(S), NEW b \in Seq(S), NEW c \in Seq(S)
  PROVE  a \o (b \o c) = (a \o b) \o c
  BY ConcatAssociative

(* The bytes of a message.                                                 *)
LEMMA ContentType ==
  ASSUME NEW m \in Messages
  PROVE  Content(m) \in Seq(Messages) /\ Content(m) # << >>
<1>1. Size[m] \in Nat \ {0}
  BY SizesAssumption
<1>2. Content(m) \in [1..Size[m] -> Messages]
  BY DEF Content
<1>3. Content(m) \in Seq(Messages)
  BY <1>1, <1>2, SeqDef
<1>4. Len(Content(m)) = Size[m]
  BY <1>1, <1>2, <1>3, LenProperties
<1>5. QED BY <1>1, <1>3, <1>4, EmptySeq

(* What write() takes is not more than there is and not more than fits.    *)
LEMMA WriteCountBounds ==
  ASSUME TypeOK, NEW bytes \in Seq(Messages)
  PROVE  /\ WriteCount(bytes) \in 0..Len(bytes)
         /\ room - WriteCount(bytes) \in 0..Capacity
         /\ room > 0 /\ bytes # << >> => WriteCount(bytes) > 0
  BY LenProperties, EmptySeq, SizesAssumption DEF WriteCount, TypeOK

-----------------------------------------------------------------------------
(* Types.                                                                  *)

LEMMA TypeInit == Init => TypeOK
<1> SUFFICES ASSUME Init PROVE TypeOK
  OBVIOUS
<1>1. << >> \in Seq(Messages) /\ Len(<< >>) = 0
  BY EmptySeq
<1>2. /\ state \in States /\ pc \in LoopPC /\ todo = {} /\ fresh \subseteq Messages
      /\ events \subseteq READ_EVENT \cup WRITE_EVENT
      /\ closeCalls \in Nat
  BY DEF Init, States, LoopPC, NONE_EVENT
<1>3. /\ flushed \in 0..Len(outbuf) /\ room \in 0..Capacity
      /\ arrivals \in 0..MaxArrivals /\ inq \in 0..arrivals
  BY <1>1, SizesAssumption DEF Init
<1>4. shutpc \in [Threads -> {"idle", "checked", "marked"}]
  BY DEF Init
<1>5. QED BY <1>1, <1>2, <1>3, <1>4 DEF Init, TypeOK

(* A new subscription keeps the types.                                     *)
LEMMA UpdateType ==
  ASSUME TypeOK, NEW e \in SUBSET (READ_EVENT \cup WRITE_EVENT), Update(e)
  PROVE  events' \subseteq READ_EVENT \cup WRITE_EVENT /\ ready' \in BOOLEAN
  BY DEF Update, ReadyAfterUpdate, TypeOK

LEMMA HandleCloseType ==
  ASSUME TypeOK, HandleClose
  PROVE  /\ state' \in States /\ closeCalls' \in Nat
         /\ events' \subseteq READ_EVENT \cup WRITE_EVENT /\ ready' \in BOOLEAN
<1>1. CASE state = "CLOSED"
  BY <1>1 DEF HandleClose, TypeOK
<1>2. CASE state # "CLOSED"
  <2>1. Update(DisableAll) /\ state' = "CLOSED" /\ closeCalls' = closeCalls + 1
    BY <1>2 DEF HandleClose
  <2>2. DisableAll \subseteq READ_EVENT \cup WRITE_EVENT
    BY DEF DisableAll, NONE_EVENT
  <2>3. QED BY <2>1, <2>2, UpdateType DEF States, TypeOK
<1>3. QED BY <1>1, <1>2

LEMMA ShutWrType ==
  ASSUME TypeOK, ShutWr
  PROVE  wrShut' \in BOOLEAN /\ ready' \in BOOLEAN
  BY DEF ShutWr, TypeOK

LEMMA WriteSomeType ==
  ASSUME TypeOK, NEW bytes \in Seq(Messages), WriteSome(bytes)
  PROVE  wire' \in Seq(Messages) /\ room' \in 0..Capacity
<1>1. SubSeq(bytes, 1, WriteCount(bytes)) \in Seq(Messages)
  BY WriteCountBounds, Split
<1>2. QED BY <1>1, WriteCountBounds, ConcatProperties DEF WriteSome, TypeOK

LEMMA BeginSendType ==
  ASSUME TypeOK, NEW m \in Messages, BeginSend(m)
  PROVE  /\ rest' \in Seq(Messages) /\ accepted' \in Seq(Messages)
         /\ pc' \in LoopPC
<1>1. Content(m) \in Seq(Messages) /\ accepted \o Content(m) \in Seq(Messages)
  BY ContentType, ConcatProperties DEF TypeOK
<1>2. CASE state = "CONNECTED"
  BY <1>1, <1>2 DEF BeginSend, LoopPC
<1>3. CASE state # "CONNECTED"
  BY <1>3 DEF BeginSend, TypeOK, LoopPC
<1>4. QED BY <1>2, <1>3

(* Every step keeps the types.                                             *)
LEMMA TypeStep == TypeOK /\ [Next]_vars => TypeOK'
<1> SUFFICES ASSUME TypeOK, [Next]_vars PROVE TypeOK'
  OBVIOUS
<1>e. << >> \in Seq(Messages) /\ Len(<< >>) = 0
  BY EmptySeq
<1> USE DEF out, peer, calls
<1>1. ASSUME Handlers PROVE TypeOK'
  <2> USE DEF LoopStep, LoopAt, Callback
  <2>1. CASE ConnectEstablished
    <3>1. EnableReading(events) \subseteq READ_EVENT \cup WRITE_EVENT
      BY DEF EnableReading, TypeOK
    <3>2. events' \subseteq READ_EVENT \cup WRITE_EVENT /\ ready' \in BOOLEAN
      BY <2>1, <3>1, UpdateType DEF ConnectEstablished
    <3>3. QED BY <2>1, <3>2 DEF ConnectEstablished, TypeOK, States, LoopPC
  <2>2. CASE EventDone
    BY <2>2 DEF EventDone, TypeOK, LoopPC
  <2>3. CASE CloseEvent
    BY <2>3, HandleCloseType DEF CloseEvent, TypeOK, LoopPC
  <2>4. CASE ErrorEvent
    BY <2>4 DEF ErrorEvent, TypeOK, LoopPC
  <2>5. CASE ReadData
    <3>1. inq' \in 0..arrivals
      BY <2>5, SizesAssumption DEF ReadData, TypeOK
    <3>2. QED BY <2>5, <3>1 DEF ReadData, TypeOK, LoopPC
  <2>6. CASE ReadNothing
    <3>1. CASE fin \/ (rst /\ ~ err)
      BY <2>6, <3>1, HandleCloseType DEF ReadNothing, TypeOK, LoopPC
    <3>2. CASE ~ (fin \/ (rst /\ ~ err))
      BY <2>6, <3>2 DEF ReadNothing, TypeOK, LoopPC
    <3>3. QED BY <3>1, <3>2
  <2>7. CASE WriteNothing
    <3>1. err' \in BOOLEAN /\ sigpipe' \in BOOLEAN
      BY <2>7 DEF WriteNothing, WriteFails, TypeOK
    <3>2. QED BY <2>7, <3>1 DEF WriteNothing, TypeOK, LoopPC
  <2>8. CASE WriteData
    <3>1. wire' \in Seq(Messages) /\ room' \in 0..Capacity
      BY <2>8, WriteSomeType DEF WriteData, TypeOK
    <3>2. flushed' \in 0..Len(outbuf')
      BY <2>8, WriteCountBounds DEF WriteData, TypeOK
    <3>3. QED BY <2>8, <3>1, <3>2 DEF WriteData, TypeOK, LoopPC
  <2>9. CASE RetrieveAndDisable
    <3>1. outbuf' \in Seq(Messages) /\ flushed' \in 0..Len(outbuf')
      <4>1. SubSeq(outbuf, flushed + 1, Len(outbuf)) \in Seq(Messages)
        BY Split DEF TypeOK
      <4>2. outbuf' \in Seq(Messages) /\ flushed' = 0
        BY <2>9, <4>1 DEF RetrieveAndDisable
      <4>3. Len(outbuf') \in Nat
        BY <4>2, LenProperties
      <4>4. QED BY <4>2, <4>3
    <3>2. events' \subseteq READ_EVENT \cup WRITE_EVENT /\ ready' \in BOOLEAN
      <4>1. DisableWriting(events) \subseteq READ_EVENT \cup WRITE_EVENT
        BY DEF DisableWriting, TypeOK
      <4>2. CASE flushed = Len(outbuf)
        BY <2>9, <4>1, <4>2, UpdateType DEF RetrieveAndDisable
      <4>3. CASE flushed # Len(outbuf)
        BY <2>9, <4>3 DEF RetrieveAndDisable, TypeOK
      <4>4. QED BY <4>2, <4>3
    <3>3. QED BY <2>9, <3>1, <3>2 DEF RetrieveAndDisable, TypeOK, LoopPC
  <2>10. CASE Drained
    <3>1. wrShut' \in BOOLEAN /\ ready' \in BOOLEAN
      BY <2>10, ShutWrType DEF Drained, TypeOK
    <3>2. QED BY <2>10, <3>1 DEF Drained, TypeOK, LoopPC
  <2>11. CASE SendWrite
    <3>1. /\ wire' \in Seq(Messages) /\ room' \in 0..Capacity
          /\ rest' \in Seq(Messages)
      <4>1. SubSeq(rest, WriteCount(rest) + 1, Len(rest)) \in Seq(Messages)
        BY WriteCountBounds, Split DEF TypeOK
      <4>2. QED BY <2>11, <1>e, <4>1, WriteSomeType DEF SendWrite, TypeOK
    <3>2. err' \in BOOLEAN /\ sigpipe' \in BOOLEAN
      BY <2>11 DEF SendWrite, WriteFails, TypeOK
    <3>3. QED BY <2>11, <3>1, <3>2 DEF SendWrite, TypeOK, LoopPC
  <2>12. CASE SendAppend
    <3>1. CASE rest = << >>
      BY <2>12, <3>1 DEF SendAppend, TypeOK, LoopPC
    <3>2. CASE rest # << >>
      <4>1. outbuf' \in Seq(Messages) /\ flushed' \in 0..Len(outbuf')
        <5>1. outbuf' = outbuf \o rest /\ flushed' = flushed
          BY <2>12, <3>2 DEF SendAppend
        <5>2. /\ outbuf \o rest \in Seq(Messages)
              /\ Len(outbuf \o rest) = Len(outbuf) + Len(rest)
              /\ Len(outbuf) \in Nat /\ Len(rest) \in Nat
          BY ConcatProperties, LenProperties DEF TypeOK
        <5>3. flushed \in 0..Len(outbuf \o rest)
          BY <5>2 DEF TypeOK
        <5>4. QED BY <5>1, <5>2, <5>3
      <4>2. EnableWriting(events) \subseteq READ_EVENT \cup WRITE_EVENT
        BY DEF EnableWriting, TypeOK
      <4>3. events' \subseteq READ_EVENT \cup WRITE_EVENT /\ ready' \in BOOLEAN
        BY <2>12, <3>2, <4>2, UpdateType DEF SendAppend
      <4>4. QED BY <2>12, <3>2, <1>e, <4>1, <4>3 DEF SendAppend, TypeOK, LoopPC
    <3>3. QED BY <3>1, <3>2
  <2>13. CASE UserReturns
    BY <2>13 DEF UserReturns, TypeOK, LoopPC
  <2>14. QED
    BY <1>1, <2>1, <2>2, <2>3, <2>4, <2>5, <2>6, <2>7, <2>8, <2>9, <2>10,
       <2>11, <2>12, <2>13 DEF Handlers
<1>2. ASSUME Dispatch PROVE TypeOK'
  <2>1. /\ todo' \subseteq {"close", "error", "read", "write"}
        /\ ready' \in BOOLEAN
    BY <1>2 DEF Dispatch, HandleEvent, ReadyAfterWait
  <2>2. QED BY <1>2, <2>1 DEF Dispatch, LoopStep, LoopAt, TypeOK, LoopPC
<1>3. ASSUME RunTask PROVE TypeOK'
  <2>1. tasks # << >> /\ Head(tasks) \in Messages /\ tasks' = Tail(tasks)
        /\ ran' = Append(ran, Head(tasks))
    BY <1>3, HeadTailProperties DEF RunTask, FQ!Execute, TypeOK
  <2>2. tasks' \in Seq(Messages) /\ ran' \in Seq(Messages)
    BY <2>1, HeadTailProperties, AppendProperties DEF TypeOK
  <2>3. /\ rest' \in Seq(Messages) /\ accepted' \in Seq(Messages)
        /\ pc' \in LoopPC
    BY <1>3, <2>1, BeginSendType DEF RunTask
  <2>4. QED BY <1>3, <2>2, <2>3 DEF RunTask, TypeOK
<1>4. ASSUME EnterUserCode PROVE TypeOK'
  BY <1>4 DEF EnterUserCode, LoopStep, LoopAt, TypeOK, LoopPC
<1>5. ASSUME UserCall PROVE TypeOK'
  <2>1. ASSUME NEW m \in Messages, SendLocally(m) PROVE TypeOK'
    BY <2>1, BeginSendType DEF SendLocally, TypeOK
  <2>2. ASSUME NEW m \in Messages, NEW t \in OtherThreads, SendRemotely(t, m)
        PROVE  TypeOK'
    <3>1. tasks' \in Seq(Messages) /\ ran' \in Seq(Messages)
      <4>1. Append(tasks, m) \in Seq(Messages)
        BY AppendProperties DEF TypeOK
      <4>2. \/ tasks' = Append(tasks, m) /\ ran' = ran
            \/ tasks' = tasks /\ ran' = ran
        BY <2>2 DEF SendRemotely, FQ!Enqueue
      <4>3. QED BY <4>1, <4>2 DEF TypeOK
    <3>2. QED BY <2>2, <3>1 DEF SendRemotely, TypeOK
  <2>3. ASSUME NEW t \in Threads, Shutdown(t) PROVE TypeOK'
    BY <2>3 DEF Shutdown, TypeOK
  <2>4. QED BY <1>5, <2>1, <2>2, <2>3 DEF UserCall
<1>6. ASSUME NEW t \in Threads, ShutdownGoesOn(t) PROVE TypeOK'
  <2>1. CASE ShutdownMark(t)
    BY <2>1 DEF ShutdownMark, TypeOK, States
  <2>2. CASE ShutdownWrite(t)
    <3>1. wrShut' \in BOOLEAN /\ ready' \in BOOLEAN
      BY <2>2, ShutWrType DEF ShutdownWrite, TypeOK
    <3>2. QED BY <2>2, <3>1 DEF ShutdownWrite, TypeOK
  <2>3. QED BY <1>6, <2>1, <2>2 DEF ShutdownGoesOn
<1>7. ASSUME Peer PROVE TypeOK'
  <2>1. CASE PeerSends
    <3>1. arrivals' \in 0..MaxArrivals /\ inq' \in 0..arrivals'
      BY <2>1, SizesAssumption DEF PeerSends, TypeOK
    <3>2. ready' \in BOOLEAN
      BY <2>1 DEF PeerSends, ReadyAfterEdge, TypeOK
    <3>3. QED BY <2>1, <3>1, <3>2 DEF PeerSends, TypeOK
  <2>2. CASE PeerClosesDown
    BY <2>2 DEF PeerClosesDown, TypeOK
  <2>3. CASE PeerResetsDown
    BY <2>3 DEF PeerResetsDown, TypeOK
  <2>4. CASE PeerDrains
    <3>1. room' \in 0..Capacity
      BY <2>4, SizesAssumption DEF PeerDrains
    <3>2. ready' \in BOOLEAN
      BY <2>4 DEF PeerDrains, ReadyAfterEdge, TypeOK
    <3>3. QED BY <2>4, <3>1, <3>2 DEF PeerDrains, TypeOK
  <2>5. QED BY <1>7, <2>1, <2>2, <2>3, <2>4 DEF Peer
<1>8. ASSUME UNCHANGED vars PROVE TypeOK'
  BY <1>8 DEF vars, TypeOK
<1>9. QED BY <1>1, <1>2, <1>3, <1>4, <1>5, <1>6, <1>7, <1>8 DEF Next

(* Every variable keeps its type, whoever calls shutdown().                *)
THEOREM TypeCorrect == Spec => []TypeOK
  BY TypeInit, TypeStep, PTL DEF Spec

-----------------------------------------------------------------------------
(* The inductive invariant, when only the loop thread calls shutdown().    *)

LEMMA IInvInit == Init => IInv
<1> SUFFICES ASSUME Init PROVE IInv
  OBVIOUS
<1>1. TypeOK
  BY TypeInit
<1>2. Control /\ CheckedState /\ ShutAfterDrain /\ CloseCounted
  BY DEF Init, Control, CheckedState, ShutAfterDrain, CloseCounted, Threads
<1>3. WriteInterest
  BY DEF Init, WriteInterest, NONE_EVENT
<1>4. StreamInOrder
  <2>1. << >> \in Seq(Messages) /\ Len(<< >>) = 0
    BY EmptySeq
  <2>2. SubSeq(<< >>, 0 + 1, Len(<< >>)) = << >>
    BY <2>1, SubSeqEmpty
  <2>3. (<< >> \o << >>) \o << >> = << >>
    BY <2>1, ConcatEmptySeq
  <2>4. QED BY <2>2, <2>3 DEF Init, StreamInOrder
<1>5. QED BY <1>1, <1>2, <1>3, <1>4 DEF IInv

(* Steps of the loop other than those of the handlers below leave the      *)
(* stream alone.                                                           *)
LEMMA StreamFrame ==
  ASSUME StreamInOrder, UNCHANGED <<accepted, wire, outbuf, flushed, rest>>,
         rst => rst'
  PROVE  StreamInOrder'
  BY DEF StreamInOrder

(* handleWrite() moves a prefix of the buffer to the kernel ...            *)
LEMMA StreamWriteData == IInv /\ WriteData => StreamInOrder'
<1> SUFFICES ASSUME IInv, WriteData PROVE StreamInOrder'
  OBVIOUS
<1> DEFINE n == WriteCount(outbuf)
           head == SubSeq(outbuf, 1, n)
           tail == SubSeq(outbuf, n + 1, Len(outbuf))
<1>1. /\ wire' = wire \o head /\ flushed' = n
      /\ UNCHANGED <<accepted, outbuf, rest, rst>>
  BY DEF WriteData, WriteSome, peer
<1>2. flushed = 0
  BY DEF WriteData, Callback, LoopStep, LoopAt, IInv, Control, TypeOK
<1>3. /\ head \in Seq(Messages) /\ tail \in Seq(Messages)
      /\ outbuf = head \o tail
  BY WriteCountBounds, Split DEF IInv, TypeOK
<1>4. wire \o outbuf = (wire \o head) \o tail
  <2>1. wire \in Seq(Messages)
    BY DEF IInv, TypeOK
  <2> HIDE DEF head, tail
  <2>2. wire \o (head \o tail) = (wire \o head) \o tail
    BY <1>3, <2>1, Associative
  <2>3. QED BY <1>3, <2>2
<1>5. SubSeq(outbuf, flushed + 1, Len(outbuf)) = outbuf
  BY <1>2, SplitEnds DEF IInv, TypeOK
<1>6. SUFFICES ASSUME ~ rst
               PROVE  accepted = (wire \o head) \o tail \o rest
  BY <1>1 DEF StreamInOrder
<1>7. QED BY <1>4, <1>5, <1>6 DEF IInv, StreamInOrder

(* ... and then retrieves it.                                              *)
LEMMA StreamRetrieve == IInv /\ RetrieveAndDisable => StreamInOrder'
<1> SUFFICES ASSUME IInv, RetrieveAndDisable PROVE StreamInOrder'
  OBVIOUS
<1> DEFINE tail == SubSeq(outbuf, flushed + 1, Len(outbuf))
<1>1. /\ outbuf' = tail /\ flushed' = 0
      /\ UNCHANGED <<accepted, wire, rest, rst>>
  BY DEF RetrieveAndDisable, peer
<1>2. tail \in Seq(Messages)
  BY Split DEF IInv, TypeOK
<1>3. SubSeq(tail, 0 + 1, Len(tail)) = tail
  BY <1>2, SplitEnds
<1>4. QED BY <1>1, <1>3 DEF IInv, StreamInOrder

(* sendInLoop() accepts bytes when nothing is in its hands,                *)
LEMMA StreamBegin ==
  ASSUME IInv, NEW m \in Messages, rest = << >>, BeginSend(m),
         UNCHANGED <<wire, outbuf, flushed, rst>>
  PROVE  StreamInOrder'
<1>1. CASE state = "CONNECTED"
  <2> DEFINE tail == SubSeq(outbuf, flushed + 1, Len(outbuf))
  <2>1. rest' = Content(m) /\ accepted' = accepted \o Content(m)
    BY <1>1 DEF BeginSend
  <2>2. tail \in Seq(Messages) /\ wire \o tail \in Seq(Messages)
    BY Split, ConcatProperties DEF IInv, TypeOK
  <2>3. (wire \o tail) \o << >> = wire \o tail
    BY <2>2, ConcatEmptySeq
  <2>4. ~ rst => accepted = wire \o tail
    BY <2>3 DEF IInv, StreamInOrder
  <2>5. QED BY <2>1, <2>4 DEF StreamInOrder
<1>2. CASE state # "CONNECTED"
  BY <1>2, StreamFrame DEF BeginSend, IInv
<1>3. QED BY <1>1, <1>2

(* writes only past an empty buffer,                                       *)
LEMMA StreamSendWrite == IInv /\ SendWrite => StreamInOrder'
<1> SUFFICES ASSUME IInv, SendWrite PROVE StreamInOrder'
  OBVIOUS
<1>1. UNCHANGED <<accepted, outbuf, flushed, rst>>
  BY DEF SendWrite, peer
<1>2. CASE outbuf # << >>
  BY <1>1, <1>2, StreamFrame DEF SendWrite, IInv
<1>3. CASE outbuf = << >> /\ WriteWorks
  <2> DEFINE n == WriteCount(rest)
             head == SubSeq(rest, 1, n)
             tail == SubSeq(rest, n + 1, Len(rest))
  <2>1. wire' = wire \o head /\ rest' = tail
    BY <1>3 DEF SendWrite, WriteSome
  <2>2. /\ head \in Seq(Messages) /\ tail \in Seq(Messages)
        /\ rest = head \o tail
    BY WriteCountBounds, Split DEF IInv, TypeOK
  <2>3. wire \o rest = (wire \o head) \o tail
    <3>1. wire \in Seq(Messages)
      BY DEF IInv, TypeOK
    <3> HIDE DEF head, tail
    <3>2. wire \o (head \o tail) = (wire \o head) \o tail
      BY <2>2, <3>1, Associative
    <3>3. QED BY <2>2, <3>2
  <2>4. SubSeq(outbuf, flushed + 1, Len(outbuf)) = << >>
    <3>1. Len(outbuf) = 0 /\ flushed \in 0..Len(outbuf)
      BY <1>3, EmptySeq DEF IInv, TypeOK
    <3>2. QED BY <3>1, SubSeqEmpty
  <2>5. wire \o << >> = wire /\ (wire \o head) \o << >> = wire \o head
    BY <2>2, ConcatEmptySeq, ConcatProperties DEF IInv, TypeOK
  <2>6. QED BY <1>1, <2>1, <2>3, <2>4, <2>5 DEF IInv, StreamInOrder
<1>4. CASE outbuf = << >> /\ ~ WriteWorks
  <2>1. ~ wrShut
    BY DEF SendWrite, LoopStep, LoopAt, IInv, CheckedState, ShutAfterDrain
  <2>2. rst
    BY <1>4, <2>1 DEF WriteWorks
  <2>3. QED BY <1>1, <2>2 DEF StreamInOrder
<1>5. QED BY <1>2, <1>3, <1>4

(* and appends the rest behind what is waiting.                            *)
LEMMA StreamSendAppend == IInv /\ SendAppend => StreamInOrder'
<1> SUFFICES ASSUME IInv, SendAppend PROVE StreamInOrder'
  OBVIOUS
<1>1. UNCHANGED <<accepted, wire, flushed, rst>>
  BY DEF SendAppend, peer
<1>2. CASE rest = << >>
  BY <1>1, <1>2, StreamFrame DEF SendAppend, IInv
<1>3. CASE rest # << >>
  <2>1. outbuf' = outbuf \o rest /\ rest' = << >>
    BY <1>3 DEF SendAppend
  <2>2. flushed = 0
    BY DEF SendAppend, LoopStep, LoopAt, IInv, Control, TypeOK
  <2>3. outbuf \o rest \in Seq(Messages) /\ wire \o (outbuf \o rest) \in Seq(Messages)
    BY ConcatProperties DEF IInv, TypeOK
  <2>4. /\ SubSeq(outbuf, flushed + 1, Len(outbuf)) = outbuf
        /\ SubSeq(outbuf \o rest, flushed + 1, Len(outbuf \o rest)) = outbuf \o rest
    BY <2>2, <2>3, SplitEnds DEF IInv, TypeOK
  <2>5. /\ (wire \o outbuf) \o rest = wire \o (outbuf \o rest)
        /\ (wire \o (outbuf \o rest)) \o << >> = wire \o (outbuf \o rest)
    <3>1. /\ wire \in Seq(Messages) /\ outbuf \in Seq(Messages)
          /\ rest \in Seq(Messages)
      BY DEF IInv, TypeOK
    <3>2. QED BY <2>3, <3>1, Associative, ConcatEmptySeq
  <2>6. QED BY <1>1, <2>1, <2>4, <2>5 DEF IInv, StreamInOrder
<1>4. QED BY <1>2, <1>3

LEMMA StreamStep == IInv /\ [Next]_vars => StreamInOrder'
<1> SUFFICES ASSUME IInv, [Next]_vars PROVE StreamInOrder'
  OBVIOUS
<1> USE DEF out, peer, calls
<1>1. ASSUME Handlers PROVE StreamInOrder'
  <2>1. \/ WriteData \/ RetrieveAndDisable \/ SendWrite \/ SendAppend
        \/ UNCHANGED <<accepted, wire, outbuf, flushed, rest, rst>>
    BY <1>1
    DEF Handlers, ConnectEstablished, EventDone, CloseEvent, ErrorEvent,
        ReadData, ReadNothing, WriteNothing, Drained, UserReturns
  <2>2. QED
    BY <2>1, StreamWriteData, StreamRetrieve, StreamSendWrite,
       StreamSendAppend, StreamFrame DEF IInv
<1>2. ASSUME RunTask PROVE StreamInOrder'
  <2>1. Head(tasks) \in Messages
    BY <1>2, HeadTailProperties DEF RunTask, FQ!Execute, IInv, TypeOK
  <2>2. rest = << >>
    BY <1>2 DEF RunTask, LoopAt, IInv, Control
  <2>3. QED BY <1>2, <2>1, <2>2, StreamBegin DEF RunTask
<1>3. ASSUME UserCall PROVE StreamInOrder'
  <2>1. ASSUME NEW m \in Messages, SendLocally(m) PROVE StreamInOrder'
    <3>1. rest = << >>
      BY <2>1 DEF SendLocally, CanCall, IInv, Control
    <3>2. QED BY <2>1, <3>1, StreamBegin DEF SendLocally
  <2>2. ASSUME NEW m \in Messages, NEW t \in OtherThreads, SendRemotely(t, m)
        PROVE  StreamInOrder'
    BY <2>2, StreamFrame DEF SendRemotely, IInv
  <2>3. ASSUME NEW t \in Threads, Shutdown(t) PROVE StreamInOrder'
    BY <2>3, StreamFrame DEF Shutdown, IInv
  <2>4. QED BY <1>3, <2>1, <2>2, <2>3 DEF UserCall
<1>4. ASSUME NEW t \in Threads, ShutdownGoesOn(t) PROVE StreamInOrder'
  BY <1>4, StreamFrame DEF ShutdownGoesOn, ShutdownMark, ShutdownWrite, IInv
<1>5. ASSUME Peer PROVE StreamInOrder'
  BY <1>5, StreamFrame
  DEF Peer, PeerSends, PeerClosesDown, PeerResetsDown, PeerDrains, IInv
<1>6. ASSUME Dispatch \/ EnterUserCode \/ UNCHANGED vars PROVE StreamInOrder'
  BY <1>6, StreamFrame DEF Dispatch, EnterUserCode, vars, IInv
<1>7. QED BY <1>1, <1>2, <1>3, <1>4, <1>5, <1>6 DEF Next

-----------------------------------------------------------------------------
(* Nobody but the loop thread is inside shutdown(), so a loop step finds   *)
(* every thread outside it.                                                *)
LEMMA LoopStepChecked ==
  ASSUME IInv, shutpc[LoopThread] = "idle", UNCHANGED shutpc,
         pc' \in {"send", "append"} => state' = "CONNECTED"
  PROVE  CheckedState'
  BY DEF IInv, CheckedState

LEMMA BeginSendControl ==
  ASSUME IInv, NEW m \in Messages, BeginSend(m), pc \in {"idle", "user"},
         UNCHANGED <<state, outbuf, flushed, shutpc>>,
         shutpc[LoopThread] = "idle"
  PROVE  Control' /\ CheckedState'
<1>1. CASE state = "CONNECTED"
  <2>1. pc' = "send"
    BY <1>1 DEF BeginSend
  <2>2. Control'
    BY <2>1, <1>1 DEF IInv, Control
  <2>3. QED BY <2>1, <2>2, <1>1, LoopStepChecked
<1>2. CASE state # "CONNECTED"
  <2>1. pc' = "user" /\ rest' = rest
    BY <1>2 DEF BeginSend
  <2>2. Control'
    BY <2>1 DEF IInv, Control
  <2>3. QED BY <2>1, <2>2, LoopStepChecked
<1>3. QED BY <1>1, <1>2

LEMMA ControlStep ==
  ASSUME Disciplined PROVE IInv /\ [Next]_vars => Control' /\ CheckedState'
<1> SUFFICES ASSUME IInv, [Next]_vars PROVE Control' /\ CheckedState'
  OBVIOUS
<1> USE DEF out, peer, calls
<1>1. ASSUME Handlers PROVE Control' /\ CheckedState'
  <2>1. shutpc[LoopThread] = "idle" /\ UNCHANGED shutpc
    BY <1>1
    DEF Handlers, ConnectEstablished, EventDone, CloseEvent, ErrorEvent,
        ReadData, ReadNothing, WriteNothing, WriteData, RetrieveAndDisable,
        Drained, SendWrite, SendAppend, UserReturns, Callback, LoopStep, LoopAt
  <2> USE DEF IInv, Control, LoopStep, LoopAt, Callback
  <2>2. CASE ConnectEstablished
    BY <2>1, <2>2, LoopStepChecked DEF ConnectEstablished
  <2>3. CASE CloseEvent
    BY <2>1, <2>3, LoopStepChecked DEF CloseEvent, HandleClose
  <2>4. CASE ReadNothing
    BY <2>1, <2>4, LoopStepChecked DEF ReadNothing, HandleClose
  <2>5. CASE WriteData
    <3>1. flushed' > 0
      BY <2>5, WriteCountBounds DEF WriteData, TypeOK
    <3>2. QED BY <2>1, <2>5, <3>1, LoopStepChecked DEF WriteData
  <2>6. CASE RetrieveAndDisable
    <3>1. flushed = Len(outbuf) => outbuf' = << >>
      BY <2>6, SplitEnds DEF RetrieveAndDisable, TypeOK
    <3>2. pc' \in {"drained", "event"} /\ (pc' = "drained" => outbuf' = << >>)
      BY <2>6, <3>1 DEF RetrieveAndDisable
    <3>3. QED BY <2>1, <2>6, <3>2, LoopStepChecked DEF RetrieveAndDisable
  <2>7. CASE SendWrite
    BY <2>1, <2>7, LoopStepChecked DEF SendWrite, CheckedState
  <2>8. CASE SendAppend
    BY <2>1, <2>8, LoopStepChecked DEF SendAppend
  <2>9. CASE EventDone \/ ErrorEvent \/ ReadData \/ WriteNothing \/ Drained
             \/ UserReturns
    BY <2>1, <2>9, LoopStepChecked
    DEF EventDone, ErrorEvent, ReadData, WriteNothing, Drained, UserReturns
  <2>10. QED
    BY <1>1, <2>2, <2>3, <2>4, <2>5, <2>6, <2>7, <2>8, <2>9 DEF Handlers
<1>2. ASSUME RunTask PROVE Control' /\ CheckedState'
  <2>1. Head(tasks) \in Messages
    BY <1>2, HeadTailProperties DEF RunTask, FQ!Execute, IInv, TypeOK
  <2>2. QED BY <1>2, <2>1, BeginSendControl DEF RunTask, LoopAt
<1>3. ASSUME UserCall PROVE Control' /\ CheckedState'
  <2>1. ASSUME NEW m \in Messages, SendLocally(m)
        PROVE  Control' /\ CheckedState'
    BY <2>1, BeginSendControl DEF SendLocally, CanCall
  <2>2. ASSUME NEW m \in Messages, NEW t \in OtherThreads, SendRemotely(t, m)
        PROVE  Control' /\ CheckedState'
    BY <2>2 DEF SendRemotely, IInv, Control, CheckedState
  <2>3. ASSUME NEW t \in Threads, Shutdown(t) PROVE Control' /\ CheckedState'
    <3>1. t = LoopThread /\ LoopThread \notin OtherThreads
      BY <2>3, ThreadsAssumption DEF Shutdown, Disciplined
    <3>2. shutpc \in [Threads -> {"idle", "checked", "marked"}]
      BY DEF IInv, TypeOK
    <3>3. /\ shutpc'[LoopThread] = "checked" /\ pc' = "user"
          /\ \A u \in OtherThreads : shutpc'[u] = "idle"
      BY <2>3, <3>1, <3>2
      DEF Shutdown, CanCall, Threads, IInv, CheckedState
    <3>4. QED BY <2>3, <3>3 DEF Shutdown, IInv, Control, CheckedState
  <2>4. QED BY <1>3, <2>1, <2>2, <2>3 DEF UserCall
<1>4. ASSUME NEW t \in Threads, ShutdownGoesOn(t)
      PROVE  Control' /\ CheckedState'
  <2>1. t = LoopThread /\ LoopThread \notin OtherThreads /\ pc = "user"
    BY <1>4, ThreadsAssumption
    DEF ShutdownGoesOn, ShutdownMark, ShutdownWrite, IInv, CheckedState, Threads
  <2>2. shutpc \in [Threads -> {"idle", "checked", "marked"}]
    BY DEF IInv, TypeOK
  <2>3. CASE ShutdownMark(t)
    <3>1. /\ shutpc'[LoopThread] = "marked"
          /\ \A u \in OtherThreads : shutpc'[u] = "idle"
      BY <2>1, <2>2, <2>3 DEF ShutdownMark, Threads, IInv, CheckedState
    <3>2. QED BY <2>1, <2>3, <3>1 DEF ShutdownMark, IInv, Control, CheckedState
  <2>4. CASE ShutdownWrite(t)
    <3>1. /\ shutpc'[LoopThread] = "idle"
          /\ \A u \in OtherThreads : shutpc'[u] = "idle"
      BY <2>1, <2>2, <2>4 DEF ShutdownWrite, Threads, IInv, CheckedState
    <3>2. QED BY <2>1, <2>4, <3>1 DEF ShutdownWrite, IInv, Control, CheckedState
  <2>5. QED BY <1>4, <2>3, <2>4 DEF ShutdownGoesOn
<1>5. ASSUME Peer PROVE Control' /\ CheckedState'
  BY <1>5
  DEF Peer, PeerSends, PeerClosesDown, PeerResetsDown, PeerDrains, IInv,
      Control, CheckedState
<1>6. ASSUME Dispatch \/ EnterUserCode PROVE Control' /\ CheckedState'
  BY <1>6, LoopStepChecked
  DEF Dispatch, EnterUserCode, LoopStep, LoopAt, IInv, Control
<1>7. ASSUME UNCHANGED vars PROVE Control' /\ CheckedState'
  BY <1>7 DEF vars, IInv, Control, CheckedState
<1>8. QED BY <1>1, <1>2, <1>3, <1>4, <1>5, <1>6, <1>7 DEF Next

(* The conjuncts about SHUT_WR, about write events and about the close     *)
(* callback. handleClose() settles the last two by reaching CLOSED.        *)
LEMMA HandleCloseKeeps ==
  ASSUME IInv, HandleClose, UNCHANGED <<wrShut, outbuf, rest>>
  PROVE  ShutAfterDrain' /\ WriteInterest' /\ CloseCounted'
<1>1. CASE state = "CLOSED"
  BY <1>1
  DEF HandleClose, IInv, ShutAfterDrain, WriteInterest, CloseCounted
<1>2. CASE state # "CLOSED"
  <2>1. state' = "CLOSED" /\ closeCalls' = closeCalls + 1 /\ closeCalls = 0
    BY <1>2 DEF HandleClose, IInv, CloseCounted
  <2>2. QED
    BY <2>1 DEF IInv, ShutAfterDrain, WriteInterest, CloseCounted
<1>3. QED BY <1>1, <1>2

(* A step that leaves state_, the buffer and the interest alone.           *)
LEMMA OutputFrame ==
  ASSUME IInv, UNCHANGED <<state, wrShut, outbuf, rest, events, closeCalls>>
  PROVE  ShutAfterDrain' /\ WriteInterest' /\ CloseCounted'
  BY DEF IInv, ShutAfterDrain, WriteInterest, CloseCounted

LEMMA BeginSendKeeps ==
  ASSUME IInv, NEW m \in Messages, BeginSend(m),
         UNCHANGED <<state, wrShut, outbuf, events, closeCalls>>
  PROVE  ShutAfterDrain' /\ WriteInterest' /\ CloseCounted'
  BY DEF BeginSend, IInv, ShutAfterDrain, WriteInterest, CloseCounted

LEMMA OutputStep ==
  ASSUME Disciplined
  PROVE  IInv /\ [Next]_vars => ShutAfterDrain' /\ WriteInterest' /\ CloseCounted'
<1> DEFINE Goal == ShutAfterDrain /\ WriteInterest /\ CloseCounted
<1> SUFFICES ASSUME IInv, [Next]_vars PROVE Goal'
  OBVIOUS
<1> USE DEF out, peer, calls
<1>1. ASSUME Handlers PROVE Goal'
  <2> USE DEF LoopStep, LoopAt, Callback
  <2>1. CASE ConnectEstablished
    <3>1. state = "CONNECTING" /\ state' = "CONNECTED"
      BY <2>1 DEF ConnectEstablished, IInv, Control
    <3>2. "OUT" \in events' <=> "OUT" \in events
      BY <2>1 DEF ConnectEstablished, Update, EnableReading, READ_EVENT
    <3>3. QED
      BY <2>1, <3>1, <3>2
      DEF ConnectEstablished, IInv, ShutAfterDrain, WriteInterest, CloseCounted
  <2>2. CASE CloseEvent
    BY <2>2, HandleCloseKeeps DEF CloseEvent
  <2>3. CASE ReadNothing
    <3>1. CASE fin \/ (rst /\ ~ err)
      BY <2>3, <3>1, HandleCloseKeeps DEF ReadNothing
    <3>2. CASE ~ (fin \/ (rst /\ ~ err))
      BY <2>3, <3>2, OutputFrame DEF ReadNothing
    <3>3. QED BY <3>1, <3>2
  <2>4. CASE RetrieveAndDisable
    <3>1. flushed > 0 /\ outbuf # << >>
      BY <2>4, EmptySeq DEF RetrieveAndDisable, IInv, Control, TypeOK
    <3>2. /\ outbuf' = SubSeq(outbuf, flushed + 1, Len(outbuf))
          /\ UNCHANGED <<state, rest, wrShut, closeCalls>>
      BY <2>4 DEF RetrieveAndDisable
    <3>3. ~ wrShut
      BY <3>1 DEF IInv, ShutAfterDrain
    <3>4. CASE flushed = Len(outbuf)
      <4>1. outbuf' = << >>
        BY <3>2, <3>4, SplitEnds DEF IInv, TypeOK
      <4>2. "OUT" \notin events'
        BY <2>4, <3>4
        DEF RetrieveAndDisable, Update, DisableWriting, WRITE_EVENT
      <4>3. QED
        BY <3>2, <3>3, <4>1, <4>2
        DEF IInv, ShutAfterDrain, WriteInterest, CloseCounted
    <3>5. CASE flushed # Len(outbuf)
      <4>1. /\ Len(outbuf') = Len(outbuf) - flushed
            /\ Len(outbuf) \in Nat /\ flushed \in 0..Len(outbuf)
        BY <3>2, Split, LenProperties DEF IInv, TypeOK
      <4>2. outbuf' # << >>
        BY <3>5, <4>1, EmptySeq
      <4>3. UNCHANGED events
        BY <2>4, <3>5 DEF RetrieveAndDisable
      <4>4. QED
        BY <3>1, <3>2, <3>3, <4>2, <4>3
        DEF IInv, ShutAfterDrain, WriteInterest, CloseCounted
    <3>6. QED BY <3>4, <3>5
  <2>5. CASE Drained
    <3>1. outbuf = << >> /\ rest = << >>
      BY <2>5 DEF Drained, IInv, Control
    <3>2. QED
      BY <2>5, <3>1
      DEF Drained, IInv, ShutAfterDrain, WriteInterest, CloseCounted
  <2>6. CASE SendWrite
    <3>1. state = "CONNECTED" /\ ~ wrShut
      BY <2>6 DEF SendWrite, IInv, CheckedState, ShutAfterDrain
    <3>2. QED
      BY <2>6, <3>1
      DEF SendWrite, IInv, ShutAfterDrain, WriteInterest, CloseCounted
  <2>7. CASE SendAppend
    <3>1. CASE rest = << >>
      BY <2>7, <3>1, OutputFrame DEF SendAppend
    <3>2. CASE rest # << >>
      <4>1. state = "CONNECTED" /\ ~ wrShut
        BY <2>7 DEF SendAppend, IInv, CheckedState, ShutAfterDrain
      <4>2. outbuf' # << >>
        <5>1. outbuf \in Seq(Messages) /\ rest \in Seq(Messages)
          BY DEF IInv, TypeOK
        <5>2. /\ Len(outbuf \o rest) = Len(outbuf) + Len(rest)
              /\ Len(outbuf) \in Nat /\ Len(rest) \in Nat /\ Len(rest) # 0
          BY <3>2, <5>1, ConcatProperties, LenProperties, EmptySeq
        <5>3. outbuf \o rest # << >>
          BY <5>2, EmptySeq
        <5>4. QED BY <2>7, <3>2, <5>3 DEF SendAppend
      <4>3. "OUT" \in events'
        BY <2>7, <3>2 DEF SendAppend, Update, EnableWriting, WRITE_EVENT
      <4>4. QED
        BY <2>7, <4>1, <4>2, <4>3
        DEF SendAppend, IInv, ShutAfterDrain, WriteInterest, CloseCounted
    <3>3. QED BY <3>1, <3>2
  <2>8. CASE EventDone \/ ErrorEvent \/ ReadData \/ WriteNothing \/ WriteData
             \/ UserReturns
    BY <2>8, OutputFrame
    DEF EventDone, ErrorEvent, ReadData, WriteNothing, WriteData, UserReturns
  <2>9. QED
    BY <1>1, <2>1, <2>2, <2>3, <2>4, <2>5, <2>6, <2>7, <2>8 DEF Handlers
<1>2. ASSUME RunTask PROVE Goal'
  <2>1. Head(tasks) \in Messages
    BY <1>2, HeadTailProperties DEF RunTask, FQ!Execute, IInv, TypeOK
  <2>2. QED BY <1>2, <2>1, BeginSendKeeps DEF RunTask
<1>3. ASSUME UserCall PROVE Goal'
  <2>1. ASSUME NEW m \in Messages, SendLocally(m) PROVE Goal'
    BY <2>1, BeginSendKeeps DEF SendLocally
  <2>2. ASSUME NEW m \in Messages, NEW t \in OtherThreads, SendRemotely(t, m)
        PROVE  Goal'
    BY <2>2, OutputFrame DEF SendRemotely
  <2>3. ASSUME NEW t \in Threads, Shutdown(t) PROVE Goal'
    BY <2>3, OutputFrame DEF Shutdown
  <2>4. QED BY <1>3, <2>1, <2>2, <2>3 DEF UserCall
<1>4. ASSUME NEW t \in Threads, ShutdownGoesOn(t) PROVE Goal'
  <2>1. t = LoopThread
    BY <1>4
    DEF ShutdownGoesOn, ShutdownMark, ShutdownWrite, IInv, CheckedState, Threads
  <2>2. CASE ShutdownMark(t)
    <3>1. state = "CONNECTED" /\ state' = "DISCONNECTED"
      BY <2>1, <2>2 DEF ShutdownMark, IInv, CheckedState
    <3>2. QED
      BY <2>2, <3>1
      DEF ShutdownMark, IInv, ShutAfterDrain, WriteInterest, CloseCounted
  <2>3. CASE ShutdownWrite(t)
    <3>1. state = "DISCONNECTED" /\ rest = << >>
      BY <2>1, <2>3 DEF ShutdownWrite, IInv, CheckedState, Control
    <3>2. QED
      BY <2>3, <3>1
      DEF ShutdownWrite, IInv, ShutAfterDrain, WriteInterest, CloseCounted
  <2>4. QED BY <1>4, <2>2, <2>3 DEF ShutdownGoesOn
<1>5. ASSUME Peer PROVE Goal'
  BY <1>5, OutputFrame
  DEF Peer, PeerSends, PeerClosesDown, PeerResetsDown, PeerDrains
<1>6. ASSUME Dispatch \/ EnterUserCode \/ UNCHANGED vars PROVE Goal'
  BY <1>6, OutputFrame DEF Dispatch, EnterUserCode, vars
<1>7. QED BY <1>1, <1>2, <1>3, <1>4, <1>5, <1>6 DEF Next

LEMMA IInvHolds == ASSUME Disciplined PROVE Spec => []IInv
<1>1. IInv /\ [Next]_vars => IInv'
  <2> SUFFICES ASSUME IInv, [Next]_vars PROVE IInv'
    OBVIOUS
  <2>1. TypeOK' /\ StreamInOrder'
    BY TypeStep, StreamStep DEF IInv
  <2>2. Control' /\ CheckedState'
    BY ControlStep
  <2>3. ShutAfterDrain' /\ WriteInterest' /\ CloseCounted'
    BY OutputStep
  <2>4. QED BY <2>1, <2>2, <2>3 DEF IInv
<1>2. QED BY IInvInit, <1>1, PTL DEF Spec

(* No accepted byte is lost, repeated or overtaken on its way to the       *)
(* kernel: sendInLoop() (:97) writes past an empty buffer only.            *)
THEOREM StreamHolds == ASSUME Disciplined PROVE Spec => []StreamInOrder
<1>1. IInv => StreamInOrder
  BY DEF IInv
<1>2. QED BY <1>1, IInvHolds, PTL

(* Write events are subscribed exactly while output is waiting             *)
(* (handleWrite :158, sendInLoop :124).                                    *)
THEOREM WriteInterestHolds == ASSUME Disciplined PROVE Spec => []WriteInterest
<1>1. IInv => WriteInterest
  BY DEF IInv
<1>2. QED BY <1>1, IInvHolds, PTL

(* A half close never cuts off accepted bytes (shutdown :83).              *)
THEOREM HalfCloseHolds ==
  ASSUME Disciplined PROVE Spec => []HalfCloseLosesNothing
<1>1. IInv => HalfCloseLosesNothing
  BY DEF IInv, ShutAfterDrain, HalfCloseLosesNothing
<1>2. QED BY <1>1, IInvHolds, PTL

(* handleClose() reports the end of the connection at most once (:182).    *)
THEOREM CloseOnceHolds == ASSUME Disciplined PROVE Spec => []CloseCallbackOnce
<1>1. IInv => CloseCallbackOnce
  BY DEF IInv, CloseCounted, CloseCallbackOnce
<1>2. QED BY <1>1, IInvHolds, PTL

(* No step leaves CLOSED: shutdown() acts on the state it has checked.     *)
THEOREM ClosedStays == ASSUME Disciplined PROVE Spec => ClosedIsFinal
<1>1. IInv /\ [Next]_vars => [state = "CLOSED" => state' = "CLOSED"]_vars
  <2> SUFFICES ASSUME IInv, Next, state = "CLOSED" PROVE state' = "CLOSED"
    BY DEF vars
  <2> USE DEF out, peer, calls
  <2>1. CASE Handlers
    <3>1. ~ ConnectEstablished
      BY DEF ConnectEstablished, LoopStep, LoopAt, IInv, Control
    <3>2. QED
      BY <2>1, <3>1
      DEF Handlers, EventDone, CloseEvent, HandleClose, ErrorEvent, ReadData,
          ReadNothing, WriteNothing, WriteData, RetrieveAndDisable, Drained,
          SendWrite, SendAppend, UserReturns
  <2>2. ASSUME NEW t \in Threads, ShutdownGoesOn(t) PROVE state' = "CLOSED"
    <3>1. t = LoopThread
      BY <2>2
      DEF ShutdownGoesOn, ShutdownMark, ShutdownWrite, IInv, CheckedState, Threads
    <3>2. ~ ShutdownMark(t)
      BY <3>1 DEF ShutdownMark, IInv, CheckedState
    <3>3. QED BY <2>2, <3>2 DEF ShutdownGoesOn, ShutdownWrite
  <2>3. CASE UserCall
    BY <2>3 DEF UserCall, SendLocally, SendRemotely, Shutdown
  <2>4. CASE Peer
    BY <2>4 DEF Peer, PeerSends, PeerClosesDown, PeerResetsDown, PeerDrains
  <2>5. CASE Dispatch \/ RunTask \/ EnterUserCode
    BY <2>5 DEF Dispatch, RunTask, EnterUserCode
  <2>6. QED BY <2>1, <2>2, <2>3, <2>4, <2>5 DEF Next
<1>2. QED BY <1>1, IInvHolds, PTL DEF Spec, ClosedIsFinal

(* A step that raises SIGPIPE is a write() after a reset; resets are final. *)
LEMMA OwnWritesStep ==
  IInv /\ OwnWritesSucceed /\ [Next]_vars => OwnWritesSucceed'
<1> SUFFICES ASSUME IInv, sigpipe => rst, [Next]_vars PROVE sigpipe' => rst'
  BY DEF OwnWritesSucceed
<1> USE DEF out, peer, calls
<1>1. ASSUME Handlers PROVE sigpipe' => rst'
  <2>1. CASE SendWrite
    <3>1. rst \/ WriteWorks
      BY <2>1
      DEF SendWrite, LoopStep, LoopAt, IInv, CheckedState, ShutAfterDrain,
          WriteWorks
    <3>2. QED BY <2>1, <3>1 DEF SendWrite
  <2>2. CASE WriteNothing
    <3>1. rst \/ outbuf = << >> \/ WriteWorks
      BY DEF IInv, ShutAfterDrain, WriteWorks
    <3>2. QED BY <2>2, <3>1 DEF WriteNothing
  <2>3. QED
    BY <1>1, <2>1, <2>2
    DEF Handlers, ConnectEstablished, EventDone, CloseEvent, ErrorEvent,
        ReadData, ReadNothing, WriteData, RetrieveAndDisable, Drained,
        SendAppend, UserReturns
<1>2. ASSUME UserCall PROVE sigpipe' => rst'
  BY <1>2 DEF UserCall, SendLocally, SendRemotely, Shutdown
<1>3. ASSUME NEW t \in Threads, ShutdownGoesOn(t) PROVE sigpipe' => rst'
  BY <1>3 DEF ShutdownGoesOn, ShutdownMark, ShutdownWrite
<1>4. ASSUME Peer PROVE sigpipe' => rst'
  BY <1>4 DEF Peer, PeerSends, PeerClosesDown, PeerResetsDown, PeerDrains
<1>5. ASSUME Dispatch \/ RunTask \/ EnterUserCode \/ UNCHANGED vars
      PROVE  sigpipe' => rst'
  BY <1>5 DEF Dispatch, RunTask, EnterUserCode, vars
<1>6. QED BY <1>1, <1>2, <1>3, <1>4, <1>5 DEF Next

(* No write() follows SHUT_WR (:88-95): as long as the peer does not reset *)
(* the connection, SIGPIPE never ends the process.                         *)
THEOREM OwnWritesHold == ASSUME Disciplined PROVE Spec => []OwnWritesSucceed
<1>1. Init => OwnWritesSucceed
  BY DEF Init, OwnWritesSucceed
<1>2. QED BY <1>1, OwnWritesStep, IInvHolds, PTL DEF Spec

-----------------------------------------------------------------------------
(* TcpConnection implements GracefulStream.                                *)

LEMMA Prefix ==
  ASSUME NEW S, NEW a \in Seq(S), NEW x \in Seq(S), NEW y \in Seq(S)
  PROVE  /\ a = SubSeq((a \o x) \o y, 1, Len(a))
         /\ Len(a) \in 0..Len((a \o x) \o y)
<1>1. /\ a \o x \in Seq(S) /\ (a \o x) \o y \in Seq(S)
      /\ Len((a \o x) \o y) = Len(a) + Len(x) + Len(y)
      /\ Len(a) \in Nat /\ Len(x) \in Nat /\ Len(y) \in Nat
  BY ConcatProperties, LenProperties
<1>2. \A i \in 1..Len(a) : ((a \o x) \o y)[i] = a[i]
  <2> SUFFICES ASSUME NEW i \in 1..Len(a) PROVE ((a \o x) \o y)[i] = a[i]
    OBVIOUS
  <2>1. Len(a \o x) = Len(a) + Len(x)
    BY ConcatProperties
  <2>2. i \in 1..Len(a \o x)
    BY <1>1, <2>1
  <2>3. ((a \o x) \o y)[i] = (a \o x)[i] /\ (a \o x)[i] = a[i]
    BY <1>1, <2>1, <2>2, ConcatProperties
  <2>4. QED BY <2>3
<1>3. QED
  <2> DEFINE s == (a \o x) \o y
             b == SubSeq(s, 1, Len(a))
  <2>1. s \in Seq(S) /\ Len(a) \in 0..Len(s)
    BY <1>1
  <2>2. b \in Seq(S) /\ Len(b) = Len(a)
    BY <2>1, Split
  <2>3. \A i \in 1..Len(a) : b[i] = s[i]
    BY <2>1, <1>1, SubSeqProperties
  <2>4. \A i \in 1..Len(a) : b[i] = a[i]
    BY <1>2, <2>3
  <2> HIDE DEF b
  <2>5. a = b
    BY <2>2, <2>4, SeqEqual
  <2>6. QED BY <2>1, <2>5 DEF b

(* write() hands over the next bytes of what has been accepted,            *)
LEMMA TransmitStep ==
  ASSUME IInv, StreamInOrder', TypeOK', NEW bytes \in Seq(Messages),
         WriteSome(bytes), WriteWorks, UNCHANGED <<accepted, wrShut, rst>>
  PROVE  Stream!Transmit
<1> DEFINE left == SubSeq(outbuf', flushed' + 1, Len(outbuf'))
<1>1. /\ wire' \in Seq(Messages) /\ left \in Seq(Messages)
      /\ rest' \in Seq(Messages) /\ Len(wire) \in Nat
  BY Split, LenProperties DEF TypeOK, IInv
<1>2. accepted = (wire' \o left) \o rest'
  BY DEF StreamInOrder, WriteWorks
<1>3. wire' = SubSeq(accepted, 1, Len(wire')) /\ Len(wire') \in 0..Len(accepted)
  <2> HIDE DEF left
  <2>1. QED BY <1>1, <1>2, Prefix
<1>4. Len(wire) <= Len(wire')
  <2> DEFINE taken == SubSeq(bytes, 1, WriteCount(bytes))
  <2>1. taken \in Seq(Messages) /\ wire' = wire \o taken /\ wire \in Seq(Messages)
    BY WriteCountBounds, Split DEF WriteSome, IInv, TypeOK
  <2>2. Len(wire \o taken) = Len(wire) + Len(taken) /\ Len(taken) \in Nat
    <3> HIDE DEF taken
    <3>1. QED BY <2>1, ConcatProperties, LenProperties
  <2>3. QED BY <1>1, <2>1, <2>2
<1>5. Len(wire') \in Len(wire)..Len(accepted)
  BY <1>1, <1>3, <1>4
<1>6. QED BY <1>3, <1>5 DEF Stream!Transmit, WriteWorks

(* sendInLoop() accepts,                                                   *)
LEMMA AcceptStep ==
  ASSUME IInv, NEW m \in Messages, BeginSend(m), UNCHANGED <<wire, wrShut>>
  PROVE  [Stream!Next]_(Stream!vars)
<1>1. CASE state = "CONNECTED"
  <2>1. ~ wrShut
    BY <1>1 DEF IInv, ShutAfterDrain
  <2>2. accepted' = accepted \o Stream!Content(m)
    BY <1>1 DEF BeginSend, Content, Stream!Content
  <2>3. QED BY <2>1, <2>2 DEF Stream!Next, Stream!Accept
<1>2. CASE state # "CONNECTED"
  BY <1>2 DEF BeginSend, Stream!vars
<1>3. QED BY <1>1, <1>2

(* and SHUT_WR finishes a stream that has left completely.                 *)
LEMMA FinishStep ==
  ASSUME IInv, ShutWr, outbuf = << >>, rest = << >>, UNCHANGED <<accepted, wire>>
  PROVE  [Stream!Next]_(Stream!vars)
<1>1. CASE rst
  BY <1>1 DEF ShutWr, Stream!vars
<1>2. CASE ~ rst
  <2>1. Len(outbuf) = 0 /\ flushed \in 0..Len(outbuf) /\ wire \in Seq(Messages)
    BY EmptySeq DEF IInv, TypeOK
  <2>2. SubSeq(outbuf, flushed + 1, Len(outbuf)) = << >>
    BY <2>1, SubSeqEmpty
  <2>3. accepted = wire
    BY <1>2, <2>1, <2>2, ConcatEmptySeq DEF IInv, StreamInOrder
  <2>4. QED BY <1>2, <2>3 DEF ShutWr, Stream!Next, Stream!Finish
<1>3. QED BY <1>1, <1>2

LEMMA RefinementStep ==
  ASSUME Disciplined
  PROVE  IInv /\ IInv' /\ [Next]_vars => [Stream!Next]_(Stream!vars)
<1> SUFFICES ASSUME IInv, IInv', [Next]_vars PROVE [Stream!Next]_(Stream!vars)
  OBVIOUS
<1> USE DEF out, peer, calls
<1>1. ASSUME Handlers PROVE [Stream!Next]_(Stream!vars)
  <2>1. CASE WriteData
    <3>1. Stream!Transmit
      BY <2>1, TransmitStep DEF WriteData, IInv, TypeOK
    <3>2. QED BY <3>1 DEF Stream!Next
  <2>2. CASE SendWrite
    <3>1. CASE outbuf = << >> /\ WriteWorks
      <4>1. Stream!Transmit
        BY <2>2, <3>1, TransmitStep DEF SendWrite, IInv, TypeOK
      <4>2. QED BY <4>1 DEF Stream!Next
    <3>2. CASE ~ (outbuf = << >> /\ WriteWorks)
      BY <2>2, <3>2 DEF SendWrite, Stream!vars
    <3>3. QED BY <3>1, <3>2
  <2>3. CASE Drained
    <3>1. outbuf = << >> /\ rest = << >> /\ UNCHANGED <<accepted, wire>>
      BY <2>3 DEF Drained, LoopStep, LoopAt, IInv, Control
    <3>2. CASE state = "DISCONNECTED"
      BY <2>3, <3>1, <3>2, FinishStep DEF Drained
    <3>3. CASE state # "DISCONNECTED"
      BY <2>3, <3>3 DEF Drained, Stream!vars
    <3>4. QED BY <3>2, <3>3
  <2>4. QED
    BY <1>1, <2>1, <2>2, <2>3
    DEF Handlers, ConnectEstablished, EventDone, CloseEvent, ErrorEvent,
        ReadData, ReadNothing, WriteNothing, RetrieveAndDisable, SendAppend,
        UserReturns, Stream!vars
<1>2. ASSUME RunTask PROVE [Stream!Next]_(Stream!vars)
  <2>1. Head(tasks) \in Messages
    BY <1>2, HeadTailProperties DEF RunTask, FQ!Execute, IInv, TypeOK
  <2>2. QED BY <1>2, <2>1, AcceptStep DEF RunTask
<1>3. ASSUME UserCall PROVE [Stream!Next]_(Stream!vars)
  <2>1. ASSUME NEW m \in Messages, SendLocally(m)
        PROVE  [Stream!Next]_(Stream!vars)
    BY <2>1, AcceptStep DEF SendLocally
  <2>2. ASSUME NEW m \in Messages, NEW t \in OtherThreads, SendRemotely(t, m)
        PROVE  UNCHANGED Stream!vars
    BY <2>2 DEF SendRemotely, Stream!vars
  <2>3. ASSUME NEW t \in Threads, Shutdown(t) PROVE UNCHANGED Stream!vars
    BY <2>3 DEF Shutdown, Stream!vars
  <2>4. QED BY <1>3, <2>1, <2>2, <2>3 DEF UserCall
<1>4. ASSUME NEW t \in Threads, ShutdownGoesOn(t)
      PROVE  [Stream!Next]_(Stream!vars)
  <2>1. CASE ShutdownMark(t)
    BY <2>1 DEF ShutdownMark, Stream!vars
  <2>2. CASE ShutdownWrite(t)
    <3>1. rest = << >> /\ UNCHANGED <<accepted, wire>>
      BY <2>2 DEF ShutdownWrite, IInv, CheckedState, Control, Threads
    <3>2. CASE outbuf = << >>
      BY <2>2, <3>1, <3>2, FinishStep DEF ShutdownWrite
    <3>3. CASE outbuf # << >>
      BY <2>2, <3>3 DEF ShutdownWrite, Stream!vars
    <3>4. QED BY <3>2, <3>3
  <2>3. QED BY <1>4, <2>1, <2>2 DEF ShutdownGoesOn
<1>5. ASSUME Peer PROVE UNCHANGED Stream!vars
  BY <1>5
  DEF Peer, PeerSends, PeerClosesDown, PeerResetsDown, PeerDrains, Stream!vars
<1>6. ASSUME Dispatch \/ EnterUserCode \/ UNCHANGED vars
      PROVE  UNCHANGED Stream!vars
  BY <1>6 DEF Dispatch, EnterUserCode, vars, Stream!vars
<1>7. QED BY <1>1, <1>2, <1>3, <1>4, <1>5, <1>6 DEF Next

(* The outgoing direction of a connection is the ordered, gracefully       *)
(* closed stream that GracefulStream specifies.                            *)
THEOREM Refinement == ASSUME Disciplined PROVE Spec => RefinesGracefulStream
<1>1. Init => Stream!Init
  BY DEF Init, Stream!Init
<1>2. QED
  BY <1>1, RefinementStep, IInvHolds, PTL
  DEF Spec, RefinesGracefulStream, Stream!Spec
=============================================================================
