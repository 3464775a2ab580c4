-------------------------- MODULE ByteBufferProofs --------------------------
(***************************************************************************)
(* Proofs for ByteBuffer, for any sizes and any bytes.                     *)
(***************************************************************************)
EXTENDS ByteBuffer, BufferProofs

-----------------------------------------------------------------------------
(* The invariant.                                                          *)

(* The bytes of one call.                                                  *)
LEMMA StringType ==
  ASSUME NEW data \in Strings
  PROVE  data \in Seq(Bytes) /\ Len(data) \in 0..MaxLen
<1>1. PICK n \in 0..MaxLen : data \in [1..n -> Bytes]
  BY DEF Strings
<1>2. n \in Nat
  BY SizesAssumption
<1>3. data \in Seq(Bytes) /\ Len(data) = n
  BY <1>1, <1>2, FunctionIsSeq
<1>4. QED BY <1>1, <1>3

LEMMA InitIInv == Init => IInv
<1> SUFFICES ASSUME Init PROVE IInv
  OBVIOUS
<1>1. buf = New /\ taken \in Seq(Bytes)
  BY EmptySeq DEF Init
<1>2. /\ RoomForHeader /\ WaitingBounded /\ EmptyHasHeadroom
      /\ MemoryFollowsDemand
  BY <1>1, NewProperties, SizesAssumption, BoundsAssumption
  DEF RoomForHeader, WaitingBounded, EmptyHasHeadroom, MemoryFollowsDemand,
      MemoryLimit
<1>3. QED BY <1>1, <1>2, NewProperties DEF IInv, TypeOK

(* A buffer e with room for data, made from buf, keeps the invariant when  *)
(* data is put into it: append() and readFd().                             *)
LEMMA FillIInv ==
  ASSUME IInv, NEW len \in Nat, NEW data \in Strings,
         len \in {Len(data), READ_MIN}, Fits(data),
         Len(data) <= Writable(EnsureWritable(buf, len)),
         buf' = Filled(EnsureWritable(buf, len), data), UNCHANGED taken
  PROVE  IInv' /\ BQ!AppendData(data)
<1> DEFINE e == EnsureWritable(buf, len)
<1>1. IsBuffer(buf) /\ data \in Seq(Bytes) /\ Len(data) \in 0..MaxLen
  BY StringType DEF IInv, TypeOK
<1>2. /\ IsBuffer(e) /\ Content(e) = Content(buf)
      /\ e.reader = buf.reader \/ (buf.reader > PREPEND /\ e.reader = PREPEND)
      /\ Len(e.mem) >= Len(buf.mem)
      /\ Len(e.mem) = Len(buf.mem) \/ Len(e.mem) < PREPEND + 2 * len + Readable(buf)
  BY <1>1, EnsureProperties
<1>3. buf' = Filled(e, data) /\ Len(data) <= Writable(e)
  OBVIOUS
<1> HIDE DEF e
<1>4. /\ IsBuffer(buf') /\ Content(buf') = Content(buf) \o data
      /\ buf'.reader = e.reader /\ Len(buf'.mem) = Len(e.mem)
      /\ Readable(buf') = Readable(e) + Len(data)
  BY <1>1, <1>2, <1>3, FilledProperties
<1>5. Readable(e) = Readable(buf)
  <2>1. Len(Content(e)) = Readable(e) /\ Len(Content(buf)) = Readable(buf)
    BY <1>1, <1>2, ContentProperties
  <2>2. QED BY <1>2, <2>1
<1>6. /\ Readable(buf) \in Nat /\ Len(buf.mem) \in Nat /\ Len(e.mem) \in Nat
      /\ buf.reader \in Nat
  BY <1>1, <1>2, BufferNumbers
<1>7. WaitingBounded' /\ RoomForHeader' /\ TypeOK'
  <2>1. Readable(buf') <= MaxWaiting
    BY <1>4, <1>5 DEF Fits
  <2>2. PREPEND <= Len(buf'.mem)
    BY <1>2, <1>4, <1>6, SizesAssumption, BoundsAssumption DEF IInv, RoomForHeader
  <2>3. QED BY <1>4, <2>1, <2>2 DEF WaitingBounded, RoomForHeader, IInv, TypeOK
<1>8. EmptyHasHeadroom'
  <2>1. Readable(buf') = 0 => Readable(buf) = 0
    BY <1>1, <1>4, <1>5, <1>6
  <2>2. QED BY <1>2, <1>4, <2>1 DEF IInv, EmptyHasHeadroom
<1>9. MemoryFollowsDemand'
  <2>1. Readable(buf) + Len(data) <= MaxWaiting
    BY DEF Fits
  <2>2. CASE Len(e.mem) = Len(buf.mem)
    BY <1>4, <2>2 DEF IInv, MemoryFollowsDemand
  <2>3. CASE Len(e.mem) < PREPEND + 2 * len + Readable(buf)
    <3>1. CASE len = Len(data)
      BY <1>1, <1>4, <1>6, <2>1, <2>3, <3>1, SizesAssumption, BoundsAssumption
      DEF MemoryFollowsDemand, MemoryLimit
    <3>2. CASE len = READ_MIN
      BY <1>1, <1>4, <1>6, <2>1, <2>3, <3>2, SizesAssumption, BoundsAssumption
      DEF MemoryFollowsDemand, MemoryLimit
    <3>3. QED BY <3>1, <3>2
  <2>4. QED BY <1>2, <2>2, <2>3
<1>10. BQ!AppendData(data)
  BY <1>2, <1>4 DEF BQ!AppendData
<1>11. QED BY <1>7, <1>8, <1>9, <1>10 DEF IInv

(* A change of the indices alone: retrieve() and its relatives.            *)
LEMMA IndexIInv ==
  ASSUME IInv, IsBuffer(buf'), buf'.mem = buf.mem, taken' \in Seq(Bytes),
         Readable(buf') <= Readable(buf),
         Readable(buf') = 0 => buf'.reader = PREPEND
  PROVE  IInv'
<1>1. Readable(buf) \in Nat /\ Readable(buf') \in Nat
  BY BufferNumbers DEF IInv, TypeOK
<1>2. WaitingBounded'
  BY <1>1, SizesAssumption, BoundsAssumption DEF IInv, WaitingBounded
<1>3. QED
  BY <1>2
  DEF IInv, TypeOK, EmptyHasHeadroom, MemoryFollowsDemand, RoomForHeader,
      WaitingBounded

LEMMA PrependIInv ==
  ASSUME IInv, NEW data \in Strings, PrependData(data)
  PROVE  IInv' /\ BQ!PrependData(data)
<1>1. IsBuffer(buf) /\ data \in Seq(Bytes) /\ Len(data) \in 0..MaxLen
  BY StringType DEF IInv, TypeOK
<1>2. Readable(buf) \in Nat /\ buf.reader \in Nat
  BY <1>1, BufferNumbers
<1>3. buf' = Prepended(buf, data) /\ taken' = taken
  BY DEF PrependData
<1>4. CASE Len(data) <= buf.reader
  <2>1. /\ IsBuffer(buf') /\ Content(buf') = data \o Content(buf)
        /\ buf'.reader = buf.reader - Len(data) /\ Len(buf'.mem) = Len(buf.mem)
        /\ Readable(buf') = Readable(buf) + Len(data)
    BY <1>1, <1>3, <1>4, PrependedProperties
  <2>2. WaitingBounded'
    BY <2>1 DEF PrependData, Fits, WaitingBounded
  <2>3. EmptyHasHeadroom'
    <3>1. Readable(buf') = 0 => Readable(buf) = 0 /\ Len(data) = 0
      BY <1>1, <1>2, <2>1
    <3>2. Len(data) = 0 => buf'.reader = buf.reader
      BY <1>2, <2>1
    <3>3. QED BY <3>1, <3>2 DEF IInv, EmptyHasHeadroom
  <2>4. IInv'
    BY <1>3, <2>1, <2>2, <2>3
    DEF IInv, TypeOK, MemoryFollowsDemand, RoomForHeader
  <2>5. BQ!PrependData(data)
    BY <1>3, <1>4, <2>1 DEF BQ!PrependData
  <2>6. QED BY <2>4, <2>5
<1>5. CASE Len(data) > buf.reader
  <2>1. buf' = buf
    BY <1>3, <1>5 DEF Prepended, Prependable
  <2>2. IInv'
    BY <1>3, <2>1
    DEF IInv, TypeOK, EmptyHasHeadroom, MemoryFollowsDemand, RoomForHeader,
        WaitingBounded
  <2>3. ~ (Len(data) <= buf.reader)
    BY <1>1, <1>2, <1>5
  <2>4. BQ!PrependData(data)
    BY <1>3, <2>1, <2>3 DEF BQ!PrependData
  <2>5. QED BY <2>2, <2>4
<1>6. QED BY <1>1, <1>2, <1>4, <1>5

(* retrieve(n) drops n bytes, all of them, or none if there are fewer.     *)
LEMMA RetrieveIInv ==
  ASSUME IInv, NEW n \in Nat, buf' = Retrieved(buf, n), taken' \in Seq(Bytes)
  PROVE  IInv' /\ BQ!Drop(n)
<1>1. /\ IsBuffer(buf) /\ Readable(buf) \in Nat /\ Len(buf.mem) \in Nat
      /\ PREPEND <= Len(buf.mem) /\ Len(Content(buf)) = Readable(buf)
  BY BufferNumbers, ContentProperties DEF IInv, TypeOK, RoomForHeader
<1>2. CASE n > Readable(buf)
  <2>1. buf' = buf
    BY <1>1, <1>2 DEF Retrieved
  <2>2. IInv'
    BY <1>1, <2>1, IndexIInv DEF IInv, EmptyHasHeadroom
  <2>3. BQ!Drop(n)
    <3>1. n > Len(Content(buf)) /\ n # Len(Content(buf))
          /\ ~ (n < Len(Content(buf)))
      BY <1>1, <1>2
    <3>2. QED BY <2>1, <3>1 DEF BQ!Drop
  <2>4. QED BY <2>2, <2>3
<1>3. CASE n < Readable(buf)
  <2>1. /\ IsBuffer(buf') /\ buf'.mem = buf.mem
        /\ Content(buf') = SubSeq(Content(buf), n + 1, Readable(buf))
        /\ buf'.reader = buf.reader + n /\ Readable(buf') = Readable(buf) - n
    BY <1>1, <1>3, AdvancedProperties
  <2>2. IInv'
    BY <1>1, <1>3, <2>1, IndexIInv
  <2>3. BQ!Drop(n)
    <3>1. ~ (n > Len(Content(buf))) /\ n # Len(Content(buf))
          /\ n < Len(Content(buf))
      BY <1>1, <1>3
    <3>2. QED BY <1>1, <2>1, <3>1 DEF BQ!Drop
  <2>4. QED BY <2>2, <2>3
<1>4. CASE n = Readable(buf)
  <2>1. buf' = Cleared(buf)
    BY <1>1, <1>4 DEF Retrieved
  <2>2. /\ IsBuffer(buf') /\ Content(buf') = << >> /\ buf'.reader = PREPEND
        /\ buf'.mem = buf.mem /\ Readable(buf') = 0
    BY <1>1, <2>1, ClearedProperties
  <2>3. IInv'
    BY <1>1, <2>2, IndexIInv
  <2>4. BQ!Drop(n)
    <3>1. ~ (n > Len(Content(buf))) /\ n = Len(Content(buf))
          /\ ~ (n < Len(Content(buf)))
      BY <1>1, <1>4
    <3>2. QED BY <2>2, <3>1 DEF BQ!Drop
  <2>5. QED BY <2>3, <2>4
<1>5. QED BY <1>1, <1>2, <1>3, <1>4

LEMMA NextStep ==
  IInv /\ [Next]_vars => IInv' /\ [BQ!Next]_(BQ!vars)
<1> SUFFICES ASSUME IInv, [Next]_vars PROVE IInv' /\ [BQ!Next]_(BQ!vars)
  OBVIOUS
<1>b. /\ IsBuffer(buf) /\ Readable(buf) \in Nat
      /\ Len(Content(buf)) = Readable(buf) /\ Readable(buf) <= MaxWaiting
  BY BufferNumbers, ContentProperties DEF IInv, TypeOK, WaitingBounded
<1>1. ASSUME NEW data \in Strings, AppendData(data)
      PROVE  IInv' /\ BQ!Next
  <2>1. Len(data) \in Nat
    BY StringType
  <2>2. Len(data) <= Writable(EnsureWritable(buf, Len(data)))
    <3>1. Writable(EnsureWritable(buf, Len(data))) >= Len(data)
          /\ IsBuffer(EnsureWritable(buf, Len(data)))
      BY <1>b, <2>1, EnsureProperties
    <3>2. Writable(EnsureWritable(buf, Len(data))) \in Nat
      BY <3>1, BufferNumbers
    <3>3. QED BY <2>1, <3>1, <3>2
  <2>3. IInv' /\ BQ!AppendData(data)
    BY <1>1, <2>1, <2>2, FillIInv DEF AppendData, Appended
  <2>4. QED BY <2>3 DEF BQ!Next
<1>2. ASSUME NEW data \in Strings, PrependData(data)
      PROVE  IInv' /\ BQ!Next
  BY <1>2, PrependIInv DEF BQ!Next
<1>3. ASSUME NEW data \in Strings, ReadFd(data)
      PROVE  IInv' /\ BQ!Next
  <2>1. IInv' /\ BQ!AppendData(data)
    BY <1>3, SizesAssumption, BoundsAssumption, FillIInv DEF ReadFd
  <2>2. QED BY <2>1 DEF BQ!Next
<1>4. ASSUME NEW n \in Lengths, Retrieve(n)
      PROVE  IInv' /\ BQ!Next
  <2>1. n \in Nat /\ buf' = Retrieved(buf, n) /\ taken' = taken
    BY <1>4, SizesAssumption, BoundsAssumption DEF Retrieve, Lengths
  <2>2. IInv' /\ BQ!Drop(n)
    BY <2>1, RetrieveIInv DEF IInv, TypeOK
  <2>3. QED BY <2>1, <2>2 DEF BQ!Next, BQ!Retrieve
<1>5. ASSUME NEW n \in Lengths, RetrieveAsString(n)
      PROVE  IInv' /\ BQ!Next
  <2>0. n \in Nat
    BY SizesAssumption, BoundsAssumption DEF Lengths
  <2>1. CASE n > Readable(buf)
    <3>1. buf' = Retrieved(buf, n) /\ taken' = << >> /\ taken' \in Seq(Bytes)
      BY <1>b, <1>5, <2>0, <2>1, EmptySeq DEF RetrieveAsString, Retrieved
    <3>2. IInv' /\ BQ!Drop(n)
      BY <2>0, <3>1, RetrieveIInv
    <3>3. BQ!RetrieveAsString(n)
      BY <1>b, <2>1, <3>1, <3>2 DEF BQ!RetrieveAsString
    <3>4. QED BY <3>2, <3>3 DEF BQ!Next
  <2>2. CASE ~ (n > Readable(buf))
    <3>1. buf' = Retrieved(buf, n)
      BY <1>5, <2>2 DEF RetrieveAsString
    <3>2. taken' = SubSeq(Content(buf), 1, n) /\ taken' \in Seq(Bytes)
      <4>1. taken' = [i \in 1..n |-> buf.mem[buf.reader + i]]
        BY <1>5, <2>2 DEF RetrieveAsString
      <4>2. n <= Readable(buf)
        BY <1>b, <2>0, <2>2
      <4>3. QED BY <1>b, <2>0, <4>1, <4>2, TakenString
    <3>3. IInv' /\ BQ!Drop(n)
      BY <2>0, <3>1, <3>2, RetrieveIInv
    <3>4. BQ!RetrieveAsString(n)
      BY <1>b, <2>2, <3>2, <3>3 DEF BQ!RetrieveAsString
    <3>5. QED BY <3>3, <3>4 DEF BQ!Next
  <2>3. QED BY <2>1, <2>2
<1>6. ASSUME RetrieveAll PROVE IInv' /\ BQ!Next
  <2> DEFINE n == Readable(buf)
  <2>1. n \in Lengths /\ n \in Nat
    BY <1>b, SizesAssumption, BoundsAssumption DEF Lengths
  <2>2. buf' = Retrieved(buf, n) /\ taken' = taken
    <3>1. ~ (n > n) /\ ~ (n < n)
      BY <2>1
    <3>2. QED BY <1>6, <3>1 DEF RetrieveAll, Retrieved
  <2>3. IInv' /\ BQ!Drop(n)
    BY <2>1, <2>2, RetrieveIInv DEF IInv, TypeOK
  <2>4. QED BY <2>1, <2>2, <2>3 DEF BQ!Next, BQ!Retrieve
<1>7. ASSUME UNCHANGED vars PROVE IInv' /\ UNCHANGED BQ!vars
  BY <1>7
  DEF vars, BQ!vars, IInv, TypeOK, EmptyHasHeadroom, MemoryFollowsDemand,
      RoomForHeader, WaitingBounded
<1>8. QED BY <1>1, <1>2, <1>3, <1>4, <1>5, <1>6, <1>7 DEF Next

LEMMA IInvHolds == Spec => []IInv
  BY InitIInv, NextStep, PTL DEF Spec

(* reader_index_ <= writer_index_ <= size(): no size_t difference wraps,   *)
(* no copy leaves the vector.                                              *)
THEOREM TypeCorrect == Spec => []TypeOK
<1>1. IInv => TypeOK
  BY DEF IInv
<1>2. QED BY <1>1, IInvHolds, PTL

(* An empty buffer has the whole header room in front of it.               *)
THEOREM HeadroomHolds == Spec => []EmptyHasHeadroom
<1>1. IInv => EmptyHasHeadroom
  BY DEF IInv
<1>2. QED BY <1>1, IInvHolds, PTL

(* The vector is bounded by what waits, however much passes through.       *)
THEOREM MemoryHolds == Spec => []MemoryFollowsDemand
<1>1. IInv => MemoryFollowsDemand
  BY DEF IInv
<1>2. QED BY <1>1, IInvHolds, PTL

(* append(), prepend(), readFd() and the retrieve family, with growth and  *)
(* compaction, implement a queue of bytes with room for a header.          *)
THEOREM Refinement == Spec => RefinesByteQueue
<1>1. Init => BQ!Init
  BY NewProperties DEF Init, BQ!Init
<1>2. QED
  BY <1>1, NextStep, IInvHolds, PTL DEF Spec, RefinesByteQueue, BQ!Spec
=============================================================================
