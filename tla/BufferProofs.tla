---------------------------- MODULE BufferProofs ----------------------------
(***************************************************************************)
(* What each method of ByteBuffer does to the readable bytes, the indices  *)
(* and the vector, for any sizes and any bytes.                            *)
(***************************************************************************)
EXTENDS Buffer, SequenceTheorems, TLAPS

-----------------------------------------------------------------------------
(* A function on 1..n is a sequence of length n.                           *)
LEMMA FunctionIsSeq ==
  ASSUME NEW S, NEW n \in Nat, NEW f \in [1..n -> S]
  PROVE  f \in Seq(S) /\ Len(f) = n
<1>1. f \in Seq(S)
  BY SeqDef
<1>2. QED BY <1>1, LenProperties

-----------------------------------------------------------------------------
(* The methods.                                                            *)

(* Copying changes the cells it is told to, and never the size.            *)
LEMMA WriteProperties ==
  ASSUME NEW mem \in Seq(Bytes), NEW data \in Seq(Bytes), NEW at \in Nat
  PROVE  /\ Write(mem, at, data) \in Seq(Bytes)
         /\ Len(Write(mem, at, data)) = Len(mem)
         /\ \A i \in 1..Len(mem) :
              Write(mem, at, data)[i] =
                IF i \in at + 1 .. at + Len(data) THEN data[i - at] ELSE mem[i]
<1> DEFINE w == Write(mem, at, data)
<1>1. Len(mem) \in Nat /\ Len(data) \in Nat
  BY LenProperties
<1>2. /\ \A i \in 1..Len(mem) : mem[i] \in Bytes
      /\ \A i \in 1..Len(data) : data[i] \in Bytes
  BY ElementOfSeq
<1>3. \A i \in at + 1 .. at + Len(data) : i - at \in 1..Len(data)
  BY <1>1
<1>4. w \in [1..Len(mem) -> Bytes]
  BY <1>2, <1>3 DEF Write
<1>5. w \in Seq(Bytes) /\ Len(w) = Len(mem)
  BY <1>1, <1>4, FunctionIsSeq
<1>6. QED BY <1>5 DEF Write

(* The numbers of a buffer.                                                *)
LEMMA BufferNumbers ==
  ASSUME NEW b, IsBuffer(b)
  PROVE  /\ b.mem \in Seq(Bytes) /\ Len(b.mem) \in Nat
         /\ b.reader \in Nat /\ b.writer \in Nat
         /\ b.reader <= b.writer /\ b.writer <= Len(b.mem)
         /\ Readable(b) \in Nat /\ Writable(b) \in Nat
         /\ Readable(b) = b.writer - b.reader
         /\ Writable(b) = Len(b.mem) - b.writer
<1>1. /\ b.mem \in Seq(Bytes) /\ b.reader \in Nat /\ b.writer \in Nat
      /\ b.reader <= b.writer /\ b.writer <= Len(b.mem)
  BY DEF IsBuffer
<1>2. Len(b.mem) \in Nat
  BY <1>1, LenProperties
<1>3. QED BY <1>1, <1>2 DEF Readable, Writable

(* The waiting bytes are a string of the expected length.                  *)
LEMMA ContentProperties ==
  ASSUME NEW b, IsBuffer(b)
  PROVE  /\ Content(b) \in Seq(Bytes) /\ Len(Content(b)) = Readable(b)
         /\ \A i \in 1..Readable(b) : Content(b)[i] = b.mem[b.reader + i]
<1> DEFINE c == Content(b)
<1>1. \A i \in 1..Readable(b) : b.mem[b.reader + i] \in Bytes
  <2> SUFFICES ASSUME NEW i \in 1..Readable(b)
               PROVE  b.mem[b.reader + i] \in Bytes
    OBVIOUS
  <2>1. b.reader + i \in 1..Len(b.mem)
    BY BufferNumbers
  <2>2. QED BY <2>1, BufferNumbers, ElementOfSeq
<1>2. c \in [1..Readable(b) -> Bytes]
  BY <1>1 DEF Content
<1>3. c \in Seq(Bytes) /\ Len(c) = Readable(b)
  BY <1>2, BufferNumbers, FunctionIsSeq
<1>4. QED BY <1>3 DEF Content

(* Two strings in memory are equal if they are equal cell by cell.         *)
LEMMA SameContent ==
  ASSUME NEW b, IsBuffer(b), NEW c \in Seq(Bytes), Len(c) = Readable(b),
         \A i \in 1..Readable(b) : b.mem[b.reader + i] = c[i]
  PROVE  Content(b) = c
<1> DEFINE d == Content(b)
<1>1. d \in Seq(Bytes) /\ Len(d) = Len(c)
  BY ContentProperties
<1>2. \A i \in 1..Len(d) : d[i] = c[i]
  BY ContentProperties
<1> HIDE DEF d
<1>3. d = c
  BY <1>1, <1>2, SeqEqual
<1>4. QED BY <1>3 DEF d

(* resize() keeps the bytes where they are and makes the room asked for.   *)
LEMMA ResizedProperties ==
  ASSUME NEW b, IsBuffer(b), NEW len \in Nat, Writable(b) < len
  PROVE  /\ IsBuffer(Resized(b, len)) /\ Content(Resized(b, len)) = Content(b)
         /\ Resized(b, len).reader = b.reader
         /\ Len(Resized(b, len).mem) = b.writer + len
         /\ Writable(Resized(b, len)) = len
<1> DEFINE mem == [i \in 1..(b.writer + len) |->
                     IF i \in 1..Len(b.mem) THEN b.mem[i] ELSE Zero]
           r == Resized(b, len)
<1>1. \A i \in 1..Len(b.mem) : b.mem[i] \in Bytes
  BY BufferNumbers, ElementOfSeq
<1>2. mem \in [1..(b.writer + len) -> Bytes]
  BY <1>1, BytesAssumption
<1>3. b.writer + len \in Nat
  BY BufferNumbers
<1>4. mem \in Seq(Bytes) /\ Len(mem) = b.writer + len
  <2> HIDE DEF mem
  <2>1. QED BY <1>2, <1>3, FunctionIsSeq
<1>5. r.mem = mem /\ r.reader = b.reader /\ r.writer = b.writer
      /\ r \in [mem : Seq(Bytes), reader : Nat, writer : Nat]
  BY <1>4 DEF Resized, IsBuffer
<1>6. IsBuffer(r)
  <2> HIDE DEF mem, r
  <2>1. QED BY <1>4, <1>5, BufferNumbers DEF IsBuffer
<1>7. Content(r) = Content(b)
  <2>1. \A i \in 1..Readable(b) : mem[b.reader + i] = b.mem[b.reader + i]
    BY BufferNumbers
  <2>2. \A i \in 1..Readable(b) : Content(b)[i] = b.mem[b.reader + i]
    BY ContentProperties
  <2> HIDE DEF mem, r
  <2>3. Readable(r) = Readable(b)
    BY <1>5 DEF Readable
  <2>4. \A i \in 1..Readable(r) : r.mem[r.reader + i] = Content(b)[i]
    BY <1>5, <2>1, <2>2, <2>3
  <2>5. Content(b) \in Seq(Bytes) /\ Len(Content(b)) = Readable(r)
    BY <2>3, ContentProperties
  <2>6. QED BY <1>6, <2>4, <2>5, SameContent
<1>8. Writable(r) = len
  <2> HIDE DEF mem, r
  <2>1. QED BY <1>4, <1>5, BufferNumbers DEF Writable
<1>9. QED BY <1>4, <1>5, <1>6, <1>7, <1>8

(* If the vector is not resized, the bytes move to the left (so that the   *)
(* forward copy is right), keep their values and leave the room asked for. *)
LEMMA CompactedProperties ==
  ASSUME NEW b, IsBuffer(b), NEW len \in Nat, Writable(b) < len,
         ~ MustGrow(b, len)
  PROVE  /\ b.reader > PREPEND
         /\ IsBuffer(Compacted(b)) /\ Content(Compacted(b)) = Content(b)
         /\ Compacted(b).reader = PREPEND
         /\ Len(Compacted(b).mem) = Len(b.mem)
         /\ Writable(Compacted(b)) >= len
<1> DEFINE mem == Write(b.mem, PREPEND, Content(b))
           r == Compacted(b)
<1>1. Writable(b) + b.reader >= len + PREPEND /\ b.reader > PREPEND
  <2>1. /\ Writable(b) \in Nat /\ b.reader \in Nat /\ PREPEND \in Nat
    BY BufferNumbers, SizesAssumption
  <2>2. ~ (Writable(b) + b.reader < len + PREPEND)
    BY DEF MustGrow, Prependable
  <2>3. QED BY <2>1, <2>2
<1>n. /\ Len(b.mem) \in Nat /\ b.reader \in Nat /\ b.writer \in Nat
      /\ PREPEND \in Nat /\ Readable(b) = b.writer - b.reader
      /\ Writable(b) = Len(b.mem) - b.writer
      /\ b.reader <= b.writer /\ b.writer <= Len(b.mem)
  BY BufferNumbers, SizesAssumption
<1>2. /\ mem \in Seq(Bytes) /\ Len(mem) = Len(b.mem)
      /\ \A i \in PREPEND + 1 .. PREPEND + Readable(b) :
           mem[i] = Content(b)[i - PREPEND]
  <2>1. /\ Content(b) \in Seq(Bytes) /\ Len(Content(b)) = Readable(b)
        /\ b.mem \in Seq(Bytes) /\ PREPEND \in Nat
    BY ContentProperties, BufferNumbers, SizesAssumption
  <2>2. \A i \in PREPEND + 1 .. PREPEND + Readable(b) : i \in 1..Len(b.mem)
    BY <1>1, <1>n
  <2>3. QED BY <2>1, <2>2, WriteProperties
<1>3. /\ r.mem = mem /\ r.reader = PREPEND /\ r.writer = PREPEND + Readable(b)
      /\ r \in [mem : Seq(Bytes), reader : Nat, writer : Nat]
  BY <1>2, BufferNumbers, SizesAssumption DEF Compacted
<1> HIDE DEF mem, r
<1>4. IsBuffer(r)
  <2>1. r.reader <= r.writer /\ r.writer <= Len(r.mem)
    BY <1>1, <1>2, <1>3, <1>n
  <2>2. QED BY <1>3, <2>1 DEF IsBuffer
<1>5. Content(r) = Content(b)
  <2>1. Readable(r) = Readable(b)
    BY <1>3, BufferNumbers, SizesAssumption DEF Readable
  <2>2. \A i \in 1..Readable(b) : r.mem[r.reader + i] = Content(b)[i]
    <3> SUFFICES ASSUME NEW i \in 1..Readable(b)
                 PROVE  r.mem[r.reader + i] = Content(b)[i]
      OBVIOUS
    <3>1. /\ PREPEND + i \in PREPEND + 1 .. PREPEND + Readable(b)
          /\ (PREPEND + i) - PREPEND = i
      BY BufferNumbers, SizesAssumption
    <3>2. mem[PREPEND + i] = Content(b)[i]
      BY <1>2, <3>1
    <3>3. QED BY <1>3, <3>2
  <2>3. QED BY <1>4, <2>1, <2>2, ContentProperties, SameContent
<1>6. Writable(r) >= len
  <2>1. Writable(r) = Len(r.mem) - r.writer
    BY DEF Writable
  <2>2. QED BY <1>1, <1>2, <1>3, <1>n, <2>1
<1>7. QED BY <1>1, <1>2, <1>3, <1>4, <1>5, <1>6 DEF r

(* ensureWritableBytes() keeps the content, makes the room, keeps the      *)
(* header room, and grows the vector only when dead space does not do.     *)
LEMMA EnsureProperties ==
  ASSUME NEW b, IsBuffer(b), NEW len \in Nat
  PROVE  LET e == EnsureWritable(b, len) IN
         /\ IsBuffer(e) /\ Content(e) = Content(b)
         /\ Writable(e) >= len
         /\ e.reader = b.reader \/ (b.reader > PREPEND /\ e.reader = PREPEND)
         /\ Len(e.mem) >= Len(b.mem)
         /\ \/ Len(e.mem) = Len(b.mem)
            \/ Len(e.mem) < PREPEND + 2 * len + Readable(b)
<1>1. CASE Writable(b) >= len
  BY <1>1 DEF EnsureWritable
<1>2. CASE Writable(b) < len /\ MustGrow(b, len)
  <2>1. EnsureWritable(b, len) = Resized(b, len)
    BY <1>2, BufferNumbers DEF EnsureWritable
  <2>2. b.writer + len < PREPEND + 2 * len + Readable(b)
    BY <1>2, BufferNumbers, SizesAssumption DEF MustGrow, Prependable
  <2>3. b.writer + len >= Len(b.mem)
    BY <1>2, BufferNumbers
  <2>4. QED BY <1>2, <2>1, <2>2, <2>3, ResizedProperties
<1>3. CASE Writable(b) < len /\ ~ MustGrow(b, len)
  <2>1. EnsureWritable(b, len) = Compacted(b)
    BY <1>3, BufferNumbers DEF EnsureWritable
  <2>2. QED BY <1>3, <2>1, CompactedProperties
<1>4. QED BY <1>1, <1>2, <1>3, BufferNumbers

(* What is copied behind the waiting bytes waits behind them.              *)
LEMMA FilledProperties ==
  ASSUME NEW b, IsBuffer(b), NEW data \in Seq(Bytes), Len(data) <= Writable(b)
  PROVE  /\ IsBuffer(Filled(b, data))
         /\ Content(Filled(b, data)) = Content(b) \o data
         /\ Filled(b, data).reader = b.reader
         /\ Len(Filled(b, data).mem) = Len(b.mem)
         /\ Readable(Filled(b, data)) = Readable(b) + Len(data)
<1> DEFINE mem == Write(b.mem, b.writer, data)
           r == Filled(b, data)
           c == Content(b)
<1>n. /\ Len(b.mem) \in Nat /\ b.reader \in Nat /\ b.writer \in Nat
      /\ Readable(b) = b.writer - b.reader /\ Len(data) \in Nat
      /\ b.reader <= b.writer /\ b.writer + Len(data) <= Len(b.mem)
      /\ b.mem \in Seq(Bytes)
  <2>1. Len(data) \in Nat
    BY LenProperties
  <2>2. QED BY <2>1, BufferNumbers
<1>1. /\ mem \in Seq(Bytes) /\ Len(mem) = Len(b.mem)
      /\ \A i \in 1..Len(b.mem) :
           mem[i] = IF i \in b.writer + 1 .. b.writer + Len(data)
                      THEN data[i - b.writer] ELSE b.mem[i]
  BY <1>n, WriteProperties
<1>2. /\ r.mem = mem /\ r.reader = b.reader /\ r.writer = b.writer + Len(data)
      /\ r \in [mem : Seq(Bytes), reader : Nat, writer : Nat]
  <2>1. r = [b EXCEPT !.mem = mem, !.writer = b.writer + Len(data)]
    BY DEF Filled, IsBuffer
  <2> HIDE DEF mem, r
  <2>2. mem \in Seq(Bytes) /\ b.writer + Len(data) \in Nat
    BY <1>1, <1>n
  <2>3. b \in [mem : Seq(Bytes), reader : Nat, writer : Nat]
    BY DEF IsBuffer
  <2>4. QED BY <2>1, <2>2, <2>3
<1>3. /\ c \in Seq(Bytes) /\ Len(c) = Readable(b)
      /\ \A i \in 1..Readable(b) : c[i] = b.mem[b.reader + i]
  BY ContentProperties
<1> HIDE DEF mem, r, c
<1>4. IsBuffer(r)
  <2>1. r.reader <= r.writer /\ r.writer <= Len(r.mem)
    BY <1>1, <1>2, <1>n
  <2>2. QED BY <1>2, <2>1 DEF IsBuffer
<1>5. Readable(r) = Readable(b) + Len(data)
  <2>1. Readable(r) = r.writer - r.reader
    BY DEF Readable
  <2>2. QED BY <1>2, <1>n, <2>1
<1>6. /\ c \o data \in Seq(Bytes) /\ Len(c \o data) = Readable(r)
      /\ \A i \in 1..Readable(r) : (c \o data)[i] =
           IF i <= Readable(b) THEN c[i] ELSE data[i - Readable(b)]
  <2>1. /\ c \o data \in Seq(Bytes) /\ Len(c \o data) = Len(c) + Len(data)
        /\ \A i \in 1..Len(c) + Len(data) : (c \o data)[i] =
             IF i <= Len(c) THEN c[i] ELSE data[i - Len(c)]
    BY <1>3, ConcatProperties
  <2>2. QED BY <1>3, <1>5, <2>1
<1>7. \A i \in 1..Readable(r) : r.mem[r.reader + i] = (c \o data)[i]
  <2> SUFFICES ASSUME NEW i \in 1..Readable(r)
               PROVE  r.mem[r.reader + i] = (c \o data)[i]
    OBVIOUS
  <2>1. CASE i <= Readable(b)
    <3>1. /\ b.reader + i \in 1..Len(b.mem) /\ i \in 1..Readable(b)
          /\ b.reader + i \notin b.writer + 1 .. b.writer + Len(data)
      BY <2>1, <1>5, <1>n
    <3>2. mem[b.reader + i] = b.mem[b.reader + i]
      BY <1>1, <3>1
    <3>3. QED BY <1>2, <1>3, <1>6, <2>1, <3>1, <3>2
  <2>2. CASE ~ (i <= Readable(b))
    <3>1. /\ b.reader + i \in 1..Len(b.mem)
          /\ b.reader + i \in b.writer + 1 .. b.writer + Len(data)
          /\ (b.reader + i) - b.writer = i - Readable(b)
      BY <2>2, <1>5, <1>n
    <3>2. mem[b.reader + i] = data[i - Readable(b)]
      BY <1>1, <3>1
    <3>3. QED BY <1>2, <1>6, <2>2, <3>2
  <2>3. QED BY <2>1, <2>2
<1>8. Content(r) = c \o data
  BY <1>4, <1>6, <1>7, SameContent
<1>9. QED BY <1>1, <1>2, <1>4, <1>5, <1>8 DEF r, c

(* What fits in front of the waiting bytes waits in front of them.         *)
LEMMA PrependedProperties ==
  ASSUME NEW b, IsBuffer(b), NEW data \in Seq(Bytes), Len(data) <= b.reader
  PROVE  /\ IsBuffer(Prepended(b, data))
         /\ Content(Prepended(b, data)) = data \o Content(b)
         /\ Prepended(b, data).reader = b.reader - Len(data)
         /\ Len(Prepended(b, data).mem) = Len(b.mem)
         /\ Readable(Prepended(b, data)) = Readable(b) + Len(data)
<1> DEFINE at == b.reader - Len(data)
           mem == Write(b.mem, at, data)
           r == Prepended(b, data)
           c == Content(b)
<1>n. /\ Len(b.mem) \in Nat /\ b.reader \in Nat /\ b.writer \in Nat
      /\ Readable(b) = b.writer - b.reader /\ Len(data) \in Nat
      /\ b.reader <= b.writer /\ b.writer <= Len(b.mem)
      /\ at \in Nat /\ at + Len(data) = b.reader /\ b.mem \in Seq(Bytes)
  <2>1. Len(data) \in Nat
    BY LenProperties
  <2>2. /\ Len(b.mem) \in Nat /\ b.reader \in Nat /\ b.writer \in Nat
        /\ Readable(b) = b.writer - b.reader /\ b.mem \in Seq(Bytes)
        /\ b.reader <= b.writer /\ b.writer <= Len(b.mem)
    BY BufferNumbers
  <2>3. QED BY <2>1, <2>2
<1>0. at = b.reader - Len(data)
  OBVIOUS
<1>1. /\ mem \in Seq(Bytes) /\ Len(mem) = Len(b.mem)
      /\ \A i \in 1..Len(b.mem) :
           mem[i] = IF i \in at + 1 .. at + Len(data)
                      THEN data[i - at] ELSE b.mem[i]
  <2> HIDE DEF at
  <2>1. QED BY <1>n, WriteProperties
<1>2. /\ r.mem = mem /\ r.reader = at /\ r.writer = b.writer
      /\ r \in [mem : Seq(Bytes), reader : Nat, writer : Nat]
  <2>1. ~ (Len(data) > Prependable(b))
    BY <1>n DEF Prependable
  <2>2. r = [b EXCEPT !.mem = mem, !.reader = at]
    BY <2>1 DEF Prepended, IsBuffer
  <2> HIDE DEF mem, at, r
  <2>3. QED BY <1>1, <1>n, <2>2 DEF IsBuffer
<1>3. /\ c \in Seq(Bytes) /\ Len(c) = Readable(b)
      /\ \A i \in 1..Readable(b) : c[i] = b.mem[b.reader + i]
  BY ContentProperties
<1> HIDE DEF mem, r, c, at
<1>4. IsBuffer(r)
  <2>1. r.reader <= r.writer /\ r.writer <= Len(r.mem)
    BY <1>1, <1>2, <1>n
  <2>2. QED BY <1>2, <2>1 DEF IsBuffer
<1>5. Readable(r) = Len(data) + Readable(b)
  <2>1. Readable(r) = r.writer - r.reader
    BY DEF Readable
  <2>2. QED BY <1>2, <1>n, <2>1
<1>6. /\ data \o c \in Seq(Bytes) /\ Len(data \o c) = Readable(r)
      /\ \A i \in 1..Readable(r) : (data \o c)[i] =
           IF i <= Len(data) THEN data[i] ELSE c[i - Len(data)]
  <2>1. /\ data \o c \in Seq(Bytes) /\ Len(data \o c) = Len(data) + Len(c)
        /\ \A i \in 1..Len(data) + Len(c) : (data \o c)[i] =
             IF i <= Len(data) THEN data[i] ELSE c[i - Len(data)]
    BY <1>3, ConcatProperties
  <2>2. QED BY <1>3, <1>5, <2>1
<1>7. \A i \in 1..Readable(r) : r.mem[r.reader + i] = (data \o c)[i]
  <2> SUFFICES ASSUME NEW i \in 1..Readable(r)
               PROVE  r.mem[r.reader + i] = (data \o c)[i]
    OBVIOUS
  <2>1. CASE i <= Len(data)
    <3>1. /\ at + i \in 1..Len(b.mem) /\ at + i \in at + 1 .. at + Len(data)
          /\ (at + i) - at = i
      BY <2>1, <1>5, <1>n
    <3>2. mem[at + i] = data[i]
      BY <1>1, <3>1
    <3>3. QED BY <1>2, <1>6, <2>1, <3>2
  <2>2. CASE ~ (i <= Len(data))
    <3>1. /\ at + i \in 1..Len(b.mem) /\ at + i \notin at + 1 .. at + Len(data)
          /\ i - Len(data) \in 1..Readable(b)
          /\ b.reader + (i - Len(data)) = at + i
      BY <2>2, <1>5, <1>n
    <3>2. mem[at + i] = b.mem[at + i]
      BY <1>1, <3>1
    <3>3. c[i - Len(data)] = b.mem[at + i]
      BY <1>3, <3>1
    <3>4. QED BY <1>2, <1>6, <2>2, <3>2, <3>3
  <2>3. QED BY <2>1, <2>2
<1>8. Content(r) = data \o c
  BY <1>4, <1>6, <1>7, SameContent
<1>9. QED BY <1>0, <1>1, <1>2, <1>4, <1>5, <1>8, <1>n DEF r, c

(* retrieve() takes from the front.                                        *)
LEMMA ClearedProperties ==
  ASSUME NEW b, IsBuffer(b), PREPEND <= Len(b.mem)
  PROVE  /\ IsBuffer(Cleared(b)) /\ Content(Cleared(b)) = << >>
         /\ Cleared(b).reader = PREPEND /\ Cleared(b).mem = b.mem
         /\ Readable(Cleared(b)) = 0
<1> DEFINE r == Cleared(b)
<1>1. /\ r.mem = b.mem /\ r.reader = PREPEND /\ r.writer = PREPEND
      /\ r \in [mem : Seq(Bytes), reader : Nat, writer : Nat]
  BY SizesAssumption DEF Cleared, IsBuffer
<1> HIDE DEF r
<1>2. IsBuffer(r)
  BY <1>1, SizesAssumption DEF IsBuffer
<1>3. Readable(r) = 0
  BY <1>1, SizesAssumption DEF Readable
<1>4. Content(r) = << >>
  <2>1. Content(r) \in Seq(Bytes) /\ Len(Content(r)) = 0
    BY <1>2, <1>3, ContentProperties
  <2>2. QED BY <2>1, EmptySeq
<1>5. QED BY <1>1, <1>2, <1>3, <1>4 DEF r

(* ... and leaves the rest.                                                *)
LEMMA AdvancedProperties ==
  ASSUME NEW b, IsBuffer(b), NEW n \in Nat, n < Readable(b)
  PROVE  /\ IsBuffer(Retrieved(b, n))
         /\ Content(Retrieved(b, n)) = SubSeq(Content(b), n + 1, Readable(b))
         /\ Retrieved(b, n).reader = b.reader + n
         /\ Retrieved(b, n).mem = b.mem
         /\ Readable(Retrieved(b, n)) = Readable(b) - n
<1> DEFINE r == Retrieved(b, n)
           c == Content(b)
           s == SubSeq(c, n + 1, Readable(b))
<1>n. /\ Len(b.mem) \in Nat /\ b.reader \in Nat /\ b.writer \in Nat
      /\ Readable(b) = b.writer - b.reader /\ Readable(b) \in Nat
      /\ b.reader <= b.writer /\ b.writer <= Len(b.mem)
  BY BufferNumbers
<1>1. /\ r.mem = b.mem /\ r.reader = b.reader + n /\ r.writer = b.writer
      /\ r \in [mem : Seq(Bytes), reader : Nat, writer : Nat]
  <2>1. r = [b EXCEPT !.reader = b.reader + n]
    BY <1>n DEF Retrieved, IsBuffer
  <2> HIDE DEF r
  <2>2. QED BY <2>1, <1>n DEF IsBuffer
<1>2. /\ c \in Seq(Bytes) /\ Len(c) = Readable(b)
      /\ \A i \in 1..Readable(b) : c[i] = b.mem[b.reader + i]
  BY ContentProperties
<1> HIDE DEF r, c
<1>3. IsBuffer(r) /\ Readable(r) = Readable(b) - n
  <2>1. r.reader <= r.writer /\ r.writer <= Len(r.mem)
        /\ r.writer - r.reader = Readable(b) - n
    BY <1>1, <1>n
  <2>2. QED BY <1>1, <2>1 DEF IsBuffer, Readable
<1>4. /\ s \in Seq(Bytes) /\ Len(s) = Readable(r)
      /\ \A i \in 1..Readable(r) : s[i] = c[(n + 1) + i - 1]
  <2>1. \A i \in n + 1 .. Readable(b) : c[i] \in Bytes
    BY <1>2, <1>n, ElementOfSeq
  <2>2. n + 1 \in Int /\ Readable(b) \in Int /\ n + 1 <= Readable(b)
    BY <1>n
  <2>3. /\ s \in Seq(Bytes) /\ Len(s) = Readable(b) - (n + 1) + 1
        /\ \A i \in 1..Readable(b) - (n + 1) + 1 : s[i] = c[(n + 1) + i - 1]
    BY <2>1, <2>2, SubSeqProperties
  <2>4. Readable(b) - (n + 1) + 1 = Readable(r)
    BY <1>3, <1>n
  <2> HIDE DEF s
  <2>5. QED BY <2>3, <2>4
<1>5. \A i \in 1..Readable(r) : r.mem[r.reader + i] = s[i]
  <2> SUFFICES ASSUME NEW i \in 1..Readable(r)
               PROVE  r.mem[r.reader + i] = s[i]
    OBVIOUS
  <2>1. (n + 1) + i - 1 = n + i /\ n + i \in 1..Readable(b)
        /\ b.reader + (n + i) = r.reader + i
    <3>1. i \in 1..(Readable(b) - n)
      BY <1>3
    <3>2. r.reader = b.reader + n
      BY <1>1
    <3>3. b.reader \in Nat /\ Readable(b) \in Nat
      BY <1>n
    <3>4. QED BY <3>1, <3>2, <3>3
  <2>2. c[n + i] = b.mem[r.reader + i]
    BY <1>2, <2>1
  <2> HIDE DEF s
  <2>3. QED BY <1>1, <1>4, <2>1, <2>2
<1> HIDE DEF s
<1>6. Content(r) = s
  BY <1>3, <1>4, <1>5, SameContent
<1>7. QED BY <1>1, <1>3, <1>6 DEF r, c, s

(* The string that retrieveAsString() copies is the front of the content.  *)
LEMMA TakenString ==
  ASSUME NEW b, IsBuffer(b), NEW n \in Nat, n <= Readable(b)
  PROVE  /\ [i \in 1..n |-> b.mem[b.reader + i]] \in Seq(Bytes)
         /\ [i \in 1..n |-> b.mem[b.reader + i]] = SubSeq(Content(b), 1, n)
<1> DEFINE t == [i \in 1..n |-> b.mem[b.reader + i]]
           c == Content(b)
           s == SubSeq(c, 1, n)
<1>1. /\ c \in Seq(Bytes) /\ Len(c) = Readable(b) /\ Readable(b) \in Nat
      /\ \A i \in 1..Readable(b) : c[i] = b.mem[b.reader + i]
  BY ContentProperties, BufferNumbers
<1> HIDE DEF c
<1>2. \A i \in 1..n : c[i] \in Bytes /\ c[i] = b.mem[b.reader + i]
  <2>1. \A i \in 1..n : i \in 1..Len(c)
    BY <1>1
  <2>2. QED BY <1>1, <2>1, ElementOfSeq
<1>3. t \in Seq(Bytes) /\ Len(t) = n
  <2>1. t \in [1..n -> Bytes]
    BY <1>2
  <2> HIDE DEF t
  <2>2. QED BY <2>1, FunctionIsSeq
<1>4. /\ s \in Seq(Bytes) /\ Len(s) = n
      /\ \A i \in 1..n : s[i] = c[i]
  <2>1. /\ s \in Seq(Bytes) /\ Len(s) = IF 1 <= n THEN n - 1 + 1 ELSE 0
        /\ \A i \in 1..n - 1 + 1 : s[i] = c[1 + i - 1]
    BY <1>2, SubSeqProperties
  <2> HIDE DEF s
  <2>2. n - 1 + 1 = n /\ (~ (1 <= n) => n = 0)
    OBVIOUS
  <2>3. \A i \in 1..n : 1 + i - 1 = i
    OBVIOUS
  <2>4. QED BY <2>1, <2>2, <2>3
<1>5. \A i \in 1..n : t[i] = c[i]
  BY <1>2
<1> HIDE DEF t, s
<1>6. t = s
  BY <1>3, <1>4, <1>5, SeqEqual
<1>7. QED BY <1>3, <1>6 DEF t, s, c

(* A buffer starts empty, with the header room in front.                   *)
LEMMA NewProperties ==
  /\ IsBuffer(New) /\ Content(New) = << >> /\ Readable(New) = 0
  /\ New.reader = PREPEND /\ Len(New.mem) = INITIAL_SIZE + PREPEND
<1> DEFINE n == INITIAL_SIZE + PREPEND
<1>1. n \in Nat
  BY SizesAssumption
<1>2. Zeros(n) \in Seq(Bytes) /\ Len(Zeros(n)) = n
  <2>1. Zeros(n) \in [1..n -> Bytes]
    BY BytesAssumption DEF Zeros
  <2> HIDE DEF n
  <2>2. QED BY <1>1, <2>1, FunctionIsSeq
<1>3. /\ New.mem = Zeros(n) /\ New.reader = PREPEND /\ New.writer = PREPEND
      /\ New \in [mem : Seq(Bytes), reader : Nat, writer : Nat]
  BY <1>2, SizesAssumption DEF New
<1>4. IsBuffer(New)
  BY <1>2, <1>3, SizesAssumption DEF IsBuffer
<1>5. Readable(New) = 0
  BY <1>3, SizesAssumption DEF Readable
<1>6. Content(New) = << >>
  BY <1>4, <1>5, ContentProperties, EmptySeq
<1>7. QED BY <1>2, <1>3, <1>4, <1>5, <1>6
=============================================================================
