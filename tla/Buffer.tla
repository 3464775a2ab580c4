------------------------------- MODULE Buffer -------------------------------
(***************************************************************************)
(* The methods of mnsx::achilles::ByteBuffer (src/net/ByteBuffer.h,        *)
(* ByteBuffer.cpp) as functions of a buffer: a vector with a read and a    *)
(* write index that grows or moves its bytes to the front when an append   *)
(* does not fit. Index i of the code is element i + 1 of the sequence mem. *)
(***************************************************************************)
EXTENDS Integers, Sequences

CONSTANTS
  Bytes, Zero,      \* the bytes; the one a new cell holds
  PREPEND,          \* 16
  INITIAL_SIZE,     \* 1024
  READ_MIN          \* 1024: what readFd() wants to have writable

ASSUME BytesAssumption == Zero \in Bytes
ASSUME SizesAssumption ==
  PREPEND \in Nat /\ INITIAL_SIZE \in Nat /\ READ_MIN \in Nat

(* A buffer is [mem: buffer_, reader: reader_index_, writer: writer_index_]. *)
IsBuffer(b) ==
  /\ b \in [mem : Seq(Bytes), reader : Nat, writer : Nat]
  /\ b.reader <= b.writer /\ b.writer <= Len(b.mem)

Zeros(n) == [i \in 1..n |-> Zero]

New == [mem    |-> Zeros(INITIAL_SIZE + PREPEND),
        reader |-> PREPEND,
        writer |-> PREPEND]

Readable(b)    == b.writer - b.reader
Writable(b)    == Len(b.mem) - b.writer
Prependable(b) == b.reader

(* The readable bytes, from peek() on.                                     *)
Content(b) == [i \in 1..Readable(b) |-> b.mem[b.reader + i]]

(* std::copy, memcpy, read(): data goes to the cells from index at on.     *)
Write(mem, at, data) ==
  [i \in 1..Len(mem) |->
     IF i \in at + 1 .. at + Len(data) THEN data[i - at] ELSE mem[i]]

(* buffer_.resize(writer_index_ + len)                                     *)
Resized(b, len) ==
  [b EXCEPT !.mem = [i \in 1..(b.writer + len) |->
                       IF i \in 1..Len(b.mem) THEN b.mem[i] ELSE Zero]]

CompactedFromStart(b) ==
  [mem    |-> Write(b.mem, PREPEND, SubSeq(b.mem, 1, Readable(b))),
   reader |-> PREPEND,
   writer |-> PREPEND + Readable(b)]

Compacted(b) ==
  [mem    |-> Write(b.mem, PREPEND, Content(b)),
   reader |-> PREPEND,
   writer |-> PREPEND + Readable(b)]

MustGrowTight(b, len) == Writable(b) + Prependable(b) < len
MustGrowAlways(b, len) == TRUE

MustGrow(b, len) == Writable(b) + Prependable(b) < len + PREPEND

EnsureWritable(b, len) ==
  IF Writable(b) >= len THEN b
  ELSE IF MustGrow(b, len) THEN Resized(b, len) ELSE Compacted(b)

(* data copied to beginWrite(), writer_index_ moved behind it              *)
Filled(b, data) ==
  [b EXCEPT !.mem = Write(b.mem, b.writer, data), !.writer = @ + Len(data)]

Appended(b, data) == Filled(EnsureWritable(b, Len(data)), data)

Prepended(b, data) ==
  IF Len(data) > Prependable(b) THEN b
  ELSE [b EXCEPT !.mem = Write(b.mem, b.reader - Len(data), data),
                 !.reader = @ - Len(data)]

Cleared(b) == [b EXCEPT !.reader = PREPEND, !.writer = PREPEND]

RetrievedByIndex(b, n) ==
  IF n > Readable(b) THEN b ELSE [b EXCEPT !.reader = @ + n]

Retrieved(b, n) ==
  CASE n > Readable(b) -> b
    [] n < Readable(b) -> [b EXCEPT !.reader = @ + n]
    [] n = Readable(b) -> Cleared(b)
=============================================================================
