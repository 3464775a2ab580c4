----------------------------- MODULE ByteBuffer -----------------------------
(***************************************************************************)
(* mnsx::achilles::ByteBuffer as its owner uses it: any sequence of calls  *)
(* of its methods (module Buffer).                                         *)
(*                                                                         *)
(* Bounds: one call transfers at most MaxLen bytes, at most MaxWaiting     *)
(* bytes wait in the buffer.                                               *)
(***************************************************************************)
EXTENDS Buffer

CONSTANTS MaxLen, MaxWaiting

ASSUME BoundsAssumption == MaxLen \in Nat /\ MaxWaiting \in Nat

VARIABLES
  buf,              \* [mem: buffer_, reader: reader_index_, writer: writer_index_]
  taken             \* the last string handed out

vars == <<buf, taken>>

Strings == UNION {[1..n -> Bytes] : n \in 0..MaxLen}
Lengths == 0..MaxWaiting + 1

Fits(data) == Readable(buf) + Len(data) <= MaxWaiting

Init == buf = New /\ taken = << >>

AppendData(data) ==
  /\ Fits(data)
  /\ buf' = Appended(buf, data)
  /\ UNCHANGED taken

PrependData(data) ==
  /\ Fits(data)
  /\ buf' = Prepended(buf, data)
  /\ UNCHANGED taken

Retrieve(n) == buf' = Retrieved(buf, n) /\ UNCHANGED taken

RetrieveAll == buf' = Cleared(buf) /\ UNCHANGED taken

RetrieveAsString(n) ==
  IF n > Readable(buf) THEN taken' = << >> /\ UNCHANGED buf
  ELSE /\ taken' = [i \in 1..n |-> buf.mem[buf.reader + i]]
       /\ buf' = Retrieved(buf, n)

(* readFd(): read() fills at most the writable space; nothing is stored at *)
(* the end of input or on an error.                                        *)
ReadFd(data) ==
  LET b == EnsureWritable(buf, READ_MIN)
  IN  /\ Fits(data) /\ Len(data) <= Writable(b)
      /\ buf' = Filled(b, data)
      /\ UNCHANGED taken

Next ==
  \/ \E data \in Strings : AppendData(data) \/ PrependData(data) \/ ReadFd(data)
  \/ \E n \in Lengths : Retrieve(n) \/ RetrieveAsString(n)
  \/ RetrieveAll

Spec == Init /\ [][Next]_vars

-----------------------------------------------------------------------------
(* Properties.                                                             *)

(* Both indices stay inside the vector, in order: no size_t difference     *)
(* wraps and no copy leaves the vector.                                    *)
TypeOK == IsBuffer(buf) /\ taken \in Seq(Bytes)

(* An empty buffer always has the whole header room in front: encoding     *)
(* into an empty buffer cannot lose its header.                            *)
EmptyHasHeadroom == Readable(buf) = 0 => buf.reader = PREPEND

(* The vector grows with what waits in it, not with what has passed        *)
(* through: dead space in front is reused before the vector is resized.    *)
MemoryLimit ==
  LET Larger(x, y) == IF x >= y THEN x ELSE y
  IN  PREPEND + Larger(INITIAL_SIZE,
                       MaxWaiting + Larger(MaxLen, 2 * READ_MIN))

MemoryFollowsDemand == Len(buf.mem) <= MemoryLimit

(* The indices and the moving bytes implement a queue.                     *)
BQ == INSTANCE ByteQueue WITH content <- Content(buf), head <- buf.reader

RefinesByteQueue == BQ!Spec

(* Why they hold.                                                          *)
RoomForHeader  == PREPEND <= Len(buf.mem)
WaitingBounded == Readable(buf) <= MaxWaiting

IInv == TypeOK /\ EmptyHasHeadroom /\ MemoryFollowsDemand /\ RoomForHeader
          /\ WaitingBounded
=============================================================================
