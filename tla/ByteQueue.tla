----------------------------- MODULE ByteQueue -----------------------------
(***************************************************************************)
(* What ByteBuffer promises: a queue of bytes with some room in front of   *)
(* it, where a protocol header can be put without moving the body          *)
(* (README.md:17).                                                         *)
(***************************************************************************)
EXTENDS Integers, Sequences

CONSTANTS
  Strings,       \* what is put into it in one call
  Lengths,       \* how many bytes are asked for in one call
  PREPEND        \* room in front of an empty queue

VARIABLES
  content,       \* the bytes that wait
  head,          \* room in front of them
  taken          \* the last string handed out

vars == <<content, head, taken>>

Init == content = << >> /\ head = PREPEND /\ taken = << >>

(* Appending may give up room in front, but never the room of a header.    *)
AppendData(data) ==
  /\ content' = content \o data
  /\ head' = head \/ (head > PREPEND /\ head' = PREPEND)
  /\ UNCHANGED taken

(* What does not fit in front is dropped.                                  *)
PrependData(data) ==
  /\ IF Len(data) <= head
       THEN content' = data \o content /\ head' = head - Len(data)
       ELSE UNCHANGED <<content, head>>
  /\ UNCHANGED taken

(* Taking more than there is takes nothing.                                *)
Drop(n) ==
  CASE n > Len(content) -> UNCHANGED <<content, head>>
    [] n = Len(content) -> content' = << >> /\ head' = PREPEND
    [] n < Len(content) -> /\ content' = SubSeq(content, n + 1, Len(content))
                           /\ head' = head + n

Retrieve(n) == Drop(n) /\ UNCHANGED taken

RetrieveAsString(n) ==
  /\ Drop(n)
  /\ taken' = IF n > Len(content) THEN << >> ELSE SubSeq(content, 1, n)

Next ==
  \/ \E data \in Strings : AppendData(data) \/ PrependData(data)
  \/ \E n \in Lengths : Retrieve(n) \/ RetrieveAsString(n)

Spec == Init /\ [][Next]_vars
=============================================================================
