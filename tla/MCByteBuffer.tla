---------------------------- MODULE MCByteBuffer ----------------------------
(***************************************************************************)
(* ByteBuffer for TLC, scaled down: header room for 2 bytes, a vector that *)
(* starts with room for 1, reads that want 2. Two byte values suffice to   *)
(* tell whether a byte was moved, repeated or overwritten: Zero is one of  *)
(* them, as a byte of a message may look like a fresh cell.                *)
(***************************************************************************)
EXTENDS ByteBuffer
=============================================================================
