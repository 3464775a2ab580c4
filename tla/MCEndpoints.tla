----------------------------- MODULE MCEndpoints -----------------------------
(***************************************************************************)
(* Endpoints for TLC. Two peers, two calls of connect() and two            *)
(* descriptors, one of which is no uint16_t: a descriptor is used again,   *)
(* accept() and socket() fail for want of one, two channels of one poll()  *)
(* get in each other's way, a number is given up while it stands for       *)
(* something else, and an entry is erased in place of another one.         *)
(***************************************************************************)
EXTENDS Endpoints
=============================================================================
