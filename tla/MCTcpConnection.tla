-------------------------- MODULE MCTcpConnection --------------------------
(***************************************************************************)
(* TcpConnection for TLC. A message of Long has one byte more than fits    *)
(* into a send buffer of 2, any other has one byte: a write is whole,      *)
(* partial or refused. No symmetry, since liveness is checked in the same  *)
(* run.                                                                    *)
(***************************************************************************)
EXTENDS TcpConnection

CONSTANT Long

MCSize == [m \in Messages |-> IF m \in Long THEN 3 ELSE 1]
=============================================================================
