------------------------ MODULE MCLogHandlerManager ------------------------
(***************************************************************************)
(* LogHandlerManager for TLC. Two threads are enough to have one notify    *)
(* for what the other has pushed; no symmetry, since liveness is checked   *)
(* in the same run.                                                        *)
(***************************************************************************)
EXTENDS LogHandlerManager
=============================================================================
