---------------------------- MODULE MCEventLoop ----------------------------
(***************************************************************************)
(* EventLoop for TLC. Three functors: one queued before, one during and    *)
(* one after a swap; two threads: one pushes while the other is between    *)
(* its push and its wake-up. No symmetry, since liveness is checked in the *)
(* same run.                                                               *)
(***************************************************************************)
EXTENDS EventLoop
=============================================================================
