------------------------------ MODULE MCStream ------------------------------
(***************************************************************************)
(* Two connection threads, one capability, and queues that hold one frame. *)
(***************************************************************************)
EXTENDS StreamProperties

CONSTANTS c1, c2, x1
=============================================================================
