---------------------------- MODULE MCSpscQueue ----------------------------
(* Instances of SpscQueue small enough for TLC. *)
EXTENDS SpscQueue
=============================================================================
