---------------------------- MODULE MCTeamManager ----------------------------
(* Instances of TeamManager small enough for TLC.  Nothing orders users or   *)
(* servers, and no liveness is checked, so both are symmetric.               *)
EXTENDS TeamManager, TLC
Symmetry == Permutations(Users) \cup Permutations(Servers)
=============================================================================
