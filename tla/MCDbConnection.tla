--------------------------- MODULE MCDbConnection ---------------------------
(* Instances of DbConnection small enough for TLC. *)
EXTENDS DbConnection
=============================================================================
