---------------------------- MODULE MCPrivateNet ----------------------------
(* Process 2 dials process 1, and so does one that was started without an id. *)
(* At either of the first two a cafe logs in that has the other's id.        *)
EXTENDS PrivateNet
MCDials == {<<2, 1>>, <<0, 1>>}
MCCafes == {<<1, 2>>, <<2, 1>>}
=============================================================================
