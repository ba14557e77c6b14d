------------------------------- MODULE MCHouse -------------------------------
(* Two teams, of three and of two, at two cafes, small enough for TLC.       *)
EXTENDS House
MCTeams == {1, 2}
MCMembers == <<{11, 12, 13}, {21, 22}>>
MCLeader == <<11, 21>>
MCCafe == [u \in {11, 12, 13, 21, 22} |-> IF u \in {11, 12, 22} THEN 1 ELSE 2]
=============================================================================
