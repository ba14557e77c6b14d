---------------------------- MODULE MCSingleFail ----------------------------
(* SingleFail for TLC.  The bracket knows teams only by the order of their   *)
(* ids, so of the fields of one size one is enough: the first teams.         *)
EXTENDS SingleFail

FirstTeams == \A t \in DOMAIN objs, u \in Teams : u < t => u \in DOMAIN objs

FieldsInit == Init /\ FirstTeams

FieldsSpec == FieldsInit /\ [][Next]_vars /\ TimerFairness
=============================================================================
