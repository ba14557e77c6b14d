-------------------------- MODULE MCFightRecovery --------------------------
(* Instances of FightRecovery small enough for TLC.                         *)
EXTENDS FightRecovery

\* For the liveness run: every team is entered and the application is open.
FullEntry == DOMAIN objs = Teams /\ status = "apply"

FullInit == InitRecovery /\ FullEntry

CoopFull == FullInit /\ [][NextRecovery]_allVars /\ CoopFairness
=============================================================================
