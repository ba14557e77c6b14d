SPECIFICATION Spec
CONSTANTS
  Users = {u1, u2, u3}
  Games = {g1}
  Servers = {s1, s2}
  NoServer = NoServer
  TEAMER_MAX_NUM = 2
  MaxTeams = 2
  MaxReads = 2
  MaxIssued = 7
  MaxWrites = 1
  MaxCrashes = 1
SYMMETRY Symmetry
INVARIANTS TeamInv QueuedStatementsCatchUp NoOrphanRows
CHECK_DEADLOCK FALSE
