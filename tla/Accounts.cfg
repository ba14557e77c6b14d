CONSTANTS
  Users = {1}
  Members = {1}
  MaxVer = 2
  MaxLogins = 2
  MaxFails = 1
  Lengths = {0, 4, 5}
  PageSize = 2
  MaxAsks = 1
  Nil = Nil
SPECIFICATION Spec
INVARIANTS AccountsInv
PROPERTIES LoadReplacesNobody MainDataArrives
CHECK_DEADLOCK FALSE
