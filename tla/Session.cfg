SPECIFICATION Spec
CONSTANTS
  Conns = {k1, k2}
  Cafes = {c1, c2}
  Users = {u1}
  Nil   = Nil
CHECK_DEADLOCK FALSE
INVARIANTS SessionInv CafesMatchConns
PROPERTIES LoginEnds
