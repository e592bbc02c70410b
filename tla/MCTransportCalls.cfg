CONSTANTS
  Threads = {t1, t2, t3}
  MaxConnects = 3
  OneOwner = TRUE
SPECIFICATION Spec
SYMMETRY Symmetry
INVARIANTS  AssignsBetweenConnections
CHECK_DEADLOCK FALSE
