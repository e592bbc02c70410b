CONSTANTS
  Threads = {t1, t2}
  MaxConnects = 2
  OneOwner = FALSE
SPECIFICATION Spec
INVARIANT StartsClean
CHECK_DEADLOCK FALSE
