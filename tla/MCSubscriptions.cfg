CONSTANTS
  Subs = {s1, s2}
  Nobody = Nobody
  MaxNotes = 1
  MaxSessions = 2
SPECIFICATION FairSpec
INVARIANTS RegisteredIsServed CallbackDataAlive
PROPERTIES LeavingReturns CleanupReturnsUnlessMissed
CHECK_DEADLOCK FALSE
