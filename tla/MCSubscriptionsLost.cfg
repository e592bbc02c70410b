CONSTANTS
  Subs = {s1}
  Nobody = Nobody
  MaxNotes = 1
  MaxSessions = 2
SPECIFICATION Spec
INVARIANT NotificationsDispatched
CHECK_DEADLOCK FALSE
