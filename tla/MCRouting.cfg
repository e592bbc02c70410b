CONSTANTS
  Subs = {s1, s2}
  Reqs = {r1}
  Nobody = Nobody
  Events <- TwoEvents
  Wishes <- SomeoneLower
  LowerModule <- LowerModuleOf
  IdSpace = 3
  MaxIds = 3
  Strays <- SomeStrays
  MaxExtras = 1
  MaxInbox = 1
SPECIFICATION Spec
SYMMETRY Symmetry
INVARIANTS ReachesItsOwner SubscriptionsAgree
PROPERTIES EventsDispatched
CHECK_DEADLOCK FALSE
