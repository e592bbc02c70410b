CONSTANTS
  Requests = {r1, r2}
  IdSpace = 3
  NoCaller = NoCaller
SPECIFICATION FairSpec
INVARIANTS NoFutureError NoBrokenPromise NotStranded
PROPERTIES Contract EveryRequestAnswered
