CONSTANTS
  MaxItems = 1
  MaxConnects = 2
SPECIFICATION LifeSpec
INVARIANTS TypeOK WatchdogReplaceable CleanDestruction
PROPERTIES LossAnswersPending FailedListenerDropped
CHECK_DEADLOCK FALSE
