CONSTANT MaxItems = 3
SPECIFICATION FairSpec
INVARIANTS Fifo PushNeverMissed
PROPERTIES StopReturns ItemsHandled
