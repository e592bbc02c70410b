CONSTANT MaxItems = 2
SPECIFICATION FairSpec
INVARIANTS NoMessageRefused DrainedOnDisconnect QuietAgreement EndIsToldUnlessStopped
PROPERTIES AttemptDecided DisconnectReturnsUnlessMissed
