CONSTANTS
  MaxItems = 0
  MaxConnects = 2
SPECIFICATION FairSpec
PROPERTY RequestTimesOut
