CONSTANTS
  MaxItems = 0
  MaxConnects = 2
SPECIFICATION FairLifeSpec
PROPERTIES CallsReturn DestructionEnds
CHECK_DEADLOCK FALSE
