CONSTANTS
  KB_BUFFER_SIZE = 2
  Keys <- MCKeys
  MaxEvents = 4
SPECIFICATION FairSpec
CHECK_DEADLOCK FALSE
PROPERTIES
  EveryKeyRead
