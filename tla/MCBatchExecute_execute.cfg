SPECIFICATION FairSpec
CONSTANTS
  N = 3
  Asked <- MCAsked
CHECK_DEADLOCK FALSE
INVARIANTS TypeOK Bounded NoSendOnClosed SendNeverBlocks ReturnsAll
PROPERTY Terminates
