SPECIFICATION FairSpec
CONSTANTS
  MaxTransforms = 5
  MaxHandlers = 2
INVARIANTS
  TypeOK
  OneBeat
  NotJoinable
  TimerLeft
PROPERTIES
  StopsReturn
CHECK_DEADLOCK FALSE
