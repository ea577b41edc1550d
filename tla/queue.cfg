SPECIFICATION FairSpec
CONSTANTS
  MaxEvents = 3
  MaxPauses = 2
  MaxStops = 2
  MaxSpurious = 2
INVARIANTS
  TypeOK
  StoppedIsDrained
  AwakeForEvents
PROPERTIES
  ImplementsSerialQueue
  StopReturns
  AddedIsExecuted
CHECK_DEADLOCK FALSE
