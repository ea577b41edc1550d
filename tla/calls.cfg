SPECIFICATION FairSpec
CONSTANTS
  N = 2
  MaxCalls = 1
  Stoppable = {1}
  MaxLate = 1
  MaxHanded = 2
INVARIANTS
  TypeOK
  PromiseFound
  ShutdownIsQuiet
PROPERTIES
  ImplementsCallService
  ShutdownReturns
  CallsAnswered
CHECK_DEADLOCK FALSE
