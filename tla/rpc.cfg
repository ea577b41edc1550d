SPECIFICATION FairSpec
CONSTANTS
  Handler = {h1, h2, h3}
  MaxCalls = 4
  MaxTransforms = 2
  MaxStops = 2
INVARIANTS
  TypeOK
  RemainingIsExact
  ShutdownFindsNobody
PROPERTIES
  CallsReturn
CHECK_DEADLOCK FALSE
