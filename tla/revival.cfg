SPECIFICATION Spec
CONSTANTS
  Server = {s1, s2}
  Nil = Nil
  Request = {}
  Calls <- CallsMade
  TermLimit <- Limit
  Impatient = {s1, s2}
  MaxTerm = 2
  Repeated = {}
  Stoppable = {s1}
  MaxLate = 0
  MaxEvents = 2
  MaxCount = 4
INVARIANTS
  StopIsFinal
CHECK_DEADLOCK FALSE
