SPECIFICATION Spec
CONSTANTS
  Server = {s1, s2, s3}
  Nil = Nil
  Request = {}
  Calls <- CallsMade
  TermLimit <- Limit
  Impatient = {s1, s2, s3}
  MaxTerm = 3
  Repeated = {}
  Stoppable = {}
  MaxLate = 0
  MaxEvents = 2
  MaxCount = 5
INVARIANTS
  TimeoutAhead
CHECK_DEADLOCK FALSE
