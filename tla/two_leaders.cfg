SPECIFICATION Spec
CONSTANTS
  Server = {s1, s2, s3}
  Nil = Nil
  Request = {}
  Calls <- CallsMade
  TermLimit <- Limit
  Impatient = {s1, s2}
  MaxTerm = 2
  Repeated = {}
  Stoppable = {}
  MaxLate = 1
  MaxEvents = 2
  MaxCount = 5
INVARIANTS
  ElectionSafety
CHECK_DEADLOCK FALSE
