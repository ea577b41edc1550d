SPECIFICATION Spec
CONSTANTS
  Server = {s1, s2, s3}
  Nil = Nil
  Request = {r1}
  Calls <- CallsMade
  TermLimit <- Limit
  Impatient = {s1}
  MaxTerm = 1
  Repeated = {}
  Stoppable = {}
  MaxLate = 0
  MaxEvents = 2
  MaxCount = 5
INVARIANTS
  AppliedIsReplicated
CHECK_DEADLOCK FALSE
