SPECIFICATION FairSpec
CONSTANTS
  Server = {s1, s2, s3}
  Nil = Nil
  Request = {r1}
  Calls <- CallsMade
  TermLimit <- Limit
  Impatient = {s1}
  MaxTerm = 1
  Repeated = {r1}
  Stoppable = {s2}
  MaxLate = 1
  MaxEvents = 2
  MaxCount = 5
PROPERTIES
  LoggedIsApplied
CHECK_DEADLOCK FALSE
