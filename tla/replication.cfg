SPECIFICATION Spec
CONSTANTS
  Server = {s1, s2, s3}
  Nil = Nil
  Request = {r1, r2}
  Calls <- CallsMade
  TermLimit <- Limit
  Impatient = {s1}
  MaxTerm = 1
  Repeated = {r1}
  Stoppable = {}
  MaxLate = 1
  MaxEvents = 2
  MaxCount = 5
SYMMETRY Followers
INVARIANTS
  LogsAgree
  AppliedAgree
  MatchIdxSound
PROPERTIES
  ImplementsReplicatedLog
  LogsOnlyGrow
CHECK_DEADLOCK FALSE
