SPECIFICATION Spec
CONSTANTS
  Server = {s1, s2}
  Nil = Nil
  Request = {r1, r2}
  Calls <- TwoAndOne
  TermLimit <- FirstAndSecond
  s1 = s1
  s2 = s2
  r1 = r1
  r2 = r2
  Stoppable = {s2}
  MaxLate = 0
  MaxEvents = 1
  MaxCount = 3
INVARIANTS
  TypeOK
  OneTransformationPerTerm
  LeaderHasQuorum
  CommittedIsApplied
CHECK_DEADLOCK FALSE
