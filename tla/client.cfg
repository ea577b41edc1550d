SPECIFICATION FairSpec
CONSTANTS
  Text = {Empty, host, op, arg, raw}
  Utf8 = {Empty, host, op, arg}
  Empty = Empty
  host = host
  op = op
  arg = arg
  raw = raw
  Message <- Messages
  Answer <- Answers
  MaxCalls = 3
INVARIANTS
  TypeOK
  LogStaysReplicable
PROPERTIES
  ImplementsRemoteCall
  CallReturns
  DestructorReturns
CHECK_DEADLOCK FALSE
