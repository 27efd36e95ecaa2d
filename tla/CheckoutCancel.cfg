SPECIFICATION FairSpec
CONSTANTS
  None = None
  m1 = m1
  a = a
  b = b
  c = c
  d = d
  s1 = s1
  s2 = s2
  s3 = s3
  Member = {m1}
  SessionId = {s1, s2}
  Tab = {a}
  Canceller = {c}
  Caller <- OneMember
  TTL = 2
  Skew = 1
  RequestLimit = 1
  MaxTime = 4
  MaxFaults = 1
INVARIANTS
  CancelClosesSession
PROPERTIES
  NeverStranded
