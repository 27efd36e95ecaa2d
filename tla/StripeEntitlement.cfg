SPECIFICATION RetriedSpec
CONSTANTS
  None = None
  m1 = m1
  s1 = s1
  s2 = s2
  w1 = w1
  w2 = w2
  MaxDate = 1
  Member = {m1}
  Sub = {s1, s2}
  Owner <- TwoSubs
  Worker = {w1}
  EventKind <- Refunds
  EventStatus <- Lifecycle
  ChargeSub = {s1}
  GrantUntil <- ShortGrant
  MaxEvents = 3
  MaxFaults = 2
INVARIANTS
  SettledEntitlement
PROPERTIES
  LiveGrantSurvives
