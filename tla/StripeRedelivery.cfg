SPECIFICATION FairSpec
CONSTANTS
  None = None
  m1 = m1
  s1 = s1
  s2 = s2
  w1 = w1
  w2 = w2
  MaxDate = 1
  Member = {m1}
  Sub = {s1, s2}
  Owner <- HalfOwned
  Worker = {w1}
  EventKind <- AllKinds
  EventStatus <- DelayedCard
  ChargeSub = {s1, None}
  GrantUntil <- NoGrants
  MaxEvents = 2
  MaxFaults = 1
INVARIANTS
  UnmatchedNeverSilent
  AlertRepeatsOnlyAfterFault
PROPERTIES
  EventuallyProcessed
