SPECIFICATION Spec
CONSTANTS
  None = None
  m1 = m1
  s1 = s1
  s2 = s2
  w1 = w1
  w2 = w2
  MaxDate = 2
  Member = {m1}
  Sub = {s1}
  Owner <- OneSub
  Worker = {w1}
  EventKind <- RefundAndDispute
  EventStatus <- Lifecycle
  ChargeSub = {s1}
  GrantUntil <- NoGrants
  MaxEvents = 3
  MaxFaults = 1
INVARIANTS
  TypeOK
  NewestEventWins
  MoneyBackHolds
PROPERTIES
  LedgerSpec
