SPECIFICATION FairSpec
CONSTANTS
  None = None
  Absent = None
  m1 = m1
  m2 = m2
  dev = dev
  out = out
  c1 = c1
  c2 = c2
  Account = {m1}
  Stranger = {out}
  Member = {m1}
  DevUser = dev
  Call = {c1, c2}
  Configured <- Everywhere
INVARIANTS
  NoCredentialNoIdentity
  EntitlementWithUser
PROPERTIES
  FirstSightKeepsAccess
  CodeVerifiesItsAddress
  ScreenRecovers
