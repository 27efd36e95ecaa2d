SPECIFICATION SerialInSyncSpec
CONSTANTS
  None = None
  Malformed = Malformed
  u1 = u1
  u2 = u2
  h1 = h1
  w1 = w1
  w2 = w2
  e1 = e1
  e2 = e2
  Upload = {u1}
  HandAsset = {h1}
  HandPolicy <- BothPolicies
  Typed <- TypesPublic
  MaxEdited = 2
  Worker = {w1}
  Editor = {e1}
INVARIANTS
  YouTubeNeverWaits
  ReadyMeansPlayable
  PaidHandlesExpire
PROPERTIES
  ExposedOnlyByHand
  UploadNotForgotten
