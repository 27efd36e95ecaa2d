SPECIFICATION FairPairSpec
CONSTANTS
  None = None
  Malformed = Malformed
  u1 = u1
  u2 = u2
  h1 = h1
  w1 = w1
  w2 = w2
  e1 = e1
  e2 = e2
  Upload = {u1}
  HandAsset = {}
  HandPolicy <- NoHandPolicy
  Typed <- TypesYouTube
  MaxEdited = 2
  Worker = {w1, w2}
  Editor = {e1}
INVARIANTS
  TypeOK
PROPERTIES
  UploadSettles
