SPECIFICATION Spec
CONSTANTS
  a = a
  b = b
  c = c
  h1 = h1
  k1 = k1
  None = None
  Codes = {a, b, c}
  Hands = {h1}
  Cables = {k1}
  Uploads = {"u1"}
  Deletions = {"d1"}
  Files <- MCFiles
  Seeds <- MCSeeds
  HandTypes = {"SPLITTER", "FDT"}
  HandCodes = {a, b}
  HandEnds = {1}
  MAX_CASCADE_DEPTH = 1
  MAX_WALK = 1
  MAX_DEPTH = 2
  MaxReg = 4
  MaxEdits = 2
INVARIANTS
  LinksFollowTheirData
  DeletedIsGone
  NoAssetContainsItself
PROPERTIES
  DeletesWhatWasShown
  RegisterIsOnTheMap
CHECK_DEADLOCK FALSE
