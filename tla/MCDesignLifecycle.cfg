SPECIFICATION Spec
CONSTANTS
  fat = fat
  cab = cab
  p1 = p1
  p2 = p2
  eng = eng
  mgr = mgr
  Users = {eng, mgr}
  Admins = {}
  ReviewHolders = {mgr}
  ApproveHolders = {mgr}
  Devices = {fat}
  Cables = {cab}
  Plans = {p1, p2}
  Flawed = {p2}
  MaxVersions = 3
  MaxRequests = 3
  MaxDeployments = 1
INVARIANTS
  EditableIsUnfrozen
  ReviewedIsWhatWasFrozen
  RowsFollowStatus
  OneOpenReview
  RequestsDescribeTheirVersion
  DeploymentGated
  LiveIsWhatWasReviewed
PROPERTIES
  NothingReplacedIsLost
  Promise
CHECK_DEADLOCK FALSE
