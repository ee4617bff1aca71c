SPECIFICATION Spec
CONSTANTS
  staff = staff
  lead = lead
  admin = admin
  noc = noc
  field = field
  None = None
  Users = {staff, lead, admin}
  Depts = {noc, field}
  Level <- MCLevel
  DeptOf <- MCDeptOf
  TeamLeads = {lead}
  Creator = lead
  MaxHops = 4
INVARIANTS
  ArchivedIsDualApproved
  StageFollowsStatus
  OneDepartmentHolds
