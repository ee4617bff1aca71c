SPECIFICATION SSpec
CONSTANTS
  staff = staff
  admin = admin
  noc = noc
  field = field
  None = None
  Users = {staff, admin}
  Depts = {noc, field}
  Level <- MCLevel
  DeptOf <- MCDeptOf
  TeamLeads = {}
  Creator = admin
  MaxHops = 3
  MaxMissed = 1
INVARIANTS
  HistoryKnowsDepartment
PROPERTY
  DeletedIsNotBlocked
CHECK_DEADLOCK FALSE
