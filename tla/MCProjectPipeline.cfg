SPECIFICATION Spec
CONSTANTS
  clerk = clerk
  lead = lead
  manager = manager
  sales = sales
  finance = finance
  Users = {clerk, lead, manager}
  Depts = {sales, finance}
  Managers = {manager}
  Leads = {lead, manager}
  Scope <- MCScope
  Templates <- MCTemplates
  MaxStages = 5
INVARIANTS
  NothingSkipped
  GatesHold
  NeverStuck
