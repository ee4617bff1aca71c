SPECIFICATION Spec
CONSTANTS
  sales = sales
  survey = survey
  build = build
  g1 = g1
  e1 = e1
  e2 = e2
  e3 = e3
  Depts = {sales, survey, build}
  Groups = {g1}
  EdgeIds = {e1, e2, e3}
  None = None
INVARIANT
  WellFormedIsAccepted
