SPECIFICATION OutageSpec
CONSTANTS
  t1 = t1
  o1 = o1
  o2 = o2
  a1 = a1
  a2 = a2
  r1 = r1
  i1 = i1
  i2 = i2
  NoOLT = NoOLT
  Tenants = {t1}
  OLTs = {o1, o2}
  Alarms = {a1, a2}
  Reports = {r1}
  Ids = {i1, i2}
  Owner <- MCOwner
  Source <- MCSource
  EventId <- MCEventId
  Staffed = {t1}
  MaxTasks = 1
  MaxFaults = 2
INVARIANTS
  KnownIsRecorded
PROPERTY
  AlarmsGetThrough
