SPECIFICATION RecordSpec
CONSTANTS
  m1 = m1
  u1 = u1
  u2 = u2
  t1 = t1
  t2 = t2
  Owner = Owner
  Bookings = {1, 2}
  Tenants = {t1}
  Users = {}
  Managers = {m1}
  Management = {}
  Pool = {}
  TenantsOf <- MCTenantsOf
  MaxSlots = 1
  MaxFreeze = 1
  MaxWeekly = 1
  ScanDays = 2
  SearchDays = 5
  FollowupDays = 1
  LastDay = 2
  FirstDay = 0
  Defaults <- MCDefaults
  RequestDays = {1, 2}
INVARIANTS
  WorkMatchesStatus
PROPERTIES
  ImplementsChangeBoard
  PagesMissNothing
CHECK_DEADLOCK FALSE
