SPECIFICATION Spec
CONSTANTS
  m1 = m1
  m2 = m2
  u1 = u1
  t1 = t1
  r1 = r1
  r2 = r2
  Owner = Owner
  Requests = {r1, r2}
  Asks <- WeekAsks
  Bookings = {1, 2}
  Tenants = {t1}
  Users = {u1}
  Managers = {m1, m2}
  Management = {}
  Pool = {}
  TenantsOf <- MCTenantsOf
  MaxSlots = 1
  MaxFreeze = 0
  MaxWeekly = 1
  ScanDays = 5
  SearchDays = 5
  FollowupDays = 1
  LastDay = 8
  FirstDay = 3
  Defaults <- MCDefaults
INVARIANTS
  WeeklyQuota
