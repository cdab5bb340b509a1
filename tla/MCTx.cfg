SPECIFICATION Spec
CONSTANTS
  m1 = m1
  m2 = m2
  u1 = u1
  t1 = t1
  r1 = r1
  r2 = r2
  Owner = Owner
  Requests = {r1, r2}
  Asks <- AllAsks
  Bookings = {1, 2}
  Tenants = {t1}
  Users = {u1}
  Managers = {m1, m2}
  Management = {}
  Pool = {}
  TenantsOf <- MCTenantsOf
  MaxSlots = 2
  MaxFreeze = 0
  MaxWeekly = 1
  ScanDays = 1
  SearchDays = 1
  FollowupDays = 1
  LastDay = 1
  FirstDay = 0
  Defaults <- TwoSlots
INVARIANTS
  SlotExclusive
  OneAssignee
PROPERTIES
  FinishedIsRewrittenByStaleRequestsOnly
  ReopenTakesClosedRecords
SYMMETRY
  RequestSymmetry
