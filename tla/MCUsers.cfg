SPECIFICATION UserSpec
CONSTANTS
  m1 = m1
  u1 = u1
  u2 = u2
  t1 = t1
  t2 = t2
  Owner = Owner
  Bookings = {1, 2, 3}
  Tenants = {t1, t2}
  Users = {u1}
  Managers = {m1}
  Management = {}
  Pool = {}
  TenantsOf <- BothTenants
  MaxSlots = 1
  MaxFreeze = 1
  MaxWeekly = 2
  ScanDays = 1
  SearchDays = 5
  FollowupDays = 1
  LastDay = 8
  FirstDay = 3
  Defaults <- UserDefaults
  RequestDays = {4, 7, 8}
INVARIANTS
  WeeklyQuota
  UpcomingListsEachWeekOnce
PROPERTIES
  FrozenSlotsAreOutOfReach
CHECK_DEADLOCK FALSE
