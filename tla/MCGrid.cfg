SPECIFICATION GridSpec
CONSTANTS
  m1 = m1
  u1 = u1
  u2 = u2
  t1 = t1
  t2 = t2
  Owner = Owner
  Bookings = {1}
  Tenants = {t1}
  Users = {}
  Managers = {m1}
  Management = {}
  Pool = {}
  TenantsOf <- MCTenantsOf
  MaxSlots = 2
  MaxFreeze = 0
  MaxWeekly = 1
  ScanDays = 2
  SearchDays = 5
  FollowupDays = 1
  LastDay = 2
  FirstDay = 0
  Defaults <- TwoSlotDefaults
  RequestDays = {1, 2}
INVARIANTS
  BoardOffersWhatIsAccepted
  EveryUpcomingBookingIsShown
  PickerExact
CHECK_DEADLOCK FALSE
