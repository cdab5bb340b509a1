SPECIFICATION LockSpec
CONSTANTS
  m1 = m1
  u1 = u1
  u2 = u2
  t1 = t1
  t2 = t2
  Owner = Owner
  Bookings = {1}
  Tenants = {t1}
  Users = {u1, u2}
  Managers = {m1}
  Management = {}
  Pool = {u2}
  TenantsOf <- MCTenantsOf
  MaxSlots = 1
  MaxFreeze = 1
  MaxWeekly = 1
  ScanDays = 4
  SearchDays = 3
  FollowupDays = 1
  LastDay = 7
  FirstDay = 4
  Defaults <- FrozenDefaults
  RequestDays = {5, 7}
INVARIANTS
  BoardOffersWhatIsAccepted
  NextSlotIsTheFirstAccepted
  PickerExact
  FlagsTellTheTruth
  WholeDateUnlockStandsAlone
PROPERTIES
  ProtectedRecordsStay
  NothingLandsOnLockedDate
CHECK_DEADLOCK FALSE
