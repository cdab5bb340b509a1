SPECIFICATION Spec
CONSTANTS
  thisWeek = thisWeek
  nextWeek = nextWeek
  me = me
  NoWeek = NoWeek
  Me = me
  Clients = {me}
  Limit = 1
  Window = 1
  Schedules = {1}
  Weeks = {thisWeek, nextWeek}
  Today = thisWeek
  MaxLoads = 3
  MaxAwaited = 1
  SettingsAsks <- MCSettings
INVARIANTS
  AtMostLimitPerWindow
  RetryAfterIsHonest
  AnnouncedAtMostOnce
  SettledViewIsCurrent
PROPERTIES
  WaitEnds
  SavedIsShown
CHECK_DEADLOCK FALSE
