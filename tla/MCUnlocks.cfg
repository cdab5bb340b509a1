SPECIFICATION Spec
CONSTANTS
  r1 = r1
  r2 = r2
  NoSlot = NoSlot
  Requests = {r1, r2}
  Dates = {1}
  Slots = {1, 2}
  Ids = {1, 2, 3, 4}
INVARIANTS
  OneUnlockPerSlot
