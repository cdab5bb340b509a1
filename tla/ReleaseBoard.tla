---------------------------- MODULE ReleaseBoard ----------------------------
(***************************************************************************)
(* The scheduler's database tables and the read-only rules every handler   *)
(* asks before it writes: calendar, automatic lock, manual freeze, day     *)
(* plan, weekly limit, access and the reschedule picker.  Scheduler (one   *)
(* request at a time) and SchedulerTx (interleaved requests) both extend   *)
(* this module and add the writes.                                         *)
(*                                                                         *)
(* Dates are numbers; date 0 is a Sunday.  A booking row is a record; rows *)
(* of other tables are the membership of a set or the entry of a function. *)
(***************************************************************************)
EXTENDS Integers, FiniteSets

CONSTANTS
    Bookings,       \* ids the booking table can hand out
    Tenants,
    Users,          \* accounts without an administrator role
    Managers,       \* Release Managers: administrators that can be assigned
    Owner,          \* the protected Owner account: administrator, never assigned
    Management,     \* users in the read-only Management group
    Pool,           \* users in the Member Pool
    TenantsOf,      \* the tenant groups a user belongs to
    MaxSlots,       \* MAX_SLOTS_PER_DAY (12 in the code)
    MaxFreeze,      \* upper limit of booking_freeze_dates (25 in the code)
    MaxWeekly,      \* upper limit of weekly_booking_limit (25 in the code)
    ScanDays,       \* the guard of automatic_frozen_dates (370 in the code)
    SearchDays,     \* RESCHEDULE_SEARCH_DAYS (60 in the code)
    FollowupDays,   \* FOLLOWUP_DAYS (7 in the code)
    LastDay,        \* bound: the last date of the model's calendar
    FirstDay,       \* the date the history starts on
    Defaults        \* application settings at the start (DEFAULTS of the code)

ASSUME SizesAssumption ==
    /\ MaxSlots \in Nat \ {0}
    /\ MaxFreeze \in Nat
    /\ MaxWeekly \in Nat \ {0}
    /\ ScanDays \in Nat
    /\ SearchDays \in Nat \ {0}
    /\ FollowupDays \in Nat
    /\ LastDay \in Nat
    /\ FirstDay \in 0..LastDay
    /\ Bookings \subseteq Nat /\ IsFiniteSet(Bookings)
    /\ Tenants # {}
    /\ Defaults \in [regular: 1..MaxSlots, weekly: 1..MaxWeekly, freeze: 0..MaxFreeze]

ASSUME AccountsAssumption ==
    /\ Management \subseteq Users
    /\ Pool \subseteq Users
    /\ TenantsOf \in [Users -> SUBSET Tenants]
    /\ Owner \notin Users \cup Managers
    /\ Users \cap Managers = {}

ASSUME ManagersAssumption == IsFiniteSet(Managers)

Admins == Managers \cup {Owner}
Accounts == Admins \cup Users
Days == 0..LastDay
Slots == 1..MaxSlots
NoSlot == 0         \* slot_number NULL: the emergency queue, or a whole date
NoCapacity == -1    \* no daily_slot_capacities row for the date
NoLimit == 0        \* tenants.weekly_booking_limit NULL
NoBooking == -1     \* exclude_id=None

Statuses == {"ABSENT", "BOOKED", "IN_PROGRESS", "COMPLETED", "CANCELLED"}
ActiveStatuses == {"BOOKED", "IN_PROGRESS", "COMPLETED"}

Row == [status: Statuses, day: Days, slot: 0..MaxSlots, tenant: Tenants,
        emergency: BOOLEAN, creator: Accounts, change: BOOLEAN]

VARIABLES
    today,          \* today_local()
    booking,        \* deployment_bookings; status "ABSENT" is an unused id
    collaborators,  \* booking_collaborators
    assignees,      \* booking_assignments
    closure,        \* latest BOOKING_STATUS_CHANGED audit of each booking
    slotFreeze,     \* slot_freezes
    lockOverride,   \* automatic_lock_overrides
    slotRow,        \* deployment_slot_configurations, by slot number
    capacity,       \* daily_slot_capacities, by date
    holiday,        \* dates of the full-day holidays
    settings,       \* application_settings
    tenant          \* tenants

recordVars == <<booking, collaborators, assignees, closure>>
gridVars == <<slotRow, capacity, holiday, settings, tenant>>
lockVars == <<slotFreeze, lockOverride>>
boardVars == <<today, recordVars, gridVars, lockVars>>

Closure == [old: Statuses, new: Statuses]
NoClosure == [old |-> "ABSENT", new |-> "ABSENT"]

RecordsOK ==
    /\ booking \in [Bookings -> Row]
    /\ collaborators \in [Bookings -> SUBSET Users]
    /\ assignees \in [Bookings -> SUBSET Managers]
    /\ closure \in [Bookings -> Closure]

LocksOK ==
    /\ slotFreeze \subseteq Days \X Slots
    /\ lockOverride \subseteq Days \X (Slots \cup {NoSlot})

GridOK ==
    /\ slotRow \in [Slots -> {"MISSING", "ENABLED", "DISABLED"}]
    /\ capacity \in [Days -> 0..MaxSlots \cup {NoCapacity}]
    /\ holiday \subseteq Days
    /\ settings \in [regular: Slots, weekly: 1..MaxWeekly, freeze: 0..MaxFreeze]
    /\ tenant \in [Tenants -> [active: BOOLEAN, limit: 0..MaxWeekly]]

TablesOK == today \in Days /\ RecordsOK /\ LocksOK /\ GridOK

Exists(b) == booking[b].status # "ABSENT"
Active(r) == r.status \in ActiveStatuses

VacantRow ==
    [status |-> "ABSENT", day |-> 0, slot |-> NoSlot,
     tenant |-> CHOOSE t \in Tenants : TRUE,
     emergency |-> FALSE, creator |-> Owner, change |-> FALSE]

\* initialise: the defaults, their slot rows and the tenants; no booking yet.
EmptyBoard ==
    /\ today = FirstDay
    /\ booking = [b \in Bookings |-> VacantRow]
    /\ collaborators = [b \in Bookings |-> {}]
    /\ assignees = [b \in Bookings |-> {}]
    /\ closure = [b \in Bookings |-> NoClosure]
    /\ slotFreeze = {}
    /\ lockOverride = {}
    /\ slotRow = [s \in Slots |-> IF s <= Defaults.regular THEN "ENABLED" ELSE "MISSING"]
    /\ capacity = [d \in Days |-> NoCapacity]
    /\ holiday = {}
    /\ settings = Defaults
    /\ tenant = [t \in Tenants |-> [active |-> TRUE, limit |-> NoLimit]]

-----------------------------------------------------------------------------
(* Calendar and locks *)

IsDeploymentWeekday(d) == (d % 7) \in 0..4
WeekStart(d) == d - (d % 7)

UpcomingDeploymentDates ==
    {d \in today+1 .. today+ScanDays : IsDeploymentWeekday(d) /\ d \notin holiday}

AutomaticFrozenDates ==
    {today} \cup {d \in UpcomingDeploymentDates :
        Cardinality({e \in UpcomingDeploymentDates : e <= d}) <= settings.freeze}

OverrideApplies(d, s) == {<<d, NoSlot>>, <<d, s>>} \cap lockOverride # {}

ScheduleLocked(d, s) ==
    \/ d <= today
    \/ d \in AutomaticFrozenDates /\ ~OverrideApplies(d, s)

ManuallyFrozen(d, s) == <<d, s>> \in slotFreeze

LockSlot(r) == IF r.emergency THEN NoSlot ELSE r.slot

LockReason(r) ==
    CASE r.day < today -> "PAST_DATE"
      [] r.day = today -> "CURRENT_DATE"
      [] r.day > today /\ ScheduleLocked(r.day, LockSlot(r)) -> "AUTOMATIC_DATE_FREEZE"
      [] r.day > today /\ ~ScheduleLocked(r.day, LockSlot(r))
            /\ ManuallyFrozen(r.day, r.slot) -> "MANUAL_SLOT_FREEZE"
      [] OTHER -> "NONE"

-----------------------------------------------------------------------------
(* The day plan and who holds which slot *)

RegularLimit(d) ==
    IF d \in Days /\ capacity[d] # NoCapacity THEN capacity[d] ELSE settings.regular

SlotExists(s) == s \in Slots /\ slotRow[s] # "MISSING"

SlotBookable(d, s) ==
    /\ slotRow[s] = "ENABLED"
    /\ s <= RegularLimit(d)
    /\ IsDeploymentWeekday(d)
    /\ d \notin holiday

\* Mutant of SlotTaken: a closed record no longer holds its slot.
SlotTakenByOpenRecord(d, s, b) ==
    /\ s # NoSlot
    /\ \E o \in Bookings \ {b} :
          /\ booking[o].day = d /\ booking[o].slot = s
          /\ booking[o].status \in {"BOOKED", "IN_PROGRESS"}

\* _slot_taken: some other active booking holds the slot.
SlotTaken(d, s, b) ==
    /\ s # NoSlot
    /\ \E o \in Bookings \ {b} :
          booking[o].day = d /\ booking[o].slot = s /\ Active(booking[o])

\* Mutant of NormalSlotOpen: the lock of the target date is not consulted.
NormalSlotOpenOnAnyDate(d, s, occupied) ==
    /\ IsDeploymentWeekday(d)
    /\ SlotExists(s)
    /\ SlotBookable(d, s)
    /\ ~ManuallyFrozen(d, s)
    /\ ~occupied

\* normal_slot_rejection returns None.
NormalSlotOpen(d, s, occupied) ==
    /\ ~ScheduleLocked(d, s)
    /\ IsDeploymentWeekday(d)
    /\ SlotExists(s)
    /\ SlotBookable(d, s)
    /\ ~ManuallyFrozen(d, s)
    /\ ~occupied

\* _validate_slot_target; a manual override skips weekday, holiday, capacity and
\* manual freeze, never the lock, a missing slot or an occupied one.
ValidSlotTarget(a, d, s, b, override) ==
    IF override
    THEN /\ a \in Admins
         /\ ~ScheduleLocked(d, s)
         /\ SlotExists(s)
         /\ ~SlotTaken(d, s, b)
    ELSE NormalSlotOpen(d, s, SlotTaken(d, s, b))

WeeklyNormal(t, d) ==
    {o \in Bookings : /\ booking[o].tenant = t
                      /\ booking[o].day \in WeekStart(d) .. WeekStart(d) + 4
                      /\ ~booking[o].emergency
                      /\ Active(booking[o])}

EffectiveWeeklyLimit(t) ==
    IF tenant[t].limit # NoLimit THEN tenant[t].limit ELSE settings.weekly

\* Mutant of WithinWeeklyLimit: off by one.
WithinWeeklyLimitPlusOne(a, t, d, b) ==
    a \in Admins \/ Cardinality(WeeklyNormal(t, d) \ {b}) <= EffectiveWeeklyLimit(t)

\* _validate_weekly_limit; administrators bypass it.
WithinWeeklyLimit(a, t, d, b) ==
    a \in Admins \/ Cardinality(WeeklyNormal(t, d) \ {b}) < EffectiveWeeklyLimit(t)

-----------------------------------------------------------------------------
(* What the tables must satisfy, whoever wrote them *)

\* Two standing normal bookings never hold the same slot of the same date,
\* whichever of create, edit, move, reschedule, close, reopen and cancel led there.
SlotExclusive ==
    \A b, c \in Bookings :
        /\ b # c
        /\ Active(booking[b]) /\ ~booking[b].emergency
        /\ Active(booking[c]) /\ ~booking[c].emergency
        => <<booking[b].day, booking[b].slot>> # <<booking[c].day, booking[c].slot>>

\* Emergency changes are a queue, not a slot: they keep no slot number through
\* any edit or move, and a normal booking never loses its own.
QueueHasNoSlot ==
    \A b \in Bookings :
        Exists(b) => (booking[b].emergency <=> booking[b].slot = NoSlot)

\* The board never references a missing slot: whatever grids replace the slot
\* configuration, an upcoming standing booking keeps its slot's row.
BoardKeepsItsSlots ==
    \A b \in Bookings :
        Active(booking[b]) /\ ~booking[b].emergency /\ booking[b].day >= today
            => slotRow[booking[b].slot] # "MISSING"

\* While only normal users schedule, no tenant goes over its weekly limit: not by
\* moving a booking between weeks nor by giving it to another tenant, and closing
\* and reopening bookings in between changes nothing.
WeeklyQuota ==
    \A t \in Tenants, d \in Days :
        Cardinality(WeeklyNormal(t, d)) <= EffectiveWeeklyLimit(t)
=============================================================================
