------------------------------ MODULE Scheduler ------------------------------
(***************************************************************************)
(* The release scheduler serving one request at a time: every action is a  *)
(* whole API handler, from its checks to its commit.  A request that is    *)
(* refused changes nothing and is not a step.                              *)
(***************************************************************************)
EXTENDS BookingRules

CONSTANT RequestDays    \* bound: the dates requests name

ASSUME RequestDaysAssumption == RequestDays \subseteq Days

Write(b, row) == booking' = [booking EXCEPT ![b] = row]

Init == EmptyBoard

-----------------------------------------------------------------------------
(* Booking records *)

\* b is the next id of the table.
CreateBooking(a, b, t, d, s, emergency, override) ==
    /\ ~Exists(b)
    /\ \A c \in Bookings : c < b => Exists(c)
    /\ emergency \/ s # NoSlot
    /\ CreateAllowed(a, t, d, s, emergency, override)
    /\ Write(b, CreatedRow(a, t, d, s, emergency))
    /\ UNCHANGED <<today, collaborators, assignees, closure, gridVars, lockVars>>

UpdateBooking(a, b, t, d, s, override) ==
    /\ Exists(b)
    /\ UpdateAllowed(a, b, booking[b], t, d, s, override)
    /\ Write(b, UpdatedRow(booking[b], t, d, s))
    /\ UNCHANGED <<today, collaborators, assignees, closure, gridVars, lockVars>>

\* The admin move route: an update that keeps the tenant.
MoveBooking(a, b, d, s, override) ==
    /\ a \in Admins
    /\ booking[b].emergency \/ s # NoSlot
    /\ UpdateBooking(a, b, booking[b].tenant, d, s, override)

CancelBooking(a, b) ==
    /\ Exists(b)
    /\ CancelAllowed(a, b, booking[b])
    /\ Write(b, CancelledRow(booking[b]))
    /\ UNCHANGED <<today, collaborators, assignees, closure, gridVars, lockVars>>

RescheduleBooking(a, b, d, s) ==
    /\ Exists(b)
    /\ RescheduleAllowed(a, b, booking[b], d, s)
    /\ Write(b, RescheduledRow(booking[b], d, s))
    /\ UNCHANGED <<today, collaborators, assignees, closure, gridVars, lockVars>>

\* set_status: COMPLETED, BOOKED, or CANCELLED through cancel_booking.
CloseBooking(a, b) ==
    /\ CloseAllowed(a, booking[b])
    /\ Write(b, ClosedRow(booking[b]))
    /\ closure' = [closure EXCEPT ![b] = [old |-> booking[b].status, new |-> "COMPLETED"]]
    /\ UNCHANGED <<today, collaborators, assignees, gridVars, lockVars>>

KeepOpen(a, b) ==
    /\ KeepOpenAllowed(a, booking[b])
    /\ closure' = [closure EXCEPT ![b] = [old |-> "BOOKED", new |-> "BOOKED"]]
    /\ UNCHANGED <<today, booking, collaborators, assignees, gridVars, lockVars>>

CancelByStatus(a, b) == a \in Admins /\ CancelBooking(a, b)

ReopenBooking(a, b) ==
    /\ ReopenAllowed(a, booking[b])
    /\ Write(b, ReopenedRow(booking[b], closure[b]))
    /\ UNCHANGED <<today, collaborators, assignees, closure, gridVars, lockVars>>

\* assign-users and assign-self: exactly one Release Manager replaces the others.
AssignManager(a, b, m) ==
    /\ Exists(b)
    /\ AssignAllowed(a, booking[b], m)
    /\ assignees' = [assignees EXCEPT ![b] = {m}]
    /\ UNCHANGED <<today, booking, collaborators, closure, gridVars, lockVars>>

StartWork(a, b) ==
    /\ StartWorkAllowed(a, booking[b], assignees[b])
    /\ Write(b, StartedRow(booking[b]))
    /\ UNCHANGED <<today, collaborators, assignees, closure, gridVars, lockVars>>

\* The creator is dropped from the list; additions come from the Member Pool.
ReplaceCollaborators(a, b, asked) ==
    LET users == asked \ {booking[b].creator} IN
    /\ Exists(b)
    /\ CollaboratorsAllowed(a, booking[b])
    /\ users \ collaborators[b] \subseteq Pool
    /\ collaborators' = [collaborators EXCEPT ![b] = users]
    /\ UNCHANGED <<today, booking, assignees, closure, gridVars, lockVars>>

-----------------------------------------------------------------------------
(* Manual freeze and automatic-lock overrides *)

FreezeSlot(d, s) ==
    /\ d > today
    /\ SlotExists(s)
    /\ slotFreeze' = slotFreeze \cup {<<d, s>>}
    /\ UNCHANGED <<today, recordVars, gridVars, lockOverride>>

UnfreezeSlot(d, s) ==
    /\ d > today
    /\ <<d, s>> \in slotFreeze
    /\ slotFreeze' = slotFreeze \ {<<d, s>>}
    /\ UNCHANGED <<today, recordVars, gridVars, lockOverride>>

SlotOverridesOn(d) == {o \in lockOverride : o[1] = d /\ o[2] # NoSlot}

\* Mutant of UnlockAutomaticLock: a slot of an unlocked date is unlocked again.
UnlockWithinUnlockedDate(d, s) ==
    /\ d >= today - FollowupDays
    /\ d <= today \/ d \in AutomaticFrozenDates
    /\ s = NoSlot \/ SlotExists(s)
    /\ <<d, s>> \notin lockOverride
    /\ lockOverride' = (lockOverride \ (IF s = NoSlot THEN SlotOverridesOn(d) ELSE {}))
                          \cup {<<d, s>>}
    /\ UNCHANGED <<today, recordVars, gridVars, slotFreeze>>

\* s = NoSlot unlocks the whole date and absorbs its slot unlocks.
UnlockAutomaticLock(d, s) ==
    /\ d >= today - FollowupDays
    /\ d <= today \/ d \in AutomaticFrozenDates
    /\ s = NoSlot \/ SlotExists(s)
    /\ <<d, NoSlot>> \notin lockOverride
    /\ <<d, s>> \notin lockOverride
    /\ lockOverride' = (lockOverride \ (IF s = NoSlot THEN SlotOverridesOn(d) ELSE {}))
                          \cup {<<d, s>>}
    /\ UNCHANGED <<today, recordVars, gridVars, slotFreeze>>

\* s = NoSlot removes every unlock of the date.
RestoreAutomaticLock(d, s) ==
    LET stale == {<<d, s>>} \cup (IF s = NoSlot THEN SlotOverridesOn(d) ELSE {}) IN
    /\ stale \cap lockOverride # {}
    /\ lockOverride' = lockOverride \ stale
    /\ UNCHANGED <<today, recordVars, gridVars, slotFreeze>>

-----------------------------------------------------------------------------
(* The grid: slot configuration, daily capacity, holidays, settings, tenants *)

\* ensure_regular_slot_count
WithRows(rows, n) ==
    [s \in Slots |-> IF s <= n /\ rows[s] = "MISSING" THEN "ENABLED" ELSE rows[s]]

SetDayCapacity(d, n) ==
    /\ capacity' = [capacity EXCEPT ![d] = n]
    /\ slotRow' = WithRows(slotRow, n)
    /\ UNCHANGED <<today, recordVars, lockVars, holiday, settings, tenant>>

AddDaySlot(d) ==
    /\ d > today
    /\ RegularLimit(d) < MaxSlots
    /\ SetDayCapacity(d, RegularLimit(d) + 1)

RemoveDaySlot(d) ==
    /\ d > today
    /\ RegularLimit(d) > 0
    /\ \A b \in Bookings :
          booking[b].day = d /\ ~booking[b].emergency /\ Active(booking[b])
             => booking[b].slot < RegularLimit(d)
    /\ SetDayCapacity(d, RegularLimit(d) - 1)

\* replace_slots: rows is the new grid; "MISSING" where a slot is left out.
ReplaceSlots(rows) ==
    LET incoming == {s \in Slots : rows[s] # "MISSING"} IN
    /\ incoming # {}
    /\ UpcomingSlotNumbers \subseteq incoming
    /\ slotRow' = rows
    /\ UNCHANGED <<today, recordVars, lockVars, capacity, holiday, settings, tenant>>

\* The slot rows are topped up only when the payload carries the slot count.
WriteSettings(regular, weekly, freeze) ==
    /\ settings' = [regular |-> regular, weekly |-> weekly, freeze |-> freeze]
    /\ \/ slotRow' = WithRows(slotRow, regular)
       \/ regular = settings.regular /\ UNCHANGED slotRow
    /\ UNCHANGED <<today, recordVars, lockVars, capacity, holiday, tenant>>

\* Full-day holidays only: a partial one changes no rule.
AddHoliday(d) ==
    /\ d \notin holiday
    /\ holiday' = holiday \cup {d}
    /\ UNCHANGED <<today, recordVars, lockVars, slotRow, capacity, settings, tenant>>

RemoveHoliday(d) ==
    /\ d \in holiday
    /\ holiday' = holiday \ {d}
    /\ UNCHANGED <<today, recordVars, lockVars, slotRow, capacity, settings, tenant>>

\* A holiday may move to another date or stop being a full-day one.
UpdateHoliday(d, e, full) ==
    /\ d \in holiday
    /\ e \notin holiday \ {d}
    /\ holiday' = (holiday \ {d}) \cup (IF full THEN {e} ELSE {})
    /\ UNCHANGED <<today, recordVars, lockVars, slotRow, capacity, settings, tenant>>

UpdateTenant(t, limit) ==
    /\ tenant' = [tenant EXCEPT ![t].limit = limit]
    /\ UNCHANGED <<today, recordVars, lockVars, slotRow, capacity, holiday, settings>>

UpdateTenantStatus(t, active) ==
    /\ tenant' = [tenant EXCEPT ![t].active = active]
    /\ UNCHANGED <<today, recordVars, lockVars, slotRow, capacity, holiday, settings>>

DayPasses ==
    /\ today < LastDay
    /\ today' = today + 1
    /\ UNCHANGED <<recordVars, gridVars, lockVars>>

-----------------------------------------------------------------------------
(* The specification.  Administration of locks and of the grid is done by   *)
(* administrators only (require_admin), so those actions carry no account.  *)

PlaceStep(a, b) ==
    \E t \in Tenants, d \in RequestDays, s \in Slots \cup {NoSlot}, override \in BOOLEAN :
        \/ \E emergency \in BOOLEAN : CreateBooking(a, b, t, d, s, emergency, override)
        \/ UpdateBooking(a, b, t, d, s, override)
        \/ MoveBooking(a, b, d, s, override)
        \/ RescheduleBooking(a, b, d, s)

LifecycleStep(a, b) ==
    \/ CancelBooking(a, b)
    \/ CloseBooking(a, b)
    \/ KeepOpen(a, b)
    \/ CancelByStatus(a, b)
    \/ ReopenBooking(a, b)
    \/ StartWork(a, b)

PeopleStep(a, b) ==
    \/ \E m \in Managers : AssignManager(a, b, m)
    \/ \E users \in SUBSET Users : ReplaceCollaborators(a, b, users)

RecordStep ==
    \E a \in Accounts, b \in Bookings :
        PlaceStep(a, b) \/ LifecycleStep(a, b) \/ PeopleStep(a, b)

LockStep ==
    \E d \in RequestDays, s \in Slots \cup {NoSlot} :
        \/ FreezeSlot(d, s)
        \/ UnfreezeSlot(d, s)
        \/ UnlockAutomaticLock(d, s)
        \/ RestoreAutomaticLock(d, s)

GridStep ==
    \/ \E d \in RequestDays :
          \/ AddDaySlot(d)
          \/ RemoveDaySlot(d)
          \/ AddHoliday(d)
          \/ RemoveHoliday(d)
          \/ \E e \in RequestDays, full \in BOOLEAN : UpdateHoliday(d, e, full)
    \/ \E rows \in [Slots -> {"MISSING", "ENABLED", "DISABLED"}] : ReplaceSlots(rows)
    \/ \E regular \in Slots, weekly \in 1..MaxWeekly, freeze \in 0..MaxFreeze :
          WriteSettings(regular, weekly, freeze)
    \/ \E t \in Tenants :
          \/ \E limit \in 0..MaxWeekly : UpdateTenant(t, limit)
          \/ \E active \in BOOLEAN : UpdateTenantStatus(t, active)

Next == RecordStep \/ LockStep \/ GridStep \/ DayPasses

vars == boardVars

Spec == Init /\ [][Next]_vars

\* Normal users schedule: administrators close, reopen, assign, freeze, unlock and
\* edit the grid, but place no booking and lower no tenant's weekly limit.
UsersScheduleStep ==
    \/ \E b \in Bookings :
          \/ \E a \in Users : PlaceStep(a, b) \/ LifecycleStep(a, b)
          \/ \E a \in Admins : CloseBooking(a, b) \/ KeepOpen(a, b) \/ ReopenBooking(a, b)
          \/ \E a \in Accounts : PeopleStep(a, b)
    \/ LockStep
    \/ GridStep /\ \A t \in Tenants : EffectiveWeeklyLimit(t) <= EffectiveWeeklyLimit(t)'
    \/ DayPasses

UsersScheduleSpec == Init /\ [][UsersScheduleStep]_vars

-----------------------------------------------------------------------------
(* Properties *)

\* Every table holds rows of its own type, within the limits of the schema:
\* a day never carries more than MaxSlots slots, however it is edited.
TypeOK == TablesOK

\* The status tells whether work was started, and the closure audit of a closed
\* record tells it too: reopening can never restore Open over started work, nor
\* In Progress where nobody started.
WorkMatchesStatus ==
    \A b \in Bookings :
        /\ booking[b].status = "BOOKED" => ~booking[b].change
        /\ booking[b].status = "IN_PROGRESS" => booking[b].change
        /\ booking[b].status = "COMPLETED" =>
              /\ closure[b].new = "COMPLETED"
              /\ closure[b].old = IF booking[b].change THEN "IN_PROGRESS" ELSE "BOOKED"

\* A whole-date unlock absorbs the slot unlocks of its date and refuses new
\* ones, so one Restore Lock returns the date to the automatic lock.
WholeDateUnlockStandsAlone ==
    \A o \in lockOverride : <<o[1], NoSlot>> \in lockOverride => o[2] = NoSlot

Protected(b) == Exists(b) /\ ScheduleLocked(booking[b].day, LockSlot(booking[b]))

KeepsProtectedRecords ==
    \A b \in Bookings :
        Protected(b) =>
            /\ booking'[b] = [booking[b] EXCEPT !.status = booking'[b].status]
            /\ assignees'[b] = assignees[b]
            /\ booking'[b].status = booking[b].status
               \/ "COMPLETED" \in {booking[b].status, booking'[b].status}

\* On a past, current or automatically locked date nothing about a record
\* changes but closing and reopening it: not its place, tenant, work details or
\* assignee, through any handler and any caller.
ProtectedRecordsStay == [][KeepsProtectedRecords]_vars

LandsOnOpenDates ==
    \A b \in Bookings :
        <<Exists(b), booking[b].day, booking[b].slot>>
           # <<Exists(b), booking[b].day, booking[b].slot>>'
        => ~ScheduleLocked(booking'[b].day, LockSlot(booking'[b]))

\* No handler puts a record on a past, current or automatically locked date, by
\* creating it there or by moving it there.
NothingLandsOnLockedDate == [][LandsOnOpenDates]_vars

KeepsFrozenSlots ==
    \A b \in Bookings :
        LET was == booking[b]
            is == booking'[b]
        IN  /\ ManuallyFrozen(was.day, was.slot) =>
                  /\ is = [was EXCEPT !.status = is.status]
                  /\ is.status # was.status => "COMPLETED" \in {is.status, was.status}
            /\ ManuallyFrozen(is.day, is.slot) => was.day = is.day /\ was.slot = is.slot

\* A manually frozen slot is out of normal users' reach: a booking in it keeps
\* its place, tenant and status but for closing, and none is put into it.
FrozenSlotsAreOutOfReach == [][KeepsFrozenSlots]_vars

\* What the board shows of the tables.
BoardStage == [b \in Bookings |-> booking[b].status]
BoardPlace == [b \in Bookings |-> <<booking[b].day, booking[b].slot>>]
BoardResume == [b \in Bookings |->
                   IF booking[b].status = "COMPLETED" THEN closure[b].old ELSE "ABSENT"]

Board ==
    INSTANCE ChangeBoard WITH
        Records <- Bookings,
        Places <- Days \X (Slots \cup {NoSlot}),
        Queue <- Days \X {NoSlot},
        stage <- BoardStage,
        place <- BoardPlace,
        resume <- BoardResume

\* The scheduler implements the board's promise: records follow the life cycle,
\* closed and cancelled ones stay where they are, places are exclusive, and
\* reopening restores the stage before the latest closure.
ImplementsChangeBoard == Board!Spec
=============================================================================
