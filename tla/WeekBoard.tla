------------------------------ MODULE WeekBoard ------------------------------
(***************************************************************************)
(* The weekly board (GET /schedule), a tenant's landing view and the next  *)
(* free slot a reader is told about.  The board resolves a whole week from *)
(* prefetched tables and answers cell by cell; the booking handlers decide *)
(* the same questions row by row, so that they agree is a property.        *)
(*                                                                         *)
(* w is the Sunday of a week, d a date, s a slot.                          *)
(***************************************************************************)
EXTENDS BookingRules

WeekDays(w) == w .. w+4

\* Every configured slot row stays on every date, usable or not.
PlanSlots == {s \in Slots : SlotExists(s)}

\* by_cell: the standing normal bookings of one cell.
CellBookings(d, s) ==
    {b \in Bookings : /\ Active(booking[b]) /\ ~booking[b].emergency
                      /\ booking[b].day = d /\ booking[b].slot = s}

DayQueue(d) ==
    {b \in Bookings : Active(booking[b]) /\ booking[b].emergency /\ booking[b].day = d}

\* Recent dates are locked for scheduling although they take documents.
BoardLocked(d) ==
    d \in today-FollowupDays .. today \/ (d > today /\ d \in AutomaticFrozenDates)

DateUnlocked(d) == BoardLocked(d) /\ <<d, NoSlot>> \in lockOverride

CellUnlocked(d, s) == DateUnlocked(d) \/ (BoardLocked(d) /\ <<d, s>> \in lockOverride)

\* Mutant of CellOpen: an unlock lifts every lock of the date.
CellOpenOnceUnlocked(d, s) ==
    /\ CellUnlocked(d, s) \/ (d > today /\ d \notin AutomaticFrozenDates)
    /\ IsDeploymentWeekday(d)
    /\ SlotBookable(d, s)
    /\ ~ManuallyFrozen(d, s)

\* normal_slot_rejection(...) is None for the cell, whoever holds it.
CellOpen(d, s) ==
    /\ d > today
    /\ d \notin AutomaticFrozenDates \/ CellUnlocked(d, s)
    /\ IsDeploymentWeekday(d)
    /\ SlotBookable(d, s)
    /\ ~ManuallyFrozen(d, s)

CellBookable(d, s) == CellBookings(d, s) = {} /\ CellOpen(d, s)

SlotState(d, s) ==
    CASE CellBookings(d, s) # {} -> "BOOKED"
      [] CellBookings(d, s) = {} /\ slotRow[s] = "ENABLED" /\ s <= RegularLimit(d)
            /\ d \in holiday -> "HOLIDAY"
      [] CellBookings(d, s) = {} /\ SlotBookable(d, s) /\ CellOpen(d, s) -> "AVAILABLE"
      [] OTHER -> "DISABLED"

Cells(w) == WeekDays(w) \X PlanSlots

\* Mutant of RegularTotal: only the cells that are still open count as capacity.
RegularTotalOfOpenCells(w) == Cardinality({c \in Cells(w) : CellOpen(c[1], c[2])})

\* summary: a booked cell counts as capacity even where the grid has closed it.
RegularTotal(w) ==
    Cardinality({c \in Cells(w) : CellOpen(c[1], c[2]) \/ CellBookings(c[1], c[2]) # {}})
RegularBooked(w) == Cardinality({c \in Cells(w) : CellBookings(c[1], c[2]) # {}})
RegularAvailable(w) ==
    IF RegularTotal(w) > RegularBooked(w) THEN RegularTotal(w) - RegularBooked(w) ELSE 0

EmergencyOpen(d) == d > today /\ (d \notin AutomaticFrozenDates \/ DateUnlocked(d))

-----------------------------------------------------------------------------
(* The next free slot *)

NoTarget == <<-1, NoSlot>>

\* The loops meet days in order and the slots of a day in order.
Earliest(cells) ==
    IF cells = {} THEN NoTarget
    ELSE CHOOSE c \in cells :
            \A e \in cells : c[1] < e[1] \/ (c[1] = e[1] /\ c[2] <= e[2])

\* The bookable cells of the weeks from w on, through date last.
FreeFrom(w, last) ==
    {c \in (w .. last) \X PlanSlots :
        c[1] \in WeekDays(WeekStart(c[1])) /\ CellBookable(c[1], c[2])}

\* _nearest_deployment_week
LandingWeek ==
    WeekStart(CHOOSE d \in today .. today+6 :
        /\ IsDeploymentWeekday(d)
        /\ \A e \in today .. d-1 : ~IsDeploymentWeekday(e))

\* _tenant_landing: landing.next_available
LandingSlot == Earliest(FreeFrom(LandingWeek, today+SearchDays))

\* Mutant of NextAvailableSlot: the search starts in the week after.
NextAvailableSlotNextWeek(days) ==
    LET through == today + (IF days < 1 THEN 1 ELSE days)
    IN  Earliest({c \in FreeFrom(WeekStart(today+1) + 7, through) : c[1] > today})

\* next_available_slot(search_days=days)
NextAvailableSlot(days) ==
    LET through == today + (IF days < 1 THEN 1 ELSE days)
    IN  Earliest({c \in FreeFrom(WeekStart(today+1), through) : c[1] > today})

-----------------------------------------------------------------------------
(* Properties: what the board says and what the handlers do *)

ShownWeeks == {WeekStart(d) : d \in Days}

\* The board's bookable cells, day by day, are the slots the create handler takes
\* without an override, its free capacity is their number, and a date shows its
\* emergency queue open exactly when an administrator's emergency change is
\* accepted: no unlock, freeze, holiday, capacity or midnight tells them apart.
BoardOffersWhatIsAccepted ==
    \A w \in ShownWeeks :
        LET open == {c \in Cells(w) : CellBookable(c[1], c[2])}
            takers == {t \in Tenants : tenant[t].active}
        IN  /\ \A t \in takers :
                  /\ open = {c \in WeekDays(w) \X Slots :
                                CreateAllowed(Owner, t, c[1], c[2], FALSE, FALSE)}
                  /\ \A d \in WeekDays(w) :
                        EmergencyOpen(d) <=> CreateAllowed(Owner, t, d, NoSlot, TRUE, FALSE)
            /\ open = {c \in Cells(w) : SlotState(c[1], c[2]) = "AVAILABLE"}
            /\ RegularAvailable(w) = Cardinality(open)

\* Nothing hides an upcoming booking of a deployment weekday: not a slot that was
\* switched off, a smaller day capacity, a holiday or a freeze set under it.
EveryUpcomingBookingIsShown ==
    \A b \in Bookings :
        LET r == booking[b]
        IN  Active(r) /\ r.day >= today /\ IsDeploymentWeekday(r.day) =>
                IF r.emergency THEN b \in DayQueue(r.day)
                ELSE r.slot \in PlanSlots /\ CellBookings(r.day, r.slot) = {b}

\* The next slot a tenant lands on and the one the assistant reports are one slot,
\* although one search starts this week and the other tomorrow, and it is the
\* earliest slot within the horizon that would be accepted.
NextSlotIsTheFirstAccepted ==
    /\ LandingSlot = NextAvailableSlot(SearchDays)
    /\ \A t \in Tenants :
          tenant[t].active =>
              LandingSlot = Earliest({c \in (today+1 .. today+SearchDays) \X Slots :
                                CreateAllowed(Owner, t, c[1], c[2], FALSE, FALSE)})
=============================================================================
