--------------------------- MODULE Scheduler_proofs ---------------------------
(* Theorems about Scheduler, for every value of its constants. *)
EXTENDS Scheduler, BookingRules_proofs

(***************************************************************************)
(* Types                                                                   *)
(***************************************************************************)

USE SizesAssumption, AccountsAssumption, RequestDaysAssumption

\* A fresh installation's tables have their types.
LEMMA InitTypeOK == Init => TypeOK
BY EmptyBoardTypes DEF Init, TypeOK

\* Writing a row of the right type keeps the records' types.
LEMMA WriteType ==
    ASSUME RecordsOK, NEW b \in Bookings, NEW row \in Row, Write(b, row),
           UNCHANGED <<collaborators, assignees>>,
           UNCHANGED closure \/ \E old, new \in Statuses :
              closure' = [closure EXCEPT ![b] = [old |-> old, new |-> new]]
    PROVE  RecordsOK'
BY DEF RecordsOK, Write, Closure

\* Creating, editing, moving and rescheduling write rows of the right type.
LEMMA PlaceStepType ==
    ASSUME TypeOK, NEW a \in Accounts, NEW b \in Bookings, PlaceStep(a, b)
    PROVE  TypeOK'
<1> USE DEF TypeOK, TablesOK
<1> PICK t \in Tenants, d \in RequestDays, s \in Slots \cup {NoSlot}, override \in BOOLEAN :
      \/ \E emergency \in BOOLEAN : CreateBooking(a, b, t, d, s, emergency, override)
      \/ UpdateBooking(a, b, t, d, s, override)
      \/ MoveBooking(a, b, d, s, override)
      \/ RescheduleBooking(a, b, d, s)
  BY DEF PlaceStep
<1>1. d \in Days /\ s \in 0..MaxSlots /\ booking[b] \in Row
  BY DEF Slots, NoSlot, RecordsOK
<1>2. ASSUME NEW emergency \in BOOLEAN, CreateBooking(a, b, t, d, s, emergency, override)
      PROVE  TypeOK'
  <2>1. CreatedRow(a, t, d, s, emergency) \in Row
    BY <1>1, WrittenRowTypes, NoClosureType
  <2> QED
    BY <2>1, <1>2, WriteType DEF CreateBooking, gridVars, lockVars, GridOK, LocksOK
<1>3. ASSUME NEW u \in Tenants, UpdateBooking(a, b, u, d, s, override)
      PROVE  TypeOK'
  <2>1. UpdatedRow(booking[b], u, d, s) \in Row
    BY <1>1, WrittenRowTypes, NoClosureType
  <2> QED
    BY <2>1, <1>3, WriteType DEF UpdateBooking, gridVars, lockVars, GridOK, LocksOK
<1>4. CASE MoveBooking(a, b, d, s, override)
  BY <1>3, <1>4, <1>1 DEF MoveBooking, Row
<1>5. CASE RescheduleBooking(a, b, d, s)
  <2>1. RescheduledRow(booking[b], d, s) \in Row
    BY <1>1, WrittenRowTypes, NoClosureType
  <2> QED
    BY <2>1, <1>5, WriteType DEF RescheduleBooking, gridVars, lockVars, GridOK, LocksOK
<1> QED
  BY <1>2, <1>3, <1>4, <1>5

\* The life-cycle handlers write rows and closures of the right type.
LEMMA LifecycleStepType ==
    ASSUME TypeOK, NEW a \in Accounts, NEW b \in Bookings, LifecycleStep(a, b)
    PROVE  TypeOK'
<1> USE DEF TypeOK, TablesOK
<1>1. booking[b] \in Row /\ booking[b].status \in Statuses /\ closure[b] \in Closure
  BY DEF RecordsOK, Row
<1>2. ASSUME CancelBooking(a, b)
      PROVE  TypeOK'
  <2>1. CancelledRow(booking[b]) \in Row
    BY <1>1 DEF CancelledRow, Row, Statuses
  <2> QED
    BY <2>1, <1>2, WriteType DEF CancelBooking, gridVars, lockVars, GridOK, LocksOK
<1>3. CASE CloseBooking(a, b)
  <2>1. ClosedRow(booking[b]) \in Row /\ "COMPLETED" \in Statuses
    BY <1>1 DEF ClosedRow, Row, Statuses
  <2> QED
    BY <2>1, <1>1, <1>3, WriteType DEF CloseBooking, gridVars, lockVars, GridOK, LocksOK
<1>4. CASE KeepOpen(a, b)
  BY <1>4 DEF KeepOpen, RecordsOK, Closure, Statuses, gridVars, lockVars, GridOK, LocksOK
<1>5. CASE CancelByStatus(a, b)
  BY <1>5, <1>2 DEF CancelByStatus
<1>6. CASE ReopenBooking(a, b)
  <2>1. ReopenedRow(booking[b], closure[b]) \in Row
    BY <1>1 DEF ReopenedRow, RestoredStatus, Row, Statuses, Closure
  <2> QED
    BY <2>1, <1>6, WriteType DEF ReopenBooking, gridVars, lockVars, GridOK, LocksOK
<1>7. CASE StartWork(a, b)
  <2>1. StartedRow(booking[b]) \in Row
    BY <1>1 DEF StartedRow, Row, Statuses
  <2> QED
    BY <2>1, <1>7, WriteType DEF StartWork, gridVars, lockVars, GridOK, LocksOK
<1> QED
  BY <1>2, <1>3, <1>4, <1>5, <1>6, <1>7 DEF LifecycleStep

\* Assignees are Release Managers and collaborators are users.
LEMMA PeopleStepType ==
    ASSUME TypeOK, NEW a \in Accounts, NEW b \in Bookings, PeopleStep(a, b)
    PROVE  TypeOK'
<1> USE DEF TypeOK, TablesOK
<1>1. ASSUME NEW m \in Managers, AssignManager(a, b, m)
      PROVE  TypeOK'
  BY <1>1 DEF AssignManager, RecordsOK, gridVars, lockVars, GridOK, LocksOK
<1>2. ASSUME NEW users \in SUBSET Users, ReplaceCollaborators(a, b, users)
      PROVE  TypeOK'
  BY <1>2 DEF ReplaceCollaborators, RecordsOK, gridVars, lockVars, GridOK, LocksOK
<1> QED
  BY <1>1, <1>2 DEF PeopleStep

\* Freezes and overrides name dates and slots of the board.
LEMMA LockStepType ==
    ASSUME TypeOK, LockStep
    PROVE  TypeOK'
<1> USE DEF TypeOK, TablesOK
<1> PICK d \in RequestDays, s \in Slots \cup {NoSlot} :
      \/ FreezeSlot(d, s) \/ UnfreezeSlot(d, s)
      \/ UnlockAutomaticLock(d, s) \/ RestoreAutomaticLock(d, s)
  BY DEF LockStep
<1>1. d \in Days
  OBVIOUS
<1>2. CASE FreezeSlot(d, s)
  BY <1>1, <1>2 DEF FreezeSlot, SlotExists, LocksOK, recordVars, gridVars, RecordsOK, GridOK
<1>3. CASE UnfreezeSlot(d, s)
  BY <1>3 DEF UnfreezeSlot, LocksOK, recordVars, gridVars, RecordsOK, GridOK
<1>4. CASE UnlockAutomaticLock(d, s)
  BY <1>1, <1>4 DEF UnlockAutomaticLock, LocksOK, recordVars, gridVars, RecordsOK, GridOK
<1>5. CASE RestoreAutomaticLock(d, s)
  BY <1>5 DEF RestoreAutomaticLock, LocksOK, recordVars, gridVars, RecordsOK, GridOK
<1> QED
  BY <1>2, <1>3, <1>4, <1>5

\* Topping up the slot rows keeps their type and never takes a row away.
LEMMA WithRowsType ==
    ASSUME NEW rows \in [Slots -> {"MISSING", "ENABLED", "DISABLED"}], NEW n
    PROVE  /\ WithRows(rows, n) \in [Slots -> {"MISSING", "ENABLED", "DISABLED"}]
           /\ \A s \in Slots : rows[s] # "MISSING" => WithRows(rows, n)[s] # "MISSING"
BY DEF WithRows

\* A date has between 0 and MaxSlots normal slots.
LEMMA RegularLimitType ==
    ASSUME GridOK, NEW d \in Days
    PROVE  RegularLimit(d) \in 0..MaxSlots
<1>1. settings.regular \in 1..MaxSlots /\ capacity[d] \in 0..MaxSlots \cup {NoCapacity}
  BY DEF GridOK, Slots
<1> QED
  BY <1>1 DEF RegularLimit

\* Every edit of the grid keeps it within the limits of the schema.
LEMMA GridStepType ==
    ASSUME TypeOK, GridStep
    PROVE  TypeOK'
<1> USE DEF TypeOK, TablesOK
<1>1. ASSUME NEW d \in Days, NEW n \in 0..MaxSlots, SetDayCapacity(d, n)
      PROVE  TypeOK'
  <2>1. slotRow' \in [Slots -> {"MISSING", "ENABLED", "DISABLED"}]
    BY <1>1, WithRowsType DEF SetDayCapacity, GridOK
  <2> QED
    BY <1>1, <2>1 DEF SetDayCapacity, GridOK, recordVars, lockVars, RecordsOK, LocksOK
<1>2. ASSUME NEW d \in RequestDays, AddDaySlot(d) \/ RemoveDaySlot(d)
      PROVE  TypeOK'
  BY <1>1, <1>2, RegularLimitType DEF AddDaySlot, RemoveDaySlot
<1>3. ASSUME NEW d \in RequestDays, AddHoliday(d) \/ RemoveHoliday(d)
      PROVE  TypeOK'
  BY <1>3 DEF AddHoliday, RemoveHoliday, GridOK, recordVars, lockVars, RecordsOK, LocksOK
<1>4. ASSUME NEW d \in RequestDays, NEW e \in RequestDays, NEW full \in BOOLEAN,
             UpdateHoliday(d, e, full)
      PROVE  TypeOK'
  BY <1>4 DEF UpdateHoliday, GridOK, recordVars, lockVars, RecordsOK, LocksOK
<1>5. ASSUME NEW rows \in [Slots -> {"MISSING", "ENABLED", "DISABLED"}], ReplaceSlots(rows)
      PROVE  TypeOK'
  BY <1>5 DEF ReplaceSlots, GridOK, recordVars, lockVars, RecordsOK, LocksOK
<1>6. ASSUME NEW regular \in Slots, NEW weekly \in 1..MaxWeekly, NEW freeze \in 0..MaxFreeze,
             WriteSettings(regular, weekly, freeze)
      PROVE  TypeOK'
  <2>1. slotRow' \in [Slots -> {"MISSING", "ENABLED", "DISABLED"}]
    BY <1>6, WithRowsType DEF WriteSettings, GridOK
  <2> QED
    BY <1>6, <2>1 DEF WriteSettings, GridOK, recordVars, lockVars, RecordsOK, LocksOK
<1>7. ASSUME NEW t \in Tenants, NEW limit \in 0..MaxWeekly, UpdateTenant(t, limit)
      PROVE  TypeOK'
  BY <1>7 DEF UpdateTenant, GridOK, recordVars, lockVars, RecordsOK, LocksOK
<1>8. ASSUME NEW t \in Tenants, NEW active \in BOOLEAN, UpdateTenantStatus(t, active)
      PROVE  TypeOK'
  BY <1>8 DEF UpdateTenantStatus, GridOK, recordVars, lockVars, RecordsOK, LocksOK
<1> QED
  BY <1>2, <1>3, <1>4, <1>5, <1>6, <1>7, <1>8 DEF GridStep

\* Every step keeps every table within its type.
LEMMA StepTypeOK == TypeOK /\ [Next]_vars => TypeOK'
<1> SUFFICES ASSUME TypeOK, [Next]_vars PROVE TypeOK'
  OBVIOUS
<1>1. CASE RecordStep
  BY <1>1, PlaceStepType, LifecycleStepType, PeopleStepType DEF RecordStep
<1>2. CASE LockStep
  BY <1>2, LockStepType
<1>3. CASE GridStep
  BY <1>3, GridStepType
<1>4. CASE DayPasses
  <2>1. today' \in Days
    BY <1>4 DEF DayPasses, TypeOK, TablesOK, Days
  <2> QED
    BY <2>1, <1>4 DEF DayPasses, TypeOK, TablesOK, recordVars, gridVars, lockVars,
                      RecordsOK, GridOK, LocksOK
<1>5. CASE UNCHANGED vars
  BY <1>5 DEF vars, boardVars, TypeOK, TablesOK, recordVars, gridVars, lockVars,
              RecordsOK, GridOK, LocksOK
<1> QED
  BY <1>1, <1>2, <1>3, <1>4, <1>5 DEF Next

\* Whatever requests the scheduler serves, each table keeps its type: in
\* particular no date ever has more than MaxSlots slots or fewer than none.
THEOREM TypeCorrect == Spec => []TypeOK
BY InitTypeOK, StepTypeOK, PTL DEF Spec

(***************************************************************************)
(* Places: exclusive slots, the emergency queue, and slots that exist      *)
(***************************************************************************)

\* What a validated target guarantees, with and without a manual override: the
\* slot has a row and no other standing booking holds it.
LEMMA ValidTarget ==
    ASSUME NEW a, NEW d, NEW s, NEW x, NEW override, ValidSlotTarget(a, d, s, x, override)
    PROVE  /\ s \in Slots /\ s # NoSlot /\ slotRow[s] # "MISSING"
           /\ \A o \in Bookings \ {x} :
                 Active(booking[o]) => <<booking[o].day, booking[o].slot>> # <<d, s>>
<1>1. SlotExists(s) /\ ~SlotTaken(d, s, x)
  BY DEF ValidSlotTarget, NormalSlotOpen
<1>2. s \in Slots /\ s # NoSlot /\ slotRow[s] # "MISSING"
  BY <1>1 DEF SlotExists, Slots, NoSlot
<1> QED
  BY <1>1, <1>2 DEF SlotTaken

\* A row is well placed on the board when it is in the emergency queue or holds a
\* slot that no other standing booking holds.
Alone(b, row) ==
    \A o \in Bookings \ {b} :
        Active(booking[o]) => <<booking[o].day, booking[o].slot>> # <<row.day, row.slot>>

SamePlace(b, row) ==
    /\ Active(booking[b])
    /\ row.day = booking[b].day /\ row.slot = booking[b].slot
    /\ row.emergency = booking[b].emergency

WellPlaced(b, row) ==
    Active(row) =>
        \/ SamePlace(b, row)
        \/ row.emergency /\ row.slot = NoSlot
        \/ /\ ~row.emergency /\ row.slot \in Slots /\ slotRow[row.slot] # "MISSING"
           /\ Alone(b, row)

\* A cancelled or vacant row still tells a queue entry from a slot by its slot.
Shaped(row) == row.emergency <=> row.slot = NoSlot

PlaceInv == TypeOK /\ SlotExclusive /\ QueueHasNoSlot /\ BoardKeepsItsSlots

\* Every record handler writes a well placed row, or does not write.
LEMMA RecordStepWritesWellPlaced ==
    ASSUME PlaceInv, NEW a \in Accounts, NEW b \in Bookings,
           PlaceStep(a, b) \/ LifecycleStep(a, b) \/ PeopleStep(a, b)
    PROVE  /\ UNCHANGED <<today, slotRow>>
           /\ \/ UNCHANGED booking
              \/ \E row \in Row : Write(b, row) /\ WellPlaced(b, row) /\ Shaped(row)
<1> USE DEF gridVars
<1>1. /\ booking \in [Bookings -> Row]
      /\ booking[b] \in Row
      /\ Exists(b) => Shaped(booking[b])
  BY DEF PlaceInv, TypeOK, TablesOK, RecordsOK, QueueHasNoSlot, Shaped
<1>2. ASSUME NEW t \in Tenants, NEW d \in Days, NEW s \in 0..MaxSlots,
             NEW emergency \in BOOLEAN, NEW override \in BOOLEAN,
             CreateBooking(a, b, t, d, s, emergency, override)
      PROVE  /\ UNCHANGED <<today, slotRow>>
             /\ \E row \in Row : Write(b, row) /\ WellPlaced(b, row) /\ Shaped(row)
  <2> DEFINE row == CreatedRow(a, t, d, s, emergency)
  <2>1. row \in Row
    BY DEF CreatedRow, Row, Statuses, NoSlot
  <2>2. Shaped(row)
    BY <1>2 DEF CreateBooking, CreatedRow, Shaped
  <2>3. WellPlaced(b, row)
    <3>1. CASE emergency
      BY <3>1 DEF CreatedRow, WellPlaced
    <3>2. CASE ~emergency
      <4>1. ValidSlotTarget(a, d, s, NoBooking, override)
        BY <1>2, <3>2 DEF CreateBooking, CreateAllowed
      <4>2. row.day = d /\ row.slot = s /\ ~row.emergency
        BY <3>2 DEF CreatedRow
      <4>3. NoBooking \notin Bookings
        BY DEF NoBooking
      <4>4. /\ s \in Slots /\ slotRow[s] # "MISSING"
            /\ \A o \in Bookings \ {NoBooking} :
                  Active(booking[o]) => <<booking[o].day, booking[o].slot>> # <<d, s>>
        BY <4>1, ValidTarget
      <4> HIDE DEF row
      <4>5. Alone(b, row)
        BY <4>2, <4>3, <4>4 DEF Alone
      <4> QED
        BY <4>2, <4>4, <4>5 DEF WellPlaced
    <3> QED
      BY <3>1, <3>2
  <2> QED
    BY <1>2, <2>1, <2>2, <2>3 DEF CreateBooking
<1>3. ASSUME NEW t \in Tenants, NEW d \in Days, NEW s \in 0..MaxSlots, NEW override \in BOOLEAN,
             UpdateBooking(a, b, t, d, s, override)
      PROVE  /\ UNCHANGED <<today, slotRow>>
             /\ \E row \in Row : Write(b, row) /\ WellPlaced(b, row) /\ Shaped(row)
  <2> DEFINE old == booking[b]
             slot == AskedSlot(old, s)
             row == UpdatedRow(old, t, d, s)
  <2>1. Exists(b) /\ UpdateAllowed(a, b, old, t, d, s, override)
    BY <1>3 DEF UpdateBooking
  <2>2. slot \in 0..MaxSlots
    BY <1>1 DEF AskedSlot, Row
  <2>3. /\ row = [old EXCEPT !.tenant = t, !.day = d,
                             !.slot = IF old.emergency THEN NoSlot ELSE slot]
        /\ old.emergency \in BOOLEAN
    BY <1>1 DEF UpdatedRow, Row
  <2> HIDE DEF slot, row
  <2>4. /\ row \in Row /\ row.day = d /\ row.emergency = old.emergency
        /\ row.slot = (IF old.emergency THEN NoSlot ELSE slot)
        /\ row.status = old.status
    <3>1. (IF old.emergency THEN NoSlot ELSE slot) \in 0..MaxSlots
      BY <2>2 DEF NoSlot
    <3>2. \A x \in 0..MaxSlots :
             LET new == [old EXCEPT !.tenant = t, !.day = d, !.slot = x]
             IN  /\ new \in Row /\ new.day = d /\ new.emergency = old.emergency
                 /\ new.slot = x /\ new.status = old.status
      BY <1>1 DEF Row
    <3> QED
      BY <3>1, <3>2, <2>3
  <2>5. old.emergency => WellPlaced(b, row) /\ Shaped(row)
    BY <2>4, <2>3 DEF WellPlaced, Shaped
  <2>6. ASSUME ~old.emergency, <<d, slot>> # <<old.day, old.slot>>
        PROVE  WellPlaced(b, row) /\ Shaped(row)
    <3>1. ValidSlotTarget(a, d, slot, b, override)
      BY <2>1, <2>6 DEF UpdateAllowed, slot
    <3>2. /\ slot \in Slots /\ slot # NoSlot /\ slotRow[slot] # "MISSING"
          /\ \A o \in Bookings \ {b} :
                Active(booking[o]) => <<booking[o].day, booking[o].slot>> # <<d, slot>>
      BY <3>1, ValidTarget
    <3>3. row.day = d /\ row.slot = slot /\ ~row.emergency
      BY <2>4, <2>6
    <3>4. Alone(b, row)
      BY <3>2, <3>3 DEF Alone
    <3> QED
      BY <3>2, <3>3, <3>4 DEF WellPlaced, Shaped
  <2>7. ASSUME ~old.emergency, <<d, slot>> = <<old.day, old.slot>>
        PROVE  WellPlaced(b, row) /\ Shaped(row)
    <3>1. /\ row.day = old.day /\ row.slot = old.slot /\ ~row.emergency
          /\ row.status = old.status
      BY <2>4, <2>7
    <3>2. Shaped(row)
      BY <3>1, <2>1, <2>7, <1>1 DEF Shaped
    <3>3. Active(row) => SamePlace(b, row)
      BY <3>1, <2>7, <2>4 DEF SamePlace, Active
    <3> QED
      BY <3>2, <3>3 DEF WellPlaced
  <2> QED
    BY <1>3, <2>3, <2>4, <2>5, <2>6, <2>7 DEF UpdateBooking, row
<1>4. ASSUME NEW d \in Days, NEW s \in 0..MaxSlots, RescheduleBooking(a, b, d, s)
      PROVE  /\ UNCHANGED <<today, slotRow>>
             /\ \E row \in Row : Write(b, row) /\ WellPlaced(b, row) /\ Shaped(row)
  <2> DEFINE row == RescheduledRow(booking[b], d, s)
  <2>1. /\ row \in Row /\ row.day = d /\ row.slot = s
        /\ row.emergency = booking[b].emergency
    BY <1>1 DEF RescheduledRow, Row
  <2>2. ValidSlotTarget(a, d, s, b, FALSE) /\ ~booking[b].emergency
    BY <1>4 DEF RescheduleBooking, RescheduleAllowed, Reschedulable
  <2>3. /\ s \in Slots /\ s # NoSlot /\ slotRow[s] # "MISSING"
        /\ \A o \in Bookings \ {b} :
              Active(booking[o]) => <<booking[o].day, booking[o].slot>> # <<d, s>>
    BY <2>2, ValidTarget
  <2> HIDE DEF row
  <2>4. WellPlaced(b, row) /\ Shaped(row)
    BY <2>1, <2>2, <2>3 DEF WellPlaced, Alone, Shaped
  <2> QED
    BY <1>4, <2>1, <2>4 DEF RescheduleBooking, row
<1>5. CASE PlaceStep(a, b)
  <2> PICK t \in Tenants, d \in RequestDays, s \in Slots \cup {NoSlot}, override \in BOOLEAN :
        \/ \E emergency \in BOOLEAN : CreateBooking(a, b, t, d, s, emergency, override)
        \/ UpdateBooking(a, b, t, d, s, override)
        \/ MoveBooking(a, b, d, s, override)
        \/ RescheduleBooking(a, b, d, s)
    BY <1>5 DEF PlaceStep
  <2>1. d \in Days /\ s \in 0..MaxSlots /\ booking[b].tenant \in Tenants
    BY <1>1 DEF Slots, NoSlot, Row
  <2> QED
    BY <1>2, <1>3, <1>4, <2>1 DEF MoveBooking
\* The life cycle keeps the place.
<1>6. ASSUME NEW st \in Statuses, NEW ch \in BOOLEAN, Active(booking[b]) \/ st \notin ActiveStatuses,
             Exists(b)
      PROVE  LET row == [booking[b] EXCEPT !.status = st, !.change = ch]
             IN  row \in Row /\ WellPlaced(b, row) /\ Shaped(row)
  BY <1>1, <1>6 DEF Row, WellPlaced, SamePlace, Shaped, Active
<1>7. CASE LifecycleStep(a, b)
  <2> DEFINE With(st, ch) == [booking[b] EXCEPT !.status = st, !.change = ch]
  <2>1. /\ booking[b].change \in BOOLEAN /\ booking[b].status \in Statuses
        /\ closure[b] \in Closure
    BY <1>1 DEF Row, PlaceInv, TypeOK, TablesOK, RecordsOK
  <2>2. ASSUME CancelBooking(a, b)
        PROVE  /\ UNCHANGED <<today, slotRow>>
               /\ \E row \in Row : Write(b, row) /\ WellPlaced(b, row) /\ Shaped(row)
    <3>1. Write(b, With("CANCELLED", booking[b].change)) /\ Exists(b)
      BY <2>2, <1>1 DEF CancelBooking, CancelledRow, Row
    <3> QED
      BY <3>1, <2>1, <2>2, <1>6 DEF CancelBooking, Statuses, ActiveStatuses
  <2>3. CASE CloseBooking(a, b)
    <3>1. Write(b, With("COMPLETED", booking[b].change)) /\ Exists(b) /\ Active(booking[b])
      BY <2>3, <1>1 DEF CloseBooking, CloseAllowed, ClosedRow, Row, Exists, Active, ActiveStatuses
    <3> QED
      BY <3>1, <2>1, <2>3, <1>6 DEF CloseBooking, Statuses
  <2>4. CASE ReopenBooking(a, b)
    <3>1. /\ Write(b, With(RestoredStatus(booking[b], closure[b]), booking[b].change))
          /\ Exists(b) /\ Active(booking[b])
      BY <2>4, <1>1 DEF ReopenBooking, ReopenAllowed, ReopenedRow, Row, Exists, Active, ActiveStatuses
    <3>2. RestoredStatus(booking[b], closure[b]) \in Statuses
      BY <2>1 DEF RestoredStatus, Statuses
    <3> QED
      BY <3>1, <3>2, <2>1, <2>4, <1>6 DEF ReopenBooking
  <2>5. CASE StartWork(a, b)
    <3> DEFINE st == IF booking[b].status = "BOOKED" THEN "IN_PROGRESS" ELSE booking[b].status
    <3>1. Write(b, With(st, TRUE)) /\ Exists(b) /\ Active(booking[b])
      BY <2>5, <1>1 DEF StartWork, StartWorkAllowed, StartedRow, Row, Exists, Active, ActiveStatuses
    <3>2. st \in Statuses
      BY <2>1 DEF Statuses
    <3> QED
      BY <3>1, <3>2, <2>5, <1>6 DEF StartWork
  <2>6. CASE KeepOpen(a, b)
    BY <2>6 DEF KeepOpen
  <2> QED
    BY <1>7, <2>2, <2>3, <2>4, <2>5, <2>6 DEF LifecycleStep, CancelByStatus
<1>8. CASE PeopleStep(a, b)
  BY <1>8 DEF PeopleStep, AssignManager, ReplaceCollaborators
<1> QED
  BY <1>5, <1>7, <1>8

\* Writing a well placed row keeps slots exclusive, the queue without slots, and
\* every upcoming booking on a slot that has a row.
LEMMA WellPlacedWrite ==
    ASSUME PlaceInv, NEW b \in Bookings, NEW row \in Row, Write(b, row),
           WellPlaced(b, row), Shaped(row), UNCHANGED <<today, slotRow>>
    PROVE  SlotExclusive' /\ QueueHasNoSlot' /\ BoardKeepsItsSlots'
<1>1. /\ booking \in [Bookings -> Row]
      /\ booking' = [booking EXCEPT ![b] = row]
  BY DEF PlaceInv, TypeOK, TablesOK, RecordsOK, Write
<1>2. /\ booking'[b] = row
      /\ \A o \in Bookings \ {b} : booking'[o] = booking[o]
  BY <1>1
<1>3. \A o \in Bookings : o # b =>
         (Active(booking'[o]) <=> Active(booking[o])) /\ (Exists(o)' <=> Exists(o))
  BY <1>2 DEF Exists
<1>4. ASSUME NEW o \in Bookings \ {b}, Active(row), ~row.emergency,
             Active(booking[o]), ~booking[o].emergency
      PROVE  <<booking[o].day, booking[o].slot>> # <<row.day, row.slot>>
  <2>1. CASE SamePlace(b, row)
    BY <1>4, <2>1 DEF SamePlace, PlaceInv, SlotExclusive
  <2>2. CASE Alone(b, row)
    BY <1>4, <2>2 DEF Alone
  <2> QED
    BY <1>4, <2>1, <2>2 DEF WellPlaced
<1>5. SlotExclusive'
  <2> SUFFICES ASSUME NEW c \in Bookings, NEW o \in Bookings, c # o,
                      Active(booking'[c]), ~booking'[c].emergency,
                      Active(booking'[o]), ~booking'[o].emergency
               PROVE  <<booking'[c].day, booking'[c].slot>> # <<booking'[o].day, booking'[o].slot>>
    BY DEF SlotExclusive
  <2>1. CASE c = b
    BY <1>2, <1>3, <1>4, <2>1
  <2>2. CASE o = b
    BY <1>2, <1>3, <1>4, <2>2
  <2>3. CASE c # b /\ o # b
    BY <1>2, <1>3, <2>3 DEF PlaceInv, SlotExclusive
  <2> QED
    BY <2>1, <2>2, <2>3
<1>6. QueueHasNoSlot'
  BY <1>2, <1>3 DEF PlaceInv, QueueHasNoSlot, Shaped
<1>7. BoardKeepsItsSlots'
  <2> SUFFICES ASSUME NEW o \in Bookings, Active(booking'[o]), ~booking'[o].emergency,
                      booking'[o].day >= today
               PROVE  slotRow[booking'[o].slot] # "MISSING"
    BY DEF BoardKeepsItsSlots
  <2>1. CASE o # b
    BY <1>2, <1>3, <2>1 DEF PlaceInv, BoardKeepsItsSlots
  <2>2. CASE o = b /\ SamePlace(b, row)
    BY <1>2, <2>2 DEF PlaceInv, BoardKeepsItsSlots, SamePlace
  <2>3. CASE o = b /\ ~SamePlace(b, row)
    BY <1>2, <2>3 DEF WellPlaced
  <2> QED
    BY <2>1, <2>2, <2>3
<1> QED
  BY <1>5, <1>6, <1>7

\* No edit of the grid takes the row of a slot that an upcoming booking holds.
LEMMA GridStepKeepsSlots ==
    ASSUME PlaceInv, GridStep
    PROVE  /\ UNCHANGED <<today, booking>>
           /\ BoardKeepsItsSlots'
<1>1. /\ booking \in [Bookings -> Row]
      /\ slotRow \in [Slots -> {"MISSING", "ENABLED", "DISABLED"}]
  BY DEF PlaceInv, TypeOK, TablesOK, RecordsOK, GridOK
<1>2. \A b \in Bookings : Active(booking[b]) /\ ~booking[b].emergency
                            => booking[b].slot \in Slots
  BY <1>1 DEF PlaceInv, QueueHasNoSlot, Exists, Active, ActiveStatuses, Row, Slots, NoSlot
<1>3. ASSUME NEW n, slotRow' = WithRows(slotRow, n), UNCHANGED <<today, booking>>
      PROVE  BoardKeepsItsSlots'
  BY <1>1, <1>2, <1>3, WithRowsType DEF PlaceInv, BoardKeepsItsSlots
<1>4. ASSUME UNCHANGED <<today, booking, slotRow>>
      PROVE  BoardKeepsItsSlots'
  BY <1>4 DEF PlaceInv, BoardKeepsItsSlots
<1>5. ASSUME NEW d \in RequestDays, AddDaySlot(d) \/ RemoveDaySlot(d)
      PROVE  UNCHANGED <<today, booking>> /\ BoardKeepsItsSlots'
  BY <1>3, <1>5 DEF AddDaySlot, RemoveDaySlot, SetDayCapacity, recordVars
<1>6. ASSUME NEW d \in RequestDays,
             \/ AddHoliday(d) \/ RemoveHoliday(d)
             \/ \E e \in RequestDays, full \in BOOLEAN : UpdateHoliday(d, e, full)
      PROVE  UNCHANGED <<today, booking>> /\ BoardKeepsItsSlots'
  BY <1>4, <1>6 DEF AddHoliday, RemoveHoliday, UpdateHoliday, recordVars
<1>7. ASSUME NEW rows \in [Slots -> {"MISSING", "ENABLED", "DISABLED"}], ReplaceSlots(rows)
      PROVE  UNCHANGED <<today, booking>> /\ BoardKeepsItsSlots'
  <2>1. /\ slotRow' = rows /\ UNCHANGED <<today, booking>>
        /\ UpcomingSlotNumbers \subseteq {s \in Slots : rows[s] # "MISSING"}
    BY <1>7 DEF ReplaceSlots, recordVars
  <2>2. \A b \in Bookings : Active(booking[b]) /\ booking[b].day >= today
                              => booking[b].slot \in UpcomingSlotNumbers
    BY DEF UpcomingSlotNumbers
  <2> QED
    BY <2>1, <2>2 DEF BoardKeepsItsSlots
<1>8. ASSUME NEW regular \in Slots, NEW weekly \in 1..MaxWeekly, NEW freeze \in 0..MaxFreeze,
             WriteSettings(regular, weekly, freeze)
      PROVE  UNCHANGED <<today, booking>> /\ BoardKeepsItsSlots'
  BY <1>3, <1>4, <1>8 DEF WriteSettings, recordVars
<1>9. ASSUME NEW t \in Tenants,
             \/ \E limit \in 0..MaxWeekly : UpdateTenant(t, limit)
             \/ \E active \in BOOLEAN : UpdateTenantStatus(t, active)
      PROVE  UNCHANGED <<today, booking>> /\ BoardKeepsItsSlots'
  BY <1>4, <1>9 DEF UpdateTenant, UpdateTenantStatus, recordVars
<1> QED
  BY <1>5, <1>6, <1>7, <1>8, <1>9 DEF GridStep

\* The inductive step of the three invariants about places.
LEMMA StepPlaceInv == PlaceInv /\ [Next]_vars => PlaceInv'
<1> SUFFICES ASSUME PlaceInv, [Next]_vars PROVE PlaceInv'
  OBVIOUS
<1>1. TypeOK'
  BY StepTypeOK DEF PlaceInv
<1>2. ASSUME UNCHANGED booking PROVE SlotExclusive' /\ QueueHasNoSlot'
  BY <1>2 DEF PlaceInv, SlotExclusive, QueueHasNoSlot, Exists
<1>3. ASSUME UNCHANGED <<booking, today, slotRow>> PROVE BoardKeepsItsSlots'
  BY <1>3 DEF PlaceInv, BoardKeepsItsSlots
<1>4. CASE RecordStep
  <2> PICK a \in Accounts, b \in Bookings :
        PlaceStep(a, b) \/ LifecycleStep(a, b) \/ PeopleStep(a, b)
    BY <1>4 DEF RecordStep
  <2> QED
    BY <1>1, <1>2, <1>3, RecordStepWritesWellPlaced, WellPlacedWrite DEF PlaceInv
<1>5. CASE LockStep
  <2>1. UNCHANGED <<booking, today, slotRow>>
    BY <1>5 DEF LockStep, FreezeSlot, UnfreezeSlot, UnlockAutomaticLock,
                RestoreAutomaticLock, recordVars, gridVars
  <2> QED
    BY <2>1, <1>1, <1>2, <1>3 DEF PlaceInv
<1>6. CASE GridStep
  BY <1>1, <1>2, <1>6, GridStepKeepsSlots DEF PlaceInv
<1>7. CASE DayPasses
  <2>1. /\ today' = today + 1 /\ today \in Nat
        /\ UNCHANGED <<booking, slotRow>> /\ booking \in [Bookings -> Row]
    BY <1>7 DEF DayPasses, recordVars, gridVars, PlaceInv, TypeOK, TablesOK, RecordsOK, Days
  <2>2. \A b \in Bookings : booking[b].day \in Nat
    BY <2>1 DEF Row, Days
  <2>3. \A b \in Bookings : booking[b].day >= today' => booking[b].day >= today
    BY <2>1, <2>2
  <2>4. BoardKeepsItsSlots'
    BY <2>1, <2>3 DEF PlaceInv, BoardKeepsItsSlots
  <2> QED
    BY <1>1, <1>2, <2>1, <2>4 DEF PlaceInv
<1>8. CASE UNCHANGED vars
  BY <1>1, <1>2, <1>3, <1>8 DEF vars, boardVars, recordVars, gridVars, PlaceInv
<1> QED
  BY <1>4, <1>5, <1>6, <1>7, <1>8 DEF Next

\* The empty board satisfies them.
LEMMA InitPlaceInv == Init => PlaceInv
<1> SUFFICES ASSUME Init PROVE PlaceInv
  OBVIOUS
<1>1. \A b \in Bookings : ~Exists(b) /\ ~Active(booking[b])
  BY DEF Init, EmptyBoard, VacantRow, Exists, Active, ActiveStatuses
<1> QED
  BY <1>1, InitTypeOK DEF PlaceInv, SlotExclusive, QueueHasNoSlot, BoardKeepsItsSlots

\* The strengthening that carries the slot and queue theorems.
LEMMA PlacesCorrect == Spec => []PlaceInv
BY InitPlaceInv, StepPlaceInv, PTL DEF Spec

\* No sequence of handlers, without any help from the database's unique index,
\* puts two standing normal bookings into the same slot of the same date.
THEOREM SlotsExclusive == Spec => []SlotExclusive
BY PlacesCorrect, PTL DEF PlaceInv

\* An emergency change never holds a slot number, and a normal booking always does.
THEOREM QueueWithoutSlots == Spec => []QueueHasNoSlot
BY PlacesCorrect, PTL DEF PlaceInv

\* However the grid is edited and bookings move, an upcoming standing booking
\* sits on a slot that has a configuration row.
THEOREM BookedSlotsExist == Spec => []BoardKeepsItsSlots
BY PlacesCorrect, PTL DEF PlaceInv

(***************************************************************************)
(* The life cycle and the work it records                                  *)
(***************************************************************************)

WorkInv == TypeOK /\ WorkMatchesStatus

\* The part of WorkMatchesStatus about one record.
WorkMatches(row, audit) ==
    /\ row.status = "BOOKED" => ~row.change
    /\ row.status = "IN_PROGRESS" => row.change
    /\ row.status = "COMPLETED" =>
          /\ audit.new = "COMPLETED"
          /\ audit.old = IF row.change THEN "IN_PROGRESS" ELSE "BOOKED"

\* The invariant is its part about one record, for every record.
LEMMA WorkMatchesEach ==
    WorkMatchesStatus <=> \A b \in Bookings : WorkMatches(booking[b], closure[b])
BY DEF WorkMatchesStatus, WorkMatches

\* A step that writes one record and its audit, both matching, keeps them all.
LEMMA WriteKeepsWork ==
    ASSUME WorkInv, NEW b \in Bookings, NEW row \in Row, NEW audit,
           Write(b, row), closure' = [closure EXCEPT ![b] = audit], WorkMatches(row, audit)
    PROVE  WorkMatchesStatus'
<1>1. /\ booking \in [Bookings -> Row] /\ closure \in [Bookings -> Closure]
  BY DEF WorkInv, TypeOK, TablesOK, RecordsOK
<1>2. \A c \in Bookings : /\ booking'[c] = IF c = b THEN row ELSE booking[c]
                          /\ closure'[c] = IF c = b THEN audit ELSE closure[c]
  BY <1>1 DEF Write
<1>3. \A c \in Bookings : WorkMatches(booking[c], closure[c])
  BY WorkMatchesEach DEF WorkInv
<1>4. \A c \in Bookings : WorkMatches(booking'[c], closure'[c])
  BY <1>2, <1>3
<1> QED
  BY <1>4 DEF WorkMatchesStatus, WorkMatches

\* Every record handler leaves work details, status and closure audit in step.
LEMMA RecordStepKeepsWork ==
    ASSUME WorkInv, NEW a \in Accounts, NEW b \in Bookings,
           PlaceStep(a, b) \/ LifecycleStep(a, b) \/ PeopleStep(a, b), TypeOK'
    PROVE  WorkMatchesStatus'
<1>1. /\ booking \in [Bookings -> Row] /\ closure \in [Bookings -> Closure]
      /\ booking[b] \in Row /\ closure[b] \in Closure
      /\ booking' \in [Bookings -> Row]
  BY DEF WorkInv, TypeOK, TablesOK, RecordsOK
<1>2. WorkMatches(booking[b], closure[b])
  BY WorkMatchesEach DEF WorkInv
<1>3. closure = [closure EXCEPT ![b] = closure[b]]
  BY <1>1
<1>4. ASSUME NEW row, Write(b, row), UNCHANGED closure, WorkMatches(row, closure[b])
      PROVE  WorkMatchesStatus'
  <2>1. row \in Row
    BY <1>1, <1>4 DEF Write
  <2> QED
    BY <1>3, <1>4, <2>1, WriteKeepsWork
<1>5. CASE PlaceStep(a, b)
  <2> PICK t \in Tenants, d \in RequestDays, s \in Slots \cup {NoSlot}, override \in BOOLEAN :
        \/ \E emergency \in BOOLEAN : CreateBooking(a, b, t, d, s, emergency, override)
        \/ UpdateBooking(a, b, t, d, s, override)
        \/ MoveBooking(a, b, d, s, override)
        \/ RescheduleBooking(a, b, d, s)
    BY <1>5 DEF PlaceStep
  <2>1. ASSUME NEW emergency \in BOOLEAN, CreateBooking(a, b, t, d, s, emergency, override)
        PROVE  WorkMatchesStatus'
    BY <2>1, <1>4 DEF CreateBooking, CreatedRow, WorkMatches
  <2>2. ASSUME NEW u, UpdateBooking(a, b, u, d, s, override)
        PROVE  WorkMatchesStatus'
    <3>1. /\ UpdatedRow(booking[b], u, d, s).status = booking[b].status
          /\ UpdatedRow(booking[b], u, d, s).change = booking[b].change
      BY <1>1 DEF UpdatedRow, Row
    <3> QED
      BY <2>2, <3>1, <1>2, <1>4 DEF UpdateBooking, WorkMatches
  <2>3. CASE RescheduleBooking(a, b, d, s)
    <3>1. /\ RescheduledRow(booking[b], d, s).status = booking[b].status
          /\ RescheduledRow(booking[b], d, s).change = booking[b].change
      BY <1>1 DEF RescheduledRow, Row
    <3> QED
      BY <2>3, <3>1, <1>2, <1>4 DEF RescheduleBooking, WorkMatches
  <2> QED
    BY <2>1, <2>2, <2>3 DEF MoveBooking
<1>6. CASE LifecycleStep(a, b)
  <2>1. ASSUME CancelBooking(a, b) PROVE WorkMatchesStatus'
    <3>1. CancelledRow(booking[b]).status = "CANCELLED"
      BY <1>1 DEF CancelledRow, Row
    <3> QED
      BY <2>1, <3>1, <1>4 DEF CancelBooking, WorkMatches
  <2>2. CASE CloseBooking(a, b)
    <3> DEFINE row == ClosedRow(booking[b])
               audit == [old |-> booking[b].status, new |-> "COMPLETED"]
    <3>1. row \in Row /\ row.status = "COMPLETED" /\ row.change = booking[b].change
      BY <1>1 DEF ClosedRow, Row, Statuses
    <3>2. /\ Write(b, row) /\ closure' = [closure EXCEPT ![b] = audit]
          /\ booking[b].status \in {"BOOKED", "IN_PROGRESS"}
      BY <2>2 DEF CloseBooking, CloseAllowed
    <3>3. WorkMatches(row, audit)
      BY <3>1, <3>2, <1>2 DEF WorkMatches
    <3> QED
      BY <3>1, <3>2, <3>3, WriteKeepsWork
  <2>3. CASE KeepOpen(a, b)
    <3> DEFINE audit == [old |-> "BOOKED", new |-> "BOOKED"]
    <3>1. /\ Write(b, booking[b]) /\ closure' = [closure EXCEPT ![b] = audit]
          /\ booking[b].status = "BOOKED"
      BY <2>3, <1>1 DEF KeepOpen, KeepOpenAllowed, Write
    <3> QED
      BY <3>1, <1>1, <1>2, WriteKeepsWork DEF WorkMatches
  <2>4. CASE ReopenBooking(a, b)
    <3> DEFINE row == ReopenedRow(booking[b], closure[b])
    <3>1. /\ row.status = RestoredStatus(booking[b], closure[b])
          /\ row.change = booking[b].change
      BY <1>1 DEF ReopenedRow, Row
    <3>2. Write(b, row) /\ UNCHANGED closure /\ booking[b].status = "COMPLETED"
      BY <2>4 DEF ReopenBooking, ReopenAllowed
    <3>3. RestoredStatus(booking[b], closure[b])
             = IF booking[b].change THEN "IN_PROGRESS" ELSE "BOOKED"
      BY <3>2, <1>2 DEF RestoredStatus, WorkMatches
    <3>4. WorkMatches(row, closure[b])
      BY <3>1, <3>3 DEF WorkMatches
    <3> QED
      BY <3>2, <3>4, <1>4
  <2>5. CASE StartWork(a, b)
    <3> DEFINE row == StartedRow(booking[b])
    <3>1. /\ row.change = TRUE
          /\ row.status = IF booking[b].status = "BOOKED" THEN "IN_PROGRESS" ELSE booking[b].status
      BY <1>1 DEF StartedRow, Row
    <3>2. Write(b, row) /\ UNCHANGED closure /\ booking[b].status \in {"BOOKED", "IN_PROGRESS"}
      BY <2>5 DEF StartWork, StartWorkAllowed
    <3>3. WorkMatches(row, closure[b])
      BY <3>1, <3>2 DEF WorkMatches
    <3> QED
      BY <3>2, <3>3, <1>4
  <2> QED
    BY <1>6, <2>1, <2>2, <2>3, <2>4, <2>5 DEF LifecycleStep, CancelByStatus
<1>7. CASE PeopleStep(a, b)
  <2>1. UNCHANGED <<booking, closure>>
    BY <1>7 DEF PeopleStep, AssignManager, ReplaceCollaborators
  <2> QED
    BY <2>1 DEF WorkInv, WorkMatchesStatus
<1> QED
  BY <1>5, <1>6, <1>7

\* The inductive step: locks, grid edits and the calendar touch no record.
LEMMA StepWorkInv == WorkInv /\ [Next]_vars => WorkInv'
<1> SUFFICES ASSUME WorkInv, [Next]_vars PROVE WorkInv'
  OBVIOUS
<1>1. TypeOK'
  BY StepTypeOK DEF WorkInv
<1>2. CASE RecordStep
  BY <1>1, <1>2, RecordStepKeepsWork DEF RecordStep, WorkInv
<1>3. ASSUME LockStep \/ GridStep \/ DayPasses \/ UNCHANGED vars
      PROVE  UNCHANGED <<booking, closure>>
  BY <1>3 DEF LockStep, FreezeSlot, UnfreezeSlot, UnlockAutomaticLock, RestoreAutomaticLock,
              GridStep, AddDaySlot, RemoveDaySlot, SetDayCapacity, AddHoliday, RemoveHoliday,
              UpdateHoliday, ReplaceSlots, WriteSettings, UpdateTenant, UpdateTenantStatus,
              DayPasses, vars, boardVars, recordVars
<1>4. UNCHANGED <<booking, closure>> => WorkMatchesStatus'
  BY DEF WorkInv, WorkMatchesStatus
<1> QED
  BY <1>1, <1>2, <1>3, <1>4 DEF Next, WorkInv

\* Before any booking exists, work and status agree.
LEMMA InitWorkInv == Init => WorkInv
BY InitTypeOK DEF Init, EmptyBoard, VacantRow, WorkInv, WorkMatchesStatus

\* Open means not started and In Progress means started, and the closure audit
\* of every closed record agrees with its work details, so that Reopen restores
\* the status the record really had.
THEOREM WorkAndStatusAgree == Spec => []WorkMatchesStatus
BY InitWorkInv, StepWorkInv, PTL DEF Spec, WorkInv

(***************************************************************************)
(* Unlocks                                                                 *)
(***************************************************************************)

\* Unlocking absorbs and restoring removes; nothing else touches an unlock.
LEMMA StepUnlocks == WholeDateUnlockStandsAlone /\ [Next]_vars => WholeDateUnlockStandsAlone'
<1> SUFFICES ASSUME WholeDateUnlockStandsAlone, [Next]_vars PROVE WholeDateUnlockStandsAlone'
  OBVIOUS
<1> USE DEF WholeDateUnlockStandsAlone
<1>1. ASSUME NEW d, NEW s, UnlockAutomaticLock(d, s)
      PROVE  WholeDateUnlockStandsAlone'
  BY <1>1 DEF UnlockAutomaticLock, SlotOverridesOn
<1>2. ASSUME NEW d, NEW s, RestoreAutomaticLock(d, s)
      PROVE  WholeDateUnlockStandsAlone'
  BY <1>2 DEF RestoreAutomaticLock
<1>3. ASSUME NEW d, NEW s, FreezeSlot(d, s) \/ UnfreezeSlot(d, s)
      PROVE  UNCHANGED lockOverride
  BY <1>3 DEF FreezeSlot, UnfreezeSlot
<1>4. ASSUME RecordStep PROVE UNCHANGED lockOverride
  BY <1>4 DEF RecordStep, PlaceStep, LifecycleStep, PeopleStep, CreateBooking, UpdateBooking,
              MoveBooking, RescheduleBooking, CancelBooking, CancelByStatus, CloseBooking,
              KeepOpen, ReopenBooking, StartWork, AssignManager, ReplaceCollaborators, lockVars
<1>5. ASSUME GridStep \/ DayPasses \/ UNCHANGED vars PROVE UNCHANGED lockOverride
  BY <1>5 DEF GridStep, AddDaySlot, RemoveDaySlot, SetDayCapacity, AddHoliday, RemoveHoliday,
              UpdateHoliday, ReplaceSlots, WriteSettings, UpdateTenant, UpdateTenantStatus,
              DayPasses, vars, boardVars, lockVars
<1> QED
  BY <1>1, <1>2, <1>3, <1>4, <1>5 DEF Next, LockStep

\* While unlock requests are served one at a time, a whole-date unlock is the only
\* unlock of its date.
THEOREM UnlocksAbsorbed == Spec => []WholeDateUnlockStandsAlone
<1>1. Init => WholeDateUnlockStandsAlone
  BY DEF Init, EmptyBoard, WholeDateUnlockStandsAlone
<1> QED
  BY <1>1, StepUnlocks, PTL DEF Spec

(***************************************************************************)
(* The locks                                                               *)
(***************************************************************************)

\* No handler that asks schedule_restriction accepts a protected record.
LEMMA ProtectedIsNotMutable ==
    ASSUME TypeOK, NEW a, NEW b \in Bookings, Protected(b)
    PROVE  ~Mutable(a, booking[b])
<1> DEFINE r == booking[b]
<1>1. r.day \in Int /\ today \in Int
  BY DEF TypeOK, TablesOK, RecordsOK, Row, Days
<1>2. LockReason(r) \in {"PAST_DATE", "CURRENT_DATE", "AUTOMATIC_DATE_FREEZE"}
  <2>1. ScheduleLocked(r.day, LockSlot(r))
    BY DEF Protected
  <2> HIDE DEF r
  <2>2. CASE r.day < today
    BY <1>1, <2>2 DEF LockReason
  <2>3. CASE r.day = today
    BY <1>1, <2>3 DEF LockReason
  <2>4. CASE r.day > today
    BY <1>1, <2>1, <2>4 DEF LockReason
  <2> QED
    BY <1>1, <2>2, <2>3, <2>4
<1> QED
  BY <1>2 DEF Mutable

\* A handler writes the row of its own record only.
LEMMA WriteOne ==
    ASSUME TypeOK, NEW b \in Bookings, NEW row, Write(b, row)
    PROVE  /\ booking'[b] = row
           /\ \A c \in Bookings \ {b} : booking'[c] = booking[c]
BY DEF TypeOK, TablesOK, RecordsOK, Write

\* The steps that are no handler of a record leave all records alone.
LEMMA OtherStepsKeepRecords ==
    ASSUME LockStep \/ GridStep \/ DayPasses \/ UNCHANGED vars
    PROVE  UNCHANGED <<booking, assignees, closure>>
BY DEF LockStep, FreezeSlot, UnfreezeSlot, UnlockAutomaticLock, RestoreAutomaticLock,
       GridStep, AddDaySlot, RemoveDaySlot, SetDayCapacity, AddHoliday, RemoveHoliday,
       UpdateHoliday, ReplaceSlots, WriteSettings, UpdateTenant, UpdateTenantStatus,
       DayPasses, vars, boardVars, recordVars

\* The handlers of a protected record close it, reopen it, or change no row and
\* no assignment; creating is for ids without a record.
LEMMA HandlersOfProtected ==
    ASSUME TypeOK, NEW a \in Accounts, NEW b \in Bookings, Protected(b),
           PlaceStep(a, b) \/ LifecycleStep(a, b) \/ PeopleStep(a, b)
    PROVE  \/ UNCHANGED <<booking, assignees>>
           \/ CloseBooking(a, b)
           \/ ReopenBooking(a, b)
<1>1. ~Mutable(a, booking[b]) /\ Exists(b)
  BY ProtectedIsNotMutable DEF Protected
<1>2. ASSUME NEW t, NEW d, NEW s, NEW override
      PROVE  /\ \A emergency : ~CreateBooking(a, b, t, d, s, emergency, override)
             /\ \A u : ~UpdateBooking(a, b, u, d, s, override)
             /\ ~RescheduleBooking(a, b, d, s)
  BY <1>1 DEF CreateBooking, UpdateBooking, UpdateAllowed, RescheduleBooking,
              RescheduleAllowed, Reschedulable
<1>3. CASE LifecycleStep(a, b)
  BY <1>1, <1>3 DEF LifecycleStep, CancelBooking, CancelAllowed, CancelByStatus, KeepOpen,
                    KeepOpenAllowed, StartWork, StartWorkAllowed
<1>4. CASE PeopleStep(a, b)
  BY <1>1, <1>4 DEF PeopleStep, AssignManager, AssignAllowed, ReplaceCollaborators
<1>5. ~PlaceStep(a, b)
  BY <1>2 DEF PlaceStep, MoveBooking
<1> QED
  BY <1>3, <1>4, <1>5

\* Every step keeps every protected record, whoever's handler it is.
LEMMA StepKeepsProtected == TypeOK /\ [Next]_vars => KeepsProtectedRecords
<1> SUFFICES ASSUME TypeOK, [Next]_vars, NEW c \in Bookings, Protected(c)
             PROVE  /\ booking'[c] = [booking[c] EXCEPT !.status = booking'[c].status]
                    /\ assignees'[c] = assignees[c]
                    /\ \/ booking'[c].status = booking[c].status
                       \/ "COMPLETED" \in {booking[c].status, booking'[c].status}
  BY DEF KeepsProtectedRecords
<1>1. booking[c] \in Row /\ assignees \in [Bookings -> SUBSET Managers]
  BY DEF TypeOK, TablesOK, RecordsOK
<1>2. booking[c] = [booking[c] EXCEPT !.status = booking[c].status]
  BY <1>1 DEF Row
<1>3. CASE RecordStep
  <2> PICK a \in Accounts, b \in Bookings :
        PlaceStep(a, b) \/ LifecycleStep(a, b) \/ PeopleStep(a, b)
    BY <1>3 DEF RecordStep
  <2>1. CASE c # b
    <3>1. booking'[c] = booking[c]
      <4>1. UNCHANGED booking \/ \E row : Write(b, row)
        BY DEF PlaceStep, LifecycleStep, PeopleStep, CreateBooking, UpdateBooking, MoveBooking,
               RescheduleBooking, CancelBooking, CancelByStatus, CloseBooking, KeepOpen,
               ReopenBooking, StartWork, AssignManager, ReplaceCollaborators
      <4> QED
        BY <2>1, <4>1, WriteOne
    <3>2. assignees'[c] = assignees[c]
      BY <1>1, <2>1 DEF PlaceStep, LifecycleStep, PeopleStep, CreateBooking, UpdateBooking,
             MoveBooking, RescheduleBooking, CancelBooking, CancelByStatus, CloseBooking,
             KeepOpen, ReopenBooking, StartWork, AssignManager, ReplaceCollaborators
    <3> QED
      BY <1>2, <3>1, <3>2
  <2>2. CASE c = b
    <3>1. CASE UNCHANGED <<booking, assignees>>
      BY <1>2, <3>1
    <3>2. CASE CloseBooking(a, b)
      <4>1. booking'[c] = [booking[c] EXCEPT !.status = "COMPLETED"] /\ UNCHANGED assignees
        BY <2>2, <3>2, WriteOne DEF CloseBooking, ClosedRow
      <4> QED
        BY <1>1, <4>1 DEF Row
    <3>3. CASE ReopenBooking(a, b)
      <4>1. /\ booking'[c] = [booking[c] EXCEPT !.status = RestoredStatus(booking[c], closure[c])]
            /\ UNCHANGED assignees /\ booking[c].status = "COMPLETED"
        BY <2>2, <3>3, WriteOne DEF ReopenBooking, ReopenedRow, ReopenAllowed
      <4> HIDE DEF RestoredStatus
      <4> QED
        BY <1>1, <4>1 DEF Row
    <3> QED
      BY <2>2, <3>1, <3>2, <3>3, HandlersOfProtected
  <2> QED
    BY <2>1, <2>2
<1>4. CASE ~RecordStep
  BY <1>2, <1>4, OtherStepsKeepRecords DEF Next
<1> QED
  BY <1>3, <1>4

\* No caller and no handler changes a record on a past, current or automatically
\* locked date but by closing and reopening it.
THEOREM ProtectionHolds == Spec => ProtectedRecordsStay
<1>1. TypeOK /\ [Next]_vars => [KeepsProtectedRecords]_vars
  BY StepKeepsProtected
<1> QED
  BY <1>1, TypeCorrect, PTL DEF Spec, ProtectedRecordsStay

\* A target that passed its checks is not locked for its slot.
LEMMA TargetIsOpen ==
    ASSUME NEW a, NEW d, NEW s, NEW b, NEW override, ValidSlotTarget(a, d, s, b, override)
    PROVE  ~ScheduleLocked(d, s)
BY DEF ValidSlotTarget, NormalSlotOpen

\* A handler that places a record puts it on a date that is open for its slot.
LEMMA PlacedOnOpenDate ==
    ASSUME TypeOK, NEW a \in Accounts, NEW b \in Bookings, PlaceStep(a, b)
    PROVE  \E row \in Row : Write(b, row) /\ ~ScheduleLocked(row.day, LockSlot(row))
<1>1. booking[b] \in Row
  BY DEF TypeOK, TablesOK, RecordsOK
<1>2. ASSUME NEW t \in Tenants, NEW d \in Days, NEW s \in 0..MaxSlots,
             NEW emergency \in BOOLEAN, NEW override \in BOOLEAN,
             CreateBooking(a, b, t, d, s, emergency, override)
      PROVE  \E row \in Row : Write(b, row) /\ ~ScheduleLocked(row.day, LockSlot(row))
  <2> DEFINE row == CreatedRow(a, t, d, s, emergency)
  <2>1. row \in Row /\ Write(b, row)
    BY <1>2, WrittenRowTypes, NoClosureType, <1>1 DEF CreateBooking
  <2>2. row.day = d /\ LockSlot(row) = IF emergency THEN NoSlot ELSE s
    BY DEF CreatedRow, LockSlot
  <2>3. ~ScheduleLocked(d, IF emergency THEN NoSlot ELSE s)
    BY <1>2 DEF CreateBooking, CreateAllowed
  <2> QED
    BY <2>1, <2>2, <2>3
<1>3. ASSUME NEW t \in Tenants, NEW d \in Days, NEW s \in 0..MaxSlots, NEW override \in BOOLEAN,
             UpdateBooking(a, b, t, d, s, override)
      PROVE  \E row \in Row : Write(b, row) /\ ~ScheduleLocked(row.day, LockSlot(row))
  <2> DEFINE old == booking[b]
             row == UpdatedRow(old, t, d, s)
  <2>1. row \in Row /\ Write(b, row)
    BY <1>1, <1>3, WrittenRowTypes, NoClosureType DEF UpdateBooking
  <2>2. /\ row.day = d
        /\ LockSlot(row) = IF old.emergency THEN NoSlot ELSE AskedSlot(old, s)
    BY <1>1 DEF UpdatedRow, LockSlot, Row
  <2>3. ~ScheduleLocked(d, IF old.emergency THEN NoSlot ELSE AskedSlot(old, s))
    BY <1>3 DEF UpdateBooking, UpdateAllowed
  <2> HIDE DEF row
  <2> QED
    BY <2>1, <2>2, <2>3
<1>4. ASSUME NEW d \in Days, NEW s \in 0..MaxSlots, RescheduleBooking(a, b, d, s)
      PROVE  \E row \in Row : Write(b, row) /\ ~ScheduleLocked(row.day, LockSlot(row))
  <2> DEFINE row == RescheduledRow(booking[b], d, s)
  <2>1. row \in Row /\ Write(b, row)
    BY <1>1, <1>4 DEF RescheduleBooking, RescheduledRow, Row
  <2>2. ValidSlotTarget(a, d, s, b, FALSE) /\ ~booking[b].emergency
    BY <1>4 DEF RescheduleBooking, RescheduleAllowed, Reschedulable
  <2>3. row.day = d /\ LockSlot(row) = s
    BY <1>1, <2>2 DEF RescheduledRow, LockSlot, Row
  <2>4. ~ScheduleLocked(d, s)
    BY <2>2, TargetIsOpen
  <2> QED
    BY <2>1, <2>3, <2>4
<1> PICK t \in Tenants, d \in RequestDays, s \in Slots \cup {NoSlot}, override \in BOOLEAN :
      \/ \E emergency \in BOOLEAN : CreateBooking(a, b, t, d, s, emergency, override)
      \/ UpdateBooking(a, b, t, d, s, override)
      \/ MoveBooking(a, b, d, s, override)
      \/ RescheduleBooking(a, b, d, s)
  BY DEF PlaceStep
<1>5. d \in Days /\ s \in 0..MaxSlots /\ booking[b].tenant \in Tenants
  BY <1>1, SizesAssumption, RequestDaysAssumption DEF Slots, NoSlot, Row
<1> QED
  BY <1>2, <1>3, <1>4, <1>5 DEF MoveBooking

\* The life cycle keeps the place of a record and that it exists.
LEMMA LifecycleKeepsPlace ==
    ASSUME TypeOK, NEW a \in Accounts, NEW b \in Bookings,
           LifecycleStep(a, b) \/ PeopleStep(a, b)
    PROVE  \/ UNCHANGED booking
           \/ \E row \in Row : /\ Write(b, row) /\ Exists(b) /\ row.status # "ABSENT"
                               /\ row.day = booking[b].day /\ row.slot = booking[b].slot
<1>1. booking[b] \in Row /\ closure[b] \in Closure
  BY DEF TypeOK, TablesOK, RecordsOK
<1>2. CASE CancelBooking(a, b)
  <2>1. Write(b, CancelledRow(booking[b])) /\ Exists(b)
    BY <1>2 DEF CancelBooking
  <2>2. /\ CancelledRow(booking[b]) \in Row
        /\ CancelledRow(booking[b]).status = "CANCELLED"
        /\ CancelledRow(booking[b]).day = booking[b].day
        /\ CancelledRow(booking[b]).slot = booking[b].slot
    BY <1>1 DEF CancelledRow, Row, Statuses
  <2> QED
    BY <2>1, <2>2
<1>3. CASE CloseBooking(a, b)
  BY <1>1, <1>3 DEF CloseBooking, CloseAllowed, ClosedRow, Exists, Row, Statuses
<1>4. CASE ReopenBooking(a, b)
  BY <1>1, <1>4 DEF ReopenBooking, ReopenAllowed, ReopenedRow, RestoredStatus, Exists, Row, Statuses
<1>5. CASE StartWork(a, b)
  <2> DEFINE st == IF booking[b].status = "BOOKED" THEN "IN_PROGRESS" ELSE booking[b].status
             row == [booking[b] EXCEPT !.status = st, !.change = TRUE]
  <2>1. booking[b].status \in {"BOOKED", "IN_PROGRESS"} /\ Write(b, StartedRow(booking[b]))
    BY <1>5 DEF StartWork, StartWorkAllowed
  <2>2. StartedRow(booking[b]) = row
    BY <1>1 DEF StartedRow, Row
  <2>3. st = "IN_PROGRESS"
    BY <2>1
  <2> HIDE DEF st
  <2>4. row \in Row /\ row.status = st /\ row.day = booking[b].day /\ row.slot = booking[b].slot
    BY <1>1, <2>3 DEF Row, Statuses
  <2> QED
    BY <2>1, <2>2, <2>3, <2>4 DEF Exists
<1>6. CASE KeepOpen(a, b) \/ PeopleStep(a, b)
  BY <1>6 DEF KeepOpen, PeopleStep, AssignManager, ReplaceCollaborators
<1> QED
  BY <1>2, <1>3, <1>4, <1>5, <1>6 DEF LifecycleStep, CancelByStatus

\* A record gets a place through create, edit, move and reschedule only.
LEMMA StepLandsOnOpenDates == TypeOK /\ [Next]_vars => LandsOnOpenDates
<1> SUFFICES ASSUME TypeOK, [Next]_vars, NEW c \in Bookings,
                    <<Exists(c), booking[c].day, booking[c].slot>>
                       # <<Exists(c), booking[c].day, booking[c].slot>>'
             PROVE  ~ScheduleLocked(booking'[c].day, LockSlot(booking'[c]))
  BY DEF LandsOnOpenDates
<1>1. booking'[c] # booking[c]
  BY DEF Exists
<1>2. RecordStep
  BY <1>1, OtherStepsKeepRecords DEF Next
<1> PICK a \in Accounts, b \in Bookings :
      PlaceStep(a, b) \/ LifecycleStep(a, b) \/ PeopleStep(a, b)
  BY <1>2 DEF RecordStep
<1>3. CASE PlaceStep(a, b)
  BY <1>1, <1>3, PlacedOnOpenDate, WriteOne
<1>4. CASE LifecycleStep(a, b) \/ PeopleStep(a, b)
  <2> PICK row \in Row : /\ Write(b, row) /\ Exists(b) /\ row.status # "ABSENT"
                         /\ row.day = booking[b].day /\ row.slot = booking[b].slot
    BY <1>1, <1>4, LifecycleKeepsPlace
  <2>1. c = b /\ booking'[c] = row
    BY <1>1, WriteOne
  <2> QED
    BY <2>1 DEF Exists
<1> QED
  BY <1>3, <1>4

\* Whatever the caller may override, nothing is created or moved onto a past,
\* current or automatically locked date.
THEOREM LockedDatesStayClosed == Spec => NothingLandsOnLockedDate
<1>1. TypeOK /\ [Next]_vars => [LandsOnOpenDates]_vars
  BY StepLandsOnOpenDates
<1> QED
  BY <1>1, TypeCorrect, PTL DEF Spec, NothingLandsOnLockedDate

(***************************************************************************)
(* The board's promise                                                     *)
(***************************************************************************)

\* An empty table is an empty board.
LEMMA BoardInit == Init => Board!Init
BY SizesAssumption DEF Init, EmptyBoard, VacantRow, Board!Init, Board!NoStage, BoardStage,
   BoardPlace, BoardResume, Days

\* Writing a row moves one record of the board.
LEMMA BoardAfterWrite ==
    ASSUME TypeOK, NEW b \in Bookings, NEW row \in Row, Write(b, row)
    PROVE  /\ BoardStage' = [BoardStage EXCEPT ![b] = row.status]
           /\ BoardPlace' = [BoardPlace EXCEPT ![b] = <<row.day, row.slot>>]
           /\ BoardStage[b] = booking[b].status
           /\ BoardPlace[b] = <<booking[b].day, booking[b].slot>>
           /\ BoardResume[b] = IF booking[b].status = "COMPLETED" THEN closure[b].old ELSE "ABSENT"
BY WriteOne DEF BoardStage, BoardPlace, BoardResume

\* Writing a row and its audit sets what reopening gives back.
LEMMA ResumeAfterWrite ==
    ASSUME TypeOK, NEW b \in Bookings, NEW row \in Row, Write(b, row),
           NEW audit \in Closure, closure' = [closure EXCEPT ![b] = audit]
    PROVE  BoardResume' = [BoardResume EXCEPT ![b] =
              IF row.status = "COMPLETED" THEN audit.old ELSE "ABSENT"]
<1>1. closure \in [Bookings -> Closure]
  BY DEF TypeOK, TablesOK, RecordsOK
<1>2. /\ closure'[b] = audit
      /\ \A c \in Bookings \ {b} : closure'[c] = closure[c]
  BY <1>1
<1>3. /\ booking'[b] = row
      /\ \A c \in Bookings \ {b} : booking'[c] = booking[c]
  BY WriteOne
<1>4. \A c \in Bookings :
         (IF booking'[c].status = "COMPLETED" THEN closure'[c].old ELSE "ABSENT")
         = IF c = b THEN IF row.status = "COMPLETED" THEN audit.old ELSE "ABSENT"
           ELSE BoardResume[c]
  BY <1>2, <1>3 DEF BoardResume
<1>5. BoardResume' = [c \in Bookings |->
         IF c = b THEN IF row.status = "COMPLETED" THEN audit.old ELSE "ABSENT"
         ELSE BoardResume[c]]
  BY <1>4 DEF BoardResume
<1> QED
  BY <1>5 DEF BoardResume

\* A handler that leaves the audits alone resumes what it resumed.
LEMMA ResumeWithoutAudit ==
    ASSUME TypeOK, NEW b \in Bookings, NEW row \in Row, Write(b, row), UNCHANGED closure
    PROVE  BoardResume' = [BoardResume EXCEPT ![b] =
              IF row.status = "COMPLETED" THEN closure[b].old ELSE "ABSENT"]
<1>1. closure[b] \in Closure /\ closure' = [closure EXCEPT ![b] = closure[b]]
  BY DEF TypeOK, TablesOK, RecordsOK
<1> QED
  BY <1>1, ResumeAfterWrite

\* Placing writes a new record, or a record of the status it had, at another
\* place only if it is open.
LEMMA PlacingWrites ==
    ASSUME PlaceInv, NEW a \in Accounts, NEW b \in Bookings, PlaceStep(a, b)
    PROVE  /\ UNCHANGED closure
           /\ \E row \in Row :
                 /\ Write(b, row)
                 /\ \/ ~Exists(b) /\ row.status = "BOOKED"
                    \/ /\ row.status = booking[b].status
                       /\ \/ row.status \in {"BOOKED", "IN_PROGRESS"}
                          \/ row.day = booking[b].day /\ row.slot = booking[b].slot
<1>1. booking[b] \in Row
  BY DEF PlaceInv, TypeOK, TablesOK, RecordsOK
<1>2. ASSUME NEW t \in Tenants, NEW d \in Days, NEW s \in 0..MaxSlots,
             NEW emergency \in BOOLEAN, NEW override \in BOOLEAN,
             CreateBooking(a, b, t, d, s, emergency, override)
      PROVE  /\ UNCHANGED closure /\ ~Exists(b)
             /\ \E row \in Row : Write(b, row) /\ row.status = "BOOKED"
  <2>1. CreatedRow(a, t, d, s, emergency) \in Row
    BY WrittenRowTypes, NoClosureType, <1>1
  <2> QED
    BY <1>2, <2>1 DEF CreateBooking, CreatedRow
<1>3. ASSUME NEW t \in Tenants, NEW d \in Days, NEW s \in 0..MaxSlots, NEW override \in BOOLEAN,
             UpdateBooking(a, b, t, d, s, override)
      PROVE  /\ UNCHANGED closure
             /\ \E row \in Row :
                   /\ Write(b, row) /\ row.status = booking[b].status
                   /\ \/ row.status \in {"BOOKED", "IN_PROGRESS"}
                      \/ row.day = booking[b].day /\ row.slot = booking[b].slot
  <2> DEFINE old == booking[b]
             row == UpdatedRow(old, t, d, s)
  <2>1. row \in Row /\ Write(b, row) /\ UNCHANGED closure /\ Exists(b)
    BY <1>1, <1>3, WrittenRowTypes, NoClosureType DEF UpdateBooking
  <2>2. /\ row.day = d /\ row.status = old.status
        /\ row.slot = (IF old.emergency THEN NoSlot ELSE AskedSlot(old, s))
    BY <1>1 DEF UpdatedRow, Row
  <2> HIDE DEF row
  <2>3. UpdateAllowed(a, b, old, t, d, s, override)
    BY <1>3 DEF UpdateBooking
  <2>4. old.status \notin {"ABSENT", "CANCELLED"} /\ old.status \in Statuses
    BY <1>1, <2>1, <2>3 DEF UpdateAllowed, Mutable, Exists, Row
  <2>5. CASE <<d, AskedSlot(old, s)>> # <<old.day, old.slot>>
    <3>1. old.status # "COMPLETED"
      BY <2>3, <2>5 DEF UpdateAllowed
    <3> QED
      BY <2>1, <2>2, <2>4, <3>1 DEF Statuses
  <2>6. CASE <<d, AskedSlot(old, s)>> = <<old.day, old.slot>>
    <3>1. old.emergency => old.slot = NoSlot
      BY <2>1 DEF PlaceInv, QueueHasNoSlot
    <3> QED
      BY <2>1, <2>2, <2>6, <3>1
  <2> QED
    BY <2>5, <2>6
<1>4. ASSUME NEW d \in Days, NEW s \in 0..MaxSlots, RescheduleBooking(a, b, d, s)
      PROVE  /\ UNCHANGED closure
             /\ \E row \in Row : /\ Write(b, row) /\ row.status = booking[b].status
                                 /\ row.status \in {"BOOKED", "IN_PROGRESS"}
  <2> DEFINE row == RescheduledRow(booking[b], d, s)
  <2>1. row \in Row /\ row.status = booking[b].status
    BY <1>1 DEF RescheduledRow, Row
  <2>2. Write(b, row) /\ UNCHANGED closure
    BY <1>4 DEF RescheduleBooking
  <2>3. booking[b].status \notin {"ABSENT", "CANCELLED", "COMPLETED"}
    BY <1>4 DEF RescheduleBooking, RescheduleAllowed, Reschedulable, Exists
  <2> HIDE DEF row
  <2> QED
    BY <1>1, <2>1, <2>2, <2>3 DEF Row, Statuses
<1> PICK t \in Tenants, d \in RequestDays, s \in Slots \cup {NoSlot}, override \in BOOLEAN :
      \/ \E emergency \in BOOLEAN : CreateBooking(a, b, t, d, s, emergency, override)
      \/ UpdateBooking(a, b, t, d, s, override)
      \/ MoveBooking(a, b, d, s, override)
      \/ RescheduleBooking(a, b, d, s)
  BY DEF PlaceStep
<1>5. d \in Days /\ s \in 0..MaxSlots /\ booking[b].tenant \in Tenants
  BY <1>1, SizesAssumption, RequestDaysAssumption DEF Slots, NoSlot, Row
<1>6. CASE \E emergency \in BOOLEAN : CreateBooking(a, b, t, d, s, emergency, override)
  BY <1>2, <1>5, <1>6
<1>7. CASE UpdateBooking(a, b, t, d, s, override) \/ MoveBooking(a, b, d, s, override)
  BY <1>3, <1>5, <1>7 DEF MoveBooking
<1>8. CASE RescheduleBooking(a, b, d, s)
  BY <1>4, <1>5, <1>8
<1> QED
  BY <1>6, <1>7, <1>8

\* Placing a record files it, shifts it or leaves the board as it is.
LEMMA PlacingOnBoard ==
    ASSUME PlaceInv, NEW a \in Accounts, NEW b \in Bookings, PlaceStep(a, b)
    PROVE  Board!Next \/ UNCHANGED Board!vars
<1> PICK row \in Row :
      /\ Write(b, row)
      /\ \/ ~Exists(b) /\ row.status = "BOOKED"
         \/ /\ row.status = booking[b].status
            /\ \/ row.status \in {"BOOKED", "IN_PROGRESS"}
               \/ row.day = booking[b].day /\ row.slot = booking[b].slot
  BY PlacingWrites
<1> DEFINE p == <<row.day, row.slot>>
<1>1. TypeOK /\ UNCHANGED closure /\ booking[b] \in Row /\ closure[b] \in Closure
  BY PlacingWrites DEF PlaceInv, TypeOK, TablesOK, RecordsOK
<1>2. /\ BoardStage' = [BoardStage EXCEPT ![b] = row.status]
      /\ BoardPlace' = [BoardPlace EXCEPT ![b] = p]
      /\ BoardStage[b] = booking[b].status
      /\ BoardPlace[b] = <<booking[b].day, booking[b].slot>>
      /\ BoardResume[b] = IF booking[b].status = "COMPLETED" THEN closure[b].old ELSE "ABSENT"
      /\ BoardResume' = [BoardResume EXCEPT ![b] =
              IF row.status = "COMPLETED" THEN closure[b].old ELSE "ABSENT"]
  BY <1>1, BoardAfterWrite, ResumeWithoutAudit
<1>3. ASSUME booking' # booking PROVE WellPlaced(b, row)
  <2>1. \/ UNCHANGED booking
        \/ \E other \in Row : Write(b, other) /\ WellPlaced(b, other) /\ Shaped(other)
    BY RecordStepWritesWellPlaced
  <2> PICK other \in Row : Write(b, other) /\ WellPlaced(b, other)
    BY <1>3, <2>1
  <2>2. booking'[b] = row
    BY <1>1, WriteOne
  <2>3. booking'[b] = other
    BY <1>1, WriteOne
  <2>4. row = other
    BY <2>2, <2>3
  <2> QED
    BY <2>4
<1>4. p \in Days \X (Slots \cup {NoSlot})
  BY SizesAssumption DEF Row, Slots, NoSlot
<1>5. ASSUME WellPlaced(b, row), row.status \in {"BOOKED", "IN_PROGRESS"}, ~SamePlace(b, row)
      PROVE  Board!Free(b, p)
  <2>1. CASE row.emergency /\ row.slot = NoSlot
    BY <2>1 DEF Board!Free, Row
  <2>2. CASE Alone(b, row)
    BY <2>2 DEF Alone, Board!Free, Board!Standing, Board!Open, BoardStage, BoardPlace, Active,
                ActiveStatuses
  <2> QED
    BY <1>5, <2>1, <2>2 DEF WellPlaced, Active, ActiveStatuses
<1>6. BoardResume = [BoardResume EXCEPT ![b] = BoardResume[b]]
  BY DEF BoardResume
<1>7. ASSUME row.status = booking[b].status, row.day = booking[b].day, row.slot = booking[b].slot
      PROVE  UNCHANGED Board!vars
  <2>1. BoardStage' = BoardStage
    BY <1>2, <1>7 DEF BoardStage
  <2>2. BoardPlace' = BoardPlace
    BY <1>2, <1>7 DEF BoardPlace
  <2>3. BoardResume' = BoardResume
    BY <1>2, <1>6, <1>7
  <2> QED
    BY <2>1, <2>2, <2>3 DEF Board!vars
<1>8. CASE ~Exists(b) /\ row.status = "BOOKED"
  <2>1. booking' # booking /\ ~SamePlace(b, row)
    BY <1>1, <1>8, WriteOne DEF Exists, SamePlace, Active, ActiveStatuses
  <2>2. UNCHANGED BoardResume
    BY <1>2, <1>6, <1>8 DEF Exists
  <2>3. Board!File(b, p)
    BY <1>2, <1>3, <1>5, <1>8, <2>1, <2>2 DEF Board!File, Board!NoStage, Exists
  <2> QED
    BY <1>4, <2>3 DEF Board!Next
<1>9. CASE /\ row.status = booking[b].status /\ row.status \in {"BOOKED", "IN_PROGRESS"}
           /\ p # <<booking[b].day, booking[b].slot>>
  <2>1. booking' # booking /\ ~SamePlace(b, row)
    BY <1>1, <1>9, WriteOne DEF SamePlace
  <2>2. UNCHANGED BoardResume /\ UNCHANGED BoardStage
    BY <1>2, <1>6, <1>9 DEF BoardStage
  <2>3. Board!Shift(b, p)
    BY <1>2, <1>3, <1>5, <1>9, <2>1, <2>2 DEF Board!Shift, Board!Open
  <2> QED
    BY <1>4, <2>3 DEF Board!Next
<1> QED
  BY <1>7, <1>8, <1>9

\* Beginning, closing, reopening and cancelling do on the board what they say;
\* reopening because the audit of a closed record agrees with its work.
LEMMA LifecycleOnBoard ==
    ASSUME TypeOK, WorkMatchesStatus, NEW a \in Accounts, NEW b \in Bookings,
           LifecycleStep(a, b)
    PROVE  Board!Next \/ UNCHANGED Board!vars
<1>1. booking[b] \in Row /\ booking[b].status \in Statuses /\ closure[b] \in Closure
  BY DEF TypeOK, TablesOK, RecordsOK, Row
<1>2. BoardResume = [BoardResume EXCEPT ![b] = BoardResume[b]]
  BY DEF BoardResume
<1>3. BoardPlace = [BoardPlace EXCEPT ![b] = <<booking[b].day, booking[b].slot>>]
  BY DEF BoardPlace
\* A handler that keeps the place changes the stage only.
<1>4. ASSUME NEW row \in Row, Write(b, row),
             row.day = booking[b].day, row.slot = booking[b].slot
      PROVE  /\ BoardStage' = [BoardStage EXCEPT ![b] = row.status]
             /\ UNCHANGED BoardPlace
             /\ BoardStage[b] = booking[b].status
  BY <1>3, <1>4, BoardAfterWrite
<1>5. CASE CancelBooking(a, b)
  <2> DEFINE row == CancelledRow(booking[b])
  <2>1. /\ row \in Row /\ row.status = "CANCELLED"
        /\ row.day = booking[b].day /\ row.slot = booking[b].slot
    BY <1>1 DEF CancelledRow, Row, Statuses
  <2>2. /\ Write(b, row) /\ UNCHANGED closure
        /\ booking[b].status \in {"BOOKED", "IN_PROGRESS"}
    BY <1>1, <1>5 DEF CancelBooking, CancelAllowed, Exists, Statuses
  <2> HIDE DEF row
  <2>3. UNCHANGED BoardResume
    BY <1>2, <2>1, <2>2, ResumeWithoutAudit, BoardAfterWrite
  <2>4. Board!Withdraw(b)
    BY <1>4, <2>1, <2>2, <2>3 DEF Board!Withdraw, Board!Open
  <2> QED
    BY <2>4 DEF Board!Next
<1>6. CASE CloseBooking(a, b)
  <2> DEFINE row == ClosedRow(booking[b])
             audit == [old |-> booking[b].status, new |-> "COMPLETED"]
  <2>1. /\ row \in Row /\ row.status = "COMPLETED"
        /\ row.day = booking[b].day /\ row.slot = booking[b].slot
        /\ audit \in Closure /\ audit.old = booking[b].status
    BY <1>1 DEF ClosedRow, Row, Statuses, Closure
  <2>2. /\ Write(b, row) /\ closure' = [closure EXCEPT ![b] = audit]
        /\ booking[b].status \in {"BOOKED", "IN_PROGRESS"}
    BY <1>6 DEF CloseBooking, CloseAllowed
  <2> HIDE DEF row, audit
  <2>3. BoardResume' = [BoardResume EXCEPT ![b] = booking[b].status]
    <3>1. BoardResume' = [BoardResume EXCEPT ![b] =
             IF row.status = "COMPLETED" THEN audit.old ELSE "ABSENT"]
      BY <2>1, <2>2, ResumeAfterWrite
    <3> QED
      BY <2>1, <3>1
  <2>4. Board!Close(b)
    BY <1>4, <2>1, <2>2, <2>3 DEF Board!Close, Board!Open
  <2> QED
    BY <2>4 DEF Board!Next
<1>7. CASE ReopenBooking(a, b)
  <2> DEFINE row == ReopenedRow(booking[b], closure[b])
  <2>1. Write(b, row) /\ UNCHANGED closure /\ booking[b].status = "COMPLETED"
    BY <1>7 DEF ReopenBooking, ReopenAllowed
  <2>2. /\ RestoredStatus(booking[b], closure[b]) = closure[b].old
        /\ closure[b].old \in {"BOOKED", "IN_PROGRESS"}
    BY <2>1 DEF WorkMatchesStatus, RestoredStatus
  <2>3. /\ row \in Row /\ row.status = closure[b].old
        /\ row.day = booking[b].day /\ row.slot = booking[b].slot
    <3>1. row = [booking[b] EXCEPT !.status = closure[b].old]
      BY <2>2 DEF ReopenedRow
    <3> QED
      BY <1>1, <2>2, <3>1 DEF Row, Statuses
  <2> HIDE DEF row
  <2>4. BoardResume[b] = closure[b].old /\ BoardResume' = [BoardResume EXCEPT ![b] = "ABSENT"]
    BY <2>1, <2>2, <2>3, ResumeWithoutAudit, BoardAfterWrite
  <2>5. Board!Reopen(b)
    BY <1>4, <2>1, <2>3, <2>4 DEF Board!Reopen, Board!NoStage
  <2> QED
    BY <2>5 DEF Board!Next
<1>8. CASE StartWork(a, b)
  <2> DEFINE row == StartedRow(booking[b])
  <2>1. /\ Write(b, row) /\ UNCHANGED closure
        /\ booking[b].status \in {"BOOKED", "IN_PROGRESS"}
    BY <1>8 DEF StartWork, StartWorkAllowed
  <2>2. row = [booking[b] EXCEPT !.change = TRUE, !.status = "IN_PROGRESS"]
    <3>1. "IN_PROGRESS" = IF booking[b].status = "BOOKED" THEN "IN_PROGRESS"
                          ELSE booking[b].status
      BY <2>1
    <3> QED
      BY <3>1 DEF StartedRow
  <2> HIDE DEF row
  <2>3. /\ row \in Row /\ row.status = "IN_PROGRESS"
        /\ row.day = booking[b].day /\ row.slot = booking[b].slot
    BY <1>1, <2>2 DEF Row, Statuses
  <2>4. UNCHANGED BoardResume
    BY <1>2, <2>1, <2>3, ResumeWithoutAudit, BoardAfterWrite
  <2>5. CASE booking[b].status = "BOOKED"
    <3>1. Board!Begin(b)
      BY <1>4, <2>1, <2>3, <2>4, <2>5 DEF Board!Begin
    <3> QED
      BY <3>1 DEF Board!Next
  <2>6. CASE booking[b].status = "IN_PROGRESS"
    <3>1. BoardStage' = BoardStage
      BY <1>4, <2>1, <2>3, <2>6 DEF BoardStage
    <3> QED
      BY <1>4, <2>1, <2>3, <2>4, <3>1 DEF Board!vars
  <2> QED
    BY <2>1, <2>5, <2>6
<1>9. CASE KeepOpen(a, b)
  <2>1. /\ UNCHANGED booking /\ booking[b].status = "BOOKED"
        /\ \A c \in Bookings \ {b} : closure'[c] = closure[c]
    BY <1>9 DEF KeepOpen, KeepOpenAllowed, TypeOK, TablesOK, RecordsOK
  <2>2. UNCHANGED BoardResume
    BY <2>1 DEF BoardResume
  <2> QED
    BY <2>1, <2>2 DEF Board!vars, BoardStage, BoardPlace
<1> QED
  BY <1>5, <1>6, <1>7, <1>8, <1>9 DEF LifecycleStep, CancelByStatus

\* Every step of the scheduler is a step of the board or leaves it alone.
LEMMA StepOnBoard ==
    PlaceInv /\ WorkInv /\ [Next]_vars => [Board!Next]_(Board!vars)
<1> SUFFICES ASSUME PlaceInv, WorkInv, [Next]_vars
             PROVE  Board!Next \/ UNCHANGED Board!vars
  OBVIOUS
<1>1. ASSUME UNCHANGED <<booking, closure>> PROVE UNCHANGED Board!vars
  BY <1>1 DEF Board!vars, BoardStage, BoardPlace, BoardResume
<1>2. CASE RecordStep
  <2> PICK a \in Accounts, b \in Bookings :
        PlaceStep(a, b) \/ LifecycleStep(a, b) \/ PeopleStep(a, b)
    BY <1>2 DEF RecordStep
  <2>1. CASE PlaceStep(a, b)
    BY <2>1, PlacingOnBoard
  <2>2. CASE LifecycleStep(a, b)
    BY <2>2, LifecycleOnBoard DEF WorkInv
  <2>3. CASE PeopleStep(a, b)
    BY <1>1, <2>3 DEF PeopleStep, AssignManager, ReplaceCollaborators
  <2> QED
    BY <2>1, <2>2, <2>3
<1>3. CASE ~RecordStep
  BY <1>1, <1>3, OtherStepsKeepRecords DEF Next
<1> QED
  BY <1>2, <1>3

\* Whatever the calendar, the locks, the grid and the callers do, the scheduler's
\* records behave as the board promises.
THEOREM SchedulerImplementsBoard == Spec => ImplementsChangeBoard
<1>1. Spec => []WorkInv
  BY InitWorkInv, StepWorkInv, PTL DEF Spec
<1> QED
  BY <1>1, PlacesCorrect, BoardInit, StepOnBoard, PTL DEF Spec, Board!Spec, ImplementsChangeBoard

(***************************************************************************)
(* What interface and tables say of each other                             *)
(***************************************************************************)

\* In every state the scheduler reaches, the reschedule picker lists exactly the
\* destinations the handler accepts.
THEOREM PickerIsExact == Spec => []PickerExact
BY PickerFromTables, PTL

\* In every state, every can_* flag of every record tells every caller what the
\* handler behind it would answer.
THEOREM FlagsAreTrue == Spec => []FlagsTellTheTruth
<1>1. TypeOK => FlagsTellTheTruth
  BY FlagsFromTables DEF TypeOK
<1> QED
  BY <1>1, TypeCorrect, PTL

\* The weekly board's bookable cells, labels, counts and emergency queues agree
\* with the create handler in every state.
THEOREM BoardOffersAreAccepted == Spec => []BoardOffersWhatIsAccepted
<1>1. PlaceInv => BoardOffersWhatIsAccepted
  BY BoardFromTables DEF PlaceInv, TypeOK
<1> QED
  BY <1>1, PlacesCorrect, PTL

\* However the grid, the holidays and the locks are edited, the board shows every
\* upcoming booking, each alone in its cell.
THEOREM UpcomingBookingsAreShown == Spec => []EveryUpcomingBookingIsShown
<1>1. PlaceInv => EveryUpcomingBookingIsShown
  BY ShownFromTables DEF PlaceInv, TypeOK
<1> QED
  BY <1>1, PlacesCorrect, PTL

\* The landing view and the assistant name the same next slot, the first one that
\* would be accepted, on every day of the week and under every lock.
THEOREM NextSlotIsRight == Spec => []NextSlotIsTheFirstAccepted
<1>1. PlaceInv => NextSlotIsTheFirstAccepted
  BY NextSlotFromTables DEF PlaceInv, TypeOK
<1> QED
  BY <1>1, PlacesCorrect, PTL

\* Whatever is committed between a page of the history and the next, no schedule
\* that stayed on its date is missed or repeated.
THEOREM HistoryMissesNothing == Spec => PagesMissNothing
<1>1. TypeOK => TablesOK /\ CompletePages
  BY PagesAreComplete DEF TypeOK
<1>2. TablesOK /\ CompletePages' => [ShowsWhatStayed]_boardVars
  BY StepShowsWhatStayed
<1> QED
  BY <1>1, <1>2, TypeCorrect, PTL DEF PagesMissNothing

\* A tenant's upcoming list shows each deployment week once, in order and complete.
THEOREM UpcomingWeeksOnce == Spec => []UpcomingListsEachWeekOnce
<1>1. TypeOK => UpcomingListsEachWeekOnce
  BY UpcomingFromTables DEF TypeOK
<1> QED
  BY <1>1, TypeCorrect, PTL

(***************************************************************************)
(* While only normal users schedule: weekly limits and frozen slots        *)
(***************************************************************************)

\* An unused id names no slot; no record becomes unused again.
VacantPlaces == \A b \in Bookings : ~Exists(b) => booking[b].slot = NoSlot

UsersInv == PlaceInv /\ VacantPlaces /\ WeeklyQuota

\* A user's right to change a record ends where a manual freeze begins.
LEMMA FrozenIsNotMutable ==
    ASSUME TypeOK, NEW a \in Users, NEW b \in Bookings, Mutable(a, booking[b])
    PROVE  ~ManuallyFrozen(booking[b].day, booking[b].slot) /\ ~booking[b].emergency
<1> DEFINE r == booking[b]
<1>1. r.day > today /\ ~ScheduleLocked(r.day, LockSlot(r)) /\ r.day \in Int /\ today \in Int
  BY MutableIsOpen, RecordParts DEF TypeOK
<1>2. a \notin Admins
  BY DEF Admins
<1>3. LockReason(r) = "NONE" /\ ~r.emergency
  BY <1>2 DEF Mutable
<1> HIDE DEF r
<1>4. ~ManuallyFrozen(r.day, r.slot)
  <2>1. ~(r.day < today) /\ ~(r.day = today)
    BY <1>1
  <2> QED
    BY <1>1, <1>3, <2>1 DEF LockReason
<1> QED
  BY <1>3, <1>4 DEF r

\* The row leaves its record in the tenant's week where it was, or takes it out.
SameWeek(old, row) ==
    /\ row.day = old.day /\ row.tenant = old.tenant /\ row.emergency = old.emergency
    /\ Active(row) => Active(old)

\* The tenant's week has room for one more booking beside b.
RoomFor(b, row) ==
    Cardinality(WeeklyNormal(row.tenant, row.day) \ {b}) < EffectiveWeeklyLimit(row.tenant)

\* A target that passed without an override is not frozen.
LEMMA UsersTargetIsNotFrozen ==
    ASSUME NEW a \in Users, NEW d, NEW s, NEW b, NEW override,
           ValidSlotTarget(a, d, s, b, override)
    PROVE  ~ManuallyFrozen(d, s)
BY DEF ValidSlotTarget, NormalSlotOpen, Admins

\* What a user places: a record of an unused id or of one that is not frozen, in a
\* week with room for it unless it stays in its own, and in no frozen slot.
LEMMA UsersPlacing ==
    ASSUME TypeOK, NEW a \in Users, NEW b \in Bookings, PlaceStep(a, b)
    PROVE  /\ UNCHANGED <<settings, tenant>>
           /\ Exists(b) => ~ManuallyFrozen(booking[b].day, booking[b].slot)
           /\ \E row \in Row :
                 /\ Write(b, row) /\ row.status # "ABSENT"
                 /\ (Exists(b) /\ SameWeek(booking[b], row)) \/ RoomFor(b, row)
                 /\ \/ Exists(b) /\ row.day = booking[b].day /\ row.slot = booking[b].slot
                    \/ ~ManuallyFrozen(row.day, row.slot)
<1>1. booking[b] \in Row /\ a \in Accounts /\ a \notin Admins
  BY DEF TypeOK, TablesOK, RecordsOK, Accounts, Admins
<1> DEFINE Claim ==
             /\ UNCHANGED <<settings, tenant>>
             /\ Exists(b) => ~ManuallyFrozen(booking[b].day, booking[b].slot)
             /\ \E row \in Row :
                 /\ Write(b, row) /\ row.status # "ABSENT"
                 /\ (Exists(b) /\ SameWeek(booking[b], row)) \/ RoomFor(b, row)
                 /\ \/ Exists(b) /\ row.day = booking[b].day /\ row.slot = booking[b].slot
                    \/ ~ManuallyFrozen(row.day, row.slot)
<1>2. ASSUME NEW t \in Tenants, NEW d \in Days, NEW s \in 0..MaxSlots,
             NEW emergency \in BOOLEAN, NEW override \in BOOLEAN,
             CreateBooking(a, b, t, d, s, emergency, override)
      PROVE  Claim
  <2> DEFINE row == CreatedRow(a, t, d, s, emergency)
  <2>1. row \in Row
    BY <1>1, WrittenRowTypes, NoClosureType
  <2>2. ~emergency /\ ValidSlotTarget(a, d, s, NoBooking, override)
        /\ WithinWeeklyLimit(a, t, d, NoBooking)
    BY <1>1, <1>2 DEF CreateBooking, CreateAllowed
  <2>3. row.status = "BOOKED" /\ row.day = d /\ row.slot = s /\ row.tenant = t
    BY <2>2 DEF CreatedRow
  <2>4. ~Exists(b) /\ Write(b, row) /\ UNCHANGED <<settings, tenant>>
    BY <1>2 DEF CreateBooking, gridVars
  <2>5. WeeklyNormal(t, d) \ {b} = WeeklyNormal(t, d) \ {NoBooking}
    <3>1. b \notin WeeklyNormal(t, d)
      BY <2>4 DEF WeeklyNormal, Active, ActiveStatuses, Exists
    <3>2. NoBooking \notin WeeklyNormal(t, d)
      BY DEF WeeklyNormal, NoBooking
    <3> QED
      BY <3>1, <3>2
  <2> HIDE DEF row
  <2>6. RoomFor(b, row)
    BY <1>1, <2>2, <2>3, <2>5 DEF RoomFor, WithinWeeklyLimit
  <2>7. ~ManuallyFrozen(d, s)
    BY <2>2, UsersTargetIsNotFrozen
  <2> QED
    BY <2>1, <2>3, <2>4, <2>6, <2>7
<1>3. ASSUME NEW t \in Tenants, NEW d \in Days, NEW s \in 0..MaxSlots, NEW override \in BOOLEAN,
             UpdateBooking(a, b, t, d, s, override)
      PROVE  Claim
  <2> DEFINE old == booking[b]
             slot == AskedSlot(old, s)
             row == UpdatedRow(old, t, d, s)
  <2>1. /\ row \in Row /\ Write(b, row) /\ Exists(b) /\ UNCHANGED <<settings, tenant>>
        /\ UpdateAllowed(a, b, old, t, d, s, override)
    BY <1>1, <1>3, WrittenRowTypes, NoClosureType DEF UpdateBooking, gridVars
  <2>2. Mutable(a, old)
    BY <2>1 DEF UpdateAllowed
  <2>3. ~ManuallyFrozen(old.day, old.slot) /\ ~old.emergency
    BY <2>2, FrozenIsNotMutable
  <2>4. /\ row.day = d /\ row.slot = slot /\ row.tenant = t
        /\ row.emergency = old.emergency /\ row.status = old.status
    BY <1>1, <2>3 DEF UpdatedRow, Row
  <2>5. /\ <<d, slot>> # <<old.day, old.slot>> => ValidSlotTarget(a, d, slot, b, override)
        /\ <<d, slot>> # <<old.day, old.slot>> \/ t # old.tenant => WithinWeeklyLimit(a, t, d, b)
    BY <2>1, <2>3 DEF UpdateAllowed
  <2> HIDE DEF old, slot, row
  <2>6. SameWeek(old, row) \/ RoomFor(b, row)
    BY <1>1, <2>4, <2>5 DEF SameWeek, RoomFor, WithinWeeklyLimit, Active
  <2>7. (row.day = old.day /\ row.slot = old.slot) \/ ~ManuallyFrozen(row.day, row.slot)
    BY <2>4, <2>5, UsersTargetIsNotFrozen
  <2>8. row.status # "ABSENT"
    BY <2>1, <2>4 DEF Exists, old
  <2> QED
    BY <2>1, <2>3, <2>6, <2>7, <2>8 DEF old
<1>4. ASSUME NEW d \in Days, NEW s \in 0..MaxSlots, RescheduleBooking(a, b, d, s)
      PROVE  Claim
  <2> DEFINE old == booking[b]
             row == RescheduledRow(old, d, s)
  <2>1. /\ Exists(b) /\ Write(b, row) /\ UNCHANGED <<settings, tenant>>
        /\ Mutable(a, old) /\ ValidSlotTarget(a, d, s, b, FALSE)
        /\ WithinWeeklyLimit(a, old.tenant, d, b)
    BY <1>4 DEF RescheduleBooking, RescheduleAllowed, Reschedulable, gridVars
  <2>2. /\ row \in Row /\ row.day = d /\ row.slot = s /\ row.tenant = old.tenant
        /\ row.status = old.status
    BY <1>1 DEF RescheduledRow, Row
  <2>3. ~ManuallyFrozen(old.day, old.slot) /\ ~ManuallyFrozen(d, s)
    BY <2>1, FrozenIsNotMutable, UsersTargetIsNotFrozen
  <2> HIDE DEF row
  <2>4. RoomFor(b, row)
    BY <1>1, <2>1, <2>2 DEF RoomFor, WithinWeeklyLimit
  <2>5. row.status # "ABSENT"
    BY <2>1, <2>2 DEF Exists
  <2> QED
    BY <2>1, <2>2, <2>3, <2>4, <2>5
<1> HIDE DEF Claim
<1> PICK t \in Tenants, d \in RequestDays, s \in Slots \cup {NoSlot}, override \in BOOLEAN :
      \/ \E emergency \in BOOLEAN : CreateBooking(a, b, t, d, s, emergency, override)
      \/ UpdateBooking(a, b, t, d, s, override)
      \/ MoveBooking(a, b, d, s, override)
      \/ RescheduleBooking(a, b, d, s)
  BY DEF PlaceStep
<1>5. d \in Days /\ s \in 0..MaxSlots /\ booking[b].tenant \in Tenants
  BY <1>1 DEF Slots, NoSlot, Row
<1>6. Claim
  BY <1>2, <1>3, <1>4, <1>5 DEF MoveBooking
<1> QED
  BY <1>6 DEF Claim

\* The life cycle keeps place and tenant and brings no record back to the board.
LEMMA LifecycleKeepsWeek ==
    ASSUME TypeOK, NEW a \in Accounts, NEW b \in Bookings,
           LifecycleStep(a, b) \/ PeopleStep(a, b)
    PROVE  /\ UNCHANGED <<settings, tenant>>
           /\ \/ UNCHANGED booking
              \/ \E row \in Row : /\ Write(b, row) /\ Exists(b) /\ row.status # "ABSENT"
                                  /\ SameWeek(booking[b], row) /\ row.slot = booking[b].slot
<1>1. booking[b] \in Row /\ closure[b] \in Closure
  BY DEF TypeOK, TablesOK, RecordsOK
<1>2. UNCHANGED <<settings, tenant>>
  BY DEF LifecycleStep, PeopleStep, CancelBooking, CancelByStatus, CloseBooking, KeepOpen,
         ReopenBooking, StartWork, AssignManager, ReplaceCollaborators, gridVars
\* Every life-cycle row keeps everything but status and work details.
<1>3. ASSUME NEW st \in Statuses, NEW ch \in BOOLEAN, Exists(b), st # "ABSENT",
             Active(booking[b]) \/ st \notin ActiveStatuses,
             Write(b, [booking[b] EXCEPT !.status = st, !.change = ch])
      PROVE  \E row \in Row : /\ Write(b, row) /\ Exists(b) /\ row.status # "ABSENT"
                              /\ SameWeek(booking[b], row) /\ row.slot = booking[b].slot
  <2> DEFINE row == [booking[b] EXCEPT !.status = st, !.change = ch]
  <2>1. /\ row \in Row /\ row.status = st /\ row.day = booking[b].day
        /\ row.slot = booking[b].slot /\ row.tenant = booking[b].tenant
        /\ row.emergency = booking[b].emergency
    BY <1>1 DEF Row
  <2> HIDE DEF row
  <2> QED
    BY <1>3, <2>1 DEF SameWeek, Active, row
<1>4. \A st \in Statuses : [booking[b] EXCEPT !.status = st]
                             = [booking[b] EXCEPT !.status = st, !.change = booking[b].change]
  BY <1>1 DEF Row
<1>5. booking[b].change \in BOOLEAN
  BY <1>1 DEF Row
<1>6. CASE CancelBooking(a, b)
  BY <1>2, <1>3, <1>4, <1>5, <1>6 DEF CancelBooking, CancelledRow, Statuses, ActiveStatuses
<1>7. CASE CloseBooking(a, b)
  <2>1. booking[b].status \in {"BOOKED", "IN_PROGRESS"} /\ Write(b, ClosedRow(booking[b]))
    BY <1>7 DEF CloseBooking, CloseAllowed
  <2> QED
    BY <1>2, <1>3, <1>4, <1>5, <2>1 DEF ClosedRow, Exists, Active, ActiveStatuses, Statuses
<1>8. CASE ReopenBooking(a, b)
  <2>1. booking[b].status = "COMPLETED" /\ Write(b, ReopenedRow(booking[b], closure[b]))
    BY <1>8 DEF ReopenBooking, ReopenAllowed
  <2>2. /\ RestoredStatus(booking[b], closure[b]) \in Statuses
        /\ RestoredStatus(booking[b], closure[b]) # "ABSENT"
    BY DEF RestoredStatus, Statuses
  <2> QED
    BY <1>2, <1>3, <1>4, <1>5, <2>1, <2>2 DEF ReopenedRow, Exists, Active, ActiveStatuses
<1>9. CASE StartWork(a, b)
  <2> DEFINE st == IF booking[b].status = "BOOKED" THEN "IN_PROGRESS" ELSE booking[b].status
  <2>1. booking[b].status \in {"BOOKED", "IN_PROGRESS"} /\ Write(b, StartedRow(booking[b]))
    BY <1>9 DEF StartWork, StartWorkAllowed
  <2>2. StartedRow(booking[b]) = [booking[b] EXCEPT !.status = st, !.change = TRUE]
    BY <1>1 DEF StartedRow, Row
  <2>3. st = "IN_PROGRESS"
    BY <2>1
  <2> HIDE DEF st
  <2> QED
    BY <1>2, <1>3, <2>1, <2>2, <2>3 DEF Exists, Active, ActiveStatuses, Statuses
<1>10. CASE KeepOpen(a, b) \/ PeopleStep(a, b)
  BY <1>2, <1>10 DEF KeepOpen, PeopleStep, AssignManager, ReplaceCollaborators
<1> QED
  BY <1>2, <1>6, <1>7, <1>8, <1>9, <1>10 DEF LifecycleStep, CancelByStatus

(* The weekly limit *)

\* Two dates of one week have one Sunday.
LEMMA OneSunday ==
    ASSUME NEW d \in Int, NEW e \in WeekStart(d) .. WeekStart(d) + 4
    PROVE  WeekStart(e) = WeekStart(d)
<1>1. d % 7 \in 0..6
  OBVIOUS
<1> QED
  BY <1>1 DEF WeekStart

\* A tenant's weekly limit is a number, whether it is its own or everybody's.
LEMMA LimitType ==
    ASSUME TypeOK, NEW t \in Tenants
    PROVE  EffectiveWeeklyLimit(t) \in Nat
BY DEF TypeOK, TablesOK, GridOK, EffectiveWeeklyLimit, NoLimit

\* A week's bookings can be counted.
LEMMA WeekIsFinite ==
    ASSUME NEW t, NEW d
    PROVE  IsFiniteSet(WeeklyNormal(t, d))
BY FS_Subset DEF WeeklyNormal

\* A written row that finds room, or stays in its week, keeps the limits.
LEMMA WriteKeepsQuota ==
    ASSUME TypeOK, WeeklyQuota, NEW b \in Bookings, NEW row \in Row, Write(b, row),
           UNCHANGED <<settings, tenant>>,
           (Exists(b) /\ SameWeek(booking[b], row)) \/ RoomFor(b, row)
    PROVE  WeeklyQuota'
<1> SUFFICES ASSUME NEW t \in Tenants, NEW d \in Days
             PROVE  Cardinality(WeeklyNormal(t, d)') <= EffectiveWeeklyLimit(t)
  BY DEF WeeklyQuota, EffectiveWeeklyLimit
<1> DEFINE W == WeeklyNormal(t, d)
           New == WeeklyNormal(t, d)'
<1>1. IsFiniteSet(W) /\ Cardinality(W) <= EffectiveWeeklyLimit(t) /\ EffectiveWeeklyLimit(t) \in Nat
  BY WeekIsFinite, LimitType DEF WeeklyQuota
<1>2. booking'[b] = row /\ \A c \in Bookings \ {b} : booking'[c] = booking[c]
  BY WriteOne
<1>3. /\ \A c \in Bookings \ {b} : c \in New <=> c \in W
      /\ b \in New <=> /\ row.tenant = t /\ row.day \in WeekStart(d) .. WeekStart(d) + 4
                       /\ ~row.emergency /\ Active(row)
      /\ New \subseteq Bookings /\ W \subseteq Bookings
  BY <1>2 DEF WeeklyNormal
<1>4. Cardinality(W) \in Nat
  BY <1>1, FS_CardinalityType
<1>5. CASE b \notin New
  <2>1. New \in SUBSET W
    BY <1>3, <1>5
  <2>2. IsFiniteSet(New) /\ Cardinality(New) <= Cardinality(W)
    BY <1>1, <2>1, FS_Subset
  <2>3. Cardinality(New) \in Nat
    BY <2>2, FS_CardinalityType
  <2> HIDE DEF W, New
  <2>4. Cardinality(New) <= EffectiveWeeklyLimit(t)
    BY <1>1, <1>4, <2>2, <2>3
  <2> QED
    BY <2>4 DEF New
<1>6. CASE b \in New /\ SameWeek(booking[b], row)
  <2>1. b \in W
    BY <1>3, <1>6 DEF SameWeek, WeeklyNormal
  <2> HIDE DEF W, New
  <2>2. New = W
    <3>1. \A c \in Bookings : c \in New <=> c \in W
      BY <1>3, <1>6, <2>1
    <3>2. New \subseteq Bookings /\ W \subseteq Bookings
      BY <1>3
    <3> QED
      BY <3>1, <3>2
  <2>3. Cardinality(New) <= EffectiveWeeklyLimit(t)
    BY <1>1, <2>2
  <2> QED
    BY <2>3 DEF New
<1>7. CASE b \in New /\ RoomFor(b, row)
  <2>1. row.tenant = t /\ WeekStart(row.day) = WeekStart(d)
    BY <1>3, <1>7, OneSunday DEF Days
  <2>2. WeeklyNormal(row.tenant, row.day) = W
    BY <2>1 DEF WeeklyNormal
  <2>3. Cardinality(W \ {b}) < EffectiveWeeklyLimit(t)
    BY <1>7, <2>1, <2>2 DEF RoomFor
  <2>4. New = (W \ {b}) \cup {b}
    BY <1>3, <1>7
  <2>5. IsFiniteSet(W \ {b})
    BY <1>1, FS_RemoveElement
  <2> HIDE DEF W, New
  <2>6. Cardinality(W \ {b}) \in Nat
    BY <2>5, FS_CardinalityType
  <2>7. Cardinality(New) = Cardinality(W \ {b}) + 1
    <3>1. Cardinality((W \ {b}) \cup {b})
            = IF b \in W \ {b} THEN Cardinality(W \ {b}) ELSE Cardinality(W \ {b}) + 1
      BY <2>5, FS_AddElement
    <3> QED
      BY <2>4, <3>1
  <2>8. Cardinality(New) <= EffectiveWeeklyLimit(t)
    BY <1>1, <2>3, <2>6, <2>7
  <2> QED
    BY <2>8 DEF New
<1> QED
  BY <1>5, <1>6, <1>7

\* Every step under which only users place bookings is a step of the scheduler.
LEMMA UsersStepIsAStep == [UsersScheduleStep]_vars => [Next]_vars
BY DEF UsersScheduleStep, Next, RecordStep, LifecycleStep, Accounts, Admins

\* What becomes of the records in such a step.
LEMMA UsersStepWrites ==
    ASSUME TypeOK, [UsersScheduleStep]_vars
    PROVE  \/ /\ UNCHANGED booking
              /\ \A t \in Tenants : EffectiveWeeklyLimit(t) <= EffectiveWeeklyLimit(t)'
           \/ /\ UNCHANGED <<settings, tenant>>
              /\ \E b \in Bookings, row \in Row :
                    /\ Write(b, row) /\ row.status # "ABSENT"
                    /\ (Exists(b) /\ SameWeek(booking[b], row)) \/ RoomFor(b, row)
<1>1. \A t \in Tenants : EffectiveWeeklyLimit(t) \in Nat
  BY LimitType
<1>2. UNCHANGED <<settings, tenant>> =>
        \A t \in Tenants : EffectiveWeeklyLimit(t) <= EffectiveWeeklyLimit(t)'
  BY <1>1 DEF EffectiveWeeklyLimit
<1>3. ASSUME NEW a \in Users, NEW b \in Bookings, PlaceStep(a, b)
      PROVE  /\ UNCHANGED <<settings, tenant>>
             /\ \E row \in Row : /\ Write(b, row) /\ row.status # "ABSENT"
                                 /\ (Exists(b) /\ SameWeek(booking[b], row)) \/ RoomFor(b, row)
  BY <1>3, UsersPlacing
<1>4. ASSUME NEW a \in Accounts, NEW b \in Bookings, LifecycleStep(a, b) \/ PeopleStep(a, b)
      PROVE  /\ UNCHANGED <<settings, tenant>>
             /\ \/ UNCHANGED booking
                \/ \E row \in Row : /\ Write(b, row) /\ row.status # "ABSENT"
                                    /\ (Exists(b) /\ SameWeek(booking[b], row)) \/ RoomFor(b, row)
  BY <1>4, LifecycleKeepsWeek
<1>5. CASE GridStep /\ \A t \in Tenants : EffectiveWeeklyLimit(t) <= EffectiveWeeklyLimit(t)'
  BY <1>5, OtherStepsKeepRecords
<1>6. CASE LockStep \/ DayPasses \/ UNCHANGED vars
  <2>1. UNCHANGED <<settings, tenant>>
    BY <1>6 DEF LockStep, FreezeSlot, UnfreezeSlot, UnlockAutomaticLock, RestoreAutomaticLock,
                DayPasses, vars, boardVars, gridVars
  <2> QED
    BY <1>2, <1>6, <2>1, OtherStepsKeepRecords
<1>7. ASSUME NEW a \in Admins, NEW b \in Bookings,
             CloseBooking(a, b) \/ KeepOpen(a, b) \/ ReopenBooking(a, b)
      PROVE  LifecycleStep(a, b) /\ a \in Accounts
  BY <1>7 DEF LifecycleStep, Accounts
<1>8. Users \subseteq Accounts
  BY DEF Accounts
<1> QED
  BY <1>2, <1>3, <1>4, <1>5, <1>6, <1>7, <1>8 DEF UsersScheduleStep

\* The inductive step: places, vacant ids and limits together.
LEMMA StepUsersInv == UsersInv /\ [UsersScheduleStep]_vars => UsersInv'
<1> SUFFICES ASSUME UsersInv, [UsersScheduleStep]_vars PROVE UsersInv'
  OBVIOUS
<1>1. PlaceInv' /\ TypeOK /\ TypeOK'
  BY UsersStepIsAStep, StepPlaceInv DEF UsersInv, PlaceInv
<1>2. CASE /\ UNCHANGED booking
           /\ \A t \in Tenants : EffectiveWeeklyLimit(t) <= EffectiveWeeklyLimit(t)'
  <2>1. VacantPlaces'
    BY <1>2 DEF UsersInv, VacantPlaces, Exists
  <2>2. ASSUME NEW t \in Tenants, NEW d \in Days
        PROVE  Cardinality(WeeklyNormal(t, d)') <= EffectiveWeeklyLimit(t)'
    <3>1. WeeklyNormal(t, d)' = WeeklyNormal(t, d)
      BY <1>2 DEF WeeklyNormal
    <3>2. Cardinality(WeeklyNormal(t, d)) \in Nat
      BY WeekIsFinite, FS_CardinalityType
    <3>3. EffectiveWeeklyLimit(t) \in Nat
      BY <1>1, LimitType
    <3>4. EffectiveWeeklyLimit(t)' \in Nat
      BY <1>1 DEF TypeOK, TablesOK, GridOK, EffectiveWeeklyLimit, NoLimit
    <3>5. Cardinality(WeeklyNormal(t, d)) <= EffectiveWeeklyLimit(t)
      BY DEF UsersInv, WeeklyQuota
    <3> QED
      BY <1>2, <3>1, <3>2, <3>3, <3>4, <3>5
  <2>3. WeeklyQuota'
    BY <2>2 DEF WeeklyQuota
  <2> QED
    BY <1>1, <2>1, <2>3 DEF UsersInv
<1>3. CASE /\ UNCHANGED <<settings, tenant>>
           /\ \E b \in Bookings, row \in Row :
                 /\ Write(b, row) /\ row.status # "ABSENT"
                 /\ (Exists(b) /\ SameWeek(booking[b], row)) \/ RoomFor(b, row)
  <2> PICK b \in Bookings, row \in Row :
        /\ Write(b, row) /\ row.status # "ABSENT"
        /\ (Exists(b) /\ SameWeek(booking[b], row)) \/ RoomFor(b, row)
    BY <1>3
  <2>1. WeeklyQuota'
    BY <1>1, <1>3, WriteKeepsQuota DEF UsersInv
  <2>2. booking'[b] = row /\ \A c \in Bookings \ {b} : booking'[c] = booking[c]
    BY <1>1, WriteOne
  <2>3. VacantPlaces'
    BY <2>2 DEF UsersInv, VacantPlaces, Exists
  <2> QED
    BY <1>1, <2>1, <2>3 DEF UsersInv
<1> QED
  BY <1>1, <1>2, <1>3, UsersStepWrites

\* An empty board has no booking to count.
LEMMA InitUsersInv == Init => UsersInv
<1> SUFFICES ASSUME Init PROVE UsersInv
  OBVIOUS
<1>1. PlaceInv /\ TypeOK
  BY InitPlaceInv DEF PlaceInv
<1>2. \A b \in Bookings : booking[b].slot = NoSlot /\ ~Active(booking[b])
  BY DEF Init, EmptyBoard, VacantRow, Active, ActiveStatuses
<1>3. VacantPlaces
  BY <1>2 DEF VacantPlaces
<1>4. \A t, d : WeeklyNormal(t, d) = {}
  BY <1>2 DEF WeeklyNormal
<1>5. WeeklyQuota
  <2>1. ASSUME NEW t \in Tenants, NEW d \in Days
        PROVE  Cardinality(WeeklyNormal(t, d)) <= EffectiveWeeklyLimit(t)
    <3>1. Cardinality(WeeklyNormal(t, d)) = 0
      BY <1>4, FS_EmptySet
    <3>2. EffectiveWeeklyLimit(t) \in Nat
      BY <1>1, LimitType
    <3> QED
      BY <3>1, <3>2
  <2> QED
    BY <2>1 DEF WeeklyQuota
<1> QED
  BY <1>1, <1>3, <1>5 DEF UsersInv

\* While administrators place no booking and lower no limit, no tenant exceeds its
\* weekly limit, whatever its users create, edit, move, hand over and reschedule.
THEOREM TenantsKeepTheirQuota == UsersScheduleSpec => []WeeklyQuota
<1>1. UsersInv => WeeklyQuota
  BY DEF UsersInv
<1> QED
  BY <1>1, InitUsersInv, StepUsersInv, PTL DEF UsersScheduleSpec

(* Manual freezes *)

\* No slot number, no freeze: the freezes are of the slots of the grid.
LEMMA VacantIsNotFrozen ==
    ASSUME UsersInv, NEW b \in Bookings, ~Exists(b)
    PROVE  ~ManuallyFrozen(booking[b].day, booking[b].slot)
BY DEF UsersInv, PlaceInv, TypeOK, TablesOK, LocksOK, VacantPlaces, ManuallyFrozen, Slots, NoSlot

\* Every such step leaves frozen slots as they are.
LEMMA StepKeepsFrozen == UsersInv /\ [UsersScheduleStep]_vars => KeepsFrozenSlots
<1> SUFFICES ASSUME UsersInv, [UsersScheduleStep]_vars, NEW c \in Bookings
             PROVE  LET was == booking[c]
                        is == booking'[c]
                    IN  /\ ManuallyFrozen(was.day, was.slot) =>
                              /\ is = [was EXCEPT !.status = is.status]
                              /\ is.status # was.status => "COMPLETED" \in {is.status, was.status}
                        /\ ManuallyFrozen(is.day, is.slot)
                              => was.day = is.day /\ was.slot = is.slot
  BY DEF KeepsFrozenSlots
<1> DEFINE was == booking[c]
           is == booking'[c]
           Kept == /\ is = [was EXCEPT !.status = is.status]
                   /\ is.status # was.status => "COMPLETED" \in {is.status, was.status}
                   /\ was.day = is.day /\ was.slot = is.slot
           Free == /\ ~ManuallyFrozen(was.day, was.slot)
                   /\ ManuallyFrozen(is.day, is.slot) => was.day = is.day /\ was.slot = is.slot
<1> SUFFICES Kept \/ Free
  OBVIOUS
<1>1. TypeOK /\ was \in Row /\ closure[c] \in Closure
  BY DEF UsersInv, PlaceInv, TypeOK, TablesOK, RecordsOK
<1>2. is = was => Kept
  BY <1>1 DEF Row
<1>3. ASSUME NEW b \in Bookings, NEW row, Write(b, row) PROVE (c = b /\ is = row) \/ is = was
  BY <1>1, <1>3, WriteOne
<1>4. ASSUME NEW a \in Users, NEW b \in Bookings, PlaceStep(a, b)
      PROVE  Kept \/ Free
  <2>1. Exists(b) => ~ManuallyFrozen(booking[b].day, booking[b].slot)
    BY <1>1, <1>4, UsersPlacing
  <2>2. PICK row \in Row :
           /\ Write(b, row)
           /\ \/ row.day = booking[b].day /\ row.slot = booking[b].slot
              \/ ~ManuallyFrozen(row.day, row.slot)
    BY <1>1, <1>4, UsersPlacing
  <2> HIDE DEF Kept
  <2> QED
    BY <1>2, <1>3, <2>1, <2>2, VacantIsNotFrozen
<1>5. ASSUME NEW a, NEW b \in Bookings, CloseBooking(a, b) \/ ReopenBooking(a, b)
      PROVE  Kept
  <2>1. PICK st : /\ Write(b, [booking[b] EXCEPT !.status = st])
                  /\ "COMPLETED" \in {st, booking[b].status}
    BY <1>5 DEF CloseBooking, ClosedRow, ReopenBooking, ReopenAllowed, ReopenedRow
  <2>2. CASE is = was
    BY <1>2, <2>2
  <2>3. CASE c = b /\ is = [was EXCEPT !.status = st]
    BY <1>1, <2>1, <2>3 DEF Row
  <2> QED
    BY <1>3, <2>1, <2>2, <2>3
<1>6. ASSUME NEW a \in Users, NEW b \in Bookings, CancelBooking(a, b)
      PROVE  Kept \/ Free
  <2>1. Write(b, CancelledRow(booking[b])) /\ Mutable(a, booking[b])
    BY <1>6 DEF CancelBooking, CancelAllowed
  <2>2. ~ManuallyFrozen(booking[b].day, booking[b].slot)
    BY <1>1, <2>1, FrozenIsNotMutable
  <2>3. CASE is = was
    BY <1>2, <2>3
  <2>4. CASE c = b /\ is = CancelledRow(was)
    BY <1>1, <2>2, <2>4 DEF CancelledRow, Row
  <2> QED
    BY <1>3, <2>1, <2>3, <2>4
<1>7. ASSUME NEW a \in Users, NEW b \in Bookings, LifecycleStep(a, b)
      PROVE  \/ UNCHANGED booking \/ CancelBooking(a, b)
             \/ CloseBooking(a, b) \/ ReopenBooking(a, b)
  BY <1>7 DEF LifecycleStep, CancelByStatus, KeepOpen, StartWork, StartWorkAllowed
<1>8. ASSUME UNCHANGED booking PROVE Kept
  BY <1>2, <1>8
<1>9. ASSUME NEW a, NEW b, KeepOpen(a, b) \/ PeopleStep(a, b) PROVE UNCHANGED booking
  BY <1>9 DEF KeepOpen, PeopleStep, AssignManager, ReplaceCollaborators
<1>10. ASSUME LockStep \/ GridStep \/ DayPasses \/ UNCHANGED vars PROVE UNCHANGED booking
  BY <1>10, OtherStepsKeepRecords
<1> HIDE DEF Kept, Free
<1> QED
  BY <1>4, <1>5, <1>6, <1>7, <1>8, <1>9, <1>10 DEF UsersScheduleStep

\* No user's request, and no closing or reopening, moves, edits or cancels a record
\* in a manually frozen slot or puts one into it.
THEOREM FrozenSlotsHold == UsersScheduleSpec => FrozenSlotsAreOutOfReach
<1>1. UsersInv /\ [UsersScheduleStep]_vars => [KeepsFrozenSlots]_vars
  BY StepKeepsFrozen
<1> QED
  BY <1>1, InitUsersInv, StepUsersInv, PTL DEF UsersScheduleSpec, FrozenSlotsAreOutOfReach
=============================================================================
