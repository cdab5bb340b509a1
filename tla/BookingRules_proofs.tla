-------------------------- MODULE BookingRules_proofs --------------------------
(***************************************************************************)
(* Lemmas about the tables, the rows the handlers write and the offers the *)
(* interface makes; Scheduler and SchedulerTx are proved with them.        *)
(*                                                                         *)
(* That an offer agrees with its handler follows from the state at hand:   *)
(* from the tables' types and, for the board, from where records stand.    *)
(***************************************************************************)
EXTENDS BookingOffers, WeekBoard, ScheduleSearch, FiniteSetTheorems, TLAPS

\* An unused id holds a row of the booking table's type.
LEMMA VacantRowType == VacantRow \in Row
BY SizesAssumption DEF VacantRow, Row, Statuses, Days, NoSlot, Accounts, Admins

\* A record without a closure audit has the audit's type all the same.
LEMMA NoClosureType == NoClosure \in Closure
BY DEF NoClosure, Closure, Statuses

\* The tables a fresh installation starts with have their types.
LEMMA EmptyBoardTypes == EmptyBoard => TablesOK
<1> SUFFICES ASSUME EmptyBoard PROVE TablesOK
  OBVIOUS
<1> USE SizesAssumption DEF EmptyBoard
<1>1. today \in Days
  BY DEF Days
<1>2. RecordsOK
  BY VacantRowType, NoClosureType DEF RecordsOK
<1>3. LocksOK
  BY DEF LocksOK
<1>4. GridOK
  BY DEF GridOK, Slots, Days, NoCapacity, NoLimit
<1> QED
  BY <1>1, <1>2, <1>3, <1>4 DEF TablesOK

\* Every handler, given a record of the booking table, writes another.
LEMMA WrittenRowTypes ==
    ASSUME NEW r \in Row, NEW a \in Accounts, NEW t \in Tenants, NEW d \in Days,
           NEW s \in 0..MaxSlots, NEW audit \in Closure
    PROVE  /\ \A emergency \in BOOLEAN : CreatedRow(a, t, d, s, emergency) \in Row
           /\ UpdatedRow(r, t, d, s) \in Row
           /\ RescheduledRow(r, d, s) \in Row
           /\ CancelledRow(r) \in Row
           /\ ClosedRow(r) \in Row
           /\ ReopenedRow(r, audit) \in Row
           /\ StartedRow(r) \in Row
<1> USE SizesAssumption
<1>1. \A emergency \in BOOLEAN : CreatedRow(a, t, d, s, emergency) \in Row
  BY DEF CreatedRow, Row, Statuses, NoSlot
<1>2. UpdatedRow(r, t, d, s) \in Row
  <2>1. AskedSlot(r, s) \in 0..MaxSlots /\ NoSlot \in 0..MaxSlots
    BY DEF AskedSlot, Row, NoSlot
  <2>2. \A slot \in 0..MaxSlots :
           [r EXCEPT !.tenant = t, !.day = d, !.slot = slot] \in Row
    BY DEF Row
  <2> QED
    BY <2>1, <2>2 DEF UpdatedRow
<1>3. RescheduledRow(r, d, s) \in Row
  BY DEF RescheduledRow, Row
<1>4. CancelledRow(r) \in Row /\ ClosedRow(r) \in Row
  BY DEF CancelledRow, ClosedRow, Row, Statuses
<1>5. ReopenedRow(r, audit) \in Row
  BY DEF ReopenedRow, RestoredStatus, Row, Statuses, Closure
<1>6. StartedRow(r) \in Row
  BY DEF StartedRow, Row, Statuses
<1> QED
  BY <1>1, <1>2, <1>3, <1>4, <1>5, <1>6

(***************************************************************************)
(* What the interface offers and what the handlers accept                  *)
(***************************************************************************)

\* A record's own row and its parts, from the types of the tables.
LEMMA RecordParts ==
    ASSUME TablesOK, NEW b \in Bookings
    PROVE  /\ booking[b] \in Row
           /\ booking[b].status \in Statuses /\ booking[b].day \in 0..LastDay
           /\ booking[b].slot \in 0..MaxSlots /\ booking[b].tenant \in Tenants
           /\ booking[b].emergency \in BOOLEAN
           /\ today \in Nat
BY SizesAssumption DEF TablesOK, RecordsOK, Row, Days

\* A record no restriction stands on lies on a later date that is open for its slot.
LEMMA MutableIsOpen ==
    ASSUME TablesOK, NEW a, NEW b \in Bookings, Mutable(a, booking[b])
    PROVE  booking[b].day > today /\ ~ScheduleLocked(booking[b].day, LockSlot(booking[b]))
<1> DEFINE r == booking[b]
<1>1. r.day \in Int /\ today \in Int
  BY RecordParts
<1>2. LockReason(r) \notin {"PAST_DATE", "CURRENT_DATE", "AUTOMATIC_DATE_FREEZE"}
  BY DEF Mutable
<1> HIDE DEF r
<1>3. ~(r.day < today)
  BY <1>1, <1>2 DEF LockReason
<1>4. ~(r.day = today)
  BY <1>1, <1>2 DEF LockReason
<1>5. ~ScheduleLocked(r.day, LockSlot(r))
  BY <1>1, <1>2, <1>3, <1>4 DEF LockReason
<1> QED
  BY <1>1, <1>3, <1>4, <1>5 DEF r

\* The prefetched set of taken slots answers what the handler's query answers.
LEMMA TakenSlotsExact ==
    ASSUME NEW d, NEW s \in Slots, NEW b
    PROVE  s \in TakenSlots(d, b) <=> SlotTaken(d, s, b)
BY SizesAssumption DEF TakenSlots, SlotTaken, Slots, NoSlot

\* The destinations the picker filters are those the handler lets pass.
LEMMA PickerFromTables == PickerExact
<1> SUFFICES ASSUME NEW a \in Accounts, NEW b \in Bookings, MayWorkOn(a, b, booking[b])
             PROVE  PickerOptions(a, b, booking[b])
                      = {c \in SearchedCells :
                           RescheduleAllowed(a, b, booking[b], c[1], c[2])}
  BY DEF PickerExact
<1> DEFINE r == booking[b]
<1>1. ASSUME NEW d, NEW s \in Slots
      PROVE  Pickable(a, b, r, d, s) <=>
               /\ <<d, s>> # <<r.day, r.slot>>
               /\ ValidSlotTarget(a, d, s, b, FALSE)
               /\ WithinWeeklyLimit(a, r.tenant, d, b)
  <2> HIDE DEF r
  <2> QED
    BY TakenSlotsExact DEF Pickable, NormalSlotOpen, ValidSlotTarget, WithinWeeklyLimit, WeekHasRoom
<1>2. CASE \/ r.emergency
           \/ r.status \in {"CANCELLED", "COMPLETED"}
           \/ ~Mutable(a, r)
           \/ ~tenant[r.tenant].active
  <2>1. PickerOptions(a, b, r) = {}
    BY <1>2 DEF PickerOptions
  <2>2. \A d, s : ~RescheduleAllowed(a, b, r, d, s)
    BY <1>2 DEF RescheduleAllowed, Reschedulable
  <2> QED
    BY <2>1, <2>2
<1>3. CASE ~(\/ r.emergency
             \/ r.status \in {"CANCELLED", "COMPLETED"}
             \/ ~Mutable(a, r)
             \/ ~tenant[r.tenant].active)
  <2>1. PickerOptions(a, b, r) = {c \in SearchedCells : Pickable(a, b, r, c[1], c[2])}
    BY <1>3 DEF PickerOptions
  <2>2. \A d, s : RescheduleAllowed(a, b, r, d, s) <=>
            /\ <<d, s>> # <<r.day, r.slot>>
            /\ ValidSlotTarget(a, d, s, b, FALSE)
            /\ WithinWeeklyLimit(a, r.tenant, d, b)
    BY <1>3 DEF RescheduleAllowed, Reschedulable
  <2> HIDE DEF r
  <2>3. \A c \in SearchedCells :
           Pickable(a, b, r, c[1], c[2]) <=> RescheduleAllowed(a, b, r, c[1], c[2])
    BY <1>1, <2>2 DEF SearchedCells
  <2>4. PickerOptions(a, b, r) = {c \in SearchedCells : RescheduleAllowed(a, b, r, c[1], c[2])}
    BY <2>1, <2>3
  <2> QED
    BY <2>4 DEF r
<1> QED
  BY <1>2, <1>3

\* No restriction on a record tells one administrator from another.
LEMMA AdminsAlike ==
    ASSUME NEW a \in Admins, NEW r
    PROVE  Mutable(a, r) <=> Mutable(Owner, r)
BY DEF Mutable, Admins

\* Somebody is the only member of a finite set, or misses from it, or has company in it.
LEMMA OnlyMember ==
    ASSUME NEW S, NEW T, S \subseteq T, IsFiniteSet(T), NEW a
    PROVE  a \notin S \/ Cardinality(S) > 1 <=> S # {a}
<1>1. IsFiniteSet(S)
  BY FS_Subset
<1>2. Cardinality({a}) = 1
  BY FS_Singleton
<1>3. ASSUME a \in S, S # {a} PROVE Cardinality(S) > 1
  <2>1. {a} \subseteq S
    BY <1>3
  <2>2. /\ Cardinality({a}) <= Cardinality(S)
        /\ Cardinality(S) = Cardinality({a}) => S = {a}
    BY <1>1, <2>1, FS_Subset
  <2>3. Cardinality(S) \in Nat
    BY <1>1, FS_CardinalityType
  <2> QED
    BY <1>2, <1>3, <2>2, <2>3
<1> QED
  BY <1>2, <1>3

\* Each flag is computed from the same facts as its handler's checks.
LEMMA FlagsFromTables == TablesOK => FlagsTellTheTruth
<1> SUFFICES ASSUME TablesOK, NEW a \in Accounts, NEW b \in Bookings
             PROVE  LET r == booking[b]
                        accepted == UpdateAllowed(a, b, r, r.tenant, r.day, r.slot, FALSE)
                    IN  r.status # "ABSENT" =>
                          /\ CanEdit(a, b, r) /\ tenant[r.tenant].active <=> accepted
                          /\ CanCancel(a, b, r) <=> CancelAllowed(a, b, r)
                          /\ CanReschedule(a, b, r) /\ ~r.emergency <=> Reschedulable(a, b, r)
                          /\ CanReschedule(a, b, r) /\ r.emergency => a \in Admins
                          /\ CanManageCollaborators(a, b, r) <=> CollaboratorsAllowed(a, r)
                          /\ \A m \in Managers : CanAssignManager(a, r) <=> AssignAllowed(a, r, m)
                          /\ CanAssignSelf(a, b, r)
                               <=> AssignAllowed(a, r, a) /\ assignees[b] # {a}
                          /\ CanStartWork(a, b, r) <=> StartWorkAllowed(a, r, assignees[b])
                          /\ CanManageAttachments(a, b, r) <=> DeleteFilesAllowed(a, b, r)
                          /\ CanUploadAttachments(a, b, r) <=> UploadAllowed(a, b, r)
                          /\ CanClose(a, r) <=> CloseAllowed(a, r)
                          /\ CanReopen(a, r) <=> ReopenAllowed(a, r)
  BY DEF FlagsTellTheTruth
<1> DEFINE r == booking[b]
<1>1. Mutable(a, r) => r.status # "CANCELLED"
  BY DEF Mutable
<1>2. Managers \subseteq Admins /\ a \in Users => a \notin Admins
  BY AccountsAssumption DEF Admins
<1>3. Mutable(a, r) => ~ScheduleLocked(r.day, LockSlot(r))
  BY MutableIsOpen
<1>4. CanEdit(a, b, r) /\ tenant[r.tenant].active
        <=> UpdateAllowed(a, b, r, r.tenant, r.day, r.slot, FALSE)
  <2>1. AskedSlot(r, r.slot) = r.slot
    BY DEF AskedSlot
  <2>2. (IF r.emergency THEN NoSlot ELSE r.slot) = LockSlot(r)
    BY DEF LockSlot
  <2> HIDE DEF r
  <2> QED
    BY <1>3, <2>1, <2>2 DEF UpdateAllowed, CanEdit
<1>5. /\ CanCancel(a, b, r) <=> CancelAllowed(a, b, r)
      /\ CanReschedule(a, b, r) /\ ~r.emergency <=> Reschedulable(a, b, r)
  BY <1>1 DEF CanCancel, CanReschedule, CanEdit, CancelAllowed, Reschedulable
<1>6. CanReschedule(a, b, r) /\ r.emergency => a \in Admins
  BY DEF CanReschedule, CanEdit, Mutable
<1>7. CanManageCollaborators(a, b, r) <=> CollaboratorsAllowed(a, r)
  BY DEF CanManageCollaborators, CollaboratorsAllowed, MayWorkOn
<1>8. a \in Admins => (Mutable(a, r) <=> Mutable(Owner, r))
  BY AdminsAlike
<1>9. /\ \A m \in Managers : CanAssignManager(a, r) <=> AssignAllowed(a, r, m)
      /\ CanStartWork(a, b, r) <=> StartWorkAllowed(a, r, assignees[b])
  BY <1>8 DEF Admins, CanAssignManager, CanStartWork, AssignAllowed, StartWorkAllowed
<1>10. (CanClose(a, r) <=> CloseAllowed(a, r)) /\ (CanReopen(a, r) <=> ReopenAllowed(a, r))
  BY DEF CanClose, CloseAllowed, CanReopen, ReopenAllowed
<1>11. CanAssignSelf(a, b, r) <=> AssignAllowed(a, r, a) /\ assignees[b] # {a}
  <2>1. assignees[b] \subseteq Managers
    BY DEF TablesOK, RecordsOK
  <2>2. a \notin assignees[b] \/ Cardinality(assignees[b]) > 1 <=> assignees[b] # {a}
    BY <2>1, ManagersAssumption, OnlyMember
  <2> HIDE DEF r
  <2> QED
    BY <1>8, <2>2 DEF Admins, CanAssignSelf, AssignAllowed
<1>12. /\ CanManageAttachments(a, b, r) <=> DeleteFilesAllowed(a, b, r)
       /\ CanUploadAttachments(a, b, r) <=> UploadAllowed(a, b, r)
  BY AccountsAssumption
     DEF CanManageAttachments, CanUploadAttachments, CanEdit, DeleteFilesAllowed,
         UploadAllowed, MayWorkOn, Admins
<1> QED
  BY <1>4, <1>5, <1>6, <1>7, <1>9, <1>10, <1>11, <1>12

(***************************************************************************)
(* The weekly board and the next free slot                                 *)
(***************************************************************************)

\* The week of a date starts at most six days before it, on a Sunday.
LEMMA WeekStartBounds ==
    ASSUME NEW d \in Int
    PROVE  /\ WeekStart(d) \in Int /\ WeekStart(d) <= d /\ d <= WeekStart(d) + 6
           /\ IsDeploymentWeekday(d) <=> d \in WeekDays(WeekStart(d))
<1>1. d % 7 \in 0..6
  OBVIOUS
<1> QED
  BY <1>1 DEF WeekStart, IsDeploymentWeekday, WeekDays

\* A standing record is in the cell of its date and slot: a queue entry never is.
LEMMA CellHolders ==
    ASSUME TablesOK, QueueHasNoSlot, NEW d, NEW s \in Slots
    PROVE  /\ CellBookings(d, s)
                = {b \in Bookings : Active(booking[b]) /\ booking[b].day = d /\ booking[b].slot = s}
           /\ CellBookings(d, s) = {} <=> ~SlotTaken(d, s, NoBooking)
<1>1. s # NoSlot /\ NoBooking \notin Bookings
  BY SizesAssumption DEF Slots, NoSlot, NoBooking
<1>2. \A b \in Bookings : Active(booking[b]) /\ booking[b].slot = s => ~booking[b].emergency
  BY <1>1 DEF QueueHasNoSlot, Active, ActiveStatuses, Exists
<1> QED
  BY <1>1, <1>2 DEF CellBookings, SlotTaken

\* The board's unlock marks say of a later date what the handlers' lock says.
LEMMA BoardLocksAgree ==
    ASSUME TablesOK, NEW d \in Int, NEW s
    PROVE  /\ ~ScheduleLocked(d, s)
                <=> d > today /\ (d \notin AutomaticFrozenDates \/ CellUnlocked(d, s))
           /\ EmergencyOpen(d) <=> ~ScheduleLocked(d, NoSlot)
<1>1. today \in Int
  BY DEF TablesOK, Days
<1>2. d > today /\ d \in AutomaticFrozenDates => BoardLocked(d)
  BY DEF BoardLocked
<1>3. /\ OverrideApplies(d, s) <=> <<d, NoSlot>> \in lockOverride \/ <<d, s>> \in lockOverride
      /\ OverrideApplies(d, NoSlot) <=> <<d, NoSlot>> \in lockOverride
  BY DEF OverrideApplies
<1>4. d > today <=> ~(d <= today)
  BY <1>1
<1> QED
  BY <1>2, <1>3, <1>4 DEF ScheduleLocked, EmergencyOpen, CellUnlocked, DateUnlocked

\* A bookable cell is a slot the create handler takes from an administrator who
\* overrides nothing, and the cell the board labels AVAILABLE.
LEMMA CellsAgree ==
    ASSUME TablesOK, QueueHasNoSlot, NEW d \in Int, NEW s \in Slots
    PROVE  /\ \A t \in Tenants : tenant[t].active =>
                (CellBookable(d, s) <=> CreateAllowed(Owner, t, d, s, FALSE, FALSE))
           /\ CellBookable(d, s) <=> SlotState(d, s) = "AVAILABLE"
           /\ CellBookable(d, s) => SlotExists(s) /\ IsDeploymentWeekday(d) /\ d > today
<1>1. SlotBookable(d, s) => SlotExists(s) /\ IsDeploymentWeekday(d) /\ d \notin holiday
  BY DEF SlotBookable, SlotExists
<1>2. CellOpen(d, s) <=> /\ ~ScheduleLocked(d, s)
                         /\ SlotBookable(d, s)
                         /\ ~ManuallyFrozen(d, s)
  BY <1>1, BoardLocksAgree DEF CellOpen
<1>3. CellBookable(d, s) <=> NormalSlotOpen(d, s, SlotTaken(d, s, NoBooking))
  BY <1>1, <1>2, CellHolders DEF CellBookable, NormalSlotOpen
<1>4. ASSUME NEW t \in Tenants, tenant[t].active
      PROVE  CreateAllowed(Owner, t, d, s, FALSE, FALSE)
               <=> NormalSlotOpen(d, s, SlotTaken(d, s, NoBooking))
  BY <1>4 DEF CreateAllowed, TenantAllowed, ValidSlotTarget, WithinWeeklyLimit, Admins,
              NormalSlotOpen
<1>5. CellBookable(d, s) <=> SlotState(d, s) = "AVAILABLE"
  <2>1. CellOpen(d, s) => SlotBookable(d, s)
    BY DEF CellOpen
  <2> QED
    BY <1>1, <2>1 DEF SlotState, CellBookable
<1>6. CellOpen(d, s) => d > today
  BY DEF CellOpen
<1> QED
  BY <1>1, <1>2, <1>3, <1>4, <1>5, <1>6 DEF CellBookable

\* The cells that take a booking are those of the total that hold none.
LEMMA AvailableIsCounted ==
    ASSUME NEW w \in Int
    PROVE  RegularAvailable(w) = Cardinality({c \in Cells(w) : CellBookable(c[1], c[2])})
<1> DEFINE T == {c \in Cells(w) : CellOpen(c[1], c[2]) \/ CellBookings(c[1], c[2]) # {}}
           B == {c \in Cells(w) : CellBookings(c[1], c[2]) # {}}
           O == {c \in Cells(w) : CellBookable(c[1], c[2])}
<1>1. IsFiniteSet(Cells(w))
  <2>1. IsFiniteSet(WeekDays(w))
    BY FS_Interval DEF WeekDays
  <2>2. IsFiniteSet(Slots)
    BY FS_Interval, SizesAssumption DEF Slots
  <2>3. IsFiniteSet(PlanSlots)
    BY <2>2, FS_Subset DEF PlanSlots
  <2> QED
    BY <2>1, <2>3, FS_Product DEF Cells
<1>2. O = T \ B /\ T \cap B = B
  BY DEF CellBookable
<1>3. IsFiniteSet(T) /\ IsFiniteSet(B) /\ IsFiniteSet(O)
  BY <1>1, FS_Subset
<1>4. Cardinality(T) \in Nat /\ Cardinality(B) \in Nat /\ Cardinality(O) \in Nat
  BY <1>3, FS_CardinalityType
<1>5. RegularTotal(w) = Cardinality(T) /\ RegularBooked(w) = Cardinality(B)
  BY DEF RegularTotal, RegularBooked
<1> HIDE DEF T, B, O
<1>6. Cardinality(O) = Cardinality(T) - Cardinality(B)
  <2>1. Cardinality(T \ B) = Cardinality(T) - Cardinality(T \cap B)
    BY <1>3, FS_Difference
  <2> QED
    BY <1>2, <2>1
<1>7. RegularAvailable(w) = Cardinality(O)
  BY <1>4, <1>5, <1>6 DEF RegularAvailable
<1> QED
  BY <1>7 DEF O

\* What the weekly board offers is what would be accepted.
LEMMA BoardFromTables == TablesOK /\ QueueHasNoSlot => BoardOffersWhatIsAccepted
<1> SUFFICES ASSUME TablesOK, QueueHasNoSlot, NEW w \in ShownWeeks
             PROVE  LET open == {c \in Cells(w) : CellBookable(c[1], c[2])}
                        takers == {t \in Tenants : tenant[t].active}
                    IN  /\ \A t \in takers :
                              /\ open = {c \in WeekDays(w) \X Slots :
                                            CreateAllowed(Owner, t, c[1], c[2], FALSE, FALSE)}
                              /\ \A d \in WeekDays(w) :
                                    EmergencyOpen(d)
                                      <=> CreateAllowed(Owner, t, d, NoSlot, TRUE, FALSE)
                        /\ open = {c \in Cells(w) : SlotState(c[1], c[2]) = "AVAILABLE"}
                        /\ RegularAvailable(w) = Cardinality(open)
  BY DEF BoardOffersWhatIsAccepted
<1> DEFINE open == {c \in Cells(w) : CellBookable(c[1], c[2])}
<1>1. w \in Int
  BY WeekStartBounds DEF ShownWeeks, Days
<1>2. \A d \in WeekDays(w) : d \in Int
  BY <1>1 DEF WeekDays
<1>3. open = {c \in WeekDays(w) \X Slots : CellBookable(c[1], c[2])}
  BY <1>2, CellsAgree DEF Cells, PlanSlots
<1>4. ASSUME NEW t \in Tenants, tenant[t].active
      PROVE  /\ open = {c \in WeekDays(w) \X Slots :
                            CreateAllowed(Owner, t, c[1], c[2], FALSE, FALSE)}
             /\ \A d \in WeekDays(w) :
                   EmergencyOpen(d) <=> CreateAllowed(Owner, t, d, NoSlot, TRUE, FALSE)
  <2>1. \A c \in WeekDays(w) \X Slots :
           CellBookable(c[1], c[2]) <=> CreateAllowed(Owner, t, c[1], c[2], FALSE, FALSE)
    BY <1>2, <1>4, CellsAgree
  <2>2. \A d \in WeekDays(w) :
           EmergencyOpen(d) <=> CreateAllowed(Owner, t, d, NoSlot, TRUE, FALSE)
    BY <1>2, <1>4, BoardLocksAgree DEF CreateAllowed, TenantAllowed, Admins
  <2> QED
    BY <1>3, <2>1, <2>2
<1>5. open = {c \in Cells(w) : SlotState(c[1], c[2]) = "AVAILABLE"}
  BY <1>2, CellsAgree DEF Cells, PlanSlots
<1> QED
  BY <1>1, <1>4, <1>5, AvailableIsCounted

\* An upcoming record keeps a cell or a queue to be shown in.
LEMMA ShownFromTables ==
    TablesOK /\ QueueHasNoSlot /\ SlotExclusive /\ BoardKeepsItsSlots
      => EveryUpcomingBookingIsShown
<1> SUFFICES ASSUME TablesOK, QueueHasNoSlot, SlotExclusive, BoardKeepsItsSlots,
                    NEW b \in Bookings, Active(booking[b]), booking[b].day >= today
             PROVE  LET r == booking[b]
                    IN  IF r.emergency THEN b \in DayQueue(r.day)
                        ELSE r.slot \in PlanSlots /\ CellBookings(r.day, r.slot) = {b}
  BY DEF EveryUpcomingBookingIsShown
<1>1. CASE booking[b].emergency
  BY <1>1 DEF DayQueue
<1>2. CASE ~booking[b].emergency
  <2>1. booking[b].slot \in Slots
    BY <1>2, RecordParts DEF QueueHasNoSlot, Active, ActiveStatuses, Exists, Slots, NoSlot
  <2>2. booking[b].slot \in PlanSlots
    BY <1>2, <2>1 DEF BoardKeepsItsSlots, PlanSlots, SlotExists
  <2>3. CellBookings(booking[b].day, booking[b].slot) = {b}
    BY <1>2 DEF CellBookings, SlotExclusive
  <2> QED
    BY <1>2, <2>2, <2>3
<1> QED
  BY <1>1, <1>2

\* The landing week is reached from today over non-deployment days only.
LEMMA LandingDay ==
    ASSUME NEW n \in Int, today = n
    PROVE  \E d \in today .. today+6 :
              /\ LandingWeek = WeekStart(d)
              /\ \A e \in today .. d-1 : ~IsDeploymentWeekday(e)
<1> DEFINE First(d) == /\ IsDeploymentWeekday(d)
                       /\ \A e \in today .. d-1 : ~IsDeploymentWeekday(e)
<1>1. \E d \in today .. today+6 : First(d)
  <2>1. n % 7 \in 0..6
    OBVIOUS
  <2>2. CASE n % 7 \in 0..4
    <3>1. First(n)
      BY <2>2 DEF IsDeploymentWeekday
    <3> QED
      BY <3>1
  <2>3. CASE n % 7 = 5
    <3>1. (n+2) % 7 = 0 /\ (n+1) % 7 = 6
      BY <2>3
    <3>2. First(n+2)
      BY <2>3, <3>1 DEF IsDeploymentWeekday
    <3> QED
      BY <3>2
  <2>4. CASE n % 7 = 6
    <3>1. (n+1) % 7 = 0
      BY <2>4
    <3>2. First(n+1)
      BY <2>4, <3>1 DEF IsDeploymentWeekday
    <3> QED
      BY <3>2
  <2> QED
    BY <2>1, <2>2, <2>3, <2>4
<1> DEFINE d == CHOOSE x \in today .. today+6 : First(x)
<1>2. LandingWeek = WeekStart(d)
  BY DEF LandingWeek
<1>3. d \in today .. today+6 /\ First(d)
  BY <1>1
<1> HIDE DEF d
<1> QED
  BY <1>2, <1>3

\* From whichever earlier day a search starts, it meets the bookable cells from
\* tomorrow on; nothing bookable lies between today and the start it took.
LEMMA SearchedFromTomorrow ==
    ASSUME TablesOK, QueueHasNoSlot, NEW w \in Int, NEW last \in Int,
           \A d \in today+1 .. w-1 : ~IsDeploymentWeekday(d)
    PROVE  FreeFrom(w, last)
             = {c \in (today+1 .. last) \X Slots : CellBookable(c[1], c[2])}
<1>1. today \in Int
  BY DEF TablesOK, Days
<1>2. ASSUME NEW d \in Int, NEW s \in Slots, CellBookable(d, s)
      PROVE  /\ d >= today+1 /\ d >= w
             /\ d \in WeekDays(WeekStart(d)) /\ s \in PlanSlots
  <2>1. SlotExists(s) /\ IsDeploymentWeekday(d) /\ d > today
    BY <1>2, CellsAgree
  <2>2. ~(d < w)
    BY <1>1, <2>1
  <2>3. d \in WeekDays(WeekStart(d))
    BY <2>1, WeekStartBounds
  <2> QED
    BY <1>1, <2>1, <2>2, <2>3 DEF PlanSlots
<1>3. PlanSlots \subseteq Slots
  BY DEF PlanSlots
<1>4. \A x \in w..last : x \in Int
  OBVIOUS
<1>5. \A x \in today+1..last : x \in Int
  BY <1>1
<1>6. ASSUME NEW c \in FreeFrom(w, last)
      PROVE  c \in (today+1 .. last) \X Slots /\ CellBookable(c[1], c[2])
  <2>1. c \in (w .. last) \X PlanSlots /\ CellBookable(c[1], c[2])
    BY <1>6 DEF FreeFrom
  <2> QED
    BY <2>1, <1>1, <1>2, <1>3, <1>4
<1>7. ASSUME NEW c \in (today+1 .. last) \X Slots, CellBookable(c[1], c[2])
      PROVE  c \in FreeFrom(w, last)
  <2>1. c \in (w .. last) \X PlanSlots /\ c[1] \in WeekDays(WeekStart(c[1]))
    BY <1>7, <1>1, <1>2, <1>5
  <2> QED
    BY <2>1, <1>7 DEF FreeFrom
<1> QED
  BY <1>6, <1>7

\* Both searches, and the reader of the rules, look at the same cells.
LEMMA NextSlotFromTables == TablesOK /\ QueueHasNoSlot => NextSlotIsTheFirstAccepted
<1> SUFFICES ASSUME TablesOK, QueueHasNoSlot PROVE NextSlotIsTheFirstAccepted
  OBVIOUS
<1> DEFINE through == today + SearchDays
           free == {c \in (today+1 .. through) \X Slots : CellBookable(c[1], c[2])}
<1>1. today \in Int /\ SearchDays \in Nat /\ SearchDays >= 1 /\ through \in Int
  BY SizesAssumption DEF TablesOK, Days
<1>2. FreeFrom(LandingWeek, through) = free
  <2>1. PICK d \in today .. today+6 :
           /\ LandingWeek = WeekStart(d)
           /\ \A e \in today .. d-1 : ~IsDeploymentWeekday(e)
    BY <1>1, LandingDay
  <2>2. LandingWeek \in Int /\ LandingWeek <= d
    BY <1>1, <2>1, WeekStartBounds
  <2>3. \A e \in today+1 .. LandingWeek-1 : ~IsDeploymentWeekday(e)
    BY <1>1, <2>1, <2>2
  <2> QED
    BY <1>1, <2>2, <2>3, SearchedFromTomorrow
<1>3. {c \in FreeFrom(WeekStart(today+1), through) : c[1] > today} = free
  <2>1. WeekStart(today+1) \in Int /\ WeekStart(today+1) <= today+1
    BY <1>1, WeekStartBounds
  <2>2. \A e \in today+1 .. WeekStart(today+1)-1 : ~IsDeploymentWeekday(e)
    BY <1>1, <2>1
  <2>3. FreeFrom(WeekStart(today+1), through) = free
    BY <1>1, <2>1, <2>2, SearchedFromTomorrow
  <2>4. \A c \in free : c[1] > today
    BY <1>1
  <2> QED
    BY <2>3, <2>4
<1>4. NextAvailableSlot(SearchDays) = Earliest(free)
  <2>1. (IF SearchDays < 1 THEN 1 ELSE SearchDays) = SearchDays
    BY <1>1
  <2> QED
    BY <1>3, <2>1 DEF NextAvailableSlot
<1>5. ASSUME NEW t \in Tenants, tenant[t].active
      PROVE  free = {c \in (today+1 .. through) \X Slots :
                        CreateAllowed(Owner, t, c[1], c[2], FALSE, FALSE)}
  <2>1. \A c \in (today+1 .. through) \X Slots :
           CellBookable(c[1], c[2]) <=> CreateAllowed(Owner, t, c[1], c[2], FALSE, FALSE)
    <3>1. \A c \in (today+1 .. through) \X Slots : c[1] \in Int /\ c[2] \in Slots
      BY <1>1
    <3> QED
      BY <1>5, <3>1, CellsAgree
  <2> QED
    BY <2>1
<1> QED
  BY <1>2, <1>4, <1>5 DEF NextSlotIsTheFirstAccepted, LandingSlot

(***************************************************************************)
(* Rows in order                                                           *)
(***************************************************************************)

StrictOrder(R, S) ==
    /\ \A x \in S : <<x, x>> \notin R
    /\ \A x, y, z \in S : <<x, y>> \in R /\ <<y, z>> \in R => <<x, z>> \in R
    /\ \A x, y \in S : x = y \/ <<x, y>> \in R \/ <<y, x>> \in R

Below(R, S, x) == {y \in S : <<y, x>> \in R}

\* There are n numbers from 1 to n.
LEMMA OneTo ==
    ASSUME NEW n \in Nat
    PROVE  IsFiniteSet(1..n) /\ Cardinality(1..n) = n
<1>1. 1 \in Int /\ n \in Int
  OBVIOUS
<1>2. IsFiniteSet(1..n) /\ Cardinality(1..n) = IF 1 > n THEN 0 ELSE n-1+1
  BY <1>1, FS_Interval, Zenon
<1> QED
  BY <1>2

\* In a finite ordered set every element has fewer elements below it than the set,
\* more than any element below it, and every such number of them is that of one.
LEMMA RanksAreAll ==
    ASSUME NEW S, IsFiniteSet(S), NEW R, StrictOrder(R, S)
    PROVE  /\ Cardinality(S) \in Nat
           /\ \A x, y \in S : <<x, y>> \in R =>
                 Cardinality(Below(R, S, x)) < Cardinality(Below(R, S, y))
           /\ \A i \in 1..Cardinality(S) :
                 \E x \in S : Cardinality(Below(R, S, x)) = i-1
<1> DEFINE n == Cardinality(S)
           rank == [x \in S |-> Cardinality(Below(R, S, x)) + 1]
<1>1. n \in Nat
  BY FS_CardinalityType
<1>2. ASSUME NEW x \in S
      PROVE  IsFiniteSet(Below(R, S, x)) /\ Cardinality(Below(R, S, x)) \in 0..n-1
  <2>1. Below(R, S, x) \subseteq S /\ x \notin Below(R, S, x)
    BY DEF Below, StrictOrder
  <2>2. IsFiniteSet(Below(R, S, x)) /\ Cardinality(Below(R, S, x)) <= n
        /\ (n = Cardinality(Below(R, S, x)) => S = Below(R, S, x))
    BY <2>1, FS_Subset
  <2>3. Cardinality(Below(R, S, x)) \in Nat
    BY <2>2, FS_CardinalityType
  <2> QED
    BY <1>1, <2>1, <2>2, <2>3
<1>3. ASSUME NEW x \in S, NEW y \in S, <<x, y>> \in R
      PROVE  Cardinality(Below(R, S, x)) < Cardinality(Below(R, S, y))
  <2>1. Below(R, S, x) \subseteq Below(R, S, y) /\ x \in Below(R, S, y) /\ x \notin Below(R, S, x)
    BY <1>3 DEF Below, StrictOrder
  <2>2. Cardinality(Below(R, S, x)) <= Cardinality(Below(R, S, y))
        /\ (Cardinality(Below(R, S, y)) = Cardinality(Below(R, S, x))
               => Below(R, S, y) = Below(R, S, x))
    BY <1>2, <2>1, FS_Subset
  <2> QED
    BY <1>2, <2>1, <2>2
<1>4. rank \in [S -> 1..n]
  BY <1>1, <1>2
<1>5. \A x, y \in S : rank[x] = rank[y] => x = y
  <2> SUFFICES ASSUME NEW x \in S, NEW y \in S, rank[x] = rank[y] PROVE x = y
    OBVIOUS
  <2>1. Cardinality(Below(R, S, x)) = Cardinality(Below(R, S, y))
    BY <1>1, <1>2
  <2>2. <<x, y>> \notin R /\ <<y, x>> \notin R
    BY <1>1, <1>2, <1>3, <2>1
  <2> QED
    BY <2>2 DEF StrictOrder
<1>6. rank \in Injection(S, 1..n)
  BY <1>4, <1>5 DEF Injection, IsInjective
<1>7. IsFiniteSet(1..n) /\ Cardinality(1..n) = n
  BY <1>1, OneTo
<1>8. rank \in Surjection(S, 1..n)
  BY <1>6, <1>7, FS_Injection
<1>9. \A i \in 1..n : \E x \in S : rank[x] = i
  BY <1>8 DEF Surjection
<1>10. ASSUME NEW i \in 1..n
       PROVE  \E x \in S : Cardinality(Below(R, S, x)) = i-1
  <2>1. PICK x \in S : rank[x] = i
    BY <1>9
  <2> QED
    BY <1>1, <1>2, <2>1
<1> QED
  BY <1>1, <1>3, <1>10

\* A sequence that holds every element of S once, in the order R.
Lists(seq, S, R) ==
    /\ seq \in [1..Cardinality(S) -> S]
    /\ \A x \in S : \E i \in 1..Cardinality(S) : seq[i] = x
    /\ \A i, j \in 1..Cardinality(S) : i < j => <<seq[i], seq[j]>> \in R

LEMMA RanksInOrder ==
    ASSUME NEW S, IsFiniteSet(S), NEW R, StrictOrder(R, S),
           NEW seq \in [1..Cardinality(S) -> S],
           \A i \in 1..Cardinality(S) : Cardinality(Below(R, S, seq[i])) = i-1
    PROVE  Lists(seq, S, R)
<1> DEFINE n == Cardinality(S)
<1>1. n \in Nat
  BY FS_CardinalityType
<1>2. ASSUME NEW i \in 1..n, NEW j \in 1..n, i < j PROVE <<seq[i], seq[j]>> \in R
  <2> DEFINE rank(x) == Cardinality(Below(R, S, x))
  <2>1. \A x, y \in S : <<x, y>> \in R => rank(x) < rank(y)
    BY RanksAreAll
  <2>2. seq[i] \in S /\ seq[j] \in S /\ rank(seq[i]) = i-1 /\ rank(seq[j]) = j-1
    OBVIOUS
  <2> HIDE DEF rank
  <2>3. seq[i] # seq[j] /\ <<seq[j], seq[i]>> \notin R
    BY <1>1, <1>2, <2>1, <2>2
  <2> QED
    BY <2>2, <2>3 DEF StrictOrder
<1>3. \A i, j \in 1..n : seq[i] = seq[j] => i = j
  BY <1>1, <1>2 DEF StrictOrder
<1>4. seq \in Injection(1..n, S)
  BY <1>3 DEF Injection, IsInjective
<1>5. Cardinality(1..n) = n
  BY <1>1, OneTo
<1>6. seq \in Surjection(1..n, S)
  BY <1>4, <1>5, FS_Injection
<1> QED
  BY <1>2, <1>6 DEF Lists, Surjection

\* The relation of an order on bookings that does not change in a step.
NewerPairs == {p \in Bookings \X Bookings : NewerFirst(p[1], p[2])}
EarlierPairs == {p \in Bookings \X Bookings : EarlierFirst(p[1], p[2])}
NumberPairs(n) == {p \in (1..n) \X (1..n) : Precedes(p[1], p[2])}

LEMMA NewerInOrder ==
    ASSUME TablesOK, NEW S \in SUBSET Bookings
    PROVE  Lists(InOrder(S, NewerFirst), S, NewerPairs)
<1> DEFINE seq == InOrder(S, NewerFirst)
           R == NewerPairs
<1>1. IsFiniteSet(S)
  BY SizesAssumption, FS_Subset
<1>2. \A b \in Bookings : b \in Int /\ booking[b].day \in Int
  BY SizesAssumption DEF TablesOK, RecordsOK, Row, Days
<1>3. StrictOrder(R, S)
  BY <1>2 DEF StrictOrder, NewerPairs, NewerFirst
<1>4. \A x \in S : Below(R, S, x) = {y \in S : NewerFirst(y, x)}
  BY DEF Below, NewerPairs
<1>5. \A i \in 1..Cardinality(S) :
         \E x \in S : Cardinality({y \in S : NewerFirst(y, x)}) = i-1
  <2> TAKE i \in 1..Cardinality(S)
  <2>1. PICK x \in S : Cardinality(Below(R, S, x)) = i-1
    BY <1>1, <1>3, RanksAreAll
  <2>2. Below(R, S, x) = {y \in S : NewerFirst(y, x)}
    BY <1>4
  <2> QED
    BY <2>1, <2>2
<1>6. /\ seq \in [1..Cardinality(S) -> S]
      /\ \A i \in 1..Cardinality(S) : Cardinality({y \in S : NewerFirst(y, seq[i])}) = i-1
  <2> DEFINE P(i, x) == Cardinality({y \in S : NewerFirst(y, x)}) = i-1
             pick(i) == CHOOSE x \in S : P(i, x)
  <2>1. seq = [i \in 1..Cardinality(S) |-> pick(i)]
    BY DEF InOrder
  <2>2. \A i \in 1..Cardinality(S) : \E x \in S : P(i, x)
    BY <1>5
  <2> HIDE DEF P
  <2>3. \A i \in 1..Cardinality(S) : pick(i) \in S /\ P(i, pick(i))
    BY <2>2
  <2> HIDE DEF pick, seq
  <2>4. \A i \in 1..Cardinality(S) : seq[i] \in S /\ P(i, seq[i])
    BY <2>1, <2>3
  <2> QED
    BY <2>1, <2>4 DEF P
<1>7. \A i \in 1..Cardinality(S) : Cardinality(Below(R, S, seq[i])) = i-1
  BY <1>4, <1>6
<1> HIDE DEF seq, R
<1> QED
  BY <1>1, <1>3, <1>6, <1>7, RanksInOrder DEF seq, R
LEMMA EarlierInOrder ==
    ASSUME TablesOK, NEW S \in SUBSET Bookings
    PROVE  Lists(InOrder(S, EarlierFirst), S, EarlierPairs)
<1> DEFINE seq == InOrder(S, EarlierFirst)
           R == EarlierPairs
<1>1. IsFiniteSet(S)
  BY SizesAssumption, FS_Subset
<1>2. \A b \in Bookings : b \in Int /\ booking[b].day \in Int /\ booking[b].slot \in Int
  BY SizesAssumption DEF TablesOK, RecordsOK, Row, Days
<1>3. StrictOrder(R, S)
  BY <1>2 DEF StrictOrder, EarlierPairs, EarlierFirst
<1>4. \A x \in S : Below(R, S, x) = {y \in S : EarlierFirst(y, x)}
  BY DEF Below, EarlierPairs
<1>5. \A i \in 1..Cardinality(S) :
         \E x \in S : Cardinality({y \in S : EarlierFirst(y, x)}) = i-1
  <2> TAKE i \in 1..Cardinality(S)
  <2>1. PICK x \in S : Cardinality(Below(R, S, x)) = i-1
    BY <1>1, <1>3, RanksAreAll
  <2>2. Below(R, S, x) = {y \in S : EarlierFirst(y, x)}
    BY <1>4
  <2> QED
    BY <2>1, <2>2
<1>6. /\ seq \in [1..Cardinality(S) -> S]
      /\ \A i \in 1..Cardinality(S) : Cardinality({y \in S : EarlierFirst(y, seq[i])}) = i-1
  <2> DEFINE P(i, x) == Cardinality({y \in S : EarlierFirst(y, x)}) = i-1
             pick(i) == CHOOSE x \in S : P(i, x)
  <2>1. seq = [i \in 1..Cardinality(S) |-> pick(i)]
    BY DEF InOrder
  <2>2. \A i \in 1..Cardinality(S) : \E x \in S : P(i, x)
    BY <1>5
  <2> HIDE DEF P
  <2>3. \A i \in 1..Cardinality(S) : pick(i) \in S /\ P(i, pick(i))
    BY <2>2
  <2> HIDE DEF pick, seq
  <2>4. \A i \in 1..Cardinality(S) : seq[i] \in S /\ P(i, seq[i])
    BY <2>1, <2>3
  <2> QED
    BY <2>1, <2>4 DEF P
<1>7. \A i \in 1..Cardinality(S) : Cardinality(Below(R, S, seq[i])) = i-1
  BY <1>4, <1>6
<1> HIDE DEF seq, R
<1> QED
  BY <1>1, <1>3, <1>6, <1>7, RanksInOrder DEF seq, R
LEMMA NumbersInOrder ==
    ASSUME NEW n \in Nat, NEW S \in SUBSET (1..n)
    PROVE  Lists(InOrder(S, Precedes), S, NumberPairs(n))
<1> DEFINE seq == InOrder(S, Precedes)
           R == NumberPairs(n)
<1>1. IsFiniteSet(S)
  BY OneTo, FS_Subset
<1>2. S \subseteq Int
  OBVIOUS
<1>3. StrictOrder(R, S)
  BY <1>2 DEF StrictOrder, NumberPairs, Precedes
<1>4. \A x \in S : Below(R, S, x) = {y \in S : Precedes(y, x)}
  BY DEF Below, NumberPairs
<1>5. \A i \in 1..Cardinality(S) :
         \E x \in S : Cardinality({y \in S : Precedes(y, x)}) = i-1
  <2> TAKE i \in 1..Cardinality(S)
  <2>1. PICK x \in S : Cardinality(Below(R, S, x)) = i-1
    BY <1>1, <1>3, RanksAreAll
  <2>2. Below(R, S, x) = {y \in S : Precedes(y, x)}
    BY <1>4
  <2> QED
    BY <2>1, <2>2
<1>6. /\ seq \in [1..Cardinality(S) -> S]
      /\ \A i \in 1..Cardinality(S) : Cardinality({y \in S : Precedes(y, seq[i])}) = i-1
  <2> DEFINE P(i, x) == Cardinality({y \in S : Precedes(y, x)}) = i-1
             pick(i) == CHOOSE x \in S : P(i, x)
  <2>1. seq = [i \in 1..Cardinality(S) |-> pick(i)]
    BY DEF InOrder
  <2>2. \A i \in 1..Cardinality(S) : \E x \in S : P(i, x)
    BY <1>5
  <2> HIDE DEF P
  <2>3. \A i \in 1..Cardinality(S) : pick(i) \in S /\ P(i, pick(i))
    BY <2>2
  <2> HIDE DEF pick, seq
  <2>4. \A i \in 1..Cardinality(S) : seq[i] \in S /\ P(i, seq[i])
    BY <2>1, <2>3
  <2> QED
    BY <2>1, <2>4 DEF P
<1>7. \A i \in 1..Cardinality(S) : Cardinality(Below(R, S, seq[i])) = i-1
  BY <1>4, <1>6
<1> HIDE DEF seq, R
<1> QED
  BY <1>1, <1>3, <1>6, <1>7, RanksInOrder DEF seq, R

\* What SubSeq leaves of a list.
LEMMA FirstRows ==
    ASSUME NEW S, NEW n \in Nat, NEW seq \in [1..n -> S], NEW limit \in Nat
    PROVE  LET m == IF n < limit THEN n ELSE limit
               page == SubSeq(seq, 1, IF Len(seq) < limit THEN Len(seq) ELSE limit)
           IN  page \in Seq(S) /\ Len(page) = m /\ \A i \in 1..m : page[i] = seq[i]
<1>1. seq \in Seq(S) /\ Len(seq) = n
  OBVIOUS
<1> QED
  BY <1>1

\* The first rows of a list, limit of them: a row that is left out is after each of
\* them.
LEMMA FirstOfList ==
    ASSUME NEW S, NEW R, NEW seq, Lists(seq, S, R), Cardinality(S) \in Nat, NEW limit \in Nat
    PROVE  LET n == Cardinality(S)
               page == SubSeq(seq, 1, IF Len(seq) < limit THEN Len(seq) ELSE limit)
           IN  /\ page \in Seq(S) /\ Len(page) = IF n < limit THEN n ELSE limit
               /\ \A i, j \in DOMAIN page : i < j => <<page[i], page[j]>> \in R
               /\ \A b \in S : (\E i \in DOMAIN page : page[i] = b)
                               \/ (limit < n /\ \A i \in DOMAIN page : <<page[i], b>> \in R)
<1> DEFINE n == Cardinality(S)
           m == IF n < limit THEN n ELSE limit
           page == SubSeq(seq, 1, IF Len(seq) < limit THEN Len(seq) ELSE limit)
<1>1. seq \in [1..n -> S] /\ n \in Nat
  BY DEF Lists
<1>2. /\ \A i, j \in 1..n : i < j => <<seq[i], seq[j]>> \in R
      /\ \A b \in S : \E k \in 1..n : seq[k] = b
  BY DEF Lists
<1> HIDE DEF n
<1>3. page \in Seq(S) /\ Len(page) = m /\ \A i \in 1..m : page[i] = seq[i]
  BY <1>1, FirstRows
<1> HIDE DEF page
<1>4. DOMAIN page = 1..m /\ m \in Nat /\ m <= n
  BY <1>1, <1>3
<1>5. ASSUME NEW b \in S
      PROVE  (\E i \in DOMAIN page : page[i] = b)
             \/ (limit < n /\ \A i \in DOMAIN page : <<page[i], b>> \in R)
  <2>1. PICK k \in 1..n : seq[k] = b
    BY <1>2
  <2>2. CASE k <= m
    BY <1>3, <1>4, <2>1, <2>2
  <2>3. CASE k > m
    BY <1>1, <1>2, <1>3, <1>4, <2>1, <2>3
  <2> QED
    BY <1>1, <1>4, <2>1, <2>2, <2>3
<1>6. \A i, j \in DOMAIN page : i < j => <<page[i], page[j]>> \in R
  BY <1>1, <1>2, <1>3, <1>4
<1> QED
  BY <1>3, <1>5, <1>6 DEF n, page

\* A set of numbers from 1 to n has a least and a greatest one.
LEMMA LeastAndGreatest ==
    ASSUME NEW n \in Nat, NEW S \in SUBSET (1..n), S # {}
    PROVE  (\E i \in S : \A j \in S : i <= j) /\ (\E i \in S : \A j \in S : j <= i)
<1> DEFINE k == Cardinality(S)
           seq == InOrder(S, Precedes)
<1>1. IsFiniteSet(S)
  BY OneTo, FS_Subset
<1>2. k \in Nat /\ k # 0
  BY <1>1, FS_CardinalityType, FS_EmptySet
<1>3. /\ seq \in [1..k -> S]
      /\ \A x \in S : \E i \in 1..k : seq[i] = x
      /\ \A i, j \in 1..k : i < j => seq[i] < seq[j]
  <2>1. Lists(seq, S, NumberPairs(n))
    BY NumbersInOrder
  <2> QED
    BY <2>1 DEF Lists, NumberPairs, Precedes
<1> HIDE DEF k, seq
<1>0. \A x \in S : x \in Int
  OBVIOUS
<1>4. 1 \in 1..k /\ k \in 1..k /\ seq[1] \in S /\ seq[k] \in S
  BY <1>2, <1>3
<1>5. ASSUME NEW j \in S PROVE seq[1] <= j /\ j <= seq[k]
  <2>1. PICK i \in 1..k : seq[i] = j
    BY <1>3
  <2>2. seq[1] \in Int /\ j \in Int /\ seq[k] \in Int
    BY <1>0, <1>4
  <2>3. (i = 1 \/ seq[1] < seq[i]) /\ (i = k \/ seq[i] < seq[k])
    BY <1>2, <1>3, <1>4
  <2> QED
    BY <2>1, <2>2, <2>3
<1> QED
  BY <1>4, <1>5

(***************************************************************************)
(* The pages of the history                                                *)
(***************************************************************************)

\* The rows a page is cut from.
Listed(t, w, cursor) == {b \in Bookings : Matches(b, t, w) /\ BehindCursor(b, cursor)}

Times(seq, b) == Cardinality({i \in DOMAIN seq : seq[i] = b})

\* A row is on a sequence once when it stands at one place of it.
LEMMA TimesOnce ==
    ASSUME NEW seq, NEW b
    PROVE  /\ (\E i \in DOMAIN seq : seq[i] = b /\ \A j \in DOMAIN seq : seq[j] = b => j = i)
                  => Times(seq, b) = 1
           /\ (\A i \in DOMAIN seq : seq[i] # b) => Times(seq, b) = 0
<1>1. ASSUME NEW i \in DOMAIN seq, seq[i] = b, \A j \in DOMAIN seq : seq[j] = b => j = i
      PROVE  Times(seq, b) = 1
  <2>1. {j \in DOMAIN seq : seq[j] = b} = {i}
    BY <1>1
  <2> QED
    BY <2>1, FS_Singleton DEF Times
<1>2. ASSUME \A i \in DOMAIN seq : seq[i] # b
      PROVE  Times(seq, b) = 0
  <2>1. {j \in DOMAIN seq : seq[j] = b} = {}
    BY <1>2
  <2> QED
    BY <2>1, FS_EmptySet DEF Times
<1> QED
  BY <1>1, <1>2

\* A page in one state: the rows behind the cursor, newest first, limit of them.
LEMMA HistoryRows ==
    ASSUME TablesOK, NEW t, NEW w, NEW cursor, NEW limit \in Nat
    PROVE  LET S == Listed(t, w, cursor)
               n == Cardinality(S)
               page == History(t, w, cursor, limit)
           IN  /\ n \in Nat
               /\ page \in Seq(S) /\ Len(page) = IF n < limit THEN n ELSE limit
               /\ \A i, j \in DOMAIN page : i < j => NewerFirst(page[i], page[j])
               /\ \A b \in S : (\E i \in DOMAIN page : page[i] = b)
                               \/ (limit < n /\ \A i \in DOMAIN page : NewerFirst(page[i], b))
<1> DEFINE S == Listed(t, w, cursor)
           n == Cardinality(S)
           rows == InOrder(S, NewerFirst)
           page == History(t, w, cursor, limit)
<1>1. S \in SUBSET Bookings
  BY DEF Listed
<1>2. n \in Nat
  BY <1>1, SizesAssumption, FS_Subset, FS_CardinalityType
<1>3. Lists(rows, S, NewerPairs)
  BY <1>1, NewerInOrder
<1>4. page = SubSeq(rows, 1, IF Len(rows) < limit THEN Len(rows) ELSE limit)
  BY DEF History, Listed
<1> HIDE DEF S, rows, page
<1>5. /\ page \in Seq(S) /\ Len(page) = IF n < limit THEN n ELSE limit
      /\ \A i, j \in DOMAIN page : i < j => <<page[i], page[j]>> \in NewerPairs
      /\ \A b \in S : (\E i \in DOMAIN page : page[i] = b)
                      \/ (limit < n /\ \A i \in DOMAIN page : <<page[i], b>> \in NewerPairs)
  BY <1>2, <1>3, <1>4, FirstOfList
<1>6. \A b, c : <<b, c>> \in NewerPairs => NewerFirst(b, c)
  BY DEF NewerPairs
<1> HIDE DEF n
<1> QED
  BY <1>2, <1>5, <1>6 DEF n, S, page

\* A page with room for every row has each row behind its cursor once, no other.
CompletePages ==
    \A days, from, to, cursor : \A b \in Bookings :
        LET w == Window(days, from, to)
        IN  Times(History(AnyTenant, w, cursor, Cardinality(Bookings)), b)
              = IF Matches(b, AnyTenant, w) /\ BehindCursor(b, cursor) THEN 1 ELSE 0

LEMMA PagesAreComplete == TablesOK => CompletePages
<1> SUFFICES ASSUME TablesOK, NEW w, NEW cursor, NEW b \in Bookings
             PROVE  Times(History(AnyTenant, w, cursor, Cardinality(Bookings)), b)
                      = IF Matches(b, AnyTenant, w) /\ BehindCursor(b, cursor) THEN 1 ELSE 0
  BY DEF CompletePages
<1> DEFINE S == Listed(AnyTenant, w, cursor)
           page == History(AnyTenant, w, cursor, Cardinality(Bookings))
<1>1. Cardinality(Bookings) \in Nat /\ Cardinality(S) \in Nat
      /\ Cardinality(S) <= Cardinality(Bookings)
  BY SizesAssumption, FS_Subset, FS_CardinalityType DEF Listed
<1>2. /\ page \in Seq(S) /\ Len(page) = Cardinality(S)
      /\ \A i, j \in DOMAIN page : i < j => NewerFirst(page[i], page[j])
      /\ \A c \in S : \E i \in DOMAIN page : page[i] = c
  BY <1>1, HistoryRows
<1> HIDE DEF page
<1>3. \A c \in Bookings : c \in Int /\ booking[c].day \in Int
  BY SizesAssumption DEF TablesOK, RecordsOK, Row, Days
<1>4. S \subseteq Bookings /\ (b \in S <=> Matches(b, AnyTenant, w) /\ BehindCursor(b, cursor))
  BY DEF Listed
<1> HIDE DEF S
<1>5. DOMAIN page = 1..Len(page) /\ Len(page) \in Nat /\ \A i \in DOMAIN page : page[i] \in S
  BY <1>2
<1>6. \A c \in S : ~NewerFirst(c, c)
  BY <1>3, <1>4 DEF NewerFirst
<1>7. \A i, j \in DOMAIN page : page[i] = page[j] => i = j
  <2> SUFFICES ASSUME NEW i \in DOMAIN page, NEW j \in DOMAIN page, page[i] = page[j], i # j
               PROVE  FALSE
    OBVIOUS
  <2>1. i < j \/ j < i
    BY <1>5
  <2>2. NewerFirst(page[i], page[j]) \/ NewerFirst(page[j], page[i])
    BY <1>2, <2>1
  <2> QED
    BY <1>5, <1>6, <2>2
<1>8. CASE b \in S
  <2>1. PICK i \in DOMAIN page : page[i] = b
    BY <1>2, <1>8
  <2>2. \A j \in DOMAIN page : page[j] = b => j = i
    BY <1>7, <2>1
  <2> QED
    BY <1>4, <1>8, <2>1, <2>2, TimesOnce DEF page
<1>9. CASE b \notin S
  BY <1>4, <1>5, <1>9, TimesOnce DEF page
<1> QED
  BY <1>8, <1>9

\* What a page and the rest of the history say of one schedule.
LEMMA PageStep ==
    ASSUME TablesOK, CompletePages', NEW days, NEW from, NEW to, NEW cursor, NEW b \in Bookings,
           LET w == Window(days, from, to)
               page == History(AnyTenant, w, NoCursor, 1)
           IN  /\ Len(page) = 1
               /\ cursor = CursorOf(Last(page))
               /\ Matches(b, AnyTenant, w) /\ Matches(b, AnyTenant, w)'
               /\ booking'[b].day = booking[b].day
    PROVE  LET w == Window(days, from, to)
               page == History(AnyTenant, w, NoCursor, 1)
               rest == History(AnyTenant, w, cursor, Cardinality(Bookings))'
           IN  Times(page, b) + Times(rest, b) = 1
<1> DEFINE w == Window(days, from, to)
           page == History(AnyTenant, w, NoCursor, 1)
           rest == History(AnyTenant, w, cursor, Cardinality(Bookings))'
           S == Listed(AnyTenant, w, NoCursor)
<1>1. /\ page \in Seq(S)
      /\ b \in S => (\E i \in DOMAIN page : page[i] = b) \/ \A i \in DOMAIN page : NewerFirst(page[i], b)
  BY HistoryRows
<1>2. Times(rest, b) = IF Matches(b, AnyTenant, w)' /\ BehindCursor(b, cursor)' THEN 1 ELSE 0
  BY DEF CompletePages
<1>3. b \in S
  BY DEF Listed, BehindCursor
<1>4. S \subseteq Bookings
  BY DEF Listed
<1>5. cursor = CursorOf(page[1]) /\ DOMAIN page = {1} /\ page[1] \in Bookings
  BY <1>1, <1>4 DEF Last
<1> HIDE DEF w, page, rest, S
<1>6. \A c \in Bookings : c \in Int /\ c # NoBound /\ booking[c].day \in Int
  BY SizesAssumption DEF TablesOK, RecordsOK, Row, Days, NoBound
<1>7. BehindCursor(b, cursor)' <=> NewerFirst(page[1], b)
  BY <1>5, <1>6 DEF BehindCursor, NewerFirst, CursorOf, NoCursor
<1>8. Times(page, b) = IF page[1] = b THEN 1 ELSE 0
  <2>1. CASE page[1] = b
    BY <1>5, <2>1, TimesOnce
  <2>2. CASE page[1] # b
    BY <1>5, <2>2, TimesOnce
  <2> QED
    BY <2>1, <2>2
<1>9. page[1] = b \/ NewerFirst(page[1], b)
  BY <1>1, <1>3, <1>5
<1>10. ~NewerFirst(b, b)
  BY <1>6 DEF NewerFirst
<1> QED
  BY <1>2, <1>7, <1>8, <1>9, <1>10 DEF w, page, rest

\* In every step between two states of the right types.
LEMMA StepShowsWhatStayed == TablesOK /\ CompletePages' => ShowsWhatStayed
<1> SUFFICES ASSUME TablesOK, CompletePages',
                    NEW q \in Questions, NEW cursor, NEW b \in Bookings,
                    LET w == Window(q[1], q[2], q[3])
                        page == History(AnyTenant, w, NoCursor, 1)
                    IN  /\ Len(page) = 1
                        /\ cursor = CursorOf(Last(page))
                        /\ Matches(b, AnyTenant, w) /\ Matches(b, AnyTenant, w)'
                        /\ booking'[b].day = booking[b].day
             PROVE  LET w == Window(q[1], q[2], q[3])
                        page == History(AnyTenant, w, NoCursor, 1)
                        rest == History(AnyTenant, w, cursor, Cardinality(Bookings))'
                    IN  Cardinality({i \in DOMAIN page : page[i] = b})
                        + Cardinality({i \in DOMAIN rest : rest[i] = b}) = 1
  BY DEF ShowsWhatStayed
<1> QED
  BY PageStep DEF Times

(***************************************************************************)
(* The groups of a tenant's upcoming schedules                             *)
(***************************************************************************)

\* Rows of Bookings with ascending weeks, as the list of a tenant is.
AscendingWeeks(rows) ==
    /\ rows \in Seq(Bookings)
    /\ \A i \in 1..Len(rows) : WeekOf(rows[i]) \in Int
    /\ \A i, j \in 1..Len(rows) : i < j => WeekOf(rows[i]) <= WeekOf(rows[j])

Openings(rows) == {i \in DOMAIN rows : Opens(rows, i)}
FirstRow(rows) == InOrder(Openings(rows), Precedes)
LastRow(rows, k) ==
    IF k = Len(FirstRow(rows)) THEN Len(rows) ELSE FirstRow(rows)[k+1] - 1

\* The openings are in order, and a group is not empty.
LEMMA GroupBounds ==
    ASSUME NEW rows, AscendingWeeks(rows)
    PROVE  LET first == FirstRow(rows)
               groups == Cardinality(Openings(rows))
           IN  /\ Len(rows) \in Nat /\ DOMAIN rows = 1..Len(rows)
               /\ groups \in Nat /\ Len(first) = groups /\ DOMAIN first = 1..groups
               /\ \A k \in 1..groups : first[k] \in Openings(rows) /\ first[k] \in 1..Len(rows)
               /\ \A i \in Openings(rows) : \E k \in 1..groups : first[k] = i
               /\ \A k, l \in 1..groups : k < l => first[k] < first[l]
               /\ \A k \in 1..groups : /\ LastRow(rows, k) \in first[k] .. Len(rows)
                                       /\ \A l \in 1..groups : k < l => LastRow(rows, k) < first[l]
<1> DEFINE n == Len(rows)
           O == Openings(rows)
           first == FirstRow(rows)
           m == Cardinality(O)
<1>1. n \in Nat /\ DOMAIN rows = 1..n /\ O \in SUBSET (1..n)
  BY DEF AscendingWeeks, Openings
<1>2. m \in Nat
  BY <1>1, OneTo, FS_Subset, FS_CardinalityType
<1>3. /\ first \in [1..m -> O]
      /\ \A i \in O : \E k \in 1..m : first[k] = i
      /\ \A k, l \in 1..m : k < l => first[k] < first[l]
  <2>1. Lists(first, O, NumberPairs(n))
    BY <1>1, NumbersInOrder DEF FirstRow
  <2> QED
    BY <2>1 DEF Lists, NumberPairs, Precedes
<1>4. Len(first) = m
  <2> HIDE DEF m, first
  <2> QED
    BY <1>2, <1>3
<1>5. ASSUME NEW k \in 1..m
      PROVE  /\ LastRow(rows, k) \in first[k] .. n
             /\ \A l \in 1..m : k < l => LastRow(rows, k) < first[l]
  <2>1. LastRow(rows, k) = IF k = m THEN n ELSE first[k+1] - 1
    BY <1>4 DEF LastRow
  <2> HIDE DEF m, n, first, O
  <2>2. \A l \in 1..m : first[l] \in 1..n
    BY <1>1, <1>3
  <2>3. CASE k = m
    <3>1. first[k] \in 1..n /\ LastRow(rows, k) = n
      BY <2>1, <2>2, <2>3
    <3> QED
      BY <1>1, <1>2, <2>3, <3>1
  <2>4. CASE k # m
    <3>1. k+1 \in 1..m
      BY <1>2, <2>4
    <3>2. first[k] \in 1..n /\ first[k+1] \in 1..n /\ first[k] < first[k+1]
      BY <1>3, <2>2, <3>1
    <3>3. ASSUME NEW l \in 1..m, k < l PROVE first[k+1] <= first[l]
      <4>1. l = k+1 \/ k+1 < l
        BY <3>3
      <4> QED
        BY <1>3, <2>2, <3>1, <4>1
    <3>4. LastRow(rows, k) = first[k+1] - 1
      BY <2>1, <2>4
    <3>5. LastRow(rows, k) \in first[k] .. n
      BY <1>1, <3>2, <3>4
    <3>6. ASSUME NEW l \in 1..m, k < l PROVE LastRow(rows, k) < first[l]
      BY <2>2, <3>2, <3>3, <3>4, <3>6
    <3> QED
      BY <3>5, <3>6
  <2> QED
    BY <2>3, <2>4
<1>6. \A k \in 1..m : first[k] \in O /\ first[k] \in 1..n
  BY <1>1, <1>3
<1>7. DOMAIN first = 1..m
  BY <1>3
<1> HIDE DEF m, first, O, n
<1> QED
  BY <1>1, <1>2, <1>3, <1>4, <1>5, <1>6, <1>7 DEF m, first, O, n

\* The rows of a group are of one week.
LEMMA GroupOfOneWeek ==
    ASSUME NEW rows, AscendingWeeks(rows), NEW k \in 1..Cardinality(Openings(rows)),
           NEW i \in FirstRow(rows)[k] .. LastRow(rows, k)
    PROVE  WeekOf(rows[i]) = WeekOf(rows[FirstRow(rows)[k]])
<1> DEFINE n == Len(rows)
           m == Cardinality(Openings(rows))
           first == FirstRow(rows)
           lo == first[k]
           hi == LastRow(rows, k)
           Other == {j \in lo .. hi : WeekOf(rows[j]) # WeekOf(rows[lo])}
<1>1. /\ m \in Nat /\ n \in Nat /\ DOMAIN rows = 1..n /\ k \in 1..m
      /\ lo \in 1..n /\ hi \in lo..n
      /\ \A j \in Openings(rows) : \E l \in 1..m : first[l] = j
      /\ \A l \in 1..m : first[l] \in 1..n
      /\ \A j, l \in 1..m : j < l => first[j] < first[l]
      /\ \A l \in 1..m : k < l => hi < first[l]
  BY GroupBounds
<1> SUFFICES ASSUME Other # {} PROVE FALSE
  OBVIOUS
<1>2. PICK j \in Other : \A l \in Other : j <= l
  <2>1. Other \in SUBSET (1..n)
    BY <1>1
  <2> QED
    BY <1>1, <2>1, LeastAndGreatest
<1>3. j \in lo..hi /\ j # lo /\ WeekOf(rows[j]) # WeekOf(rows[lo])
  BY <1>2
<1>4. j-1 \in lo..hi /\ j \in 1..n /\ j # 1 /\ lo < j
  BY <1>1, <1>3
<1>5. WeekOf(rows[j-1]) = WeekOf(rows[lo])
  <2> HIDE DEF Other
  <2>1. ~(j <= j-1)
    BY <1>1, <1>4
  <2>2. j-1 \notin Other
    BY <1>2, <2>1
  <2> QED
    BY <1>4, <2>2 DEF Other
<1>6. j \in Openings(rows)
  BY <1>1, <1>3, <1>4, <1>5 DEF Openings, Opens
<1>7. PICK l \in 1..m : first[l] = j
  BY <1>1, <1>6
<1> HIDE DEF hi, first, m, n
<1>8. k < l
  <2>1. l < k => first[l] < lo
    BY <1>1
  <2>2. first[l] \in Int /\ lo \in Int /\ lo < first[l] /\ k \in Int /\ l \in Int
    BY <1>1, <1>4, <1>7
  <2> QED
    BY <2>1, <2>2 DEF first
<1> QED
  BY <1>1, <1>3, <1>7, <1>8

\* Later groups are of later weeks.
LEMMA GroupsAscend ==
    ASSUME NEW rows, AscendingWeeks(rows),
           NEW k \in 1..Cardinality(Openings(rows)), NEW l \in 1..Cardinality(Openings(rows)),
           k < l
    PROVE  WeekOf(rows[FirstRow(rows)[k]]) < WeekOf(rows[FirstRow(rows)[l]])
<1> DEFINE n == Len(rows)
           i == FirstRow(rows)[k]
           j == FirstRow(rows)[l]
<1>1. n \in Nat /\ DOMAIN rows = 1..n /\ i \in 1..n /\ j \in 1..n /\ i < j /\ j \in Openings(rows)
  BY GroupBounds
<1> HIDE DEF i, j
<1>2. WeekOf(rows[j]) # WeekOf(rows[j-1])
  BY <1>1 DEF Openings, Opens
<1>3. j-1 \in 1..n /\ (i = j-1 \/ i < j-1) /\ j-1 < j
  BY <1>1
<1>4. /\ WeekOf(rows[i]) \in Int /\ WeekOf(rows[j-1]) \in Int /\ WeekOf(rows[j]) \in Int
      /\ WeekOf(rows[i]) <= WeekOf(rows[j-1]) /\ WeekOf(rows[j-1]) <= WeekOf(rows[j])
  BY <1>1, <1>3 DEF AscendingWeeks
<1> QED
  BY <1>2, <1>4 DEF i, j

\* Every row is in a group.
LEMMA GroupsCoverRows ==
    ASSUME NEW rows, AscendingWeeks(rows), NEW i \in 1..Len(rows)
    PROVE  \E k \in 1..Cardinality(Openings(rows)) :
              i \in FirstRow(rows)[k] .. LastRow(rows, k)
<1> DEFINE n == Len(rows)
           m == Cardinality(Openings(rows))
           first == FirstRow(rows)
           Before == {j \in Openings(rows) : j <= i}
<1>1. /\ m \in Nat /\ n \in Nat /\ DOMAIN rows = 1..n /\ Len(first) = m
      /\ \A j \in Openings(rows) : \E l \in 1..m : first[l] = j
      /\ \A l \in 1..m : first[l] \in Openings(rows) /\ first[l] \in 1..n
      /\ \A j, l \in 1..m : j < l => first[j] < first[l]
  BY GroupBounds
<1>0. Openings(rows) \in SUBSET (1..n)
  BY <1>1 DEF Openings
<1>2. 1 \in Before
  BY <1>1 DEF Openings, Opens
<1>3. PICK j \in Before : \A l \in Before : l <= j
  <2>1. Before \in SUBSET (1..n)
    BY <1>0
  <2> QED
    BY <1>1, <1>2, <2>1, LeastAndGreatest
<1>4. PICK k \in 1..m : first[k] = j
  BY <1>1, <1>3
<1>5. j <= i /\ j \in 1..n
  BY <1>0, <1>3
<1>6. LastRow(rows, k) \in Int /\ i <= LastRow(rows, k)
  <2>1. CASE k = m
    BY <1>1, <2>1 DEF LastRow
  <2>2. CASE k # m
    <3>1. k+1 \in 1..m /\ k < k+1
      BY <1>1, <2>2
    <3>2. first[k+1] \in Openings(rows) /\ first[k+1] \in 1..n /\ j < first[k+1]
      BY <1>1, <1>4, <3>1
    <3>3. first[k+1] \notin Before
      BY <1>3, <1>5, <3>2
    <3>4. i < first[k+1]
      BY <3>2, <3>3
    <3>5. LastRow(rows, k) = first[k+1] - 1
      BY <1>1, <2>2 DEF LastRow
    <3> QED
      BY <3>2, <3>4, <3>5
  <2> QED
    BY <2>1, <2>2
<1> QED
  BY <1>4, <1>5, <1>6

(***************************************************************************)
(* A tenant's upcoming list                                                *)
(***************************************************************************)

\* The rows of the list: the nearest open schedules, in the order of their dates.
LEMMA UpcomingRowsInOrder ==
    ASSUME TablesOK, NEW t, NEW limit \in Nat
    PROVE  LET S == UpcomingOf(t)
               n == Cardinality(S)
               rows == UpcomingRows(t, limit)
           IN  /\ n \in Nat /\ S \subseteq Bookings
               /\ rows \in Seq(S) /\ Len(rows) = IF n < limit THEN n ELSE limit
               /\ \A i, j \in DOMAIN rows : i < j => booking[rows[i]].day <= booking[rows[j]].day
               /\ \A b \in S : (\E i \in DOMAIN rows : rows[i] = b)
                     \/ (limit < n /\ \A i \in DOMAIN rows : booking[rows[i]].day <= booking[b].day)
<1> DEFINE S == UpcomingOf(t)
           n == Cardinality(S)
           list == InOrder(S, EarlierFirst)
           rows == UpcomingRows(t, limit)
<1>1. S \in SUBSET Bookings
  BY DEF UpcomingOf
<1>2. n \in Nat
  BY <1>1, SizesAssumption, FS_Subset, FS_CardinalityType
<1>3. Lists(list, S, EarlierPairs)
  BY <1>1, EarlierInOrder
<1>4. rows = SubSeq(list, 1, IF Len(list) < limit THEN Len(list) ELSE limit)
  BY DEF UpcomingRows
<1> HIDE DEF S, list, rows
<1>5. /\ rows \in Seq(S) /\ Len(rows) = IF n < limit THEN n ELSE limit
      /\ \A i, j \in DOMAIN rows : i < j => <<rows[i], rows[j]>> \in EarlierPairs
      /\ \A b \in S : (\E i \in DOMAIN rows : rows[i] = b)
                      \/ (limit < n /\ \A i \in DOMAIN rows : <<rows[i], b>> \in EarlierPairs)
  BY <1>2, <1>3, <1>4, FirstOfList
<1>6. \A b \in Bookings : booking[b].day \in Int
  BY DEF TablesOK, RecordsOK, Row, Days
<1>7. \A b, c : <<b, c>> \in EarlierPairs => booking[b].day <= booking[c].day
  BY <1>6 DEF EarlierPairs, EarlierFirst
<1> HIDE DEF n
<1> QED
  BY <1>1, <1>2, <1>5, <1>7 DEF n, S, rows

\* The week of a later date is not an earlier one.
LEMMA WeekStartAscends ==
    ASSUME NEW d \in Int, NEW e \in Int, d <= e
    PROVE  WeekStart(d) \in Int /\ WeekStart(d) <= WeekStart(e)
BY DEF WeekStart

LEMMA UpcomingWeeksAscend ==
    ASSUME TablesOK, NEW t, NEW limit \in Nat
    PROVE  AscendingWeeks(UpcomingRows(t, limit))
<1> DEFINE rows == UpcomingRows(t, limit)
<1>1. rows \in Seq(Bookings) /\ DOMAIN rows = 1..Len(rows)
      /\ \A i, j \in DOMAIN rows : i < j => booking[rows[i]].day <= booking[rows[j]].day
  BY UpcomingRowsInOrder
<1> HIDE DEF rows
<1>2. \A i \in 1..Len(rows) : booking[rows[i]].day \in Int
  BY <1>1 DEF TablesOK, RecordsOK, Row, Days
<1>3. \A i \in 1..Len(rows) : WeekOf(rows[i]) \in Int
  BY <1>2, WeekStartAscends DEF WeekOf
<1>4. \A i, j \in 1..Len(rows) : i < j => WeekOf(rows[i]) <= WeekOf(rows[j])
  BY <1>1, <1>2, WeekStartAscends DEF WeekOf
<1> QED
  BY <1>1, <1>3, <1>4 DEF AscendingWeeks, rows

\* The groups as rows of the list.
LEMMA WeeksAreGroups ==
    ASSUME NEW t, NEW limit, AscendingWeeks(UpcomingRows(t, limit))
    PROVE  LET rows == UpcomingRows(t, limit)
               weeks == UpcomingWeeks(t, limit)
               first == FirstRow(rows)
           IN  /\ DOMAIN weeks = 1..Cardinality(Openings(rows))
               /\ \A k \in DOMAIN weeks :
                     /\ weeks[k].week = WeekOf(rows[first[k]])
                     /\ \A j \in DOMAIN weeks[k].schedules :
                           \E i \in first[k] .. LastRow(rows, k) : weeks[k].schedules[j] = rows[i]
                     /\ \A i \in first[k] .. LastRow(rows, k) :
                           \E j \in DOMAIN weeks[k].schedules : weeks[k].schedules[j] = rows[i]
<1> DEFINE rows == UpcomingRows(t, limit)
           weeks == UpcomingWeeks(t, limit)
           first == FirstRow(rows)
           m == Cardinality(Openings(rows))
<1>1. weeks = [k \in DOMAIN first |->
                 [week |-> WeekOf(rows[first[k]]),
                  schedules |-> SubSeq(rows, first[k], LastRow(rows, k))]]
  BY DEF UpcomingWeeks, FirstRow, LastRow, Openings
<1>2. /\ DOMAIN first = 1..m /\ Len(rows) \in Nat /\ rows \in Seq(Bookings)
      /\ \A k \in 1..m : first[k] \in 1..Len(rows) /\ LastRow(rows, k) \in first[k] .. Len(rows)
  BY GroupBounds DEF AscendingWeeks
<1> HIDE DEF rows, weeks, first, m
<1>3. ASSUME NEW k \in DOMAIN weeks
      PROVE  /\ weeks[k].week = WeekOf(rows[first[k]])
             /\ \A j \in DOMAIN weeks[k].schedules :
                   \E i \in first[k] .. LastRow(rows, k) : weeks[k].schedules[j] = rows[i]
             /\ \A i \in first[k] .. LastRow(rows, k) :
                   \E j \in DOMAIN weeks[k].schedules : weeks[k].schedules[j] = rows[i]
  <2> DEFINE lo == first[k]
             hi == LastRow(rows, k)
             part == weeks[k].schedules
  <2>1. k \in 1..m /\ lo \in 1..Len(rows) /\ hi \in lo .. Len(rows)
    BY <1>1, <1>2
  <2>2. weeks[k].week = WeekOf(rows[lo]) /\ part = SubSeq(rows, lo, hi)
    BY <1>1
  <2> HIDE DEF lo, hi, part
  <2>3. DOMAIN part = 1 .. hi-lo+1 /\ \A j \in 1 .. hi-lo+1 : part[j] = rows[lo+j-1]
    BY <1>2, <2>1, <2>2
  <2>4. \A j \in DOMAIN part : lo+j-1 \in lo..hi /\ part[j] = rows[lo+j-1]
    BY <1>2, <2>1, <2>3
  <2>5. ASSUME NEW i \in lo..hi PROVE \E j \in DOMAIN part : part[j] = rows[i]
    <3>1. i-lo+1 \in 1 .. hi-lo+1 /\ lo + (i-lo+1) - 1 = i
      BY <1>2, <2>1
    <3>2. part[i-lo+1] = rows[lo + (i-lo+1) - 1]
      BY <2>3, <3>1
    <3> QED
      BY <2>3, <3>1, <3>2
  <2> QED
    BY <2>2, <2>4, <2>5 DEF lo, hi, part
<1> QED
  BY <1>1, <1>2, <1>3 DEF rows, weeks, first, m

\* A list shorter than the set it is taken from does not hold all of the set.
LEMMA ShortListLeavesOut ==
    ASSUME NEW S, NEW seq \in Seq(S), Len(seq) < Cardinality(S), Cardinality(S) \in Nat
    PROVE  \E b \in S : \A i \in DOMAIN seq : seq[i] # b
<1> SUFFICES ASSUME \A b \in S : \E i \in DOMAIN seq : seq[i] = b
             PROVE  FALSE
  OBVIOUS
<1>1. DOMAIN seq = 1..Len(seq) /\ Len(seq) \in Nat
  OBVIOUS
<1>2. seq \in Surjection(1..Len(seq), S)
  BY <1>1 DEF Surjection
<1>3. Cardinality(S) <= Len(seq)
  BY <1>1, <1>2, FS_SurjCardinalityBound DEF ExistsSurjection
<1> QED
  BY <1>1, <1>3

\* Whatever the tables hold, the list shows each week once.
LEMMA UpcomingFromTables == TablesOK => UpcomingListsEachWeekOnce
<1> SUFFICES ASSUME TablesOK, NEW t \in Tenants, NEW limit \in 1..Cardinality(Bookings)
             PROVE  LET weeks == UpcomingWeeks(t, limit)
                        shown == {b \in Bookings : \E i \in DOMAIN weeks :
                                    \E j \in DOMAIN weeks[i].schedules : weeks[i].schedules[j] = b}
                    IN  /\ \A i, j \in DOMAIN weeks : i < j => weeks[i].week < weeks[j].week
                        /\ shown \subseteq UpcomingOf(t)
                        /\ \A b \in UpcomingOf(t) \ shown, c \in shown :
                              booking[c].day <= booking[b].day
                        /\ Truncated(t, limit) <=> shown # UpcomingOf(t)
                        /\ \A i \in DOMAIN weeks : \A j \in DOMAIN weeks[i].schedules :
                              WeekStart(booking[weeks[i].schedules[j]].day) = weeks[i].week
  BY DEF UpcomingListsEachWeekOnce
<1> DEFINE S == UpcomingOf(t)
           n == Cardinality(S)
           rows == UpcomingRows(t, limit)
           weeks == UpcomingWeeks(t, limit)
           first == FirstRow(rows)
           m == Cardinality(Openings(rows))
           shown == {b \in Bookings : \E i \in DOMAIN weeks :
                       \E j \in DOMAIN weeks[i].schedules : weeks[i].schedules[j] = b}
<1>1. limit \in Nat
  BY SizesAssumption, FS_CardinalityType
<1>2. /\ n \in Nat /\ S \subseteq Bookings
      /\ rows \in Seq(S) /\ Len(rows) = IF n < limit THEN n ELSE limit
      /\ \A b \in S : (\E i \in DOMAIN rows : rows[i] = b)
            \/ (limit < n /\ \A i \in DOMAIN rows : booking[rows[i]].day <= booking[b].day)
  BY <1>1, UpcomingRowsInOrder
<1>3. AscendingWeeks(rows)
  BY <1>1, UpcomingWeeksAscend
<1>4. /\ DOMAIN weeks = 1..m
      /\ \A k \in 1..m :
            /\ weeks[k].week = WeekOf(rows[first[k]])
            /\ \A j \in DOMAIN weeks[k].schedules :
                  \E i \in first[k] .. LastRow(rows, k) : weeks[k].schedules[j] = rows[i]
            /\ \A i \in first[k] .. LastRow(rows, k) :
                  \E j \in DOMAIN weeks[k].schedules : weeks[k].schedules[j] = rows[i]
  <2>1. DOMAIN weeks = 1..m
    BY <1>3, WeeksAreGroups
  <2>2. \A k \in DOMAIN weeks :
           /\ weeks[k].week = WeekOf(rows[first[k]])
           /\ \A j \in DOMAIN weeks[k].schedules :
                 \E i \in first[k] .. LastRow(rows, k) : weeks[k].schedules[j] = rows[i]
           /\ \A i \in first[k] .. LastRow(rows, k) :
                 \E j \in DOMAIN weeks[k].schedules : weeks[k].schedules[j] = rows[i]
    BY <1>3, WeeksAreGroups
  <2> HIDE DEF weeks, first, m, rows
  <2> QED
    BY <2>1, <2>2
<1>5. /\ m \in Nat /\ Len(rows) \in Nat /\ DOMAIN rows = 1..Len(rows)
      /\ \A k \in 1..m : first[k] \in 1..Len(rows) /\ LastRow(rows, k) \in first[k] .. Len(rows)
  BY <1>3, GroupBounds
<1>6. \A k \in 1..m : \A i \in first[k] .. LastRow(rows, k) :
         i \in DOMAIN rows /\ WeekOf(rows[i]) = weeks[k].week
  <2> SUFFICES ASSUME NEW k \in 1..m, NEW i \in first[k] .. LastRow(rows, k)
               PROVE  i \in DOMAIN rows /\ WeekOf(rows[i]) = weeks[k].week
    OBVIOUS
  <2>1. WeekOf(rows[i]) = WeekOf(rows[first[k]])
    BY <1>3, GroupOfOneWeek
  <2>2. i \in DOMAIN rows
    BY <1>5
  <2> QED
    BY <1>4, <2>1, <2>2
<1>7. \A k, l \in 1..m : k < l => weeks[k].week < weeks[l].week
  BY <1>3, <1>4, GroupsAscend
<1>8. \A i \in DOMAIN rows : \E k \in 1..m : i \in first[k] .. LastRow(rows, k)
  BY <1>3, <1>5, GroupsCoverRows
<1> HIDE DEF S, n, rows, weeks, first, m
<1>9. shown = {rows[i] : i \in DOMAIN rows}
  <2>1. ASSUME NEW b \in shown PROVE \E i \in DOMAIN rows : rows[i] = b
    BY <1>4, <1>6
  <2>2. ASSUME NEW i \in DOMAIN rows PROVE rows[i] \in shown
    <3>1. PICK k \in 1..m : i \in first[k] .. LastRow(rows, k)
      BY <1>8
    <3>2. PICK j \in DOMAIN weeks[k].schedules : weeks[k].schedules[j] = rows[i]
      BY <1>4, <3>1
    <3>3. rows[i] \in Bookings
      BY <1>2
    <3> QED
      BY <1>4, <3>2, <3>3
  <2> HIDE DEF shown
  <2> QED
    BY <2>1, <2>2
<1>10. \A i \in DOMAIN weeks : \A j \in DOMAIN weeks[i].schedules :
          WeekStart(booking[weeks[i].schedules[j]].day) = weeks[i].week
  BY <1>4, <1>6 DEF WeekOf
<1>11. Truncated(t, limit) <=> limit < n
  BY <1>1, <1>2 DEF Truncated, n, S
<1> HIDE DEF shown
<1>12. shown \subseteq S
  BY <1>2, <1>9
<1>13. \A b \in S \ shown, c \in shown : booking[c].day <= booking[b].day
  BY <1>2, <1>9
<1>14. limit < n <=> shown # S
  <2>1. CASE limit < n
    <3>1. PICK b \in S : \A i \in DOMAIN rows : rows[i] # b
      BY <1>1, <1>2, <2>1, ShortListLeavesOut DEF n
    <3> QED
      BY <1>9, <2>1, <3>1
  <2>2. CASE ~(limit < n)
    BY <1>2, <1>9, <1>12, <2>2
  <2> QED
    BY <2>1, <2>2
<1> QED
  BY <1>4, <1>7, <1>10, <1>11, <1>12, <1>13, <1>14 DEF S, weeks, shown
=============================================================================
