----------------------------- MODULE MCScheduler -----------------------------
(* Instances of Scheduler for TLC: parts of Next on tables small enough. *)
EXTENDS Scheduler, BookingOffers, WeekBoard, ScheduleSearch, TLC

CONSTANTS m1, u1, u2, t1, t2

MCDefaults == [regular |-> 1, weekly |-> 1, freeze |-> 0]
FrozenDefaults == [regular |-> 1, weekly |-> 1, freeze |-> 1]
TwoSlotDefaults == [regular |-> 2, weekly |-> 1, freeze |-> 0]

\* u1 belongs to the group of t1; every other user to no tenant group.
MCTenantsOf == [u \in Users |-> IF u = u1 THEN {t1} ELSE {}]

\* A user of both tenants' groups.
BothTenants == [u \in Users |-> {t1, t2}]
UserDefaults == [regular |-> 1, weekly |-> 1, freeze |-> 0]

\* Records on a fixed grid, without unlocks and manual freezes.  The Owner places
\* them: no rule but assignment and work tells administrators apart.
RecordSpec ==
    Init /\ [][\/ DayPasses
               \/ \E b \in Bookings :
                     \/ PlaceStep(Owner, b)
                     \/ \E a \in Admins : LifecycleStep(a, b) \/ PeopleStep(a, b)]_vars

\* Records of one caller each, unlocks and manual freezes.
LockSpec == Init /\ [][RecordStep \/ LockStep \/ DayPasses]_vars

\* The part of UsersScheduleSpec that moves, frees and freezes slots and raises a
\* tenant's limit, so that it may have two schedules in a week.  Bound: the third
\* booking is only placed and moved.
UserStep ==
    \/ \E a \in Users, b \in Bookings : PlaceStep(a, b)
    \/ \E b \in Bookings \cap 1..2 :
          \/ \E a \in Users : CancelBooking(a, b)
          \/ CloseBooking(Owner, b)
          \/ ReopenBooking(Owner, b)
    \/ \E d \in {4, 8}, s \in Slots : FreezeSlot(d, s)
    \/ UpdateTenant(t1, MaxWeekly)

UserSpec == Init /\ [][UserStep]_vars

\* The grid changes under bookings that are placed, moved and cancelled.
GridSpec ==
    Init /\ [][\/ GridStep
               \/ DayPasses
               \/ \E b \in Bookings : PlaceStep(Owner, b) \/ CancelBooking(Owner, b)]_vars
=============================================================================
