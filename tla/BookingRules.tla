----------------------------- MODULE BookingRules -----------------------------
(***************************************************************************)
(* What each booking handler demands of the record it was given, and the   *)
(* row it writes.  Every operator takes the record r as an argument: it is *)
(* booking[b] in Scheduler and the copy a request loaded in SchedulerTx.   *)
(*                                                                         *)
(* a is the account that calls, b the booking's id, d a date, s a slot.    *)
(***************************************************************************)
EXTENDS ReleaseBoard

(* Access *)

\* tenant_ids_for_user: a tenant's group is active exactly while the tenant is.
TenantGroups(a) == {t \in TenantsOf[a] : tenant[t].active}

\* assert_tenant_access: a tenant group member, or an unassigned pool member.
TenantAllowed(a, t) ==
    \/ a \in Admins
    \/ /\ a \in Users \ Management
       /\ t \in TenantGroups(a) \/ (TenantGroups(a) = {} /\ a \in Pool)

\* schedule_actor with schedule_access_basis.
MayWorkOn(a, b, r) ==
    \/ a \in Admins
    \/ /\ a \in Users \ Management
       /\ \/ r.creator = a
          \/ r.tenant \in TenantGroups(a)
          \/ a \in collaborators[b]

\* Mutant of Mutable: administrators pass the automatic lock without an unlock.
MutableDespiteLock(a, r) ==
    IF a \in Admins
    THEN LockReason(r) \notin {"PAST_DATE", "CURRENT_DATE"} /\ r.status # "CANCELLED"
    ELSE /\ LockReason(r) = "NONE"
         /\ r.status \notin {"CANCELLED", "COMPLETED"}
         /\ ~r.emergency

\* Mutant of Mutable: a manual freeze binds nobody.
MutableDespiteFreeze(a, r) ==
    /\ LockReason(r) \in {"NONE", "MANUAL_SLOT_FREEZE"}
    /\ r.status # "CANCELLED"
    /\ a \in Admins \/ (r.status # "COMPLETED" /\ ~r.emergency)

\* schedule_restriction returns None.
Mutable(a, r) ==
    IF a \in Admins
    THEN /\ LockReason(r) \notin {"PAST_DATE", "CURRENT_DATE", "AUTOMATIC_DATE_FREEZE"}
         /\ r.status # "CANCELLED"
    ELSE /\ LockReason(r) = "NONE"
         /\ r.status \notin {"CANCELLED", "COMPLETED"}
         /\ ~r.emergency

-----------------------------------------------------------------------------
(* The handlers: what they accept, and the row they write *)

CreateAllowed(a, t, d, s, emergency, override) ==
    /\ tenant[t].active
    /\ TenantAllowed(a, t)
    /\ ~ScheduleLocked(d, IF emergency THEN NoSlot ELSE s)
    /\ IF emergency THEN a \in Admins
       ELSE /\ ValidSlotTarget(a, d, s, NoBooking, override)
            /\ WithinWeeklyLimit(a, t, d, NoBooking)

CreatedRow(a, t, d, s, emergency) ==
    [status |-> "BOOKED", day |-> d, slot |-> IF emergency THEN NoSlot ELSE s,
     tenant |-> t, emergency |-> emergency, creator |-> a, change |-> FALSE]

\* payload.slot_number or booking.slot_number
AskedSlot(r, s) == IF s = NoSlot THEN r.slot ELSE s

UpdateAllowed(a, b, r, t, d, s, override) ==
    LET slot == AskedSlot(r, s)
        moved == <<d, slot>> # <<r.day, r.slot>>
        moves == t # r.tenant
    IN  /\ MayWorkOn(a, b, r)
        /\ Mutable(a, r)
        /\ ~ScheduleLocked(d, IF r.emergency THEN NoSlot ELSE slot)
        /\ moved => r.status # "COMPLETED"
        /\ moved /\ ~r.emergency => ValidSlotTarget(a, d, slot, b, override)
        /\ tenant[t].active
        /\ moves => TenantAllowed(a, t)
        /\ ~r.emergency /\ (moved \/ moves) => WithinWeeklyLimit(a, t, d, b)

UpdatedRow(r, t, d, s) ==
    [r EXCEPT !.tenant = t, !.day = d,
              !.slot = IF r.emergency THEN NoSlot ELSE AskedSlot(r, s)]

\* Mutant of CancelAllowed: closed records are not excepted.
CancelAllowedWhenClosed(a, b, r) ==
    /\ MayWorkOn(a, b, r)
    /\ r.status # "CANCELLED"
    /\ Mutable(a, r)

CancelAllowed(a, b, r) ==
    /\ MayWorkOn(a, b, r)
    /\ r.status \notin {"CANCELLED", "COMPLETED"}
    /\ Mutable(a, r)

CancelledRow(r) == [r EXCEPT !.status = "CANCELLED"]

\* What rescheduling demands of the record, then of the destination.
Reschedulable(a, b, r) ==
    /\ MayWorkOn(a, b, r)
    /\ r.status \notin {"CANCELLED", "COMPLETED"}
    /\ ~r.emergency
    /\ Mutable(a, r)

RescheduleAllowed(a, b, r, d, s) ==
    /\ Reschedulable(a, b, r)
    /\ <<d, s>> # <<r.day, r.slot>>
    /\ ValidSlotTarget(a, d, s, b, FALSE)
    /\ tenant[r.tenant].active
    /\ WithinWeeklyLimit(a, r.tenant, d, b)

RescheduledRow(r, d, s) == [r EXCEPT !.day = d, !.slot = s]

\* set_status(COMPLETED): no date lock, only the lifecycle.
CloseAllowed(a, r) == a \in Admins /\ r.status \in {"BOOKED", "IN_PROGRESS"}

ClosedRow(r) == [r EXCEPT !.status = "COMPLETED"]

\* set_status(BOOKED): accepted for a record that is still BOOKED, and audited.
KeepOpenAllowed(a, r) == a \in Admins /\ Mutable(a, r) /\ r.status = "BOOKED"

ReopenAllowed(a, r) == a \in Admins /\ r.status = "COMPLETED"

\* The status before the latest closure, or what the work details say.
RestoredStatus(r, audit) ==
    IF audit.new = "COMPLETED" /\ audit.old \in {"BOOKED", "IN_PROGRESS"}
    THEN audit.old
    ELSE IF r.change THEN "IN_PROGRESS" ELSE "BOOKED"

ReopenedRow(r, audit) == [r EXCEPT !.status = RestoredStatus(r, audit)]

AssignAllowed(a, r, m) ==
    /\ a \in Admins
    /\ Mutable(a, r)
    /\ r.status # "COMPLETED"
    /\ m \in Managers

\* Mutant of StartWorkAllowed: the status is not checked.
StartWorkAllowedAnytime(a, r, assigned) ==
    /\ a \in Managers
    /\ Mutable(a, r)
    /\ a \in assigned

\* assigned: the assignments loaded with the record.
StartWorkAllowed(a, r, assigned) ==
    /\ a \in Managers
    /\ Mutable(a, r)
    /\ r.status \in {"BOOKED", "IN_PROGRESS"}
    /\ a \in assigned

StartedRow(r) ==
    [r EXCEPT !.change = TRUE,
              !.status = IF r.status = "BOOKED" THEN "IN_PROGRESS" ELSE r.status]

CollaboratorsAllowed(a, r) ==
    /\ a \in Admins \/ (a \in Users \ Management /\ r.creator = a)
    /\ r.status # "CANCELLED"
    /\ r.day > today
    /\ ~r.emergency
    /\ r.status = "COMPLETED" => a \in Admins

\* attachment_upload_restriction returns None: before its date a record takes documents
\* while it can be edited; then, for some days, while its date or slot is unlocked.
UploadOpen(a, r) ==
    IF r.day > today
    THEN Mutable(a, r)
    ELSE /\ r.day >= today - FollowupDays
         /\ r.status # "CANCELLED"
         /\ OverrideApplies(r.day, LockSlot(r))
         /\ a \in Admins \/ /\ ~r.emergency
                            /\ r.status # "COMPLETED"
                            /\ ~ManuallyFrozen(r.day, LockSlot(r))

\* The attachment endpoints: deletions follow the scheduling protection.
UploadAllowed(a, b, r) == MayWorkOn(a, b, r) /\ UploadOpen(a, r)
DeleteFilesAllowed(a, b, r) == MayWorkOn(a, b, r) /\ Mutable(a, r)

\* Mutant of UpcomingSlotNumbers: today's bookings are forgotten.
LaterSlotNumbers ==
    {booking[b].slot : b \in {c \in Bookings : Active(booking[c]) /\ booking[c].day > today}}

\* The slot numbers of upcoming active bookings; NULL (NoSlot) for an emergency.
UpcomingSlotNumbers ==
    {booking[b].slot : b \in {c \in Bookings : Active(booking[c]) /\ booking[c].day >= today}}
=============================================================================
