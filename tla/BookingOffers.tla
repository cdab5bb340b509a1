---------------------------- MODULE BookingOffers ----------------------------
(***************************************************************************)
(* What the interface offers before a write is attempted: the reschedule   *)
(* picker (next_available_slots) and the can_* flags of a booking's detail *)
(* (schedule_permissions and booking_detail).  They are computed by code   *)
(* of their own, so that they agree with the handlers is a property.       *)
(***************************************************************************)
EXTENDS BookingRules

\* The slots other active bookings hold on date d.
TakenSlots(d, b) ==
    {booking[o].slot : o \in {c \in Bookings \ {b} :
        Active(booking[c]) /\ booking[c].day = d /\ booking[c].slot # NoSlot}}

\* Mutant of WeekHasRoom: the booking counts against its own move.
WeekHasRoomForOneMore(a, t, d, b) ==
    a \in Admins \/ Cardinality(WeeklyNormal(t, d)) < EffectiveWeeklyLimit(t)

WeekHasRoom(a, t, d, b) ==
    a \in Admins \/ Cardinality(WeeklyNormal(t, d) \ {b}) < EffectiveWeeklyLimit(t)

\* The cells the search looks at.
SearchedCells == (today+1 .. today+1+SearchDays) \X Slots

\* The loop takes the cell: its day, its week and its slot are all free for b.
Pickable(a, b, r, d, s) ==
    /\ IsDeploymentWeekday(d)
    /\ WeekHasRoom(a, r.tenant, d, b)
    /\ SlotExists(s)
    /\ <<d, s>> # <<r.day, r.slot>>
    /\ NormalSlotOpen(d, s, s \in TakenSlots(d, b))

\* Mutant of PickerOptions: the tenant may have been switched off.
PickerOptionsOfAnyTenant(a, b, r) ==
    IF r.emergency \/ r.status \in {"CANCELLED", "COMPLETED"} \/ ~Mutable(a, r)
    THEN {}
    ELSE {c \in SearchedCells : Pickable(a, b, r, c[1], c[2])}

\* Every destination; the code returns a prefix of them, earliest first.
PickerOptions(a, b, r) ==
    IF \/ r.emergency
       \/ r.status \in {"CANCELLED", "COMPLETED"}
       \/ ~Mutable(a, r)
       \/ ~tenant[r.tenant].active
    THEN {}
    ELSE {c \in SearchedCells : Pickable(a, b, r, c[1], c[2])}

CanEdit(a, b, r) == MayWorkOn(a, b, r) /\ Mutable(a, r)
\* Mutant of CanCancel: the button shows wherever editing is possible.
CanCancelAsEdit(a, b, r) == CanEdit(a, b, r)
CanCancel(a, b, r) == CanEdit(a, b, r) /\ r.status # "COMPLETED"
CanReschedule(a, b, r) == CanEdit(a, b, r) /\ r.status # "COMPLETED"
CanManageCollaborators(a, b, r) == MayWorkOn(a, b, r) /\ CollaboratorsAllowed(a, r)
CanAssignManager(a, r) == a \in Admins /\ Mutable(Owner, r) /\ r.status # "COMPLETED"
CanAssignSelf(a, b, r) ==
    /\ a \in Managers
    /\ Mutable(Owner, r)
    /\ a \notin assignees[b] \/ Cardinality(assignees[b]) > 1
    /\ r.status # "COMPLETED"
CanStartWork(a, b, r) ==
    /\ a \in Managers
    /\ Mutable(Owner, r)
    /\ a \in assignees[b]
    /\ r.status \in {"BOOKED", "IN_PROGRESS"}
CanManageAttachments(a, b, r) == CanEdit(a, b, r)
CanUploadAttachments(a, b, r) ==
    /\ a \notin Management
    /\ a \in Admins \/ MayWorkOn(a, b, r)
    /\ UploadOpen(a, r)
CanClose(a, r) == a \in Admins /\ r.status \in {"BOOKED", "IN_PROGRESS"}
CanReopen(a, r) == a \in Admins /\ r.status = "COMPLETED"

-----------------------------------------------------------------------------
(* Properties: offers and handlers agree *)

\* The picker offers exactly the destinations the reschedule handler accepts
\* within the search horizon: none that would be refused, none left out.
PickerExact ==
    \A a \in Accounts, b \in Bookings :
        booking[b].status # "ABSENT" /\ MayWorkOn(a, b, booking[b]) =>
            PickerOptions(a, b, booking[b])
               = {c \in SearchedCells :
                    RescheduleAllowed(a, b, booking[b], c[1], c[2])}

\* Every can_* flag tells what its handler would answer to the same caller: no
\* button that fails, no right without its button.  (An edit also needs the record's
\* tenant to be active; can_reschedule of an emergency change stands for the
\* administrators' move by date; can_assign_self is not offered to the only assignee,
\* whom the handler would assign again; can_download_attachments is true for whoever
\* is signed in, and so is the answer.)
FlagsTellTheTruth ==
    \A a \in Accounts, b \in Bookings :
        LET r == booking[b]
            accepted == UpdateAllowed(a, b, r, r.tenant, r.day, r.slot, FALSE)
        IN  r.status # "ABSENT" =>
            /\ CanEdit(a, b, r) /\ tenant[r.tenant].active <=> accepted
            /\ CanCancel(a, b, r) <=> CancelAllowed(a, b, r)
            /\ CanReschedule(a, b, r) /\ ~r.emergency <=> Reschedulable(a, b, r)
            /\ CanReschedule(a, b, r) /\ r.emergency => a \in Admins
            /\ CanManageCollaborators(a, b, r) <=> CollaboratorsAllowed(a, r)
            /\ \A m \in Managers : CanAssignManager(a, r) <=> AssignAllowed(a, r, m)
            /\ CanAssignSelf(a, b, r) <=> AssignAllowed(a, r, a) /\ assignees[b] # {a}
            /\ CanStartWork(a, b, r) <=> StartWorkAllowed(a, r, assignees[b])
            /\ CanManageAttachments(a, b, r) <=> DeleteFilesAllowed(a, b, r)
            /\ CanUploadAttachments(a, b, r) <=> UploadAllowed(a, b, r)
            /\ CanClose(a, r) <=> CloseAllowed(a, r)
            /\ CanReopen(a, r) <=> ReopenAllowed(a, r)
=============================================================================
