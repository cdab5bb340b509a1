----------------------------- MODULE SchedulerTx -----------------------------
(***************************************************************************)
(* The scheduler's booking writes as concurrent requests.  A request loads *)
(* its booking (get_booking), runs the handler's checks on that copy and   *)
(* on the tables as they are then, changes the copy, and finally flushes   *)
(* and commits.  READ COMMITTED, and the booking row is not locked: other  *)
(* requests commit between any two of these steps.  The handlers run in a  *)
(* thread pool, but for create_booking: a coroutine of the one event loop, *)
(* it awaits nothing between its checks and its commit.                    *)
(*                                                                         *)
(* The ORM writes the columns that differ from the loaded copy, the        *)
(* partial unique index uq_active_slot_per_day arbitrates over slots, and  *)
(* reopening and assigning lock the row before they read what they replace.*)
(***************************************************************************)
EXTENDS BookingRules

CONSTANTS
    Requests,   \* bound: the requests in flight at a time
    Asks        \* bound: the payloads that arrive

Operations == {"create", "update", "cancel", "reschedule", "close", "keepOpen",
               "reopen", "assign", "start", "replaceSlots"}

Ask == [op: Operations, by: Accounts, id: Bookings, tenant: Tenants, day: Days,
        slot: 0..MaxSlots, manager: Managers, grid: SUBSET Slots]

ASSUME AsksAssumption == Asks \subseteq Ask /\ Asks # {}

VARIABLE request

Phases == {"IDLE", "LOADED", "CHECKED"}

Request == [phase: Phases, ask: Asks, row: Row, assigned: SUBSET Managers, new: Row]

Idle == [phase |-> "IDLE", ask |-> CHOOSE k \in Asks : TRUE, row |-> VacantRow,
         assigned |-> {}, new |-> VacantRow]

Init == EmptyBoard /\ request = [r \in Requests |-> Idle]

-----------------------------------------------------------------------------
(* A request's life: Load, Check..., then Save or another commit, or Fail *)

IsAt(r, phase, op) == request[r].phase = phase /\ request[r].ask.op = op

\* get_booking and its selectin assignments; a create has nothing to load.
Load(r, k) ==
    /\ request[r].phase = "IDLE"
    /\ k.op \in {"create", "replaceSlots"} \/ Exists(k.id)
    /\ request' = [request EXCEPT ![r] =
          [Idle EXCEPT !.phase = "LOADED", !.ask = k, !.row = booking[k.id],
                       !.assigned = assignees[k.id]]]
    /\ UNCHANGED boardVars

\* The checks passed: the copy in memory becomes new.
Stage(r, new) ==
    /\ request' = [request EXCEPT ![r].phase = "CHECKED", ![r].new = new]
    /\ UNCHANGED boardVars

Answer(r) == request' = [request EXCEPT ![r] = Idle]

\* Refused, lost to another request, or broken off: the transaction rolls back.
Fail(r) ==
    /\ request[r].phase # "IDLE"
    /\ Answer(r)
    /\ UNCHANGED boardVars

\* The event loop runs one create at a time; threads do not wait for it.
EventLoopIsFree == \A o \in Requests : ~IsAt(o, "CHECKED", "create")

CheckCreate(r) ==
    LET k == request[r].ask IN
    /\ IsAt(r, "LOADED", "create")
    /\ EventLoopIsFree
    /\ CreateAllowed(k.by, k.tenant, k.day, k.slot, FALSE, FALSE)
    /\ Stage(r, CreatedRow(k.by, k.tenant, k.day, k.slot, FALSE))

CheckUpdate(r) ==
    LET q == request[r]
        k == q.ask
    IN  /\ IsAt(r, "LOADED", "update")
        /\ UpdateAllowed(k.by, k.id, q.row, k.tenant, k.day, k.slot, FALSE)
        /\ Stage(r, UpdatedRow(q.row, k.tenant, k.day, k.slot))

CheckCancel(r) ==
    LET q == request[r] IN
    /\ IsAt(r, "LOADED", "cancel")
    /\ CancelAllowed(q.ask.by, q.ask.id, q.row)
    /\ Stage(r, CancelledRow(q.row))

CheckReschedule(r) ==
    LET q == request[r]
        k == q.ask
    IN  /\ IsAt(r, "LOADED", "reschedule")
        /\ RescheduleAllowed(k.by, k.id, q.row, k.day, k.slot)
        /\ Stage(r, RescheduledRow(q.row, k.day, k.slot))

\* set_status with COMPLETED, then with BOOKED.
CheckClose(r) ==
    LET q == request[r] IN
    /\ IsAt(r, "LOADED", "close")
    /\ CloseAllowed(q.ask.by, q.row)
    /\ Stage(r, ClosedRow(q.row))

CheckKeepOpen(r) ==
    LET q == request[r] IN
    /\ IsAt(r, "LOADED", "keepOpen")
    /\ KeepOpenAllowed(q.ask.by, q.row)
    /\ Stage(r, q.row)

CheckStart(r) ==
    LET q == request[r] IN
    /\ IsAt(r, "LOADED", "start")
    /\ StartWorkAllowed(q.ask.by, q.row, q.assigned)
    /\ Stage(r, StartedRow(q.row))

CheckAssign(r) ==
    LET q == request[r] IN
    /\ IsAt(r, "LOADED", "assign")
    /\ AssignAllowed(q.ask.by, q.row, q.ask.manager)
    /\ Stage(r, q.row)

CheckSlots(r) ==
    LET grid == request[r].ask.grid IN
    /\ IsAt(r, "LOADED", "replaceSlots")
    /\ grid # {}
    /\ UpcomingSlotNumbers \subseteq grid
    /\ Stage(r, request[r].row)

Check(r) ==
    \/ CheckCreate(r)
    \/ CheckUpdate(r)
    \/ CheckCancel(r)
    \/ CheckReschedule(r)
    \/ CheckClose(r)
    \/ CheckKeepOpen(r)
    \/ CheckStart(r)
    \/ CheckAssign(r)
    \/ CheckSlots(r)

-----------------------------------------------------------------------------
(* Commits *)

\* The columns that differ from the loaded copy, over what is committed now.
Merge(current, loaded, new) ==
    [f \in DOMAIN current |-> IF new[f] # loaded[f] THEN new[f] ELSE current[f]]

\* Mutant of IndexClash: the index covers BOOKED rows only.
IndexClashOfBooked(b, row) ==
    /\ row.status = "BOOKED" /\ ~row.emergency
    /\ \E o \in Bookings \ {b} :
          /\ booking[o].status = "BOOKED" /\ ~booking[o].emergency
          /\ booking[o].day = row.day /\ booking[o].slot = row.slot

\* uq_active_slot_per_day refuses the row.
IndexClash(b, row) ==
    /\ Active(row) /\ ~row.emergency
    /\ \E o \in Bookings \ {b} :
          /\ Active(booking[o]) /\ ~booking[o].emergency
          /\ booking[o].day = row.day /\ booking[o].slot = row.slot

Flush(b, row) == ~IndexClash(b, row) /\ booking' = [booking EXCEPT ![b] = row]

NextId(b) == ~Exists(b) /\ \A c \in Bookings : c < b => Exists(c)

CommitCreate(r, b) ==
    /\ IsAt(r, "CHECKED", "create")
    /\ NextId(b)
    /\ Flush(b, request[r].new)
    /\ Answer(r)
    /\ UNCHANGED <<today, collaborators, assignees, closure, gridVars, lockVars>>

CommitRow(r) ==
    LET q == request[r] IN
    /\ \E op \in {"update", "cancel", "reschedule", "start"} : IsAt(r, "CHECKED", op)
    /\ Flush(q.ask.id, Merge(booking[q.ask.id], q.row, q.new))
    /\ Answer(r)
    /\ UNCHANGED <<today, collaborators, assignees, closure, gridVars, lockVars>>

\* set_status writes the status and its audit, with the status it had loaded.
CommitStatus(r) ==
    LET q == request[r] IN
    /\ \E op \in {"close", "keepOpen"} : IsAt(r, "CHECKED", op)
    /\ Flush(q.ask.id, Merge(booking[q.ask.id], q.row, q.new))
    /\ closure' = [closure EXCEPT ![q.ask.id] =
                      [old |-> q.row.status, new |-> q.new.status]]
    /\ Answer(r)
    /\ UNCHANGED <<today, collaborators, assignees, gridVars, lockVars>>

\* Mutant of Refreshed: the lock is taken, the status is not read again.
NotRefreshed(loaded, current) == loaded

\* reopen_booking refreshes the status, and only it, under the row lock.
Refreshed(loaded, current) == [loaded EXCEPT !.status = current.status]

CommitReopen(r) ==
    LET q == request[r]
        b == q.ask.id
        row == Refreshed(q.row, booking[b])
    IN  /\ IsAt(r, "LOADED", "reopen")
        /\ ReopenAllowed(q.ask.by, row)
        /\ Flush(b, Merge(booking[b], row, ReopenedRow(row, closure[b])))
        /\ Answer(r)
        /\ UNCHANGED <<today, collaborators, assignees, closure, gridVars, lockVars>>

\* Mutant of AssignmentsToReplace: those loaded with the booking.
AssignmentsLoaded(r) == request[r].assigned

\* assign_users_to_booking rereads the assignments under the row lock.
AssignmentsToReplace(r) == assignees[request[r].ask.id]

CommitAssign(r) ==
    LET k == request[r].ask IN
    /\ IsAt(r, "CHECKED", "assign")
    /\ assignees' = [assignees EXCEPT ![k.id] =
                        (assignees[k.id] \ AssignmentsToReplace(r)) \cup {k.manager}]
    /\ Answer(r)
    /\ UNCHANGED <<today, booking, collaborators, closure, gridVars, lockVars>>

CommitSlots(r) ==
    /\ IsAt(r, "CHECKED", "replaceSlots")
    /\ slotRow' = [s \in Slots |-> IF s \in request[r].ask.grid THEN "ENABLED" ELSE "MISSING"]
    /\ Answer(r)
    /\ UNCHANGED <<today, recordVars, lockVars, capacity, holiday, settings, tenant>>

DayPasses ==
    /\ today < LastDay
    /\ today' = today + 1
    /\ UNCHANGED <<recordVars, gridVars, lockVars, request>>

Commit(r) ==
    \/ \E b \in Bookings : CommitCreate(r, b)
    \/ CommitRow(r)
    \/ CommitStatus(r)
    \/ CommitReopen(r)
    \/ CommitAssign(r)
    \/ CommitSlots(r)

Next ==
    \/ \E r \in Requests :
          \/ \E k \in Asks : Load(r, k)
          \/ Check(r)
          \/ Commit(r)
          \/ Fail(r)
    \/ DayPasses

vars == <<boardVars, request>>

Spec == Init /\ [][Next]_vars

-----------------------------------------------------------------------------
(* Properties that hold *)

\* The tables and the requests in flight keep their types.
TypeOK == TablesOK /\ request \in [Requests -> Request]

\* A schedule has one assigned Release Manager at most, however many assignments
\* of it run at once: the row lock and the reread make replacements serial.
OneAssignee ==
    \A b \in Bookings : \A m, n \in assignees[b] : m = n

Reopens(r) == IsAt(r, "LOADED", "reopen") /\ request'[r] = Idle /\ booking' # booking

OnlyClosedAreReopened ==
    \A r \in Requests : Reopens(r) => booking[request[r].ask.id].status = "COMPLETED"

\* Reopening takes closed records only: a repeated click, or one that comes
\* after somebody else reopened and cancelled the record, changes nothing.
ReopenTakesClosedRecords == [][OnlyClosedAreReopened]_vars

\* Whoever loads a record after it was closed or cancelled changes neither its status
\* nor its place, but to reopen a closed one: that an answered request can still
\* rewrite it takes a request that loaded it before.
Rewrites(r, b) ==
    /\ request[r].ask.id = b /\ request'[r] = Idle
    /\ \/ request[r].row.status # booking[b].status
       \/ IsAt(r, "LOADED", "reopen") /\ booking[b].status = "COMPLETED"

FinishedIsRewrittenByStaleRequestsOnly ==
    [][\A b \in Bookings :
          /\ booking[b].status \in {"COMPLETED", "CANCELLED"}
          /\ booking'[b] # [booking[b] EXCEPT !.tenant = booking'[b].tenant]
          => \E r \in Requests : Rewrites(r, b)]_vars
=============================================================================
