-------------------------- MODULE SchedulerTx_proofs --------------------------
(***************************************************************************)
(* What the unique index and the row locks guarantee however many requests *)
(* interleave, for every value of the constants.                           *)
(***************************************************************************)
EXTENDS SchedulerTx, BookingRules_proofs

(***************************************************************************)
(* Types                                                                   *)
(***************************************************************************)

\* What a payload holds.
LEMMA AskParts ==
    ASSUME NEW k \in Asks
    PROVE  /\ k.op \in Operations /\ k.by \in Accounts /\ k.id \in Bookings
           /\ k.tenant \in Tenants /\ k.day \in Days /\ k.slot \in 0..MaxSlots
           /\ k.manager \in Managers /\ k.grid \subseteq Slots
BY AsksAssumption DEF Ask

\* What a request in flight holds.
LEMMA RequestParts ==
    ASSUME TypeOK, NEW r \in Requests
    PROVE  /\ request[r].phase \in Phases /\ request[r].ask \in Asks
           /\ request[r].row \in Row /\ request[r].new \in Row
           /\ request[r].assigned \subseteq Managers
           /\ request[r].ask.id \in Bookings
<1>1. request[r] \in Request
  BY DEF TypeOK
<1> QED
  BY <1>1, AskParts DEF Request

\* An idle request has the type of a request in flight.
LEMMA IdleType == Idle \in Request
BY AsksAssumption, VacantRowType DEF Idle, Request, Phases

\* With no request in flight the types hold.
LEMMA InitTypeOK == Init => TypeOK
BY EmptyBoardTypes, IdleType DEF Init, TypeOK

\* An UPDATE of the changed columns leaves a row of the table.
LEMMA MergeType ==
    ASSUME NEW x \in Row, NEW y \in Row, NEW z \in Row
    PROVE  Merge(x, y, z) \in Row
<1> DEFINE F == {"status", "day", "slot", "tenant", "emergency", "creator", "change"}
<1>1. DOMAIN x = F
  BY DEF Row
<1>2. Merge(x, y, z) = [f \in F |-> IF z[f] # y[f] THEN z[f] ELSE x[f]]
  BY <1>1 DEF Merge
<1> DEFINE m == [f \in F |-> IF z[f] # y[f] THEN z[f] ELSE x[f]]
<1>3. m = [status |-> m.status, day |-> m.day, slot |-> m.slot, tenant |-> m.tenant,
           emergency |-> m.emergency, creator |-> m.creator, change |-> m.change]
  OBVIOUS
<1>4. \A f \in F : m[f] = z[f] \/ m[f] = x[f]
  OBVIOUS
<1>5. /\ m.status \in Statuses /\ m.day \in Days /\ m.slot \in 0..MaxSlots
      /\ m.tenant \in Tenants /\ m.emergency \in BOOLEAN /\ m.creator \in Accounts
      /\ m.change \in BOOLEAN
  BY <1>4 DEF Row
<1> HIDE DEF m
<1> QED
  BY <1>2, <1>3, <1>5 DEF Row, m

\* A check that passed stages a row of the table.
LEMMA StageType ==
    ASSUME TypeOK, NEW r \in Requests, NEW row \in Row, Stage(r, row)
    PROVE  TypeOK'
<1>1. request' \in [Requests -> Request]
  BY DEF TypeOK, Stage, Request, Phases
<1>2. TablesOK'
  BY DEF TypeOK, Stage, boardVars, recordVars, gridVars, lockVars, TablesOK,
         RecordsOK, LocksOK, GridOK
<1> QED
  BY <1>1, <1>2 DEF TypeOK

\* An answered request leaves the others typed.
LEMMA AnswerType ==
    ASSUME TypeOK, NEW r \in Requests, Answer(r)
    PROVE  request' \in [Requests -> Request]
BY IdleType DEF TypeOK, Answer

\* Every check stages a row of the table.
LEMMA CheckType ==
    ASSUME TypeOK, NEW r \in Requests, Check(r)
    PROVE  TypeOK'
<1> DEFINE q == request[r]
           k == q.ask
<1>1. /\ q.row \in Row /\ k.by \in Accounts /\ k.tenant \in Tenants
      /\ k.day \in Days /\ k.slot \in 0..MaxSlots
  BY RequestParts, AskParts
<1>2. NoClosure \in Closure
  BY NoClosureType
<1>3. /\ CreatedRow(k.by, k.tenant, k.day, k.slot, FALSE) \in Row
      /\ UpdatedRow(q.row, k.tenant, k.day, k.slot) \in Row
      /\ RescheduledRow(q.row, k.day, k.slot) \in Row
      /\ CancelledRow(q.row) \in Row
      /\ ClosedRow(q.row) \in Row
      /\ StartedRow(q.row) \in Row
  BY <1>1, <1>2, WrittenRowTypes
<1>4. \E row \in Row : Stage(r, row)
  BY <1>1, <1>3 DEF Check, CheckCreate, CheckUpdate, CheckCancel, CheckReschedule,
        CheckClose, CheckKeepOpen, CheckStart, CheckAssign, CheckSlots
<1> QED
  BY <1>4, StageType

\* What a commit writes into the booking table.
LEMMA FlushType ==
    ASSUME TypeOK, NEW b \in Bookings, NEW row \in Row, Flush(b, row)
    PROVE  booking' \in [Bookings -> Row]
BY DEF TypeOK, TablesOK, RecordsOK, Flush

\* The row each commit flushes.
LEMMA CommitWrites ==
    ASSUME TypeOK, NEW r \in Requests, Commit(r)
    PROVE  \/ UNCHANGED booking
           \/ \E b \in Bookings, row \in Row : Flush(b, row)
<1> DEFINE q == request[r]
           b == q.ask.id
<1>1. /\ q.row \in Row /\ q.new \in Row /\ b \in Bookings
      /\ booking[b] \in Row /\ closure[b] \in Closure
  BY RequestParts DEF TypeOK, TablesOK, RecordsOK
<1>2. CASE \E c \in Bookings : CommitCreate(r, c)
  BY <1>1, <1>2 DEF CommitCreate
<1>3. CASE CommitRow(r) \/ CommitStatus(r)
  BY <1>1, <1>3, MergeType DEF CommitRow, CommitStatus
<1>4. CASE CommitReopen(r)
  <2> DEFINE row == Refreshed(q.row, booking[b])
  <2>1. row \in Row
    BY <1>1 DEF Refreshed, Row
  <2>2. ReopenedRow(row, closure[b]) \in Row
    BY <2>1, <1>1 DEF ReopenedRow, RestoredStatus, Row, Statuses, Closure
  <2>3. Merge(booking[b], row, ReopenedRow(row, closure[b])) \in Row
    BY <1>1, <2>1, <2>2, MergeType
  <2> QED
    BY <1>1, <1>4, <2>3 DEF CommitReopen
<1>5. CASE CommitAssign(r) \/ CommitSlots(r)
  BY <1>5 DEF CommitAssign, CommitSlots, recordVars
<1> QED
  BY <1>2, <1>3, <1>4, <1>5 DEF Commit

\* Every commit writes rows, closures, assignments or slots of their types.
LEMMA CommitType ==
    ASSUME TypeOK, NEW r \in Requests, Commit(r)
    PROVE  TypeOK'
<1>1. booking' \in [Bookings -> Row]
  BY CommitWrites, FlushType DEF TypeOK, TablesOK, RecordsOK
<1>2. request' \in [Requests -> Request]
  BY AnswerType DEF Commit, CommitCreate, CommitRow, CommitStatus, CommitReopen,
        CommitAssign, CommitSlots
<1>3. CASE CommitStatus(r)
  <2>1. closure' \in [Bookings -> Closure]
    <3>1. /\ request[r].row.status \in Statuses /\ request[r].new.status \in Statuses
          /\ closure \in [Bookings -> Closure]
      BY RequestParts DEF Row, TypeOK, TablesOK, RecordsOK
    <3> QED
      BY <3>1, <1>3 DEF CommitStatus, Closure
  <2> QED
    BY <1>1, <1>2, <1>3, <2>1 DEF CommitStatus, TypeOK, TablesOK, RecordsOK, GridOK,
          LocksOK, gridVars, lockVars
<1>4. CASE \E b \in Bookings : CommitCreate(r, b)
  BY <1>1, <1>2, <1>4 DEF CommitCreate, TypeOK, TablesOK, RecordsOK, GridOK, LocksOK,
        gridVars, lockVars
<1>5. CASE CommitRow(r)
  BY <1>1, <1>2, <1>5 DEF CommitRow, TypeOK, TablesOK, RecordsOK, GridOK, LocksOK,
        gridVars, lockVars
<1>6. CASE CommitReopen(r)
  BY <1>1, <1>2, <1>6 DEF CommitReopen, TypeOK, TablesOK, RecordsOK, GridOK, LocksOK,
        gridVars, lockVars
<1>7. CASE CommitAssign(r)
  <2>1. request[r].ask.manager \in Managers /\ assignees \in [Bookings -> SUBSET Managers]
    BY RequestParts, AskParts DEF TypeOK, TablesOK, RecordsOK
  <2>2. assignees' \in [Bookings -> SUBSET Managers]
    BY <1>7, <2>1 DEF CommitAssign
  <2> QED
    BY <1>1, <1>2, <1>7, <2>2 DEF CommitAssign, TypeOK, TablesOK, RecordsOK, GridOK,
          LocksOK, gridVars, lockVars
<1>8. CASE CommitSlots(r)
  <2>1. slotRow' \in [Slots -> {"MISSING", "ENABLED", "DISABLED"}]
    BY <1>8 DEF CommitSlots
  <2> QED
    BY <1>1, <1>2, <1>8, <2>1 DEF CommitSlots, TypeOK, TablesOK, RecordsOK, GridOK,
          LocksOK, recordVars, lockVars
<1> QED
  BY <1>3, <1>4, <1>5, <1>6, <1>7, <1>8 DEF Commit

\* Loading, checking, committing and failing keep the types.
LEMMA StepTypeOK == TypeOK /\ [Next]_vars => TypeOK'
<1> SUFFICES ASSUME TypeOK, [Next]_vars PROVE TypeOK'
  OBVIOUS
<1>1. ASSUME UNCHANGED boardVars PROVE TablesOK'
  BY <1>1 DEF TypeOK, boardVars, recordVars, gridVars, lockVars, TablesOK, RecordsOK,
        LocksOK, GridOK
<1>2. ASSUME NEW r \in Requests, NEW k \in Asks, Load(r, k)
      PROVE  TypeOK'
  <2>1. booking[k.id] \in Row /\ assignees[k.id] \subseteq Managers
    BY AskParts DEF TypeOK, TablesOK, RecordsOK
  <2>2. [Idle EXCEPT !.phase = "LOADED", !.ask = k, !.row = booking[k.id],
                     !.assigned = assignees[k.id]] \in Request
    BY <2>1, IdleType DEF Request, Phases
  <2> QED
    BY <1>1, <1>2, <2>2 DEF Load, TypeOK
<1>3. ASSUME NEW r \in Requests, Fail(r)
      PROVE  TypeOK'
  BY <1>1, <1>3, AnswerType DEF Fail, TypeOK
<1>4. CASE DayPasses
  <2>1. today' \in Days
    BY <1>4, SizesAssumption DEF DayPasses, TypeOK, TablesOK, Days
  <2>2. RecordsOK' /\ LocksOK' /\ GridOK'
    BY <1>4 DEF DayPasses, TypeOK, recordVars, gridVars, lockVars, TablesOK, RecordsOK,
          LocksOK, GridOK
  <2> QED
    BY <1>4, <2>1, <2>2 DEF DayPasses, TypeOK, TablesOK
<1>5. CASE UNCHANGED vars
  BY <1>1, <1>5 DEF vars, TypeOK
<1> QED
  BY <1>2, <1>3, <1>4, <1>5, CheckType, CommitType DEF Next

\* Whatever requests interleave, tables and requests keep their types: a row that
\* two requests wrote column by column is still a row of the table.
THEOREM TypeCorrect == Spec => []TypeOK
BY InitTypeOK, StepTypeOK, PTL DEF Spec

(***************************************************************************)
(* The unique index arbitrates over slots                                  *)
(***************************************************************************)

\* Only a commit writes the booking table.
LEMMA StepWrites ==
    ASSUME TypeOK, [Next]_vars
    PROVE  \/ UNCHANGED booking
           \/ \E b \in Bookings, row \in Row : Flush(b, row)
<1>1. ASSUME NEW r \in Requests, Check(r) PROVE UNCHANGED booking
  BY <1>1 DEF Check, CheckCreate, CheckUpdate, CheckCancel, CheckReschedule, CheckClose,
        CheckKeepOpen, CheckStart, CheckAssign, CheckSlots, Stage, boardVars, recordVars
<1>2. ASSUME NEW r \in Requests, NEW k \in Asks, Load(r, k) \/ Fail(r)
      PROVE  UNCHANGED booking
  BY <1>2 DEF Load, Fail, boardVars, recordVars
<1>3. ASSUME NEW r \in Requests, Fail(r) PROVE UNCHANGED booking
  BY <1>3 DEF Fail, boardVars, recordVars
<1>4. CASE DayPasses \/ UNCHANGED vars
  BY <1>4 DEF DayPasses, vars, boardVars, recordVars
<1> QED
  BY <1>1, <1>2, <1>3, <1>4, CommitWrites DEF Next

\* A row the index accepts holds a place of its own.
LEMMA FlushKeepsSlots ==
    ASSUME TypeOK, SlotExclusive, NEW b \in Bookings, NEW row \in Row, Flush(b, row)
    PROVE  SlotExclusive'
<1>1. \A c \in Bookings : booking'[c] = IF c = b THEN row ELSE booking[c]
  BY DEF TypeOK, TablesOK, RecordsOK, Flush
<1>2. \A c \in Bookings \ {b} :
         Active(row) /\ ~row.emergency /\ Active(booking[c]) /\ ~booking[c].emergency
            => <<row.day, row.slot>> # <<booking[c].day, booking[c].slot>>
  BY DEF Flush, IndexClash
<1>3. SUFFICES ASSUME NEW c \in Bookings, NEW d \in Bookings, c # d,
                      Active(booking'[c]), ~booking'[c].emergency,
                      Active(booking'[d]), ~booking'[d].emergency
               PROVE  <<booking'[c].day, booking'[c].slot>> # <<booking'[d].day, booking'[d].slot>>
  BY DEF SlotExclusive, Active
<1>4. CASE c = b
  BY <1>1, <1>2, <1>3, <1>4
<1>5. CASE d = b
  BY <1>1, <1>2, <1>3, <1>5
<1>6. CASE c # b /\ d # b
  BY <1>1, <1>3, <1>6 DEF SlotExclusive
<1> QED
  BY <1>4, <1>5, <1>6

\* The index refuses every row that would share its slot.
LEMMA StepSlots == TypeOK /\ SlotExclusive /\ [Next]_vars => SlotExclusive'
<1> SUFFICES ASSUME TypeOK, SlotExclusive, [Next]_vars PROVE SlotExclusive'
  OBVIOUS
<1>1. CASE UNCHANGED booking
  BY <1>1 DEF SlotExclusive, Active
<1> QED
  BY <1>1, StepWrites, FlushKeepsSlots

\* Whatever stale copies requests checked, no two standing normal bookings ever
\* hold the same slot of the same date.
THEOREM SlotsExclusive == Spec => []SlotExclusive
<1>1. Init => SlotExclusive
  BY DEF Init, EmptyBoard, SlotExclusive, VacantRow, Active, ActiveStatuses
<1> QED
  BY <1>1, InitTypeOK, StepTypeOK, StepSlots, PTL DEF Spec

(***************************************************************************)
(* The row lock makes assignments serial                                   *)
(***************************************************************************)

\* An assignment replaces all that are committed when it holds the row lock.
LEMMA StepAssignee == TypeOK /\ OneAssignee /\ [Next]_vars => OneAssignee'
<1> SUFFICES ASSUME TypeOK, OneAssignee, [Next]_vars PROVE OneAssignee'
  OBVIOUS
<1>1. CASE UNCHANGED assignees
  BY <1>1 DEF OneAssignee
<1>2. ASSUME NEW r \in Requests, CommitAssign(r)
      PROVE  OneAssignee'
  <2>1. assignees' = [assignees EXCEPT ![request[r].ask.id] = {request[r].ask.manager}]
    BY <1>2 DEF CommitAssign, AssignmentsToReplace
  <2> QED
    BY <2>1 DEF OneAssignee, TypeOK, TablesOK, RecordsOK
<1>3. ASSUME NEW r \in Requests, Check(r) PROVE UNCHANGED assignees
  BY <1>3 DEF Check, CheckCreate, CheckUpdate, CheckCancel, CheckReschedule, CheckClose,
        CheckKeepOpen, CheckStart, CheckAssign, CheckSlots, Stage, boardVars, recordVars
<1>4. ASSUME NEW r \in Requests, Commit(r), ~CommitAssign(r) PROVE UNCHANGED assignees
  BY <1>4 DEF Commit, CommitCreate, CommitRow, CommitStatus, CommitReopen, CommitSlots,
        recordVars
<1>5. ASSUME NEW r \in Requests, NEW k \in Asks, Load(r, k) PROVE UNCHANGED assignees
  BY <1>5 DEF Load, boardVars, recordVars
<1>6. ASSUME NEW r \in Requests, Fail(r) PROVE UNCHANGED assignees
  BY <1>6 DEF Fail, boardVars, recordVars
<1>7. ASSUME DayPasses \/ UNCHANGED vars PROVE UNCHANGED assignees
  BY <1>7 DEF DayPasses, vars, boardVars, recordVars
<1> QED
  BY <1>1, <1>2, <1>3, <1>4, <1>5, <1>6, <1>7 DEF Next

\* However many assignments of a schedule run at once, one Release Manager
\* remains: the last to get the row lock.
THEOREM AssigneeUnique == Spec => []OneAssignee
<1>1. Init => OneAssignee
  BY DEF Init, EmptyBoard, OneAssignee
<1> QED
  BY <1>1, InitTypeOK, StepTypeOK, StepAssignee, PTL DEF Spec

(***************************************************************************)
(* Reopening decides on the status it reads under the lock                 *)
(***************************************************************************)

\* A request that leaves another one as it was did not reopen for it.
LEMMA OtherRequestsStay ==
    ASSUME TypeOK, NEW r \in Requests, NEW o \in Requests, o # r,
           (\E q \in Request : request' = [request EXCEPT ![o] = q])
    PROVE  request'[r] = request[r]
BY DEF TypeOK

\* The reread status is the committed one, so only a closed record is accepted.
LEMMA CommitReopenIsOfClosed ==
    ASSUME TypeOK, NEW r \in Requests, CommitReopen(r)
    PROVE  booking[request[r].ask.id].status = "COMPLETED"
<1>1. request[r].row \in Row
  BY RequestParts
<1>2. Refreshed(request[r].row, booking[request[r].ask.id]).status
         = booking[request[r].ask.id].status
  BY <1>1 DEF Refreshed, Row
<1> QED
  BY <1>2 DEF CommitReopen, ReopenAllowed

\* Of all steps only a reopening commit ends a reopen request and writes a record.
LEMMA StepReopens == TypeOK /\ [Next]_vars => OnlyClosedAreReopened
<1> SUFFICES ASSUME TypeOK, [Next]_vars, NEW r \in Requests, Reopens(r)
             PROVE  booking[request[r].ask.id].status = "COMPLETED"
  BY DEF OnlyClosedAreReopened
<1>1. request[r].phase = "LOADED" /\ request[r].ask.op = "reopen"
  BY DEF Reopens, IsAt
<1>2. request'[r] # request[r] /\ booking' # booking
  BY <1>1 DEF Reopens, Idle
<1>3. ASSUME NEW o \in Requests, Commit(o), o # r PROVE FALSE
  <2>1. Answer(o)
    BY <1>3 DEF Commit, CommitCreate, CommitRow, CommitStatus, CommitReopen, CommitAssign, CommitSlots
  <2> QED
    BY <1>2, <1>3, <2>1, OtherRequestsStay, IdleType DEF Answer
<1>4. CASE Commit(r)
  BY <1>1, <1>4, CommitReopenIsOfClosed DEF Commit, CommitCreate, CommitRow, CommitStatus,
        CommitAssign, CommitSlots, IsAt
<1>5. ASSUME NEW o \in Requests, Check(o) PROVE UNCHANGED booking
  BY <1>5 DEF Check, CheckCreate, CheckUpdate, CheckCancel, CheckReschedule, CheckClose,
        CheckKeepOpen, CheckStart, CheckAssign, CheckSlots, Stage, boardVars, recordVars
<1>6. ASSUME NEW o \in Requests, NEW k \in Asks, Load(o, k) PROVE UNCHANGED booking
  BY <1>6 DEF Load, boardVars, recordVars
<1>7. ASSUME DayPasses \/ UNCHANGED vars PROVE UNCHANGED booking
  BY <1>7 DEF DayPasses, vars, boardVars, recordVars
<1>8. ASSUME NEW o \in Requests, Fail(o) PROVE UNCHANGED booking
  BY <1>8 DEF Fail, boardVars, recordVars
<1> QED
  BY <1>2, <1>3, <1>4, <1>5, <1>6, <1>7, <1>8 DEF Next

\* Repeated and late reopen requests, interleaved with anything, change a record
\* only if it is closed when the lock is taken.
THEOREM ReopeningIsOfClosed == Spec => ReopenTakesClosedRecords
<1>1. TypeOK /\ [Next]_vars => [OnlyClosedAreReopened]_vars
  BY StepReopens
<1> QED
  BY <1>1, TypeCorrect, PTL DEF Spec, ReopenTakesClosedRecords

(***************************************************************************)
(* A finished record is rewritten by stale requests only                   *)
(***************************************************************************)

Finished == {"COMPLETED", "CANCELLED"}
Writing == {"update", "cancel", "reschedule", "close", "keepOpen", "start"}
OnlyTenantDiffers(new, row) == new = [row EXCEPT !.tenant = new.tenant]

NoEmergencies ==
    /\ \A b \in Bookings : ~booking[b].emergency
    /\ \A r \in Requests : ~request[r].row.emergency /\ ~request[r].new.emergency

\* What passed the checks of a finished record changes its tenant at most.
StagedForFinished ==
    \A r \in Requests :
       /\ request[r].phase = "CHECKED" /\ request[r].ask.op \in Writing
       /\ request[r].row.status \in Finished
       => OnlyTenantDiffers(request[r].new, request[r].row)

FinishedInv == TypeOK /\ NoEmergencies /\ StagedForFinished

\* A column that was not staged is not written.
LEMMA MergeOfTenant ==
    ASSUME NEW x \in Row, NEW y \in Row, NEW z \in Row, OnlyTenantDiffers(z, y)
    PROVE  OnlyTenantDiffers(Merge(x, y, z), x)
<1> DEFINE F == {"status", "day", "slot", "tenant", "emergency", "creator", "change"}
           m == Merge(x, y, z)
<1>1. DOMAIN x = F /\ DOMAIN y = F /\ DOMAIN z = F
  BY DEF Row
<1>2. m = [f \in F |-> IF z[f] # y[f] THEN z[f] ELSE x[f]]
  BY <1>1 DEF Merge
<1>3. \A f \in F \ {"tenant"} : z[f] = y[f]
  BY <1>1 DEF OnlyTenantDiffers
<1> HIDE DEF m
<1>4. \A f \in F \ {"tenant"} : m[f] = x[f]
  BY <1>2, <1>3
<1>5. m = [x EXCEPT !["tenant"] = m["tenant"]]
  <2>1. x = [f \in F |-> x[f]]
    BY DEF Row
  <2> QED
    BY <1>1, <1>2, <1>4, <2>1
<1> QED
  BY <1>5 DEF OnlyTenantDiffers, m

\* The flag is no column any request here writes.
LEMMA MergeOfNormal ==
    ASSUME NEW x \in Row, NEW y \in Row, NEW z \in Row,
           ~x.emergency, ~y.emergency, ~z.emergency
    PROVE  ~Merge(x, y, z).emergency
<1>1. "emergency" \in DOMAIN x
  BY DEF Row
<1> QED
  BY <1>1 DEF Merge

\* The row a check stages, and what it can be of a finished record.
LEMMA CheckStages ==
    ASSUME FinishedInv, NEW r \in Requests, Check(r)
    PROVE  \E new \in Row :
              /\ Stage(r, new) /\ ~new.emergency
              /\ request[r].ask.op \in Writing /\ request[r].row.status \in Finished
                    => OnlyTenantDiffers(new, request[r].row)
<1> DEFINE q == request[r]
           k == q.ask
           Staged(new) ==
              /\ Stage(r, new) /\ ~new.emergency
              /\ k.op \in Writing /\ q.row.status \in Finished
                    => OnlyTenantDiffers(new, q.row)
<1>1. /\ TypeOK /\ q.row \in Row /\ ~q.row.emergency
      /\ k.by \in Accounts /\ k.tenant \in Tenants /\ k.day \in Days /\ k.slot \in 0..MaxSlots
  BY RequestParts, AskParts DEF FinishedInv, NoEmergencies
<1>2. /\ CreatedRow(k.by, k.tenant, k.day, k.slot, FALSE) \in Row
      /\ UpdatedRow(q.row, k.tenant, k.day, k.slot) \in Row
      /\ RescheduledRow(q.row, k.day, k.slot) \in Row
      /\ CancelledRow(q.row) \in Row /\ ClosedRow(q.row) \in Row /\ StartedRow(q.row) \in Row
  BY <1>1, NoClosureType, WrittenRowTypes
<1> SUFFICES \E new \in Row : Staged(new)
  OBVIOUS
<1>3. CASE CheckCreate(r)
  <2>1. k.op \notin Writing /\ ~CreatedRow(k.by, k.tenant, k.day, k.slot, FALSE).emergency
    BY <1>3 DEF CheckCreate, IsAt, Writing, CreatedRow
  <2> QED
    BY <1>2, <1>3, <2>1 DEF CheckCreate
<1>4. CASE CheckUpdate(r)
  <2> DEFINE new == UpdatedRow(q.row, k.tenant, k.day, k.slot)
  <2>1. /\ UpdateAllowed(k.by, k.id, q.row, k.tenant, k.day, k.slot, FALSE)
        /\ Stage(r, new)
    BY <1>4 DEF CheckUpdate
  <2>2. ~new.emergency
    BY <1>1 DEF UpdatedRow, Row
  <2>3. q.row.status # "CANCELLED"
    BY <2>1 DEF UpdateAllowed, Mutable
  <2>4. ASSUME q.row.status = "COMPLETED" PROVE OnlyTenantDiffers(new, q.row)
    <3>1. k.day = q.row.day /\ AskedSlot(q.row, k.slot) = q.row.slot
      BY <2>1, <2>4 DEF UpdateAllowed
    <3>2. new = [q.row EXCEPT !.tenant = k.tenant, !.day = q.row.day, !.slot = q.row.slot]
      BY <1>1, <3>1 DEF UpdatedRow
    <3> QED
      BY <1>1, <3>2 DEF OnlyTenantDiffers, Row
  <2> QED
    BY <1>2, <2>1, <2>2, <2>3, <2>4 DEF Finished
<1>5. CASE CheckCancel(r)
  <2>1. q.row.status \notin Finished /\ ~CancelledRow(q.row).emergency
    BY <1>1, <1>5 DEF CheckCancel, CancelAllowed, CancelledRow, Row, Finished
  <2> QED
    BY <1>2, <1>5, <2>1 DEF CheckCancel
<1>6. CASE CheckReschedule(r)
  <2>1. q.row.status \notin Finished /\ ~RescheduledRow(q.row, k.day, k.slot).emergency
    BY <1>1, <1>6 DEF CheckReschedule, RescheduleAllowed, Reschedulable, RescheduledRow, Row,
                      Finished
  <2> QED
    BY <1>2, <1>6, <2>1 DEF CheckReschedule
<1>7. CASE CheckClose(r)
  <2>1. q.row.status \notin Finished /\ ~ClosedRow(q.row).emergency
    BY <1>1, <1>7 DEF CheckClose, CloseAllowed, ClosedRow, Row, Finished
  <2> QED
    BY <1>2, <1>7, <2>1 DEF CheckClose
<1>8. CASE CheckKeepOpen(r)
  <2>1. q.row.status \notin Finished
    BY <1>8 DEF CheckKeepOpen, KeepOpenAllowed, Finished
  <2> QED
    BY <1>1, <1>8, <2>1 DEF CheckKeepOpen
<1>9. CASE CheckStart(r)
  <2>1. q.row.status \notin Finished /\ ~StartedRow(q.row).emergency
    BY <1>1, <1>9 DEF CheckStart, StartWorkAllowed, StartedRow, Row, Finished
  <2> QED
    BY <1>2, <1>9, <2>1 DEF CheckStart
<1>10. CASE CheckAssign(r) \/ CheckSlots(r)
  <2>1. k.op \notin Writing /\ Stage(r, q.row)
    BY <1>10 DEF CheckAssign, CheckSlots, IsAt, Writing
  <2> QED
    BY <1>1, <2>1
<1> QED
  BY <1>3, <1>4, <1>5, <1>6, <1>7, <1>8, <1>9, <1>10 DEF Check

\* The row of one record is all a commit writes: a new one, a merge of what was staged,
\* or a record reopened under its lock.
LEMMA CommitOf ==
    ASSUME TypeOK, NEW r \in Requests, Commit(r)
    PROVE  LET q == request[r] IN
           /\ request' = [request EXCEPT ![r] = Idle]
           /\ \/ UNCHANGED booking
              \/ \E b \in Bookings : CommitCreate(r, b)
              \/ /\ q.phase = "CHECKED" /\ q.ask.op \in Writing
                 /\ booking' = [booking EXCEPT ![q.ask.id] = Merge(booking[q.ask.id], q.row, q.new)]
              \/ CommitReopen(r)
<1>1. Answer(r)
  BY DEF Commit, CommitCreate, CommitRow, CommitStatus, CommitReopen, CommitAssign, CommitSlots
<1>2. CASE CommitRow(r) \/ CommitStatus(r)
  BY <1>1, <1>2 DEF CommitRow, CommitStatus, Flush, IsAt, Writing, Answer
<1>3. CASE CommitAssign(r) \/ CommitSlots(r)
  BY <1>1, <1>3 DEF CommitAssign, CommitSlots, recordVars, Answer
<1> QED
  BY <1>1, <1>2, <1>3 DEF Commit, Answer

\* The record every request starts from is no emergency change.
LEMMA InitFinished == Init => FinishedInv
<1> SUFFICES ASSUME Init PROVE FinishedInv
  OBVIOUS
<1>1. /\ \A r \in Requests : request[r] = Idle
      /\ \A b \in Bookings : booking[b] = VacantRow
  BY DEF Init, EmptyBoard
<1>2. Idle.phase = "IDLE" /\ ~Idle.row.emergency /\ ~Idle.new.emergency
  BY DEF Idle, VacantRow
<1>3. ~VacantRow.emergency
  BY DEF VacantRow
<1>4. NoEmergencies
  BY <1>1, <1>2, <1>3 DEF NoEmergencies
<1>5. StagedForFinished
  BY <1>1, <1>2 DEF StagedForFinished
<1> QED
  BY <1>4, <1>5, InitTypeOK DEF FinishedInv

\* A step on one request leaves it right.
LEMMA RequestStep ==
    ASSUME FinishedInv, TypeOK', NEW r \in Requests, NEW q \in Request,
           request' = [request EXCEPT ![r] = q],
           ~q.row.emergency, ~q.new.emergency,
           q.phase = "CHECKED" /\ q.ask.op \in Writing /\ q.row.status \in Finished
              => OnlyTenantDiffers(q.new, q.row),
           \A b \in Bookings : ~booking'[b].emergency
    PROVE  FinishedInv'
<1>1. \A o \in Requests : request'[o] = IF o = r THEN q ELSE request[o]
  BY DEF FinishedInv, TypeOK
<1>2. NoEmergencies'
  BY <1>1 DEF FinishedInv, NoEmergencies
<1>3. StagedForFinished'
  BY <1>1 DEF FinishedInv, StagedForFinished
<1> QED
  BY <1>2, <1>3 DEF FinishedInv

\* Loading, checking, committing and failing keep it.
LEMMA StepFinished == FinishedInv /\ [Next]_vars => FinishedInv'
<1> SUFFICES ASSUME FinishedInv, [Next]_vars PROVE FinishedInv'
  OBVIOUS
<1>1. TypeOK /\ TypeOK' /\ \A b \in Bookings : ~booking[b].emergency
  BY StepTypeOK DEF FinishedInv, NoEmergencies
<1>2. /\ Idle \in Request /\ ~Idle.row.emergency /\ ~Idle.new.emergency /\ Idle.phase = "IDLE"
  BY IdleType DEF Idle, VacantRow
<1>3. ASSUME NEW r \in Requests, NEW k \in Asks, Load(r, k) PROVE FinishedInv'
  <2> DEFINE q == [Idle EXCEPT !.phase = "LOADED", !.ask = k, !.row = booking[k.id],
                               !.assigned = assignees[k.id]]
  <2>1. booking[k.id] \in Row /\ assignees[k.id] \subseteq Managers /\ ~booking[k.id].emergency
    BY <1>1, AskParts DEF TypeOK, TablesOK, RecordsOK
  <2>2. q \in Request /\ ~q.row.emergency /\ ~q.new.emergency /\ q.phase # "CHECKED"
    BY <2>1, <1>2 DEF Request, Phases, Idle
  <2>3. request' = [request EXCEPT ![r] = q] /\ booking' = booking
    BY <1>3 DEF Load, boardVars, recordVars
  <2> HIDE DEF q
  <2> QED
    BY <1>1, <2>2, <2>3, RequestStep
<1>4. ASSUME NEW r \in Requests, Check(r) PROVE FinishedInv'
  <2>1. PICK new \in Row :
           /\ Stage(r, new) /\ ~new.emergency
           /\ request[r].ask.op \in Writing /\ request[r].row.status \in Finished
                 => OnlyTenantDiffers(new, request[r].row)
    BY <1>4, CheckStages
  <2> DEFINE q == [request[r] EXCEPT !.phase = "CHECKED", !.new = new]
  <2>2. request[r] \in Request /\ ~request[r].row.emergency
    BY <1>1 DEF TypeOK, FinishedInv, NoEmergencies
  <2>3. /\ q \in Request /\ q.row = request[r].row /\ q.new = new /\ q.ask = request[r].ask
    BY <2>2 DEF Request, Phases
  <2>4. request' = [request EXCEPT ![r] = q] /\ booking' = booking
    BY <1>1, <2>1, <2>2 DEF Stage, boardVars, recordVars, TypeOK, Request
  <2> HIDE DEF q
  <2> QED
    BY <1>1, <2>1, <2>2, <2>3, <2>4, RequestStep
<1>5. ASSUME NEW r \in Requests, Commit(r) PROVE FinishedInv'
  <2> DEFINE q == request[r]
             b == q.ask.id
  <2>1. /\ request' = [request EXCEPT ![r] = Idle]
        /\ \/ UNCHANGED booking
           \/ \E c \in Bookings : CommitCreate(r, c)
           \/ booking' = [booking EXCEPT ![b] = Merge(booking[b], q.row, q.new)]
           \/ CommitReopen(r)
    BY <1>1, <1>5, CommitOf
  <2>2. /\ q.row \in Row /\ q.new \in Row /\ b \in Bookings
        /\ booking \in [Bookings -> Row] /\ ~q.row.emergency /\ ~q.new.emergency
    BY <1>1, RequestParts DEF TypeOK, TablesOK, RecordsOK, FinishedInv, NoEmergencies
  <2>3. \A c \in Bookings : ~booking'[c].emergency
    <3>1. CASE \E c \in Bookings : CommitCreate(r, c)
      BY <1>1, <2>2, <3>1 DEF CommitCreate, Flush
    <3>2. CASE booking' = [booking EXCEPT ![b] = Merge(booking[b], q.row, q.new)]
      <4>1. ~Merge(booking[b], q.row, q.new).emergency
        BY <1>1, <2>2, MergeOfNormal
      <4> QED
        BY <1>1, <2>2, <3>2, <4>1
    <3>3. CASE CommitReopen(r)
      <4> DEFINE row == Refreshed(q.row, booking[b])
                 new == ReopenedRow(row, closure[b])
      <4>1. row \in Row /\ ~row.emergency
        BY <2>2 DEF Refreshed, Row
      <4>2. new \in Row /\ ~new.emergency
        BY <1>1, <2>2, <4>1 DEF ReopenedRow, RestoredStatus, Row, Statuses, Closure, TypeOK,
           TablesOK, RecordsOK
      <4>3. ~Merge(booking[b], row, new).emergency
        BY <1>1, <2>2, <4>1, <4>2, MergeOfNormal
      <4>4. booking' = [booking EXCEPT ![b] = Merge(booking[b], row, new)]
        BY <3>3 DEF CommitReopen, Flush
      <4> QED
        BY <1>1, <2>2, <4>3, <4>4
    <3> QED
      BY <1>1, <2>1, <3>1, <3>2, <3>3
  <2> QED
    BY <1>1, <1>2, <2>1, <2>3, RequestStep
<1>6. ASSUME NEW r \in Requests, Fail(r) PROVE FinishedInv'
  <2>1. request' = [request EXCEPT ![r] = Idle] /\ booking' = booking
    BY <1>6 DEF Fail, Answer, boardVars, recordVars
  <2> QED
    BY <1>1, <1>2, <2>1, RequestStep
<1>7. CASE DayPasses \/ UNCHANGED vars
  <2>1. request' = request /\ booking' = booking
    BY <1>7 DEF DayPasses, vars, boardVars, recordVars
  <2> QED
    BY <1>1, <2>1 DEF FinishedInv, NoEmergencies, StagedForFinished
<1> QED
  BY <1>3, <1>4, <1>5, <1>6, <1>7 DEF Next

\* Who loads a record after it was closed or cancelled leaves its status and place
\* alone, but for reopening a closed one, however many requests interleave.
THEOREM OnlyStaleRequestsRewriteFinished == Spec => FinishedIsRewrittenByStaleRequestsOnly
<1> DEFINE Claim ==
      \A b \in Bookings :
         /\ booking[b].status \in {"COMPLETED", "CANCELLED"}
         /\ booking'[b] # [booking[b] EXCEPT !.tenant = booking'[b].tenant]
         => \E r \in Requests : Rewrites(r, b)
<1>1. ASSUME FinishedInv, [Next]_vars, NEW b \in Bookings, booking[b].status \in Finished,
             ~OnlyTenantDiffers(booking'[b], booking[b])
      PROVE  \E r \in Requests : Rewrites(r, b)
  <2>1. TypeOK /\ booking \in [Bookings -> Row] /\ booking[b] \in Row
    BY <1>1 DEF FinishedInv, TypeOK, TablesOK, RecordsOK
  <2>2. booking'[b] # booking[b]
    BY <1>1, <2>1 DEF OnlyTenantDiffers, Row
  <2>3. PICK r \in Requests : Commit(r)
    <3>1. ASSUME NEW r \in Requests, Check(r) PROVE UNCHANGED booking
      BY <3>1 DEF Check, CheckCreate, CheckUpdate, CheckCancel, CheckReschedule, CheckClose,
            CheckKeepOpen, CheckStart, CheckAssign, CheckSlots, Stage, boardVars, recordVars
    <3>2. ASSUME NEW r \in Requests, NEW k \in Asks, Load(r, k) PROVE UNCHANGED booking
      BY <3>2 DEF Load, boardVars, recordVars
    <3>3. ASSUME NEW r \in Requests, Fail(r) PROVE UNCHANGED booking
      BY <3>3 DEF Fail, boardVars, recordVars
    <3>4. CASE DayPasses \/ UNCHANGED vars
      BY <2>2, <3>4 DEF DayPasses, vars, boardVars, recordVars
    <3> QED
      BY <1>1, <2>2, <3>1, <3>2, <3>3, <3>4 DEF Next
  <2> DEFINE q == request[r]
  <2>4. /\ request' = [request EXCEPT ![r] = Idle]
        /\ \/ UNCHANGED booking
           \/ \E c \in Bookings : CommitCreate(r, c)
           \/ /\ q.phase = "CHECKED" /\ q.ask.op \in Writing
              /\ booking' = [booking EXCEPT ![q.ask.id] = Merge(booking[q.ask.id], q.row, q.new)]
           \/ CommitReopen(r)
    BY <2>1, <2>3, CommitOf
  <2>5. request'[r] = Idle
    BY <2>1, <2>4 DEF TypeOK
  <2>6. ~(\E c \in Bookings : CommitCreate(r, c))
    <3>1. SUFFICES ASSUME NEW c \in Bookings, CommitCreate(r, c) PROVE FALSE
      OBVIOUS
    <3>2. b # c
      BY <1>1, <3>1 DEF CommitCreate, NextId, Exists, Finished
    <3> QED
      BY <2>1, <2>2, <3>1, <3>2 DEF CommitCreate, Flush
  <2>7. CASE CommitReopen(r)
    <3>1. b = q.ask.id
      BY <2>1, <2>2, <2>7 DEF CommitReopen, Flush
    <3>2. booking[b].status = "COMPLETED"
      BY <2>1, <2>7, <3>1, CommitReopenIsOfClosed
    <3> QED
      BY <2>5, <2>7, <3>1, <3>2 DEF Rewrites, CommitReopen
  <2>8. CASE /\ q.phase = "CHECKED" /\ q.ask.op \in Writing
             /\ booking' = [booking EXCEPT ![q.ask.id] = Merge(booking[q.ask.id], q.row, q.new)]
    <3>1. b = q.ask.id /\ booking'[b] = Merge(booking[b], q.row, q.new)
      BY <2>1, <2>2, <2>8
    <3>2. ASSUME q.row.status = booking[b].status PROVE FALSE
      <4>1. OnlyTenantDiffers(q.new, q.row)
        BY <1>1, <2>8, <3>2 DEF FinishedInv, StagedForFinished
      <4>2. q.row \in Row /\ q.new \in Row
        BY <2>1, RequestParts
      <4> QED
        BY <1>1, <2>1, <3>1, <4>1, <4>2, MergeOfTenant
    <3> QED
      BY <2>5, <3>1, <3>2 DEF Rewrites
  <2> QED
    BY <2>2, <2>4, <2>6, <2>7, <2>8
<1>2. FinishedInv /\ [Next]_vars => [Claim]_vars
  BY <1>1 DEF Finished, OnlyTenantDiffers
<1> QED
  BY <1>2, InitFinished, StepFinished, PTL DEF Spec, FinishedIsRewrittenByStaleRequestsOnly

(***************************************************************************)
(* What the interface says while requests are in flight                    *)
(***************************************************************************)

OnARecord == Operations \ {"create", "replaceSlots"}

\* Every record has a slot, what a request loaded and what it staged has one too.
PlacedInv ==
    /\ \A b \in Bookings : Exists(b) => booking[b].slot # NoSlot
    /\ \A r \in Requests :
          request[r].phase # "IDLE" /\ request[r].ask.op \in OnARecord =>
             request[r].row.slot # NoSlot /\ booking[request[r].ask.id].slot # NoSlot
    /\ \A r \in Requests :
          request[r].phase = "CHECKED" /\ request[r].ask.op \in Writing \cup {"create"} =>
             request[r].new.slot # NoSlot

\* A merged slot is the staged one or the committed one.
LEMMA MergeOfSlot ==
    ASSUME NEW x \in Row, NEW y \in Row, NEW z \in Row
    PROVE  Merge(x, y, z).slot = IF z.slot # y.slot THEN z.slot ELSE x.slot
<1>1. "slot" \in DOMAIN x
  BY DEF Row
<1> QED
  BY <1>1 DEF Merge

\* A target the checks accept is a slot.
LEMMA TargetHasSlot ==
    ASSUME NEW a, NEW d, NEW s, NEW b, NEW override, ValidSlotTarget(a, d, s, b, override)
    PROVE  s # NoSlot
BY SizesAssumption DEF ValidSlotTarget, NormalSlotOpen, SlotExists, Slots, NoSlot

\* What a check stages has a slot.
LEMMA CheckStagesSlot ==
    ASSUME FinishedInv, PlacedInv, NEW r \in Requests, Check(r)
    PROVE  \E new \in Row :
              /\ Stage(r, new)
              /\ request[r].ask.op \in Writing \cup {"create"} => new.slot # NoSlot
<1> DEFINE q == request[r]
           k == q.ask
<1>1. PICK new \in Row : Stage(r, new)
  BY CheckStages
<1>2. /\ TypeOK /\ q.row \in Row /\ ~q.row.emergency /\ q \in Request
  BY RequestParts DEF FinishedInv, NoEmergencies, TypeOK
<1>3. \A other : Stage(r, other) => other = new
  BY <1>1, <1>2 DEF Stage, TypeOK, Request
<1>4. k.op \in OnARecord => q.row.slot # NoSlot
  <2>1. q.phase # "IDLE"
    BY DEF Check, CheckCreate, CheckUpdate, CheckCancel, CheckReschedule, CheckClose,
           CheckKeepOpen, CheckStart, CheckAssign, CheckSlots, IsAt
  <2> QED
    BY <2>1 DEF PlacedInv
<1>5. Writing \subseteq OnARecord /\ "create" \notin Writing
  BY DEF Writing, OnARecord, Operations
<1>6. CASE CheckCreate(r)
  <2>1. k.slot # NoSlot
    BY <1>6, TargetHasSlot DEF CheckCreate, CreateAllowed
  <2>2. CreatedRow(k.by, k.tenant, k.day, k.slot, FALSE).slot = k.slot
    BY DEF CreatedRow
  <2> QED
    BY <1>1, <1>3, <1>6, <2>1, <2>2 DEF CheckCreate
<1>7. CASE CheckUpdate(r)
  <2>1. UpdatedRow(q.row, k.tenant, k.day, k.slot).slot = AskedSlot(q.row, k.slot)
    BY <1>2 DEF UpdatedRow, Row
  <2>2. k.op \in OnARecord
    BY <1>7 DEF CheckUpdate, IsAt, OnARecord, Operations
  <2> QED
    BY <1>1, <1>3, <1>4, <1>7, <2>1, <2>2 DEF CheckUpdate, AskedSlot
<1>8. CASE CheckReschedule(r)
  <2>1. k.slot # NoSlot
    BY <1>8, TargetHasSlot DEF CheckReschedule, RescheduleAllowed
  <2>2. RescheduledRow(q.row, k.day, k.slot).slot = k.slot
    BY <1>2 DEF RescheduledRow, Row
  <2> QED
    BY <1>1, <1>3, <1>8, <2>1, <2>2 DEF CheckReschedule
<1>9. CASE CheckCancel(r) \/ CheckClose(r) \/ CheckStart(r) \/ CheckKeepOpen(r)
  <2>1. \A row \in {CancelledRow(q.row), ClosedRow(q.row), StartedRow(q.row), q.row} :
           row.slot = q.row.slot
    BY <1>2 DEF CancelledRow, ClosedRow, StartedRow, Row
  <2>2. k.op \in OnARecord
    BY <1>9 DEF CheckCancel, CheckClose, CheckStart, CheckKeepOpen, IsAt, OnARecord, Operations
  <2>3. new.slot = q.row.slot
    BY <1>3, <1>9, <2>1 DEF CheckCancel, CheckClose, CheckStart, CheckKeepOpen
  <2> QED
    BY <1>1, <1>4, <2>2, <2>3
<1>10. CASE CheckAssign(r) \/ CheckSlots(r)
  <2>1. k.op \notin Writing \cup {"create"}
    BY <1>10 DEF CheckAssign, CheckSlots, IsAt, Writing
  <2> QED
    BY <1>1, <2>1
<1> QED
  BY <1>6, <1>7, <1>8, <1>9, <1>10 DEF Check

\* Every commit writes a row with a slot, or none.
LEMMA CommitKeepsSlot ==
    ASSUME TypeOK, PlacedInv, NEW r \in Requests, Commit(r)
    PROVE  \/ UNCHANGED booking
           \/ \E b \in Bookings : \E row :
                 booking' = [booking EXCEPT ![b] = row] /\ row.slot # NoSlot
<1> DEFINE q == request[r]
           b == q.ask.id
<1>1. /\ q.row \in Row /\ q.new \in Row /\ b \in Bookings
      /\ booking[b] \in Row /\ closure[b] \in Closure
  BY RequestParts DEF TypeOK, TablesOK, RecordsOK
<1>2. Writing \subseteq OnARecord /\ "reopen" \in OnARecord
  BY DEF Writing, OnARecord, Operations
<1>3. CASE \E c \in Bookings : CommitCreate(r, c)
  <2>1. q.new.slot # NoSlot
    BY <1>3 DEF CommitCreate, IsAt, PlacedInv
  <2> QED
    BY <1>3, <2>1 DEF CommitCreate, Flush
<1>4. CASE /\ q.phase = "CHECKED" /\ q.ask.op \in Writing
           /\ booking' = [booking EXCEPT ![b] = Merge(booking[b], q.row, q.new)]
  <2>1. q.new.slot # NoSlot /\ booking[b].slot # NoSlot
    BY <1>2, <1>4 DEF PlacedInv
  <2>2. Merge(booking[b], q.row, q.new).slot # NoSlot
    BY <1>1, <2>1, MergeOfSlot
  <2> QED
    BY <1>1, <1>4, <2>2
<1>5. CASE CommitReopen(r)
  <2> DEFINE row == Refreshed(q.row, booking[b])
             new == ReopenedRow(row, closure[b])
  <2>1. row \in Row
    BY <1>1 DEF Refreshed, Row
  <2>2. new \in Row /\ new.slot = row.slot
    BY <1>1, <2>1 DEF ReopenedRow, RestoredStatus, Row, Statuses, Closure
  <2>3. booking[b].slot # NoSlot
    BY <1>2, <1>5 DEF CommitReopen, IsAt, PlacedInv
  <2>4. Merge(booking[b], row, new).slot # NoSlot
    BY <1>1, <2>1, <2>2, <2>3, MergeOfSlot
  <2>5. booking' = [booking EXCEPT ![b] = Merge(booking[b], row, new)]
    BY <1>5 DEF CommitReopen, Flush
  <2> QED
    BY <1>1, <2>4, <2>5
<1> QED
  BY <1>3, <1>4, <1>5, CommitOf

\* A step on one request keeps slots where they are needed.
LEMMA PlacedStep ==
    ASSUME TypeOK, PlacedInv, NEW r \in Requests, NEW q,
           request' = [request EXCEPT ![r] = q],
           \/ UNCHANGED booking
           \/ \E b \in Bookings : \E row :
                 booking' = [booking EXCEPT ![b] = row] /\ row.slot # NoSlot,
           q.phase # "IDLE" /\ q.ask.op \in OnARecord =>
              q.row.slot # NoSlot /\ booking'[q.ask.id].slot # NoSlot,
           q.phase = "CHECKED" /\ q.ask.op \in Writing \cup {"create"} => q.new.slot # NoSlot
    PROVE  PlacedInv'
<1>1. \A o \in Requests : request'[o] = IF o = r THEN q ELSE request[o]
  BY DEF TypeOK
<1>2. \A b \in Bookings : booking'[b] = booking[b] \/ booking'[b].slot # NoSlot
  BY DEF TypeOK, TablesOK, RecordsOK
<1>3. \A o \in Requests : request[o].ask.id \in Bookings
  BY RequestParts
<1>4. \A b \in Bookings : Exists(b)' => booking'[b].slot # NoSlot
  BY <1>2 DEF PlacedInv, Exists
<1>5. ASSUME NEW o \in Requests, request'[o].phase # "IDLE", request'[o].ask.op \in OnARecord
      PROVE  request'[o].row.slot # NoSlot /\ booking'[request'[o].ask.id].slot # NoSlot
  BY <1>1, <1>2, <1>3, <1>5 DEF PlacedInv
<1>6. ASSUME NEW o \in Requests, request'[o].phase = "CHECKED",
             request'[o].ask.op \in Writing \cup {"create"}
      PROVE  request'[o].new.slot # NoSlot
  BY <1>1, <1>6 DEF PlacedInv
<1> QED
  BY <1>4, <1>5, <1>6 DEF PlacedInv

LEMMA StepPlaced == FinishedInv /\ PlacedInv /\ [Next]_vars => PlacedInv'
<1> SUFFICES ASSUME FinishedInv, PlacedInv, [Next]_vars PROVE PlacedInv'
  OBVIOUS
<1>1. TypeOK
  BY DEF FinishedInv
<1>2. Idle.phase = "IDLE"
  BY DEF Idle
<1>3. ASSUME NEW r \in Requests, NEW k \in Asks, Load(r, k) PROVE PlacedInv'
  <2> DEFINE q == [Idle EXCEPT !.phase = "LOADED", !.ask = k, !.row = booking[k.id],
                               !.assigned = assignees[k.id]]
  <2>1. q.phase = "LOADED" /\ q.ask = k /\ q.row = booking[k.id]
    BY DEF Idle
  <2>2. request' = [request EXCEPT ![r] = q] /\ booking' = booking
    BY <1>3 DEF Load, boardVars, recordVars
  <2>3. k.op \in OnARecord => booking[k.id].slot # NoSlot
    BY <1>3, AskParts DEF Load, OnARecord, PlacedInv
  <2> HIDE DEF q
  <2> QED
    BY <1>1, <2>1, <2>2, <2>3, PlacedStep
<1>4. ASSUME NEW r \in Requests, Check(r) PROVE PlacedInv'
  <2>1. PICK new \in Row :
           /\ Stage(r, new)
           /\ request[r].ask.op \in Writing \cup {"create"} => new.slot # NoSlot
    BY <1>4, CheckStagesSlot
  <2> DEFINE q == [request[r] EXCEPT !.phase = "CHECKED", !.new = new]
  <2>2. request[r] \in Request
    BY <1>1 DEF TypeOK
  <2>3. /\ q.row = request[r].row /\ q.new = new /\ q.ask = request[r].ask
    BY <2>2 DEF Request
  <2>4. request' = [request EXCEPT ![r] = q] /\ booking' = booking
    BY <1>1, <2>1, <2>2 DEF Stage, boardVars, recordVars, TypeOK, Request
  <2>5. request[r].phase # "IDLE"
    BY <1>4 DEF Check, CheckCreate, CheckUpdate, CheckCancel, CheckReschedule, CheckClose,
           CheckKeepOpen, CheckStart, CheckAssign, CheckSlots, IsAt
  <2>6. request[r].ask.op \in OnARecord =>
           request[r].row.slot # NoSlot /\ booking[request[r].ask.id].slot # NoSlot
    BY <2>5 DEF PlacedInv
  <2> HIDE DEF q
  <2> QED
    BY <1>1, <2>1, <2>3, <2>4, <2>6, PlacedStep
<1>5. ASSUME NEW r \in Requests, Commit(r) \/ Fail(r) PROVE PlacedInv'
  <2>1. request' = [request EXCEPT ![r] = Idle]
    BY <1>1, <1>5, CommitOf DEF Fail, Answer
  <2>2. \/ UNCHANGED booking
        \/ \E b \in Bookings : \E row :
              booking' = [booking EXCEPT ![b] = row] /\ row.slot # NoSlot
    BY <1>1, <1>5, CommitKeepsSlot DEF Fail, boardVars, recordVars
  <2> QED
    BY <1>1, <1>2, <2>1, <2>2, PlacedStep
<1>6. CASE DayPasses \/ UNCHANGED vars
  <2>1. request' = request /\ booking' = booking
    BY <1>6 DEF DayPasses, vars, boardVars, recordVars
  <2> QED
    BY <2>1 DEF PlacedInv, Exists
<1> QED
  BY <1>3, <1>4, <1>5, <1>6 DEF Next

LEMMA InitPlaced == Init => PlacedInv
<1> SUFFICES ASSUME Init PROVE PlacedInv
  OBVIOUS
<1>1. /\ \A r \in Requests : request[r] = Idle
      /\ \A b \in Bookings : booking[b] = VacantRow
  BY DEF Init, EmptyBoard
<1>2. Idle.phase = "IDLE" /\ VacantRow.status = "ABSENT"
  BY DEF Idle, VacantRow
<1> QED
  BY <1>1, <1>2 DEF PlacedInv, Exists

\* Whatever requests are in flight and whatever stale copy one of them commits, the
\* tables they leave are such that the week board offers what a create would take, and
\* the next free slot is the first of those.
THEOREM OffersHoldUnderConcurrency ==
    Spec => [](BoardOffersWhatIsAccepted /\ NextSlotIsTheFirstAccepted)
<1>1. Init => FinishedInv /\ PlacedInv
  BY InitFinished, InitPlaced
<1>2. FinishedInv /\ PlacedInv /\ [Next]_vars => FinishedInv' /\ PlacedInv'
  BY StepFinished, StepPlaced
<1>3. FinishedInv /\ PlacedInv => TablesOK /\ QueueHasNoSlot
  BY DEF FinishedInv, NoEmergencies, PlacedInv, QueueHasNoSlot, TypeOK
<1>4. FinishedInv /\ PlacedInv => BoardOffersWhatIsAccepted /\ NextSlotIsTheFirstAccepted
  BY <1>3, BoardFromTables, NextSlotFromTables
<1> QED
  BY <1>1, <1>2, <1>4, PTL DEF Spec

\* And at every moment the picker, the permission flags and a tenant's upcoming list
\* say of the committed tables what a handler that ran now would do.
THEOREM ScreensHoldUnderConcurrency ==
    Spec => [](PickerExact /\ FlagsTellTheTruth /\ UpcomingListsEachWeekOnce)
<1>1. TypeOK => PickerExact /\ FlagsTellTheTruth /\ UpcomingListsEachWeekOnce
  BY PickerFromTables, FlagsFromTables, UpcomingFromTables DEF TypeOK
<1> QED
  BY <1>1, TypeCorrect, PTL
=============================================================================
