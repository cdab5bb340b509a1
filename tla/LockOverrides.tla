---------------------------- MODULE LockOverrides ----------------------------
(***************************************************************************)
(* The automatic_lock_overrides table under concurrent Unlock and Restore  *)
(* Lock requests.  Each reads the rows of its date, then inserts or deletes*)
(* rows by id and commits.  The unique constraint covers date and slot;    *)
(* a NULL slot (the whole date) never equals another NULL, so it does not  *)
(* hold for whole-date rows.  Scheduler has the same two handlers, atomic. *)
(***************************************************************************)
EXTENDS Integers, FiniteSets

CONSTANTS
    Dates,      \* bound: dates an unlock accepts (assert_unlockable_date and the window)
    Slots,      \* slots that exist
    NoSlot,     \* slot_number NULL: the whole date
    Ids,        \* bound: ids the table can hand out
    Requests    \* bound: requests in flight at a time

ASSUME IdsAssumption == Ids \subseteq Nat /\ NoSlot \notin Slots

VARIABLES
    rows,       \* the table: a set of records with distinct ids
    lastId,     \* the id sequence
    request

Row == [id: Ids, day: Dates, slot: Slots \cup {NoSlot}]
Idle == [op |-> "NONE"]
Pending == [op: {"UNLOCK", "RESTORE"}, day: Dates, slot: Slots \cup {NoSlot},
            stale: SUBSET Row]

vars == <<rows, lastId, request>>

Init == rows = {} /\ lastId = 0 /\ request = [r \in Requests |-> Idle]

OverrideRows(d, s) == {o \in rows : o.day = d /\ o.slot = s}
SlotOverridesOn(d) == {o \in rows : o.day = d /\ o.slot # NoSlot}

UnlockAutomaticLock(r, d, s) ==
    /\ request[r] = Idle
    /\ OverrideRows(d, NoSlot) = {}
    /\ OverrideRows(d, s) = {}
    /\ request' = [request EXCEPT ![r] =
          [op |-> "UNLOCK", day |-> d, slot |-> s,
           stale |-> IF s = NoSlot THEN SlotOverridesOn(d) ELSE {}]]
    /\ UNCHANGED <<rows, lastId>>

\* _override_row answers one of the matching rows; a whole date adds its slot rows.
RestoreAutomaticLock(r, d, s) ==
    /\ request[r] = Idle
    /\ \E first \in SUBSET OverrideRows(d, s) :
          /\ Cardinality(first) = IF OverrideRows(d, s) = {} THEN 0 ELSE 1
          /\ first # {} \/ (s = NoSlot /\ SlotOverridesOn(d) # {})
          /\ request' = [request EXCEPT ![r] =
                [op |-> "RESTORE", day |-> d, slot |-> s,
                 stale |-> first \cup IF s = NoSlot THEN SlotOverridesOn(d) ELSE {}]]
    /\ UNCHANGED <<rows, lastId>>

\* Mutant of UniqueAllows: a table without the constraint.
NoConstraint(d, s) == TRUE

\* uq_lock_override_date_slot
UniqueAllows(d, s) == s = NoSlot \/ OverrideRows(d, s) = {}

CommitUnlock(r) ==
    LET q == request[r] IN
    /\ q.op = "UNLOCK"
    /\ lastId + 1 \in Ids
    /\ UniqueAllows(q.day, q.slot)
    /\ rows' = (rows \ q.stale) \cup {[id |-> lastId + 1, day |-> q.day, slot |-> q.slot]}
    /\ lastId' = lastId + 1
    /\ request' = [request EXCEPT ![r] = Idle]

CommitRestore(r) ==
    /\ request[r].op = "RESTORE"
    /\ rows' = rows \ request[r].stale
    /\ request' = [request EXCEPT ![r] = Idle]
    /\ UNCHANGED lastId

\* Refused by the constraint, or broken off: the transaction rolls back.
Fail(r) ==
    /\ request[r] # Idle
    /\ request' = [request EXCEPT ![r] = Idle]
    /\ UNCHANGED <<rows, lastId>>

Next ==
    \E r \in Requests :
        \/ \E d \in Dates, s \in Slots \cup {NoSlot} :
              UnlockAutomaticLock(r, d, s) \/ RestoreAutomaticLock(r, d, s)
        \/ CommitUnlock(r)
        \/ CommitRestore(r)
        \/ Fail(r)

Spec == Init /\ [][Next]_vars

-----------------------------------------------------------------------------
(* Properties *)

\* Rows have distinct ids of the sequence, and a request in flight holds rows of
\* its own date only, whatever was committed since it read them.
TypeOK ==
    /\ rows \subseteq Row
    /\ lastId \in Nat
    /\ \A o \in rows : o.id <= lastId
    /\ \A o, p \in rows : o.id = p.id => o = p
    /\ request \in [Requests -> Pending \cup {Idle}]
    /\ \A r \in Requests : request[r] # Idle =>
          \A o \in request[r].stale : o.day = request[r].day /\ o.id <= lastId

\* A slot has one unlock at most, however many requests unlock it at once, so
\* that restoring the slot removes its unlock.
OneUnlockPerSlot ==
    \A o, p \in rows : o.day = p.day /\ o.slot = p.slot /\ o.slot # NoSlot => o = p
=============================================================================
