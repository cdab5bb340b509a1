------------------------- MODULE LockOverrides_proofs -------------------------
(***************************************************************************)
(* The unique constraint keeps a slot's unlock unique, whatever requests   *)
(* interleave and however many dates, slots and requests there are.        *)
(***************************************************************************)
EXTENDS LockOverrides, TLAPS

\* Idle is no pending request: it has no date.
LEMMA PendingIsNotIdle ==
    ASSUME NEW q \in Pending
    PROVE  q # Idle /\ q.op \in {"UNLOCK", "RESTORE"} /\ q.day \in Dates
           /\ q.slot \in Slots \cup {NoSlot} /\ q.stale \subseteq Row
<1>1. q.op \in {"UNLOCK", "RESTORE"} /\ Idle.op = "NONE"
  BY DEF Pending, Idle
<1> QED
  BY <1>1 DEF Pending

\* A handler that read the table puts a well-typed request in flight.
LEMMA TakeKeepsTypeOK ==
    ASSUME TypeOK, NEW r \in Requests, NEW q \in Pending,
           \A o \in q.stale : o \in rows /\ o.day = q.day,
           request' = [request EXCEPT ![r] = q], UNCHANGED <<rows, lastId>>
    PROVE  TypeOK'
<1>1. request' \in [Requests -> Pending \cup {Idle}]
  BY DEF TypeOK
<1>2. ASSUME NEW x \in Requests, request'[x] # Idle, NEW o \in request'[x].stale
      PROVE  o.day = request'[x].day /\ o.id <= lastId'
  <2>1. CASE x = r
    BY <1>2, <2>1 DEF TypeOK
  <2>2. CASE x # r
    BY <1>2, <2>2 DEF TypeOK
  <2> QED
    BY <2>1, <2>2
<1> QED
  BY <1>1, <1>2 DEF TypeOK

\* A request that ends leaves the others typed, over a table and a sequence that
\* are typed themselves.
LEMMA EndKeepsTypeOK ==
    ASSUME TypeOK, NEW r \in Requests, request' = [request EXCEPT ![r] = Idle],
           rows' \subseteq Row, lastId' \in Nat, lastId <= lastId',
           \A o \in rows' : o.id <= lastId',
           \A o, p \in rows' : o.id = p.id => o = p
    PROVE  TypeOK'
<1>1. request' \in [Requests -> Pending \cup {Idle}]
  BY DEF TypeOK
<1>2. ASSUME NEW x \in Requests, request'[x] # Idle, NEW o \in request'[x].stale
      PROVE  o.day = request'[x].day /\ o.id <= lastId'
  <2>1. x # r /\ request'[x] = request[x]
    BY <1>2 DEF TypeOK
  <2>2. request[x] \in Pending /\ o \in Row
    BY <1>2, <2>1, PendingIsNotIdle DEF TypeOK
  <2>3. o.day = request[x].day /\ o.id <= lastId /\ o.id \in Nat /\ lastId \in Nat
    BY <1>2, <2>1, <2>2, IdsAssumption DEF TypeOK, Row
  <2> QED
    BY <2>1, <2>3
<1> QED
  BY <1>1, <1>2 DEF TypeOK

\* The unlock requests keep the types.
LEMMA StepTypeOK == TypeOK /\ [Next]_vars => TypeOK'
<1> SUFFICES ASSUME TypeOK, [Next]_vars PROVE TypeOK'
  OBVIOUS
<1>1. ASSUME NEW r \in Requests, NEW d \in Dates, NEW s \in Slots \cup {NoSlot},
             UnlockAutomaticLock(r, d, s)
      PROVE  TypeOK'
  <2> DEFINE q == [op |-> "UNLOCK", day |-> d, slot |-> s,
                   stale |-> IF s = NoSlot THEN SlotOverridesOn(d) ELSE {}]
  <2>1. q \in Pending /\ \A o \in q.stale : o \in rows /\ o.day = q.day
    BY DEF Pending, SlotOverridesOn, TypeOK
  <2> QED
    BY <1>1, <2>1, TakeKeepsTypeOK DEF UnlockAutomaticLock
<1>2. ASSUME NEW r \in Requests, NEW d \in Dates, NEW s \in Slots \cup {NoSlot},
             RestoreAutomaticLock(r, d, s)
      PROVE  TypeOK'
  <2> PICK first \in SUBSET OverrideRows(d, s) :
          request' = [request EXCEPT ![r] =
             [op |-> "RESTORE", day |-> d, slot |-> s,
              stale |-> first \cup IF s = NoSlot THEN SlotOverridesOn(d) ELSE {}]]
    BY <1>2 DEF RestoreAutomaticLock
  <2> DEFINE q == [op |-> "RESTORE", day |-> d, slot |-> s,
                   stale |-> first \cup IF s = NoSlot THEN SlotOverridesOn(d) ELSE {}]
  <2>1. q \in Pending /\ \A o \in q.stale : o \in rows /\ o.day = q.day
    BY DEF Pending, SlotOverridesOn, OverrideRows, TypeOK
  <2>2. request' = [request EXCEPT ![r] = q] /\ UNCHANGED <<rows, lastId>>
    BY <1>2 DEF RestoreAutomaticLock
  <2> QED
    BY <2>1, <2>2, TakeKeepsTypeOK
<1>3. ASSUME NEW r \in Requests, CommitUnlock(r)
      PROVE  TypeOK'
  <2> DEFINE new == [id |-> lastId + 1, day |-> request[r].day, slot |-> request[r].slot]
  <2>1. request[r] \in Pending
    BY <1>3 DEF CommitUnlock, TypeOK, Idle
  <2>2. new \in Row /\ rows' \subseteq rows \cup {new}
    BY <1>3, <2>1, PendingIsNotIdle DEF CommitUnlock, Row
  <2>3. /\ lastId' = lastId + 1 /\ lastId \in Nat
        /\ request' = [request EXCEPT ![r] = Idle]
    BY <1>3 DEF CommitUnlock, TypeOK
  <2>4. \A o \in rows : o.id \in Nat /\ o.id <= lastId
    BY IdsAssumption DEF TypeOK, Row
  <2>5. \A o \in rows' : o.id <= lastId'
    BY <2>2, <2>3, <2>4
  <2>6. \A o, p \in rows' : o.id = p.id => o = p
    BY <2>2, <2>3, <2>4 DEF TypeOK
  <2>7. rows' \subseteq Row /\ lastId' \in Nat /\ lastId <= lastId'
    BY <2>2, <2>3 DEF TypeOK
  <2> HIDE DEF new
  <2> QED
    BY <2>3, <2>5, <2>6, <2>7, EndKeepsTypeOK
<1>4. ASSUME NEW r \in Requests, CommitRestore(r)
      PROVE  TypeOK'
  BY <1>4, EndKeepsTypeOK DEF CommitRestore, TypeOK
<1>5. ASSUME NEW r \in Requests, Fail(r)
      PROVE  TypeOK'
  BY <1>5, EndKeepsTypeOK DEF Fail, TypeOK
<1>6. CASE UNCHANGED vars
  BY <1>6 DEF vars, TypeOK
<1> QED
  BY <1>1, <1>2, <1>3, <1>4, <1>5, <1>6 DEF Next

\* Row ids come from a sequence and are never handed out twice, and a request
\* never holds a row of another date than its own.
THEOREM RowsTyped == Spec => []TypeOK
<1>1. Init => TypeOK
  BY DEF Init, TypeOK
<1> QED
  BY <1>1, StepTypeOK, PTL DEF Spec

\* The unique constraint refuses a second unlock of a slot.
LEMMA StepOneUnlock == OneUnlockPerSlot /\ [Next]_vars => OneUnlockPerSlot'
<1> SUFFICES ASSUME OneUnlockPerSlot, [Next]_vars PROVE OneUnlockPerSlot'
  OBVIOUS
<1>1. ASSUME rows' \subseteq rows PROVE OneUnlockPerSlot'
  BY <1>1 DEF OneUnlockPerSlot
<1>2. ASSUME NEW r \in Requests, CommitUnlock(r)
      PROVE  OneUnlockPerSlot'
  <2> DEFINE new == [id |-> lastId + 1, day |-> request[r].day, slot |-> request[r].slot]
  <2>1. rows' \subseteq rows \cup {new}
    BY <1>2 DEF CommitUnlock
  <2>2. new.slot # NoSlot =>
           ~\E o \in rows : o.day = new.day /\ o.slot = new.slot
    BY <1>2 DEF CommitUnlock, UniqueAllows, OverrideRows
  <2> QED
    BY <2>1, <2>2 DEF OneUnlockPerSlot
<1>3. ASSUME NEW r \in Requests, NEW d, NEW s,
             \/ UnlockAutomaticLock(r, d, s) \/ RestoreAutomaticLock(r, d, s)
             \/ CommitRestore(r) \/ Fail(r)
      PROVE  rows' \subseteq rows
  BY <1>3 DEF UnlockAutomaticLock, RestoreAutomaticLock, CommitRestore, Fail
<1>4. CASE UNCHANGED vars
  BY <1>1, <1>4 DEF vars
<1> QED
  BY <1>1, <1>2, <1>3, <1>4 DEF Next

\* However many requests unlock at once, a slot has one unlock row at most: the
\* constraint at the insert is enough, without the check the handler makes.
THEOREM UnlocksUnique == Spec => []OneUnlockPerSlot
<1>1. Init => OneUnlockPerSlot
  BY DEF Init, OneUnlockPerSlot
<1> QED
  BY <1>1, StepOneUnlock, PTL DEF Spec
=============================================================================
