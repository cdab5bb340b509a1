---------------------------- MODULE ScheduleSearch ----------------------------
(***************************************************************************)
(* Finding schedules: a tenant's upcoming list, grouped by week, and the   *)
(* history, paged from the newest date down.  A page is asked for with the *)
(* last row of the page before it, and everything may have changed between *)
(* the two.  Texts and Schedule No. searches are left out; a booking stands *)
(* for its row.                                                            *)
(***************************************************************************)
EXTENDS BookingRules, SequencesExt

OpenStatuses == {"BOOKED", "IN_PROGRESS"}

NoBound == -100         \* an open end of a window, no days filter, no tenant filter
AnyTenant == "any"

\* date_window: Days and From/To exclude each other.
WindowAllowed(days, from, to) ==
    /\ days # NoBound => from = NoBound /\ to = NoBound
    /\ from # NoBound /\ to # NoBound => from <= to

\* "Last n days" is today and the n-1 days before it.
Window(days, from, to) ==
    IF days # NoBound THEN [start |-> today - (days - 1), end |-> today]
    ELSE [start |-> from, end |-> to]

\* A history without dates is the past.
Through(w) == IF w.start = NoBound /\ w.end = NoBound THEN today ELSE w.end

Matches(b, t, w) ==
    /\ Exists(b)
    /\ t \in {AnyTenant, booking[b].tenant}
    /\ w.start # NoBound => booking[b].day >= w.start
    /\ Through(w) # NoBound => booking[b].day <= Through(w)

\* ORDER BY deployment_date DESC, id DESC
NewerFirst(b, c) ==
    \/ booking[b].day > booking[c].day
    \/ booking[b].day = booking[c].day /\ b > c

NoCursor == [day |-> NoBound, id |-> NoBound]

\* Mutant of BehindCursor: the id does not break the tie of a date.
BehindCursorDate(b, cursor) == cursor = NoCursor \/ booking[b].day < cursor.day

BehindCursor(b, cursor) ==
    \/ cursor = NoCursor
    \/ booking[b].day < cursor.day
    \/ booking[b].day = cursor.day /\ b < cursor.id

CursorOf(b) == [day |-> booking[b].day, id |-> b]

\* ORDER BY: the i-th row of S has i-1 rows before it.
InOrder(S, Before(_, _)) ==
    [i \in 1..Cardinality(S) |->
        CHOOSE x \in S : Cardinality({y \in S : Before(y, x)}) = i-1]

\* schedule_history: at most limit rows behind the cursor.
History(t, w, cursor, limit) ==
    LET rows == InOrder({b \in Bookings : Matches(b, t, w) /\ BehindCursor(b, cursor)},
                        NewerFirst)
    IN  SubSeq(rows, 1, IF Len(rows) < limit THEN Len(rows) ELSE limit)

-----------------------------------------------------------------------------
(* A tenant's upcoming schedules *)

\* ORDER BY deployment_date, slot_number IS NULL, slot_number, id
EarlierFirst(b, c) ==
    LET r == booking[b]
        q == booking[c]
    IN  \/ r.day < q.day
        \/ /\ r.day = q.day
           /\ \/ r.slot # NoSlot /\ q.slot = NoSlot
              \/ (r.slot = NoSlot <=> q.slot = NoSlot) /\ r.slot < q.slot
              \/ r.slot = q.slot /\ b < c

UpcomingOf(t) ==
    {b \in Bookings : /\ booking[b].tenant = t
                      /\ booking[b].day >= today
                      /\ booking[b].status \in OpenStatuses}

\* The rows shown, limit of them at most.
UpcomingRows(t, limit) ==
    LET rows == InOrder(UpcomingOf(t), EarlierFirst)
    IN  SubSeq(rows, 1, IF Len(rows) < limit THEN Len(rows) ELSE limit)

Truncated(t, limit) == Cardinality(UpcomingOf(t)) > limit

WeekOf(b) == WeekStart(booking[b].day)

\* Mutant of Opens: every row is compared with the first.
OpensAfterFirst(rows, i) == i = 1 \/ WeekOf(rows[i]) # WeekOf(rows[1])

\* A row of another week than the one before it opens a new group, and a group
\* ends where the next one opens.
Opens(rows, i) == i = 1 \/ WeekOf(rows[i]) # WeekOf(rows[i-1])

Precedes(i, j) == i < j

UpcomingWeeks(t, limit) ==
    LET rows == UpcomingRows(t, limit)
        first == InOrder({i \in DOMAIN rows : Opens(rows, i)}, Precedes)
        last(k) == IF k = Len(first) THEN Len(rows) ELSE first[k+1] - 1
    IN  [k \in DOMAIN first |->
            [week |-> WeekOf(rows[first[k]]),
             schedules |-> SubSeq(rows, first[k], last(k))]]

-----------------------------------------------------------------------------
(* Properties *)

\* The days, from and to of a window of each kind: the past, the last two days, up
\* to a date, from one on.
Questions ==
    {q \in {<<NoBound, NoBound, NoBound>>, <<2, NoBound, NoBound>>,
            <<NoBound, NoBound, LastDay>>, <<NoBound, today, NoBound>>} :
        WindowAllowed(q[1], q[2], q[3])}

\* A schedule that stayed where it was is on the first page or behind it, once.
ShowsWhatStayed ==
    Cardinality({b \in Bookings : Exists(b)}) > 1 => \A q \in Questions :
        LET w == Window(q[1], q[2], q[3])
            page == History(AnyTenant, w, NoCursor, 1)
            stayed == {b \in Bookings : /\ Matches(b, AnyTenant, w)
                                        /\ Matches(b, AnyTenant, w)'
                                        /\ booking'[b].day = booking[b].day}
        IN  Len(page) = 1 =>
              \A shown \in {page}, cursor \in {CursorOf(Last(page))} :
                  LET rest == History(AnyTenant, w, cursor, Cardinality(Bookings))'
                  IN  \A b \in stayed :
                        Cardinality({i \in DOMAIN shown : shown[i] = b})
                        + Cardinality({i \in DOMAIN rest : rest[i] = b}) = 1

\* Whatever one request commits between a page and the next, a schedule that stayed
\* on its date, under its tenant and inside the window is listed, and listed once:
\* rows before it that leave, enter or move do not shift it off or onto a page.
PagesMissNothing == [][ShowsWhatStayed]_boardVars

\* A tenant's upcoming list shows each deployment week once, in order, with all of
\* the tenant's open schedules of that week (up to the limit, and says so when there
\* are more), whatever order they were made, moved and reopened in.
UpcomingListsEachWeekOnce ==
    \A t \in Tenants, limit \in 1..Cardinality(Bookings) :
        LET weeks == UpcomingWeeks(t, limit)
            shown == {b \in Bookings : \E i \in DOMAIN weeks :
                        \E j \in DOMAIN weeks[i].schedules : weeks[i].schedules[j] = b}
        IN  /\ \A i, j \in DOMAIN weeks : i < j => weeks[i].week < weeks[j].week
            /\ shown \subseteq UpcomingOf(t)
            /\ \A b \in UpcomingOf(t) \ shown, c \in shown : booking[c].day <= booking[b].day
            /\ Truncated(t, limit) <=> shown # UpcomingOf(t)
            /\ \A i \in DOMAIN weeks : \A j \in DOMAIN weeks[i].schedules :
                  WeekStart(booking[weeks[i].schedules[j]].day) = weeks[i].week
=============================================================================
