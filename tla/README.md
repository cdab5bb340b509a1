# The release scheduler in TLA+

A model of the Production Deployment Scheduler (`src/backend/app`): the rules
that decide who may put a change on the board, where, when, and what may happen
to it afterwards; the same handlers as concurrent database requests; the
accounts, groups and sessions behind them; a schedule's way from the browser to
the board and to Teams; and machine-checked proofs of the invariants all of it
rests on.

Paths below are relative to `src/backend/app` unless they start with `src/`.

## 1. The system

One FastAPI process over PostgreSQL; one event loop, a thread pool for the
synchronous handlers, and a React front end that talks to the API and owns no
rule ("the backend is the source of truth", `src/README.md`).

| Component | Source | State it keeps | Operations |
| --- | --- | --- | --- |
| Booking lifecycle | `services/booking_service.py`, `api/bookings.py`, `api/admin.py` | bookings, collaborators, assignments, status audits | create, edit, move, cancel, reschedule, close, reopen, assign, start work, collaborators |
| Date locks and freezes | `services/booking_service.py`, `api/admin.py` | slot freezes, lock overrides | freeze, unfreeze, unlock, restore |
| Slots, capacity, holidays, settings | `services/schedule_service.py`, `services/settings_service.py`, `api/admin.py` | slot configuration, day capacity, holidays, settings, tenant limits | replace slots, add/remove a day's slot, holiday CRUD, settings, tenant limit and activation |
| Picker and permission flags | `services/booking_service.py`, `services/presenters.py` | none | `next_available_slots`, `schedule_permissions`, `booking_detail` |
| Documents | `services/attachment_service.py`, `services/document_type_service.py` | files on disk, attachment rows, types | upload, replace, delete, configure |
| Groups, roles, tenants | `services/group_service.py`, `api/admin.py` | groups, memberships, roles, tenants and their subgroups | add, remove, promote, demote, activate, custom group and tenant CRUD, reconcile the Member Pool |
| Sessions | `api/auth.py`, `security/` | token versions, revoked ids | login, logout, password change and reset |
| Rate limiter | `security/ratelimit.py` | hits per client | enforce |
| Notifications | `services/teams_notification_service.py` | webhook settings, queued tasks | message after a booking's commit |
| Start-up | `services/bootstrap.py` | seeds every table | initialise: bootstrap administrator, Owner, group model |
| Board and search | `services/presenters.py`, `services/schedule_service.py`, `services/search_service.py`, `services/availability_service.py`, `api/schedule.py` | none | a week's cells and summary, landing slot, upcoming list, paged history |
| Discussion, audit trail | `api/bookings.py`, `services/audit_service.py` | append-only events | comment, record |
| AI policy, assistant, MCP | `services/ai_access_service.py`, `services/pds_*`, `mcp_server.py` | settings, no schedule state | read-only answers |
| Front end | `src/frontend/src` | the week shown, its requests in flight, the handlers that await an answer, the save in progress | navigate, refresh, retry, save |

Components meet in the database: the lifecycle reads the tables of locks, grid,
tenants and groups on every write, and the grid's handlers read the bookings.
No component calls back into another. Three things live in the process alone and
end with it: the limiter's hits, the revoked tokens and the queued messages.

What is hard here:

* **Check, then write, without a lock.** A request loads its booking
  (`get_booking`), runs its checks, and commits under READ COMMITTED. Only
  reopening and assigning lock the row; only a partial unique index arbitrates
  between slots. What the code protects by other means than these, it does not
  protect. The handlers run in threads, except `create_booking`, a coroutine
  that awaits nothing between its checks and its commit, so creates exclude each
  other but nobody else.
* **Time.** The protected window (today and the next deployment dates) moves
  with midnight, holidays and settings under records that stand still.
* **Many owners of one rule.** A normal user, a collaborator, a Release Manager
  and the Owner pass different gates on the same record; the picker and the
  `can_*` flags compute the same answers a second time.
* **Answers out of order.** The page has several requests for its week in flight,
  and handlers that await the server and then refresh the week they began on;
  a message to Teams may be accepted and its answer lost, and the process may end
  at any moment, start-up included.
* **Two facts that must move together.** A role and a group, a tenant and its
  subgroup, a group and the Member Pool, a password and the version in its tokens
  are written by several endpoints each, from rows that are not locked.
* **Two kinds of record in one table.** Emergency changes share the table,
  the statuses and the handlers of normal ones and have no slot (NULL).

What makes each part correct: one holder per slot; a tenant's week within its
limit; protected records unchanged; status, work details and closure audit in
agreement; closing and cancelling final until Reopen; an unlock that restoring
takes away whole; a grid that keeps the slots in use; offers, flags, board and
next free slot that agree with the handlers; an Owner who stays an active administrator;
roles, pool and subgroups that follow their sources; sessions that end with the
password they were opened with; a message at most once; a page that shows what was asked for last and what was saved.

## 2. The modules

| Module | Models |
| --- | --- |
| `ReleaseBoard` | the tables, and the read-only rules: calendar, automatic window, overrides, freeze, day plan, slot target, weekly limit |
| `BookingRules` | what each booking handler demands of the record it was given, and the row it writes |
| `BookingOffers` | the reschedule picker and the `can_*` flags |
| `Scheduler` | every handler as one atomic action; the day passes |
| `ChangeBoard` | the abstract promise: a record's life cycle and where it may sit |
| `SchedulerTx` | the booking handlers as requests that load, check and commit, interleaved |
| `LockOverrides` | unlock and restore as interleaved requests over rows with ids |
| `Documents` | document types, attachment rows, stored files, and the requests that keep them together |
| `WeekBoard` | the weekly board's cells and summary, the landing slot and the assistant's next free slot |
| `ScheduleSearch` | the upcoming list by week and the paged history |
| `AccessGroups` | accounts, memberships, Member Pool, Owner, tenants and subgroups: overlapping requests, and start-up step by step |
| `Sessions` | passwords, token versions, revoked tokens, overlapping logins, changes and resets, restarts |
| `RateLimiter` | the sliding window |
| `Announcements` | Teams settings, background tasks and posts |
| `ScheduleView` | the page's week and its requests |
| `Journey` | composes the last three: a schedule from the browser through the limiter and the commit to the board and to Teams |
| `BookingRules_proofs` | lemmas about tables, written rows, offers, the board, sorted rows, pages and groups |
| `Scheduler_proofs`, `SchedulerTx_proofs` | theorems, which use these lemmas |
| `LockOverrides_proofs`, `Documents_proofs`, `AccessGroups_proofs`, `Sessions_proofs`, `Journey_proofs` | theorems |
| `MCScheduler`, `MCSchedulerTx`, `MCLockOverrides`, `MCDocuments`, `MCAccessGroups`, `MCSessions`, `MCJourney` | instances for TLC |

`WeekBoard`, `ScheduleSearch` and `BookingOffers` read the tables of
`ReleaseBoard` and write nothing; `MCScheduler` extends all three, so that each
is asked about every state the scheduler reaches.

`BookingRules` takes the record as an argument, so `Scheduler` (which passes
`booking[b]`) and `SchedulerTx` (which passes the copy a request loaded) share
every guard and every written row: what differs between them is only when the
record was read.

State and code. `booking` is `deployment_bookings` (status, date, slot, tenant,
emergency flag, creator, and whether work details were recorded); `assignees`,
`collaborators`, `slotFreeze`, `lockOverride`, `slotRow`, `capacity`, `holiday`,
`settings` and `tenant` are the tables of those names; `closure` is the latest
`BOOKING_STATUS_CHANGED` audit, the only audit the code reads back; `today` is
`today_local()`. NULL slot numbers are `NoSlot`. Dates are numbers and date 0 is
a Sunday, so `d % 7` gives the weekday and `d - d % 7` the week. A refused request
changes nothing, so it is no step. Free text (Jira, repositories, summaries) and
its validation decide nothing else and are left out; documents, on which no
scheduling rule depends, are the separate module `Documents`.

Accounts: `Users` have a fixed set of tenant groups, `Pool` and `Management`
mark the Member Pool and Management; `Managers` are Release Managers, `Owner` is
the protected account. All administration of locks and grid needs an
administrator (`require_admin`), so those actions carry no account.

`SchedulerTx` gives each request in flight the booking and assignments it loaded
and the row it is about to write. `Merge` is the ORM's UPDATE: the columns that
differ from the loaded copy, written over whatever is committed by then.
`IndexClash` is `uq_active_slot_per_day`. Reopening and assigning check and
write in one step, as they do under their row lock, from the values the code
rereads there and the stale ones it does not.

`Documents` has two stores that no transaction spans: `rows` (the
`booking_attachments` of committed transactions, and the files that comments
list) and `disk`. A request is LOADED (it holds `booking.attachments`, which
`lazy="selectin"` reads with the record), STORED (checked, its files written,
its rows pending), COMMITTED (rows done, `_unlink` to come), then IDLE.
`BeginCreate` reads the types, checks and stores in one step, and no second
creation is in flight, because `create_booking` holds the event loop from
`request.form()` to its answer; the other handlers run in threads meanwhile. `Refuse`, `TransactionFails`,
`RefreshFails` and `Crash` are the ways a request ends early; `CleanedUp` is what
the exception handlers remove, which differs between creation, comments, and
uploads and deletions. A stored name is a pair of batch and index, new each time
like the UUID it stands for. Whether a caller may touch a record's documents at
all is decided in `BookingRules` (`UploadAllowed`, `DeleteFilesAllowed`), where the
flags are compared with it; here only the date matters: before it, or on it and
after (`protected`), when uploads append and deletion is refused.

`WeekBoard` follows `schedule_response` and `resolve_day`: `CellOpen` is
`normal_slot_rejection` as the board calls it, from the sets it prefetched, and
not the handlers' `NormalSlotOpen`; that the two agree is what the property says.
`Earliest(FreeFrom(...))` stands for the two loops over weeks, days and slots.
`ScheduleSearch` writes the queries as sets, and `InOrder` puts them in the
ORDER BY of the code: a row's place is the number of rows before it. The page's
last row is the cursor. A group of the upcoming list goes from a row whose week
differs from that of the row before it (`Opens`, the `if` of the loop) to where
the next group opens.

`AccessGroups`. A request is two steps. `Begin` reads the rows and decides the
change: memberships that join and leave (the Member Pool's included, which
`reconcile_member_pool` counts there), and the columns that differ from the rows
read. `Commit` writes that over whatever is committed by then, unless a unique or
foreign key objects; `Fail` is a refused or broken-off transaction. The history
variable `raced` names the users and tenants that two requests in flight both
touched. `phase` is the process: DOWN, then one step for each commit of
`initialise`, then UP; a crash at any phase returns to DOWN, and the next start
may find another `BOOTSTRAP_ADMIN_USERNAME`. `Init` is an empty database or one
from before groups and the Owner, with any accounts and tenants.

`Sessions`. An account is the columns a session depends on, and a password is a
number, new each time. A token carries the version it was issued with and, as
history, the password of that session. `BeginChange`, `BeginReset` and
`BeginLogin` load the account; the commits write the columns that differ from the
copy, `token_version` as the copy's plus one. `raced` has the accounts of which
two password requests were in flight together. `Restart` forgets the revoked set.

`RateLimiter` keeps ages in place of times, so that the clock is one action and
the state finite; `recent` counts the admissions of the last window
independently of the deque. `Announcements` is the settings and one task per
schedule: queued, posting, gone. `PickUp` reads the settings when the worker
runs, and Teams may accept without acknowledging.

`ScheduleView` is `useSchedule` and the handlers of `App.tsx` that refresh it. It
starts on any anchor: the week of a slot link, an administrator's current week, or
none, where the server lands the page. `kept` marks a load that `refresh()`
started, which nothing aborts. `load` and `refresh` close over the anchor of their
render, and only the week that is shown is read through a live ref: so `Refresh`
and `WantedWeek` take the anchor that was captured, which is the present one for
the button beside an error (`Retry`), and for a handler that awaited the server
(freezing, unlocking, adding a slot, a record's panel) the one it began with.
`handlers` has those anchors, from `BeginHandler` to `EndHandler`. `outdated`
records that the last load is a refresh for a week the page had left. `revision`
counts a week's schedules, which is what a save adds to; what a handler changes
besides them is not told apart.

`Journey` makes one step of each meaningful pair: `HandleSave` is
`create_booking` from the limiter to `add_task` (a coroutine that lets no other
request run in between), `SaveAnswered` the drawer's `onSaved`, taken like the other
refreshes from the render that sent the save (`saving.captured`), `Crash` the end
of everything that lives in the process.

## 3. The runs

Bounds are small sets in each `.cfg`; `MaxSlots`, `ScanDays`, `SearchDays`,
`FollowupDays` and the settings' limits are constants of the code made small.
Every action of the specifications is taken in some run.

| Run | Question | Bounds, and why they suffice |
| --- | --- | --- |
| `records` | implements `ChangeBoard`, exclusive places included; work matches status; paging misses nothing | two bookings, one slot, three days, placed by the Owner: two records must meet in one place, and one must be closed, reopened, cancelled and replaced; a page of one row, so that one is shown and one is behind it |
| `locks` | protected dates and records; unlocks; picker, flags, board and next slot | one booking, dates 5 (Friday), 7 (Sunday) over a weekend, window of one date; a group member, a pool member, a Release Manager, the Owner |
| `grid` | the grid keeps and shows the slots in use; picker and board follow it | one booking, two slots, every configuration, capacity, holiday, setting and tenant state |
| `users` | weekly limit; frozen slots; upcoming list | a user of two tenants, three bookings, a date at the end of one week and two of the next, limit 1 that an administrator may raise to 2 for one tenant: two schedules in one week beside one in the other, and a list cut between weeks and inside one. The third booking is only placed and moved, and two of the slots can be frozen |
| `tx` | the unique index and the row locks under interleaving; who rewrites a finished record | two requests in flight (interchangeable: symmetry), eleven payloads covering every operation, two records, two slots of one date, two managers assigning |
| `unlocks` | one unlock per slot | two requests, one date, two slots, four row ids |
| `documents` | listed files exist; no file left over; evidence stays; complete creation | two requests of any operation, one record, one type under three settings (optional and Multiple, required and Single, disabled), three batches of files, two kinds of fault in a behaviour: a file to replace, its replacement and a comment's file, and a fault in each of two overlapping requests |
| `groups` | a usable Owner; pool, role and subgroup follow their sources; start-up repairs; only the Owner makes administrators | two accounts, one of them the bootstrap administrator or not, one tenant, one custom group, two requests of every operation on the other account (AI Users is joined and not left), any number of crashes and starts |
| `sessions` | sessions end with their password; temporary passwords; refused sessions | the Owner and a user, two requests, three passwords and three tokens: a reset over a change over a login, with the token of each |
| `journey` | the limiter's window and its Retry-After; messages; the view; liveness of all | one browser, a window of one second with one admission, one schedule, which the page or somebody else places, two weeks, any first anchor, three loads of the page (first view, then the change of week and the refresh that a handler or a save left behind makes), one answer awaited at a time (`MaxAwaited`), three settings requests; crashes anywhere |

Two requests in flight suffice for lost updates and write skew: each of these
is a pair of a stale read and a write. The scheduler runs, `sessions` and
`journey` turn deadlock checking off because the calendar, the ids, the passwords
or the loads end; the others keep it on. Invariants that a theorem has for every
size and that a run would only repeat are left to the proofs: the type invariants,
`QueueHasNoSlot` (an emergency change in a slot already breaks `ChangeBoard`) and
`BoardKeepsItsSlots` (of which `EveryUpcomingBookingIsShown` is the reader's side).

Runs that end in a counterexample, each a promise of the repository that its
code breaks:

| Run | Promise | What happens |
| --- | --- | --- |
| `tx_week` | a tenant's week stays within its limit (`src/README.md:186`) | a move into a week and a new booking in it count before either commits |
| `owner_target` | the Owner is never a valid target, for anybody (`api/admin.py:114`) | an administrator adds the Owner to Management; `require_admin` refuses the Owner from then on |

**What overlapping requests can do.** The slot itself is safe in every
interleaving: that is `SlotExclusive` in `tx`, and a theorem. Other promises hold
up to a named exception, which the property carries:

* A closed or cancelled record can be rewritten by a request that loaded it
  before (a cancel and a close checked together: the second overwrites the
  first, although `src/README.md:208` and `:236` call both final).
  `FinishedIsRewrittenByStaleRequestsOnly` says that nothing else can.
* `RowsHaveFiles` and `FilesAreAccountedFor` hold under conditions on what has
  gone wrong. A failed `db.refresh` after the commit makes the exception handlers
  of creation and comments remove the files of a record that stands. A file may
  outlive its request after any fault: uploads and deletions have no handler,
  and a crash runs none.
* Pool, role and subgroup hold for whom no two requests changed together;
  `StartUpRepairs` says that the next start mends pool and subgroup for everybody
  else too. Sessions end with the password unless two changes of one account
  overlapped: both then write the same version.
* `SettledViewIsCurrent` excludes a refresh that crosses another load (`crossed`),
  which may land last with the week the page has left. For the week, though not for
  its freshness, it also excludes a refresh for a week the page has already
  left (`outdated`): a slot is frozen on week A, the page goes to week B and shows
  it, the freeze is answered, and its refresh shows A again. Nothing crossed and
  nothing failed, but the anchor is still B, so that going to B again changes no
  state and loads nothing, although "week navigation refetches"
  (`src/frontend/src/hooks/useSchedule.ts:6`). Without the exception TLC finds
  this behaviour.

Reachable in the models without a property of their own: two whole-date unlocks
at once leave two rows, since NULL is not equal to NULL, and Restore Lock takes
one (`api/admin.py:1372`, `:1437`); two deletions each leave the other's file and
together empty a Required type (`services/attachment_service.py:197`); while an
emergency change is upcoming its NULL slot lets no slot grid be saved
(`api/admin.py:851`); a slot grid written while a booking is made in a slot it
drops; two uploads of a Single type that both stay
(`services/attachment_service.py:117`); a type deleted as unused while its first
file arrives (`services/document_type_service.py:221`).

**Fairness.** Only `Journey` assumes any: weak fairness of the clock (time
passes), of the server's handling of a save and the page's reaction to the answer
(uvicorn serves what it has accepted, and `fetch` settles), and of serving and
delivering the page's loads, where serving includes failing. Nothing is assumed of
people, who may never navigate or save, of a handler's answer, of Teams and its
worker, nor of crashes, which may come at any time. Each promise says that
something holds again and again (`[]<>`), which for a wait means that it ends. Under it: `WaitEnds` (who keeps trying is admitted
again, because refusals are not recorded) and `SavedIsShown` (a save ends, the
spinner stops, and what was saved is shown unless the page shows an error or
another week). The other specifications are about safety: nothing in them must
happen without a caller.

## 4. The proofs

The theorems hold for every value of the constants under the named assumptions of
the modules: sizes, limits and horizons are natural numbers, some of them not 0;
booking ids are a finite set of naturals (SQL's ids, of which a table holds
finitely many); there is a tenant; kinds of accounts do not overlap; in
`SchedulerTx` and `AccessGroups` there is something to ask for; today's week is a
week; Release Managers are finitely many; a page may await an answer. Nothing more
is assumed of how many records, requests, accounts, slots or dates there are.

| Module | Theorem | What it says |
| --- | --- | --- |
| `Scheduler_proofs` | `TypeCorrect` | `Spec => []TypeOK` |
| | `SlotsExclusive` | `Spec => []SlotExclusive`, without the database's index |
| | `QueueWithoutSlots` | `Spec => []QueueHasNoSlot` |
| | `BookedSlotsExist` | `Spec => []BoardKeepsItsSlots` |
| | `WorkAndStatusAgree` | `Spec => []WorkMatchesStatus` |
| | `UnlocksAbsorbed` | `Spec => []WholeDateUnlockStandsAlone` |
| | `ProtectionHolds` | `Spec => ProtectedRecordsStay`, a property of steps |
| | `LockedDatesStayClosed` | `Spec => NothingLandsOnLockedDate`, a property of steps |
| | `SchedulerImplementsBoard` | `Spec => ImplementsChangeBoard`, the refinement |
| | `PickerIsExact` | `Spec => []PickerExact` |
| | `FlagsAreTrue` | `Spec => []FlagsTellTheTruth` |
| | `BoardOffersAreAccepted` | `Spec => []BoardOffersWhatIsAccepted` |
| | `UpcomingBookingsAreShown` | `Spec => []EveryUpcomingBookingIsShown` |
| | `NextSlotIsRight` | `Spec => []NextSlotIsTheFirstAccepted` |
| | `HistoryMissesNothing` | `Spec => PagesMissNothing`, a property of steps |
| | `UpcomingWeeksOnce` | `Spec => []UpcomingListsEachWeekOnce` |
| | `TenantsKeepTheirQuota` | `UsersScheduleSpec => []WeeklyQuota` |
| | `FrozenSlotsHold` | `UsersScheduleSpec => FrozenSlotsAreOutOfReach`, a property of steps |
| `SchedulerTx_proofs` | `TypeCorrect` | `Spec => []TypeOK` |
| | `SlotsExclusive` | `Spec => []SlotExclusive` for any number of requests |
| | `AssigneeUnique` | `Spec => []OneAssignee` |
| | `ReopeningIsOfClosed` | `Spec => ReopenTakesClosedRecords` |
| | `OnlyStaleRequestsRewriteFinished` | `Spec => FinishedIsRewrittenByStaleRequestsOnly`, a property of steps |
| | `OffersHoldUnderConcurrency` | `Spec => [](BoardOffersWhatIsAccepted /\ NextSlotIsTheFirstAccepted)` |
| | `ScreensHoldUnderConcurrency` | `Spec => [](PickerExact /\ FlagsTellTheTruth /\ UpcomingListsEachWeekOnce)` |
| `Documents_proofs` | `TypeCorrect` | `Spec => []TypeOK` |
| | `ListedFilesExist` | `Spec => []RowsHaveFiles` |
| | `NoFileLeftBehind` | `Spec => []FilesAreAccountedFor` |
| | `EvidenceIsKept` | `Spec => EvidenceStays`, a property of steps |
| | `BookingsAreComplete` | `Spec => BookedWithItsDocuments`, a property of steps |
| `LockOverrides_proofs` | `RowsTyped`, `UnlocksUnique` | `Spec => []TypeOK`, `Spec => []OneUnlockPerSlot` |
| `AccessGroups_proofs` | `GroupTypeCorrect` | `Spec => []TypeOK` |
| | `OwnerAlwaysUsable` | `Spec => []OwnerStaysUsable` |
| | `PoolAlwaysRight` | `Spec => []PoolIffUnassigned` |
| | `RoleAlwaysFollowsGroup` | `Spec => []RoleFollowsGroup` |
| | `SubgroupAlwaysMirrorsTenant` | `Spec => []TenantGroupMirrorsTenant` |
| | `StartUpAlwaysRepairs` | `Spec => StartUpRepairs`, a property of steps |
| | `OnlyOwnersChangeAdmins` | `Spec => OnlyTheOwnerChangesAdmins`, a property of steps |
| `Sessions_proofs` | `SessionTypeCorrect` | `Spec => []TypeOK` |
| | `PasswordsEndSessions` | `Spec => []SessionsEndWithThePassword` |
| | `TemporaryIsRestricted` | `Spec => []TemporaryMustBeChanged` |
| | `RefusalsLast` | `Spec => RefusedStaysRefused`, a property of steps |
| `Journey_proofs` | `JourneyTypeCorrect` | `Spec => []TypeOK` |
| | `WindowNeverOverfull` | `Spec => []AtMostLimitPerWindow` |
| | `RetryAfterCanBeTrusted` | `Spec => []RetryAfterIsHonest` |
| | `MessagesAreSentOnce` | `Spec => []AnnouncedAtMostOnce` |
| | `SettledViewsAreCurrent` | `Spec => []SettledViewIsCurrent` |

`Scheduler_proofs`, the records. `TypeOK` is inductive by itself: each handler's
row is built from typed parts, and `AddDaySlot` stops at `MaxSlots`.
`SlotExclusive` is not inductive: a normal booking without a slot would escape
`SlotTaken`, and an administrator's edit could turn a record into one. `PlaceInv`
adds `QueueHasNoSlot` and the configuration row of every upcoming standing
booking, and with `TypeOK` it is preserved by every handler. `WorkMatchesStatus`
needs `WorkInv`: an absent record has no work details, so that the life cycle
starts where the audit says. `WholeDateUnlockStandsAlone` is inductive.

A protected record is not `Mutable` for anybody, so only the two handlers that do
not ask, closing and reopening, can touch it. Every handler that writes a place
asks `ScheduleLocked` for exactly the date and slot it writes. The refinement
needs both invariants: `PlaceInv` for the free place of `File` and `Shift` (a
record that keeps its place is a stutter, and an emergency change keeps its place
because it never had a slot), `WorkInv` for what `Reopen` gives back.

The offers. The code computes each answer twice, from sets it prefetched for a
screen and from queries in the handler, and the lemmas of `BookingRules_proofs`
show the two equal on any tables that satisfy a part of the invariant. The picker
needs none of it and the flags only the types, because both ask the handlers' own
questions one destination or one flag at a time; only the button by which a Release
Manager takes a record counts its assignees, and one who is the only one is told
from the others by that count (`OnlyMember`). The board needs `QueueHasNoSlot`
besides: the handler counts any standing record in the slot, a cell only the
normal ones, and they agree because an emergency change never has a slot. The
next free slot needs the same, and the arithmetic of weeks: a horizon of days
searched from tomorrow meets the same dates in the same order as one of weeks.
`EveryUpcomingBookingIsShown` follows from `BoardKeepsItsSlots` and
`SlotExclusive`: each upcoming record has a row of the grid, and the row no other.

The lists. Each member of a finite set in a strict order has a number of members
before it that nobody else has, so `InOrder` is a bijection and ascends
(`RanksAreAll`, `RanksInOrder`); this counts and needs no induction. A page of
the history behind any cursor then has exactly the matching rows behind it, and
the cursor splits the rest at the shown row (`PagesAreComplete`), in the tables
after any step as well as before it, which is what `PagesMissNothing` compares. A
group of the upcoming list is an interval between openings: within it no week
changes (`GroupOfOneWeek`), across its borders weeks grow because rows are sorted
by date (`GroupsAscend`), and every row is between two openings
(`GroupsCoverRows`, by the greatest opening up to it).

Quota and freezes. An administrator may override the limit, or lower it under
bookings that stand, and may place a record in a frozen slot. The two properties
are therefore about `UsersScheduleSpec`, in which administrators do everything
but place bookings and lower limits; the run `users` checks `UserSpec`, a part of it
in which users place and cancel and the Owner closes, reopens and freezes. `UsersInv` adds to `PlaceInv` that an unused id has no
slot, so that the one place that is not counted is never occupied. A week's count
changes by the one record a step writes; the others' counts are compared as
finite sets (`FS_Subset`, `FS_AddElement`).

`SchedulerTx_proofs`. `TypeOK` holds for the stale copies too: a merge of three
rows takes every column from one of them. `SlotExclusive` then needs nothing the
checks did: `IndexClash` at the flush is enough, even for a merged row that no
request checked. `OneAssignee` and `ReopenTakesClosedRecords` rest on the one
thing those handlers read after they hold the row lock.
`FinishedIsRewrittenByStaleRequestsOnly` needs no invariant but types: every check
of a request refuses a finished copy, so a request that still writes holds a copy
whose status differs from the record's. The last two theorems carry the
agreement of offers and handlers over to interleaved requests: it is a fact about
the tables, and survives whatever stale copy is merged into them as long as the
merge keeps slots where they belong. `PlacedInv` says so: every record, every copy
a request loaded and every row it staged has a slot (`SchedulerTx` has normal
bookings only, so that `QueueHasNoSlot` is about what a merge must not invent).
They say what the tables promise at each moment, not that a request which read
them earlier still gets it.

`LockOverrides_proofs`. `OneUnlockPerSlot` rests on the unique constraint at the
insert alone; the handler's own check is not used.

`Documents_proofs`. That a row's file exists is not inductive: it must be known
that nobody else's clean-up or unlink can name it. `FilesInv` follows a file
through its life. Names are used once (`NamesUsed`); until the commit only the
request that stored a file knows of it (`UncommittedIsPrivate`); after the commit
of a deletion its row is gone for good (`DeletedIsGone`); a request works on its
own record's files, and a creation's record has no rows before its commit
(`RecordsOfRequests`), so removing its directory harms nobody; and what a request
has stored is on the disk (`StoredFiles`). `Accounted` and `ChecksHold` carry the
last two theorems: the checks a request passed, kept from the check to the
commit. `ListedFilesExist` assumes no failed refresh and `NoFileLeftBehind` no
fault at all, both in the property itself.

`AccessGroups_proofs`. The four invariants speak of tables, and a request that is
in flight will write them later, from what it read. `IInv` therefore says what
each pending change is good for: applied to the tables as they are now it leaves
right whom no other request works on (`LeavesRight`), it gives no group to people
without an account and no state to tenants without a row (`Grounded`),
and one that makes or ends an administrator is an Owner's (`AskedByOwner`). Each
`...IsGood` lemma shows that for one handler. A commit of one request spoils
another's change only when they share a target, and then the target is in
`raced` (`OverlapsAreRaced`): that is why the properties except it. Accounts that
do not exist yet are free of everything (`NewcomersAreFree`), so that signing up
starts right, and before the first start-up nobody has a group
(`MissingHaveNoGroup`, `LegacyRight`), so that start-up ends right.
`StartUpRepairs` uses none of this: `Home` is right for any groups.

`Sessions_proofs`. While no two changes of an account overlap, its version grows by
one with each password and is compared for equality, so an accepted token of an
unraced account must have been issued at the current password. `SessionInv`
carries this for tokens (`TokensRight`: no newer version than the account's, and
the same password at the same version), for logins in flight (`LoginsRight`: the
copy was true once), and for changes in flight (`ChangesAreCurrent`: nobody else
moved the version meanwhile, or the account is raced). `PasswordsNew` keeps a
person's own choice apart from an administrator's. `RefusalsLast` looks at a step:
a refused token has an old version, which no later one equals, or is revoked, or
its account is inactive.

`Journey_proofs`. The limiter's deque has only its first entry looked at, so what
`enforce` removes is a prefix, and everything rests on the deque's order:
`LimiterInv` says that it is sorted, at most `Limit` long, that its fresh part is
the history of admissions counted apart, and that a promise made to a waiting
client is met by the age of the oldest entry. The entries to be removed are found
as the least index that is not stale, which is where the order of the naturals
comes in (`LeastNat`, from `WFMin`). `MessageInv` bounds the posts of a schedule
by what its task can still do: one that could still post has posted nothing.
`ViewInv` says of an uncrossed page that at most one load is in flight, that it is
the newest, that it asks for the page's week unless `outdated`, and that a page without one is settled:
navigation aborts what it replaces, so two loads coexist only after a refresh, which
`crossed` records. That what is shown is fresh needs no second exception.

Only model-checked: the two liveness properties, `WaitEnds` and `SavedIsShown`,
and the counterexamples of the two runs that have one. Liveness under fairness,
ENABLED, induction over data and recursive operators are out of the prover's
reach; the proofs avoid the last two by counting and by least elements.

## 5. Not modelled

The AI access policy is one decision over settings and groups without state or
order; the assistant, the chat and the MCP server (`services/pds_*`,
`services/assistant_service.py`, `mcp_server.py`) read and keep nothing the rules
read, and what they answer is wording. Schema migrations are one-off scripts.
The audit trail is written by every handler and read back by one (`closure`).
Searches by text and Schedule No. are filters without an order of their own. The
front end's other pages and forms hold one request at a time; `ScheduleSearch.tsx`
guards its rows by a generation, and the flags it does not guard are listed among
the hazards. `delete_booking` has no route that calls it. Pasted comment images,
and the labels, descriptions and order of document types, decide nothing. The
retry of `_flush_new_booking` over a clash of booking references ends in the
same row. Passwords are compared and tokens decoded, not hashed or encoded.
SQLite, which the tests may use, serialises writers; the model is of PostgreSQL.

## 6. Plan

1. Board, rules, offers, scheduler, its concurrent requests, lock overrides, the
   first proofs. *(done)*
2. `Documents`: types, uploads, replacement, deletion, creation and comments
   against rows and files, with faults; its invariants proved. *(done)*
3. `AccessGroups`: memberships, Member Pool, roles, Owner, tenants, start-up with
   crashes; its invariants proved. *(done)*
4. `Sessions`, `RateLimiter`: token versions, revocation across a restart,
   required password change; the sliding window. *(done)*
5. `Announcements`, `ScheduleView` and `Journey`, which composes them under
   fairness. *(done)*
6. `WeekBoard` and `ScheduleSearch`: what readers see against what handlers
   do. *(done)*
7. Proofs of everything the runs check except liveness: offers, board and lists
   against the handlers, quotas, the safety of `Journey`, and the screens under
   concurrent requests. *(done)*
8. Left: the loop of `automatic_frozen_dates` against the set that `ReleaseBoard`
   defines; numbers of bookings never reused; the hazards of `PROJECT.json` that
   no property covers yet.
