---------------------------- MODULE ScheduleView ----------------------------
(***************************************************************************)
(* useSchedule: the week a browser shows, and its requests for it.  A load *)
(* that the page started (on its first view, and when the week changes) is *)
(* dropped when the week changes; one that refresh() started never is.     *)
(* refresh() belongs to the render it was taken from: a handler that       *)
(* awaited the server asks for the week the page was on when it began.     *)
(***************************************************************************)
EXTENDS Naturals, FiniteSets

CONSTANTS
    Weeks,
    Today,       \* the current week
    NoWeek,      \* no anchor yet; nothing shown yet
    MaxLoads     \* bound: the loads of one browser

ASSUME ViewAssumption ==
    /\ Today \in Weeks /\ NoWeek \notin Weeks
    /\ MaxLoads \in Nat \ {0}

VARIABLES
    revision,    \* of each week on the server
    anchor,      \* the week asked for
    shown,       \* schedule: the week and the revision of it, or NoWeek
    loading, error,
    loads,       \* in flight: [id, week, kept, answer]
    handlers,    \* the anchors from which handlers that await their answer began
    started,     \* how many loads were started
    asked,       \* history: the revision when the last load started
    crossed,     \* history: a refresh was in flight together with another load
    outdated     \* history: the last load is a refresh for a week the page had left

viewVars == <<anchor, shown, loading, error, loads, handlers, started, asked, crossed, outdated>>

Nothing == [week |-> NoWeek, revision |-> 0]
Pending == [outcome |-> "PENDING", view |-> Nothing]
Failed == [outcome |-> "FAILED", view |-> Nothing]

\* What the load() of a render with this anchor asks for: only the week that is shown
\* is read when the request starts.
WantedWeek(captured) ==
    IF captured # NoWeek THEN captured
    ELSE IF shown # Nothing THEN shown.week
    ELSE Today

\* Mutant of Remaining: the handlers do not look at the signal.
RemainingAll(refresh) == loads

\* The controller of the page's previous load is aborted; its handlers do nothing.
Remaining(refresh) == IF refresh THEN loads ELSE {l \in loads : l.kept}

StartLoad(week, refresh) ==
    /\ started < MaxLoads
    /\ started' = started + 1
    /\ loads' = Remaining(refresh) \cup
                   {[id |-> started', week |-> week, kept |-> refresh, answer |-> Pending]}
    /\ crossed' = \/ \E l \in loads : l.kept
                  \/ refresh /\ loads # {}
    /\ outdated' = (refresh /\ anchor \notin {NoWeek, week})
    /\ asked' = revision
    /\ loading' = TRUE

\* The page is opened on the week of a slot link, on the current one for administrators,
\* and otherwise where the server lands it.
ViewInit ==
    /\ revision = [w \in Weeks |-> 0]
    /\ anchor \in Weeks \cup {NoWeek} /\ shown = Nothing
    /\ loading = TRUE /\ error = FALSE
    /\ loads = {[id |-> 1, week |-> anchor, kept |-> FALSE, answer |-> Pending]}
    /\ handlers = {}
    /\ started = 1 /\ asked = revision /\ crossed = FALSE /\ outdated = FALSE

\* The weeks before and after, today's, and the week of a slot link.
Navigate(w) ==
    /\ w # anchor
    /\ anchor' = w
    /\ StartLoad(w, FALSE)
    /\ UNCHANGED <<revision, shown, error, handlers>>

\* refresh() of the render with this anchor.
Refresh(captured) ==
    /\ StartLoad(WantedWeek(captured), TRUE)
    /\ UNCHANGED <<revision, anchor, shown, error>>

\* The button beside an error.
Retry == error /\ Refresh(anchor) /\ UNCHANGED handlers

\* Slots are frozen or unlocked, a day gets a slot, a record is changed in its panel, or
\* a slot link is checked: the handler keeps the refresh() of its render, and awaits.
\* Bound: one handler of each anchor at a time.
BeginHandler ==
    /\ anchor \notin handlers
    /\ handlers' = handlers \cup {anchor}
    /\ UNCHANGED <<revision, anchor, shown, loading, error, loads, started, asked,
                   crossed, outdated>>

\* The handler is answered: it refreshes, or tells of a failure.
EndHandler(captured) ==
    /\ captured \in handlers
    /\ handlers' = handlers \ {captured}
    /\ \/ Refresh(captured)
       \/ UNCHANGED <<revision, anchor, shown, loading, error, loads, started, asked,
                      crossed, outdated>>

\* The server reads the week (or the one it lands on), or the request fails.
Serve(l) ==
    /\ l \in loads /\ l.answer = Pending
    /\ \E w \in IF l.week = NoWeek THEN Weeks ELSE {l.week} :
       \E answer \in {Failed, [outcome |-> "OK", view |-> [week |-> w, revision |-> revision[w]]]} :
          loads' = (loads \ {l}) \cup {[l EXCEPT !.answer = answer]}
    /\ UNCHANGED <<revision, anchor, shown, loading, error, handlers, started, asked,
                   crossed, outdated>>

Deliver(l) ==
    /\ l \in loads /\ l.answer # Pending
    /\ loads' = loads \ {l}
    /\ IF l.answer = Failed
       THEN error' = TRUE /\ UNCHANGED shown
       ELSE error' = FALSE /\ shown' = l.answer.view
    /\ loading' = FALSE
    /\ UNCHANGED <<revision, anchor, handlers, started, asked, crossed, outdated>>

ViewTypeOK ==
    /\ revision \in [Weeks -> Nat] /\ asked \in [Weeks -> Nat]
    /\ anchor \in Weeks \cup {NoWeek}
    /\ shown \in [week: Weeks \cup {NoWeek}, revision: Nat]
    /\ {loading, error, crossed, outdated} \subseteq BOOLEAN
    /\ handlers \subseteq Weeks \cup {NoWeek}
    /\ started \in 1..MaxLoads
    /\ \A l \in loads : l.id \in 1..started /\ l.answer.outcome \in {"PENDING", "OK", "FAILED"}

\* When the last answer is in, the board shows the week the page is on, no older than
\* when it was asked for: loads dropped by a change of week cannot overwrite it.  Two
\* refreshes can, as nothing drops them: one that crosses another load, in either
\* order, and one of a handler that began on a week the page has left, which shows
\* that week again, as it is now.
SettledViewIsCurrent ==
    loads = {} /\ ~error /\ ~crossed =>
        /\ shown # Nothing
        /\ anchor # NoWeek /\ ~outdated => shown.week = anchor
        /\ shown.revision >= asked[shown.week]
=============================================================================
