------------------------------- MODULE Journey -------------------------------
(***************************************************************************)
(* A new schedule from the browser to the board: the page saves it, the    *)
(* limiter lets the request in or not, the server commits it and queues    *)
(* its Teams message, the answer makes the page refresh its week, and the  *)
(* message goes out meanwhile.  The process may crash at any time.         *)
(***************************************************************************)
EXTENDS RateLimiter, Announcements, ScheduleView

CONSTANTS
    Me,          \* the client whose browser this is
    MaxAwaited   \* bound: the answers its handlers and its save await together

ASSUME JourneyAssumption == Me \in Clients /\ MaxAwaited \in Nat \ {0}

VARIABLES
    placed,   \* the committed schedules and their weeks
    saving,   \* the page's save: none, sent for a week, or answered; its anchor then
    mine      \* history: the page's schedule that it has not shown, nor anything else

serverVars == <<revision, placed>>
vars == <<limiterVars, announceVars, viewVars, serverVars, saving, mine>>

Idle == [state |-> "IDLE", week |-> NoWeek, captured |-> NoWeek, revision |-> 0]
Sent == [state |-> "SENT", week |-> shown.week, captured |-> anchor, revision |-> 0]
Answered(s, n) == [saving EXCEPT !.state = s, !.revision = n]

Init ==
    /\ LimiterInit /\ AnnounceInit /\ ViewInit
    /\ placed = [s \in Schedules |-> NoWeek]
    /\ saving = Idle /\ mine = Idle

-----------------------------------------------------------------------------
(* The page *)

\* Bounds: the person leaves a load for the answer to a save, begins what a handler does
\* while a load is left to leave the week and one to refresh it, and awaits so many
\* answers at once.
LoadToSpare == started + 1 < MaxLoads \/ saving = Idle
HandToSpare == Cardinality(handlers) + (IF saving = Idle THEN 0 ELSE 1) < MaxAwaited

Save ==
    /\ saving = Idle /\ shown # Nothing
    /\ started < MaxLoads /\ HandToSpare
    /\ saving' = Sent
    /\ UNCHANGED <<limiterVars, announceVars, viewVars, serverVars, mine>>

\* The page now shows the schedule, an error or another week.
Tells(m) == error' \/ shown'.week # m.week \/ shown'.revision >= m.revision

ViewStep(step) ==
    /\ step
    /\ mine' = IF mine # Idle /\ Tells(mine) THEN Idle ELSE mine
    /\ UNCHANGED <<limiterVars, announceVars, placed, saving>>

View ==
    \/ ViewStep(LoadToSpare /\ \E w \in Weeks : Navigate(w))
    \/ ViewStep(LoadToSpare /\ Retry)
    \/ ViewStep(HandToSpare /\ started + 1 < MaxLoads /\ BeginHandler)
    \/ ViewStep(LoadToSpare /\ \E w \in handlers : EndHandler(w))

Served == ViewStep(\E l \in loads : Serve(l))
Delivered == ViewStep(\E l \in loads : Deliver(l))

\* Mutant of AfterSave: the drawer closes and nothing else happens.
AfterSaveOnly == UNCHANGED <<revision, viewVars>>

\* onSaved = refreshAll, of the render in which the save was sent.
AfterSave == Refresh(saving.captured) /\ UNCHANGED handlers

SaveAnswered ==
    /\ saving.state \in {"SAVED", "FAILED"}
    /\ saving' = Idle
    /\ IF saving.state = "SAVED"
       THEN AfterSave /\ mine' = [saving EXCEPT !.captured = NoWeek]
       ELSE UNCHANGED <<revision, viewVars, mine>>
    /\ UNCHANGED <<limiterVars, announceVars, placed>>

-----------------------------------------------------------------------------
(* The server *)

Place(s, w) ==
    /\ placed[s] = NoWeek
    /\ placed' = [placed EXCEPT ![s] = w]
    /\ revision' = [revision EXCEPT ![w] = @ + 1]

\* create_booking: the limiter first, then the rules, the commit and the task.  A
\* failed db.refresh after the commit answers 500 and queues nothing.
HandleSave ==
    LET w == saving.week IN
    /\ saving.state = "SENT"
    /\ \/ /\ Refuse(Me)
          /\ saving' = Answered("FAILED", 0)
          /\ UNCHANGED <<announceVars, serverVars>>
       \/ /\ Admit(Me)
          /\ saving' = Answered("FAILED", 0)
          /\ UNCHANGED announceVars
          /\ UNCHANGED serverVars \/ \E s \in Schedules : Place(s, w)
       \/ \E s \in Schedules :
             /\ Admit(Me)
             /\ Place(s, w)
             /\ AddTask(s)
             /\ saving' = Answered("SAVED", revision'[w])
    /\ UNCHANGED <<viewVars, mine>>

\* Somebody else's schedule, from another address.
OthersPlace(s, w) ==
    /\ Place(s, w)
    /\ AddTask(s)
    /\ UNCHANGED <<limiterVars, viewVars, saving, mine>>

Settings ==
    /\ \E k \in SettingsAsks : UpdateSettings(k.on, k.new, k.clear)
    /\ UNCHANGED <<limiterVars, viewVars, serverVars, saving, mine>>

Worker(s) == Work(s) /\ UNCHANGED <<limiterVars, viewVars, serverVars, saving, mine>>

Clock == Tick /\ UNCHANGED <<announceVars, viewVars, serverVars, saving, mine>>

\* Hits and tasks are in the process; requests it has not answered fail.
Crash ==
    /\ LimiterForgets
    /\ TasksLost
    /\ loads' = {[l EXCEPT !.answer = IF @ = Pending THEN Failed ELSE @] : l \in loads}
    /\ saving' \in {saving} \cup
          (IF saving = Idle THEN {} ELSE {Answered("FAILED", 0)})
    /\ saving'.state # "SENT"
    /\ UNCHANGED <<anchor, shown, loading, error, handlers, started, asked, crossed,
                   outdated, serverVars, mine>>

Next ==
    \/ Save \/ View \/ Delivered \/ SaveAnswered
    \/ HandleSave \/ Served
    \/ \E s \in Schedules, w \in Weeks : OthersPlace(s, w)
    \/ Settings
    \/ \E s \in Schedules : Worker(s)
    \/ Clock
    \/ Crash

\* Time passes, the server runs, and answers arrive (a request that cannot be answered
\* fails).  Nothing is assumed of people, of Teams and of crashes.
Fairness ==
    /\ WF_vars(Clock)
    /\ WF_vars(HandleSave \/ SaveAnswered)
    /\ WF_vars(Served \/ Delivered)

Spec == Init /\ [][Next]_vars /\ Fairness

-----------------------------------------------------------------------------
(* Properties of the whole *)

\* Every variable keeps its type.
TypeOK ==
    /\ LimiterTypeOK /\ AnnounceTypeOK /\ ViewTypeOK
    /\ placed \in [Schedules -> Weeks \cup {NoWeek}]
    /\ {saving, mine} \subseteq [state: {"IDLE", "SENT", "SAVED", "FAILED"},
                                 week: Weeks \cup {NoWeek},
                                 captured: Weeks \cup {NoWeek}, revision: Nat]

\* A save comes to an end in the page, the spinner of the board stops, and a schedule
\* saved in this browser comes to the board, unless the page shows an error or another
\* week: the refresh after a save is never dropped, whatever fails and crosses it.
SavedIsShown ==
    /\ []<>(saving = Idle)
    /\ []<>~loading
    /\ []<>(mine = Idle)
=============================================================================
