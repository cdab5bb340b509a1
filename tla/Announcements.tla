--------------------------- MODULE Announcements ----------------------------
(***************************************************************************)
(* Teams messages about new schedules.  A task is added after the commit,  *)
(* for after the response; a worker thread then reads the settings in a    *)
(* session of its own and posts once.  Tasks live in the process.          *)
(***************************************************************************)
EXTENDS Naturals

CONSTANTS
    Schedules,
    SettingsAsks   \* bound: the settings the Owner sends

ASSUME SettingsAsksAssumption ==
    SettingsAsks \subseteq [on: {"ON", "OFF", "KEEP"}, new: BOOLEAN, clear: BOOLEAN]

\* OLD: a URL saved before Workflows-only validation.
Webhooks == {"NONE", "OLD", "VALID"}

VARIABLES
    webhook, enabled,  \* the two application settings
    task,              \* background tasks: of no use, queued, or posting
    posts              \* history: the messages Teams accepted

announceVars == <<webhook, enabled, task, posts>>

AnnounceInit ==
    /\ webhook \in {"NONE", "OLD"} /\ enabled = (webhook = "OLD")
    /\ task = [s \in Schedules |-> "NONE"]
    /\ posts = [s \in Schedules |-> 0]

EnabledAfter(on, clear) ==
    IF clear THEN FALSE ELSE IF on = "KEEP" THEN enabled ELSE on = "ON"

\* write_teams_notifications, with a valid new URL or none; others raise.
UpdateSettings(on, new, clear) ==
    /\ on = "ON" /\ ~clear => new \/ webhook = "VALID"
    /\ webhook' = IF clear THEN "NONE" ELSE IF new THEN "VALID" ELSE webhook
    /\ enabled' = EnabledAfter(on, clear)
    /\ <<webhook, enabled>>' # <<webhook, enabled>>
    /\ UNCHANGED <<task, posts>>

\* background_tasks.add_task, after the commit.
AddTask(s) ==
    /\ task' = [task EXCEPT ![s] = "QUEUED"]
    /\ UNCHANGED <<webhook, enabled, posts>>

\* notify_booking_created reads the settings as they are now.
PickUp(s) ==
    /\ task[s] = "QUEUED"
    /\ task' = [task EXCEPT ![s] =
                   IF enabled /\ webhook = "VALID" THEN "POSTING" ELSE "NONE"]
    /\ UNCHANGED <<webhook, enabled, posts>>

\* Mutant of AfterPost: a message that failed is tried again.
AfterPostRetried(acknowledged) == IF acknowledged THEN "NONE" ELSE "QUEUED"

\* Any failure is logged, and that is all.
AfterPost(acknowledged) == "NONE"

\* Teams accepts the message or not; the answer may be an error or too late.
Post(s, accepted, acknowledged) ==
    /\ task[s] = "POSTING"
    /\ acknowledged => accepted
    /\ posts' = IF accepted THEN [posts EXCEPT ![s] = @ + 1] ELSE posts
    /\ task' = [task EXCEPT ![s] = AfterPost(acknowledged)]
    /\ UNCHANGED <<webhook, enabled>>

Work(s) == PickUp(s) \/ \E accepted, acknowledged \in BOOLEAN : Post(s, accepted, acknowledged)

TasksLost == task' = [s \in Schedules |-> "NONE"] /\ UNCHANGED <<webhook, enabled, posts>>

AnnounceTypeOK ==
    /\ webhook \in Webhooks /\ enabled \in BOOLEAN
    /\ task \in [Schedules -> {"NONE", "QUEUED", "POSTING"}]
    /\ posts \in [Schedules -> Nat]

\* Teams gets one message about a schedule at most, whatever it answers and when.
AnnouncedAtMostOnce == \A s \in Schedules : posts[s] <= 1
=============================================================================
