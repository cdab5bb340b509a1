----------------------------- MODULE ChangeBoard -----------------------------
(***************************************************************************)
(* What the release board promises about a change record, whatever the     *)
(* calendar, the locks and the caller: its life cycle, where it may sit,   *)
(* and what reopening gives back.                                          *)
(***************************************************************************)
CONSTANTS
    Records,
    Places,         \* a date and a slot
    Queue           \* the places any number of records may share

VARIABLES
    stage,          \* life-cycle status of each record
    place,          \* where each record is scheduled
    resume          \* the stage a closed record was closed from

Open == {"BOOKED", "IN_PROGRESS"}
Standing == Open \cup {"COMPLETED"}
NoStage == "ABSENT"

Free(r, p) ==
    \/ p \in Queue
    \/ \A o \in Records \ {r} : stage[o] \in Standing => place[o] # p

Init ==
    /\ stage = [r \in Records |-> NoStage]
    /\ place \in [Records -> Queue]
    /\ resume = [r \in Records |-> NoStage]

\* A record enters the board at a free place.
File(r, p) ==
    /\ stage[r] = NoStage
    /\ Free(r, p)
    /\ stage' = [stage EXCEPT ![r] = "BOOKED"]
    /\ place' = [place EXCEPT ![r] = p]
    /\ UNCHANGED resume

\* Only an open record moves, and only to a free place.
Shift(r, p) ==
    /\ stage[r] \in Open
    /\ Free(r, p)
    /\ place' = [place EXCEPT ![r] = p]
    /\ UNCHANGED <<stage, resume>>

Begin(r) ==
    /\ stage[r] = "BOOKED"
    /\ stage' = [stage EXCEPT ![r] = "IN_PROGRESS"]
    /\ UNCHANGED <<place, resume>>

Close(r) ==
    /\ stage[r] \in Open
    /\ stage' = [stage EXCEPT ![r] = "COMPLETED"]
    /\ resume' = [resume EXCEPT ![r] = stage[r]]
    /\ UNCHANGED place

\* A reopened record is back where it was closed from, at the same place.
Reopen(r) ==
    /\ stage[r] = "COMPLETED"
    /\ stage' = [stage EXCEPT ![r] = resume[r]]
    /\ resume' = [resume EXCEPT ![r] = NoStage]
    /\ UNCHANGED place

\* A cancelled record frees its place and is never touched again.
Withdraw(r) ==
    /\ stage[r] \in Open
    /\ stage' = [stage EXCEPT ![r] = "CANCELLED"]
    /\ UNCHANGED <<place, resume>>

Next ==
    \E r \in Records :
        \/ \E p \in Places : File(r, p) \/ Shift(r, p)
        \/ Begin(r)
        \/ Close(r)
        \/ Reopen(r)
        \/ Withdraw(r)

vars == <<stage, place, resume>>

Spec == Init /\ [][Next]_vars
=============================================================================
