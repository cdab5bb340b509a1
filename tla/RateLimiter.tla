---------------------------- MODULE RateLimiter -----------------------------
(***************************************************************************)
(* enforce(): the in-process sliding-window limiter.  A key (a bucket and  *)
(* a client's address) has a deque of the times of its admissions; here    *)
(* their ages, which grow with the clock.                                  *)
(***************************************************************************)
EXTENDS Naturals, Sequences

CONSTANTS
    Clients,       \* the keys
    Limit, Window

ASSUME LimiterAssumption == Limit \in Nat \ {0} /\ Window \in Nat \ {0}

VARIABLES
    hits,          \* _hits: ages of the recorded admissions, oldest first
    recent,        \* history: the admissions that are in the window
    promise        \* history: seconds until the time Retry-After named, or NoPromise

limiterVars == <<hits, recent, promise>>

NoPromise == Window + 2

LimiterInit ==
    /\ hits = [c \in Clients |-> <<>>]
    /\ recent = [c \in Clients |-> <<>>]
    /\ promise = [c \in Clients |-> NoPromise]

\* How many popleft() calls it takes until the head is in the window or none is left.
Stale(ages, window) ==
    CHOOSE n \in 0..Len(ages) :
        /\ \A i \in 1..n : ages[i] > window
        /\ n < Len(ages) => ages[n+1] <= window

Since(ages, window) == SubSeq(ages, Stale(ages, window) + 1, Len(ages))

\* Mutant of Fresh: an admission at the edge of the window is forgotten.
FreshInside(ages) == Since(ages, Window - 1)

\* What the loop leaves.
Fresh(ages) == Since(ages, Window)

Full(c) == Len(Fresh(hits[c])) >= Limit

\* Mutant of RetryAfter: the second in which the oldest leaves is not added.
RetryAfterTruncated(c) == Window - Head(Fresh(hits[c]))

RetryAfter(c) == Window - Head(Fresh(hits[c])) + 1

Admit(c) ==
    /\ ~Full(c)
    /\ hits' = [hits EXCEPT ![c] = Append(Fresh(@), 0)]
    /\ recent' = [recent EXCEPT ![c] = Append(@, 0)]
    /\ promise' = [promise EXCEPT ![c] = NoPromise]

\* Mutant of AfterRefusal: a refused attempt counts.
AfterRefusalCounted(ages) == Append(Tail(Fresh(ages)), 0)

\* A refused attempt is not recorded.
AfterRefusal(ages) == Fresh(ages)

Refuse(c) ==
    /\ Full(c)
    /\ hits' = [hits EXCEPT ![c] = AfterRefusal(@)]
    /\ promise' = [promise EXCEPT ![c] = RetryAfter(c)]
    /\ UNCHANGED recent

\* Ages past the window are all the same.
Older(ages) == [i \in DOMAIN ages |-> IF ages[i] > Window THEN ages[i] ELSE ages[i] + 1]

\* A second passes.
Tick ==
    /\ hits' = [c \in Clients |-> Older(hits[c])]
    /\ recent' = [c \in Clients |-> Since(Older(recent[c]), Window)]
    /\ promise' = [c \in Clients |-> IF promise[c] \in {0, NoPromise} THEN promise[c]
                                     ELSE promise[c] - 1]

\* The deques are in the memory of the process.
LimiterForgets ==
    /\ hits' = [c \in Clients |-> <<>>]
    /\ recent' = [c \in Clients |-> <<>>]
    /\ promise' = [c \in Clients |-> NoPromise]

LimiterTypeOK ==
    /\ \A c \in Clients :
          /\ hits[c] \in Seq(0..Window + 1) /\ Len(hits[c]) <= Limit
          /\ recent[c] \in Seq(0..Window)
    /\ promise \in [Clients -> 0..NoPromise]

\* However the attempts fall, no window of that length, its ends included, has more
\* admissions than the limit.
AtMostLimitPerWindow == \A c \in Clients : Len(recent[c]) <= Limit

\* Who waits as long as Retry-After says is admitted, if nobody was admitted meanwhile.
RetryAfterIsHonest == \A c \in Clients : promise[c] = 0 => ~Full(c)

\* A client that is refused is admitted again some time, even if it keeps trying.
WaitEnds == \A c \in Clients : []<>~Full(c)
=============================================================================
