------------------------------ MODULE MCJourney ------------------------------
(* An instance of Journey for TLC: one browser, two weeks, one schedule. *)
EXTENDS Journey

CONSTANTS thisWeek, nextWeek

\* A webhook with notifications on, the same without a new URL, and its removal.
MCSettings ==
    {[on |-> "ON", new |-> TRUE, clear |-> FALSE],
     [on |-> "ON", new |-> FALSE, clear |-> FALSE],
     [on |-> "KEEP", new |-> FALSE, clear |-> TRUE]}
=============================================================================
