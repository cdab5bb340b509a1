---------------------------- MODULE MCSchedulerTx ----------------------------
(* Instances of SchedulerTx for TLC: the payloads that arrive in each run. *)
EXTENDS SchedulerTx, TLC

CONSTANTS m1, m2, u1, t1

\* Requests are interchangeable.
RequestSymmetry == Permutations(Requests)

MCDefaults == [regular |-> 1, weekly |-> 1, freeze |-> 0]
TwoSlots == [regular |-> 2, weekly |-> 1, freeze |-> 0]
MCTenantsOf == [u \in Users |-> {t1}]

By(a, op, id) == [op |-> op, by |-> a, id |-> id, tenant |-> t1, day |-> 1,
                  slot |-> 1, manager |-> m1, grid |-> {1}]
At(k, d, s) == [k EXCEPT !.day = d, !.slot = s]

\* Two records contend for two slots of a date, and everything that can happen
\* to the first of them and to the grid.
AllAsks ==
    {By(Owner, op, 1) : op \in {"create", "close", "keepOpen", "reopen", "cancel", "assign"}}
    \cup {By(m1, "start", 1), At(By(Owner, "update", 1), 1, 2),
          [By(m2, "assign", 1) EXCEPT !.manager = m2],
          At(By(Owner, "reschedule", 2), 1, 2),
          [By(Owner, "replaceSlots", 1) EXCEPT !.grid = {1, 2}]}

\* A tenant's booking of this week is moved to the next, where another is made.
WeekAsks == {At(By(u1, "create", 1), 4, 1), At(By(u1, "reschedule", 1), 7, 1),
             At(By(u1, "create", 1), 8, 1)}
=============================================================================
