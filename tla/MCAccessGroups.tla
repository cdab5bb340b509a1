--------------------------- MODULE MCAccessGroups ---------------------------
(* Instances of AccessGroups for TLC: the payloads that arrive in each run. *)
EXTENDS AccessGroups, TLC

CONSTANTS root, ann, t1, c1

RequestSymmetry == Permutations(Requests)

Of(op, u, g) == [op |-> op, user |-> u, group |-> g]
On(op) == Of(op, ann, "MANAGEMENT")

\* Everything that can happen to one user, with a custom group and a tenant.  AI Users
\* is only joined: leaving it is like leaving the custom group.
AllAsks ==
    {Of(op, ann, g) : op \in {"add", "remove"}, g \in {"RELEASE_MANAGERS", c1}}
    \cup {Of("add", ann, "AI_USERS")}
    \cup {On(op) : op \in {"promote", "demote", "activate", "deactivate"}}
    \cup {Of(op, ann, c1) : op \in {"createGroup", "deleteGroup"}}
    \cup {Of(op, ann, t1) : op \in {"createTenant", "editTenant", "enableTenant",
                                   "disableTenant", "listGroups"}}

\* An administrator and the Management group.
ManagementAsks == {Of("add", ann, "RELEASE_MANAGERS"), Of("add", root, "MANAGEMENT")}
=============================================================================
