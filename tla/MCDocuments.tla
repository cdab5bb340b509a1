----------------------------- MODULE MCDocuments -----------------------------
(* Instances of Documents for TLC. *)
EXTENDS Documents, TLC

CONSTANTS r1, r2, test

\* An optional Multiple type, a required Single one, and a disabled one.
Optional == [active |-> TRUE, required |-> FALSE, multiple |-> TRUE]
Required == [active |-> TRUE, required |-> TRUE, multiple |-> FALSE]
Disabled == [active |-> FALSE, required |-> FALSE, multiple |-> FALSE]
RequiredFiles == [active |-> TRUE, required |-> TRUE, multiple |-> TRUE]

EverySetting == {Optional, Required, Disabled}
OneSetting == {RequiredFiles}

\* Requests are interchangeable: no property of these runs is a liveness property.
Interchangeable == Permutations({r1, r2})
=============================================================================
