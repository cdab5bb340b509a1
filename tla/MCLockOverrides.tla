--------------------------- MODULE MCLockOverrides ---------------------------
(* Instance of LockOverrides for TLC: two administrators at one date. *)
EXTENDS LockOverrides, TLC

CONSTANTS r1, r2
=============================================================================
