----------------------------- MODULE MCSessions -----------------------------
(* An instance of Sessions for TLC: the Owner and a user. *)
EXTENDS Sessions, TLC

CONSTANTS root, ann

RequestSymmetry == Permutations(Requests)
=============================================================================
