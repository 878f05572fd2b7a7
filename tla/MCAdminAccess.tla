---------------------------- MODULE MCAdminAccess ----------------------------
(* Instances of AdminAccess for TLC. *)
EXTENDS AdminAccess, TLC

CONSTANTS q1, q2, q3, ana, bob

Symmetry == Permutations(Requests) \cup Permutations(Admins)
===============================================================================
