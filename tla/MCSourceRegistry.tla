--------------------------- MODULE MCSourceRegistry ---------------------------
(* Instances of SourceRegistry for TLC. *)
EXTENDS RegistryOfSources, TLC

CONSTANTS a1, a2, s1, slotA, slotB, name, status, plain, other

MCTakenBy == s1 :> slotA

\* Admins are alike: neither the module nor its properties name one.
Symmetry == Permutations(Requests)
===============================================================================
