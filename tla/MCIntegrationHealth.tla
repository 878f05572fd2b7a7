------------------------- MODULE MCIntegrationHealth -------------------------
(* Instances of IntegrationHealth for TLC. *)
EXTENDS IntegrationHealth, TLC

CONSTANTS loki, run1, run2

RunSymmetry == Permutations(Runs)
===============================================================================
