---------------------------- MODULE MCIngestion ----------------------------
(* Instances of Ingestion for TLC. *)
EXTENDS IngestionGateway, TLC

CONSTANTS r1, r2, s1, s2, k1, k2, logs

\* Each source has one key; two requests may share a key, or use one each.
MCOwner == (k1 :> s1) @@ (k2 :> s2)
MCOneKeyOwner == (k1 :> s1)

Symmetry == Permutations(Requests)
=============================================================================
