----------------------------- MODULE MCLifecycle -----------------------------
(* Instances of Lifecycle for TLC. *)
EXTENDS Lifecycle

CONSTANTS batch, check, tick

MCStatements == ({"lookup", "touch", "audit"} \X Ingestions)
                  \cup ({"ping", "list"} \X Checks) \cup ({"probe"} \X Probes)
===============================================================================
