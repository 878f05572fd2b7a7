--------------------------- MODULE IngestionGateway ---------------------------
(***************************************************************************)
(* Ingestion implements TelemetryGateway.  The abstract registry is the    *)
(* set of keys that authenticate; a request is closed by its reply, lost   *)
(* by a crash and open in between; its batch is passed on once the fetch   *)
(* is started, and kept once the Collector accepts it.                     *)
(***************************************************************************)
EXTENDS Ingestion

phaseOf(r) ==
  CASE pc[r] = "idle"     -> "new"
    [] pc[r] = "answered" -> "closed"
    [] pc[r] = "lost"     -> "lost"
    [] OTHER              -> "open"

replyOf(r) ==
  IF pc[r] # "answered" THEN "none"
  ELSE CASE answer[r] = 202 -> "ok"
         [] answer[r] = 502 -> "doubt"
         [] OTHER           -> "refused"

Gateway == INSTANCE TelemetryGateway WITH
  good     <- {k \in Keys : Authentic(k)},
  holds    <- [r \in Requests |-> IF ask[r] = None THEN NoKey ELSE ask[r].key],
  phase    <- [r \in Requests |-> phaseOf(r)],
  entitled <- {r \in Requests : "authentic" \in seen[r]},
  passedOn <- {r \in Requests : wire[r] # "none"},
  kept     <- {r \in Requests : wire[r] = "accepted"},
  reply    <- [r \in Requests |-> replyOf(r)]

\* Every behaviour of the ingestion handlers, with any interleaving of registry
\* changes, Collector faults and crashes, is one the gateway's promise allows.
KeepsThePromise == Gateway!Spec
===============================================================================
