--------------------------- MODULE RegistryOfSources ---------------------------
(***************************************************************************)
(* The registry as the ingestion path reads it, computed from the tables   *)
(* the admin API writes.  A source is active or disabled by one column; a  *)
(* key is registered once the credential row of its request is inserted,   *)
(* and keeps its status and expiry afterwards, as no handler changes them. *)
(***************************************************************************)
EXTENDS SourceRegistry

CONSTANT StatusField   \* the column source_applications.status

ASSUME StatusFieldAssumption == StatusField \in Fields

StatusOf(id) == IF columns[id][StatusField] = Default THEN "active" ELSE "disabled"

KeyOf(r) == IF owner[r] = None THEN "absent" ELSE "active"

RouteOf(id, g) == IF g \in routes[id] THEN "enabled" ELSE "missing"

R == INSTANCE Registry WITH
       Sources      <- Ids,
       Keys         <- Requests,
       Signals      <- SignalSet,
       sourceStatus <- [id \in Ids |-> StatusOf(id)],
       credential   <- [r \in Requests |-> KeyOf(r)],
       expired      <- [r \in Requests |-> FALSE],
       route        <- [id \in Ids |-> [g \in SignalSet |-> RouteOf(id, g)]]

\* Whatever admins do, and however their requests fail or crash half way, a running
\* ingestion sees the registry take only the steps it was checked against: one status or
\* route at a time, a route seeded and never taken away, a key that appears once and stays.
KeepsRegistry == R!RegistrySpec
===============================================================================
