-------------------------------- MODULE Registry --------------------------------
(***************************************************************************)
(* What the ingestion path relies on of the source registry: statuses and  *)
(* routes change one at a time, a key appears once and is never taken      *)
(* away, nor is a route.  Ingestion runs concurrently with these steps;    *)
(* RegistryOfSources shows that the admin API makes no others.             *)
(***************************************************************************)
CONSTANTS Sources,      \* source applications
          Keys,         \* source keys, registered or not (key_hash is UNIQUE)
          Signals       \* logs, traces, metrics

VARIABLES sourceStatus, credential, expired, route

registry == <<sourceStatus, credential, expired, route>>

RegistryInit ==
  /\ sourceStatus = [s \in Sources |-> "active"]
  /\ credential \in [Keys -> {"absent", "active"}]
  /\ expired = [k \in Keys |-> FALSE]
  /\ route \in [Sources -> [Signals -> {"missing", "enabled"}]]

\* PATCH /v1/sources/:sourceId
SetSourceStatus(s, status) ==
  /\ sourceStatus[s] # status
  /\ sourceStatus' = [sourceStatus EXCEPT ![s] = status]
  /\ UNCHANGED <<credential, expired, route>>

\* POST /v1/sources/:sourceId/credentials
CreateCredential(k) ==
  /\ credential[k] = "absent"
  /\ credential' = [credential EXCEPT ![k] = "active"]
  /\ UNCHANGED <<sourceStatus, expired, route>>

SetCredentialStatus(k, status) ==
  /\ credential[k] \notin {"absent", status}
  /\ credential' = [credential EXCEPT ![k] = status]
  /\ UNCHANGED <<sourceStatus, expired, route>>

\* The clock passes the key's expires_at.
Expire(k) ==
  /\ credential[k] # "absent" /\ ~expired[k]
  /\ expired' = [expired EXCEPT ![k] = TRUE]
  /\ UNCHANGED <<sourceStatus, credential, route>>

\* ensureDefaultRoutes adds a missing route; an operator enables or disables one.
SetRoute(s, g, state) ==
  /\ route[s][g] # state
  /\ route[s][g] = "missing" => state = "enabled"
  /\ route' = [route EXCEPT ![s][g] = state]
  /\ UNCHANGED <<sourceStatus, credential, expired>>

RegistryStep ==
  \/ \E s \in Sources, status \in {"active", "disabled"} : SetSourceStatus(s, status)
  \/ \E k \in Keys : CreateCredential(k) \/ Expire(k)
  \/ \E k \in Keys, status \in {"active", "disabled", "rotated"} : SetCredentialStatus(k, status)
  \/ \E s \in Sources, g \in Signals, state \in {"enabled", "disabled"} : SetRoute(s, g, state)

RegistrySpec == RegistryInit /\ [][RegistryStep]_registry
===============================================================================
