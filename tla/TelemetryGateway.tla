--------------------------- MODULE TelemetryGateway ---------------------------
(***************************************************************************)
(* What the ingestion endpoint promises its clients, without handlers,     *)
(* reads, timers or audit rows: a request is open until it gets one reply  *)
(* or is lost with the process; a batch may be passed on only for a        *)
(* request that was entitled at some moment while open; the reply tells    *)
(* the client what became of the batch.  Ingestion implements it.          *)
(***************************************************************************)
EXTENDS Naturals

CONSTANTS Requests, Keys, NoKey

VARIABLES good,      \* the keys that authenticate now
          holds,     \* the key each request presents
          phase,     \* "new", "open", "closed" or "lost"
          entitled,  \* requests whose key was good at some moment while open
          passedOn,  \* requests whose batch was sent on
          kept,      \* requests whose batch the Collector kept
          reply      \* "ok", "refused", "doubt" or "none"

vars == <<good, holds, phase, entitled, passedOn, kept, reply>>

Init ==
  /\ good \subseteq Keys
  /\ holds = [r \in Requests |-> NoKey]
  /\ phase = [r \in Requests |-> "new"]
  /\ entitled = {} /\ passedOn = {} /\ kept = {}
  /\ reply = [r \in Requests |-> "none"]

Registry ==
  /\ good' \subseteq Keys
  /\ entitled' = entitled \cup {r \in Requests : phase[r] = "open" /\ holds[r] \in good'}
  /\ UNCHANGED <<holds, phase, passedOn, kept, reply>>

Open(r) ==
  /\ phase[r] = "new"
  /\ phase' = [phase EXCEPT ![r] = "open"]
  /\ \E k \in Keys \cup {NoKey} :
       /\ holds' = [holds EXCEPT ![r] = k]
       /\ entitled' = IF k \in good THEN entitled \cup {r} ELSE entitled
  /\ UNCHANGED <<good, passedOn, kept, reply>>

PassOn(r) ==
  /\ phase[r] = "open" /\ r \in entitled /\ r \notin passedOn
  /\ passedOn' = passedOn \cup {r}
  /\ UNCHANGED <<good, holds, phase, entitled, kept, reply>>

\* The Collector may keep a batch it was sent at any time, after the reply too.
Keep(r) ==
  /\ r \in passedOn \ kept
  /\ kept' = kept \cup {r}
  /\ UNCHANGED <<good, holds, phase, entitled, passedOn, reply>>

Reply(r) ==
  /\ phase[r] = "open"
  /\ phase' = [phase EXCEPT ![r] = "closed"]
  /\ \E a \in {"ok", "refused", "doubt"} :
       /\ a = "ok" => r \in kept
       /\ a = "refused" => r \notin passedOn
       /\ reply' = [reply EXCEPT ![r] = a]
  /\ UNCHANGED <<good, holds, entitled, passedOn, kept>>

\* The process crashes: every open request is lost.
Lose ==
  /\ phase' = [r \in Requests |-> IF phase[r] = "open" THEN "lost" ELSE phase[r]]
  /\ UNCHANGED <<good, holds, entitled, passedOn, kept, reply>>

Next ==
  \/ Registry \/ Lose
  \/ \E r \in Requests : Open(r) \/ PassOn(r) \/ Keep(r) \/ Reply(r)

\* Every open request is closed.
Spec == Init /\ [][Next]_vars /\ \A r \in Requests : WF_vars(Reply(r))
===============================================================================
