--------------------------- MODULE IngestionProofs ----------------------------
(* Theorems about Ingestion, for every set of requests, sources and keys: its types, *)
(* who is authorised, and what it tells of a request by the reply, the audit row and *)
(* the counters.                                                                     *)
EXTENDS Ingestion, TLAPS

-----------------------------------------------------------------------------
(* Every variable keeps its shape.  TypeOK is not inductive: what a handler  *)
(* step reads must have been put there by the steps before it.               *)

\* What each stage of a handler has established for the stages after it.
Stage(r) ==
  /\ pc[r] # "idle" => ask[r] \in Asks
  /\ pc[r] \in {"lookup", "verify"} => ask[r].key \in Keys
  /\ pc[r] \in {"routing", "forward"} => ask[r].key \in Keys /\ context[r] = Owner[ask[r].key]
  /\ pc[r] = "audit" => note[r] \in Notes

Stages == \A r \in Requests : Stage(r)

TypeInv == TypeOK /\ Stages

\* The initial states are well typed.
LEMMA InitType == Init => TypeInv
  BY OwnerAssumption, BoundAssumption
  DEF Init, RegistryInit, TypeInv, TypeOK, Stages, Stage, Counts, Statuses, Snapshots, Asks, Pending, Done, Notes, Sightings

\* A step of one handler disturbs no other: only its own stage is to be checked.
LEMMA OneStage ==
  ASSUME TypeInv, NEW r \in Requests, Stage(r)',
         \A q \in Requests \ {r} : /\ pc'[q] = pc[q] /\ ask'[q] = ask[q]
                                   /\ context'[q] = context[q] /\ note'[q] = note[q]
  PROVE  Stages'
  BY DEF TypeInv, Stages, Stage

\* A decided reply is a status with a well-formed audit row beside it.
LEMMA ConcludeType ==
  ASSUME TypeInv, NEW r \in Requests, NEW status \in Statuses,
         NEW result \in {"allowed", "denied", "failed"}, NEW source \in Sources \cup {None},
         NEW reason \in Reasons \cup Causes \cup {None},
         Conclude(r, status, result, source, reason)
  PROVE  /\ answer' \in [Requests -> Statuses \cup {None}]
         /\ note' \in [Requests -> Notes \cup {None}]
         /\ pc' \in [Requests -> {"idle"} \cup Pending \cup Done]
         /\ pc'[r] = "audit" /\ note'[r] \in Notes
         /\ \A q \in Requests \ {r} : pc'[q] = pc[q] /\ note'[q] = note[q]
<1>1. [result |-> result, source |-> source, reason |-> reason] \in Notes
  BY DEF Notes
<1> QED
  BY <1>1 DEF Conclude, GoTo, TypeInv, TypeOK, Pending

\* Adding to a counter leaves a counter.
LEMMA CountType ==
  ASSUME TypeInv, NEW r \in Requests, NEW a \in Nat, NEW b \in Nat, NEW c \in Nat,
         Count(r, a, b, c)
  PROVE  counts' \in [Requests -> Counts]
<1>1. counts \in [Requests -> Counts]
  BY DEF TypeInv, TypeOK
<1>2. [requests |-> counts[r].requests + a, rejected |-> counts[r].rejected + b,
       failures |-> counts[r].failures + c] \in Counts
  BY <1>1 DEF Counts
<1> QED
  BY <1>1, <1>2 DEF Count

\* What is noticed of a request is a set of reasons.
LEMMA FactsType == \A r : Facts(r)' \in SUBSET Sightings
  BY DEF Facts, Authentic, KeyFaults, Sightings, Reasons

\* A request that arrives is well typed, whatever it carries.
LEMMA ReceiveType ==
  ASSUME TypeInv, NEW r \in Requests, Receive(r)
  PROVE  TypeInv'
<1> USE DEF At, GoTo, Statuses
<1>1. PICK a \in Asks :
        /\ ask' = [ask EXCEPT ![r] = a]
        /\ \/ /\ answer' = [answer EXCEPT ![r] = 415]
              /\ GoTo(r, "reply")
              /\ UNCHANGED <<note, counts>>
           \/ /\ Count(r, 0, 1, 0)
              /\ Reject(r, 401, None, "missing_key")
           \/ /\ a.key # NoKey
              /\ GoTo(r, "lookup")
              /\ UNCHANGED <<answer, note, counts>>
  BY DEF Receive
<1>2. /\ ask' \in [Requests -> Asks \cup {None}] /\ ask'[r] = a
      /\ \A q \in Requests \ {r} : ask'[q] = ask[q]
  BY <1>1 DEF TypeInv, TypeOK
<1>3. UNCHANGED <<registry, audit, usage, row, context, up, forwarded, auditFault, bounds>>
  BY DEF Receive
<1>s. seen' \in [Requests -> SUBSET Sightings]
  <2>1. Facts(r)' \in SUBSET Sightings
    BY FactsType
  <2> QED
    BY <2>1 DEF Receive, TypeInv, TypeOK
<1>4. CASE answer' = [answer EXCEPT ![r] = 415] /\ GoTo(r, "reply") /\ UNCHANGED <<note, counts>>
  <2>1. /\ pc' \in [Requests -> {"idle"} \cup Pending \cup Done] /\ pc'[r] = "reply"
        /\ \A q \in Requests \ {r} : pc'[q] = pc[q]
        /\ answer' \in [Requests -> Statuses \cup {None}]
    BY <1>4 DEF GoTo, Pending, Statuses, TypeInv, TypeOK
  <2>2. Stages'
    BY <1>2, <1>3, <1>4, <2>1, OneStage DEF Stage
  <2> QED
    BY <1>2, <1>3, <1>s, <1>4, <2>1, <2>2 DEF TypeInv, TypeOK, registry, usage, forwarded, bounds
<1>5. CASE /\ Count(r, 0, 1, 0)
           /\ Reject(r, 401, None, "missing_key")
  <2>1. Conclude(r, 401, "denied", None, "missing_key")
    BY <1>5 DEF Reject
  <2>2. /\ answer' \in [Requests -> Statuses \cup {None}]
        /\ note' \in [Requests -> Notes \cup {None}]
        /\ pc' \in [Requests -> {"idle"} \cup Pending \cup Done]
        /\ pc'[r] = "audit" /\ note'[r] \in Notes
        /\ \A q \in Requests \ {r} : pc'[q] = pc[q] /\ note'[q] = note[q]
    BY <2>1, ConcludeType DEF Reasons
  <2>3. counts' \in [Requests -> Counts]
    BY <1>5, CountType
  <2>4. Stages'
    BY <1>2, <1>3, <2>2, OneStage DEF Stage
  <2> QED
    BY <1>2, <1>3, <1>s, <2>2, <2>3, <2>4 DEF TypeInv, TypeOK, registry, usage, forwarded, bounds
<1>6. CASE a.key # NoKey /\ GoTo(r, "lookup") /\ UNCHANGED <<answer, note, counts>>
  <2>1. a.key \in Keys
    BY <1>6 DEF Asks
  <2>2. /\ pc' \in [Requests -> {"idle"} \cup Pending \cup Done]
        /\ pc'[r] = "lookup"
        /\ \A q \in Requests \ {r} : pc'[q] = pc[q]
    BY <1>6 DEF TypeInv, TypeOK, Pending
  <2>3. Stage(r)'
    BY <1>2, <2>1, <2>2 DEF Stage
  <2>4. Stages'
    BY <1>2, <1>3, <1>6, <2>2, <2>3, OneStage
  <2> QED
    BY <1>2, <1>3, <1>s, <1>6, <2>2, <2>4 DEF TypeInv, TypeOK, registry, usage, forwarded, bounds
<1> QED
  BY <1>1, <1>4, <1>5, <1>6

\* The row read for a key is a snapshot of it and its source, or none.
LEMMA LookupType ==
  ASSUME TypeInv, NEW r \in Requests, LookupCredential(r)
  PROVE  TypeInv'
<1>1. CredentialRow(ask[r].key) \in Snapshots \cup {None}
  BY OwnerAssumption DEF TypeInv, TypeOK, Stages, Stage, LookupCredential, At, CredentialRow,
     Snapshots
<1>2. Stage(r)'
  BY DEF TypeInv, TypeOK, Stages, Stage, LookupCredential, At, GoTo
<1>3. Stages'
  BY <1>2, OneStage DEF TypeInv, TypeOK, LookupCredential, GoTo
<1> QED
  BY <1>1, <1>3 DEF TypeInv, TypeOK, LookupCredential, GoTo, Pending, registry, usage, forwarded,
     bounds

\* The preHandler's decision leaves the request denied, or under its key's own source.
LEMMA VerifyType ==
  ASSUME TypeInv, NEW r \in Requests, Verify(r)
  PROVE  TypeInv'
<1> DEFINE key     == ask[r].key
           outcome == AuthOutcome(row[r], expired[key])
           source  == Owner[key]
<1>1. key \in Keys /\ source \in Sources /\ ask[r] \in Asks
  BY OwnerAssumption DEF TypeInv, TypeOK, Stages, Stage, Verify, At
<1>2. UNCHANGED <<registry, audit, lastUsed, ask, up, forwarded, auditFault, seen, bounds>>
  BY DEF Verify
<1>3. /\ row' \in [Requests -> Snapshots \cup {None}]
  BY DEF Verify, TypeInv, TypeOK
<1>4. CASE outcome # "ok"
  <2>1. /\ Count(r, 0, 1, 0)
        /\ Conclude(r, 401, "denied", None, outcome)
        /\ UNCHANGED <<context, touching>>
    BY <1>4 DEF Verify, Reject
  <2>2. outcome \in Reasons
    BY <1>4 DEF AuthOutcome, Reasons
  <2>3. /\ answer' \in [Requests -> Statuses \cup {None}]
        /\ note' \in [Requests -> Notes \cup {None}]
        /\ pc' \in [Requests -> {"idle"} \cup Pending \cup Done]
        /\ pc'[r] = "audit" /\ note'[r] \in Notes
        /\ \A q \in Requests \ {r} : pc'[q] = pc[q] /\ note'[q] = note[q]
    BY <2>1, <2>2, ConcludeType DEF Statuses
  <2>4. counts' \in [Requests -> Counts]
    BY <2>1, CountType
  <2>5. Stages'
    BY <1>1, <1>2, <2>1, <2>3, OneStage DEF Stage
  <2> QED
    BY <1>2, <1>3, <2>1, <2>3, <2>4, <2>5
    DEF TypeInv, TypeOK, registry, usage, forwarded, bounds
<1>5. CASE outcome = "ok"
  <2>1. context' = [context EXCEPT ![r] = source] /\ touching' = touching \cup {key}
    BY <1>5 DEF Verify, Decorate
  <2>2. /\ context' \in [Requests -> Sources \cup {None}] /\ context'[r] = source
        /\ \A q \in Requests \ {r} : context'[q] = context[q]
        /\ touching' \subseteq Keys
    BY <1>1, <2>1 DEF TypeInv, TypeOK
  <2>3. CASE ask[r].body = "empty"
    <3>1. Count(r, 1, 1, 0) /\ Conclude(r, 400, "denied", source, "empty_body")
      BY <1>5, <2>3 DEF Verify, Reject
    <3>2. /\ answer' \in [Requests -> Statuses \cup {None}]
          /\ note' \in [Requests -> Notes \cup {None}]
          /\ pc' \in [Requests -> {"idle"} \cup Pending \cup Done]
          /\ pc'[r] = "audit" /\ note'[r] \in Notes
          /\ \A q \in Requests \ {r} : pc'[q] = pc[q] /\ note'[q] = note[q]
      BY <1>1, <3>1, ConcludeType DEF Statuses, Reasons
    <3>3. counts' \in [Requests -> Counts]
      BY <3>1, CountType
    <3>4. Stages'
      BY <1>1, <1>2, <2>2, <3>2, OneStage DEF Stage
    <3> QED
      BY <1>2, <1>3, <2>2, <3>2, <3>3, <3>4
      DEF TypeInv, TypeOK, registry, usage, forwarded, bounds
  <2>4. CASE ask[r].body # "empty"
    <3>1. Count(r, 1, 0, 0) /\ GoTo(r, "routing") /\ UNCHANGED <<answer, note>>
      BY <1>5, <2>4 DEF Verify
    <3>2. /\ pc' \in [Requests -> {"idle"} \cup Pending \cup Done]
          /\ pc'[r] = "routing"
          /\ \A q \in Requests \ {r} : pc'[q] = pc[q]
      BY <3>1 DEF GoTo, TypeInv, TypeOK, Pending
    <3>3. counts' \in [Requests -> Counts]
      BY <3>1, CountType
    <3>4. Stages'
      BY <1>1, <1>2, <2>2, <3>1, <3>2, OneStage DEF Stage
    <3> QED
      BY <1>2, <1>3, <2>2, <3>1, <3>2, <3>3, <3>4
      DEF TypeInv, TypeOK, registry, usage, forwarded, bounds
  <2> QED
    BY <2>3, <2>4
<1> QED
  BY <1>4, <1>5

\* The routing decision leaves the request refused, or forwarded with its headers.
LEMMA ResolveRouteType ==
  ASSUME TypeInv, NEW r \in Requests, ResolveRoute(r)
  PROVE  TypeInv'
<1>1. /\ ask[r] \in Asks /\ ask[r].key \in Keys /\ context[r] = Owner[ask[r].key]
      /\ context[r] \in Sources
  BY OwnerAssumption DEF TypeInv, TypeOK, Stages, Stage, ResolveRoute, At
<1>2. UNCHANGED <<registry, audit, usage, ask, row, context, up, auditFault, seen, bounds>>
  BY DEF ResolveRoute
<1>3. CASE ~RouteAllowed(context[r], ask[r].signal)
  <2>1. /\ Count(r, 0, 1, 0)
        /\ Conclude(r, 403, "denied", context[r], "route_disabled")
        /\ UNCHANGED forwarded
    BY <1>3 DEF ResolveRoute, Reject
  <2>2. /\ answer' \in [Requests -> Statuses \cup {None}]
        /\ note' \in [Requests -> Notes \cup {None}]
        /\ pc' \in [Requests -> {"idle"} \cup Pending \cup Done]
        /\ pc'[r] = "audit" /\ note'[r] \in Notes
        /\ \A q \in Requests \ {r} : pc'[q] = pc[q] /\ note'[q] = note[q]
    BY <1>1, <2>1, ConcludeType DEF Statuses, Reasons
  <2>3. counts' \in [Requests -> Counts]
    BY <2>1, CountType
  <2>4. Stages'
    BY <1>1, <1>2, <2>2, OneStage DEF Stage
  <2> QED
    BY <1>2, <2>1, <2>2, <2>3, <2>4 DEF TypeInv, TypeOK, registry, usage, forwarded, bounds
<1>4. CASE RouteAllowed(context[r], ask[r].signal)
  <2>1. /\ wire' = [wire EXCEPT ![r] = "sent"]
        /\ headers' = [headers EXCEPT ![r] = [source |-> context[r], signal |-> ask[r].signal]]
        /\ GoTo(r, "forward")
        /\ UNCHANGED <<answer, note, counts>>
    BY <1>4 DEF ResolveRoute
  <2>2. headers' \in [Requests -> [source : Sources, signal : Signals] \cup {None}]
    <3>1. ask[r].signal \in Signals
      BY <1>1 DEF Asks
    <3> QED
      BY <1>1, <2>1, <3>1 DEF TypeInv, TypeOK
  <2>3. /\ pc' \in [Requests -> {"idle"} \cup Pending \cup Done]
        /\ pc'[r] = "forward"
        /\ \A q \in Requests \ {r} : pc'[q] = pc[q]
    BY <2>1 DEF GoTo, TypeInv, TypeOK, Pending
  <2>4. Stages'
    BY <1>1, <1>2, <2>1, <2>3, OneStage DEF Stage
  <2> QED
    BY <1>2, <2>1, <2>2, <2>3, <2>4 DEF TypeInv, TypeOK, registry, usage, bounds
<1> QED
  BY <1>3, <1>4

\* A rejected read leaves a 500 and nothing else.
LEMMA ReadFailsType ==
  ASSUME TypeInv, NEW r \in Requests, ReadFails(r)
  PROVE  TypeInv'
<1>1. Stage(r)'
  BY DEF TypeInv, TypeOK, Stages, Stage, ReadFails, At, GoTo
<1>2. Stages'
  BY <1>1, OneStage DEF TypeInv, TypeOK, ReadFails, GoTo
<1> QED
  BY <1>2 DEF TypeInv, TypeOK, ReadFails, GoTo, Pending, Statuses, registry, usage, forwarded, bounds

\* However a forward ends, its reply and audit row are decided.
LEMMA ForwardEndsType ==
  ASSUME TypeInv, NEW r \in Requests, At(r, "forward"),
         NEW status \in {202, 502}, NEW result \in {"allowed", "failed"},
         NEW cause \in Causes \cup {None}, Conclude(r, status, result, context[r], cause),
         counts' \in [Requests -> Counts],
         wire' \in [Requests -> {"none", "sent", "accepted", "refused", "dropped"}],
         UNCHANGED <<registry, audit, usage, ask, row, context, up, headers, auditFault, seen, bounds>>
  PROVE  TypeInv'
<1>1. ask[r] \in Asks /\ ask[r].key \in Keys /\ context[r] \in Sources
  BY OwnerAssumption DEF TypeInv, TypeOK, Stages, Stage, At
<1>2. /\ answer' \in [Requests -> Statuses \cup {None}]
      /\ note' \in [Requests -> Notes \cup {None}]
      /\ pc' \in [Requests -> {"idle"} \cup Pending \cup Done]
      /\ pc'[r] = "audit" /\ note'[r] \in Notes
      /\ \A q \in Requests \ {r} : pc'[q] = pc[q] /\ note'[q] = note[q]
  BY <1>1, ConcludeType DEF Statuses
<1>3. Stages'
  BY <1>1, <1>2, OneStage DEF Stage
<1> QED
  BY <1>2, <1>3 DEF TypeInv, TypeOK, registry, usage, bounds

\* Each way a forward ends leaves the exchange in one of its states.
LEMMA ForwardType ==
  ASSUME TypeInv, NEW r \in Requests,
         ForwardSucceeds(r) \/ ForwardRefused(r) \/ ForwardTimesOut(r) \/ ForwardBreaks(r)
  PROVE  TypeInv'
<1>1. CASE ForwardSucceeds(r)
  <2>1. /\ At(r, "forward") /\ Conclude(r, 202, "allowed", context[r], None)
        /\ UNCHANGED <<registry, audit, usage, ask, row, context, up, headers, auditFault, seen,
                       bounds>>
    BY <1>1 DEF ForwardSucceeds, forwarded
  <2>2. /\ counts' \in [Requests -> Counts]
        /\ wire' \in [Requests -> {"none", "sent", "accepted", "refused", "dropped"}]
    BY <1>1 DEF ForwardSucceeds, forwarded, TypeInv, TypeOK
  <2> QED
    BY <2>1, <2>2, ForwardEndsType
<1>2. ASSUME NEW cause \in Causes, FailForward(r, cause, 1)
      PROVE  /\ At(r, "forward") /\ Conclude(r, 502, "failed", context[r], cause)
             /\ counts' \in [Requests -> Counts]
             /\ UNCHANGED <<registry, audit, usage, ask, row, context, up, auditFault, seen, bounds>>
  BY <1>2, CountType DEF FailForward
<1>3. CASE ForwardRefused(r) \/ ForwardTimesOut(r)
  <2>1. PICK cause \in Causes : FailForward(r, cause, 1)
    BY <1>3 DEF ForwardRefused, ForwardTimesOut, Causes
  <2>2. /\ UNCHANGED headers
        /\ wire' \in [Requests -> {"none", "sent", "accepted", "refused", "dropped"}]
    BY <1>3 DEF ForwardRefused, ForwardTimesOut, TypeInv, TypeOK, forwarded
  <2> QED
    BY <1>2, <2>1, <2>2, ForwardEndsType
<1>4. CASE ForwardBreaks(r)
  <2>1. wire' \in [Requests -> {"none", "sent", "accepted", "refused", "dropped"}]
    BY <1>4 DEF ForwardBreaks, TypeInv, TypeOK
  <2>2. FailForward(r, "network", 1) /\ UNCHANGED headers /\ "network" \in Causes
    BY <1>4 DEF ForwardBreaks, Causes
  <2> QED
    BY <1>2, <2>1, <2>2, ForwardEndsType
<1> QED
  BY <1>1, <1>3, <1>4

\* What the Collector does touches the exchange alone.
LEMMA CollectorReceivesType ==
  ASSUME TypeInv, NEW r \in Requests, CollectorReceives(r)
  PROVE  TypeInv'
  BY DEF TypeInv, TypeOK, Stages, Stage, CollectorReceives, registry, usage, handler, bounds

\* The audit row is written, or not, and the handler goes on to the reply.
LEMMA AuditType ==
  ASSUME TypeInv, NEW r \in Requests, InsertAudit(r) \/ AuditFails(r)
  PROVE  TypeInv'
<1>1. note[r] \in Notes
  BY DEF TypeInv, Stages, Stage, InsertAudit, AuditFails, AuditInsertRejected, At
<1>2. audit' \in [Requests -> Seq(Notes)]
  <2>1. audit \in [Requests -> Seq(Notes)]
    BY DEF TypeInv, TypeOK
  <2>2. Append(audit[r], note[r]) \in Seq(Notes)
    BY <1>1, <2>1
  <2> QED
    BY <2>1, <2>2 DEF InsertAudit, AuditFails, AuditInsertRejected
<1>3. /\ GoTo(r, "reply") /\ pc[r] = "audit"
      /\ auditFault' \subseteq Requests
      /\ UNCHANGED <<registry, usage, ask, row, context, answer, note, counts, up, forwarded, seen, bounds>>
  BY DEF TypeInv, TypeOK, InsertAudit, AuditFails, AuditInsertRejected, At
<1>4. Stage(r)'
  BY <1>3 DEF TypeInv, TypeOK, Stages, Stage, GoTo
<1>5. Stages'
  BY <1>3, <1>4, OneStage DEF TypeInv, TypeOK, GoTo
<1> QED
  BY <1>2, <1>3, <1>5 DEF TypeInv, TypeOK, GoTo, Pending, registry, usage, forwarded, bounds

\* A reply closes its request.
LEMMA RespondType ==
  ASSUME TypeInv, NEW r \in Requests, Respond(r)
  PROVE  TypeInv'
<1>1. Stage(r)'
  BY DEF TypeInv, TypeOK, Stages, Stage, Respond, At, GoTo
<1>2. Stages'
  BY <1>1, OneStage DEF TypeInv, TypeOK, Respond, GoTo
<1> QED
  BY <1>2 DEF TypeInv, TypeOK, Respond, GoTo, Done, registry, usage, forwarded, bounds

\* A late last_used_at update touches nothing of a request.
LEMMA TouchType ==
  ASSUME TypeInv, NEW k \in Keys, TouchCredential(k)
  PROVE  TypeInv'
  BY DEF TypeInv, TypeOK, Stages, Stage, TouchCredential, registry, handler, forwarded, bounds

\* Operators and the clock leave a well-typed registry.
LEMMA RegistryType ==
  ASSUME TypeInv, RegistryChanges
  PROVE  TypeInv'
<1>1. /\ changes' \in Nat
      /\ UNCHANGED <<audit, usage, handler, up, forwarded, auditFault, crashes>>
  BY DEF TypeInv, TypeOK, RegistryChanges
<1>2. /\ sourceStatus' \in [Sources -> {"active", "disabled"}]
      /\ credential' \in [Keys -> {"absent", "active", "disabled", "rotated"}]
      /\ expired' \in [Keys -> BOOLEAN]
      /\ route' \in [Sources -> [Signals -> {"missing", "enabled", "disabled"}]]
  <2> USE DEF TypeInv, TypeOK
  <2>1. CASE \E s \in Sources, status \in {"active", "disabled"} : SetSourceStatus(s, status)
    BY <2>1 DEF SetSourceStatus
  <2>2. CASE \E k \in Keys : CreateCredential(k) \/ Expire(k)
    BY <2>2 DEF CreateCredential, Expire
  <2>3. CASE \E k \in Keys, status \in {"active", "disabled", "rotated"} :
               SetCredentialStatus(k, status)
    BY <2>3 DEF SetCredentialStatus
  <2>4. ASSUME NEW s \in Sources, NEW g \in Signals, NEW state \in {"enabled", "disabled"},
               SetRoute(s, g, state)
        PROVE  route' \in [Sources -> [Signals -> {"missing", "enabled", "disabled"}]]
    <3>1. [route[s] EXCEPT ![g] = state] \in [Signals -> {"missing", "enabled", "disabled"}]
      OBVIOUS
    <3> QED
      BY <2>4, <3>1 DEF SetRoute
  <2> QED
    BY <2>1, <2>2, <2>3, <2>4 DEF RegistryChanges, RegistryStep, SetRoute
<1>3. seen' \in [Requests -> SUBSET Sightings]
  <2>1. \A r : Facts(r)' \in SUBSET Sightings
    BY FactsType
  <2>2. Observe
    BY DEF RegistryChanges
  <2> QED
    BY <2>1, <2>2 DEF Observe, TypeInv, TypeOK
<1> QED
  BY <1>1, <1>2, <1>3 DEF TypeInv, TypeOK, Stages, Stage, usage, handler, forwarded

\* A crash ends every open handler, and what was sent may still be written.
LEMMA CrashType ==
  ASSUME TypeInv, Crash
  PROVE  TypeInv'
<1>1. PICK written \in SUBSET {r \in Requests : pc[r] = "audit"} :
        audit' = [r \in Requests |-> IF r \in written THEN Append(audit[r], note[r]) ELSE audit[r]]
  BY DEF Crash
<1>2. audit' \in [Requests -> Seq(Notes)]
  <2>1. ASSUME NEW r \in Requests
        PROVE  audit'[r] \in Seq(Notes)
    <3>1. audit[r] \in Seq(Notes)
      BY DEF TypeInv, TypeOK
    <3>2. CASE r \in written
      <4>1. note[r] \in Notes
        BY <3>2 DEF TypeInv, Stages, Stage
      <4> QED
        BY <1>1, <3>1, <3>2, <4>1
    <3> QED
      BY <1>1, <3>1, <3>2
  <2> QED
    BY <1>1, <2>1
<1>3. pc' = [r \in Requests |-> IF pc[r] \in Pending THEN "lost" ELSE pc[r]]
  BY DEF Crash
<1>4. pc' \in [Requests -> {"idle"} \cup Pending \cup Done]
  BY <1>3 DEF TypeInv, TypeOK, Done
<1>5. Stages'
  BY <1>3 DEF TypeInv, TypeOK, Stages, Stage, Crash, Pending
<1>6. touching' \subseteq Keys /\ lastUsed' \subseteq Keys
  BY DEF TypeInv, TypeOK, Crash
<1>7. UNCHANGED <<registry, ask, row, context, answer, note, counts, forwarded, auditFault, seen, changes>>
  BY DEF Crash
<1>8. up' \in BOOLEAN
  BY DEF Crash
<1>9. crashes' = crashes + 1 /\ crashes \in Nat
  BY DEF Crash, TypeInv, TypeOK
<1>10. crashes' \in Nat
  BY <1>9
<1> QED
  BY <1>2, <1>4, <1>5, <1>6, <1>7, <1>8, <1>10 DEF TypeInv, TypeOK, registry, forwarded

\* A restart changes nothing but whether the process runs.
LEMMA RestartType ==
  ASSUME TypeInv, Restart
  PROVE  TypeInv'
  BY DEF TypeInv, TypeOK, Stages, Stage, Restart, registry, usage, handler, forwarded, bounds

\* A step that changes nothing keeps every type.
LEMMA StutterType ==
  ASSUME TypeInv, UNCHANGED vars
  PROVE  TypeInv'
  BY DEF TypeInv, TypeOK, Stages, Stage, vars, registry, usage, handler, forwarded, bounds

\* TypeInv is inductive.
THEOREM TypeInvariant == Spec => []TypeInv
<1>1. TypeInv /\ [Next]_vars => TypeInv'
  <2> SUFFICES ASSUME TypeInv, [Next]_vars PROVE TypeInv'
    OBVIOUS
  <2>1. ASSUME NEW r \in Requests, Receive(r) \/ Handle(r) \/ ForwardBreaks(r) \/ CollectorReceives(r)
        PROVE  TypeInv'
    BY <2>1, ReceiveType, LookupType, VerifyType, ResolveRouteType, ReadFailsType, ForwardType,
       CollectorReceivesType, AuditType, RespondType DEF Handle
  <2> QED
    BY <2>1, TouchType, RegistryType, CrashType, RestartType, StutterType DEF Next
<1> QED
  BY <1>1, InitType, PTL DEF Spec

\* Type correctness: no step of a handler, of the registry or of a crash leaves a
\* variable outside its type.
THEOREM TypeCorrect == Spec => []TypeOK
  BY TypeInvariant, PTL DEF TypeInv

-----------------------------------------------------------------------------
(* A batch is forwarded only for a request that was authorised.  The registry *)
(* may change after each read, so the argument is about what was seen while   *)
(* the request was open: what the row and the clock say at the check implies  *)
(* that all the conditions held together at one moment, because a status is   *)
(* read in one snapshot and an expired key never becomes fresh again.         *)

Entitlement(r) ==
  /\ pc[r] \in Pending => Facts(r) \subseteq seen[r]
  /\ /\ pc[r] = "verify" /\ row[r] # None
     /\ row[r].credential = "active" /\ row[r].source = "active"
     /\ ~expired[ask[r].key]
     => "authentic" \in seen[r]
  /\ pc[r] \in {"routing", "forward"} => "authentic" \in seen[r]
  /\ wire[r] # "none" =>
       /\ pc[r] \notin {"idle", "lookup", "verify", "routing"}
       /\ {"authentic", "route_open"} \subseteq seen[r]
       /\ headers[r] = [source |-> Owner[ask[r].key], signal |-> ask[r].signal]

Entitled == \A r \in Requests : Entitlement(r)

\* What is true of a request depends on the registry and on the request alone.
LEMMA FactsStable ==
  ASSUME NEW r, UNCHANGED registry, ask'[r] = ask[r]
  PROVE  Facts(r)' = Facts(r)
  BY DEF registry, Facts, Authentic, KeyFaults, RouteAllowed

\* Nothing more is established for a request that no step touches.
LEMMA SameEntitlement ==
  ASSUME NEW r \in Requests, Entitlement(r), UNCHANGED registry,
         ask'[r] = ask[r], pc'[r] = pc[r], row'[r] = row[r], seen'[r] = seen[r],
         wire'[r] = wire[r], headers'[r] = headers[r]
  PROVE  Entitlement(r)'
  BY FactsStable DEF Entitlement, registry

\* A handler past its check only needs to leave the exchange alone.
LEMMA LaterEntitlement ==
  ASSUME NEW r \in Requests, Entitlement(r), UNCHANGED registry,
         ask'[r] = ask[r], seen'[r] = seen[r], headers'[r] = headers[r],
         pc[r] \in Pending, pc'[r] \in {"audit", "reply", "answered"},
         wire[r] = "none" => wire'[r] = "none"
  PROVE  Entitlement(r)'
  BY FactsStable DEF Entitlement, registry, Pending

\* At first no request is open and nothing is forwarded.
LEMMA InitEntitled == Init => Entitled
  BY DEF Init, Entitled, Entitlement, Pending

\* What is true of a request when it arrives is noticed.
LEMMA ReceiveEntitled ==
  ASSUME TypeInv, Entitled, NEW r \in Requests, Receive(r)
  PROVE  Entitled'
<1>1. /\ pc'[r] \in {"reply", "audit", "lookup"} /\ seen'[r] = Facts(r)'
      /\ \A q \in Requests \ {r} : pc'[q] = pc[q] /\ ask'[q] = ask[q] /\ seen'[q] = seen[q]
  BY DEF Receive, Reject, Conclude, GoTo, TypeInv, TypeOK
<1>2. UNCHANGED <<registry, row, wire, headers>> /\ pc[r] = "idle"
  BY DEF Receive, At, forwarded
<1>3. wire[r] = "none"
  BY <1>2 DEF Entitled, Entitlement
<1>4. Entitlement(r)'
  BY <1>1, <1>2, <1>3 DEF Entitlement
<1> QED
  BY <1>1, <1>2, <1>4, SameEntitlement DEF Entitled

\* The row of an active key of an active source was read when both were so.
LEMMA LookupEntitled ==
  ASSUME TypeInv, Entitled, NEW r \in Requests, LookupCredential(r)
  PROVE  Entitled'
<1>1. /\ pc[r] = "lookup" /\ pc'[r] = "verify" /\ row'[r] = CredentialRow(ask[r].key)
      /\ \A q \in Requests \ {r} : pc'[q] = pc[q] /\ row'[q] = row[q]
  BY DEF LookupCredential, At, GoTo, TypeInv, TypeOK
<1>2. UNCHANGED <<registry, ask, seen, wire, headers>>
  BY DEF LookupCredential, forwarded
<1>3. ask[r].key \in Keys /\ Facts(r) \subseteq seen[r] /\ wire[r] = "none"
  BY <1>1 DEF TypeInv, Stages, Stage, Entitled, Entitlement, Pending
<1>4. ASSUME row'[r] # None, row'[r].credential = "active", row'[r].source = "active",
             ~expired[ask[r].key]
      PROVE  "authentic" \in seen[r]
  <2>1. Authentic(ask[r].key)
    BY <1>1, <1>4 DEF CredentialRow, Authentic, KeyFaults
  <2>2. ask[r].key # NoKey
    BY <1>3, NullAssumption
  <2> QED
    BY <1>3, <2>1, <2>2 DEF Facts
<1>5. Facts(r)' = Facts(r)
  BY <1>2, FactsStable
<1>6. Entitlement(r)'
  BY <1>1, <1>2, <1>3, <1>4, <1>5 DEF Entitlement, registry
<1> QED
  BY <1>1, <1>2, <1>6, SameEntitlement DEF Entitled

\* A key that passes the check authenticated at one moment: when its row was read, or before it expired.
LEMMA VerifyEntitled ==
  ASSUME TypeInv, Entitled, NEW r \in Requests, Verify(r)
  PROVE  Entitled'
<1>1. /\ pc[r] = "verify"
      /\ UNCHANGED <<registry, ask, seen, wire, headers>>
  BY DEF Verify, At, forwarded
<1>2. wire[r] = "none" /\ Facts(r) \subseteq seen[r] /\ Facts(r)' = Facts(r)
  BY <1>1, FactsStable DEF Entitled, Entitlement, Pending
<1>3. /\ pc'[r] \in {"audit", "routing"}
      /\ \A q \in Requests \ {r} : pc'[q] = pc[q] /\ row'[q] = row[q]
  BY DEF Verify, Reject, Conclude, GoTo, TypeInv, TypeOK
<1>4. pc'[r] = "routing" => "authentic" \in seen[r]
  <2> SUFFICES ASSUME pc'[r] = "routing" PROVE "authentic" \in seen[r]
    OBVIOUS
  <2>1. AuthOutcome(row[r], expired[ask[r].key]) = "ok"
    BY DEF Verify, Reject, Conclude, GoTo, TypeInv, TypeOK
  <2>2. row[r] \in Snapshots /\ row[r] # None
    BY <2>1 DEF AuthOutcome, TypeInv, TypeOK
  <2>3. /\ row[r].credential = "active" /\ row[r].source = "active"
        /\ ~expired[ask[r].key]
    BY <2>1, <2>2 DEF AuthOutcome, Snapshots
  <2> QED
    BY <1>1, <2>2, <2>3 DEF Entitled, Entitlement
<1>5. Entitlement(r)'
  BY <1>1, <1>2, <1>3, <1>4 DEF Entitlement
<1> QED
  BY <1>1, <1>3, <1>5, SameEntitlement DEF Entitled

\* A forward is started with an open route, under the owner of the key.
LEMMA ResolveRouteEntitled ==
  ASSUME TypeInv, Entitled, NEW r \in Requests, ResolveRoute(r)
  PROVE  Entitled'
<1>1. /\ pc[r] = "routing" /\ UNCHANGED <<registry, ask, row, seen>>
  BY DEF ResolveRoute, At
<1>2. /\ wire[r] = "none" /\ "authentic" \in seen[r]
      /\ Facts(r) \subseteq seen[r] /\ Facts(r)' = Facts(r)
      /\ ask[r].key \in Keys /\ context[r] = Owner[ask[r].key]
  BY <1>1, FactsStable DEF TypeInv, Stages, Stage, Entitled, Entitlement, Pending
<1>3. \A q \in Requests \ {r} : pc'[q] = pc[q] /\ wire'[q] = wire[q] /\ headers'[q] = headers[q]
  BY DEF ResolveRoute, Reject, Conclude, GoTo, forwarded, TypeInv, TypeOK
<1>4. CASE ~RouteAllowed(context[r], ask[r].signal)
  <2>1. pc'[r] = "audit" /\ UNCHANGED <<wire, headers>>
    BY <1>4 DEF ResolveRoute, Reject, Conclude, GoTo, forwarded, TypeInv, TypeOK
  <2>2. Entitlement(r)'
    BY <1>1, <2>1, LaterEntitlement DEF Entitled, Pending
  <2> QED
    BY <1>1, <1>3, <2>2, SameEntitlement DEF Entitled
<1>5. CASE RouteAllowed(context[r], ask[r].signal)
  <2>1. /\ pc'[r] = "forward"
        /\ headers'[r] = [source |-> context[r], signal |-> ask[r].signal]
    BY <1>5 DEF ResolveRoute, GoTo, TypeInv, TypeOK
  <2>2. "route_open" \in seen[r]
    <3>1. ask[r].key # NoKey
      BY <1>2, NullAssumption
    <3> QED
      BY <1>2, <1>5, <3>1 DEF Facts
  <2>3. Entitlement(r)'
    BY <1>1, <1>2, <2>1, <2>2 DEF Entitlement
  <2> QED
    BY <1>1, <1>3, <2>3, SameEntitlement DEF Entitled
<1> QED
  BY <1>4, <1>5

\* The steps of a handler after its forward is started, and those that end it early.
LEMMA LaterEntitled ==
  ASSUME TypeInv, Entitled, NEW r \in Requests,
         \/ ReadFails(r) \/ ForwardSucceeds(r) \/ ForwardRefused(r) \/ ForwardTimesOut(r)
         \/ ForwardBreaks(r) \/ InsertAudit(r) \/ AuditFails(r) \/ Respond(r)
  PROVE  Entitled'
<1> USE DEF At, GoTo, Conclude, FailForward, AuditInsertRejected, forwarded
<1>1. UNCHANGED <<registry, ask, row, seen, headers>>
  BY DEF ReadFails, ForwardSucceeds, ForwardRefused, ForwardTimesOut, ForwardBreaks, InsertAudit,
         AuditFails, Respond
<1>2. /\ pc[r] \in Pending /\ pc'[r] \in {"audit", "reply", "answered"}
      /\ \A q \in Requests \ {r} : pc'[q] = pc[q]
  BY DEF ReadFails, ForwardSucceeds, ForwardRefused, ForwardTimesOut, ForwardBreaks, InsertAudit,
         AuditFails, Respond, TypeInv, TypeOK, Pending
<1>3. /\ wire[r] = "none" => wire'[r] = "none"
      /\ \A q \in Requests \ {r} : wire'[q] = wire[q]
  BY DEF ReadFails, ForwardSucceeds, ForwardRefused, ForwardTimesOut, ForwardBreaks, InsertAudit,
         AuditFails, Respond, TypeInv, TypeOK
<1> QED
  BY <1>1, <1>2, <1>3, SameEntitlement, LaterEntitlement DEF Entitled

\* The Collector's answer changes the state of an exchange and not its headers.
LEMMA CollectorReceivesEntitled ==
  ASSUME TypeInv, Entitled, NEW r \in Requests, CollectorReceives(r)
  PROVE  Entitled'
<1>1. UNCHANGED <<registry, ask, row, pc, seen, headers>>
  BY DEF CollectorReceives, handler
<1>2. wire[r] = "sent" /\ \A q \in Requests \ {r} : wire'[q] = wire[q]
  BY DEF CollectorReceives, TypeInv, TypeOK
<1>3. Entitlement(r)'
  BY <1>1, <1>2, FactsStable DEF Entitled, Entitlement, registry
<1> QED
  BY <1>1, <1>2, <1>3, SameEntitlement DEF Entitled

\* Steps that touch no request, no registry and no exchange disturb nothing.
LEMMA QuietEntitled ==
  ASSUME TypeInv, Entitled, (\E k \in Keys : TouchCredential(k)) \/ Restart \/ UNCHANGED vars
  PROVE  Entitled'
  BY SameEntitlement DEF Entitled, TouchCredential, Restart, vars, handler, forwarded

\* A crash makes no request more entitled and forwards nothing.
LEMMA CrashEntitled ==
  ASSUME TypeInv, Entitled, Crash
  PROVE  Entitled'
<1> SUFFICES ASSUME NEW r \in Requests PROVE Entitlement(r)'
  BY DEF Entitled
<1>1. UNCHANGED <<registry, ask, row, seen, wire, headers>>
  BY DEF Crash, forwarded
<1>2. CASE pc[r] \in Pending
  BY <1>1, <1>2 DEF Crash, Entitled, Entitlement, Pending
<1>3. CASE pc[r] \notin Pending
  BY <1>1, <1>3, SameEntitlement DEF Crash, Entitled
<1> QED
  BY <1>2, <1>3

\* The registry changes under open requests: what is newly true is noticed, and an
\* expired key stays expired.
LEMMA RegistryEntitled ==
  ASSUME TypeInv, Entitled, RegistryChanges
  PROVE  Entitled'
<1> SUFFICES ASSUME NEW r \in Requests PROVE Entitlement(r)'
  BY DEF Entitled
<1>1. /\ UNCHANGED <<ask, pc, row, wire, headers>>
      /\ seen'[r] = IF pc[r] \in Pending THEN seen[r] \cup Facts(r)' ELSE seen[r]
  BY DEF RegistryChanges, Observe, handler, forwarded
<1>2. \A k \in Keys : expired[k] => expired'[k]
  BY DEF RegistryChanges, RegistryStep, SetSourceStatus, CreateCredential, SetCredentialStatus,
         Expire, SetRoute, TypeInv, TypeOK
<1>3. pc[r] = "verify" => ask[r].key \in Keys
  BY DEF TypeInv, Stages, Stage
<1> QED
  BY <1>1, <1>2, <1>3 DEF Entitled, Entitlement

\* Entitled is inductive, relative to the type invariant.
THEOREM EntitledInvariant == Spec => []Entitled
<1>1. TypeInv /\ Entitled /\ [Next]_vars => Entitled'
  <2> SUFFICES ASSUME TypeInv, Entitled, [Next]_vars PROVE Entitled'
    OBVIOUS
  <2>1. ASSUME NEW r \in Requests, Receive(r) \/ Handle(r) \/ ForwardBreaks(r) \/ CollectorReceives(r)
        PROVE  Entitled'
    BY <2>1, ReceiveEntitled, LookupEntitled, VerifyEntitled, ResolveRouteEntitled, LaterEntitled,
       CollectorReceivesEntitled DEF Handle
  <2> QED
    BY <2>1, QuietEntitled, CrashEntitled, RegistryEntitled DEF Next
<1> QED
  BY <1>1, InitEntitled, TypeInvariant, PTL DEF Spec

\* Authorisation: whatever the registry does between the reads of a request, its batch
\* is sent on only if the key, its source and the route allowed it while it was open,
\* and under the name of the key's owner.
THEOREM Authorisation == Spec => []ForwardAuthorised
<1>1. Entitled => ForwardAuthorised
  BY DEF Entitled, Entitlement, ForwardAuthorised
<1> QED
  BY <1>1, EntitledInvariant, PTL

-----------------------------------------------------------------------------
(* What a request has told by the label it is at *)

Undecided == {"idle", "lookup", "verify", "routing", "forward"}

\* The row read at the lookup was so at that moment, and what it says was seen.
RowSeen(r) == pc[r] = "verify" =>
  /\ row[r] = None => "unknown_key" \in seen[r]
  /\ row[r] # None =>
       /\ row[r].credential = "disabled" => "credential_disabled" \in seen[r]
       /\ row[r].credential = "rotated" => "credential_rotated" \in seen[r]
       /\ row[r].source = "disabled" => "source_disabled" \in seen[r]

\* A reply is decided once, together with its row, and is true of the batch.
Answered(r) ==
  /\ pc[r] \in Undecided => answer[r] = None /\ note[r] = None
  /\ pc[r] \in {"audit", "reply", "answered"} => answer[r] \in Statuses
  /\ pc[r] = "audit" => note[r] # None
  /\ answer[r] # None => pc[r] # "idle"
  /\ answer[r] \in {202, 502} \/ pc[r] = "forward" \/ wire[r] = "none" \/ pc[r] = "lost"
  /\ answer[r] = 202 => wire[r] = "accepted"
  /\ note[r] = None /\ answer[r] # None => answer[r] \in {415, 500}
  /\ note[r] # None =>
       /\ RowFits(r, note[r])
       /\ note[r].result = "allowed" => wire[r] = "accepted"
       /\ note[r].result = "denied" => wire[r] = "none" /\ note[r].reason \in seen[r]

\* The row is written at most once, between the decision and the reply.
Written(r) ==
  /\ audit[r] = <<>> \/ (audit[r] = <<note[r]>> /\ note[r] # None)
  /\ pc[r] \notin {"reply", "answered", "lost"} => audit[r] = <<>>
  /\ pc[r] \in {"reply", "answered"} /\ answer[r] \notin {415, 500} =>
       audit[r] # <<>> \/ r \in auditFault

\* The counters follow the label.
Counted(r) ==
  /\ pc[r] \in {"idle", "lookup", "verify"} => counts[r] = [requests |-> 0, rejected |-> 0, failures |-> 0]
  /\ pc[r] \in {"routing", "forward"} => counts[r] = [requests |-> 1, rejected |-> 0, failures |-> 0]
  /\ pc[r] \in {"audit", "reply", "answered"} =>
       /\ answer[r] # 500 => counts[r].requests = IF answer[r] \in {401, 415} THEN 0 ELSE 1
       /\ counts[r].rejected = IF answer[r] \in {400, 401, 403} THEN 1 ELSE 0
       /\ counts[r].failures = IF answer[r] = 502 THEN 1 ELSE 0

Told(r) == RowSeen(r) /\ Answered(r) /\ Written(r) /\ Counted(r)

TrailInv == \A r \in Requests : Told(r)

\* The invariant holds at first.
LEMMA InitTrail == Init => TrailInv
<1> SUFFICES ASSUME Init, NEW r \in Requests
             PROVE  Told(r)
  BY DEF TrailInv
<1> QED
  BY RowAssumption DEF Init, Told, RowSeen, Answered, Written, Counted, Statuses

-----------------------------------------------------------------------------
(* What another request's step, or a step of the registry, leaves of it *)

Untouched(q) ==
  /\ pc'[q] = pc[q] /\ ask'[q] = ask[q] /\ row'[q] = row[q] /\ answer'[q] = answer[q]
  /\ note'[q] = note[q] /\ audit'[q] = audit[q] /\ counts'[q] = counts[q]
  /\ seen[q] \subseteq seen'[q] /\ auditFault \subseteq auditFault'
  /\ wire'[q] = wire[q] \/ (wire[q] = "sent" /\ wire'[q] # "none")

\* What a request was told stays so while nothing of it changes.
LEMMA UntouchedTold ==
  ASSUME NEW q \in Requests, Told(q), Untouched(q)
  PROVE  Told(q)'
<1>1. RowSeen(q)' /\ Written(q)' /\ Counted(q)'
  BY DEF Told, RowSeen, Written, Counted, Untouched
<1>2. Answered(q)'
  <2>1. note[q] # None => RowFits(q, note[q])' = RowFits(q, note[q])
    BY DEF RowFits, Untouched
  <2> QED
    BY <2>1 DEF Told, Answered, RowFits, Untouched
<1> QED
  BY <1>1, <1>2 DEF Told

\* A step of one handler touches no other request.
LEMMA OthersUntouched ==
  ASSUME TypeInv, NEW r \in Requests, NEW q \in Requests \ {r},
         Receive(r) \/ Handle(r) \/ ForwardBreaks(r) \/ CollectorReceives(r)
  PROVE  Untouched(q)
<1> USE DEF At, GoTo, Conclude, Reject, Count, FailForward, AuditInsertRejected, forwarded, handler,
            Untouched, TypeInv, TypeOK
<1>1. CASE Receive(r)
  BY <1>1 DEF Receive
<1>2. CASE LookupCredential(r) \/ ReadFails(r) \/ Respond(r)
  BY <1>2 DEF LookupCredential, ReadFails, Respond
<1>3. CASE Verify(r)
  BY <1>3 DEF Verify, Decorate
<1>4. CASE ResolveRoute(r)
  BY <1>4 DEF ResolveRoute
<1>5. CASE ForwardSucceeds(r) \/ ForwardRefused(r) \/ ForwardTimesOut(r)
  BY <1>5 DEF ForwardSucceeds, ForwardRefused, ForwardTimesOut
<1>6. CASE ForwardBreaks(r)
  BY <1>6 DEF ForwardBreaks
<1>7. CASE CollectorReceives(r)
  BY <1>7 DEF CollectorReceives
<1>8. CASE InsertAudit(r) \/ AuditFails(r)
  BY <1>8 DEF InsertAudit, AuditFails
<1> QED
  BY <1>1, <1>2, <1>3, <1>4, <1>5, <1>6, <1>7, <1>8 DEF Handle

-----------------------------------------------------------------------------
(* What a request's own step makes of it *)

\* A decision sets the reply and the row to write.
LEMMA ConcludeTells ==
  ASSUME TypeInv, NEW r \in Requests, NEW status, NEW result, NEW source, NEW reason,
         Conclude(r, status, result, source, reason)
  PROVE  /\ pc'[r] = "audit" /\ answer'[r] = status
         /\ note'[r] = [result |-> result, source |-> source, reason |-> reason]
         /\ note'[r].result = result /\ note'[r].reason = reason /\ note'[r].source = source
<1>1. /\ pc'[r] = "audit" /\ answer'[r] = status
      /\ note'[r] = [result |-> result, source |-> source, reason |-> reason]
  BY DEF Conclude, GoTo, TypeInv, TypeOK
<1> QED
  BY <1>1

\* A request that arrives was told nothing yet.
LEMMA ReceiveTold ==
  ASSUME TypeInv, Entitled, NEW r \in Requests, Told(r), Receive(r)
  PROVE  Told(r)'
<1>0. /\ pc[r] = "idle" /\ Entitlement(r) /\ Stage(r)
      /\ row[r] \in Snapshots \cup {None} /\ counts[r] \in Counts /\ ask[r] \in Asks \cup {None}
  BY DEF Receive, FailForward, AuditInsertRejected, At, Entitled, TypeInv, TypeOK, Stages
<1>1. row'[r] = row[r] /\ audit'[r] = audit[r] /\ wire'[r] = wire[r]
  BY DEF Receive, FailForward, AuditInsertRejected, Reject, Conclude, forwarded
<1>2. /\ answer[r] = None /\ note[r] = None /\ audit[r] = <<>> /\ wire[r] = "none"
      /\ counts[r] = [requests |-> 0, rejected |-> 0, failures |-> 0]
  BY <1>0 DEF Told, Answered, Written, Counted, Undecided, Entitlement
<1>3. PICK a \in Asks :
        /\ ask' = [ask EXCEPT ![r] = a]
        /\ \/ /\ a.body = "unparsable"
              /\ answer' = [answer EXCEPT ![r] = 415]
              /\ GoTo(r, "reply")
              /\ UNCHANGED <<note, counts>>
           \/ /\ a.body # "unparsable" /\ a.key = NoKey
              /\ Count(r, 0, 1, 0)
              /\ Reject(r, 401, None, "missing_key")
           \/ /\ a.body # "unparsable" /\ a.key # NoKey
              /\ GoTo(r, "lookup")
              /\ UNCHANGED <<answer, note, counts>>
  BY DEF Receive
<1>4. ask'[r] = a /\ seen'[r] = Facts(r)'
  BY <1>3 DEF Receive, TypeInv, TypeOK
<1>5. CASE a.body = "unparsable"
  <2>1. pc'[r] = "reply" /\ answer'[r] = 415 /\ note'[r] = note[r] /\ counts'[r] = counts[r]
    BY <1>3, <1>5 DEF GoTo, TypeInv, TypeOK
  <2> QED
    BY <1>1, <1>2, <2>1, RowAssumption DEF Told, RowSeen, Answered, Written, Counted, Undecided, Statuses
<1>6. CASE a.body # "unparsable" /\ a.key = NoKey
  <2>1. Conclude(r, 401, "denied", None, "missing_key") /\ Count(r, 0, 1, 0)
    BY <1>3, <1>6 DEF Reject
  <2>2. /\ pc'[r] = "audit" /\ answer'[r] = 401
        /\ note'[r] = [result |-> "denied", source |-> None, reason |-> "missing_key"]
        /\ note'[r].result = "denied" /\ note'[r].reason = "missing_key" /\ note'[r].source = None
    BY <2>1, ConcludeTells
  <2>3. counts'[r].requests = 0 /\ counts'[r].rejected = 1 /\ counts'[r].failures = 0
    <3>1. /\ counts'[r].requests = counts[r].requests + 0
          /\ counts'[r].rejected = counts[r].rejected + 1
          /\ counts'[r].failures = counts[r].failures + 0
      BY <2>1 DEF Count, TypeInv, TypeOK
    <3> QED
      BY <1>2, <3>1
  <2>4. "missing_key" \in seen'[r]
    BY <1>4, <1>6 DEF Facts
  <2>5. RowFits(r, note[r])'
    BY <2>2 DEF RowFits, Reasons
  <2>6. note'[r] # None
    <3>1. [result |-> "denied", source |-> None, reason |-> "missing_key"] \in Notes
      BY DEF Notes, Reasons
    <3> QED
      BY <2>2, <3>1, RowAssumption
  <2> QED
    BY <1>1, <1>2, <2>2, <2>3, <2>4, <2>5, <2>6, RowAssumption DEF Told, RowSeen, Answered, Written, Counted, Undecided, Statuses
<1>7. CASE a.body # "unparsable" /\ a.key # NoKey
  <2>1. pc'[r] = "lookup" /\ answer'[r] = answer[r] /\ note'[r] = note[r] /\ counts'[r] = counts[r]
    BY <1>3, <1>7 DEF GoTo, TypeInv, TypeOK
  <2> QED
    BY <1>1, <1>2, <2>1, RowAssumption DEF Told, RowSeen, Answered, Written, Counted, Undecided, Statuses
<1> QED
  BY <1>3, <1>5, <1>6, <1>7

\* The read of the credential tells nothing,
LEMMA LookupCredentialTold ==
  ASSUME TypeInv, Entitled, NEW r \in Requests, Told(r), LookupCredential(r)
  PROVE  Told(r)'
<1>0. /\ pc[r] = "lookup" /\ Entitlement(r) /\ Stage(r)
      /\ row[r] \in Snapshots \cup {None} /\ counts[r] \in Counts /\ ask[r] \in Asks \cup {None}
  BY DEF LookupCredential, FailForward, AuditInsertRejected, At, Entitled, TypeInv, TypeOK, Stages
<1>1. ask'[r] = ask[r] /\ answer'[r] = answer[r] /\ note'[r] = note[r] /\ audit'[r] = audit[r] /\ counts'[r] = counts[r] /\ wire'[r] = wire[r] /\ seen'[r] = seen[r]
  BY DEF LookupCredential, FailForward, AuditInsertRejected, Reject, Conclude, forwarded
<1>2. pc'[r] = "verify" /\ row'[r] = CredentialRow(ask[r].key)
  BY DEF LookupCredential, GoTo, TypeInv, TypeOK
<1>3. ask[r].key \in Keys /\ ask[r].key # NoKey /\ Facts(r) \subseteq seen[r]
  BY <1>0, NullAssumption DEF Stage, Entitlement, Pending
<1>4. KeyFaults(ask[r].key) \subseteq seen[r]
  BY <1>3 DEF Facts, Authentic
<1>5. RowSeen(r)'
  <2>1. CASE credential[ask[r].key] = "absent"
    BY <1>1, <1>2, <1>4, <2>1 DEF RowSeen, CredentialRow, KeyFaults
  <2>2. CASE credential[ask[r].key] # "absent"
    <3>1. /\ row'[r] \in Snapshots
          /\ row'[r].credential = credential[ask[r].key]
          /\ row'[r].source = sourceStatus[Owner[ask[r].key]]
      BY <1>2, <1>3, <2>2, OwnerAssumption DEF CredentialRow, Snapshots, TypeInv, TypeOK
    <3> QED
      BY <1>1, <1>2, <1>4, <3>1, RowAssumption DEF RowSeen, KeyFaults
  <2> QED
    BY <2>1, <2>2
<1> QED
  BY <1>0, <1>1, <1>2, <1>5 DEF Told, RowSeen, Answered, Written, Counted, Undecided, Statuses

\* its check tells a refusal and counts it, or lets the request pass and counts it,
LEMMA VerifyTold ==
  ASSUME TypeInv, Entitled, NEW r \in Requests, Told(r), Verify(r)
  PROVE  Told(r)'
<1>0. /\ pc[r] = "verify" /\ Entitlement(r) /\ Stage(r)
      /\ row[r] \in Snapshots \cup {None} /\ counts[r] \in Counts /\ ask[r] \in Asks \cup {None}
  BY DEF Verify, FailForward, AuditInsertRejected, At, Entitled, TypeInv, TypeOK, Stages
<1>1. ask'[r] = ask[r] /\ audit'[r] = audit[r] /\ wire'[r] = wire[r] /\ seen'[r] = seen[r]
  BY DEF Verify, FailForward, AuditInsertRejected, Reject, Conclude, forwarded
<1>2. /\ answer[r] = None /\ note[r] = None /\ audit[r] = <<>> /\ wire[r] = "none"
      /\ counts[r] = [requests |-> 0, rejected |-> 0, failures |-> 0]
      /\ ask[r].key \in Keys /\ ask[r].key # NoKey /\ Owner[ask[r].key] \in Sources
      /\ Facts(r) \subseteq seen[r] /\ RowSeen(r)
  BY <1>0, NullAssumption, OwnerAssumption
  DEF Told, Answered, Written, Counted, Undecided, Entitlement, Stage, Pending
<1>3. KeyFaults(ask[r].key) \subseteq seen[r]
  BY <1>2 DEF Facts, Authentic
<1>4. CASE AuthOutcome(row[r], expired[ask[r].key]) # "ok"
  <2> DEFINE reason == AuthOutcome(row[r], expired[ask[r].key])
  <2>0. /\ reason \in Reasons \ {"empty_body", "route_disabled"} /\ reason \in seen[r]
    <3>1. CASE row[r] = None
      BY <1>0, <1>2, <3>1 DEF AuthOutcome, RowSeen, Reasons
    <3>2. CASE row[r] \in Snapshots
      <4>1. expired[ask[r].key] => "credential_expired" \in seen[r]
        BY <1>3 DEF KeyFaults
      <4> QED
        BY <1>0, <1>2, <1>4, <3>2, <4>1, RowAssumption DEF AuthOutcome, RowSeen, Reasons, Snapshots
    <3> QED
      BY <1>0, <3>1, <3>2
  <2>1. Conclude(r, 401, "denied", None, reason) /\ Count(r, 0, 1, 0)
    BY <1>4 DEF Verify, Reject
  <2> HIDE DEF reason
  <2>2. /\ pc'[r] = "audit" /\ answer'[r] = 401
        /\ note'[r] = [result |-> "denied", source |-> None, reason |-> reason]
        /\ note'[r].result = "denied" /\ note'[r].reason = reason /\ note'[r].source = None
    BY <2>1, ConcludeTells
  <2>3. counts'[r].requests = 0 /\ counts'[r].rejected = 1 /\ counts'[r].failures = 0
    <3>1. /\ counts'[r].requests = counts[r].requests + 0
          /\ counts'[r].rejected = counts[r].rejected + 1
          /\ counts'[r].failures = counts[r].failures + 0
      BY <2>1 DEF Count, TypeInv, TypeOK
    <3> QED
      BY <1>2, <3>1
  <2>5. RowFits(r, note[r])'
    BY <2>0, <2>2 DEF RowFits
  <2>6. note'[r] # None
    <3>1. [result |-> "denied", source |-> None, reason |-> reason] \in Notes
      BY <1>0, <1>2, <2>0 DEF Notes, Reasons, Causes
    <3> QED
      BY <2>2, <3>1, RowAssumption
  <2> QED
    BY <1>1, <1>2, <2>0, <2>2, <2>3, <2>5, <2>6, RowAssumption DEF Told, RowSeen, Answered, Written, Counted, Undecided, Statuses
<1>5. CASE AuthOutcome(row[r], expired[ask[r].key]) = "ok" /\ ask[r].body = "empty"
  <2>1. Conclude(r, 400, "denied", Owner[ask[r].key], "empty_body") /\ Count(r, 1, 1, 0)
    BY <1>5 DEF Verify, Reject
  <2>2. /\ pc'[r] = "audit" /\ answer'[r] = 400
        /\ note'[r] = [result |-> "denied", source |-> Owner[ask[r].key], reason |-> "empty_body"]
        /\ note'[r].result = "denied" /\ note'[r].reason = "empty_body"
    BY <2>1, ConcludeTells
  <2>3. counts'[r].requests = 1 /\ counts'[r].rejected = 1 /\ counts'[r].failures = 0
    <3>1. /\ counts'[r].requests = counts[r].requests + 1
          /\ counts'[r].rejected = counts[r].rejected + 1
          /\ counts'[r].failures = counts[r].failures + 0
      BY <2>1 DEF Count, TypeInv, TypeOK
    <3> QED
      BY <1>2, <3>1
  <2>4. "empty_body" \in seen[r]
    BY <1>2, <1>5 DEF Facts
  <2>5. RowFits(r, note[r])'
    BY <1>1, <1>2, <2>2 DEF RowFits
  <2>6. note'[r] # None
    <3>1. [result |-> "denied", source |-> Owner[ask[r].key], reason |-> "empty_body"] \in Notes
      BY <1>0, <1>2 DEF Notes, Reasons, Causes
    <3> QED
      BY <2>2, <3>1, RowAssumption
  <2> QED
    BY <1>1, <1>2, <2>2, <2>3, <2>4, <2>5, <2>6, RowAssumption DEF Told, RowSeen, Answered, Written, Counted, Undecided, Statuses
<1>6. CASE AuthOutcome(row[r], expired[ask[r].key]) = "ok" /\ ask[r].body # "empty"
  <2>1. pc'[r] = "routing" /\ answer'[r] = answer[r] /\ note'[r] = note[r] /\ Count(r, 1, 0, 0)
    BY <1>6 DEF Verify, GoTo, TypeInv, TypeOK
  <2>2. counts'[r] = [requests |-> 1, rejected |-> 0, failures |-> 0]
    <3>1. counts'[r] = [requests |-> counts[r].requests + 1, rejected |-> counts[r].rejected + 0,
                        failures |-> counts[r].failures + 0]
      BY <2>1 DEF Count, TypeInv, TypeOK
    <3> QED
      BY <1>2, <3>1
  <2> QED
    BY <1>1, <1>2, <2>1, <2>2, RowAssumption DEF Told, RowSeen, Answered, Written, Counted, Undecided, Statuses
<1> QED
  BY <1>4, <1>5, <1>6

\* and so does the route.
LEMMA ResolveRouteTold ==
  ASSUME TypeInv, Entitled, NEW r \in Requests, Told(r), ResolveRoute(r)
  PROVE  Told(r)'
<1>0. /\ pc[r] = "routing" /\ Entitlement(r) /\ Stage(r)
      /\ row[r] \in Snapshots \cup {None} /\ counts[r] \in Counts /\ ask[r] \in Asks \cup {None}
  BY DEF ResolveRoute, FailForward, AuditInsertRejected, At, Entitled, TypeInv, TypeOK, Stages
<1>1. ask'[r] = ask[r] /\ row'[r] = row[r] /\ audit'[r] = audit[r] /\ seen'[r] = seen[r]
  BY DEF ResolveRoute, FailForward, AuditInsertRejected, Reject, Conclude, forwarded
<1>2. /\ answer[r] = None /\ note[r] = None /\ audit[r] = <<>> /\ wire[r] = "none"
      /\ counts[r] = [requests |-> 1, rejected |-> 0, failures |-> 0]
      /\ ask[r].key \in Keys /\ ask[r].key # NoKey /\ context[r] = Owner[ask[r].key]
      /\ Owner[ask[r].key] \in Sources /\ Facts(r) \subseteq seen[r]
  BY <1>0, NullAssumption, OwnerAssumption
  DEF Told, Answered, Written, Counted, Undecided, Entitlement, Stage, Pending
<1>3. CASE ~RouteAllowed(context[r], ask[r].signal)
  <2>1. Conclude(r, 403, "denied", context[r], "route_disabled") /\ Count(r, 0, 1, 0) /\ wire' = wire
    BY <1>3 DEF ResolveRoute, Reject, forwarded
  <2>2. /\ pc'[r] = "audit" /\ answer'[r] = 403
        /\ note'[r] = [result |-> "denied", source |-> context[r], reason |-> "route_disabled"]
        /\ note'[r].result = "denied" /\ note'[r].reason = "route_disabled"
    BY <2>1, ConcludeTells
  <2>3. counts'[r].requests = 1 /\ counts'[r].rejected = 1 /\ counts'[r].failures = 0
    <3>1. /\ counts'[r].requests = counts[r].requests + 0
          /\ counts'[r].rejected = counts[r].rejected + 1
          /\ counts'[r].failures = counts[r].failures + 0
      BY <2>1 DEF Count, TypeInv, TypeOK
    <3> QED
      BY <1>2, <3>1
  <2>4. "route_disabled" \in seen[r]
    BY <1>2, <1>3 DEF Facts
  <2>5. RowFits(r, note[r])'
    BY <1>1, <1>2, <2>2 DEF RowFits
  <2>6. note'[r] # None
    <3>1. [result |-> "denied", source |-> context[r], reason |-> "route_disabled"] \in Notes
      BY <1>0, <1>2 DEF Notes, Reasons, Causes
    <3> QED
      BY <2>2, <3>1, RowAssumption
  <2> QED
    BY <1>1, <1>2, <2>1, <2>2, <2>3, <2>4, <2>5, <2>6, RowAssumption DEF Told, RowSeen, Answered, Written, Counted, Undecided, Statuses
<1>4. CASE RouteAllowed(context[r], ask[r].signal)
  <2>1. /\ pc'[r] = "forward" /\ wire'[r] = "sent"
        /\ answer'[r] = answer[r] /\ note'[r] = note[r] /\ counts'[r] = counts[r]
    BY <1>4 DEF ResolveRoute, GoTo, TypeInv, TypeOK
  <2> QED
    BY <1>1, <1>2, <2>1, RowAssumption DEF Told, RowSeen, Answered, Written, Counted, Undecided, Statuses
<1> QED
  BY <1>3, <1>4

\* A rejected read is answered 500 and forwards nothing.
LEMMA ReadFailsTold ==
  ASSUME TypeInv, Entitled, NEW r \in Requests, Told(r), ReadFails(r)
  PROVE  Told(r)'
<1>0. pc[r] \in {"lookup", "routing"} /\ Entitlement(r)
  BY DEF ReadFails, At, Entitled
<1>1. /\ pc'[r] = "reply" /\ answer'[r] = 500 /\ ask' = ask /\ row' = row /\ note' = note
      /\ audit' = audit /\ counts' = counts /\ wire' = wire /\ seen' = seen /\ auditFault' = auditFault
  BY DEF ReadFails, GoTo, forwarded, TypeInv, TypeOK
<1>2. /\ answer[r] = None /\ note[r] = None /\ audit[r] = <<>> /\ wire[r] = "none"
      /\ counts[r].rejected = 0 /\ counts[r].failures = 0
  BY <1>0 DEF Told, Answered, Written, Counted, Undecided, Entitlement
<1> QED
  BY <1>1, <1>2, RowAssumption DEF Told, RowSeen, Answered, Written, Counted, Undecided, Statuses

\* The forward is over: the batch was accepted, or the client is left in doubt.
LEMMA ForwardSucceedsTold ==
  ASSUME TypeInv, Entitled, NEW r \in Requests, Told(r), ForwardSucceeds(r)
  PROVE  Told(r)'
<1>0. /\ pc[r] = "forward" /\ Entitlement(r) /\ Stage(r)
      /\ row[r] \in Snapshots \cup {None} /\ counts[r] \in Counts /\ ask[r] \in Asks \cup {None}
  BY DEF ForwardSucceeds, FailForward, AuditInsertRejected, At, Entitled, TypeInv, TypeOK, Stages
<1>1. ask'[r] = ask[r] /\ row'[r] = row[r] /\ audit'[r] = audit[r] /\ wire'[r] = wire[r] /\ seen'[r] = seen[r] /\ counts'[r] = counts[r]
  BY DEF ForwardSucceeds, FailForward, AuditInsertRejected, Reject, Conclude, forwarded
<1>2. /\ answer[r] = None /\ note[r] = None /\ audit[r] = <<>>
      /\ counts[r] = [requests |-> 1, rejected |-> 0, failures |-> 0]
      /\ ask[r].key \in Keys /\ ask[r].key # NoKey /\ context[r] = Owner[ask[r].key]
      /\ Owner[ask[r].key] \in Sources
  BY <1>0, NullAssumption, OwnerAssumption
  DEF Told, Answered, Written, Counted, Undecided, Stage
<1>3. wire[r] = "accepted"
  BY DEF ForwardSucceeds, Responded2xx
<1>4. Conclude(r, 202, "allowed", context[r], None)
  BY DEF ForwardSucceeds
<1>5. /\ pc'[r] = "audit" /\ answer'[r] = 202
      /\ note'[r] = [result |-> "allowed", source |-> context[r], reason |-> None]
      /\ note'[r].result = "allowed"
  BY <1>4, ConcludeTells
<1>6. RowFits(r, note[r])'
  BY <1>1, <1>2, <1>5 DEF RowFits
<1>7. note'[r] # None
  <2>1. [result |-> "allowed", source |-> context[r], reason |-> None] \in Notes
    BY <1>2 DEF Notes
  <2> QED
    BY <1>5, <2>1, RowAssumption
<1> QED
  BY <1>1, <1>2, <1>3, <1>5, <1>6, <1>7, RowAssumption DEF Told, RowSeen, Answered, Written, Counted, Undecided, Statuses

\* A failure to forward is answered 502, counted once, and audited as that.
LEMMA FailForwardTold ==
  ASSUME TypeInv, Entitled, NEW r \in Requests, Told(r), NEW cause \in Causes, FailForward(r, cause, 1)
  PROVE  Told(r)'
<1>0. pc[r] = "forward" /\ Entitlement(r) /\ Stage(r)
  BY DEF FailForward, At, Entitled, TypeInv, Stages
<1>1. ask'[r] = ask[r] /\ row'[r] = row[r] /\ audit'[r] = audit[r] /\ seen'[r] = seen[r]
  BY DEF FailForward
<1>2. /\ answer[r] = None /\ note[r] = None /\ audit[r] = <<>>
      /\ counts[r] = [requests |-> 1, rejected |-> 0, failures |-> 0]
      /\ ask[r].key \in Keys /\ ask[r].key # NoKey /\ context[r] = Owner[ask[r].key]
      /\ Owner[ask[r].key] \in Sources
  BY <1>0, NullAssumption, OwnerAssumption
  DEF Told, Answered, Written, Counted, Undecided, Stage
<1>3. Conclude(r, 502, "failed", context[r], cause) /\ Count(r, 0, 0, 1)
  BY DEF FailForward
<1>4. /\ pc'[r] = "audit" /\ answer'[r] = 502
      /\ note'[r] = [result |-> "failed", source |-> context[r], reason |-> cause]
      /\ note'[r].result = "failed" /\ note'[r].reason = cause /\ note'[r].source = context[r]
  BY <1>3, ConcludeTells
<1>5. counts'[r].requests = 1 /\ counts'[r].rejected = 0 /\ counts'[r].failures = 1
  <2>1. /\ counts'[r].requests = counts[r].requests + 0
        /\ counts'[r].rejected = counts[r].rejected + 0
        /\ counts'[r].failures = counts[r].failures + 1
    BY <1>3 DEF Count, TypeInv, TypeOK
  <2> QED
    BY <1>2, <2>1
<1>6. RowFits(r, note[r])'
  BY <1>1, <1>2, <1>4 DEF RowFits
<1>7. note'[r] # None
  <2>1. [result |-> "failed", source |-> context[r], reason |-> cause] \in Notes
    BY <1>2 DEF Notes
  <2> QED
    BY <1>4, <2>1, RowAssumption
<1> QED
  BY <1>1, <1>2, <1>4, <1>5, <1>6, <1>7, RowAssumption DEF Told, RowSeen, Answered, Written, Counted, Undecided, Statuses

\* The row that is written is the one decided.
LEMMA AuditTold ==
  ASSUME TypeInv, NEW r \in Requests, Told(r), InsertAudit(r) \/ AuditFails(r)
  PROVE  Told(r)'
<1>0. pc[r] = "audit" /\ pc'[r] = "reply"
  BY DEF InsertAudit, AuditFails, AuditInsertRejected, At, GoTo, TypeInv, TypeOK
<1>1. /\ ask' = ask /\ row' = row /\ answer' = answer /\ note' = note /\ counts' = counts
      /\ wire' = wire /\ seen' = seen
  BY DEF InsertAudit, AuditFails, AuditInsertRejected, forwarded
<1>2. /\ audit'[r] = Append(audit[r], note[r]) \/ (audit'[r] = audit[r] /\ r \in auditFault')
  BY DEF InsertAudit, AuditFails, AuditInsertRejected, TypeInv, TypeOK
<1>3. audit[r] = <<>> /\ note[r] # None
  BY <1>0 DEF Told, Answered, Written
<1>4. audit'[r] = <<note[r]>> \/ (audit'[r] = <<>> /\ r \in auditFault')
  BY <1>2, <1>3
<1>5. RowFits(r, note[r])' = RowFits(r, note[r])
  BY <1>1 DEF RowFits
<1>6. Answered(r)'
  BY <1>0, <1>1, <1>3, <1>5 DEF Told, Answered, Undecided
<1>7. <<note[r]>> # <<>>
  OBVIOUS
<1>8. Written(r)'
  BY <1>0, <1>1, <1>3, <1>4, <1>7 DEF Written
<1> QED
  BY <1>0, <1>1, <1>6, <1>8 DEF Told, RowSeen, Counted

\* The reply repeats what was decided.
LEMMA RespondTold ==
  ASSUME TypeInv, NEW r \in Requests, Told(r), Respond(r)
  PROVE  Told(r)'
<1>0. pc[r] = "reply" /\ pc'[r] = "answered"
  BY DEF Respond, At, GoTo, TypeInv, TypeOK
<1>1. /\ ask' = ask /\ row' = row /\ answer' = answer /\ note' = note /\ counts' = counts
      /\ wire' = wire /\ seen' = seen /\ audit' = audit /\ auditFault' = auditFault
  BY DEF Respond, forwarded
<1>2. RowFits(r, note[r])' = RowFits(r, note[r])
  BY <1>1 DEF RowFits
<1> QED
  BY <1>0, <1>1, <1>2 DEF Told, RowSeen, Answered, Written, Counted, Undecided, Statuses

\* A crash answers nobody; a row that was sent may still be written.
LEMMA CrashTold ==
  ASSUME TypeInv, NEW r \in Requests, Told(r), Crash
  PROVE  Told(r)'
<1>1. /\ ask' = ask /\ row' = row /\ answer' = answer /\ note' = note /\ counts' = counts
      /\ wire' = wire /\ seen' = seen /\ auditFault' = auditFault
      /\ pc'[r] = IF pc[r] \in Pending THEN "lost" ELSE pc[r]
  BY DEF Crash, forwarded
<1>2. audit'[r] = audit[r] \/ (pc[r] = "audit" /\ audit'[r] = Append(audit[r], note[r]))
  BY DEF Crash
<1>3. RowFits(r, note[r])' = RowFits(r, note[r])
  BY <1>1 DEF RowFits
<1>4. CASE pc[r] \in Pending
  <2>1. pc'[r] = "lost" /\ pc[r] # "answered"
    BY <1>1, <1>4 DEF Pending
  <2>2. audit'[r] = audit[r] \/ (note[r] # None /\ audit'[r] = <<note[r]>>)
    BY <1>2 DEF Told, Answered, Written
  <2>3. Written(r)'
    BY <1>1, <2>1, <2>2 DEF Told, Written
  <2>4. Answered(r)'
    BY <1>1, <1>3, <2>1 DEF Told, Answered, Undecided
  <2> QED
    BY <1>1, <2>1, <2>3, <2>4 DEF Told, RowSeen, Counted
<1>5. CASE pc[r] \notin Pending
  <2>1. pc'[r] = pc[r] /\ audit'[r] = audit[r]
    BY <1>1, <1>2, <1>5 DEF Pending
  <2> QED
    BY <1>1, <1>3, <2>1, UntouchedTold DEF Untouched
<1> QED
  BY <1>4, <1>5

-----------------------------------------------------------------------------
(* The invariant is kept *)

\* Every step of a handler keeps what its own request was told.
LEMMA OwnTold ==
  ASSUME TypeInv, Entitled, NEW r \in Requests, Told(r),
         Receive(r) \/ Handle(r) \/ ForwardBreaks(r) \/ CollectorReceives(r)
  PROVE  Told(r)'
<1>1. CASE \E cause \in Causes : FailForward(r, cause, 1)
  BY <1>1, FailForwardTold
<1>2. CASE CollectorReceives(r)
  BY <1>2, UntouchedTold DEF CollectorReceives, Untouched, handler, TypeInv, TypeOK
<1>3. ForwardRefused(r) \/ ForwardTimesOut(r) \/ ForwardBreaks(r) => \E cause \in Causes : FailForward(r, cause, 1)
  BY DEF ForwardRefused, ForwardTimesOut, ForwardBreaks, Causes
<1> QED
  BY <1>1, <1>2, <1>3, ReceiveTold, LookupCredentialTold, VerifyTold, ResolveRouteTold, ReadFailsTold,
     ForwardSucceedsTold, AuditTold, RespondTold DEF Handle

\* Steps of the registry, of a last_used_at update and of a restart touch no request.
LEMMA ElsewhereUntouched ==
  ASSUME TypeInv, NEW q \in Requests,
         RegistryChanges \/ (\E k \in Keys : TouchCredential(k)) \/ Restart \/ UNCHANGED vars
  PROVE  Untouched(q)
<1>1. UNCHANGED <<pc, ask, row, answer, note, audit, counts, auditFault, wire>>
  BY DEF RegistryChanges, TouchCredential, Restart, vars, handler, forwarded
<1>2. seen[q] \subseteq seen'[q]
  BY DEF RegistryChanges, Observe, TouchCredential, Restart, vars
<1> QED
  BY <1>1, <1>2 DEF Untouched

\* Every step keeps the invariant.
LEMMA TrailStep ==
  ASSUME TypeInv, Entitled, TrailInv, [Next]_vars
  PROVE  TrailInv'
<1> SUFFICES ASSUME NEW q \in Requests
             PROVE  Told(q)'
  BY DEF TrailInv
<1>0. Told(q)
  BY DEF TrailInv
<1>1. ASSUME NEW r \in Requests, Receive(r) \/ Handle(r) \/ ForwardBreaks(r) \/ CollectorReceives(r)
      PROVE  Told(q)'
  BY <1>0, <1>1, OwnTold, OthersUntouched, UntouchedTold
<1>2. CASE Crash
  BY <1>0, <1>2, CrashTold
<1>3. CASE RegistryChanges \/ (\E k \in Keys : TouchCredential(k)) \/ Restart \/ UNCHANGED vars
  BY <1>0, <1>3, ElsewhereUntouched, UntouchedTold
<1> QED
  BY <1>1, <1>2, <1>3 DEF Next

\* The invariant of the replies, the trail and the counters.
THEOREM TrailInvariant == Spec => []TrailInv
<1>1. TypeInv /\ Entitled /\ TrailInv /\ [Next]_vars => TrailInv'
  BY TrailStep
<1> QED
  BY <1>1, InitTrail, TypeInvariant, EntitledInvariant, PTL DEF Spec

-----------------------------------------------------------------------------
(* Theorems *)

\* Certainty: the Collector kept the batch of a client told 202 and was never sent that of
\* one told 400, 401, 403, 415 or 500; the audit row says no more than that, crash or not.
THEOREM RepliesAreCertain == Spec => []ResultMatchesDelivery
<1>1. TypeInv /\ TrailInv => ResultMatchesDelivery
  <2>1. ASSUME TrailInv, TypeInv, NEW r \in Requests, pc[r] = "answered"
        PROVE  /\ answer[r] = 202 => wire[r] = "accepted"
               /\ answer[r] \notin {202, 502} => wire[r] = "none"
    BY <2>1 DEF TrailInv, Told, Answered
  <2>2. ASSUME TrailInv, NEW r \in Requests, NEW i \in 1..Len(audit[r])
        PROVE  /\ audit[r][i].result = "allowed" => wire[r] = "accepted"
               /\ audit[r][i].result = "denied" => wire[r] = "none"
    <3>1. Told(r)
      BY <2>2 DEF TrailInv
    <3>2. audit[r][i] = note[r] /\ note[r] # None
      BY <2>2, <3>1 DEF Told, Written
    <3> QED
      BY <3>1, <3>2 DEF Told, Answered
  <2> QED
    BY <2>1, <2>2 DEF ResultMatchesDelivery
<1> QED
  BY <1>1, TrailInvariant, TypeInvariant, PTL

\* The audit trail: at most one row per request, crash or not, and it agrees with the answer;
\* an answered request has its row, unless the insert was rejected or the answer is 415 or 500.
THEOREM AuditTrailIsKept == Spec => []AuditTrail
<1>1. TrailInv => AuditTrail
  <2>1. ASSUME TrailInv, NEW r \in Requests
        PROVE  /\ Len(audit[r]) <= 1
               /\ \A i \in 1..Len(audit[r]) : RowFits(r, audit[r][i])
    <3>1. Told(r)
      BY <2>1 DEF TrailInv
    <3>2. CASE audit[r] = <<>>
      BY <3>2
    <3>3. CASE audit[r] = <<note[r]>> /\ note[r] # None
      <4>1. Len(audit[r]) = 1 /\ audit[r][1] = note[r]
        BY <3>3
      <4>2. RowFits(r, note[r])
        BY <3>1, <3>3 DEF Told, Answered
      <4> QED
        BY <4>1, <4>2
    <3> QED
      BY <3>1, <3>2, <3>3 DEF Told, Written
  <2>2. ASSUME TrailInv, NEW r \in Requests, pc[r] = "answered", answer[r] \notin {415, 500}
        PROVE  audit[r] # <<>> \/ r \in auditFault
    BY <2>2 DEF TrailInv, Told, Written
  <2> QED
    BY <2>1, <2>2 DEF AuditTrail
<1> QED
  BY <1>1, TrailInvariant, PTL

\* No request is refused for a reason that never held while it was open.
THEOREM DenialsAreJustified == Spec => []DenialJustified
<1>1. TrailInv => DenialJustified
  BY DEF TrailInv, Told, Answered, DenialJustified
<1> QED
  BY <1>1, TrailInvariant, PTL

\* An answered request was counted as its answer says, and in no other way.
THEOREM CountersAreRight == Spec => []CountersAgree
<1>1. TrailInv => CountersAgree
  BY DEF TrailInv, Told, Counted, CountersAgree
<1> QED
  BY <1>1, TrailInvariant, PTL

===============================================================================
