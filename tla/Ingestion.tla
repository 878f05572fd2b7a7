------------------------------ MODULE Ingestion ------------------------------
(***************************************************************************)
(* The ingestion path of Ophir: POST /otel/v1/{logs,traces,metrics}.       *)
(* A request passes the source-key preHandler, the routing policy and the  *)
(* forward to the OpenTelemetry Collector, leaves one audit row and is     *)
(* answered.  Each action is the code that runs between two awaits, or one *)
(* statement executed by PostgreSQL, or one step of the Collector, so the  *)
(* registry (statuses, expiry, routes) may change between any two of them. *)
(***************************************************************************)
EXTENDS Naturals, Sequences, Registry

CONSTANTS Requests,     \* the HTTP requests, each sent once
          Owner,        \* the source each key is registered for
          NoKey,        \* no x-ophir-source-key header, or a blank one
          None,         \* null
          MaxChanges,   \* bound on registry changes, for TLC
          MaxCrashes    \* bound on process crashes, for TLC

ASSUME OwnerAssumption == Owner \in [Keys -> Sources]
ASSUME NullAssumption  == NoKey \notin Keys /\ None \notin Sources
ASSUME BoundAssumption == MaxChanges \in Nat /\ MaxCrashes \in Nat

VARIABLES
  audit,                                     \* audit_events written, per request
  lastUsed,                                  \* keys whose last_used_at is set
  ask,                                       \* what each request carries
  pc,                                        \* where its handler is
  row,                                       \* credential row read, awaiting the check
  context,                                   \* request.sourceContext
  answer, note,                              \* reply decided, audit row to write
  counts,                                    \* what it added to each counter
  touching,                                  \* last_used_at updates in flight
  up,                                        \* is the process running
  wire,                                      \* the exchange with the Collector
  headers,                                   \* routing headers of the forward
  auditFault,                                \* requests whose audit insert failed
  seen,                                      \* facts true while it was in progress
  changes, crashes

handler   == <<ask, pc, row, context, answer, note, counts>>
forwarded == <<wire, headers>>
usage     == <<touching, lastUsed>>
bounds    == <<changes, crashes>>
vars == <<registry, audit, usage, handler, up, forwarded, auditFault, seen, bounds>>

Bodies    == {"payload", "empty", "unparsable"}
Reasons   == {"missing_key", "unknown_key", "credential_disabled", "credential_rotated",
              "credential_expired", "source_disabled", "empty_body", "route_disabled"}
Causes    == {"bad_status", "timed_out", "network"}
Statuses  == {202, 400, 401, 403, 415, 500, 502}
Asks      == [key : Keys \cup {NoKey}, signal : Signals, body : Bodies]
Snapshots == [credential : {"active", "disabled", "rotated"}, source : {"active", "disabled"}]
Notes     == [result : {"allowed", "denied", "failed"}, source : Sources \cup {None},
              reason : Reasons \cup Causes \cup {None}]
Sightings == Reasons \cup {"authentic", "route_open"}
Counts    == [requests : Nat, rejected : Nat, failures : Nat]
Pending   == {"lookup", "verify", "routing", "forward", "audit", "reply"}
Done      == {"answered", "lost"}

\* NULL is no status code, no row and no request.
ASSUME RowAssumption == None \notin Statuses \cup Notes \cup Snapshots \cup Asks

-----------------------------------------------------------------------------
(* authenticateSourceKey: the outcome for a row read from the database and   *)
(* an expiry decided by the clock when the row is examined.                  *)

\* Mutant: the status of the owning source is not checked.
OutcomeIgnoringSource(snap, isExpired) ==
  IF snap = None THEN "unknown_key"
  ELSE IF snap.credential # "active" THEN "credential_disabled"
  ELSE IF isExpired THEN "credential_expired"
  ELSE "ok"

\* Mutant: a rotated key is reported under the reason of another failure.
OutcomeMislabelled(snap, isExpired) ==
  IF snap = None THEN "unknown_key"
  ELSE IF snap.credential # "active" THEN "credential_expired"
  ELSE IF isExpired THEN "credential_expired"
  ELSE IF snap.source # "active" THEN "source_disabled"
  ELSE "ok"

AuthOutcome(snap, isExpired) ==
  IF snap = None THEN "unknown_key"
  ELSE IF snap.credential = "disabled" THEN "credential_disabled"
  ELSE IF snap.credential = "rotated" THEN "credential_rotated"
  ELSE IF isExpired THEN "credential_expired"
  ELSE IF snap.source # "active" THEN "source_disabled"
  ELSE "ok"

\* Mutant: the join is an outer join, so a key nobody registered still yields a row.
OuterJoinRow(k) == [credential |-> credential[k], source |-> sourceStatus[Owner[k]]]

\* getCredentialWithSourceByHash: one statement, so one consistent snapshot
CredentialRow(k) ==
  IF credential[k] = "absent" THEN None
  ELSE [credential |-> credential[k], source |-> sourceStatus[Owner[k]]]

\* evaluateRouting: a missing route is allowed, only a disabled one is refused
RouteAllowed(s, g) == route[s][g] # "disabled"

-----------------------------------------------------------------------------
(* History: what was true of each request at some moment while it was open. *)

KeyFaults(k) ==
  (IF credential[k] = "absent" THEN {"unknown_key"} ELSE {})
    \cup (IF credential[k] = "disabled" THEN {"credential_disabled"} ELSE {})
    \cup (IF credential[k] = "rotated" THEN {"credential_rotated"} ELSE {})
    \cup (IF expired[k] THEN {"credential_expired"} ELSE {})
    \cup (IF sourceStatus[Owner[k]] = "disabled" THEN {"source_disabled"} ELSE {})

Authentic(k) == KeyFaults(k) = {}

Facts(r) ==
  LET k == ask[r].key IN
    (IF ask[r].body = "empty" THEN {"empty_body"} ELSE {})
      \cup (IF k = NoKey THEN {"missing_key"}
            ELSE (IF Authentic(k) THEN {"authentic"} ELSE KeyFaults(k))
                   \cup {IF RouteAllowed(Owner[k], ask[r].signal) THEN "route_open"
                         ELSE "route_disabled"})

Observe ==
  seen' = [r \in Requests |-> IF pc[r] \in Pending THEN seen[r] \cup Facts(r)' ELSE seen[r]]

-----------------------------------------------------------------------------
Init ==
  /\ RegistryInit
  /\ audit = [r \in Requests |-> <<>>]
  /\ touching = {} /\ lastUsed = {}
  /\ ask = [r \in Requests |-> None]
  /\ pc = [r \in Requests |-> "idle"]
  /\ row = [r \in Requests |-> None]
  /\ context = [r \in Requests |-> None]
  /\ answer = [r \in Requests |-> None]
  /\ note = [r \in Requests |-> None]
  /\ counts = [r \in Requests |-> [requests |-> 0, rejected |-> 0, failures |-> 0]]
  /\ wire = [r \in Requests |-> "none"]
  /\ headers = [r \in Requests |-> None]
  /\ up = TRUE
  /\ auditFault = {}
  /\ seen = [r \in Requests |-> {}]
  /\ changes = 0 /\ crashes = 0

At(r, label)   == up /\ pc[r] = label
GoTo(r, label) == pc' = [pc EXCEPT ![r] = label]

\* What a step adds to the received, rejected and forward-failure counters.
Count(r, requests, rejected, failures) ==
  counts' = [counts EXCEPT ![r] = [requests |-> @.requests + requests,
                                   rejected |-> @.rejected + rejected,
                                   failures |-> @.failures + failures]]

\* The reply is decided; its audit row is written first, then it is sent.
Conclude(r, status, result, source, reason) ==
  /\ answer' = [answer EXCEPT ![r] = status]
  /\ note' = [note EXCEPT ![r] = [result |-> result, source |-> source, reason |-> reason]]
  /\ GoTo(r, "audit")

Reject(r, status, source, reason) == Conclude(r, status, "denied", source, reason)

\* Fastify reads the body before the preHandler: a body no parser takes is answered
\* with no key check.  A missing key is rejected without a database access.
Receive(r) ==
  /\ At(r, "idle")
  /\ \E a \in Asks :
       /\ ask' = [ask EXCEPT ![r] = a]
       /\ \/ /\ a.body = "unparsable"
             /\ answer' = [answer EXCEPT ![r] = 415]
             /\ GoTo(r, "reply")
             /\ UNCHANGED <<note, counts>>
          \/ /\ a.body # "unparsable" /\ a.key = NoKey
             /\ Count(r, 0, 1, 0)
             /\ Reject(r, 401, None, "missing_key")
          \/ /\ a.body # "unparsable" /\ a.key # NoKey
             /\ GoTo(r, "lookup")
             /\ UNCHANGED <<answer, note, counts>>
  /\ UNCHANGED <<registry, audit, usage, row, context, up, forwarded, auditFault, bounds>>
  /\ seen' = [seen EXCEPT ![r] = Facts(r)']

LookupCredential(r) ==
  /\ At(r, "lookup")
  /\ row' = [row EXCEPT ![r] = CredentialRow(ask[r].key)]
  /\ GoTo(r, "verify")
  /\ UNCHANGED <<registry, audit, usage, ask, context, answer, note, counts, up, forwarded,
                 auditFault, seen, bounds>>

\* Mutant: the context is kept where every request finds it, not on its own request.
DecorateAll(r, source) == [q \in Requests |-> source]

\* request.sourceContext = outcome.auth
Decorate(r, source) == [context EXCEPT ![r] = source]

\* The preHandler's decision and, with no await between them, the handler's start.
Verify(r) ==
  /\ At(r, "verify")
  /\ LET key     == ask[r].key
         outcome == AuthOutcome(row[r], expired[key])
         source  == Owner[key]
     IN \/ /\ outcome # "ok"
           /\ Count(r, 0, 1, 0)
           /\ Reject(r, 401, None, outcome)
           /\ UNCHANGED <<context, touching>>
        \/ /\ outcome = "ok"
           /\ context' = Decorate(r, source)
           /\ touching' = touching \cup {key}
           /\ \/ /\ ask[r].body = "empty"
                 /\ Count(r, 1, 1, 0)
                 /\ Reject(r, 400, source, "empty_body")
              \/ /\ ask[r].body # "empty"
                 /\ Count(r, 1, 0, 0)
                 /\ GoTo(r, "routing")
                 /\ UNCHANGED <<answer, note>>
  /\ row' = [row EXCEPT ![r] = None]
  /\ UNCHANGED <<registry, audit, lastUsed, ask, up, forwarded, auditFault, seen, bounds>>

\* resolveRouteForSource, then the fetch is started (and its abort timer armed).
ResolveRoute(r) ==
  /\ At(r, "routing")
  /\ \/ /\ ~RouteAllowed(context[r], ask[r].signal)
        /\ Count(r, 0, 1, 0)
        /\ Reject(r, 403, context[r], "route_disabled")
        /\ UNCHANGED forwarded
     \/ /\ RouteAllowed(context[r], ask[r].signal)
        /\ wire' = [wire EXCEPT ![r] = "sent"]
        /\ headers' = [headers EXCEPT ![r] = [source |-> context[r], signal |-> ask[r].signal]]
        /\ GoTo(r, "forward")
        /\ UNCHANGED <<answer, note, counts>>
  /\ UNCHANGED <<registry, audit, usage, ask, row, context, up, auditFault, seen, bounds>>

\* A rejected read is no AppError: 500, with no audit row and no counter.
ReadFails(r) ==
  /\ At(r, "lookup") \/ At(r, "routing")
  /\ answer' = [answer EXCEPT ![r] = 500]
  /\ GoTo(r, "reply")
  /\ UNCHANGED <<registry, audit, usage, ask, row, context, note, counts, up, forwarded,
                 auditFault, seen, bounds>>

-----------------------------------------------------------------------------
(* forwardToCollector *)

\* Mutant: any response counts as success (response.ok is not looked at).
AnyResponse(r) == wire[r] \in {"accepted", "refused"}

Responded2xx(r) == wire[r] = "accepted"

ForwardSucceeds(r) ==
  /\ At(r, "forward") /\ Responded2xx(r)
  /\ Conclude(r, 202, "allowed", context[r], None)
  /\ UNCHANGED <<registry, audit, usage, ask, row, context, counts, up, forwarded,
                 auditFault, seen, bounds>>

FailForward(r, cause, failures) ==
  /\ At(r, "forward")
  /\ Count(r, 0, 0, failures)
  /\ Conclude(r, 502, "failed", context[r], cause)
  /\ UNCHANGED <<registry, audit, usage, ask, row, context, up, auditFault, seen, bounds>>

\* Mutant: the catch block does not recognise the error thrown for a bad status.
ForwardRefusedCountedTwice(r) ==
  wire[r] = "refused" /\ FailForward(r, "bad_status", 2) /\ UNCHANGED forwarded

ForwardRefused(r) ==
  wire[r] = "refused" /\ FailForward(r, "bad_status", 1) /\ UNCHANGED forwarded

\* The connection breaks; what had been sent may or may not reach the Collector.
ForwardBreaks(r) ==
  /\ FailForward(r, "network", 1)
  /\ UNCHANGED headers
  /\ wire' \in {wire, [wire EXCEPT ![r] = IF @ = "sent" THEN "dropped" ELSE @]}

\* Mutant: no abort timer.
ForwardNeverTimesOut(r) == FALSE /\ FailForward(r, "timed_out", 1) /\ UNCHANGED forwarded

\* The abort closes the connection; it recalls nothing the Collector was sent.
ForwardTimesOut(r) == FailForward(r, "timed_out", 1) /\ UNCHANGED forwarded

\* External: the Collector takes the batch or answers with another status.
CollectorReceives(r) ==
  /\ wire[r] = "sent"
  /\ \E reply \in {"accepted", "refused"} : wire' = [wire EXCEPT ![r] = reply]
  /\ UNCHANGED <<registry, audit, usage, handler, up, headers, auditFault, seen, bounds>>

-----------------------------------------------------------------------------
(* recordAuditEvent and the reply *)

InsertAudit(r) ==
  /\ At(r, "audit")
  /\ audit' = [audit EXCEPT ![r] = Append(@, note[r])]
  /\ GoTo(r, "reply")
  /\ UNCHANGED <<registry, usage, ask, row, context, answer, note, counts, up, forwarded,
                 auditFault, seen, bounds>>

\* The insert as the client sees it: rejected, its row perhaps written after all.
AuditInsertRejected(r) ==
  /\ At(r, "audit")
  /\ auditFault' = auditFault \cup {r}
  /\ audit' \in {audit, [audit EXCEPT ![r] = Append(@, note[r])]}
  /\ UNCHANGED <<registry, usage, ask, row, context, answer, note, counts, up, forwarded, seen, bounds>>

\* Mutant: a rejected insert is tried again.
AuditRetries(r) ==
  AuditInsertRejected(r) /\ Len(audit[r]) < 2 /\ UNCHANGED pc

AuditFails(r) ==
  AuditInsertRejected(r) /\ GoTo(r, "reply")

Respond(r) ==
  /\ At(r, "reply")
  /\ GoTo(r, "answered")
  /\ UNCHANGED <<registry, audit, usage, ask, row, context, answer, note, counts, up, forwarded,
                 auditFault, seen, bounds>>

\* markCredentialUsed, started by Verify and awaited by nobody.
TouchCredential(k) ==
  /\ up /\ k \in touching
  /\ touching' = touching \ {k}
  /\ lastUsed' \in {lastUsed, lastUsed \cup {k}}
  /\ UNCHANGED <<registry, audit, handler, up, forwarded, auditFault, seen, bounds>>

-----------------------------------------------------------------------------
(* The registry changes under the requests; the process crashes and restarts *)

RegistryChanges ==
  /\ RegistryStep
  /\ changes < MaxChanges /\ changes' = changes + 1
  /\ UNCHANGED <<audit, usage, handler, up, forwarded, auditFault, crashes>>
  /\ Observe

\* A crash ends every handler; inserts and updates already sent may still be done.
Crash ==
  /\ up /\ crashes < MaxCrashes
  /\ up' = FALSE /\ crashes' = crashes + 1
  /\ pc' = [r \in Requests |-> IF pc[r] \in Pending THEN "lost" ELSE pc[r]]
  /\ \E written \in SUBSET {r \in Requests : pc[r] = "audit"} :
       audit' = [r \in Requests |-> IF r \in written THEN Append(audit[r], note[r]) ELSE audit[r]]
  /\ touching' = {}
  /\ \E touched \in SUBSET touching : lastUsed' = lastUsed \cup touched
  /\ UNCHANGED <<registry, ask, row, context, answer, note, counts, forwarded, auditFault, seen, changes>>

Restart ==
  /\ ~up /\ up' = TRUE
  /\ UNCHANGED <<registry, audit, usage, handler, forwarded, auditFault, seen, bounds>>

-----------------------------------------------------------------------------
Handle(r) ==
  \/ LookupCredential(r) \/ Verify(r) \/ ResolveRoute(r) \/ ReadFails(r)
  \/ ForwardSucceeds(r) \/ ForwardRefused(r) \/ ForwardTimesOut(r)
  \/ InsertAudit(r) \/ AuditFails(r) \/ Respond(r)

Next ==
  \/ \E r \in Requests : Receive(r) \/ Handle(r) \/ ForwardBreaks(r) \/ CollectorReceives(r)
  \/ \E k \in Keys : TouchCredential(k)
  \/ RegistryChanges \/ Crash \/ Restart

\* The event loop runs, the abort timer fires, PostgreSQL answers or rejects each
\* statement.  Nothing is assumed of the Collector, the network, clients or operators.
Fairness == \A r \in Requests : WF_vars(Handle(r))

Spec == Init /\ [][Next]_vars /\ Fairness

-----------------------------------------------------------------------------
(* Properties *)

\* Every variable keeps its shape.
TypeOK ==
  /\ sourceStatus \in [Sources -> {"active", "disabled"}]
  /\ credential \in [Keys -> {"absent", "active", "disabled", "rotated"}]
  /\ expired \in [Keys -> BOOLEAN]
  /\ route \in [Sources -> [Signals -> {"missing", "enabled", "disabled"}]]
  /\ audit \in [Requests -> Seq(Notes)]
  /\ touching \subseteq Keys /\ lastUsed \subseteq Keys
  /\ ask \in [Requests -> Asks \cup {None}]
  /\ pc \in [Requests -> {"idle"} \cup Pending \cup Done]
  /\ row \in [Requests -> Snapshots \cup {None}]
  /\ context \in [Requests -> Sources \cup {None}]
  /\ answer \in [Requests -> Statuses \cup {None}]
  /\ note \in [Requests -> Notes \cup {None}]
  /\ counts \in [Requests -> Counts]
  /\ wire \in [Requests -> {"none", "sent", "accepted", "refused", "dropped"}]
  /\ headers \in [Requests -> [source : Sources, signal : Signals] \cup {None}]
  /\ up \in BOOLEAN
  /\ auditFault \subseteq Requests
  /\ seen \in [Requests -> SUBSET Sightings]
  /\ changes \in Nat /\ crashes \in Nat

\* Authorisation.  Whatever the registry does between the reads of a request, a batch
\* is sent to the Collector only if, at one moment while the request was open, its key
\* was registered, active, unexpired and its source active all at once, and the route was
\* not disabled at some moment too; its headers then name the owner of that key.
ForwardAuthorised ==
  \A r \in Requests :
    wire[r] # "none" =>
      /\ {"authentic", "route_open"} \subseteq seen[r]
      /\ headers[r] = [source |-> Owner[ask[r].key], signal |-> ask[r].signal]

\* Certainty.  A client told 202 may drop its batch and one told 400, 401, 403, 415 or 500
\* may send it again: the Collector kept the first and was never sent the second, late
\* deliveries included.  Only a 502 leaves the client in doubt.  The audit row makes the
\* same claim, even when the process crashes before it answers.
ResultMatchesDelivery ==
  \A r \in Requests :
    /\ pc[r] = "answered" =>
         /\ answer[r] = 202 => wire[r] = "accepted"
         /\ answer[r] \notin {202, 502} => wire[r] = "none"
    /\ \A i \in 1..Len(audit[r]) :
         /\ audit[r][i].result = "allowed" => wire[r] = "accepted"
         /\ audit[r][i].result = "denied" => wire[r] = "none"

\* The result, source and reason an audit row must have beside each answer.
RowFits(r, n) ==
  LET owner == IF ask[r].key = NoKey THEN None ELSE Owner[ask[r].key] IN
  CASE answer[r] = 202 -> n = [result |-> "allowed", source |-> owner, reason |-> None]
    [] answer[r] = 400 -> n = [result |-> "denied", source |-> owner, reason |-> "empty_body"]
    [] answer[r] = 403 -> n = [result |-> "denied", source |-> owner, reason |-> "route_disabled"]
    [] answer[r] = 401 -> /\ n.result = "denied" /\ n.source = None
                          /\ n.reason \in Reasons \ {"empty_body", "route_disabled"}
    [] answer[r] = 502 -> n.result = "failed" /\ n.source = owner /\ n.reason \in Causes
    [] OTHER           -> FALSE

\* Audit trail.  No request ever leaves two rows, crash or not; an answered request left
\* the one row that agrees with its answer, unless its insert was rejected or the answer
\* is one that is never audited (415 before the preHandler, 500 on a failed read).
AuditTrail ==
  \A r \in Requests :
    /\ Len(audit[r]) <= 1
    /\ \A i \in 1..Len(audit[r]) : RowFits(r, audit[r][i])
    /\ pc[r] = "answered" /\ answer[r] \notin {415, 500} =>
         audit[r] # <<>> \/ r \in auditFault

\* Denials are justified.  The reason given for a refusal was true at some moment while
\* the request was open: no interleaving of registry changes makes Ophir refuse a request
\* for a reason that never held.
DenialJustified ==
  \A r \in Requests :
    note[r] # None /\ note[r].result = "denied" => note[r].reason \in seen[r]

\* Counters.  Once a request is answered it was counted once as received if it
\* authenticated, once as rejected if it was refused, once as a forward failure if it
\* was answered 502, and in no other way.
CountersAgree ==
  \A r \in Requests : pc[r] = "answered" =>
    /\ answer[r] # 500 => counts[r].requests = IF answer[r] \in {401, 415} THEN 0 ELSE 1
    /\ counts[r].rejected = IF answer[r] \in {400, 401, 403} THEN 1 ELSE 0
    /\ counts[r].failures = IF answer[r] = 502 THEN 1 ELSE 0

\* Progress.  Every request taken is answered, unless the process crashes: a Collector
\* that never replies cannot hold one open, because the abort timer ends the wait.
EveryRequestEnds == \A r \in Requests : pc[r] \in Pending ~> pc[r] \in Done
=============================================================================
