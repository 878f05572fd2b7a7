# Ophir, verified

TLA+ models of Ophir, the observability hub whose source is under `src/`: the
control plane that registers the applications allowed to send telemetry, and the
proxy that checks their keys and forwards what they send to an OpenTelemetry
Collector. Each module is written from the code; `PROJECT.json` names, for every
definition, the lines it stands for. TLC checks small instances of every module
with a specification; TLAPS proves the safety properties of all of them for any
instance.

    tlc -workers 2 -config IngestionRegistry.cfg MCIngestion.tla
    tlapm IngestionProofs.tla

## 1. The system

One Node process (several may share a database) serves HTTP with Fastify, keeps
its state in PostgreSQL and talks to the Collector over HTTP. The program has no
lock and no transaction other than the migrations': it is a set of asynchronous
handlers that may interleave at every `await`, and each SQL statement commits by
itself.

| Component | Source | State | Operations | Modules |
| --- | --- | --- | --- | --- |
| Ingestion proxy | `http/hooks/source-auth-hook.ts`, `http/routes/otel-proxy.routes.ts`, `telemetry/otel-proxy.service.ts`, `telemetry/routing-policy.service.ts` | what each request in flight has read and decided | `POST /otel/v1/{logs,traces,metrics}` | `Ingestion`, `IngestionGateway`, `TelemetryGateway` |
| Source registry | `sources/*`, `http/routes/sources.routes.ts` | sources, credentials, routes | create and patch a source, issue a key | `SourceRegistry`, `RegistryOfSources`, `Registry` |
| Admin access | `auth/*`, `http/hooks/admin-auth-hook.ts`, `http/routes/auth.routes.ts` | accounts, sessions, tokens | login, the admin preHandler, `createAdmin` | `AdminAccess` |
| Audit trail | `audit/*` | `audit_events`, append only | one row per decision | in each of the three above |
| Redaction | `telemetry/redaction-policy.service.ts`, `audit/audit.service.ts` | none but the row written | `redactObject`, `recordAuditEvent` | `Redaction` |
| Health probes | `integrations/integration-health.service.ts`, `integration.repository.ts` | a row per integration, a log of checks, the interval timer | probe run | `IntegrationHealth` |
| Start | `docker-entrypoint.sh`, `db/migrate.ts`, `main.ts`, `integrations/dashboard-link.service.ts` | `schema_migrations`, bootstrap admin, default integrations and links | migrate, bootstrap, seed, listen | `Startup` |
| Lifecycle | `main.ts`, `observability/instrumentation.ts`, `http/routes/health.routes.ts`, the two entry points | signal handlers, shutdowns in progress, the supervisor of the all-in-one image | signal, close, end the pool, exit; readiness | `Lifecycle` |
| Database client | `db/client.ts` | the pool: connections taken, the line before it | `query`, `pingDatabase`, `closePool` | `ConnectionPool` |
| Metrics | `observability/metrics.ts` | counters | `add` | in `Ingestion` |
| Configuration, schemas, serializers, logging, deployment | | none the program reads back | | not modelled |

How they interact: the admin handlers change, under the feet of the ingestion
handlers, the rows these read. `Registry` is what the two agree on: `Ingestion` takes
its steps as its environment, and `SourceRegistry` is shown to take no other
(`KeepsRegistry`, by the mapping of `RegistryOfSources`), so what is checked and proved
of ingestion holds of an Ophir whose registry is changed by this API. Every handler
writes one audit row before it replies; the admin preHandler of `AdminAccess` stands
before each request of `SourceRegistry`; `Startup` leaves the tables and the timer that
`IntegrationHealth` begins with. All statements of a process go through the one pool
of `ConnectionPool`, which `Lifecycle` ends at a shutdown while requests, late pings,
unawaited updates and probes may still hold connections or wait for them.

What makes each component correct, and hard:

* **Ingestion.** No batch reaches the Collector unless its key, the source and the
  route allowed it. But the credential, the expiry and the route are looked at in
  three different moments, and an operator may change them in between. The reply,
  the audit row and the counters must agree with what became of the batch, while
  the abort timer races the Collector, connections break, audit inserts are
  rejected and the process crashes.
* **Source registry.** Check-then-insert and four separate inserts for one creation;
  concurrent patches of one source.
* **Admin access.** The account is read before a slow hash and used after it; session
  and account are read apart; the database may fail anywhere.
* **Health probes.** Runs overlap; status and log are separate statements.
* **Start.** Several instances migrate and seed one database with no lock, and what a dead
  one had sent may be carried out after it started again.
* **Lifecycle.** A signal may come at any moment, twice, to a process whose handlers are not
  all registered, and to a shell that waits for it; a shutdown must not cut a request, wait for a statement that
  nobody will ever serve, or end what another shutdown is ending.
* **Redaction.** Sharing, cycles and depth decide what is masked, written or lost.

`PROJECT.json` lists these hazards one by one, each at its line, with the
properties that watch it.

## 2. How the code is modelled

*Grain.* An action is the code between two awaits, one SQL statement as PostgreSQL
executes it, or one step of the outside world (Collector, clock, operator, crash).
JavaScript runs a piece between awaits without interruption; PostgreSQL gives each
statement one snapshot under READ COMMITTED. The one statement split in two is
`INSERT ... SELECT ... WHERE NOT EXISTS` (`Startup!SnapshotLinks`,
`Startup!InsertLink`), whose snapshot and insert are not one atomic step.

*Rejected statements.* A statement may be done, rejected, or done although the
client saw a rejection (the answer was lost). `AuditFails`, `StatementFails`,
`LoginFails`, `StoreFails`, `MigrationFails` and so on are what the code does then.

*Crashes.* A crash ends every handler of the process; what was already sent to
PostgreSQL is then done or not, and it may be done later, after a restart too.
`SourceRegistry`, `AdminAccess` and `IntegrationHealth` mark the cut handlers and let
PostgreSQL finish (`Abandon`). In `Startup` an instance that crashed or met an error may start
again at once, so the write it no longer waits for goes to `left` (`Leave`), from which
PostgreSQL carries it out at any time (`Finish`). `Ingestion` decides in the crash step: what
an ingestion handler writes, an audit row and a time stamp, is read by no handler, so the
moment makes no difference.

*History.* `seen`, `auditFault`, `setBy`, `faulted`, `fresh`, `healthyAt`, `effects`,
`brokenOff`, `heard`, `hurried`, `lost` and `rejected` record what happened for the properties to speak of; no action's guard reads them.
`Ingestion!Facts` is re-evaluated at every registry change while a request is open,
so `seen[r]` is all that was ever true of it in between.

*Data.* Keys, sources, signals, patch columns and values are model values; an HTTP
body is a payload, empty or unparsable; time is a flag per key (its expiry passed)
or a small counter (probe stamps). Status codes are kept. In `Redaction` metadata is a
graph of objects and arrays and a key a sequence of fragments and separators.

*Mutants.* An operator whose comment begins with "Mutant:" is the definition after it (or a
later one of the same shape) with a plausible bug: a dropped check, a missing constraint,
a statement not awaited. Nothing uses it; put in the place of the definition that
`PROJECT.json` names, it makes TLC find the property it is listed for violated, which
shows that the property depends on that code.

### Correspondence

* `Ingestion`: `pc[r]` is where the handler is. `Receive` is Fastify's body parsing and
  the preHandler up to its first await; `LookupCredential` the SELECT; `Verify` the rest
  of the preHandler and, no await between, the start of the handler; `ResolveRoute` the
  routes SELECT, the policy and the start of the fetch; `Forward...` the ways the fetch
  ends; `InsertAudit`/`AuditFails` `recordAuditEvent`; `Respond` the reply. `wire[r]` is
  the exchange with the Collector, which goes on after the client of it gave up.
* `TelemetryGateway` is the promise without handlers: a request is open until one
  reply; a batch is passed on only if its key was good at some moment while it was
  open; `ok` means kept, `refused` means never passed on, `doubt` (502) says nothing.
  `IngestionGateway` gives the refinement mapping.
* `Registry` has the rows of the registry and the steps that change them: a status, a
  new key, an expiry, a route. `Ingestion` extends it; its `RegistryChanges` is any step of it.
* `SourceRegistry`: the registry starts with some sources (`Existing`), as earlier requests
  left them; `ask[r]` is the parsed request; `check, insert, seed, audit, reply`
  the statements of a creation, `update` and `find, issue` those of the others.
  `RegistryOfSources` reads its tables as those of `Registry`. `setBy` lists the patches that
  wrote each column: a patch is audited only if it is in the list of every column it asked for.
* `AdminAccess`: a request is a login (with a right or wrong password), or a view with a
  token. A token is named by the login that issued it; `Forged` is any other string.
* `IntegrationHealth`: a run `s` probes all integrations at once; `stage[s][i]` goes
  through probe, stamp, status update and check insert.
* `Startup`: `pc[i]` is where instance `i` is, `next[i]` the file, integration or link it
  is at. Whether there is to be a bootstrap admin (`Bootstraps`), whether probes are enabled
  (`Probes`) and whether an instance migrates first are the configuration. `left` holds the
  writes PostgreSQL still has for an instance that no longer waits for them.
* `ConnectionPool`: `Query` is `pool.query()` up to the return of its promise, `Settle` an
  answer of PostgreSQL, which frees the connection for the next in line.
* `Lifecycle`: `main` is how far the process is (`preload` is `instrumentation.ts`, `bound` the
  time between `listen` and the signal handlers), `handlers[s]` who would take signal `s`,
  `shutdown[s]` how far the shutdown is that it started; `entry` chooses between
  `docker-entrypoint.sh` (Ophir is PID 1) and `allinone-entrypoint.sh` (the shell is, and
  supervises). The shell's trap stays set while it waits for its children (`TearDown`), so a
  second signal makes it leave at once (the last disjunct of `Signal`), and the end of PID 1
  kills what still runs (`ShellEnds`). A handler of a request is its statements: `lookup, touch, audit` of a batch,
  `ping, list` of `GET /health/ready`.
* `Redaction`: `heap` is the metadata, `redactObject[depth][value]` the recursive function,
  `Visit` the levels that `JSON.stringify` visits, `Stringify` what it makes of them, nothing
  if the copy contains itself. The properties speak of paths: what masks the way to a value,
  and which word a key spells.

## 3. Runs

| Run | Instance | Shows |
| --- | --- | --- |
| `IngestionRegistry` | 1 request, 1 key, 3 registry changes, 1 crash | the safety properties, every request ends, refinement of `TelemetryGateway` |
| `IngestionPair` | 2 requests, 2 keys of 2 sources, 1 crash | what is forwarded rests on the request's own key and source |
| `SourceRegistry` | 2 requests, an existing source and a free slug, 1 crash | racing creations and patches; replies and audit rows tell what was written in full; refinement of `Registry` |
| `AdminAccess` | 2 requests, 1 admin, 3 changes, 1 crash | access, sessions, denials and their audit |
| `IntegrationHealthOverlap` | 2 overlapping runs, 3 clock values, 1 crash | rows that do not contradict themselves; a run that is alone shows what it met |
| `IntegrationHealthConverges` | 2 overlapping runs, 1 crash, fair timer | the shown status converges |
| `Startup` | 2 instances that migrate or not, 1 crash, 1 write left to PostgreSQL, 2 migrations, 1 integration, 1 link, fair | migrations once, in order; ready when listening; restarts add no link; each listens in the end |
| `Lifecycle` | 1 batch, 1 check, 1 probe, 1 connection, 2 signals, both entry points, fair | the pool, what can cut a request or a statement, readiness, requests end, the container stops |
| `Redaction` | every graph of 3 nodes, depth limit 1 | the row is the metadata with exactly what is sensitive masked down to the limit |
| `ClaimSourcesHaveRoutes`, `ClaimLinksSeededOnce`, `ClaimAskedToStopStops` | see below | end with a counterexample |

*Why the bounds are enough.* The handlers of two requests share only the registry,
which the code never changes from an ingestion handler: one request against three
changes covers a change in each gap between its reads (lookup, check, route), and two
requests with no changes cover what they share in the process. In `SourceRegistry`
every race is one of two requests, for a free slug or over the source that exists
(two creations, two patches, a patch and a key). A crash can strike anywhere, and what
a second one could cut is again a single statement. In `Startup` an instance also stops
and starts again whenever a migration fails, with no bound, so one crash is enough for
the rest, and one write left over is one that any instance may look too early for; two of
them add nothing but one more row each. Two runs in progress are all an overlap of probes needs. In `Lifecycle` one
connection and three who want it make every statement wait for every other, and two signals
are the two shutdowns that can be started, since each handler is registered once, or, for the
all-in-one shell, the one that makes it tear down and the one that comes while it does. In
`Redaction` three nodes are a root, what it contains and what that does, with every loop and
sharing among them; the limit of one puts the third below it. The theorems of section 4
remove the bounds for the safety properties. Symmetry is declared
only for sets whose members are interchangeable, and never in a run with liveness.
Runs whose requests are finitely many end, so they do not check for deadlock.

*Fairness.* `Ingestion`: weak fairness of each handler's own steps: the event loop runs,
the abort timer fires and PostgreSQL answers or rejects each statement. Nothing is
assumed of the Collector, the network, clients, operators or a restart. `IntegrationHealth`:
the interval timer fires and statements are answered, and not all rejected for ever.
`Startup`: an instance's own steps are weakly fair, its restart policy included, and the
steps of each migration are strongly fair, that is, PostgreSQL does not reject for ever
what it could do; without that a migration could fail on every start. `Lifecycle`: the
process goes on, and PostgreSQL answers or rejects each statement it has; nobody has to
send requests or signals, and the ping's timer need not win.

### Where the code and its documents differ

Each of these is a run that TLC ends with a counterexample; `findings` quotes the line.

| Run | What the documents say | What the code does |
| --- | --- | --- |
| `ClaimSourcesHaveRoutes` | each source has routes for all signals | a failure between the inserts leaves some missing for good |
| `ClaimLinksSeededOnce` | links are seeded if none exist yet | two instances that start together seed them twice |
| `ClaimAskedToStopStops` | as PID 1 Node receives SIGTERM for graceful shutdown | a SIGTERM before main handles signals is swallowed |

A restart by itself adds no link: there is at most one for each instance and one for each insert
that PostgreSQL still had for a start that was cut off (`RestartsAddNoLinks`). Once main handles
signals a request to stop always ends the process (`StopsWhenAsked`).

Some more of the same, which the properties of the passing runs already allow for and
which have no run of their own: a denial whose audit insert is rejected is answered and
logged but not audited (README.md:416; `AuditTrail` and `AdminAuditTrail` except it); an
account disabled while its password is being verified gets a session (data-model.md:45;
`SessionsEarned` speaks of a moment while the request was open), although
`getActiveAdminFromToken` will not let it use one; a probe run that overlaps another may
leave an older result shown until the next (spec.md:54; `ShownAfterCheck` is for runs that
do not overlap, `StatusConverges` for the end of it); a 502 after the timer aborts a forward
may be given for a batch the Collector took (the reply `doubt` of `TelemetryGateway`); a
batch may be forwarded for a source disabled after its key was looked up; requests rejected
by the preHandler are never counted as received (`CountersAgree` says exactly which are); a
database error denies a valid admin token as `invalid_token` (`DenialsJustified` excepts
the requests that met one); a second signal to the all-in-one shell while it waits for Ophir
to close kills Ophir with its requests (allinone-entrypoint.sh:55; `GracefulShutdown` names it as
the one kill there is once Ophir handles signals); the integrations never decide readiness
(contracts/openapi.yaml:31 has "database and required integrations", README.md:96 and
health.routes.ts:36 the code's way; `ReadinessIsThePing`); sensitive keys below the depth limit
are written as they are (README.md:417 "redacted from anything Ophir stores", data-model.md:247,
redaction-policy.service.ts:42 "Safe for arbitrary nested objects/arrays"; `RowIsRedactedCopy`); and
metadata that contains itself costs the audit row (redaction-policy.service.ts:42 "cycles are
bounded by depth", README.md:416; `LoopsCostTheRow`). The last two concern callers to come: the
metadata that the code passes to the audit trail today is flat.

## 4. Proofs

Every theorem is of the whole specification (`SensitiveKeysAreSpelled` of an operator), for
any sets of requests, sources, keys, admins, instances, runs, statements, signals and objects
and any bounds, from the named assumptions of the module (null values are no members, bounds
are naturals, each key has an owner, migrations have different names, instances and objects
are finitely many, keys are strings and sensitive words contain no separator). Each is proved
from an inductive invariant; the properties themselves are not inductive.

| Module | Theorems (`Spec => []P`) | Invariant, and why it is needed |
| --- | --- | --- |
| `IngestionProofs` | `TypeCorrect`, `Authorisation` (`ForwardAuthorised`), `RepliesAreCertain` (`ResultMatchesDelivery`), `AuditTrailIsKept`, `DenialsAreJustified`, `CountersAreRight` | `Stage(r)`: what each stage of a handler can rely on. `Entitled`: what was seen. `Told(r)`: the row read was seen, one reply is decided together with its audit row, and each is counted once |
| `IngestionGatewayProofs` | `KeepsThePromiseSafely` | the above, and that an idle request has shown nothing |
| `SourceRegistryProofs` | `TypeCorrect`, `SlugsAreUnique`, `CreationRepliesHold`, `NoUpdateIsLost`, `AuditIsTrue`, `KeepsTheRegistry` | `Operations`: labels fit the request. `Handlers`: what a creation that is so far has inserted. `Latest`: each column is that of the last patch that set it; what a patch wrote stays in `setBy` |
| `AdminAccessProofs` | `TypeCorrect`, `AccessIsJustified`, `SessionsAreEarned`, `DenialsAreJustified`, `AdminAuditIsTrue` | `Observed(r)`, `Decided(r)`: what is true now was seen, and what was decided was seen to be so |
| `StartupProofs` | `TypeCorrect`, `MigrationsRunOnce`, `OneAdmin`, `ReadyInstances`, `RestartsAddNone` | `Progress(i)`: what an instance that is so far has found or done, which no other undoes. `LeftInOrder`: what comes before a migration that PostgreSQL still has is applied. `Bounded(t)`: the copies of a link, the inserts of it still with PostgreSQL and the instances that do not see it are no more than the instances and the inserts ever cut off |
| `LifecycleProofs` | `TypeCorrect`, `ShutdownIsGraceful`, `ShutdownLetsStatementsFinish`, `PoolIsCoherent`, `ReadyMeansPinged` | `Ended`: the pool is ended by one shutdown, once the server is closed. `Armed`: when the all-in-one shell stops a serving Ophir for the first time, Ophir handles that signal, so it does not die of it. `PoolInv`: nothing runs and waits at once. `Asks(r)`: a handler asks for each statement once |
| `IntegrationHealthProofs` | `TypeCorrect`, `RowsAreCoherent`, `ChecksShow` | `Holds(s, i)`: an outcome and a time are there before they are stored. `Shows(s, i)`: nobody else is busy with the integration of a run that is alone |
| `RedactionProofs` | `RowsAreRedactedCopies`, `RowsAreLostOnlyToLoops`, `LoopsCostTheRow`, `SensitiveKeysAreSpelled` | `Corresponds(n)`: level n of the copy is level n of the metadata with what is masked cut out. `IInv`: a row is the copy, and is missing only if the copy is cyclic |

Two arguments carry the proofs about ingestion and access. The registry (or the accounts)
changes under the handler, so no condition it checked still holds when it acts; but a row
that was read was a snapshot of several facts at one moment, while the request was open,
and `seen`, which records what was ever true of it, only grows. So from "the row says
active" follows "it was active at a moment of this request", and for conditions that once
broken stay broken (an expired key) that they held together at that moment. The other: most
actions touch one request, so a lemma (`OneStage`, `UntouchedTold`, `RestsDecided`,
`OthersAsk`) reduces each case to that request.

`RedactionProofs` is about a program that recurs over data of any shape, so it begins with
induction: the least number principle (`LeastMember`, from the well-foundedness of `<`) gives
induction up to a bound (`InductionTo`). With it the recursive functions `redactObject`, `Visit`
and `normalizeKey` are shown to exist, and so to be what their definitions say. Then

* a normalised key is the key's other characters in their order (`NormalizedPlaces`), so a
  word is found in it if and only if the key spells it with separators only in between;
* by induction over levels, the values of the copy are those of the metadata that nothing
  masks the way to, each replaced by its copy (`CopyCorresponds`); as a masked value is
  written "[REDACTED]" and any other shows its own keys, the row is the one asked for;
* a copy still branching below `MaxDepth + 1 + Cardinality(Nodes)` levels has more values on
  the way down than there are nodes, so it came to one twice (`CyclesAreLoops`, by the
  pigeonhole principle); and a loop found once can be gone round for ever, because a key
  that does not mask where it first stands does not mask further down (`LoopsAreCycles`).

`KeepsThePromiseSafely` is the refinement `Ingestion` => `TelemetryGateway` without its
fairness: first states map to first states and each step to a step or a stutter. With the
fairness it is `KeepsThePromise`, which TLC checks. `KeepsTheRegistry` is the whole of the
refinement `KeepsRegistry`, as `Registry` has no fairness: so `Authorisation` and the rest hold of
ingestion under this API, with any number of admins, rejected statements and crashes.

Only model-checked: the liveness properties `EveryRequestEnds`, `EventuallyListening`,
`StatusConverges`, `RequestsEnd`, `StopsWhenAsked` and the fairness part of
`KeepsThePromise` (fairness and ENABLED are out of the prover's reach), and the three claims
that have a counterexample. Only proved: `RowsAreLostOnlyToLoops`, `LoopsCostTheRow` and
`SensitiveKeysAreSpelled`.

## 5. What is not modelled

* Configuration (`config/env.ts`): parsed once at start; limits and switches are constants or
  free choices (`MaxConnections`, `Probes`, `Bootstraps`, whether the SDK is started).
* Validation of bodies (a request is valid, or `invalid` with a 400), serializers, formatting of
  replies, link templates, the request id, CORS, logging, tracing and latency histograms: no state
  the program reads back. `GET` endpoints other than readiness are single reads.
* The composition of the admin preHandler with the handlers of `SourceRegistry`: they share
  nothing but the admin's id, which goes to the audit row, and the preHandler is over before
  the handler begins.
* Functions nobody calls: `withTransaction`, `loadEnabledRedactionRules`, the function that cancels the
  probe scheduler.
* The all-in-one stack ending before Ophir is started; the programs of the stack and the
  Collector other than as an environment that may take, refuse or not answer a batch.
* The upper and lower case of keys in `Redaction`. Cascades of foreign keys, since the program deletes
  nothing.

## 6. Plan

What the project could still grow by:

1. `DashboardLinks`: the template of a link resolved by successive replacements, against one
   replacement of all at once; they agree as long as no environment contains a placeholder (a slug cannot).
2. Liveness of `SourceRegistry` and `AdminAccess`: each request is answered under the fairness
   that `Ingestion` assumes of its own handlers.
3. `ConnectionPool` under `Ingestion`: a handler that waits in line between its reads lengthens
   the time in which the registry may change; the properties do not depend on that time,
   which is why the pool is checked apart.
