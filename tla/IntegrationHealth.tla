--------------------------- MODULE IntegrationHealth ---------------------------
(***************************************************************************)
(* The health probes of the telemetry integrations.  A timer starts a run  *)
(* at a fixed interval whether or not the previous one is over; a run      *)
(* probes every integration at once and, for each, stamps the outcome,     *)
(* updates the integration's row and appends a health check.  Runs may     *)
(* overlap, within a process when an interval is shorter than a run and    *)
(* between processes on one database.                                      *)
(***************************************************************************)
EXTENDS Naturals

CONSTANTS Integrations,
          Runs,        \* slots for the runs in progress: a bound on their overlap, for TLC
          None,
          MaxClock,    \* bound on the clock, for TLC: it stays at this value
          MaxCrashes   \* bound on process crashes, for TLC

ASSUME BoundAssumption == MaxClock \in Nat /\ MaxCrashes \in Nat
ASSUME NullAssumption == None \notin Nat

VARIABLES
  service,   \* what a probe of each integration meets: 2xx, another status, nothing
  row,       \* telemetry_integrations: status, last_checked_at, last_success_at, last_error
  lastCheck, \* the status of the last row of integration_health_checks
  up, timer, \* is the process running; is the interval set
  stage,     \* where each run is with each integration
  result,    \* the outcome of its probe
  stamp,     \* the time it took after the probe
  cut,       \* the run-integration pairs whose process crashed
  clock,
  fresh,     \* history: since the run began the service is the same and no other run is on
  healthyAt, \* history: stamps of the healthy outcomes stored
  crashes

stored  == <<row, lastCheck, healthyAt>>
probing == <<stage, result, stamp>>
vars == <<service, stored, up, timer, probing, cut, clock, fresh, crashes>>

Statuses == {"healthy", "degraded", "unavailable"}
Stages   == {"idle", "probe", "answered", "update", "insert", "done", "failed"}
Over     == {"idle", "done", "failed"}
Times    == 0..MaxClock

\* Mutant: the outcome of the fetch is stored as the status.
RawOutcome(x) == x

\* probeIntegration: a 2xx, any other status, or no answer before the abort
Verdict(x) ==
  CASE x = "ok"     -> "healthy"
    [] x = "error"  -> "degraded"
    [] x = "silent" -> "unavailable"

Init ==
  /\ service \in [Integrations -> {"ok", "error", "silent"}]
  /\ row = [i \in Integrations |->
             [status |-> "unknown", checked |-> None, success |-> None, error |-> FALSE]]
  /\ lastCheck = [i \in Integrations |-> None]
  /\ up = FALSE /\ timer = FALSE
  /\ stage = [s \in Runs |-> [i \in Integrations |-> "idle"]]
  /\ result = [s \in Runs |-> [i \in Integrations |-> None]]
  /\ stamp = [s \in Runs |-> [i \in Integrations |-> None]]
  /\ cut = {}
  /\ clock = 0
  /\ fresh = [s \in Runs |-> [i \in Integrations |-> FALSE]]
  /\ healthyAt = [i \in Integrations |-> {}]
  /\ crashes = 0

At(s, i, label)   == up /\ <<s, i>> \notin cut /\ stage[s][i] = label
GoTo(s, i, label) == stage' = [stage EXCEPT ![s][i] = label]

\* The callback of an integration is over; its variables are gone.
Finish(s, i, label) ==
  /\ GoTo(s, i, label)
  /\ result' = [result EXCEPT ![s][i] = None]
  /\ stamp' = [stamp EXCEPT ![s][i] = None]

\* seedDefaultIntegrations keeps the status of rows that exist; the timer is set only if
\* the whole seeding succeeds and the probes are enabled.
Boot ==
  /\ ~up /\ up' = TRUE
  /\ timer' \in BOOLEAN
  /\ UNCHANGED <<service, stored, probing, cut, clock, fresh, crashes>>

\* Mutant: a run leaves out the integrations that have a status.
DueOnce(s) == timer /\ \A i \in Integrations : row[i].status = "unknown"

Due(s) == timer

\* No run, of this process or left by a crashed one, is busy with the integration.
Quiet(i) == \A t \in Runs : stage[t][i] \in Over

\* A tick: listIntegrations, then every probe is started.
StartRun(s) ==
  /\ up /\ Due(s)
  /\ \A i \in Integrations : stage[s][i] \in Over
  /\ stage' = [stage EXCEPT ![s] = [i \in Integrations |-> "probe"]]
  /\ fresh' = [t \in Runs |-> [i \in Integrations |-> t = s /\ Quiet(i)]]
  /\ UNCHANGED <<service, stored, up, timer, result, stamp, cut, clock, crashes>>

\* The integration answers, or the abort ends the wait.
ProbeEnds(s, i) ==
  /\ At(s, i, "probe")
  /\ result' = [result EXCEPT ![s][i] = Verdict(service[i])]
  /\ GoTo(s, i, "answered")
  /\ UNCHANGED <<service, stored, up, timer, stamp, cut, clock, fresh, crashes>>

\* The run resumes, takes the time and sends its UPDATE.
Stamp(s, i) ==
  /\ At(s, i, "answered")
  /\ stamp' = [stamp EXCEPT ![s][i] = clock]
  /\ GoTo(s, i, "update")
  /\ UNCHANGED <<service, stored, up, timer, result, cut, clock, fresh, crashes>>

\* Mutant: last_success_at is set to what is given, NULL unless healthy.
NewSuccessOnly(old, new) == new

\* COALESCE($4, last_success_at)
Coalesce(old, new) == IF new = None THEN old ELSE new

\* Mutant: the UPDATE sets the status of a row that has none yet.
FirstStatus(i, status, at) ==
  [status |-> IF row[i].status = "unknown" THEN status ELSE row[i].status, checked |-> at,
   success |-> Coalesce(row[i].success, IF status = "healthy" THEN at ELSE None),
   error |-> status # "healthy"]

UpdatedRow(i, status, at) ==
  [status |-> status, checked |-> at,
   success |-> Coalesce(row[i].success, IF status = "healthy" THEN at ELSE None),
   error |-> status # "healthy"]

StoreStatus(s, i) ==
  /\ row' = [row EXCEPT ![i] = UpdatedRow(i, result[s][i], stamp[s][i])]
  /\ healthyAt' = IF result[s][i] = "healthy"
                  THEN [healthyAt EXCEPT ![i] = @ \cup {stamp[s][i]}] ELSE healthyAt
  /\ UNCHANGED lastCheck

UpdateStatus(s, i) ==
  /\ At(s, i, "update")
  /\ StoreStatus(s, i)
  /\ GoTo(s, i, "insert")
  /\ UNCHANGED <<service, up, timer, result, stamp, cut, clock, fresh, crashes>>

StoreCheck(s, i) ==
  lastCheck' = [lastCheck EXCEPT ![i] = result[s][i]] /\ UNCHANGED <<row, healthyAt>>

InsertCheck(s, i) ==
  /\ At(s, i, "insert")
  /\ StoreCheck(s, i)
  /\ Finish(s, i, "done")
  /\ UNCHANGED <<service, up, timer, cut, clock, fresh, crashes>>

\* What a statement whose outcome is not learnt may have done all the same.
Unacknowledged(s, i) ==
  \/ UNCHANGED stored
  \/ stage[s][i] = "update" /\ StoreStatus(s, i)
  \/ stage[s][i] = "insert" /\ StoreCheck(s, i)

\* A rejected statement ends the run for this integration and for no other.
StoreFails(s, i) ==
  /\ At(s, i, "update") \/ At(s, i, "insert")
  /\ Unacknowledged(s, i)
  /\ Finish(s, i, "failed")
  /\ UNCHANGED <<service, up, timer, cut, clock, fresh, crashes>>

\* External: an integration fails, answers otherwise or recovers.
ServiceChanges(i) ==
  /\ \E x \in {"ok", "error", "silent"} \ {service[i]} : service' = [service EXCEPT ![i] = x]
  /\ fresh' = [s \in Runs |-> [fresh[s] EXCEPT ![i] = FALSE]]
  /\ UNCHANGED <<stored, up, timer, probing, cut, clock, crashes>>

Tick ==
  /\ clock < MaxClock /\ clock' = clock + 1
  /\ UNCHANGED <<service, stored, up, timer, probing, cut, fresh, crashes>>

Crash ==
  /\ up /\ crashes < MaxCrashes
  /\ up' = FALSE /\ timer' = FALSE /\ crashes' = crashes + 1
  /\ cut' = cut \cup {p \in Runs \X Integrations : stage[p[1]][p[2]] \notin Over}
  /\ UNCHANGED <<service, stored, probing, clock, fresh>>

\* PostgreSQL carries out the statement a dead run had sent, or never got it.
Abandon(s, i) ==
  /\ <<s, i>> \in cut
  /\ cut' = cut \ {<<s, i>>}
  /\ Unacknowledged(s, i)
  /\ Finish(s, i, "failed")
  /\ UNCHANGED <<service, up, timer, clock, fresh, crashes>>

Handle(s, i) ==
  ProbeEnds(s, i) \/ Stamp(s, i) \/ UpdateStatus(s, i) \/ InsertCheck(s, i) \/ StoreFails(s, i)

Next ==
  \/ Boot \/ Tick \/ Crash
  \/ \E s \in Runs : StartRun(s)
  \/ \E s \in Runs, i \in Integrations : Handle(s, i) \/ Abandon(s, i)
  \/ \E i \in Integrations : ServiceChanges(i)

\* The interval keeps firing, the abort ends each probe, and PostgreSQL, which may reject
\* any statement, does not reject the update of one integration for ever.
Fairness ==
  /\ \A s \in Runs : WF_vars(StartRun(s))
  /\ \A s \in Runs, i \in Integrations :
       WF_vars(Handle(s, i)) /\ WF_vars(Abandon(s, i)) /\ SF_vars(UpdateStatus(s, i))

Spec == Init /\ [][Next]_vars /\ Fairness

-----------------------------------------------------------------------------
(* Properties *)

\* Every variable keeps its shape.
TypeOK ==
  /\ service \in [Integrations -> {"ok", "error", "silent"}]
  /\ row \in [Integrations -> [status : Statuses \cup {"unknown"}, checked : Times \cup {None},
                               success : Times \cup {None}, error : BOOLEAN]]
  /\ lastCheck \in [Integrations -> Statuses \cup {None}]
  /\ up \in BOOLEAN /\ timer \in BOOLEAN
  /\ stage \in [Runs -> [Integrations -> Stages]]
  /\ result \in [Runs -> [Integrations -> Statuses \cup {None}]]
  /\ stamp \in [Runs -> [Integrations -> Times \cup {None}]]
  /\ cut \subseteq Runs \X Integrations
  /\ clock \in Times
  /\ fresh \in [Runs -> [Integrations -> BOOLEAN]]
  /\ healthyAt \in [Integrations -> SUBSET Times]
  /\ crashes \in 0..MaxCrashes

\* The row of an integration never mixes two probes, however runs overlap and whatever is
\* rejected or cut short: a healthy row was checked at its last success and shows no
\* error, any other shows one; and the time of a success outlives later failures.
RowCoherent ==
  \A i \in Integrations :
    /\ row[i].status = "healthy" => row[i].success = row[i].checked /\ ~row[i].error
    /\ row[i].status \in {"degraded", "unavailable"} => row[i].error
    /\ IF healthyAt[i] = {} THEN row[i].success = None ELSE row[i].success \in healthyAt[i]

\* spec.md:54 "Given the destination recovers, When Ophir checks integration health again,
\* Then the admin view shows the destination as healthy".  A run that is done shows what it
\* met, in the row and in the history, although runs before it failed, crashed or stored
\* late, as long as no other run begins before it is over and the service stays the same.
\* (Runs that overlap may leave the older result.)
ShownAfterCheck ==
  \A s \in Runs, i \in Integrations :
    stage[s][i] = "done" /\ fresh[s][i] =>
      row[i].status = Verdict(service[i]) /\ lastCheck[i] = Verdict(service[i])

\* Convergence.  While the timer is set, an integration that stays as it is is in the end
\* shown as it is, and stays so: no overlap, crash, late or rejected statement leaves a
\* stale status for good.
StatusConverges ==
  \A i \in Integrations : \A x \in {"ok", "error", "silent"} :
    <>[](service[i] = x /\ timer) => <>[](row[i].status = Verdict(x))
===============================================================================
