-------------------------------- MODULE Startup --------------------------------
(***************************************************************************)
(* What each instance of Ophir does before it listens: migrate the         *)
(* database (docker-entrypoint.sh, set -e), then in main() create the      *)
(* bootstrap admin, seed the integrations and the dashboard links, and set *)
(* the probe timer.  Instances share one database and start at any time;   *)
(* any statement may be rejected, and an instance may crash anywhere.  The *)
(* container's restart policy starts it again, and PostgreSQL may carry    *)
(* out what an instance sent and no longer waits for at any time after.    *)
(***************************************************************************)
EXTENDS Naturals, Sequences, FiniteSets

CONSTANTS Instances,
          Files,       \* the migrations, in lexical order
          Kinds,       \* the default integrations, in the order of seeding
          Titles,      \* the default dashboard links, in the order of seeding
          Bootstraps,  \* are BOOTSTRAP_ADMIN_EMAIL and BOOTSTRAP_ADMIN_PASSWORD given
          Probes,      \* HEALTH_PROBE_ENABLED
          MaxCrashes,  \* bound on crashes, for TLC
          MaxLeft      \* bound on writes left to PostgreSQL, for TLC

ASSUME FilesAssumption     == /\ Len(Files) \in Nat \ {0}
                              /\ \A m, n \in 1..Len(Files) : Files[m] = Files[n] => m = n
ASSUME SeedsAssumption     == Len(Kinds) \in Nat /\ Len(Titles) \in Nat
ASSUME ConfigAssumption    == Bootstraps \in BOOLEAN /\ Probes \in BOOLEAN
ASSUME InstancesAssumption == IsFiniteSet(Instances)
ASSUME BoundAssumption     == MaxCrashes \in Nat /\ MaxLeft \in Nat

VARIABLES
  applied,      \* schema_migrations
  admin,        \* admin_users: how many rows have the bootstrap email
  integrations, \* telemetry_integrations: the default ones there are
  links,        \* dashboard_links: how many rows each default title has
  migrates,     \* is RUN_MIGRATIONS true for the instance
  pc, next,     \* what each instance does, and the item it is at
  sees,         \* does the statement in progress see a link of its title
  timer,        \* is the instance's probe timer set
  left,         \* the writes PostgreSQL still has for an instance that no longer waits for them
  effects,      \* history: how often the changes of each migration were committed
  faulted,      \* history: instances that met a rejected statement since their start
  brokenOff,    \* history: how many inserts of each link were ever left
  crashes, leaves

database == <<applied, admin, integrations, links>>
process  == <<pc, next, sees, timer>>
pending  == <<left, brokenOff, leaves>>
vars == <<database, migrates, process, pending, effects, faulted, crashes>>

Names(list) == {list[n] : n \in 1..Len(list)}
Labels == {"stopped", "migrate", "apply", "admin", "insertAdmin", "seed", "link", "insertLink",
           "listening"}

Insert(t) == [op |-> "insertLink", item |-> t]
Writes == [op : {"apply"}, item : Names(Files)] \cup [op : {"insertAdmin"}, item : {1}]
            \cup [op : {"seed"}, item : Names(Kinds)] \cup {Insert(t) : t \in Names(Titles)}

Init ==
  /\ applied = {} /\ admin = 0 /\ integrations = {}
  /\ links = [t \in Names(Titles) |-> 0]
  /\ migrates \in [Instances -> BOOLEAN]
  /\ pc = [i \in Instances |-> "stopped"]
  /\ next = [i \in Instances |-> 1]
  /\ sees = [i \in Instances |-> FALSE]
  /\ timer = [i \in Instances |-> FALSE]
  /\ left = [w \in Writes |-> 0]
  /\ brokenOff = [t \in Names(Titles) |-> 0]
  /\ effects = [f \in Names(Files) |-> 0]
  /\ faulted = {}
  /\ crashes = 0 /\ leaves = 0

\* Mutant: the items are counted from zero.
GoToFromZero(i, label, n) ==
  /\ pc' = [pc EXCEPT ![i] = label] /\ next' = [next EXCEPT ![i] = n - 1]
  /\ UNCHANGED migrates

\* The instance goes on with item n of what the label says, under the same configuration.
GoTo(i, label, n) ==
  /\ pc' = [pc EXCEPT ![i] = label] /\ next' = [next EXCEPT ![i] = n]
  /\ UNCHANGED migrates

\* The tables are there: the first migration creates them all.
Schema == Files[1] \in applied

\* What main() begins with
First == IF Bootstraps THEN "admin" ELSE "seed"

Start(i) ==
  /\ pc[i] = "stopped"
  /\ GoTo(i, IF migrates[i] THEN "migrate" ELSE First, 1)
  /\ faulted' = faulted \ {i}
  /\ UNCHANGED <<database, pending, sees, timer, effects, crashes>>

\* Mutant: the last upsert is started and not awaited.
LastUnawaited(n) == n >= Len(Kinds)

IntegrationsSeeded(n) == n > Len(Kinds)

\* Is the statement in progress to write something?  An INSERT that sees its link is not.
Writing(i) ==
  \/ pc[i] \in {"apply", "insertAdmin"}
  \/ pc[i] = "seed" /\ ~IntegrationsSeeded(next[i])
  \/ pc[i] = "insertLink" /\ ~sees[i]

Write(i) ==
  [op   |-> pc[i],
   item |-> CASE pc[i] = "apply"      -> Files[next[i]]
              [] pc[i] = "seed"       -> Kinds[next[i]]
              [] pc[i] = "insertLink" -> Titles[next[i]]
              [] OTHER                -> 1]

\* The instance no longer waits for its statement, for it died or met an error: PostgreSQL
\* never got it or rejected it, or still has it.
Leave(i) ==
  /\ \/ UNCHANGED pending
     \/ /\ Writing(i)
        /\ leaves < MaxLeft /\ leaves' = leaves + 1
        /\ left' = [left EXCEPT ![Write(i)] = @ + 1]
        /\ brokenOff' = [t \in Names(Titles) |->
                          IF Write(i) = Insert(t) THEN brokenOff[t] + 1 ELSE brokenOff[t]]
  /\ UNCHANGED <<database, effects>>

-----------------------------------------------------------------------------
(* runMigrations *)

\* Mutant: what is applied already is not looked up.
NeverSkips(f) == FALSE

Skipped(f) == f \in applied

CheckMigration(i) ==
  /\ pc[i] = "migrate"
  /\ IF next[i] > Len(Files) THEN GoTo(i, First, 1)
     ELSE IF Skipped(Files[next[i]]) THEN GoTo(i, "migrate", next[i] + 1)
     ELSE GoTo(i, "apply", next[i])
  /\ UNCHANGED <<database, pending, sees, timer, effects, faulted, crashes>>

\* Mutant: schema_migrations has no primary key.
NoPrimaryKey(f) == FALSE

Recorded(f) == f \in applied

CommitChanges(f) ==
  /\ ~Recorded(f)
  /\ applied' = applied \cup {f}
  /\ effects' = [effects EXCEPT ![f] = @ + 1]
  /\ UNCHANGED <<admin, integrations, links>>

\* BEGIN, the migration, its row in schema_migrations, COMMIT
CommitMigration(i) ==
  /\ pc[i] = "apply"
  /\ CommitChanges(Files[next[i]])
  /\ GoTo(i, "migrate", next[i] + 1)
  /\ UNCHANGED <<pending, sees, timer, faulted, crashes>>

\* A rejected statement (the row is recorded by another instance, for one) rolls the
\* migration back, or its COMMIT is still with PostgreSQL; the process exits with 1.
MigrationFails(i) ==
  /\ pc[i] \in {"migrate", "apply"}
  /\ Leave(i)
  /\ GoTo(i, "stopped", 1)
  /\ faulted' = faulted \cup {i}
  /\ UNCHANGED <<sees, timer, crashes>>

-----------------------------------------------------------------------------
(* main: createAdmin with the bootstrap email *)

FindAdmin(i) ==
  /\ pc[i] = "admin" /\ Schema
  /\ GoTo(i, IF admin > 0 THEN "seed" ELSE "insertAdmin", 1)
  /\ UNCHANGED <<database, pending, sees, timer, effects, faulted, crashes>>

\* Mutant: admin_users has no UNIQUE (email).
NoUniqueEmail == FALSE

EmailTaken == admin > 0

StoreAdmin == ~EmailTaken /\ admin' = admin + 1 /\ UNCHANGED <<applied, integrations, links>>

\* A lost race for the email is an error like any other, and ignored.
InsertAdmin(i) ==
  /\ pc[i] = "insertAdmin"
  /\ StoreAdmin \/ (EmailTaken /\ UNCHANGED database)
  /\ GoTo(i, "seed", 1)
  /\ UNCHANGED <<pending, sees, timer, effects, faulted, crashes>>

\* Any error of createAdmin is logged as "already exists or was not created".
BootstrapFails(i) ==
  /\ pc[i] \in {"admin", "insertAdmin"}
  /\ Leave(i)
  /\ GoTo(i, "seed", 1)
  /\ faulted' = faulted \cup {i}
  /\ UNCHANGED <<sees, timer, crashes>>

-----------------------------------------------------------------------------
(* main: seedDefaultIntegrations and seedDefaultDashboardLinks *)

StoreIntegration(k) ==
  /\ integrations' = integrations \cup {k}
  /\ UNCHANGED <<applied, admin, links>>

\* upsertIntegration, one after the other
SeedIntegration(i) ==
  /\ pc[i] = "seed" /\ Schema
  /\ IF IntegrationsSeeded(next[i]) THEN GoTo(i, "link", 1) /\ UNCHANGED database
     ELSE StoreIntegration(Kinds[next[i]]) /\ GoTo(i, "seed", next[i] + 1)
  /\ UNCHANGED <<pending, sees, timer, effects, faulted, crashes>>

\* Mutant: the INSERT has no NOT EXISTS.
SeesNothing(t) == FALSE

SeesTitle(t) == links[t] > 0

\* INSERT ... SELECT ... WHERE NOT EXISTS: under READ COMMITTED the statement first takes
\* its snapshot; no unique index stops what another inserts after that.
SnapshotLinks(i) ==
  /\ pc[i] = "link" /\ next[i] <= Len(Titles)
  /\ sees' = [sees EXCEPT ![i] = SeesTitle(Titles[next[i]])]
  /\ GoTo(i, "insertLink", next[i])
  /\ UNCHANGED <<database, pending, timer, effects, faulted, crashes>>

StoreLink(t, seen) ==
  /\ links' = [links EXCEPT ![t] = IF seen THEN @ ELSE @ + 1]
  /\ UNCHANGED <<applied, admin, integrations>>

InsertLink(i) ==
  /\ pc[i] = "insertLink"
  /\ StoreLink(Titles[next[i]], sees[i])
  /\ sees' = [sees EXCEPT ![i] = FALSE]
  /\ GoTo(i, "link", next[i] + 1)
  /\ UNCHANGED <<pending, timer, effects, faulted, crashes>>

\* startHealthProbeScheduler, if the probes are enabled, then app.listen
Listen(i) ==
  /\ pc[i] = "link" /\ next[i] > Len(Titles)
  /\ timer' = [timer EXCEPT ![i] = Probes]
  /\ GoTo(i, "listening", 1)
  /\ UNCHANGED <<database, pending, sees, effects, faulted, crashes>>

\* "Integration bootstrap failed; continuing without probes"
SeedFails(i) ==
  /\ pc[i] \in {"seed", "link", "insertLink"}
  /\ pc[i] = "link" => next[i] <= Len(Titles)
  /\ pc[i] = "seed" => ~IntegrationsSeeded(next[i])
  /\ Leave(i)
  /\ sees' = [sees EXCEPT ![i] = FALSE]
  /\ GoTo(i, "listening", 1)
  /\ faulted' = faulted \cup {i}
  /\ UNCHANGED <<timer, crashes>>

Crash(i) ==
  /\ pc[i] # "stopped"
  /\ crashes < MaxCrashes /\ crashes' = crashes + 1
  /\ Leave(i)
  /\ sees' = [sees EXCEPT ![i] = FALSE]
  /\ timer' = [timer EXCEPT ![i] = FALSE]
  /\ GoTo(i, "stopped", 1)
  /\ UNCHANGED faulted

\* PostgreSQL carries out what was left to it, if the constraints still allow it, whatever
\* the instance has become.  A link insert has its snapshot by then: one it took later could
\* only see more.
Finish(w) ==
  /\ left[w] > 0 /\ left' = [left EXCEPT ![w] = @ - 1]
  /\ \/ w.op = "apply" /\ CommitChanges(w.item)
     \/ w.op = "insertAdmin" /\ StoreAdmin /\ UNCHANGED effects
     \/ w.op = "seed" /\ Schema /\ StoreIntegration(w.item) /\ UNCHANGED effects
     \/ w.op = "insertLink" /\ StoreLink(w.item, FALSE) /\ UNCHANGED effects
  /\ UNCHANGED <<migrates, process, brokenOff, leaves, faulted, crashes>>

Boot(i) ==
  \/ Start(i) \/ CheckMigration(i) \/ CommitMigration(i) \/ MigrationFails(i)
  \/ FindAdmin(i) \/ InsertAdmin(i) \/ BootstrapFails(i)
  \/ SeedIntegration(i) \/ SnapshotLinks(i) \/ InsertLink(i) \/ Listen(i) \/ SeedFails(i)

Next == (\E i \in Instances : Boot(i) \/ Crash(i)) \/ \E w \in Writes : Finish(w)

\* The restart policy starts what has stopped, PostgreSQL answers each statement, and does
\* not for ever reject what an instance does about a migration when it could.
Fairness ==
  \A i \in Instances :
    /\ WF_vars(Boot(i))
    /\ \A n \in 1..Len(Files) + 1 : SF_vars(next[i] = n /\ CheckMigration(i))
    /\ \A n \in 1..Len(Files) : SF_vars(next[i] = n /\ CommitMigration(i))

Spec == Init /\ [][Next]_vars /\ Fairness

-----------------------------------------------------------------------------
(* Properties *)

\* Every variable keeps its shape.
TypeOK ==
  /\ applied \subseteq Names(Files)
  /\ admin \in Nat
  /\ integrations \subseteq Names(Kinds)
  /\ links \in [Names(Titles) -> Nat]
  /\ migrates \in [Instances -> BOOLEAN]
  /\ pc \in [Instances -> Labels]
  /\ next \in [Instances -> Nat \ {0}]
  /\ sees \in [Instances -> BOOLEAN]
  /\ timer \in [Instances -> BOOLEAN]
  /\ left \in [Writes -> Nat]
  /\ effects \in [Names(Files) -> Nat]
  /\ faulted \subseteq Instances
  /\ brokenOff \in [Names(Titles) -> Nat]
  /\ crashes \in 0..MaxCrashes /\ leaves \in 0..MaxLeft

\* migrate.ts:9-12: whatever instances run the migrations at once, fail half-way and start
\* again, the changes of each are committed at most once, exactly when it is recorded, and
\* never before those of an earlier one.
MigrationsOnceInOrder ==
  \A n \in 1..Len(Files) :
    /\ effects[Files[n]] = IF Files[n] \in applied THEN 1 ELSE 0
    /\ Files[n] \in applied => \A m \in 1..n : Files[m] \in applied

\* Two instances may both find no bootstrap admin; one row comes of it.
OneBootstrapAdmin == admin <= 1

\* An instance that migrates and listens has its whole schema; if no statement of its
\* start was rejected it probes as it is configured to and the bootstrap admin, if there
\* is to be one, exists; and then, or if it probes, every default integration and dashboard
\* link is there to probe and to show.
ReadyWhenListening ==
  \A i \in Instances : migrates[i] /\ pc[i] = "listening" =>
    /\ applied = Names(Files)
    /\ i \notin faulted => timer[i] = Probes /\ (Bootstraps => admin > 0)
    /\ timer[i] \/ i \notin faulted =>
         integrations = Names(Kinds) /\ \A t \in Names(Titles) : links[t] > 0

\* A restart by itself adds no link.  A default link exists at most once for each instance
\* that may race for it, and once more for each insert that a start was cut off from and
\* that PostgreSQL still had: such an insert the restart may not see.
RestartsAddNoLinks ==
  \A t \in Names(Titles) :
    links[t] <= Cardinality(Instances) + brokenOff[t]

\* dashboard-link.service.ts:82 "Seeds default Grafana dashboard/Explore links if none exist
\* yet": no default link exists twice.  Stated of the documentation; it fails of two
\* instances that start together.
LinksSeededOnce == \A t \in Names(Titles) : links[t] <= 1

\* Instances that start together on an empty database may make each other fail, but every
\* one listens in the end.
EventuallyListening == <>[](\A i \in Instances : pc[i] = "listening")
===============================================================================
