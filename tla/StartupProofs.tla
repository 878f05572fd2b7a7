----------------------------- MODULE StartupProofs -----------------------------
(* Theorems about Startup, for any instances, migrations, integrations and links. *)
EXTENDS Startup, FiniteSetTheorems, TLAPS

-----------------------------------------------------------------------------
(* Every variable keeps its shape. *)

\* An item that is written is one of its list.
Items ==
  \A i \in Instances :
    /\ pc[i] = "apply" => next[i] <= Len(Files)
    /\ pc[i] = "insertLink" => next[i] <= Len(Titles)

Typed == TypeOK /\ Items

Database ==
  /\ applied \subseteq Names(Files)
  /\ admin \in Nat
  /\ integrations \subseteq Names(Kinds)
  /\ links \in [Names(Titles) -> Nat]
  /\ effects \in [Names(Files) -> Nat]

\* At first the database is empty and every instance is stopped.
LEMMA InitType == Init => Typed
  BY BoundAssumption DEF Init, Typed, TypeOK, Items, Labels

\* What a statement may store: a migration, the admin, an integration, a link.
Stores ==
  \/ UNCHANGED <<database, effects>>
  \/ \E f \in Names(Files) : CommitChanges(f)
  \/ StoreAdmin /\ UNCHANGED effects
  \/ \E k \in Names(Kinds) : StoreIntegration(k) /\ UNCHANGED effects
  \/ \E t \in Names(Titles), seen \in BOOLEAN : StoreLink(t, seen) /\ UNCHANGED effects

\* What an instance is at is an item of its list.
LEMMA ItemsAreListed ==
  ASSUME Typed, NEW i \in Instances
  PROVE  /\ next[i] \in Nat \ {0} /\ sees[i] \in BOOLEAN
         /\ pc[i] = "apply" => Files[next[i]] \in Names(Files)
         /\ pc[i] = "seed" /\ ~IntegrationsSeeded(next[i]) => Kinds[next[i]] \in Names(Kinds)
         /\ pc[i] = "insertLink" => Titles[next[i]] \in Names(Titles)
<1>1. next[i] \in Nat \ {0} /\ sees[i] \in BOOLEAN
  BY DEF Typed, TypeOK
<1>2. pc[i] = "apply" => next[i] \in 1..Len(Files)
  BY <1>1, FilesAssumption DEF Typed, Items
<1>3. pc[i] = "seed" /\ ~IntegrationsSeeded(next[i]) => next[i] \in 1..Len(Kinds)
  BY <1>1, SeedsAssumption DEF IntegrationsSeeded
<1>4. pc[i] = "insertLink" => next[i] \in 1..Len(Titles)
  BY <1>1, SeedsAssumption DEF Typed, Items
<1> QED
  BY <1>1, <1>2, <1>3, <1>4 DEF Names

\* A step of an instance stores one of these, and goes on.
LEMMA EveryStepStores ==
  ASSUME Typed, NEW i \in Instances, Boot(i) \/ Crash(i)
  PROVE  Stores /\ UNCHANGED migrates
<1> USE ItemsAreListed DEF Stores, GoTo
<1>1. CASE Start(i) \/ CheckMigration(i) \/ FindAdmin(i) \/ SnapshotLinks(i) \/ Listen(i)
  BY <1>1 DEF Start, CheckMigration, FindAdmin, SnapshotLinks, Listen
<1>2. CASE CommitMigration(i)
  BY <1>2 DEF CommitMigration
<1>3. CASE InsertAdmin(i)
  BY <1>3 DEF InsertAdmin
<1>4. CASE SeedIntegration(i)
  BY <1>4 DEF SeedIntegration
<1>5. CASE InsertLink(i)
  BY <1>5 DEF InsertLink
<1>6. CASE MigrationFails(i) \/ BootstrapFails(i) \/ SeedFails(i) \/ Crash(i)
  BY <1>6 DEF MigrationFails, BootstrapFails, SeedFails, Crash, Leave
<1> QED
  BY <1>1, <1>2, <1>3, <1>4, <1>5, <1>6 DEF Boot

\* What was left stores one of these too, under its instance's feet.
LEMMA FinishStores ==
  ASSUME NEW w \in Writes, Finish(w)
  PROVE  Stores /\ UNCHANGED <<migrates, process, brokenOff, leaves, faulted, crashes>>
<1>1. /\ w.op = "apply" => w.item \in Names(Files)
      /\ w.op = "seed" => w.item \in Names(Kinds)
      /\ w.op = "insertLink" => w.item \in Names(Titles)
  BY DEF Writes, Insert
<1> QED
  BY <1>1 DEF Finish, Stores

\* What is stored keeps the shape of the database.
LEMMA StoresType ==
  ASSUME Typed, Stores
  PROVE  Database'
<1>0. Database
  BY DEF Typed, TypeOK, Database
<1>1. CASE UNCHANGED <<database, effects>>
  BY <1>0, <1>1 DEF Database, database
<1>2. ASSUME NEW f \in Names(Files), CommitChanges(f)
      PROVE  Database'
  BY <1>0, <1>2 DEF Database, CommitChanges
<1>3. CASE StoreAdmin /\ UNCHANGED effects
  BY <1>0, <1>3 DEF Database, StoreAdmin
<1>4. ASSUME NEW k \in Names(Kinds), StoreIntegration(k), UNCHANGED effects
      PROVE  Database'
  BY <1>0, <1>4 DEF Database, StoreIntegration
<1>5. ASSUME NEW t \in Names(Titles), NEW seen \in BOOLEAN, StoreLink(t, seen), UNCHANGED effects
      PROVE  Database'
  BY <1>0, <1>5 DEF Database, StoreLink
<1> QED
  BY <1>1, <1>2, <1>3, <1>4, <1>5 DEF Stores

Pending ==
  left \in [Writes -> Nat] /\ brokenOff \in [Names(Titles) -> Nat] /\ leaves \in 0..MaxLeft

\* The write that is left is one of the writes.
LEMMA WriteIsWrite ==
  ASSUME Typed, NEW i \in Instances, Writing(i)
  PROVE  Write(i) \in Writes
<1>1. CASE pc[i] = "apply"
  BY <1>1, ItemsAreListed DEF Write, Writes
<1>2. CASE pc[i] = "insertAdmin"
  BY <1>2 DEF Write, Writes
<1>3. CASE pc[i] = "seed"
  BY <1>3, ItemsAreListed DEF Write, Writes, Writing
<1>4. CASE pc[i] = "insertLink"
  BY <1>4, ItemsAreListed DEF Write, Writes, Insert
<1> QED
  BY <1>1, <1>2, <1>3, <1>4 DEF Writing

\* A statement is left behind by the steps that give up or die only.
LEMMA OnlyTheseLeave ==
  ASSUME NEW i \in Instances, Boot(i) \/ Crash(i)
  PROVE  UNCHANGED pending \/ (Leave(i) /\ ~SnapshotLinks(i) /\ ~InsertLink(i))
<1>1. CASE MigrationFails(i) \/ BootstrapFails(i) \/ SeedFails(i) \/ Crash(i)
  <2>1. CASE SnapshotLinks(i) \/ InsertLink(i)
    BY <2>1 DEF SnapshotLinks, InsertLink, pending
  <2>2. CASE ~SnapshotLinks(i) /\ ~InsertLink(i)
    BY <1>1, <2>2 DEF MigrationFails, BootstrapFails, SeedFails, Crash
  <2> QED
    BY <2>1, <2>2
<1>2. CASE ~(MigrationFails(i) \/ BootstrapFails(i) \/ SeedFails(i) \/ Crash(i))
  BY <1>2 DEF Boot, Start, CheckMigration, CommitMigration, FindAdmin, InsertAdmin,
              SeedIntegration, SnapshotLinks, InsertLink, Listen, pending
<1> QED
  BY <1>1, <1>2

\* What is left keeps its shape.
LEMMA PendingType ==
  ASSUME Typed, NEW i \in Instances, Boot(i) \/ Crash(i)
  PROVE  Pending'
<1>0. Pending
  BY DEF Typed, TypeOK, Pending
<1>1. CASE UNCHANGED pending
  BY <1>0, <1>1 DEF Pending, pending
<1>2. CASE Leave(i) /\ ~UNCHANGED pending
  <2>1. /\ Writing(i) /\ leaves < MaxLeft /\ leaves' = leaves + 1
        /\ left' = [left EXCEPT ![Write(i)] = @ + 1]
        /\ brokenOff' = [t \in Names(Titles) |->
                          IF Write(i) = Insert(t) THEN brokenOff[t] + 1 ELSE brokenOff[t]]
    BY <1>2 DEF Leave
  <2>2. left' \in [Writes -> Nat]
    BY <1>0, <2>1, WriteIsWrite DEF Pending
  <2>3. brokenOff' \in [Names(Titles) -> Nat]
    BY <1>0, <2>1 DEF Pending
  <2>4. leaves' \in 0..MaxLeft
    BY <1>0, <2>1, BoundAssumption DEF Pending
  <2> QED
    BY <2>2, <2>3, <2>4 DEF Pending
<1> QED
  BY <1>1, <1>2, OnlyTheseLeave

\* An instance goes on to an item of the list of the label.
LEMMA GoesOn ==
  ASSUME Typed, NEW i \in Instances, Boot(i) \/ Crash(i)
  PROVE  \E label \in Labels, n \in Nat \ {0} :
           /\ GoTo(i, label, n)
           /\ label = "apply" => n <= Len(Files)
           /\ label = "insertLink" => n <= Len(Titles)
<1>0. next[i] \in Nat \ {0} /\ next[i] + 1 \in Nat \ {0} /\ 1 \in Nat \ {0}
  BY DEF Typed, TypeOK
<1>1. /\ {"stopped", "migrate", "admin", "insertAdmin", "seed", "link", "listening", First} \subseteq Labels
      /\ First \notin {"apply", "insertLink"} /\ {"apply", "insertLink"} \subseteq Labels
  BY DEF Labels, First
<1>2. CASE Start(i) \/ MigrationFails(i) \/ FindAdmin(i) \/ InsertAdmin(i) \/ BootstrapFails(i)
  BY <1>0, <1>1, <1>2 DEF Start, MigrationFails, FindAdmin, InsertAdmin, BootstrapFails
<1>3. CASE CheckMigration(i)
  BY <1>0, <1>1, <1>3, FilesAssumption DEF CheckMigration
<1>4. CASE CommitMigration(i)
  BY <1>0, <1>1, <1>4 DEF CommitMigration
<1>5. CASE SeedIntegration(i)
  BY <1>0, <1>1, <1>5 DEF SeedIntegration
<1>6. CASE SnapshotLinks(i)
  BY <1>0, <1>1, <1>6 DEF SnapshotLinks
<1>7. CASE InsertLink(i)
  BY <1>0, <1>1, <1>7 DEF InsertLink
<1>8. CASE Listen(i) \/ SeedFails(i) \/ Crash(i)
  BY <1>0, <1>1, <1>8 DEF Listen, SeedFails, Crash
<1> QED
  BY <1>2, <1>3, <1>4, <1>5, <1>6, <1>7, <1>8 DEF Boot

\* Every step keeps every type.
LEMMA TypeStep == Typed /\ [Next]_vars => Typed'
<1> SUFFICES ASSUME Typed, [Next]_vars
             PROVE  Typed'
  OBVIOUS
<1>1. CASE UNCHANGED vars
  BY <1>1 DEF vars, database, pending, process, Typed, TypeOK, Items
<1>2. ASSUME NEW i \in Instances, Boot(i) \/ Crash(i)
      PROVE  Typed'
  <2>1. Database' /\ Pending' /\ UNCHANGED migrates
    BY <1>2, EveryStepStores, StoresType, PendingType
  <2>2. pc' \in [Instances -> Labels] /\ next' \in [Instances -> Nat \ {0}] /\ Items'
    <3>1. PICK label \in Labels, n \in Nat \ {0} :
            /\ GoTo(i, label, n)
            /\ label = "apply" => n <= Len(Files)
            /\ label = "insertLink" => n <= Len(Titles)
      BY <1>2, GoesOn
    <3> QED
      BY <3>1 DEF GoTo, Typed, TypeOK, Items
  <2>3. UNCHANGED sees \/ \E b \in BOOLEAN : sees' = [sees EXCEPT ![i] = b]
    <3>1. CASE SnapshotLinks(i)
      <4>1. SeesTitle(Titles[next[i]]) \in BOOLEAN
        BY DEF SeesTitle
      <4> QED
        BY <3>1, <4>1 DEF SnapshotLinks
    <3>2. CASE ~SnapshotLinks(i)
      <4>1. UNCHANGED sees \/ sees' = [sees EXCEPT ![i] = FALSE]
        BY <1>2, <3>2
        DEF Boot, Crash, Start, CheckMigration, CommitMigration, MigrationFails, FindAdmin,
            InsertAdmin, BootstrapFails, SeedIntegration, InsertLink, Listen, SeedFails
      <4> QED
        BY <4>1
    <3> QED
      BY <3>1, <3>2
  <2>4. UNCHANGED timer \/ timer' = [timer EXCEPT ![i] = FALSE] \/ timer' = [timer EXCEPT ![i] = Probes]
    BY <1>2
    DEF Boot, Crash, Start, CheckMigration, CommitMigration, MigrationFails, FindAdmin, InsertAdmin,
        BootstrapFails, SeedIntegration, SnapshotLinks, InsertLink, Listen, SeedFails
  <2>5. faulted' \subseteq faulted \cup {i}
    BY <1>2
    DEF Boot, Crash, Start, CheckMigration, CommitMigration, MigrationFails, FindAdmin, InsertAdmin,
        BootstrapFails, SeedIntegration, SnapshotLinks, InsertLink, Listen, SeedFails
  <2>6. UNCHANGED crashes \/ (crashes < MaxCrashes /\ crashes' = crashes + 1)
    BY <1>2
    DEF Boot, Crash, Start, CheckMigration, CommitMigration, MigrationFails, FindAdmin, InsertAdmin,
        BootstrapFails, SeedIntegration, SnapshotLinks, InsertLink, Listen, SeedFails
  <2>7. sees' \in [Instances -> BOOLEAN]
    BY <2>3 DEF Typed, TypeOK
  <2>8. timer' \in [Instances -> BOOLEAN]
    BY <2>4, ConfigAssumption DEF Typed, TypeOK
  <2>9. crashes' \in 0..MaxCrashes
    BY <2>6, BoundAssumption DEF Typed, TypeOK
  <2> QED
    BY <2>1, <2>2, <2>5, <2>7, <2>8, <2>9 DEF Typed, TypeOK, Database, Pending
<1>3. ASSUME NEW w \in Writes, Finish(w)
      PROVE  Typed'
  <2>1. Database' /\ UNCHANGED <<migrates, process, brokenOff, leaves, faulted, crashes>>
    BY <1>3, FinishStores, StoresType
  <2>2. left' \in [Writes -> Nat]
    BY <1>3 DEF Finish, Typed, TypeOK
  <2> QED
    BY <2>1, <2>2 DEF Typed, TypeOK, Items, Database, process
<1> QED
  BY <1>1, <1>2, <1>3 DEF Next

\* Every variable keeps its shape.
THEOREM TypeCorrect == Spec => []TypeOK
<1>1. Typed => TypeOK
  BY DEF Typed
<1> QED
  BY <1>1, InitType, TypeStep, PTL DEF Spec

-----------------------------------------------------------------------------
(* Migrations, the bootstrap admin, and what an instance has when it listens *)

\* An instance is at a migration only when those before it are applied.
MigratesInOrder(i) ==
  pc[i] \in {"migrate", "apply"} => \A m \in 1..Len(Files) : m < next[i] => Files[m] \in applied

Earlier(n) == \A m \in 1..Len(Files) : m < n => Files[m] \in applied

\* Nor is one left to PostgreSQL before.
LeftInOrder ==
  \A n \in 1..Len(Files) : left[[op |-> "apply", item |-> Files[n]]] > 0 => Earlier(n)

InOrder == LeftInOrder /\ \A i \in Instances : MigratesInOrder(i)

\* Whoever waits for it, a migration is committed after those before it.
LEMMA CommitsInOrder ==
  ASSUME Typed, InOrder, Next
  PROVE  UNCHANGED <<applied, effects>> \/ \E n \in 1..Len(Files) : Earlier(n) /\ CommitChanges(Files[n])
<1>1. ASSUME NEW i \in Instances, Boot(i) \/ Crash(i)
      PROVE  UNCHANGED <<applied, effects>>
               \/ \E n \in 1..Len(Files) : Earlier(n) /\ CommitChanges(Files[n])
  <2>1. CASE CommitMigration(i)
    <3>1. next[i] \in 1..Len(Files) /\ pc[i] = "apply" /\ CommitChanges(Files[next[i]])
      BY <2>1, FilesAssumption DEF CommitMigration, Typed, TypeOK, Items
    <3> QED
      BY <3>1 DEF InOrder, MigratesInOrder, Earlier
  <2>2. CASE ~CommitMigration(i)
    BY <1>1, <2>2
    DEF Boot, Crash, Start, CheckMigration, MigrationFails, FindAdmin, InsertAdmin, BootstrapFails,
        SeedIntegration, SnapshotLinks, InsertLink, Listen, SeedFails, Leave, StoreAdmin,
        StoreIntegration, StoreLink, database
  <2> QED
    BY <2>1, <2>2
<1>2. ASSUME NEW w \in Writes, Finish(w)
      PROVE  UNCHANGED <<applied, effects>>
               \/ \E n \in 1..Len(Files) : Earlier(n) /\ CommitChanges(Files[n])
  <2>1. CASE w.op = "apply"
    <3>1. PICK n \in 1..Len(Files) : w = [op |-> "apply", item |-> Files[n]]
      BY <2>1 DEF Writes, Insert, Names
    <3>2. left[w] > 0 /\ CommitChanges(w.item) /\ w.item = Files[n]
      BY <1>2, <2>1, <3>1 DEF Finish
    <3> QED
      BY <3>1, <3>2 DEF InOrder, LeftInOrder
  <2>2. CASE w.op # "apply"
    BY <1>2, <2>2 DEF Finish, StoreAdmin, StoreIntegration, StoreLink
  <2> QED
    BY <2>1, <2>2
<1> QED
  BY <1>1, <1>2 DEF Next

\* The changes of a migration are committed with its row, or not at all.
LEMMA MigrationsStep ==
  Typed /\ InOrder /\ MigrationsOnceInOrder /\ [Next]_vars => MigrationsOnceInOrder'
<1> SUFFICES ASSUME Typed, InOrder, MigrationsOnceInOrder, [Next]_vars
             PROVE  MigrationsOnceInOrder'
  OBVIOUS
<1>1. CASE UNCHANGED <<applied, effects>>
  BY <1>1 DEF MigrationsOnceInOrder
<1>2. ASSUME NEW k \in 1..Len(Files), Earlier(k), CommitChanges(Files[k])
      PROVE  MigrationsOnceInOrder'
  <2>2. /\ Files[k] \notin applied /\ applied' = applied \cup {Files[k]}
        /\ effects' = [effects EXCEPT ![Files[k]] = @ + 1]
    BY <1>2 DEF CommitChanges, Recorded
  <2>3. \A n \in 1..Len(Files) : effects'[Files[n]] = IF Files[n] \in applied' THEN 1 ELSE 0
    <3>1. \A n \in 1..Len(Files) : Files[n] \in Names(Files)
      BY DEF Names
    <3>2. \A n \in 1..Len(Files) :
            effects'[Files[n]] = IF n = k THEN effects[Files[n]] + 1 ELSE effects[Files[n]]
      BY <2>2, <3>1, FilesAssumption DEF Typed, TypeOK
    <3> QED
      BY <2>2, <3>2, FilesAssumption DEF MigrationsOnceInOrder
  <2>4. \A m \in 1..Len(Files) : m < k => Files[m] \in applied
    BY <1>2 DEF Earlier
  <2>5. \A n \in 1..Len(Files) : Files[n] \in applied' => \A m \in 1..n : Files[m] \in applied'
    <3> SUFFICES ASSUME NEW n \in 1..Len(Files), Files[n] \in applied', NEW m \in 1..n
                 PROVE  Files[m] \in applied'
      OBVIOUS
    <3>1. m \in 1..Len(Files)
      BY FilesAssumption
    <3>2. CASE n = k
      BY <2>2, <2>4, <3>1, <3>2
    <3>3. CASE n # k
      <4>1. Files[n] \in applied
        BY <2>2, <3>3, FilesAssumption
      <4> QED
        BY <2>2, <4>1 DEF MigrationsOnceInOrder
    <3> QED
      BY <3>2, <3>3
  <2> QED
    BY <2>3, <2>5 DEF MigrationsOnceInOrder
<1> QED
  BY <1>1, <1>2, CommitsInOrder DEF vars, database

\* Nothing that is stored is taken away.
LEMMA DatabaseGrows ==
  ASSUME Typed, Stores
  PROVE  /\ applied \subseteq applied' /\ integrations \subseteq integrations'
         /\ admin > 0 => admin' > 0
         /\ \A t \in Names(Titles) : links[t] > 0 => links'[t] > 0
<1>1. CASE UNCHANGED <<database, effects>>
  BY <1>1 DEF database
<1>2. ASSUME NEW f \in Names(Files), CommitChanges(f)
      PROVE  applied \subseteq applied' /\ UNCHANGED <<integrations, admin, links>>
  BY <1>2 DEF CommitChanges
<1>3. CASE StoreAdmin
  BY <1>3 DEF StoreAdmin, Typed, TypeOK
<1>4. ASSUME NEW k \in Names(Kinds), StoreIntegration(k)
      PROVE  integrations \subseteq integrations' /\ UNCHANGED <<applied, admin, links>>
  BY <1>4 DEF StoreIntegration
<1>5. ASSUME NEW t \in Names(Titles), NEW seen \in BOOLEAN, StoreLink(t, seen)
      PROVE  /\ UNCHANGED <<applied, admin, integrations>>
             /\ \A u \in Names(Titles) : links[u] > 0 => links'[u] > 0
  BY <1>5 DEF StoreLink, Typed, TypeOK
<1> QED
  BY <1>1, <1>2, <1>3, <1>4, <1>5 DEF Stores

\* Where an instance is, all that comes before was done.
Migrated(i) ==
  migrates[i] /\ pc[i] \in {"admin", "insertAdmin", "seed", "link", "insertLink", "listening"} =>
    applied = Names(Files)

Bootstrapped(i) ==
  Bootstraps /\ i \notin faulted /\ pc[i] \in {"seed", "link", "insertLink", "listening"} => admin > 0

SeededAll(i) ==
  /\ pc[i] = "seed" => \A m \in 1..Len(Kinds) : m < next[i] => Kinds[m] \in integrations
  /\ pc[i] \in {"link", "insertLink"} =>
       /\ integrations = Names(Kinds)
       /\ \A m \in 1..Len(Titles) : m < next[i] => links[Titles[m]] > 0
  /\ pc[i] = "insertLink" /\ sees[i] => links[Titles[next[i]]] > 0
  /\ pc[i] = "listening" /\ (timer[i] \/ i \notin faulted) =>
       integrations = Names(Kinds) /\ \A t \in Names(Titles) : links[t] > 0

Timed(i) ==
  /\ pc[i] # "listening" => ~timer[i]
  /\ pc[i] = "listening" /\ i \notin faulted => (timer[i] <=> Probes)

Progress(i) == MigratesInOrder(i) /\ Migrated(i) /\ Bootstrapped(i) /\ SeededAll(i) /\ Timed(i)

\* An instance keeps what it has when others write.
LEMMA OthersKeep ==
  ASSUME Typed, Stores, NEW j \in Instances, Progress(j), UNCHANGED migrates,
         pc'[j] = pc[j], next'[j] = next[j], sees'[j] = sees[j], timer'[j] = timer[j],
         j \in faulted' <=> j \in faulted
  PROVE  Progress(j)'
<1> USE DatabaseGrows, StoresType DEF Progress
<1>1. MigratesInOrder(j)'
  BY DEF MigratesInOrder
<1>2. Migrated(j)'
  BY DEF Migrated, Database
<1>3. Bootstrapped(j)'
  BY DEF Bootstrapped
<1>4. SeededAll(j)'
  <2>1. \A m \in 1..Len(Titles) : Titles[m] \in Names(Titles)
    BY DEF Names
  <2>2. pc[j] = "insertLink" => Titles[next[j]] \in Names(Titles)
    BY DEF Names, Typed, TypeOK, Items
  <2> QED
    BY <2>1, <2>2 DEF SeededAll, Database
<1>5. Timed(j)'
  BY DEF Timed
<1> QED
  BY <1>1, <1>2, <1>3, <1>4, <1>5

\* An instance migrates: it leaves the migrations when all are applied.
LEMMA MigrationKeeps ==
  ASSUME Typed, NEW i \in Instances, Progress(i),
         Start(i) \/ CheckMigration(i) \/ CommitMigration(i) \/ MigrationFails(i)
  PROVE  Progress(i)'
<1>0. /\ pc \in [Instances -> Labels] /\ next \in [Instances -> Nat \ {0}]
      /\ timer \in [Instances -> BOOLEAN] /\ applied \subseteq Names(Files)
      /\ First \in {"admin", "seed"} /\ (First = "seed" => ~Bootstraps)
  BY DEF Typed, TypeOK, First
<1> USE FilesAssumption DEF Progress, MigratesInOrder, Migrated, Bootstrapped, SeededAll, Timed, GoTo,
        database
<1>1. CASE Start(i)
  <2>1. pc'[i] = (IF migrates[i] THEN "migrate" ELSE First) /\ next'[i] = 1 /\ pc[i] = "stopped"
          /\ UNCHANGED <<applied, admin, integrations, links, migrates, timer, sees>>
    BY <1>0, <1>1 DEF Start
  <2> QED
    BY <1>0, <2>1
<1>2. CASE CheckMigration(i)
  <2>0. pc[i] = "migrate" /\ timer'[i] = FALSE
          /\ UNCHANGED <<applied, admin, integrations, links, migrates, timer, sees>>
    BY <1>0, <1>2 DEF CheckMigration
  <2>1. CASE next[i] > Len(Files)
    <3>1. pc'[i] = First /\ next'[i] = 1
      BY <1>0, <1>2, <2>1 DEF CheckMigration
    <3>2. applied = Names(Files)
      BY <1>0, <2>0, <2>1 DEF Names
    <3> QED
      BY <1>0, <2>0, <3>1, <3>2
  <2>2. CASE next[i] <= Len(Files) /\ Skipped(Files[next[i]])
    <3>1. pc'[i] = "migrate" /\ next'[i] = next[i] + 1
      BY <1>0, <1>2, <2>2 DEF CheckMigration
    <3>2. \A m \in 1..Len(Files) : m < next[i] + 1 => m < next[i] \/ m = next[i]
      BY <1>0
    <3>3. \A m \in 1..Len(Files) : m < next'[i] => Files[m] \in applied'
      BY <2>0, <2>2, <3>1, <3>2 DEF Skipped
    <3> QED
      BY <2>0, <3>1, <3>3
  <2>3. CASE next[i] <= Len(Files) /\ ~Skipped(Files[next[i]])
    <3>1. pc'[i] = "apply" /\ next'[i] = next[i]
      BY <1>0, <1>2, <2>3 DEF CheckMigration
    <3> QED
      BY <1>0, <2>0, <3>1
  <2> QED
    BY <1>0, <2>1, <2>2, <2>3
<1>3. CASE CommitMigration(i)
  <2>1. pc[i] = "apply" /\ pc'[i] = "migrate" /\ next'[i] = next[i] + 1
          /\ applied' = applied \cup {Files[next[i]]} /\ UNCHANGED timer
    BY <1>0, <1>3 DEF CommitMigration, CommitChanges
  <2> QED
    BY <1>0, <2>1
<1>4. CASE MigrationFails(i)
  <2>1. pc[i] \in {"migrate", "apply"} /\ pc'[i] = "stopped" /\ UNCHANGED timer
    BY <1>0, <1>4 DEF MigrationFails
  <2> QED
    BY <1>0, <2>1
<1> QED
  BY <1>1, <1>2, <1>3, <1>4

\* The bootstrap admin is there, or a statement was rejected.
LEMMA AdminKeeps ==
  ASSUME Typed, NEW i \in Instances, Progress(i), FindAdmin(i) \/ InsertAdmin(i) \/ BootstrapFails(i)
  PROVE  Progress(i)'
<1>0. /\ pc \in [Instances -> Labels] /\ next \in [Instances -> Nat \ {0}]
      /\ timer \in [Instances -> BOOLEAN] /\ admin \in Nat
  BY DEF Typed, TypeOK
<1>1. /\ pc[i] \in {"admin", "insertAdmin"} /\ pc'[i] \in {"insertAdmin", "seed"} /\ next'[i] = 1
      /\ UNCHANGED <<applied, integrations, links, timer, sees, migrates>>
  BY <1>0 DEF FindAdmin, InsertAdmin, BootstrapFails, Leave, StoreAdmin, GoTo, database
<1>2. pc'[i] = "insertAdmin" => pc[i] = "admin" /\ FindAdmin(i)
  BY <1>0 DEF FindAdmin, InsertAdmin, BootstrapFails, GoTo
<1>3. pc'[i] = "seed" => admin' > 0 \/ i \in faulted'
  BY <1>0 DEF FindAdmin, InsertAdmin, BootstrapFails, StoreAdmin, EmailTaken, GoTo, database
<1> QED
  BY <1>0, <1>1, <1>3
  DEF Progress, MigratesInOrder, Migrated, Bootstrapped, SeededAll, Timed

\* The integrations, the links and the timer.
LEMMA SeedsKeep ==
  ASSUME Typed, NEW i \in Instances, Progress(i),
         SeedIntegration(i) \/ SnapshotLinks(i) \/ InsertLink(i) \/ Listen(i) \/ SeedFails(i)
  PROVE  Progress(i)'
<1>0. /\ pc \in [Instances -> Labels] /\ next \in [Instances -> Nat \ {0}]
      /\ timer \in [Instances -> BOOLEAN] /\ admin \in Nat /\ sees \in [Instances -> BOOLEAN]
      /\ links \in [Names(Titles) -> Nat] /\ integrations \subseteq Names(Kinds) /\ Probes \in BOOLEAN
  BY ConfigAssumption DEF Typed, TypeOK
<1>1. /\ pc[i] \in {"seed", "link", "insertLink"} /\ pc'[i] \in {"seed", "link", "insertLink", "listening"}
      /\ UNCHANGED <<applied, admin, migrates>> /\ faulted \subseteq faulted'
      /\ pc'[i] # "listening" => UNCHANGED timer
  BY <1>0 DEF SeedIntegration, SnapshotLinks, InsertLink, Listen, SeedFails, GoTo, database,
              StoreIntegration, StoreLink, Leave
<1>2. MigratesInOrder(i)' /\ Migrated(i)' /\ Bootstrapped(i)'
  BY <1>1 DEF MigratesInOrder, Migrated, Bootstrapped, Progress
<1>3. Timed(i)'
  <2>1. CASE Listen(i)
    BY <1>0, <1>1, <2>1 DEF Listen, GoTo, Timed, Progress
  <2>2. CASE SeedFails(i)
    <3>1. pc'[i] = "listening" /\ i \in faulted'
      BY <1>0, <2>2 DEF SeedFails, GoTo
    <3> QED
      BY <3>1 DEF Timed
  <2>3. CASE ~Listen(i) /\ ~SeedFails(i)
    <3>1. pc'[i] # "listening"
      BY <1>0, <2>3 DEF SeedIntegration, SnapshotLinks, InsertLink, GoTo
    <3> QED
      BY <1>1, <3>1 DEF Timed, Progress
  <2> QED
    BY <2>1, <2>2, <2>3
<1>4. SeededAll(i)'
  <2> USE SeedsAssumption DEF Progress, SeededAll, GoTo, database
  <2>1. CASE SeedIntegration(i) /\ IntegrationsSeeded(next[i])
    <3>1. pc[i] = "seed" /\ pc'[i] = "link" /\ next'[i] = 1 /\ UNCHANGED <<integrations, links>>
      BY <1>0, <2>1 DEF SeedIntegration
    <3>2. integrations = Names(Kinds)
      <4>1. \A m \in 1..Len(Kinds) : m < next[i]
        BY <1>0, <2>1 DEF IntegrationsSeeded
      <4>2. \A m \in 1..Len(Kinds) : Kinds[m] \in integrations
        BY <3>1, <4>1
      <4>3. Names(Kinds) \subseteq integrations
        BY <4>2 DEF Names
      <4> QED
        BY <1>0, <4>3
    <3> QED
      BY <3>1, <3>2
  <2>2. CASE SeedIntegration(i) /\ ~IntegrationsSeeded(next[i])
    <3>1. /\ pc[i] = "seed" /\ pc'[i] = "seed" /\ next'[i] = next[i] + 1
          /\ integrations' = integrations \cup {Kinds[next[i]]}
      BY <1>0, <2>2 DEF SeedIntegration, StoreIntegration
    <3> QED
      BY <1>0, <3>1
  <2>3. CASE SnapshotLinks(i)
    <3>1. /\ pc[i] = "link" /\ pc'[i] = "insertLink" /\ next'[i] = next[i]
          /\ UNCHANGED <<integrations, links>> /\ (sees'[i] <=> links[Titles[next[i]]] > 0)
      BY <1>0, <2>3 DEF SnapshotLinks, SeesTitle
    <3> QED
      BY <3>1
  <2>4. CASE InsertLink(i)
    <3>1. PICK t \in Names(Titles) : t = Titles[next[i]]
      BY <1>0, <2>4 DEF InsertLink, Names, Typed, Items
    <3>2. /\ pc[i] = "insertLink" /\ pc'[i] = "link" /\ next'[i] = next[i] + 1
          /\ UNCHANGED integrations
          /\ links' = [links EXCEPT ![t] = IF sees[i] THEN @ ELSE @ + 1]
      BY <1>0, <2>4, <3>1 DEF InsertLink, StoreLink
    <3>3. links'[t] > 0 /\ \A u \in Names(Titles) : links[u] > 0 => links'[u] > 0
      BY <1>0, <3>1, <3>2
    <3>4. \A m \in 1..Len(Titles) : m < next'[i] => links'[Titles[m]] > 0
      <4> SUFFICES ASSUME NEW m \in 1..Len(Titles), m < next'[i]
                   PROVE  links'[Titles[m]] > 0
        OBVIOUS
      <4>1. m < next[i] \/ m = next[i]
        BY <1>0, <3>2
      <4>2. Titles[m] \in Names(Titles)
        BY DEF Names
      <4> QED
        BY <3>1, <3>2, <3>3, <4>1, <4>2
    <3> QED
      BY <3>2, <3>4
  <2>5. CASE Listen(i)
    <3>1. pc[i] = "link" /\ pc'[i] = "listening" /\ next[i] > Len(Titles) /\ UNCHANGED <<integrations, links>>
      BY <1>0, <2>5 DEF Listen
    <3>2. \A t \in Names(Titles) : links[t] > 0
      BY <1>0, <3>1 DEF Names
    <3> QED
      BY <3>1, <3>2
  <2>6. CASE SeedFails(i)
    <3>1. pc'[i] = "listening" /\ i \in faulted' /\ ~timer'[i]
      BY <1>0, <1>1, <2>6 DEF SeedFails, Timed
    <3> QED
      BY <3>1
  <2> QED
    BY <2>1, <2>2, <2>3, <2>4, <2>5, <2>6
<1> QED
  BY <1>2, <1>3, <1>4 DEF Progress

AllProgress == LeftInOrder /\ \A i \in Instances : Progress(i)

\* What is left to PostgreSQL was reached in order.
LEMMA LeftStep == Typed /\ AllProgress /\ [Next]_vars => LeftInOrder'
<1> SUFFICES ASSUME Typed, AllProgress, [Next]_vars,
                    NEW n \in 1..Len(Files), left'[[op |-> "apply", item |-> Files[n]]] > 0
             PROVE  Earlier(n)'
  BY DEF LeftInOrder
<1> DEFINE a == [op |-> "apply", item |-> Files[n]]
<1>0. a \in Writes /\ left \in [Writes -> Nat] /\ (left[a] > 0 => Earlier(n))
  <2>1. Files[n] \in Names(Files)
    BY DEF Names
  <2> QED
    BY <2>1 DEF Writes, Typed, TypeOK, AllProgress, LeftInOrder
<1>1. CASE UNCHANGED vars
  BY <1>0, <1>1 DEF vars, database, pending, Earlier
<1>2. ASSUME NEW i \in Instances, Boot(i) \/ Crash(i)
      PROVE  Earlier(n)'
  <2>1. applied \subseteq applied'
    BY <1>2, EveryStepStores, DatabaseGrows
  <2>2. CASE left'[a] = left[a]
    BY <1>0, <2>1, <2>2 DEF Earlier
  <2>3. CASE left'[a] # left[a]
    <3>1. Leave(i) /\ ~UNCHANGED pending
      BY <1>2, <2>3, OnlyTheseLeave DEF pending
    <3>2. Writing(i) /\ left' = [left EXCEPT ![Write(i)] = @ + 1]
      BY <3>1 DEF Leave
    <3>3. Write(i) = a
      BY <1>0, <2>3, <3>2
    <3>4. pc[i] = "apply" /\ Files[next[i]] = Files[n]
      <4>1. pc[i] = "apply"
        BY <3>3 DEF Write
      <4> QED
        BY <3>3, <4>1 DEF Write
    <3>5. next[i] = n
      BY <3>4, FilesAssumption DEF Typed, TypeOK, Items
    <3> QED
      BY <2>1, <3>4, <3>5 DEF AllProgress, Progress, MigratesInOrder, Earlier
  <2> QED
    BY <2>2, <2>3
<1>3. ASSUME NEW w \in Writes, Finish(w)
      PROVE  Earlier(n)'
  <2>1. applied \subseteq applied'
    BY <1>3, FinishStores, DatabaseGrows
  <2>2. left' = [left EXCEPT ![w] = @ - 1] /\ left[w] > 0
    BY <1>3 DEF Finish
  <2>3. left[a] > 0
    BY <1>0, <2>2
  <2> QED
    BY <1>0, <2>1, <2>3 DEF Earlier
<1> QED
  BY <1>1, <1>2, <1>3 DEF Next

\* Every step keeps the progress of every instance.
LEMMA ProgressStep == Typed /\ AllProgress /\ [Next]_vars => AllProgress'
<1> SUFFICES ASSUME Typed, AllProgress, [Next]_vars, NEW j \in Instances
             PROVE  Progress(j)'
  BY LeftStep DEF AllProgress
<1>1. CASE UNCHANGED vars
  BY <1>1 DEF vars, database, process, AllProgress, Progress, MigratesInOrder, Migrated,
              Bootstrapped, SeededAll, Timed
<1>2. ASSUME NEW i \in Instances, i # j, Boot(i) \/ Crash(i)
      PROVE  Progress(j)'
  <2>1. Stores /\ UNCHANGED migrates
    BY <1>2, EveryStepStores
  <2>2. pc'[j] = pc[j] /\ next'[j] = next[j]
    BY <1>2, GoesOn DEF GoTo, Typed, TypeOK
  <2>3. UNCHANGED sees \/ \E b : sees' = [sees EXCEPT ![i] = b]
    BY <1>2
    DEF Boot, Crash, Start, CheckMigration, CommitMigration, MigrationFails, FindAdmin, InsertAdmin,
        BootstrapFails, SeedIntegration, SnapshotLinks, InsertLink, Listen, SeedFails
  <2>4. UNCHANGED timer \/ \E b : timer' = [timer EXCEPT ![i] = b]
    BY <1>2
    DEF Boot, Crash, Start, CheckMigration, CommitMigration, MigrationFails, FindAdmin, InsertAdmin,
        BootstrapFails, SeedIntegration, SnapshotLinks, InsertLink, Listen, SeedFails
  <2>5. j \in faulted' <=> j \in faulted
    BY <1>2
    DEF Boot, Crash, Start, CheckMigration, CommitMigration, MigrationFails, FindAdmin, InsertAdmin,
        BootstrapFails, SeedIntegration, SnapshotLinks, InsertLink, Listen, SeedFails
  <2>6. sees'[j] = sees[j] /\ timer'[j] = timer[j]
    BY <1>2, <2>3, <2>4 DEF Typed, TypeOK
  <2> QED
    BY <2>1, <2>2, <2>5, <2>6, OthersKeep DEF AllProgress
<1>3. CASE Crash(j)
  <2>1. pc'[j] = "stopped" /\ timer'[j] = FALSE
    BY <1>3 DEF Crash, GoTo, Typed, TypeOK
  <2> QED
    BY <2>1 DEF Progress, MigratesInOrder, Migrated, Bootstrapped, SeededAll, Timed
<1>4. CASE Boot(j)
  BY <1>4, MigrationKeeps, AdminKeeps, SeedsKeep DEF Boot, AllProgress
<1>5. ASSUME NEW w \in Writes, Finish(w)
      PROVE  Progress(j)'
  <2>1. Stores /\ UNCHANGED <<migrates, process, faulted>>
    BY <1>5, FinishStores
  <2> QED
    BY <2>1, OthersKeep DEF AllProgress, process
<1> QED
  BY <1>1, <1>2, <1>3, <1>4, <1>5 DEF Next

\* At first every instance is stopped, its timer is not set, and nothing is left.
LEMMA ProgressInit == Init => AllProgress
<1>1. Init => \A i \in Instances : Progress(i)
  BY DEF Init, Progress, MigratesInOrder, Migrated, Bootstrapped, SeededAll, Timed
<1>2. ASSUME Init, NEW n \in 1..Len(Files)
      PROVE  ~(left[[op |-> "apply", item |-> Files[n]]] > 0)
  <2>1. [op |-> "apply", item |-> Files[n]] \in Writes
    BY DEF Writes, Names
  <2> QED
    BY <1>2, <2>1 DEF Init
<1> QED
  BY <1>1, <1>2 DEF AllProgress, LeftInOrder

\* Whatever instances migrate at once, fail and start again, the changes of each migration
\* are committed at most once and in order.
THEOREM MigrationsRunOnce == Spec => []MigrationsOnceInOrder
<1>1. Init => MigrationsOnceInOrder
  BY DEF Init, MigrationsOnceInOrder, Names
<1>2. AllProgress => InOrder
  BY DEF AllProgress, Progress, InOrder
<1> QED
  BY <1>1, <1>2, InitType, TypeStep, ProgressInit, ProgressStep, MigrationsStep, PTL DEF Spec

\* However many instances find no bootstrap admin, one row comes of it.
THEOREM OneAdmin == Spec => []OneBootstrapAdmin
<1>1. Init => OneBootstrapAdmin
  BY DEF Init, OneBootstrapAdmin
<1>2. Typed /\ OneBootstrapAdmin /\ [Next]_vars => OneBootstrapAdmin'
  <2>1. Typed /\ OneBootstrapAdmin /\ Stores => OneBootstrapAdmin'
    BY DEF Stores, CommitChanges, StoreAdmin, EmailTaken, StoreIntegration, StoreLink,
           database, Typed, TypeOK, OneBootstrapAdmin
  <2>2. Typed /\ Next => Stores
    BY EveryStepStores, FinishStores DEF Next
  <2> QED
    BY <2>1, <2>2 DEF vars, database, OneBootstrapAdmin
<1> QED
  BY <1>1, <1>2, InitType, TypeStep, PTL DEF Spec

\* An instance that listens has what its start was to give it.
THEOREM ReadyInstances == Spec => []ReadyWhenListening
<1>1. Typed /\ AllProgress => ReadyWhenListening
  BY ConfigAssumption
  DEF AllProgress, Progress, Migrated, Bootstrapped, SeededAll, Timed, ReadyWhenListening,
      Typed, TypeOK
<1> QED
  BY <1>1, InitType, TypeStep, ProgressInit, ProgressStep, PTL DEF Spec

-----------------------------------------------------------------------------
(* Links: a restart adds none *)

\* The instances about to insert a link they have not seen.
Blind(t) == {i \in Instances : pc[i] = "insertLink" /\ Titles[next[i]] = t /\ ~sees[i]}

\* Once there is a link, every other one has an instance that has not seen it, or was left
\* to PostgreSQL by one that had not.
Bounded(t) ==
  /\ left[Insert(t)] <= brokenOff[t]
  /\ links[t] > 0 => links[t] + Cardinality(Blind(t)) + left[Insert(t)]
                      <= Cardinality(Instances) + brokenOff[t]

AllBounded == \A t \in Names(Titles) : Bounded(t)

\* Fewer instances, smaller cardinality.
LEMMA BlindFacts ==
  ASSUME NEW S \in SUBSET Instances, NEW T \in SUBSET S
  PROVE  /\ Cardinality(T) \in Nat /\ Cardinality(S) \in Nat /\ Cardinality(Instances) \in Nat
         /\ Cardinality(T) <= Cardinality(S) /\ Cardinality(S) <= Cardinality(Instances)
         /\ \A i \in S \ T : Cardinality(T) + 1 <= Cardinality(S)
<1>1. IsFiniteSet(S) /\ IsFiniteSet(T)
  BY InstancesAssumption, FS_Subset
<1>2. /\ Cardinality(T) \in Nat /\ Cardinality(S) \in Nat /\ Cardinality(Instances) \in Nat
      /\ Cardinality(T) <= Cardinality(S) /\ Cardinality(S) <= Cardinality(Instances)
  BY <1>1, InstancesAssumption, FS_Subset, FS_CardinalityType
<1>3. ASSUME NEW i \in S \ T
      PROVE  Cardinality(T) + 1 <= Cardinality(S)
  <2>1. Cardinality(S \ {i}) = Cardinality(S) - 1 /\ IsFiniteSet(S \ {i})
    BY <1>1, FS_RemoveElement
  <2>2. Cardinality(T) <= Cardinality(S \ {i})
    BY <2>1, FS_Subset
  <2> QED
    BY <1>2, <2>1, <2>2
<1> QED
  BY <1>2, <1>3

\* An instance that has inserted its link, or given up, no longer counts.
LEMMA BlindShrinks ==
  ASSUME Typed, NEW i \in Instances, Boot(i) \/ Crash(i), ~SnapshotLinks(i), NEW t
  PROVE  Blind(t)' \subseteq Blind(t) \ {i}
<1>1. pc'[i] # "insertLink" /\ \A j \in Instances \ {i} : pc'[j] = pc[j] /\ next'[j] = next[j]
  <2>1. PICK label \in Labels, n \in Nat \ {0} : GoTo(i, label, n) /\ label # "insertLink"
    BY DEF Boot, Crash, Start, CheckMigration, CommitMigration, MigrationFails, FindAdmin,
           InsertAdmin, BootstrapFails, SeedIntegration, InsertLink, Listen, SeedFails, First,
           Labels, Typed, TypeOK
  <2> QED
    BY <2>1 DEF GoTo, Typed, TypeOK
<1>2. \A j \in Instances \ {i} : sees'[j] = sees[j]
  <2>1. UNCHANGED sees \/ sees' = [sees EXCEPT ![i] = FALSE]
    BY DEF Boot, Crash, Start, CheckMigration, CommitMigration, MigrationFails, FindAdmin,
           InsertAdmin, BootstrapFails, SeedIntegration, InsertLink, Listen, SeedFails
  <2> QED
    BY <2>1 DEF Typed, TypeOK
<1> QED
  BY <1>1, <1>2 DEF Blind

\* A step that stores no link of t may leave an insert of it behind.
LEMMA LeavingKeeps ==
  ASSUME Typed, NEW i \in Instances, Boot(i) \/ Crash(i), NEW t \in Names(Titles)
  PROVE  \/ left'[Insert(t)] = left[Insert(t)] /\ brokenOff'[t] = brokenOff[t]
         \/ /\ left'[Insert(t)] = left[Insert(t)] + 1 /\ brokenOff'[t] = brokenOff[t] + 1
            /\ UNCHANGED links /\ ~SnapshotLinks(i)
<1>0. Insert(t) \in Writes /\ left \in [Writes -> Nat]
  BY DEF Writes, Typed, TypeOK
<1>1. CASE UNCHANGED pending
  BY <1>1 DEF pending
<1>2. CASE Leave(i) /\ ~UNCHANGED pending
  <2>1. /\ left' = [left EXCEPT ![Write(i)] = @ + 1] /\ Write(i) \in Writes
        /\ brokenOff' = [u \in Names(Titles) |->
                          IF Write(i) = Insert(u) THEN brokenOff[u] + 1 ELSE brokenOff[u]]
        /\ UNCHANGED links
    BY <1>2, WriteIsWrite DEF Leave, database
  <2>2. ~SnapshotLinks(i)
    BY <1>2, OnlyTheseLeave
  <2> QED
    BY <1>0, <2>1, <2>2
<1> QED
  BY <1>1, <1>2, OnlyTheseLeave

\* Every step keeps the bound.
LEMMA BoundedStep == Typed /\ AllBounded /\ [Next]_vars => AllBounded'
<1> SUFFICES ASSUME Typed, AllBounded, [Next]_vars, NEW t \in Names(Titles)
             PROVE  Bounded(t)'
  BY DEF AllBounded
<1>0. /\ Bounded(t) /\ links[t] \in Nat /\ Blind(t) \subseteq Instances /\ Blind(t)' \subseteq Instances
      /\ left[Insert(t)] \in Nat /\ brokenOff[t] \in Nat /\ Insert(t) \in Writes
  BY DEF AllBounded, Typed, TypeOK, Blind, Writes
<1>1. CASE UNCHANGED vars
  BY <1>0, <1>1 DEF vars, database, process, pending, Bounded, Blind
<1>2. ASSUME NEW i \in Instances, SnapshotLinks(i)
      PROVE  Bounded(t)'
  <2>1. UNCHANGED <<links, left, brokenOff>>
    BY <1>2 DEF SnapshotLinks, database, pending
  <2>2. links[t] > 0 => Blind(t)' \subseteq Blind(t)
    <3>1. /\ pc' = [pc EXCEPT ![i] = "insertLink"] /\ next'[i] = next[i]
          /\ sees' = [sees EXCEPT ![i] = links[Titles[next[i]]] > 0]
          /\ \A j \in Instances \ {i} : next'[j] = next[j]
      BY <1>2 DEF SnapshotLinks, SeesTitle, GoTo, Typed, TypeOK
    <3> QED
      BY <3>1 DEF Blind, Typed, TypeOK
  <2> QED
    BY <1>0, <2>1, <2>2, BlindFacts DEF Bounded
<1>3. ASSUME NEW i \in Instances, Boot(i) \/ Crash(i), ~SnapshotLinks(i)
      PROVE  Bounded(t)'
  <2>1. Blind(t)' \subseteq Blind(t) \ {i}
    BY <1>3, BlindShrinks
  <2>2. CASE links'[t] = links[t]
    BY <1>0, <1>3, <2>1, <2>2, BlindFacts, LeavingKeeps DEF Bounded
  <2>3. CASE links'[t] # links[t]
    <3>1. InsertLink(i)
      BY <1>3, <2>3
      DEF Boot, Crash, Start, CheckMigration, CommitMigration, MigrationFails, FindAdmin, InsertAdmin,
          BootstrapFails, SeedIntegration, Listen, SeedFails, Leave, CommitChanges, StoreAdmin,
          StoreIntegration, database
    <3>2. links'[t] = links[t] + 1 /\ i \in Blind(t)
      BY <1>0, <2>3, <3>1, ItemsAreListed DEF InsertLink, StoreLink, Blind, Typed, TypeOK
    <3>3. Cardinality(Blind(t)') + 1 <= Cardinality(Blind(t)) /\ Cardinality(Blind(t)') \in Nat
      BY <1>0, <2>1, <3>2, BlindFacts
    <3>4. UNCHANGED <<left, brokenOff>>
      BY <3>1 DEF InsertLink, pending
    <3>5. Cardinality(Blind(t)) <= Cardinality(Instances) /\ Cardinality(Blind(t)) \in Nat
            /\ Cardinality(Instances) \in Nat
      BY <1>0, BlindFacts
    <3> QED
      BY <1>0, <3>2, <3>3, <3>4, <3>5 DEF Bounded
  <2> QED
    BY <2>2, <2>3
<1>4. ASSUME NEW w \in Writes, Finish(w)
      PROVE  Bounded(t)'
  <2>1. /\ left' = [left EXCEPT ![w] = @ - 1] /\ left[w] > 0 /\ left \in [Writes -> Nat]
        /\ brokenOff' = brokenOff /\ Blind(t)' = Blind(t)
    BY <1>4 DEF Finish, process, Blind, Typed, TypeOK
  <2>2. /\ Cardinality(Blind(t)) <= Cardinality(Instances) /\ Cardinality(Blind(t)) \in Nat
        /\ Cardinality(Instances) \in Nat
    BY <1>0, BlindFacts
  <2>3. CASE w = Insert(t)
    <3>1. links'[t] = links[t] + 1
      BY <1>0, <1>4, <2>3 DEF Finish, StoreLink, Insert, Typed, TypeOK
    <3>2. left'[Insert(t)] = left[Insert(t)] - 1
      BY <1>0, <2>1, <2>3
    <3> QED
      BY <1>0, <2>1, <2>2, <2>3, <3>1, <3>2 DEF Bounded
  <2>4. CASE w # Insert(t)
    <3>1. links'[t] = links[t]
      <4>1. CASE w.op = "insertLink"
        <5>1. PICK u \in Names(Titles) : w = Insert(u) /\ u # t
          BY <2>4, <4>1 DEF Writes, Insert
        <5>2. w.item = u
          BY <5>1 DEF Insert
        <5> QED
          BY <1>0, <1>4, <4>1, <5>1, <5>2 DEF Finish, StoreLink, Typed, TypeOK
      <4>2. CASE w.op # "insertLink"
        BY <1>4, <4>2 DEF Finish, CommitChanges, StoreAdmin, StoreIntegration
      <4> QED
        BY <4>1, <4>2
    <3>2. left'[Insert(t)] = left[Insert(t)]
      BY <1>0, <2>1, <2>4
    <3> QED
      BY <1>0, <2>1, <3>1, <3>2 DEF Bounded
  <2> QED
    BY <2>3, <2>4
<1> QED
  BY <1>1, <1>2, <1>3, <1>4 DEF Next

\* A default link exists at most once for each instance and once more for each insert that a
\* start was cut off from and PostgreSQL still had, however often the instances restart.
THEOREM RestartsAddNone == Spec => []RestartsAddNoLinks
<1>1. Init => AllBounded
  <2> SUFFICES ASSUME Init, NEW t \in Names(Titles)
               PROVE  Bounded(t)
    BY DEF AllBounded
  <2>1. Insert(t) \in Writes
    BY DEF Writes
  <2> QED
    BY <2>1 DEF Init, Bounded
<1>2. Typed /\ AllBounded => RestartsAddNoLinks
  <2> SUFFICES ASSUME Typed, AllBounded, NEW t \in Names(Titles)
               PROVE  links[t] <= Cardinality(Instances) + brokenOff[t]
    BY DEF RestartsAddNoLinks
  <2>1. /\ Blind(t) \subseteq Instances /\ links[t] \in Nat /\ Bounded(t)
        /\ left[Insert(t)] \in Nat /\ brokenOff[t] \in Nat
    BY DEF Blind, Typed, TypeOK, AllBounded, Writes
  <2> QED
    BY <2>1, BlindFacts DEF Bounded
<1> QED
  BY <1>1, <1>2, InitType, TypeStep, BoundedStep, PTL DEF Spec
===============================================================================
