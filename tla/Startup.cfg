\* Two instances on an empty database, each of which migrates or does not, one crash.
SPECIFICATION Spec
CONSTANTS
  i1 = i1
  i2 = i2
  Instances = {i1, i2}
  Files <- MCFiles
  Kinds <- MCKinds
  Titles <- MCTitles
  Bootstraps = TRUE
  Probes = TRUE
  MaxCrashes = 1
  MaxLeft = 1
INVARIANTS
  TypeOK
  MigrationsOnceInOrder
  OneBootstrapAdmin
  ReadyWhenListening
  RestartsAddNoLinks
PROPERTY
  EventuallyListening
\* Once every instance listens and the bound on crashes is used nothing is left to do.
CHECK_DEADLOCK FALSE
