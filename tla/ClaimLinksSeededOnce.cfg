\* Two instances that start together, no crash.
SPECIFICATION Spec
CONSTANTS
  i1 = i1
  i2 = i2
  Instances = {i1, i2}
  Files <- MCFiles
  Kinds <- MCKinds
  Titles <- MCTitles
  Bootstraps = TRUE
  Probes = TRUE
  MaxCrashes = 0
  MaxLeft = 0
INVARIANT
  LinksSeededOnce
\* Once every instance listens and the bound on crashes is used nothing is left to do.
CHECK_DEADLOCK FALSE
