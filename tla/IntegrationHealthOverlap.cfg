\* One integration, two overlapping runs, a clock of three times, a crash.
SPECIFICATION Spec
CONSTANTS
  loki = loki
  run1 = run1
  run2 = run2
  Integrations = {loki}
  Runs = {run1, run2}
  None = None
  MaxClock = 2
  MaxCrashes = 1
SYMMETRY RunSymmetry
INVARIANTS
  TypeOK
  RowCoherent
  ShownAfterCheck
