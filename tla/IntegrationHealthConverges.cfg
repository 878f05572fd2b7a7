\* One integration, two overlapping runs, a crash.
SPECIFICATION Spec
CONSTANTS
  loki = loki
  run1 = run1
  run2 = run2
  Integrations = {loki}
  Runs = {run1, run2}
  None = None
  MaxClock = 0
  MaxCrashes = 1
PROPERTY
  StatusConverges
