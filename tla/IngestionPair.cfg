\* Two requests in flight, two keys of two sources, no registry change, a crash.
SPECIFICATION Spec
CONSTANTS
  r1 = r1
  r2 = r2
  s1 = s1
  s2 = s2
  k1 = k1
  k2 = k2
  logs = logs
  Requests = {r1, r2}
  Sources = {s1, s2}
  Keys = {k1, k2}
  Signals = {logs}
  Owner <- MCOwner
  NoKey = NoKey
  None = None
  MaxChanges = 0
  MaxCrashes = 1
INVARIANTS
  ForwardAuthorised
SYMMETRY Symmetry
CHECK_DEADLOCK FALSE
