\* One request, one key; three registry changes and a crash around it.
SPECIFICATION Spec
CONSTANTS
  r1 = r1
  r2 = r2
  s1 = s1
  s2 = s2
  k1 = k1
  k2 = k2
  logs = logs
  Requests = {r1}
  Sources = {s1}
  Keys = {k1}
  Signals = {logs}
  Owner <- MCOneKeyOwner
  NoKey = NoKey
  None = None
  MaxChanges = 3
  MaxCrashes = 1
INVARIANTS
  TypeOK
  ForwardAuthorised
  ResultMatchesDelivery
  AuditTrail
  DenialJustified
  CountersAgree
PROPERTIES
  EveryRequestEnds
  KeepsThePromise
\* The requests are finitely many: the instance stops when all are done.
CHECK_DEADLOCK FALSE
