\* One creation whose seeding is cut short.
SPECIFICATION Spec
CONSTANTS
  a1 = a1
  a2 = a2
  s1 = s1
  slotA = slotA
  slotB = slotB
  name = name
  status = status
  plain = plain
  other = other
  Requests = {a1}
  Existing = {s1}
  Slots = {slotA, slotB}
  TakenBy <- MCTakenBy
  Fields = {name, status}
  Values = {plain, other}
  Default = plain
  StatusField = status
  None = None
  MaxCrashes = 0
INVARIANT
  SourcesHaveRoutes
\* The requests are finitely many: the instance stops when all are done.
CHECK_DEADLOCK FALSE
