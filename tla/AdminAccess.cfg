\* A login and another request, one admin, three changes of accounts or sessions, a crash.
SPECIFICATION Spec
CONSTANTS
  q1 = q1
  q2 = q2
  q3 = q3
  ana = ana
  bob = bob
  Requests = {q1, q2}
  Admins = {ana}
  NoToken = NoToken
  Forged = Forged
  None = None
  MaxChanges = 3
  MaxCrashes = 1
SYMMETRY Symmetry
INVARIANTS
  TypeOK
  AccessJustified
  SessionsEarned
  DenialsJustified
  AdminAuditTrail
\* The requests are finitely many: the instance stops when all are done.
CHECK_DEADLOCK FALSE
