\* A batch, a readiness check and a probe over one connection, two signals.
SPECIFICATION Spec
CONSTANTS
  batch = batch
  check = check
  tick = tick
  Ingestions = {batch}
  Checks = {check}
  Probes = {tick}
  Statements <- MCStatements
  MaxConnections = 1
  None = None
  MaxSignals = 2
INVARIANTS
  TypeOK
  PoolCoherent
  GracefulShutdown
  RunningStatementsFinish
  ReadinessIsThePing
PROPERTIES
  RequestsEnd
  StopsWhenAsked
\* The container is gone for good when it has stopped.
CHECK_DEADLOCK FALSE
