\* A request to stop that comes while Ophir starts.
SPECIFICATION Spec
CONSTANTS
  batch = batch
  check = check
  tick = tick
  Ingestions = {batch}
  Checks = {check}
  Probes = {tick}
  Statements <- MCStatements
  MaxConnections = 1
  None = None
  MaxSignals = 1
PROPERTY
  AskedToStopStops
\* The container is gone for good when it has stopped.
CHECK_DEADLOCK FALSE
