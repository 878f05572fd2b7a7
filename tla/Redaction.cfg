\* Every graph of three nodes; the depth limit is one, so the third level is below it.
SPECIFICATION Spec
CONSTANTS
  n1 = n1
  n2 = n2
  n3 = n3
  Nodes = {n1, n2, n3}
  Root = n1
  Keys <- MCKeys
  SensitiveWords <- MCSensitiveWords
  Separators = {"-", "_"}
  MaxDepth = 1
  None = None
INVARIANT
  RowIsRedactedCopy
\* One event is recorded: the instance stops after it.
CHECK_DEADLOCK FALSE
