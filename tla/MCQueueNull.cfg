\* One producer and one worker are enough for a get to find nothing.
CONSTANTS
  Producers = {p1}
  Consumers = {c1}
  Nodes = {n1, n2}
  NULL = NULL
SPECIFICATION Spec
INVARIANT GetFindsItem
CHECK_DEADLOCK FALSE
