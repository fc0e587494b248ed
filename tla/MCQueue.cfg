\* Two producers, two workers and four items: while both workers are at
\* work, and may stay there, an item can wait.
CONSTANTS
  Producers = {p1, p2}
  Consumers = {c1, c2}
  Nodes = {n1, n2, n3, n4}
  NULL = NULL
SPECIFICATION FairSpec
INVARIANTS TypeOK ListConsistent NoLostWakeup
PROPERTIES ImplementsFifo EveryItemTaken
CHECK_DEADLOCK FALSE
