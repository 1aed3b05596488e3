\* An element whose destructor unsubscribes.
SPECIFICATION FairSpec
CONSTANTS
  Thread = {t1}
  Mutator = {t1}
  Depth = 2
  MaxId = 2
  DtorUnsub = TRUE
CHECK_DEADLOCK FALSE
PROPERTIES BlockerGetsIn
