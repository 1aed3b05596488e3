\* remove() marks the node between the check of its flag and the call.
SPECIFICATION Spec
CONSTANTS
  Thread = {t1, t2}
  Mutator = {t1, t2}
  Depth = 1
  MaxId = 2
  DtorUnsub = FALSE
PROPERTIES RemovedIsNotCalled
