\* Two threads insert and remove: an insertion is lost.
SPECIFICATION Spec
CONSTANTS
  Thread = {t1, t2}
  Mutator = {t1, t2}
  Depth = 1
  MaxId = 2
  DtorUnsub = FALSE
INVARIANTS NoLostElement
