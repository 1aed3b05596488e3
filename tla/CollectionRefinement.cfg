\* One thread inserts and removes, both notify, two levels of calls, from
\* functors and from destructors of elements; the latter can hang.
SPECIFICATION Spec
CONSTANTS
  Thread = {t1, t2}
  Mutator = {t1}
  Depth = 2
  MaxId = 3
  DtorUnsub = TRUE
CHECK_DEADLOCK FALSE
INVARIANTS NoUseAfterFree NoLostElement RemoveTakesEffect DestroyFreesAll
PROPERTIES OwnRemovalHolds ImplementsObserverSet
