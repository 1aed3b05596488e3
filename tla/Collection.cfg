\* Two threads, one level of calls, any of them inserts and removes; fair.
SPECIFICATION FairSpec
CONSTANTS
  Thread = {t1, t2}
  Mutator = {t1, t2}
  Depth = 1
  MaxId = 2
  DtorUnsub = FALSE
INVARIANTS TypeOK SweepExcludesReaders NoUseAfterFree
PROPERTIES BlockerGetsIn EveryCallReturns
