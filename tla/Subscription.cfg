\* Two threads, handles that are moved, shared and destroyed, two collections, one observer.
SPECIFICATION FairSpec
CONSTANTS
  Thread = {t1, t2}
  Handle = {h1, h2}
  Copy = {c1, c2}
  Observer = {d1}
  Heap = {k1, k2}
  None = None
  Overlap = FALSE
INVARIANTS TypeOK CollectionOutlivesRemove CalledOnce NoneStranded
PROPERTY SetMeansRemoved
\* In the end every subject and subscription may be gone.
CHECK_DEADLOCK FALSE
