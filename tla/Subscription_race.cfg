\* release() and unsubscribe() in parallel on one handle.
SPECIFICATION Spec
CONSTANTS
  Thread = {t1, t2}
  Handle = {h1}
  Copy = {c1}
  Observer = {d1}
  Heap = {k1}
  None = None
  Overlap = TRUE
INVARIANT NoDataRace
\* In the end every subject and subscription may be gone.
CHECK_DEADLOCK FALSE
