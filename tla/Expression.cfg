\* Sets, reentrant observers, throws, updates, moves and destruction.
SPECIFICATION Spec
CONSTANTS
  Object = {"a", "r", "s"}
  Given = {"a"}
  Node = {"m", "c", "i", "ia", "j", "ja"}
  Path <- MCPath
  Operand <- MCOperand
  Immediate = {"i"}
  Watcher = {w1, w2}
  Datum = {0, 1}
  Input = {0, 1}
  Op <- MCOp
  NoNode = "none"
  NoObject = "none"
  MaxCalls = 3
SYMMETRY WatcherSymmetry
CONSTRAINT MCBound
INVARIANTS TypeOK NodeFollowsValue CleanIsCurrent ImmediateIsUpToDate UpdateAllSettles HeardIsCurrent
