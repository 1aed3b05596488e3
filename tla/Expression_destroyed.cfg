\* A value is moved over one that nodes read, and is destroyed.
SPECIFICATION Spec
CONSTANTS
  Object = {"a", "r", "s"}
  Given = {"a"}
  Node = {"m", "c", "i", "ia", "j", "ja"}
  Path <- MCPath
  Operand <- MCOperand
  Immediate = {"i"}
  Watcher = {w1}
  Datum = {0, 1}
  Input = {0, 1}
  Op <- MCOp
  NoNode = "none"
  NoObject = "none"
  MaxCalls = 3
INVARIANT NoReadOfDestroyed
