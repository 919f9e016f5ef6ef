CONSTANTS
  Thread = {t1, t2, t3}
  Owner = t1
  Addr = {a1, a2}
  NULL = NULL
  Value = {v1, v2}
  MaxOps = 4
  MaxCount = 6
SPECIFICATION Spec
SYMMETRY Symmetry
INVARIANTS
  TypeOK
  NoDangling
  CountsAgree
  NoLeak
PROPERTIES
  IsStack
CHECK_DEADLOCK FALSE
