SPECIFICATION ThreadsSpec
CONSTANTS
  Key = {k1, k2}
  Value = {v1, v2}
  v1 = v1
  v2 = v2
  NoKey = NoKey
  NoValue = NoValue
  Printed <- MCPrinted
  Thread = {t1, t2, t3}
  Inode = {i1}
  NoInode = NoInode
  GetChecksExist = FALSE
  Faults = FALSE
  Calls = {"set_value", "get_value", "exist"}
  MaxLines = 4
SYMMETRY MCSymmetry
VIEW MCView
INVARIANTS
  ThreadsTypeOK
  AckedTuplesStay
