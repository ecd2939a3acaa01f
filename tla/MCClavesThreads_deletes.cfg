SPECIFICATION ThreadsSpec
CONSTANTS
  Key = {k1, k2, k3}
  Value = {v1, v2}
  v1 = v1
  v2 = v2
  NoKey = NoKey
  NoValue = NoValue
  Printed <- MCPrinted
  Thread = {t1, t2}
  Inode = {i1, i2, i3, i4}
  NoInode = NoInode
  GetChecksExist = TRUE
  Faults = FALSE
  Calls = {"set_value", "delete_key"}
  MaxLines = 3
SYMMETRY MCSymmetry
VIEW MCView
INVARIANTS
  AckedTuplesStay
