SPECIFICATION ThreadsSpec
CONSTANTS
  Key = {k1, k2}
  Value = {v1, v2}
  v1 = v1
  v2 = v2
  NoKey = NoKey
  NoValue = NoValue
  Printed <- MCPrinted
  Thread = {t1}
  Inode = {i1, i2, i3}
  NoInode = NoInode
  GetChecksExist = TRUE
  Faults = TRUE
  Calls = {"destroy", "set_value", "get_value", "modify_value", "delete_key", "exist"}
  MaxLines = 3
SYMMETRY MCSymmetry
VIEW MCView
INVARIANTS
  FailedCallsChangeNothing
  StreamsClosed
