\* One client, which gives up calls: two connections at a time, two keys.
SPECIFICATION Spec
CONSTANTS
  Key = {k1, k2}
  Value = {v1, v2}
  v1 = v1
  v2 = v2
  v3 = v3
  NoKey = NoKey
  NoValue = NoValue
  Printed <- MCPrinted
  Thread = {t1, t2}
  Inode = {i1, i2, i3}
  NoInode = NoInode
  GetChecksExist = TRUE
  Faults = FALSE
  Client = {c1}
  NoThread = NoThread
  Dispatchers = 2
  MaxCrashes = 0
SYMMETRY MCSymmetry
VIEW MCView
INVARIANTS
  NoDuplicateKeys
  IInv
  RInv
PROPERTIES
  ImplementsTupleStore
