\* One connection; the server dies twice, between any two steps.
SPECIFICATION FairSpec
CONSTANTS
  Key = {k1, k2}
  Value = {v2, v3}
  v1 = v1
  v2 = v2
  v3 = v3
  NoKey = NoKey
  NoValue = {v2, v3}
  Printed <- MCPrinted
  Thread = {t1}
  Inode = {i1, i2}
  NoInode = {i1, i2}
  GetChecksExist = TRUE
  Faults = FALSE
  Client = {c1}
  NoThread = NoThread
  Dispatchers = 1
  MaxCrashes = 2
INVARIANTS
  IInv
  RInv
PROPERTIES
  ImplementsTupleStore
  RequestsAreAnswered
