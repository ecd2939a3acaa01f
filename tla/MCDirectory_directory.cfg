\* Two commands at a time, of the same user or of two, as far as they are compatible.
SPECIFICATION DirSpec
CONSTANTS
  User = {u1, u2}
  File = {f1}
  Addr = {a1}
  NoAddr = NoAddr
  NoArg = NoArg
  Thread = {t1, t2}
  Inode = {1, 2, 3, 4, 5, 6, 7, 8, 9, 10, 11, 12}
  NoInode = 0
  Commands = {"REGISTER", "UNREGISTER", "CONNECT", "DISCONNECT", "PUBLISH", "DELETE", "LIST_USERS", "LIST_CONTENT"}
  MaxCrashes = 1
  MaxRaced = 0
  MayOverlap <- Compatible
SYMMETRY MCSymmetry
VIEW MCView
INVARIANTS
  DirTypeOK
  NoLineTwice
PROPERTY
  ImplementsUserDirectory
CHECK_DEADLOCK FALSE
