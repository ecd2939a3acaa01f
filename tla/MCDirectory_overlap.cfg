\* Two commands of two users overlap in every way.
SPECIFICATION DirSpec
CONSTANTS
  User = {u1, u2}
  File = {f1}
  Addr = {a1}
  NoAddr = NoAddr
  NoArg = NoArg
  Thread = {t1, t2}
  Inode = {1, 2, 3, 4, 5, 6, 7, 8, 9, 10, 11, 12}
  NoInode = 0
  Commands = {"REGISTER", "CONNECT"}
  MaxCrashes = 0
  MaxRaced = 0
  MayOverlap <- OfTwoUsers
INVARIANT
  ConnectedIsListed
CHECK_DEADLOCK FALSE
