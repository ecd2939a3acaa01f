\* Two clients, two ports, and one death, of a client or of the server.
SPECIFICATION PeersSpec
CONSTANTS
  User = {u1, u2}
  Caller = {u1, u2}
  File = {}
  Addr = {p1, p2}
  NoAddr = NoAddr
  NoArg = NoArg
  Commands = {"REGISTER", "UNREGISTER", "CONNECT", "DISCONNECT", "GET_FILE"}
  Sharers = {u1}
  Leavers = {u1}
  MaxFaults = 1
INVARIANTS
  PeersTypeOK
  GetFileKeepsItsWord
PROPERTY
  ReachableUntilUndone
CHECK_DEADLOCK FALSE
