\* Two clients and two ports; nobody dies.
SPECIFICATION PeersFairSpec
CONSTANTS
  User = {u1, u2}
  Caller = {u1, u2}
  File = {}
  Addr = {p1, p2}
  NoAddr = NoAddr
  NoArg = NoArg
  Commands = {"REGISTER", "UNREGISTER", "CONNECT", "DISCONNECT", "GET_FILE"}
  Sharers = {u1}
  Leavers = {u1}
  MaxFaults = 0
PROPERTIES
  CommandsReturn
  StopsListening
CHECK_DEADLOCK FALSE
