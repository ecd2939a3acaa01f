\* Two clients, a queue with room for one request, one death (of a client or of
\* the server), creations that fail: all calls may be without a thread, and the
\* system stopped for good.
SPECIFICATION MqFairSpec
CONSTANTS
  Pid = {p1, p2}
  Thread = {t1, t2}
  Main = Main
  Nobody = Nobody
  NoMessage = NoMessage
  QueueMax = 1
  CreateFails = TRUE
  Mortal = {p1}
  MaxDeaths = 1
INVARIANTS
  HandoffInv
  OnePlace
  RepliesAreOwnWithoutReuse
PROPERTIES
  CallsReturn
CHECK_DEADLOCK FALSE
