\* Two connections at a time, one killed client, creations that fail.
SPECIFICATION SockFairSpec
CONSTANTS
  c1 = c1
  c2 = c2
  Conn = {c1, c2}
  Main = Main
  Nobody = Nobody
  Backlog = 1
  CreateFails = TRUE
  Calls <- CallsOfTwo
  Key = {7}
  MaxVec = 2
  Vectors <- FullVector
  Str <- TextAndSplit
  Points <- OnePoint
  Stray <- StrayCounts
  Garbage = {0}
  MaxDeaths = 1
INVARIANTS
  AcceptInv
  SockInv
  CallsAreRunAsAsked
  OverrunsHaveACause
PROPERTY
  CallsReturn
CHECK_DEADLOCK FALSE
