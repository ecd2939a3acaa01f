\* One connection; the server may stop while a call is under way.
SPECIFICATION SockSpec
CONSTANTS
  c1 = c1
  c2 = c2
  Conn = {c1}
  Main = Main
  Nobody = Nobody
  Backlog = 1
  CreateFails = FALSE
  Calls <- CallsOfOne
  Key = {7}
  MaxVec = 2
  Vectors <- FullVector
  Str <- Text
  Points <- OnePoint
  Stray <- StrayCounts
  Garbage = {0}
  MaxDeaths = 0
INVARIANT
  AnswersAreResults
CHECK_DEADLOCK FALSE
