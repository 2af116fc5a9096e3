SPECIFICATION Spec
CONSTANTS
  c1 = c1  o1 = o1  o2 = o2  o3 = o3  a = a  b = b
  Obj <- Objects
  NumPrograms = 1
  MRID = {a}
  NoMRID = NoMRID
  PostHref = {}
  NoHref = NoHref
  Interval <- FewIntervals
  NoInterval = NoInterval
  NoTime = NoTime
  PostStatus = {"None"}
  Configured <- OneEmptyProgram
  ConfiguredHref <- ControlHref
  NoObj = NoObj
  MaxSkip = 2
  Horizon = 5
  Replacing = TRUE
INVARIANTS CompleteUnlisted
CHECK_DEADLOCK FALSE
