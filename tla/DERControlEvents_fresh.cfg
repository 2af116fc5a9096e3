SPECIFICATION FairSpec
CONSTANTS
  c1 = c1  o1 = o1  o2 = o2  o3 = o3  a = a  b = b
  Obj <- Objects3
  NumPrograms = 2
  MRID = {a, b}
  NoMRID = NoMRID
  PostHref = {}
  NoHref = NoHref
  Interval <- Intervals
  NoInterval = NoInterval
  NoTime = NoTime
  PostStatus = {"None"}
  Configured <- OneEmptyProgram
  ConfiguredHref <- ControlHref
  NoObj = NoObj
  MaxSkip = 2
  Horizon = 5
  Replacing = FALSE
INVARIANTS ActiveListed DeathIsIncomplete PassIsExact
PROPERTIES LifecycleSpec Served Withdrawn
CHECK_DEADLOCK FALSE
