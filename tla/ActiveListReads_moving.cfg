SPECIFICATION ReadSpec
CONSTANTS
  c1 = c1  o1 = o1  o2 = o2  o3 = o3  a = a  b = b  c = c
  Obj <- Objects
  NumPrograms = 1
  MRID = {a, b, c}
  NoMRID = NoMRID
  PostHref = {}
  NoHref = NoHref
  Interval <- Overlapping
  NoInterval = NoInterval
  NoTime = NoTime
  PostStatus = {"None"}
  Configured <- OneProgram
  ConfiguredHref <- ControlHref
  NoObj = NoObj
  NoProgram = NoProgram
  MaxSkip = 2
  Horizon = 5
  Replacing = FALSE
INVARIANTS AnswerDistinct MissedOnlyByRemovals ToldTrue
SYMMETRY PostedObjects
