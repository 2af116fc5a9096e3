SPECIFICATION Spec
CONSTANTS
  x = x  y = y  z = z  d1 = d1  d2 = d2
  Name = {x, y, z}
  NoName = NoName
  Id = {d1, d2}
  ConfigFile <- Files
INVARIANTS ProgramsAssigned
CHECK_DEADLOCK FALSE
