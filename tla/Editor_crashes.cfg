SPECIFICATION Spec
CONSTANTS
  a = a  b = b
  Id = {a, b}
  Loadable <- Loadables
  Absent = Absent  Empty = Empty  Unknown = Unknown  None = None  Text = Text
  MaxItems <- Bounds
INVARIANTS Journaled
PROPERTIES RestoreRecovers RestoresWhole
CHECK_DEADLOCK FALSE
