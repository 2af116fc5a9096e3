SPECIFICATION Spec
CONSTANTS
  d1 = d1  d2 = d2  m1 = m1  m2 = m2  r1 = r1  r2 = r2  v1 = v1  v2 = v2
  Device = {d1, d2}
  MRID = {m1, m2}
  PointOf <- OwnMeter
  ReadingMRID = {r1}
  Value = {v1, v2}
  Payload = {p}
  Embedded <- OneReading
  NoHref = NoHref
  NoValue = NoValue
  Idle = Idle
INVARIANTS Lockstep OwnPoint ToldStored
PROPERTIES RegistrySpec
