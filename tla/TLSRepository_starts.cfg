SPECIFICATION FairSpec
CONSTANTS
  d1 = d1  d2 = d2
  Device = {d1, d2}
  Configuration <- Files
  SubjectOf <- Subjects
  MaxFaults = 3
INVARIANTS TypeOK IssuedSound ServesIssued
PROPERTIES ClearRepairs
