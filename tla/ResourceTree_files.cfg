SPECIFICATION TreeSpec
CONSTANTS
  x = x  y = y  z = z  d1 = d1  d2 = d2  d3 = d3
  Name = {x, y, z}
  NoName = NoName
  Id = {d1, d2, d3}
  ConfigFile <- Files
  Offered <- Documents
  OwnHref <- Elsewhere
  NoHref = NoHref
INVARIANTS DevicesRegistered ControlsAsConfigured FirstDeviceServed LinksLead AnswersComplete PagesCover
CHECK_DEADLOCK FALSE
