SPECIFICATION Spec
CONSTANTS
  c1 = c1  c2 = c2  c3 = c3
  Client <- Clients
  Proxied <- BehindProxy
  Nobody = Nobody
  MaxCalls <- Bounds
  Methods <- Uses
INVARIANTS OutcomesTrue BrokenForGood
PROPERTIES CallsEnd
CHECK_DEADLOCK FALSE
