CONSTANTS
  root = root
  group = group
  c1 = c1
  c2 = c2
  r1 = r1
  r2 = r2
  Mux <- MCMux
  Root = root
  Caller <- MCCaller
  Request <- MCRequest
  MaxListens = 2
SPECIFICATION FairSpec
INVARIANT StaysDrained
PROPERTY ShutdownReturns
CHECK_DEADLOCK FALSE
