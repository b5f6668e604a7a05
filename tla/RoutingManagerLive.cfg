SPECIFICATION FairSpec
CONSTANTS
  Streams = {s1}
  Devices = {d1, d2}
  Routable = {d1}
  Default = d1
  Setter = setter
  Event = event
  Router = router
  Closer = closer
  None = none
  AccessFails = TRUE
  MaxRequests = 1
  MaxPosts = 2
PROPERTY StreamReturns
PROPERTY RequestServed
PROPERTY CloseCompletes
CHECK_DEADLOCK FALSE
