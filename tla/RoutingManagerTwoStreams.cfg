SPECIFICATION Spec
CONSTANTS
  Streams = {s1, s2}
  Devices = {d1, d2}
  Routable = {d1, d2}
  Default = d1
  Setter = setter
  Event = event
  Router = router
  Closer = closer
  None = none
  AccessFails = FALSE
  MaxRequests = 1
  MaxPosts = 2
PROPERTY MixerUnderLock
CHECK_DEADLOCK FALSE
