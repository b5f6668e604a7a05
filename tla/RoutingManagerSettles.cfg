SPECIFICATION Spec
CONSTANTS
  Streams = {s1}
  Devices = {d1, d2}
  Routable = {d1, d2}
  Default = d1
  Setter = setter
  Event = event
  Router = router
  Closer = closer
  None = none
  AccessFails = FALSE
  MaxRequests = 3
  MaxPosts = 2
INVARIANT NoLostWakeup
INVARIANT CommandsOwned
INVARIANT RoutedAsAsked
INVARIANT PlayingIsHeard
CHECK_DEADLOCK FALSE
