SPECIFICATION Spec
CONSTANTS
  Streams = {p1}
  Offload = {}
  Controllers = {}
  Monitor = monitor
  None = none
  Keys <- NoKeys
INVARIANT AllInStandby
