SPECIFICATION FairSpec
CONSTANTS
  Streams = {p1}
  Offload = {}
  Controllers = {c1}
  Monitor = monitor
  None = none
  Keys <- TwoKeys
INVARIANTS BypassCurrent PipeTellsTruth
PROPERTY CallsReturn
