SPECIFICATION Spec
CONSTANTS
  Streams = {o1, p1, p2}
  Offload = {o1}
  Controllers = {}
  Monitor = monitor
  None = none
  Keys <- NoKeys
INVARIANTS QuietWhenBypassed OneStreamPerKind ClosedUnused
SYMMETRY Symmetry
