SPECIFICATION FairSpec
CONSTANTS
  Player = player
  Controllers = {monitor}
  Setters = {}
  Metadata = {m1}
  DefaultMeta = m1
  NoMeta = NoMeta
  Thread = thread
  None = None
  MaxCmds = 2
PROPERTIES
  CallbackArrives
CHECK_DEADLOCK FALSE
