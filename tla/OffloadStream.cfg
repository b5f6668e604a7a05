SPECIFICATION FairSpec
CONSTANTS
  Player = player
  Controllers = {monitor}
  Setters = {setter}
  Metadata = {m1}
  DefaultMeta = m1
  NoMeta = NoMeta
  Thread = thread
  None = None
  MaxCmds = 1
INVARIANTS
  CallHandleLive
  WriteHasDevice
  StandbyMatchesHandle
  StateMatchesDevice
  ClosedIsClean
PROPERTIES
  ObeysDriver LoneWakeups LoneStopReturns LoneCloseCompletes UnforcedCallback
CHECK_DEADLOCK FALSE
