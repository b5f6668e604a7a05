SPECIFICATION CallSpec
CONSTANTS
  Accessors = {t1}
  Users = {framework, monitor, rx, tx, media}
  Usecases = {fm, call}
  Fm = fm
  Call = call
  Records = {}
  Framework = framework
  Monitor = monitor
  Rx = rx
  Tx = tx
  MaxPosts = 2
INVARIANTS
  CountIsKept AccessIsAwake UsecaseIsAwake IdleSleeps
  StandbyMatches HangUpWins StatusMatches
CONSTRAINT Explored
