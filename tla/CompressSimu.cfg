SPECIFICATION Spec
CONSTANTS
    MaxSrc = 2
    Fragment = 1
    MaxPcm = 2
    MaxCmds = 1
    MaxAsked = 1
INVARIANTS
    StateMatchesDecoder
    PausedIsQuiet
    AnswerComes
    SleeperHasWaker
    PartialDecoded
    DrainPlaysOut
    SongHasEnd
PROPERTY HalObeysDriver
CHECK_DEADLOCK FALSE
