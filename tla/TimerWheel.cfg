SPECIFICATION FairSpec
CONSTANTS
    TimerArgs <- SoundArgs
    MaxNow = 4
    MaxTimers = 2
    MaxPollMs = 3
INVARIANTS TypeOK OneNodePerTimer PollNotLate
PROPERTIES CancelledNeverFires FiringsSpaced OverdueServed
CHECK_DEADLOCK FALSE
