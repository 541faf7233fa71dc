SPECIFICATION FairSpec
CONSTANTS
    Others = {}
    MaxIn = 1
    SndCap = 1
    MaxRemovals = 2
PROPERTY SessionEnds
CHECK_DEADLOCK FALSE
