SPECIFICATION FairSpec
CONSTANTS
    Threads = {p1, p2}
    Levels = {1, 2}
    MaxLines = 3
INVARIANTS TypeOK LinesKept
PROPERTIES LinesWritten
CHECK_DEADLOCK FALSE
