SPECIFICATION Spec
CONSTANTS
    Loops = {l1, l2}
    Tasks = {t1, t2}
INVARIANTS FrameKept
CHECK_DEADLOCK FALSE
