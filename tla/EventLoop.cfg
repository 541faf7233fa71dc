SPECIFICATION PromptSpec
CONSTANTS
    Threads = {t1, t2}
    Tasks = {k1, k2, k3}
    Channels = {c1}
    Wakeup = Wakeup
INVARIANTS TypeOK NoLostWakeup
PROPERTIES ExecutorSpec PromptExecution QuitExits
CHECK_DEADLOCK FALSE
