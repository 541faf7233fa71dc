SPECIFICATION FairSpec
CONSTANTS
    Others = {t1}
    MaxIn = 3
    SndCap = 1
    MaxRemovals = 3
INVARIANTS TypeOK EchoInOrder Armed FinAfterData
PROPERTIES EchoDelivered ShutdownCompletes
CHECK_DEADLOCK FALSE
