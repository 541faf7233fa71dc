SPECIFICATION FairSpec
CONSTANTS
    Shapes <- AllShapes
    MaxRequests = 1
    kInitialSize = 3
    kCheapPrepend = 1
    kMaxCapacity = 40
    kExtraSize = 4
PROPERTIES PartialWaits
CHECK_DEADLOCK FALSE
