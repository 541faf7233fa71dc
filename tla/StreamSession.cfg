SPECIFICATION FairSpec
CONSTANTS
    Shapes <- AllShapes
    MaxRequests = 2
    kInitialSize = 3
    kCheapPrepend = 1
    kMaxCapacity = 40
    kExtraSize = 4
INVARIANTS TypeOK AnswersInOrder FramingKept
PROPERTIES Answered
CHECK_DEADLOCK FALSE
