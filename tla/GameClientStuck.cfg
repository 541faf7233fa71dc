\* The server ticks faster than the drain loop times out, as 33 ms and 80 ms do.
SPECIFICATION FairSpec
CONSTANTS
    Addrs = {me, a1}
    MyAddrs = {me}
    Me = me
    IdSpace = 3
    ScoreSpace = 2
    MaxSeq = 1
    kFullHp = 1
    kFireDamage = 1
    kRespawnMs = 400
    kMatchSec = 1
    TickMs = 250
    Significand = 1024
    One = 2048
    CountSpace = 2
    LenSpace = 65536
    kMaxChat = 2
    kMaxName = 1
    MaxInputs = 1
    kClientBuf = 70
    kMaxDatagramSize = 65507
    UnitMs = 250
    kJoinWait = 2
    kDrainWait = 2
    kSleep = 1
    kPingWait = 1
    MaxNet = 2
    MaxExtra = 0
    MaxMoves = 0
PROPERTIES PingFollows
