\* The client's buffer holds a snapshot of one player, the player count wraps at 2,
\* a match is two ticks.  A tick sends two datagrams and takes longer than two
\* time-outs of the drain loop.
SPECIFICATION FairSpec
CONSTANTS
    Addrs = {m1, m2, a1}
    MyAddrs = {m1, m2}
    Me = m1
    IdSpace = 3
    ScoreSpace = 2
    MaxSeq = 2
    kFullHp = 1
    kFireDamage = 1
    kRespawnMs = 400
    kMatchSec = 1
    TickMs = 999
    Significand = 2048
    One = 2048
    CountSpace = 2
    LenSpace = 65536
    kMaxChat = 2
    kMaxName = 1
    MaxInputs = 1
    kClientBuf = 70
    kMaxDatagramSize = 65507
    UnitMs = 333
    kJoinWait = 2
    kDrainWait = 1
    kSleep = 1
    kPingWait = 1
    MaxNet = 2
    MaxExtra = 2
    MaxMoves = 2
INVARIANTS TypeOK Faithful OwnPlayerShown
PROPERTIES ClientFinishes
VIEW View
