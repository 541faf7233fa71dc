SPECIFICATION Spec
CONSTANTS
    Addrs = {a1, a2, a3}
    IdSpace = 3
    ScoreSpace = 2
    MaxSeq = 2
    kFullHp = 2
    kFireDamage = 1
    kRespawnMs = 700
    kMatchSec = 2
    TickMs = 400
    Significand = 128
    One = 256
INVARIANTS TypeOK IndexConsistent HpConsistent MatchClock
PROPERTIES KillsAccounted RespawnDelayed MatchFrozen
SYMMETRY Symmetry
