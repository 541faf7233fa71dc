SPECIFICATION FairSpec
CONSTANTS
    ThreadCounts <- NoneOneTwo
    Limits <- OneTwo
    Fds <- TwoFds
    Clients = {c1, c2, c3}
    MaxCloses = 2
INVARIANTS TypeOK FdsAccounted TableExact
PROPERTIES Served ClosedReaped
CHECK_DEADLOCK FALSE
