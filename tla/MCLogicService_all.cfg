SPECIFICATION FairSpec
CONSTANTS
    c1 = c1
    c2 = c2
    m1 = m1
    m2 = m2
    m3 = m3
    p1 = p1
    p2 = p2
    Msg = {m1, m2, m3}
    Client = {c1, c2}
    Sends <- TwoSends
    Incomplete = {m3}
    Partition = {p1, p2}
    QueueMax = 1
    MaxFaults = 2
INVARIANTS
    Ledger
    AcceptedWhole
    PassedHandled
\* every request was read, every record handled
CHECK_DEADLOCK FALSE
PROPERTY
    AcceptedArrives
