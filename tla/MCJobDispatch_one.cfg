SPECIFICATION Spec
CONSTANTS
    p1 = p1
    p2 = p2
    i0 = i0
    i1 = i1
    m1 = m1
    m2 = m2
    r1 = r1
    k1 = k1
    k2 = k2
    Nothing = Nothing
    Process = {p1}
    Index = {i0, i1}
    Msg = {m1, m2}
    Room = {r1}
    RoomOf <- TwoInOneRoom
    Comet = {k1}
    DedupTTL = 3
    CooldownTTL = 1
    LockTTL = 2
    Faults = {"lost", "reply", "redeliver", "crash"}
    MaxFaults = 1
    MaxTime = 3
SYMMETRY Alike
CHECK_DEADLOCK FALSE
INVARIANTS
    
    LockReturned
    
PROPERTIES
    ReleaseOwn
    CooldownSpacing
