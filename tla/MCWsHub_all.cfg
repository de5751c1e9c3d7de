SPECIFICATION Spec
CONSTANTS
    a1 = a1
    a2 = a2
    b1 = b1
    x1 = x1
    ann = ann
    bob = bob
    r1 = r1
    r2 = r2
    m1 = m1
    m2 = m2
    m3 = m3
    t1 = t1
    t2 = t2
    Nobody = Nobody
    Nothing = Nothing
    Absent = Absent
    Null = Null
    Loop = Loop
    Conn = {a1, a2, b1}
    User = {ann, bob}
    UserOf <- ThreeUserOf
    Room = {r1, r2}
    Msg = {m1, m2, m3}
    RoomOf <- StrayRoomOf
    Rpc = {t1, t2}
    DBInstances <- WithUserCentre
SYMMETRY Threads
INVARIANTS
    Delivery
    SubscribersRegistered
CHECK_DEADLOCK FALSE
