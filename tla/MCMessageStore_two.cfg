CONSTANTS
    Comet = {c1, c2}
    m1 = m1
    m2 = m2
    m3 = m3
    r1 = r1
    r2 = r2
    Msg <- ThreeMessages
    Room <- TwoRooms
    RoomOf <- ThreeRoomOf
    Quoted <- OneQuoted
    Batch = 2
    Faults = {"redis", "mysql", "reply", "crash"}
    MaxFaults = 2

SPECIFICATION Spec

INVARIANTS
    PersistedFromStream
    Conservation
