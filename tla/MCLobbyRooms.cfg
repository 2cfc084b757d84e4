SPECIFICATION Spec
CONSTANTS
    u1 = u1
    u2 = u2
    u3 = u3
    r1 = r1
    r2 = r2
    NoDocument = NoDocument
    Users <- TwoUsers
    Requests <- TwoSlots
    Capacities <- PairRooms
    LastRoomID = 1000
    ListBound = 2
    CountBound = 0
    MaxRestarts = 1
    StoreFails = TRUE
    NoUser = NoUser
    NoRoom = NoDocument
SYMMETRY SlotAndUserSymmetry
INVARIANTS
    TypeOK
    RoomConsistent
    ChecksStillApply
PROPERTIES
    RoomKeepsIdentity
    OnlyCreateAddsRooms
    RepliesAreTrue
