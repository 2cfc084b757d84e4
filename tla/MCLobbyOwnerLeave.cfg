SPECIFICATION Spec
CONSTANTS
    u1 = u1
    u2 = u2
    u3 = u3
    r1 = r1
    r2 = r2
    NoDocument = NoDocument
    Users <- TwoUsers
    Requests <- OneSlot
    Capacities <- PairRooms
    LastRoomID = 1000
    ListBound = 3
    CountBound = 0
    MaxRestarts = 0
    StoreFails = FALSE
    NoUser = NoUser
    NoRoom = NoDocument
PROPERTY
    LeaverIsGone
