SPECIFICATION Spec
CONSTANTS
    Sockets = {s1, s2, s3}
    Objects = {o1, o2, o3}
    Users = {}
    MaxConns = 2
    NoSocket = NoSocket
    NoObject = NoObject
    NoUser = NoUser
SYMMETRY Symmetry
INVARIANTS
    TypeOK
    ObjectExclusive
    MapMatchesHandlers
    ConnectionLimit
    NoLeakedSocket
    StopLeavesNothing
