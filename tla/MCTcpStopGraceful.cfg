SPECIFICATION Spec
CONSTANTS
    Sockets = {s1, s2}
    Objects = {o1, o2}
    Users = {}
    MaxConns = 1
    NoSocket = NoSocket
    NoObject = NoObject
    NoUser = NoUser
INVARIANT
    StopIsGraceful
