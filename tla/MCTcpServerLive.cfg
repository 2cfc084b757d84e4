SPECIFICATION FairSpec
CONSTANTS
    Sockets = {s1, s2}
    Objects = {o1, o2}
    Users = {u1}
    MaxConns = 1
    NoSocket = NoSocket
    NoObject = NoObject
    NoUser = NoUser
PROPERTIES
    StopTerminates
    ImplementsRegistry
