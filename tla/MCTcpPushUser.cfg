SPECIFICATION PushSpec
CONSTANTS
    Sockets = {s1, s2}
    Objects = {o1, o2}
    Users = {u1, u2}
    MaxConns = 1
    Pushers = {p1}
    NoSocket = NoSocket
    NoObject = NoObject
    NoUser = NoUser
INVARIANT
    SentToUserOnly
