SPECIFICATION Spec
CONSTANTS
    u = u
    v = v
    w = w
    c1 = c1
    c2 = c2
    g1 = g1
    g2 = g2
    r1 = r1
    r2 = r2
    Users <- MCUsers
    Banned <- MCBanned
    Conns <- MCConns
    Gateway <- MCGateway
    Calls <- MCCalls
    SessionTTL = 2
    OnlineTTL = 2
    MaxTime = 2
    MaxFaults = 1
    MaxLogins = 2
    NoUser = NoUser
    NoToken = NoToken
    NoCall = NoCall
SYMMETRY MCSymmetry
INVARIANTS TypeOK TokenOpensOwnSession PresenceHasReason
PROPERTIES OnlyIssueCreates HeldTokenWorks
