SPECIFICATION Spec
CONSTANTS
    n1 = n1
    n2 = n2
    g1 = g1
    l1 = l1
    l = l
    a1 = a1
    a2 = a2
    a3 = a3
    NoNode = NoNode
    NoCopy = NoCopy
    NoCaller = NoCaller
    NoObject = NoObject
    Never = Never
    NoProducer = 0
    Nodes <- MCNodes
    Gone <- MCGone
    TypeOf <- MCTypeOf
    Types <- MCTypes
    TargetLists <- MCTargetLists
    Requests <- MCRequests
    Scripts <- MCScripts
    Producers = 2
    MaxAttempts = 2
    MaxRestarts = 2
    MaxFails = 2
    Services <- MCServicesFound
    TypeOfService <- MCTypeOfService
    OwnType = "gateway"
    Lookups = {l}
    MaxChanges = 2
    MaxErrors = 1
    Callers = {a1, a2, a3}
    MaxStarts = 2
    MailboxSize = 1
    Objects = {a1, a2, a3}
    IdOf <- MCIdOf
    Tellers = {l}
    MaxLives = 2
    Heartbeats = 1
    MaxPushes = 1
    MaxAddresses = 3
    Cooldowns = {2, 3}
    MaxRules = 2
    MaxTicks = 5
    Limit = 2
INVARIANTS TypeOK CommandAccounted QuietAfterStop FramesAligned StartupSound CooldownKept
PROPERTIES ShutdownArrives CacheCatchesUp ActorStopReturns ClientEnds
CHECK_DEADLOCK FALSE
