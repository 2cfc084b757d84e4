--------------------------- MODULE TcpServerProofs ---------------------------
(***************************************************************************)
(* Theorems about TcpServer for every set of sockets, objects and users    *)
(* and every connection limit.                                             *)
(***************************************************************************)
EXTENDS TcpServer, FiniteSetTheorems, TLAPS

-----------------------------------------------------------------------------
(* The inductive invariant: the properties, and what the accept loop and   *)
(* the pool must hold for a step to preserve them.                         *)

\* The accept loop holds a socket exactly between Accept and the launch of its
\* handler, nobody else has that socket, and the object it has bound carries
\* that socket and the current ID.
AcceptHolds ==
    /\ acceptPC \in {"count", "get", "wait", "store", "spawn"} <=> acceptSock \in Sockets
    /\ acceptSock \in Sockets => handlerPC[acceptSock] = "none" /\ sock[acceptSock] # "new"
    /\ Admitting => /\ acceptObj \in made
                    /\ obj[acceptObj].sock = acceptSock
                    /\ obj[acceptObj].id = connCounter

\* Sockets no client has used yet have no handler.
NewUnused == \A s \in Sockets : sock[s] = "new" => handlerPC[s] = "none"

\* Idle objects and objects in use were made by the factory; nothing is ever
\* marked closed.
MadeObjects ==
    /\ idle \subseteq made
    /\ \A s \in Active : own[s] \in made
    /\ \A o \in Objects : ~obj[o].closed

\* IDs in the map have been given out; the ID the accept loop is about to
\* store is not there yet, the one it has just stored is.
FreshID ==
    /\ \A i \in DOMAIN connections : i <= connCounter
    /\ acceptPC \in {"get", "wait", "store"} => connCounter \notin DOMAIN connections
    /\ acceptPC = "spawn" => /\ connCounter \in DOMAIN connections
                             /\ connections[connCounter] = acceptObj

\* There is room for the connection the accept loop has admitted.
RoomForAdmitted ==
    /\ IsFiniteSet(DOMAIN connections)
    /\ ConnectionCount <= MaxConns
    /\ acceptPC \in {"get", "wait", "store"} => ConnectionCount < MaxConns

\* The server runs until Stop is called, and the listener is closed only then.
StopOrder ==
    /\ running <=> stopPC = "no"
    /\ running => listening

IndInv ==
    /\ TypeOK
    /\ AcceptHolds /\ NewUnused /\ MadeObjects
    /\ ObjectExclusive
    /\ MapMatchesHandlers /\ FreshID
    /\ RoomForAdmitted
    /\ NoLeakedSocket
    /\ StopOrder
    /\ (stopPC = "done" => WaitGroupZero)

-----------------------------------------------------------------------------
(* Types *)

\* What the operators on Connection objects and on the map return.
LEMMA ResetType == ASSUME NEW c \in Connection PROVE Reset(c) \in Connection
BY DEF Reset, Connection

\* An object bound by the accept loop has its type.
LEMMA BindType ==
    ASSUME NEW c \in Connection, NEW id \in Nat, NEW s \in Sockets
    PROVE  Bind(c, id, s) \in Connection
BY DEF Bind, Reset, Connection

\* Closing a socket keeps the sockets' type.
LEMMA CloseSocketType ==
    ASSUME TypeOK, NEW o
    PROVE  CloseSocketOf(o) \in [Sockets -> {"new", "open", "closed"}]
<1> DEFINE S == [Sockets -> {"new", "open", "closed"}]
<1>1. sock \in S
    BY DEF TypeOK
<1>2. \A f \in S : \A s : [f EXCEPT ![s] = "closed"] \in S
    OBVIOUS
<1> QED
    BY <1>1, <1>2 DEF CloseSocketOf

\* Updating one Connection object keeps the heap of objects typed.
LEMMA HeapType ==
    ASSUME NEW h \in [Objects -> Connection], NEW o \in Objects, NEW c \in Connection
    PROVE  [h EXCEPT ![o] = c] \in [Objects -> Connection]
OBVIOUS

\* Marking an object as idle for long keeps its type.
LEMMA StaleType ==
    ASSUME NEW h \in [Objects -> Connection], NEW o \in Objects, NEW b \in BOOLEAN
    PROVE  [h EXCEPT ![o].stale = b] \in [Objects -> Connection]
BY DEF Connection

\* A login or logout keeps the object's type.
LEMMA LoginType ==
    ASSUME NEW h \in [Objects -> Connection], NEW o \in Objects, NEW u \in Users
    PROVE  [h EXCEPT ![o].user = u, ![o].stale = FALSE] \in [Objects -> Connection]
BY DEF Connection

\* A handler that has an object, an admission that has a client.
LEMMA OwnType ==
    ASSUME TypeOK, MadeObjects, NEW s \in Active PROVE own[s] \in Objects
BY DEF TypeOK, MadeObjects, Active

\* A server that has just been made satisfies the invariant.
THEOREM InitEstablishes == Init => IndInv
<1> SUFFICES ASSUME Init PROVE IndInv
    OBVIOUS
<1> USE DEF Init
<1>1. TypeOK
    BY NoneAssumption DEF TypeOK, FreshConnection, Connection
<1>2. AcceptHolds /\ NewUnused /\ MadeObjects /\ ObjectExclusive
    BY NoneAssumption DEF AcceptHolds, NewUnused, MadeObjects, ObjectExclusive,
        Active, Admitting, FreshConnection
<1>3. MapMatchesHandlers /\ FreshID /\ NoLeakedSocket /\ StopOrder
    BY DEF MapMatchesHandlers, FreshID, Serving, NoLeakedSocket, StopOrder
<1>4. RoomForAdmitted
    BY FS_EmptySet, MaxConnsAssumption DEF RoomForAdmitted, ConnectionCount
<1> QED
    BY <1>1, <1>2, <1>3, <1>4 DEF IndInv

\* Every step of the server keeps the types.
LEMMA TypeStep == ASSUME IndInv, ServerStep PROVE TypeOK'
<1> USE DEF IndInv, TypeOK, At, statusVars, poolVars, acceptVars, handlerVars, beatVars, stopVars, acceptFrame,
        handlerFrame, backgroundFrame
<1>1. CASE AcceptHead
    BY <1>1 DEF AcceptHead
<1>2. CASE AcceptError
    BY <1>2 DEF AcceptError
<1>3. CASE AcceptCount
    BY <1>3, NoneAssumption DEF AcceptCount
<1>4. CASE GetIdle
    <2>1. PICK o \in idle : Obtain(o)
        BY <1>4 DEF GetIdle
    <2>2. Bind(obj[o], connCounter, acceptSock) \in Connection
        BY <2>1, BindType, <1>4 DEF GetIdle, AcceptHolds
    <2>3. obj' \in [Objects -> Connection]
        BY <2>1, <2>2, HeapType DEF Obtain
    <2> QED
        BY <1>4, <2>1, <2>3 DEF GetIdle, Obtain
<1>5. CASE GetCreate
    <2>1. PICK o \in Objects \ made : Obtain(o)
        BY <1>5 DEF GetCreate
    <2>2. Bind(obj[o], connCounter, acceptSock) \in Connection
        BY <2>1, BindType, <1>5 DEF GetCreate, AcceptHolds
    <2>3. obj' \in [Objects -> Connection]
        BY <2>1, <2>2, HeapType DEF Obtain
    <2> QED
        BY <1>5, <2>1, <2>3 DEF GetCreate, Obtain
<1>6. CASE GetWait
    BY <1>6 DEF GetWait
<1>7. CASE GetTimeout
    <2>1. PICK o \in Objects \ made : Obtain(o)
        BY <1>7 DEF GetTimeout
    <2>2. Bind(obj[o], connCounter, acceptSock) \in Connection
        BY <2>1, BindType, <1>7 DEF GetTimeout, AcceptHolds
    <2>3. obj' \in [Objects -> Connection]
        BY <2>1, <2>2, HeapType DEF Obtain
    <2> QED
        BY <1>7, <2>1, <2>3 DEF GetTimeout, Obtain
<1>8. CASE AcceptStore
    <2>1. acceptObj \in Objects
        BY <1>8 DEF AcceptStore, AcceptHolds, Admitting
    <2>2. DOMAIN connections' \subseteq Nat /\ connections' \in [DOMAIN connections' -> Objects]
        BY <1>8, <2>1 DEF AcceptStore, Stored
    <2> QED
        BY <1>8, <2>2 DEF AcceptStore
<1>9. CASE AcceptSpawn
    BY <1>9 DEF AcceptSpawn
<1>10. CASE HeartbeatScan
    BY <1>10 DEF HeartbeatScan
<1>11. CASE HeartbeatLoad
    BY <1>11 DEF HeartbeatLoad
<1>12. CASE HeartbeatClose
    <2>1. sock' \in [Sockets -> {"new", "open", "closed"}]
        BY <1>12, CloseSocketType DEF HeartbeatClose
    <2> QED
        BY <1>12, <2>1 DEF HeartbeatClose
<1>13. CASE HeartbeatExit
    BY <1>13 DEF HeartbeatExit
<1>14. CASE StopCall
    BY <1>14, ZenonT(60) DEF StopCall
<1>15. CASE StopListener
    BY <1>15, ZenonT(60) DEF StopListener
<1>16. CASE StopVisit
    BY <1>16 DEF StopVisit
<1>17. CASE StopClose
    <2>1. sock' \in [Sockets -> {"new", "open", "closed"}]
        BY <1>17, CloseSocketType DEF StopClose
    <2> QED
        BY <1>17, <2>1 DEF StopClose
<1>18. CASE StopRangeEnd
    BY <1>18 DEF StopRangeEnd
<1>19. CASE StopReturn
    BY <1>19 DEF StopReturn
<1>20. ASSUME NEW s \in Sockets, AcceptConn(s) PROVE TypeOK'
    BY <1>20 DEF AcceptConn
<1>21. ASSUME NEW s \in Sockets, AcceptLimited(s) PROVE TypeOK'
    BY <1>21 DEF AcceptLimited
<1>22. ASSUME NEW s \in Sockets, HandlerLoop(s) PROVE TypeOK'
    BY <1>22 DEF HandlerLoop
<1>23. ASSUME NEW s \in Sockets, ReadFrame(s) PROVE TypeOK'
    <2>1. own[s] \in Objects
        BY <1>23, OwnType DEF ReadFrame, Active
    <2>2. obj' \in [Objects -> Connection]
        BY <1>23, <2>1, StaleType DEF ReadFrame
    <2> QED
        BY <1>23, <2>1, <2>2 DEF ReadFrame
<1>24. ASSUME NEW s \in Sockets, ReadFail(s) PROVE TypeOK'
    <2>1. own[s] \in Objects
        BY <1>24, OwnType DEF ReadFail, Active
    <2>2. obj' \in [Objects -> Connection]
        BY <1>24, <2>1, StaleType DEF ReadFail
    <2> QED
        BY <1>24, <2>1, <2>2 DEF ReadFail
<1>25. ASSUME NEW s \in Sockets, HandleRequest(s) PROVE TypeOK'
    <2>1. own[s] \in Objects
        BY <1>25, OwnType DEF HandleRequest, Active
    <2>2. obj' \in [Objects -> Connection]
        BY <1>25, <2>1, StaleType DEF HandleRequest
    <2> QED
        BY <1>25, <2>1, <2>2 DEF HandleRequest
<1>26. ASSUME NEW s \in Sockets, NEW u \in Users, HandleLogin(s, u) PROVE TypeOK'
    <2>1. own[s] \in Objects
        BY <1>26, OwnType DEF HandleLogin, Active
    <2>2. obj' \in [Objects -> Connection]
        BY <1>26, <2>1, LoginType DEF HandleLogin
    <2> QED
        BY <1>26, <2>1, <2>2 DEF HandleLogin
<1>27. ASSUME NEW s \in Sockets, HandleLogout(s) PROVE TypeOK'
    <2>1. sock' \in [Sockets -> {"new", "open", "closed"}]
        BY <1>27, CloseSocketType DEF HandleLogout
    <2> QED
        BY <1>27, <2>1 DEF HandleLogout
<1>28. ASSUME NEW s \in Sockets, HandlerClose(s) PROVE TypeOK'
    <2>1. sock' \in [Sockets -> {"new", "open", "closed"}]
        BY <1>28, CloseSocketType DEF HandlerClose
    <2> QED
        BY <1>28, <2>1 DEF HandlerClose
<1>29. ASSUME NEW s \in Sockets, HandlerDelete(s) PROVE TypeOK'
    BY <1>29 DEF HandlerDelete, Deleted
<1>30. ASSUME NEW s \in Sockets, HandlerPut(s) PROVE TypeOK'
    <2>1. own[s] \in Objects
        BY <1>30, OwnType DEF HandlerPut, Active
    <2>2. obj' \in [Objects -> Connection]
        BY <1>30, <2>1, HeapType, ResetType DEF HandlerPut
    <2> QED
        BY <1>30, <2>1, <2>2 DEF HandlerPut
<1>31. ASSUME NEW s \in Sockets, HandleSlowly(s) PROVE TypeOK'
    <2>1. own[s] \in Objects
        BY <1>31, OwnType DEF HandleSlowly, Active
    <2>2. obj' \in [Objects -> Connection]
        BY <1>31, <2>1, StaleType DEF HandleSlowly
    <2> QED
        BY <1>31, <2>1, <2>2 DEF HandleSlowly
<1> HIDE DEF IndInv, TypeOK
<1> QED
    BY <1>1, <1>2, <1>3, <1>4, <1>5, <1>6, <1>7, <1>8, <1>9, <1>10, <1>11, <1>12, <1>13,
        <1>14, <1>15, <1>16, <1>17, <1>18, <1>19, <1>20, <1>21, <1>22, <1>23, <1>24, <1>25,
        <1>26, <1>27, <1>28, <1>29, <1>30, <1>31
    DEF ServerStep, AcceptStep, ClientConnects, HandlerStep, HeartbeatStep, StopStep


-----------------------------------------------------------------------------
(* What a step of one kind of goroutine leaves alone *)

\* A handler's step moves its own program counter only, never rebinds or
\* marks closed an object, and does to sockets nothing but close them.
HandlerEffect(s) ==
    /\ s \in Active /\ own[s] \in Objects
    /\ UNCHANGED <<statusVars, connCounter, made, created, acceptVars, own, stopVars>>
    /\ \A t \in Sockets \ {s} : handlerPC'[t] = handlerPC[t]
    /\ handlerPC'[s] # "none"
    /\ \A o \in Objects : /\ obj'[o].id = obj[o].id
                          /\ obj'[o].sock = obj[o].sock
                          /\ obj'[o].closed = FALSE
    /\ \A t \in Sockets : sock'[t] \in {sock[t], "closed"}

\* What a step of a handler changes.
LEMMA HandlerFrame ==
    ASSUME IndInv, NEW s \in Sockets, HandlerStep(s) \/ HandleSlowly(s)
    PROVE  HandlerEffect(s)
<1> USE DEF At, statusVars, poolVars, acceptVars, handlerVars, beatVars, stopVars, acceptFrame,
        handlerFrame, backgroundFrame
<1>1. s \in Active
    BY DEF HandlerStep, HandleSlowly, HandlerLoop, ReadFrame, ReadFail, HandleRequest,
        HandleLogin, HandleLogout, HandlerClose, HandlerDelete, HandlerPut, Active
<1>2. own[s] \in Objects
    BY <1>1, OwnType DEF IndInv
<1>3. UNCHANGED <<statusVars, connCounter, made, created, acceptVars, own, stopVars>>
    BY DEF HandlerStep, HandleSlowly, HandlerLoop, ReadFrame, ReadFail, HandleRequest,
        HandleLogin, HandleLogout, HandlerClose, HandlerDelete, HandlerPut
<1>4. /\ \A t \in Sockets \ {s} : handlerPC'[t] = handlerPC[t]
      /\ handlerPC'[s] # "none"
    BY <1>1 DEF IndInv, TypeOK, Active, HandlerStep, HandleSlowly, HandlerLoop, ReadFrame,
        ReadFail, HandleRequest, HandleLogin, HandleLogout, HandlerClose, HandlerDelete,
        HandlerPut
<1>5. \A o \in Objects : /\ obj'[o].id = obj[o].id
                         /\ obj'[o].sock = obj[o].sock
                         /\ obj'[o].closed = FALSE
    <2>1. \A o \in Objects : obj[o] \in Connection /\ obj[o].closed = FALSE
        BY DEF IndInv, TypeOK, MadeObjects, Connection
    <2>2. \/ UNCHANGED obj
          \/ \E b \in BOOLEAN : obj' = [obj EXCEPT ![own[s]].stale = b]
          \/ \E u \in Users : obj' = [obj EXCEPT ![own[s]].user = u, ![own[s]].stale = FALSE]
          \/ obj' = [obj EXCEPT ![own[s]] = Reset(@)]
        BY DEF HandlerStep, HandleSlowly, HandlerLoop, ReadFrame, ReadFail, HandleRequest,
            HandleLogin, HandleLogout, HandlerClose, HandlerDelete, HandlerPut
    <2>3. SUFFICES ASSUME NEW o \in Objects
                   PROVE  /\ obj'[o].id = obj[o].id /\ obj'[o].sock = obj[o].sock
                          /\ obj'[o].closed = FALSE
        OBVIOUS
    <2>4. obj \in [Objects -> Connection]
        BY DEF IndInv, TypeOK
    <2>5. CASE UNCHANGED obj
        BY <2>1, <2>5
    <2>6. ASSUME NEW b \in BOOLEAN, obj' = [obj EXCEPT ![own[s]].stale = b]
          PROVE  obj'[o].id = obj[o].id /\ obj'[o].sock = obj[o].sock /\ obj'[o].closed = FALSE
        BY <1>2, <2>1, <2>4, <2>6 DEF Connection
    <2>7. ASSUME NEW u \in Users, obj' = [obj EXCEPT ![own[s]].user = u, ![own[s]].stale = FALSE]
          PROVE  obj'[o].id = obj[o].id /\ obj'[o].sock = obj[o].sock /\ obj'[o].closed = FALSE
        BY <1>2, <2>1, <2>4, <2>7 DEF Connection
    <2>8. CASE obj' = [obj EXCEPT ![own[s]] = Reset(@)]
        BY <1>2, <2>1, <2>4, <2>8 DEF Connection, Reset
    <2> QED
        BY <2>2, <2>5, <2>6, <2>7, <2>8
<1>6. \A t \in Sockets : sock'[t] \in {sock[t], "closed"}
    <2>1. \/ UNCHANGED sock
          \/ \E r : sock' = [sock EXCEPT ![r] = "closed"]
        BY DEF HandlerStep, HandleSlowly, HandlerLoop, ReadFrame, ReadFail, HandleRequest,
            HandleLogin, HandleLogout, HandlerClose, HandlerDelete, HandlerPut, CloseSocketOf
    <2> QED
        BY <2>1 DEF IndInv, TypeOK
<1> QED
    BY <1>1, <1>2, <1>3, <1>4, <1>5, <1>6 DEF HandlerEffect

\* The heartbeat and Stop close sockets and touch no connection, no object,
\* no handler and nothing of the accept loop.
BackgroundStep == HeartbeatScan \/ HeartbeatStep \/ StopCall \/ StopStep

BackgroundEffect ==
    /\ UNCHANGED <<connections, connCounter, obj, poolVars, acceptVars, handlerVars>>
    /\ \A t \in Sockets : sock'[t] \in {sock[t], "closed"}

\* What a step of the heartbeat, of Stop or of a client leaves alone.
LEMMA BackgroundFrame == ASSUME IndInv, BackgroundStep PROVE BackgroundEffect
<1> USE DEF At, statusVars, poolVars, acceptVars, handlerVars, beatVars, stopVars, acceptFrame,
        handlerFrame, backgroundFrame
<1>1. UNCHANGED <<connections, connCounter, obj, poolVars, acceptVars, handlerVars>>
    BY DEF BackgroundStep, HeartbeatStep, StopStep, HeartbeatScan, HeartbeatLoad,
        HeartbeatClose, HeartbeatExit, StopCall, StopListener, StopVisit, StopClose,
        StopRangeEnd, StopReturn
<1>2. UNCHANGED sock \/ \E r : sock' = [sock EXCEPT ![r] = "closed"]
    BY DEF BackgroundStep, HeartbeatStep, StopStep, HeartbeatScan, HeartbeatLoad,
        HeartbeatClose, HeartbeatExit, StopCall, StopListener, StopVisit, StopClose,
        StopRangeEnd, StopReturn, CloseSocketOf
<1>3. \A t \in Sockets : sock'[t] \in {sock[t], "closed"}
    BY <1>2 DEF IndInv, TypeOK
<1> QED
    BY <1>1, <1>3 DEF BackgroundEffect

\* The pool's Get gives the accept loop an object that no handler has.
ObtainEffect ==
    /\ acceptPC \in {"get", "wait"} /\ acceptPC' = "store"
    /\ acceptObj' \in made' /\ acceptObj' \in Objects /\ acceptObj' \notin idle'
    /\ made \subseteq made' /\ idle' \subseteq idle
    /\ \A s \in Active : own[s] # acceptObj'
    /\ obj'[acceptObj'].id = connCounter /\ obj'[acceptObj'].sock = acceptSock
    /\ obj'[acceptObj'].closed = FALSE
    /\ \A o \in Objects \ {acceptObj'} : obj'[o] = obj[o]
    /\ UNCHANGED <<statusVars, sock, connections, connCounter, acceptSock,
                   handlerVars, beatVars, stopVars>>

\* What taking an object from the pool changes.
LEMMA ObtainFrame == ASSUME IndInv, GetIdle \/ GetCreate \/ GetTimeout PROVE ObtainEffect
<1>1. PICK o \in Objects : Obtain(o)
    BY DEF GetIdle, GetCreate, GetTimeout, IndInv, TypeOK
<1>2. /\ obj'[o].id = connCounter /\ obj'[o].sock = acceptSock /\ obj'[o].closed = FALSE
      /\ \A p \in Objects \ {o} : obj'[p] = obj[p]
    BY <1>1 DEF Obtain, Bind, Reset, IndInv, TypeOK, Connection
<1>3. acceptObj' = o
    BY <1>1 DEF Obtain
<1>4. o \in made' /\ o \notin idle' /\ \A s \in Active : own[s] # o
    BY <1>3 DEF GetIdle, GetCreate, GetTimeout, Obtain, IndInv, TypeOK, MadeObjects,
        ObjectExclusive
<1>5. made \subseteq made' /\ idle' \subseteq idle /\ acceptPC \in {"get", "wait"}
    BY DEF GetIdle, GetCreate, GetTimeout, At
<1> QED
    BY <1>1, <1>2, <1>3, <1>4, <1>5 DEF ObtainEffect, Obtain, acceptFrame


-----------------------------------------------------------------------------
(* Every step preserves each part of the invariant *)

\* The steps of the server, by the goroutine that takes them.
LEMMA StepCases ==
    ASSUME ServerStep
    PROVE  \/ AcceptHead \/ AcceptError \/ AcceptCount \/ GetWait \/ AcceptStore \/ AcceptSpawn
           \/ GetIdle \/ GetCreate \/ GetTimeout
           \/ \E s \in Sockets : AcceptConn(s) \/ AcceptLimited(s)
           \/ \E s \in Sockets : HandlerStep(s) \/ HandleSlowly(s)
           \/ BackgroundStep
BY DEF ServerStep, AcceptStep, ClientConnects, BackgroundStep

\* The accept loop's locals are what its place says.
LEMMA AcceptHoldsStep == ASSUME IndInv, ServerStep PROVE AcceptHolds'
<1> USE NoneAssumption DEF IndInv, TypeOK, AcceptHolds, Admitting, At, statusVars, poolVars,
        acceptVars, handlerVars, beatVars, stopVars, acceptFrame,
        handlerFrame, backgroundFrame
<1>1. CASE AcceptHead \/ AcceptError \/ AcceptCount \/ GetWait \/ AcceptStore
    BY <1>1 DEF AcceptHead, AcceptError, AcceptCount, GetWait, AcceptStore
<1>2. CASE AcceptSpawn
    BY <1>2 DEF AcceptSpawn
<1>3. CASE GetIdle \/ GetCreate \/ GetTimeout
    BY <1>3, ObtainFrame DEF ObtainEffect
<1>4. ASSUME NEW s \in Sockets, AcceptConn(s) \/ AcceptLimited(s) PROVE AcceptHolds'
    BY <1>4 DEF AcceptConn, AcceptLimited, NewUnused
<1>5. ASSUME NEW s \in Sockets, HandlerStep(s) \/ HandleSlowly(s) PROVE AcceptHolds'
    <2>1. HandlerEffect(s)
        BY <1>5, HandlerFrame
    <2>2. acceptSock # s
        BY <2>1 DEF HandlerEffect, Active
    <2> QED
        BY <2>1, <2>2 DEF HandlerEffect, MadeObjects
<1>6. CASE BackgroundStep
    BY <1>6, BackgroundFrame DEF BackgroundEffect
<1> QED
    BY StepCases, <1>1, <1>2, <1>3, <1>4, <1>5, <1>6

\* A socket that has not been accepted has no handler.
LEMMA NewUnusedStep == ASSUME IndInv, ServerStep PROVE NewUnused'
<1> USE DEF IndInv, TypeOK, NewUnused, AcceptHolds, At, statusVars, poolVars,
        acceptVars, handlerVars, beatVars, stopVars, acceptFrame,
        handlerFrame, backgroundFrame
<1>1. CASE AcceptHead \/ AcceptError \/ AcceptCount \/ GetWait \/ AcceptStore \/ AcceptSpawn
    BY <1>1 DEF AcceptHead, AcceptError, AcceptCount, GetWait, AcceptStore, AcceptSpawn
<1>2. CASE GetIdle \/ GetCreate \/ GetTimeout
    BY <1>2, ObtainFrame DEF ObtainEffect
<1>3. ASSUME NEW s \in Sockets, AcceptConn(s) \/ AcceptLimited(s) PROVE NewUnused'
    BY <1>3 DEF AcceptConn, AcceptLimited
<1>4. ASSUME NEW s \in Sockets, HandlerStep(s) \/ HandleSlowly(s) PROVE NewUnused'
    <2>1. HandlerEffect(s)
        BY <1>4, HandlerFrame
    <2> QED
        BY <2>1 DEF HandlerEffect, Active
<1>5. CASE BackgroundStep
    BY <1>5, BackgroundFrame DEF BackgroundEffect
<1> QED
    BY StepCases, <1>1, <1>2, <1>3, <1>4, <1>5

\* The pool's factory makes objects nobody knows.
LEMMA MadeObjectsStep == ASSUME IndInv, ServerStep PROVE MadeObjects'
<1> USE DEF IndInv, TypeOK, MadeObjects, Active, At, statusVars, poolVars,
        acceptVars, handlerVars, beatVars, stopVars, acceptFrame,
        handlerFrame, backgroundFrame
<1>1. CASE AcceptHead \/ AcceptError \/ AcceptCount \/ GetWait \/ AcceptStore
    BY <1>1 DEF AcceptHead, AcceptError, AcceptCount, GetWait, AcceptStore
<1>2. CASE AcceptSpawn
    BY <1>2, NoneAssumption DEF AcceptSpawn, AcceptHolds, Admitting
<1>3. CASE GetIdle \/ GetCreate \/ GetTimeout
    BY <1>3, ObtainFrame DEF ObtainEffect
<1>4. ASSUME NEW s \in Sockets, AcceptConn(s) \/ AcceptLimited(s) PROVE MadeObjects'
    BY <1>4 DEF AcceptConn, AcceptLimited
<1>5. ASSUME NEW s \in Sockets, HandlerStep(s) \/ HandleSlowly(s) PROVE MadeObjects'
    <2>1. idle' \subseteq idle \cup {own[s]}
        BY <1>5 DEF HandlerStep, HandleSlowly, HandlerLoop, ReadFrame, ReadFail,
            HandleRequest, HandleLogin, HandleLogout, HandlerClose, HandlerDelete, HandlerPut
    <2>2. HandlerEffect(s)
        BY <1>5, HandlerFrame
    <2> QED
        BY <2>1, <2>2 DEF HandlerEffect
<1>6. CASE BackgroundStep
    BY <1>6, BackgroundFrame DEF BackgroundEffect
<1> QED
    BY StepCases, <1>1, <1>2, <1>3, <1>4, <1>5, <1>6

\* An object serves one client, is being admitted or is idle, never two of these.
LEMMA ExclusiveStep == ASSUME IndInv, ServerStep PROVE ObjectExclusive'
<1> USE DEF IndInv, TypeOK, ObjectExclusive, Active, Admitting, At, statusVars, poolVars,
        acceptVars, handlerVars, beatVars, stopVars, acceptFrame,
        handlerFrame, backgroundFrame
<1>1. CASE AcceptHead \/ AcceptError \/ AcceptCount \/ GetWait \/ AcceptStore
    BY <1>1 DEF AcceptHead, AcceptError, AcceptCount, GetWait, AcceptStore
<1>2. CASE AcceptSpawn
    BY <1>2, NoneAssumption DEF AcceptSpawn, AcceptHolds
<1>3. CASE GetIdle \/ GetCreate \/ GetTimeout
    <2>1. ObtainEffect
        BY <1>3, ObtainFrame
    <2>2. \A s \in Active : own[s] \in Objects \ {acceptObj'}
        BY <2>1, OwnType DEF ObtainEffect
    <2>3. \A s \in Active : obj'[own[s]].sock = s /\ own[s] \notin idle'
        BY <2>1, <2>2 DEF ObtainEffect
    <2> QED
        BY <2>1, <2>2, <2>3 DEF ObtainEffect
<1>4. ASSUME NEW s \in Sockets, AcceptConn(s) \/ AcceptLimited(s) PROVE ObjectExclusive'
    BY <1>4 DEF AcceptConn, AcceptLimited
<1>5. ASSUME NEW s \in Sockets, HandlerStep(s) \/ HandleSlowly(s) PROVE ObjectExclusive'
    <2>1. idle' \subseteq idle \/ (idle' \subseteq idle \cup {own[s]} /\ handlerPC'[s] = "done")
        BY <1>5 DEF HandlerStep, HandleSlowly, HandlerLoop, ReadFrame, ReadFail,
            HandleRequest, HandleLogin, HandleLogout, HandlerClose, HandlerDelete, HandlerPut
    <2>2. HandlerEffect(s)
        BY <1>5, HandlerFrame
    <2>3. \A t \in Active : own[t] \in Objects
        BY OwnType
    <2> QED
        BY <2>1, <2>2, <2>3 DEF HandlerEffect
<1>6. CASE BackgroundStep
    BY <1>6, BackgroundFrame DEF BackgroundEffect
<1> QED
    BY StepCases, <1>1, <1>2, <1>3, <1>4, <1>5, <1>6

\* The map lists the connections being served under their own IDs.
LEMMA MapStep == ASSUME IndInv, ServerStep PROVE MapMatchesHandlers'
<1> USE DEF IndInv, TypeOK, MapMatchesHandlers, Serving, At, statusVars, poolVars,
        acceptVars, handlerVars, beatVars, stopVars, acceptFrame,
        handlerFrame, backgroundFrame
<1>1. CASE AcceptHead \/ AcceptError \/ AcceptCount \/ GetWait
    BY <1>1 DEF AcceptHead, AcceptError, AcceptCount, GetWait
<1>2. CASE AcceptStore
    BY <1>2 DEF AcceptStore, Stored, FreshID, AcceptHolds, Admitting
<1>3. CASE AcceptSpawn
    BY <1>3 DEF AcceptSpawn, FreshID, AcceptHolds, Admitting
<1>4. CASE GetIdle \/ GetCreate \/ GetTimeout
    <2>1. ObtainEffect
        BY <1>4, ObtainFrame
    <2>2. \A s \in Serving : s \in Active /\ own[s] \in Objects \ {acceptObj'}
        BY <2>1, OwnType DEF ObtainEffect, Active
    <2>3. \A i \in DOMAIN connections : \E s \in Serving : own[s] = connections[i]
        BY <2>1 DEF ObtainEffect
    <2> QED
        BY <2>1, <2>2, <2>3 DEF ObtainEffect
<1>5. ASSUME NEW s \in Sockets, AcceptConn(s) \/ AcceptLimited(s) PROVE MapMatchesHandlers'
    BY <1>5 DEF AcceptConn, AcceptLimited
<1>6. ASSUME NEW s \in Sockets, HandlerStep(s) \/ HandleSlowly(s) PROVE MapMatchesHandlers'
    <2>1. HandlerEffect(s)
        BY <1>6, HandlerFrame
    <2>2. \A t \in Active : own[t] \in Objects
        BY OwnType
    <2>3. CASE HandlerDelete(s)
        <3>1. /\ s \in Serving /\ s \notin Serving' /\ Serving' = Serving \ {s}
            BY <2>1, <2>3 DEF HandlerDelete, HandlerEffect
        <3> DEFINE id == obj[own[s]].id
        <3>2. /\ DOMAIN connections' = DOMAIN connections \ {id}
              /\ \A i \in DOMAIN connections' : connections'[i] = connections[i]
            BY <2>3 DEF HandlerDelete, Deleted
        <3>3. \A t \in Serving' : obj[own[t]].id # id
            BY <3>1 DEF ObjectExclusive, Active
        <3>4. \A i \in DOMAIN connections' : connections[i] # own[s]
            BY <3>2
        <3> QED
            BY <2>1, <2>2, <3>1, <3>2, <3>3, <3>4 DEF HandlerEffect, Active
    <2>4. CASE ~HandlerDelete(s)
        <3> DEFINE L == {"loop", "read", "handle", "close", "delete"}
        <3>0. /\ UNCHANGED connections
              /\ \/ UNCHANGED handlerPC
                 \/ \E l \in L : handlerPC[s] \in L /\ handlerPC' = [handlerPC EXCEPT ![s] = l]
                 \/ handlerPC[s] = "put" /\ handlerPC' = [handlerPC EXCEPT ![s] = "done"]
            BY <1>6, <2>4 DEF HandlerStep, HandleSlowly, HandlerLoop, ReadFrame, ReadFail,
                HandleRequest, HandleLogin, HandleLogout, HandlerClose, HandlerPut
        <3>1. handlerPC'[s] \in L <=> handlerPC[s] \in L
            BY <3>0
        <3>2. Serving' = Serving
            BY <2>1, <3>1 DEF HandlerEffect
        <3> HIDE DEF L
        <3> QED
            BY <2>1, <2>2, <3>0, <3>2 DEF HandlerEffect, Active
    <2> QED
        BY <2>3, <2>4
<1>7. CASE BackgroundStep
    BY <1>7, BackgroundFrame DEF BackgroundEffect
<1> QED
    BY StepCases, <1>1, <1>2, <1>3, <1>4, <1>5, <1>6, <1>7

\* The next ID is not in the map.
LEMMA FreshIDStep == ASSUME IndInv, ServerStep PROVE FreshID'
<1> USE DEF IndInv, TypeOK, FreshID, At, statusVars, poolVars,
        acceptVars, handlerVars, beatVars, stopVars, acceptFrame,
        handlerFrame, backgroundFrame
<1>1. CASE AcceptHead \/ AcceptError \/ AcceptCount \/ GetWait
    BY <1>1 DEF AcceptHead, AcceptError, AcceptCount, GetWait
<1>2. CASE AcceptStore
    BY <1>2 DEF AcceptStore, Stored
<1>3. CASE AcceptSpawn
    BY <1>3 DEF AcceptSpawn
<1>4. CASE GetIdle \/ GetCreate \/ GetTimeout
    BY <1>4, ObtainFrame DEF ObtainEffect
<1>5. ASSUME NEW s \in Sockets, AcceptConn(s) \/ AcceptLimited(s) PROVE FreshID'
    BY <1>5 DEF AcceptConn, AcceptLimited
<1>6. ASSUME NEW s \in Sockets, HandlerStep(s) \/ HandleSlowly(s) PROVE FreshID'
    <2>1. HandlerEffect(s)
        BY <1>6, HandlerFrame
    <2>2. UNCHANGED connections \/ (handlerPC[s] = "delete" /\ connections' = Deleted(obj[own[s]].id))
        BY <1>6 DEF HandlerStep, HandleSlowly, HandlerLoop, ReadFrame, ReadFail,
            HandleRequest, HandleLogin, HandleLogout, HandlerClose, HandlerDelete, HandlerPut
    <2>3. acceptPC = "spawn" /\ handlerPC[s] = "delete" => obj[own[s]].id # connCounter
        BY <2>1 DEF HandlerEffect, Admitting, ObjectExclusive, MapMatchesHandlers, Serving, Active
    <2> QED
        BY <2>1, <2>2, <2>3 DEF HandlerEffect, Deleted
<1>7. CASE BackgroundStep
    BY <1>7, BackgroundFrame DEF BackgroundEffect
<1> QED
    BY StepCases, <1>1, <1>2, <1>3, <1>4, <1>5, <1>6, <1>7

\* Past the check of the limit there is room until the store.
LEMMA RoomStep == ASSUME IndInv, ServerStep PROVE RoomForAdmitted'
<1> USE MaxConnsAssumption DEF IndInv, TypeOK, RoomForAdmitted, ConnectionCount, LimitReached, At,
        statusVars, poolVars, acceptVars, handlerVars, beatVars, stopVars, acceptFrame,
        handlerFrame, backgroundFrame
<1>1. CASE AcceptHead \/ AcceptError \/ GetWait \/ AcceptSpawn
    BY <1>1 DEF AcceptHead, AcceptError, GetWait, AcceptSpawn
<1>2. CASE AcceptCount
    <2>1. Cardinality(DOMAIN connections) \in Nat
        BY FS_CardinalityType
    <2> QED
        BY <1>2, <2>1 DEF AcceptCount
<1>3. CASE AcceptStore
    <2>1. DOMAIN connections' = DOMAIN connections \cup {connCounter}
        BY <1>3 DEF AcceptStore, Stored
    <2>2. /\ IsFiniteSet(DOMAIN connections')
          /\ Cardinality(DOMAIN connections') = Cardinality(DOMAIN connections) + 1
        BY <1>3, <2>1, FS_AddElement DEF AcceptStore, FreshID
    <2>3. Cardinality(DOMAIN connections) \in Nat
        BY FS_CardinalityType
    <2> QED
        BY <1>3, <2>2, <2>3 DEF AcceptStore
<1>4. CASE GetIdle \/ GetCreate \/ GetTimeout
    BY <1>4, ObtainFrame DEF ObtainEffect
<1>5. ASSUME NEW s \in Sockets, AcceptConn(s) \/ AcceptLimited(s) PROVE RoomForAdmitted'
    BY <1>5 DEF AcceptConn, AcceptLimited
<1>6. ASSUME NEW s \in Sockets, HandlerStep(s) \/ HandleSlowly(s) PROVE RoomForAdmitted'
    <2>1. HandlerEffect(s)
        BY <1>6, HandlerFrame
    <2>2. UNCHANGED connections \/ connections' = Deleted(obj[own[s]].id)
        BY <1>6 DEF HandlerStep, HandleSlowly, HandlerLoop, ReadFrame, ReadFail,
            HandleRequest, HandleLogin, HandleLogout, HandlerClose, HandlerDelete, HandlerPut
    <2>3. DOMAIN connections' \subseteq DOMAIN connections
        BY <2>2 DEF Deleted
    <2>4. /\ IsFiniteSet(DOMAIN connections')
          /\ Cardinality(DOMAIN connections') <= Cardinality(DOMAIN connections)
        BY <2>3, FS_Subset
    <2>5. Cardinality(DOMAIN connections) \in Nat /\ Cardinality(DOMAIN connections') \in Nat
        BY <2>4, FS_CardinalityType
    <2> QED
        BY <2>1, <2>4, <2>5 DEF HandlerEffect
<1>7. CASE BackgroundStep
    BY <1>7, BackgroundFrame DEF BackgroundEffect
<1> QED
    BY StepCases, <1>1, <1>2, <1>3, <1>4, <1>5, <1>6, <1>7

\* Every open socket has somebody who will close it.
LEMMA SocketStep == ASSUME IndInv, ServerStep PROVE NoLeakedSocket'
<1> USE DEF IndInv, TypeOK, NoLeakedSocket, AcceptHolds, At, statusVars, poolVars,
        acceptVars, handlerVars, beatVars, stopVars, acceptFrame,
        handlerFrame, backgroundFrame
<1>1. CASE AcceptHead \/ AcceptError \/ AcceptCount \/ GetWait \/ AcceptStore \/ AcceptSpawn
    BY <1>1 DEF AcceptHead, AcceptError, AcceptCount, GetWait, AcceptStore, AcceptSpawn
<1>2. CASE GetIdle \/ GetCreate \/ GetTimeout
    BY <1>2, ObtainFrame DEF ObtainEffect
<1>3. ASSUME NEW s \in Sockets, AcceptConn(s) \/ AcceptLimited(s) PROVE NoLeakedSocket'
    BY <1>3, NoneAssumption DEF AcceptConn, AcceptLimited
<1>4. ASSUME NEW s \in Sockets, HandlerStep(s) \/ HandleSlowly(s) PROVE NoLeakedSocket'
    <2>1. HandlerEffect(s)
        BY <1>4, HandlerFrame
    <2>2. CASE HandlerClose(s)
        <3>1. obj[own[s]].sock = s /\ ~IsClosed(obj[own[s]])
            BY <2>1 DEF HandlerEffect, ObjectExclusive, MadeObjects, IsClosed
        <3>2. sock'[s] = "closed"
            BY <2>2, <3>1, NoneAssumption DEF HandlerClose, CloseSocketOf
        <3> QED
            BY <2>1, <3>2 DEF HandlerEffect
    <2>3. CASE ~HandlerClose(s)
        <3>1. sock'[s] = "open" => handlerPC'[s] \in {"loop", "read", "handle", "close"}
            BY <1>4, <2>1, <2>3 DEF HandlerEffect, Active, HandlerStep, HandleSlowly,
                HandlerLoop, ReadFrame, ReadFail, HandleRequest, HandleLogin, HandleLogout,
                HandlerDelete, HandlerPut
        <3> QED
            BY <2>1, <3>1 DEF HandlerEffect
    <2> QED
        BY <2>2, <2>3
<1>5. CASE BackgroundStep
    BY <1>5, BackgroundFrame DEF BackgroundEffect
<1> QED
    BY StepCases, <1>1, <1>2, <1>3, <1>4, <1>5

\* Once the wait group is at zero it stays there: only the accept loop
\* launches handlers, and it has returned.
LEMMA WaitGroupStep ==
    ASSUME IndInv, ServerStep PROVE (stopPC = "done" => WaitGroupZero)'
<1> USE DEF IndInv, TypeOK, WaitGroupZero, At, statusVars, poolVars, acceptVars,
        handlerVars, beatVars, stopVars, acceptFrame,
        handlerFrame, backgroundFrame
<1>1. CASE AcceptHead \/ AcceptError \/ AcceptCount \/ GetWait \/ AcceptStore \/ AcceptSpawn
    BY <1>1 DEF AcceptHead, AcceptError, AcceptCount, GetWait, AcceptStore, AcceptSpawn
<1>2. CASE GetIdle \/ GetCreate \/ GetTimeout
    BY <1>2, ObtainFrame DEF ObtainEffect
<1>3. ASSUME NEW s \in Sockets, AcceptConn(s) \/ AcceptLimited(s)
      PROVE (stopPC = "done" => WaitGroupZero)'
    BY <1>3 DEF AcceptConn, AcceptLimited
<1>4. ASSUME NEW s \in Sockets, HandlerStep(s) \/ HandleSlowly(s)
      PROVE (stopPC = "done" => WaitGroupZero)'
    BY <1>4, HandlerFrame DEF HandlerEffect, Active
<1>5. CASE BackgroundStep
    BY <1>5 DEF BackgroundStep, HeartbeatStep, StopStep, HeartbeatScan, HeartbeatLoad,
        HeartbeatClose, HeartbeatExit, StopCall, StopListener, StopVisit, StopClose,
        StopRangeEnd, StopReturn
<1> QED
    BY StepCases, <1>1, <1>2, <1>3, <1>4, <1>5

\* At each place of Stop, what comes before has been shut down.
LEMMA StopOrderStep == ASSUME IndInv, ServerStep PROVE StopOrder'
<1> USE DEF IndInv, StopOrder, At, statusVars, poolVars, acceptVars, handlerVars, beatVars,
        stopVars, acceptFrame, handlerFrame, backgroundFrame
<1>1. CASE AcceptStep \/ ClientConnects \/ AcceptError
    BY <1>1 DEF AcceptStep, ClientConnects, AcceptHead, AcceptError, AcceptCount, GetIdle,
        GetCreate, GetWait, GetTimeout, Obtain, AcceptStore, AcceptSpawn, AcceptConn,
        AcceptLimited, stopVars
<1>2. ASSUME NEW s \in Sockets, HandlerStep(s) \/ HandleSlowly(s) PROVE StopOrder'
    BY <1>2, HandlerFrame DEF HandlerEffect, stopVars
<1>3. CASE BackgroundStep
    BY <1>3 DEF BackgroundStep, HeartbeatStep, StopStep, HeartbeatScan, HeartbeatLoad,
        HeartbeatClose, HeartbeatExit, StopCall, StopListener, StopVisit, StopClose,
        StopRangeEnd, StopReturn, stopVars
<1> QED
    BY <1>1, <1>2, <1>3 DEF ServerStep, BackgroundStep

-----------------------------------------------------------------------------
(* Theorems *)

\* A step that only stutters (the process is dead, or Stop has returned).
LEMMA StutterStep == ASSUME IndInv, UNCHANGED vars PROVE IndInv'
BY DEF vars, statusVars, poolVars, acceptVars, handlerVars, beatVars, stopVars, IndInv, TypeOK,
    AcceptHolds, NewUnused, MadeObjects, ObjectExclusive, MapMatchesHandlers, FreshID,
    RoomForAdmitted, NoLeakedSocket, StopOrder, WaitGroupZero, Admitting, Active, Serving,
    ConnectionCount

\* Every step of every goroutine keeps the invariant.
THEOREM IndInvInductive == IndInv /\ [Next]_vars => IndInv'
<1> SUFFICES ASSUME IndInv, [Next]_vars PROVE IndInv'
    OBVIOUS
<1>1. CASE ServerStep
    BY <1>1, TypeStep, AcceptHoldsStep, NewUnusedStep, MadeObjectsStep, ExclusiveStep, MapStep,
        FreshIDStep, RoomStep, SocketStep, StopOrderStep, WaitGroupStep DEF IndInv
<1>2. CASE UNCHANGED vars
    BY <1>2, StutterStep
<1> QED
    BY <1>1, <1>2 DEF Next, Finished

\* The inductive invariant holds of every behaviour.
THEOREM Invariance == Spec => []IndInv
<1>1. Init => IndInv
    BY InitEstablishes
<1>2. IndInv /\ [Next]_vars => IndInv'
    BY IndInvInductive
<1> QED
    BY <1>1, <1>2, PTL DEF Spec

\* Every variable of the server keeps its type, for any sockets, objects,
\* users and limit.
THEOREM TypeCorrect == Spec => []TypeOK
<1>1. IndInv => TypeOK
    BY DEF IndInv
<1> QED
    BY <1>1, Invariance, PTL

\* A recycled Connection object never serves two clients at once: the pool,
\* the accept loop and the handlers hold disjoint objects, and each handler's
\* object is bound to its own client.
THEOREM PoolExclusive == Spec => []ObjectExclusive
<1>1. IndInv => ObjectExclusive
    BY DEF IndInv
<1> QED
    BY <1>1, Invariance, PTL

\* The connections map lists exactly the connections being served or about to
\* be, under their own IDs.
THEOREM MapAgrees == Spec => []MapMatchesHandlers
<1>1. IndInv => MapMatchesHandlers
    BY DEF IndInv
<1> QED
    BY <1>1, Invariance, PTL

\* The map never holds more connections than the configured limit.
THEOREM LimitHolds == Spec => []ConnectionLimit
<1>1. IndInv => ConnectionLimit
    BY DEF IndInv, RoomForAdmitted, ConnectionLimit
<1> QED
    BY <1>1, Invariance, PTL

\* An open client socket is always in the hands of the accept loop or of a
\* handler that will close it.
THEOREM SocketsHeld == Spec => []NoLeakedSocket
<1>1. IndInv => NoLeakedSocket
    BY DEF IndInv
<1> QED
    BY <1>1, Invariance, PTL

\* When Stop returns the map is empty, every client socket is closed and no
\* handler is left.
THEOREM StopIsComplete == Spec => []StopLeavesNothing
<1>1. IndInv => StopLeavesNothing
    <2> SUFFICES ASSUME IndInv, stopPC = "done"
                 PROVE  /\ DOMAIN connections = {}
                        /\ \A s \in Sockets : sock[s] # "open"
                        /\ Active = {} /\ acceptSock = NoSocket
        BY DEF StopLeavesNothing
    <2>1. acceptPC = "done" /\ \A s \in Sockets : handlerPC[s] \in {"none", "done"}
        BY DEF IndInv, WaitGroupZero
    <2>2. acceptSock = NoSocket
        BY <2>1 DEF IndInv, TypeOK, AcceptHolds
    <2>3. Active = {} /\ Serving = {}
        BY <2>1 DEF Active, Serving
    <2>4. DOMAIN connections = {}
        BY <2>1, <2>3 DEF IndInv, MapMatchesHandlers
    <2>5. \A s \in Sockets : sock[s] # "open"
        BY <2>1, <2>2, NoneAssumption DEF IndInv, NoLeakedSocket
    <2> QED
        BY <2>2, <2>3, <2>4, <2>5
<1> QED
    BY <1>1, Invariance, PTL


-----------------------------------------------------------------------------
(* TcpServer implements ConnectionRegistry *)

\* The served clients are the sockets of the handlers still in the map, plus
\* the one the accept loop has stored and not yet launched a handler for.
JustStored == IF acceptPC = "spawn" THEN {acceptSock} ELSE {}

\* The clients served, by the invariant: those with a handler before its Delete, and the one just stored.
LEMMA ServedIs == IndInv => servedSockets = Serving \cup JustStored
BY DEF IndInv, TypeOK, servedSockets, Serving, Active, MapMatchesHandlers, ObjectExclusive,
    AcceptHolds, Admitting, FreshID, JustStored

\* The same of the next state.
LEMMA ServedIsNext == (IndInv => servedSockets = Serving \cup JustStored)'
BY ServedIs, PTL

\* No more clients are served than there are entries in the map.
LEMMA ServedCount ==
    ASSUME IndInv
    PROVE  Cardinality(servedSockets) \in Nat /\ Cardinality(servedSockets) <= ConnectionCount
<1> DEFINE f == [i \in DOMAIN connections |-> obj[connections[i]].sock]
<1>1. f \in Surjection(DOMAIN connections, servedSockets)
    BY DEF Surjection, servedSockets
<1>2. IsFiniteSet(DOMAIN connections)
    BY DEF IndInv, RoomForAdmitted
<1>3. IsFiniteSet(servedSockets) /\ Cardinality(servedSockets) <= Cardinality(DOMAIN connections)
    BY <1>1, <1>2, FS_Surjection
<1> QED
    BY <1>3, FS_CardinalityType DEF ConnectionCount

\* A new server is an empty registry.
LEMMA InitRefines == Init => Registry!Init
BY NoneAssumption DEF Init, Registry!Init, servedSockets, pastSockets, serverPhase

\* Every step of the server is a step of the registry, or a stutter.
LEMMA StepRefines ==
    ASSUME IndInv, IndInv', ServerStep
    PROVE  Registry!Next \/ UNCHANGED <<servedSockets, pastSockets, serverPhase>>
<1> DEFINE Keep == UNCHANGED <<servedSockets, pastSockets, serverPhase>>
<1>1. servedSockets = Serving \cup JustStored
    BY ServedIs
<1>2. servedSockets' = Serving' \cup JustStored'
    BY ServedIsNext
<1> USE DEF At, statusVars, poolVars, acceptVars, handlerVars, beatVars, stopVars, acceptFrame,
        handlerFrame, backgroundFrame
<1>3. CASE AcceptHead \/ AcceptCount \/ GetWait
    <2>1. Serving' = Serving /\ JustStored' = {} /\ JustStored = {}
        BY <1>3 DEF AcceptHead, AcceptCount, GetWait, Serving, JustStored
    <2> QED
        BY <1>1, <1>2, <1>3, <2>1 DEF AcceptHead, AcceptCount, GetWait, pastSockets, serverPhase
<1>4. CASE AcceptError
    <2>1. Serving' = Serving /\ JustStored' = JustStored
        BY <1>4 DEF AcceptError, Serving, JustStored
    <2>2. serverPhase \in {"open", "closing"} /\ serverPhase' = "failed"
        BY <1>4 DEF AcceptError, serverPhase, IndInv, StopOrder, WaitGroupZero
    <2>3. Registry!Fail
        BY <1>1, <1>2, <1>4, <2>1, <2>2 DEF AcceptError, pastSockets, Registry!Fail
    <2> QED
        BY <2>3 DEF Registry!Next
<1>5. CASE AcceptStore
    <2>1. acceptSock \in Sockets /\ handlerPC[acceptSock] = "none"
        BY <1>5 DEF AcceptStore, IndInv, AcceptHolds
    <2>2. Serving' = Serving /\ JustStored = {} /\ JustStored' = {acceptSock}
        BY <1>5 DEF AcceptStore, Serving, JustStored
    <2>3. acceptSock \notin servedSockets \cup pastSockets
        BY <1>1, <2>1, <2>2 DEF Serving, pastSockets
    <2>4. Cardinality(servedSockets) < MaxConns
        <3>1. ConnectionCount < MaxConns
            BY <1>5 DEF AcceptStore, IndInv, RoomForAdmitted
        <3>2. ConnectionCount \in Nat
            BY FS_CardinalityType DEF ConnectionCount, IndInv, RoomForAdmitted
        <3> QED
            BY <3>1, <3>2, ServedCount, MaxConnsAssumption
    <2>5. serverPhase \in {"open", "closing"} /\ serverPhase' = serverPhase
        BY <1>5 DEF AcceptStore, serverPhase, IndInv, WaitGroupZero
    <2>6. servedSockets' = servedSockets \cup {acceptSock} /\ pastSockets' = pastSockets
        BY <1>1, <1>2, <1>5, <2>2 DEF AcceptStore, pastSockets
    <2>7. Registry!Cardinality(servedSockets) < MaxConns
        BY <2>4 DEF Registry!Cardinality, Registry!IsFiniteSet, Cardinality, IsFiniteSet
    <2>8. Registry!Admit(acceptSock)
        BY <2>3, <2>5, <2>6, <2>7 DEF Registry!Admit
    <2> QED
        BY <2>1, <2>8 DEF Registry!Next
<1>6. CASE AcceptSpawn
    <2>1. acceptSock \in Sockets /\ handlerPC[acceptSock] = "none"
        BY <1>6 DEF AcceptSpawn, IndInv, AcceptHolds
    <2>2. Serving' = Serving \cup {acceptSock} /\ JustStored = {acceptSock} /\ JustStored' = {}
        BY <1>6, <2>1 DEF AcceptSpawn, Serving, JustStored, IndInv, TypeOK
    <2>3. pastSockets' = pastSockets /\ serverPhase' = serverPhase
        BY <1>6, <2>1 DEF AcceptSpawn, pastSockets, serverPhase, IndInv, TypeOK
    <2> QED
        BY <1>1, <1>2, <2>2, <2>3
<1>7. CASE GetIdle \/ GetCreate \/ GetTimeout
    <2>1. ObtainEffect
        BY <1>7, ObtainFrame
    <2>2. Serving' = Serving /\ JustStored = {} /\ JustStored' = {}
        BY <2>1 DEF ObtainEffect, Serving, JustStored
    <2> QED
        BY <1>1, <1>2, <2>1, <2>2 DEF ObtainEffect, pastSockets, serverPhase
<1>8. ASSUME NEW s \in Sockets, AcceptConn(s) \/ AcceptLimited(s) PROVE Keep
    <2>1. Serving' = Serving /\ JustStored = {} /\ JustStored' = {}
        BY <1>8 DEF AcceptConn, AcceptLimited, Serving, JustStored
    <2> QED
        BY <1>1, <1>2, <1>8, <2>1 DEF AcceptConn, AcceptLimited, pastSockets, serverPhase
<1>9. ASSUME NEW s \in Sockets, HandlerStep(s) \/ HandleSlowly(s)
      PROVE  Registry!Next \/ Keep
    <2>1. HandlerEffect(s)
        BY <1>9, HandlerFrame
    <2>2. serverPhase' = serverPhase /\ JustStored' = JustStored
        BY <2>1 DEF HandlerEffect, serverPhase, JustStored
    <2>3. CASE HandlerDelete(s)
        <3>1. /\ s \in Serving /\ Serving' = Serving \ {s} /\ s \notin JustStored
              /\ pastSockets' = pastSockets \cup {s}
            BY <2>3 DEF HandlerDelete, Serving, pastSockets, JustStored, IndInv, TypeOK, AcceptHolds
        <3>2. serverPhase \in {"open", "closing"}
            BY <2>3 DEF HandlerDelete, serverPhase, IndInv, WaitGroupZero
        <3>3. Registry!Release(s)
            BY <1>1, <1>2, <2>2, <3>1, <3>2 DEF Registry!Release
        <3> QED
            BY <3>3 DEF Registry!Next
    <2>4. CASE ~HandlerDelete(s)
        <3> DEFINE L == {"loop", "read", "handle", "close", "delete"}
        <3>1. \/ UNCHANGED handlerPC
              \/ \E l \in L : handlerPC[s] \in L /\ handlerPC' = [handlerPC EXCEPT ![s] = l]
              \/ handlerPC[s] = "put" /\ handlerPC' = [handlerPC EXCEPT ![s] = "done"]
            BY <1>9, <2>4 DEF HandlerStep, HandleSlowly, HandlerLoop, ReadFrame, ReadFail,
                HandleRequest, HandleLogin, HandleLogout, HandlerClose, HandlerPut
        <3>2. /\ handlerPC'[s] \in L <=> handlerPC[s] \in L
              /\ handlerPC'[s] \in {"put", "done"} <=> handlerPC[s] \in {"put", "done"}
            BY <3>1 DEF IndInv, TypeOK
        <3>3. Serving' = Serving /\ pastSockets' = pastSockets
            BY <2>1, <3>2 DEF HandlerEffect, Serving, pastSockets
        <3> QED
            BY <1>1, <1>2, <2>2, <3>3
    <2> QED
        BY <2>3, <2>4
<1>10. CASE BackgroundStep
    <2>1. BackgroundEffect
        BY <1>10, BackgroundFrame
    <2>2. servedSockets' = servedSockets /\ pastSockets' = pastSockets
        BY <2>1 DEF BackgroundEffect, servedSockets, pastSockets
    <2>3. CASE StopCall
        <3>1. serverPhase = "open" /\ serverPhase' = "closing"
            BY <2>3 DEF StopCall, serverPhase
        <3> QED
            BY <2>2, <3>1 DEF Registry!Next, Registry!StartClose
    <2>4. CASE StopReturn
        <3>1. serverPhase = "closing" /\ serverPhase' = "closed"
            BY <2>4 DEF StopReturn, serverPhase, IndInv, StopOrder
        <3>2. servedSockets = {}
            BY <1>1, <2>4 DEF StopReturn, WaitGroupZero, Serving, JustStored
        <3> QED
            BY <2>2, <3>1, <3>2 DEF Registry!Next, Registry!FinishClose
    <2>5. CASE ~StopCall /\ ~StopReturn
        <3>1. serverPhase' = serverPhase
            BY <1>10, <2>5 DEF serverPhase, BackgroundStep, HeartbeatStep, StopStep,
                HeartbeatScan, HeartbeatLoad, HeartbeatClose, HeartbeatExit, StopListener,
                StopVisit, StopClose, StopRangeEnd
        <3> QED
            BY <2>2, <3>1
    <2> QED
        BY <2>3, <2>4, <2>5
<1> QED
    BY StepCases, <1>3, <1>4, <1>5, <1>6, <1>7, <1>8, <1>9, <1>10

\* The goroutines, the pool and the map together implement the abstract
\* registry: bounded, each client served at most once, closed only when empty.
THEOREM RegistryRefinement == Spec => ImplementsRegistry
<1>1. Init => Registry!Init
    BY InitRefines
<1>2. IndInv /\ IndInv' /\ [Next]_vars
        => [Registry!Next]_<<servedSockets, pastSockets, serverPhase>>
    <2> SUFFICES ASSUME IndInv, IndInv', [Next]_vars
                 PROVE  [Registry!Next]_<<servedSockets, pastSockets, serverPhase>>
        OBVIOUS
    <2>1. CASE ServerStep
        BY <2>1, StepRefines
    <2>2. CASE UNCHANGED vars
        BY <2>2 DEF vars, statusVars, handlerVars, stopVars, servedSockets, pastSockets, serverPhase
    <2> QED
        BY <2>1, <2>2 DEF Next, Finished
<1> QED
    BY <1>1, <1>2, Invariance, PTL DEF Spec, ImplementsRegistry, Registry!Spec

=============================================================================
