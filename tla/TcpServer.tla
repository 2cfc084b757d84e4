------------------------------ MODULE TcpServer ------------------------------
(***************************************************************************)
(* The gateway's TCP server (src/internal/network/tcp_server.go and        *)
(* tcp_conn.go) with the pool of Connection objects it recycles            *)
(* (src/internal/pool/object_pool.go, conn_pool.go).                       *)
(*                                                                         *)
(* Four kinds of goroutine share the connections map, the pool and the     *)
(* Connection objects: the accept loop, one handler per admitted socket,   *)
(* the heartbeat loop, and the caller of Stop.  A Connection is an object  *)
(* with an identity: a goroutine that keeps a pointer to it sees whatever  *)
(* client the accept loop has bound to it since.                           *)
(*                                                                         *)
(* Each socket of Sockets is one client connection attempt, so the set     *)
(* bounds the length of a behaviour and every counter.                     *)
(***************************************************************************)
EXTENDS Naturals, FiniteSets

CONSTANTS
    Sockets,    \* net.Conn values the listener can hand out, one per client
    Objects,    \* *Connection values the pool's factory can allocate
    Users,      \* user identifiers a login can bind to a connection
    MaxConns,   \* maxConns: connection limit and pool size
    NoSocket, NoObject, NoUser

ASSUME MaxConnsAssumption == MaxConns \in Nat \ {0}
ASSUME NoneAssumption ==
    NoSocket \notin Sockets /\ NoObject \notin Objects /\ NoUser \notin Users

VARIABLES
    running,     \* s.running, and s.ctx not cancelled
    listening,   \* the listener is open
    panicked,    \* the process has died of an unrecovered panic
    sock,        \* server-side state of every socket
    connections, \* s.connections: connID -> *Connection
    connCounter, \* s.connCounter
    obj,         \* the fields of every Connection object
    made,        \* objects the factory has returned
    idle,        \* objects in the pool's channel
    created,     \* the pool's created counter
    acceptPC, acceptSock, acceptObj,  \* the accept loop and its locals
    handlerPC, own,                   \* handleConnection(own[s]) of socket s
    beatPC, expired, beatObj,         \* the heartbeat loop and its locals
    stopPC, stopTodo, stopObj         \* the caller of Stop

poolVars   == <<made, idle, created>>
acceptVars == <<acceptPC, acceptSock, acceptObj>>
handlerVars == <<handlerPC, own>>
beatVars   == <<beatPC, expired, beatObj>>
stopVars   == <<stopPC, stopTodo, stopObj>>
statusVars == <<running, listening, panicked>>
vars == <<statusVars, sock, connections, connCounter, obj, poolVars,
          acceptVars, handlerVars, beatVars, stopVars>>

\* What the accept loop never touches, what a handler never touches, and what
\* neither the heartbeat nor Stop ever touches.
acceptFrame == <<statusVars, handlerVars, beatVars, stopVars>>
handlerFrame == <<statusVars, connCounter, made, created, acceptVars, own, beatVars, stopVars>>
backgroundFrame == <<connections, connCounter, obj, poolVars, acceptVars, handlerVars>>

-----------------------------------------------------------------------------
(* Connection objects *)

\* The fields of a Connection that the server's control depends on.  "stale"
\* stands for a LastActivity more than 60 seconds old.
Connection == [id     : Nat,
               sock   : Sockets \cup {NoSocket},
               user   : Users \cup {NoUser},
               stale  : BOOLEAN,
               closed : BOOLEAN]

\* &Connection{}: the factory of the connection pool.
FreshConnection ==
    [id |-> 0, sock |-> NoSocket, user |-> NoUser, stale |-> TRUE, closed |-> FALSE]

\* Mutation: Reset forgets the user.
ResetKeepingUser(c) == [c EXCEPT !.stale = TRUE, !.closed = FALSE]
\* Mutation: Reset also drops the socket.
ResetUnbinding(c) == [c EXCEPT !.user = NoUser, !.sock = NoSocket, !.stale = TRUE]

\* Connection.Reset: the business fields are cleared, ID and Conn are not.
Reset(c) == [c EXCEPT !.user = NoUser, !.stale = TRUE, !.closed = FALSE]

\* Reset, then the accept loop's assignments to ID, Conn and LastActivity.
Bind(c, id, s) == [Reset(c) EXCEPT !.id = id, !.sock = s, !.stale = FALSE]

\* Connection.IsClosed.
IsClosed(c) == c.closed

\* Mutation: the socket is not closed.
LeaveSocketOf(o) == sock

\* Connection.Close on object o: nothing when marked closed, else the
\* underlying socket is closed; the closed flag itself is left alone.
CloseSocketOf(o) ==
    IF IsClosed(obj[o]) \/ obj[o].sock = NoSocket THEN sock
    ELSE [sock EXCEPT ![obj[o].sock] = "closed"]

\* Mutation: a nil entry is left in the map instead of none.
DeletedToNil(id) == [connections EXCEPT ![id] = NoObject]

\* s.connections.Store and s.connections.Delete.
Stored(id, o) ==
    [i \in DOMAIN connections \cup {id} |-> IF i = id THEN o ELSE connections[i]]
Deleted(id) == [i \in DOMAIN connections \ {id} |-> connections[i]]

\* GetConnectionCount.
ConnectionCount == Cardinality(DOMAIN connections)

\* Mutation: the comparison lets one more in.
LimitExceeded == ConnectionCount > MaxConns
LimitReached == ConnectionCount >= MaxConns

\* A goroutine of the live process is about to execute the step labelled l.
At(pc, l) == ~panicked /\ pc = l

-----------------------------------------------------------------------------
(* Start has run: the listener is open, both loops have been launched. *)
Init ==
    /\ running = TRUE
    /\ listening = TRUE
    /\ panicked = FALSE
    /\ sock = [s \in Sockets |-> "new"]
    /\ connections = [i \in {} |-> NoObject]
    /\ connCounter = 0
    /\ obj = [o \in Objects |-> FreshConnection]
    /\ made = {}
    /\ idle = {}
    /\ created = 0
    /\ acceptPC = "head" /\ acceptSock = NoSocket /\ acceptObj = NoObject
    /\ handlerPC = [s \in Sockets |-> "none"]
    /\ own = [s \in Sockets |-> NoObject]
    /\ beatPC = "idle" /\ expired = {} /\ beatObj = NoObject
    /\ stopPC = "no" /\ stopTodo = {} /\ stopObj = NoObject

-----------------------------------------------------------------------------
(* acceptLoop *)

\* for s.running: enter Accept, or return (wg.Done).
AcceptHead ==
    /\ At(acceptPC, "head")
    /\ acceptPC' = IF running THEN "accept" ELSE "done"
    /\ UNCHANGED <<acceptFrame, sock, connections, connCounter, obj, poolVars,
                   acceptSock, acceptObj>>

\* Accept returns a client's socket and the address limiter lets it through.
AcceptConn(s) ==
    /\ At(acceptPC, "accept")
    /\ listening
    /\ sock[s] = "new"
    /\ sock' = [sock EXCEPT ![s] = "open"]
    /\ acceptSock' = s
    /\ acceptPC' = "count"
    /\ UNCHANGED <<acceptFrame, connections, connCounter, obj, poolVars, acceptObj>>

\* Accept returns a client's socket and the address limiter refuses it.
AcceptLimited(s) ==
    /\ At(acceptPC, "accept")
    /\ listening
    /\ sock[s] = "new"
    /\ sock' = [sock EXCEPT ![s] = "closed"]
    /\ acceptPC' = "head"
    /\ UNCHANGED <<acceptFrame, connections, connCounter, obj, poolVars, acceptSock, acceptObj>>

\* Accept returns (nil, err), because the listener is closed or because it
\* fails while the server runs (no descriptor left, say): RemoteAddr is called
\* on the nil net.Conn before err is looked at, and the process dies.
AcceptError ==
    /\ At(acceptPC, "accept")
    /\ panicked' = TRUE
    /\ UNCHANGED <<backgroundFrame, running, listening, sock, beatVars, stopVars>>

\* The connection limit: refuse and close, or take the next connection ID.
AcceptCount ==
    /\ At(acceptPC, "count")
    /\ IF LimitReached
       THEN /\ sock' = [sock EXCEPT ![acceptSock] = "closed"]
            /\ acceptSock' = NoSocket
            /\ acceptPC' = "head"
            /\ UNCHANGED connCounter
       ELSE /\ connCounter' = connCounter + 1
            /\ acceptPC' = "get"
            /\ UNCHANGED <<sock, acceptSock>>
    /\ UNCHANGED <<acceptFrame, connections, obj, poolVars, acceptObj>>

\* The pool returned o: Reset it and bind it to the new client.
Obtain(o) ==
    /\ obj' = [obj EXCEPT ![o] = Bind(@, connCounter, acceptSock)]
    /\ acceptObj' = o
    /\ acceptPC' = "store"
    /\ UNCHANGED <<acceptFrame, sock, connections, connCounter, acceptSock>>

\* Mutation: the object handed out stays in the pool.
GetIdleNoTake ==
    /\ At(acceptPC, "get") \/ At(acceptPC, "wait")
    /\ \E o \in idle : Obtain(o)
    /\ UNCHANGED poolVars

\* connPool.Get finds an idle object, at once or during its 100ms wait.
GetIdle ==
    /\ At(acceptPC, "get") \/ At(acceptPC, "wait")
    /\ \E o \in idle :
          /\ idle' = idle \ {o}
          /\ Obtain(o)
    /\ UNCHANGED <<made, created>>

\* connPool.Get finds none idle and is below maxSize: a counted allocation.
GetCreate ==
    /\ At(acceptPC, "get")
    /\ idle = {}
    /\ created < MaxConns
    /\ created' = created + 1
    /\ \E o \in Objects \ made :
          /\ made' = made \cup {o}
          /\ Obtain(o)
    /\ UNCHANGED idle

\* connPool.Get finds none idle and maxSize reached: wait for a Put.
GetWait ==
    /\ At(acceptPC, "get")
    /\ idle = {}
    /\ created >= MaxConns
    /\ acceptPC' = "wait"
    /\ UNCHANGED <<acceptFrame, sock, connections, connCounter, obj, poolVars,
                   acceptSock, acceptObj>>

\* The 100ms are over: an allocation that created does not count.
GetTimeout ==
    /\ At(acceptPC, "wait")
    /\ \E o \in Objects \ made :
          /\ made' = made \cup {o}
          /\ Obtain(o)
    /\ UNCHANGED <<idle, created>>

\* s.connections.Store(connID, connection).
AcceptStore ==
    /\ At(acceptPC, "store")
    /\ connections' = Stored(connCounter, acceptObj)
    /\ acceptPC' = "spawn"
    /\ UNCHANGED <<acceptFrame, sock, connCounter, obj, poolVars, acceptSock, acceptObj>>

\* wg.Add(1); go s.handleConnection(connection).
AcceptSpawn ==
    /\ At(acceptPC, "spawn")
    /\ handlerPC' = [handlerPC EXCEPT ![acceptSock] = "loop"]
    /\ own' = [own EXCEPT ![acceptSock] = acceptObj]
    /\ acceptPC' = "head"
    /\ acceptSock' = NoSocket
    /\ acceptObj' = NoObject
    /\ UNCHANGED <<statusVars, sock, connections, connCounter, obj, poolVars, beatVars, stopVars>>

-----------------------------------------------------------------------------
(* handleConnection, the goroutine launched for socket s *)

\* Mutation: the loop does not look at s.running.
HandlerLoopForever(s) ==
    /\ At(handlerPC[s], "loop")
    /\ handlerPC' = [handlerPC EXCEPT ![s] = IF ~IsClosed(obj[own[s]]) THEN "read" ELSE "close"]
    /\ UNCHANGED <<handlerFrame, sock, connections, obj, idle>>

\* for !conn.IsClosed() && s.running.
HandlerLoop(s) ==
    /\ At(handlerPC[s], "loop")
    /\ handlerPC' = [handlerPC EXCEPT ![s] =
                        IF ~IsClosed(obj[own[s]]) /\ running THEN "read" ELSE "close"]
    /\ UNCHANGED <<handlerFrame, sock, connections, obj, idle>>

\* A whole valid frame is read from the socket the object is bound to.
ReadFrame(s) ==
    /\ At(handlerPC[s], "read")
    /\ obj[own[s]].sock # NoSocket
    /\ sock[obj[own[s]].sock] = "open"
    /\ obj' = [obj EXCEPT ![own[s]].stale = FALSE]
    /\ handlerPC' = [handlerPC EXCEPT ![s] = "handle"]
    /\ UNCHANGED <<handlerFrame, sock, connections, idle>>

\* Read fails (socket closed, client gone, 30s deadline) or the length prefix
\* is invalid: leave the loop.
ReadFail(s) ==
    /\ At(handlerPC[s], "read")
    /\ obj' = [obj EXCEPT ![own[s]].stale = FALSE]
    /\ handlerPC' = [handlerPC EXCEPT ![s] = "close"]
    /\ UNCHANGED <<handlerFrame, sock, connections, idle>>

\* HandleMessage keeps the goroutine busy past the heartbeat's 60 seconds.
HandleSlowly(s) ==
    /\ At(handlerPC[s], "handle")
    /\ ~obj[own[s]].stale
    /\ obj' = [obj EXCEPT ![own[s]].stale = TRUE]
    /\ UNCHANGED <<handlerFrame, handlerPC, sock, connections, idle>>

\* HandleMessage answers the client (heartbeat or forwarded message): Write
\* refreshes LastActivity.
HandleRequest(s) ==
    /\ At(handlerPC[s], "handle")
    /\ obj' = [obj EXCEPT ![own[s]].stale = FALSE]
    /\ handlerPC' = [handlerPC EXCEPT ![s] = "loop"]
    /\ UNCHANGED <<handlerFrame, sock, connections, idle>>

\* handleLogin: conn.UserID is set, then the answer is written.
HandleLogin(s, u) ==
    /\ At(handlerPC[s], "handle")
    /\ obj' = [obj EXCEPT ![own[s]].user = u, ![own[s]].stale = FALSE]
    /\ handlerPC' = [handlerPC EXCEPT ![s] = "loop"]
    /\ UNCHANGED <<handlerFrame, sock, connections, idle>>

\* handleLogout: conn.Close(), no answer.
HandleLogout(s) ==
    /\ At(handlerPC[s], "handle")
    /\ sock' = CloseSocketOf(own[s])
    /\ handlerPC' = [handlerPC EXCEPT ![s] = "loop"]
    /\ UNCHANGED <<handlerFrame, connections, obj, idle>>

\* Mutation: the object goes back to the pool before the map forgets it.
HandlerClosePutting(s) ==
    /\ At(handlerPC[s], "close")
    /\ sock' = CloseSocketOf(own[s])
    /\ idle' = idle \cup {own[s]}
    /\ handlerPC' = [handlerPC EXCEPT ![s] = "delete"]
    /\ UNCHANGED <<handlerFrame, connections, obj>>

\* defer, 1: conn.Close().
HandlerClose(s) ==
    /\ At(handlerPC[s], "close")
    /\ sock' = CloseSocketOf(own[s])
    /\ handlerPC' = [handlerPC EXCEPT ![s] = "delete"]
    /\ UNCHANGED <<handlerFrame, connections, obj, idle>>

\* defer, 2: s.connections.Delete(conn.ID).
HandlerDelete(s) ==
    /\ At(handlerPC[s], "delete")
    /\ connections' = Deleted(obj[own[s]].id)
    /\ handlerPC' = [handlerPC EXCEPT ![s] = "put"]
    /\ UNCHANGED <<handlerFrame, sock, obj, idle>>

\* defer, 3-5: connPool.Put(conn) resets the object and offers it to the
\* channel, which drops it when full; wg.Done.
HandlerPut(s) ==
    /\ At(handlerPC[s], "put")
    /\ obj' = [obj EXCEPT ![own[s]] = Reset(@)]
    /\ idle' = IF Cardinality(idle) < MaxConns THEN idle \cup {own[s]} ELSE idle
    /\ handlerPC' = [handlerPC EXCEPT ![s] = "done"]
    /\ UNCHANGED <<handlerFrame, sock, connections>>

-----------------------------------------------------------------------------
(* heartbeatLoop *)

\* The ticker fires and Range collects the IDs of the expired connections.
HeartbeatScan ==
    /\ At(beatPC, "idle")
    /\ expired' = {i \in DOMAIN connections : obj[connections[i]].stale}
    /\ expired' # {}
    /\ beatPC' = "load"
    /\ UNCHANGED <<backgroundFrame, statusVars, sock, beatObj, stopVars>>

\* s.connections.Load of the next expired ID, which may be gone by now.
HeartbeatLoad ==
    /\ At(beatPC, "load")
    /\ \E i \in expired :
          /\ expired' = expired \ {i}
          /\ IF i \in DOMAIN connections
             THEN beatObj' = connections[i] /\ beatPC' = "close"
             ELSE /\ beatPC' = IF expired' = {} THEN "idle" ELSE "load"
                  /\ UNCHANGED beatObj
    /\ UNCHANGED <<backgroundFrame, statusVars, sock, stopVars>>

\* conn.Close() through the pointer Load returned.
HeartbeatClose ==
    /\ At(beatPC, "close")
    /\ sock' = CloseSocketOf(beatObj)
    /\ beatObj' = NoObject
    /\ beatPC' = IF expired = {} THEN "idle" ELSE "load"
    /\ UNCHANGED <<backgroundFrame, statusVars, expired, stopVars>>

\* <-s.ctx.Done(): return (wg.Done).
HeartbeatExit ==
    /\ At(beatPC, "idle")
    /\ ~running
    /\ beatPC' = "done"
    /\ UNCHANGED <<backgroundFrame, statusVars, sock, expired, beatObj, stopVars>>

-----------------------------------------------------------------------------
(* Stop *)

\* s.running = false; s.cancel().
StopCall ==
    /\ At(stopPC, "no")
    /\ running
    /\ running' = FALSE
    /\ stopPC' = "listener"
    /\ UNCHANGED <<backgroundFrame, listening, panicked, sock, beatVars, stopTodo, stopObj>>

\* s.listener.Close(), and the Range over the connections begins.
StopListener ==
    /\ At(stopPC, "listener")
    /\ listening' = FALSE
    /\ stopTodo' = DOMAIN connections
    /\ stopPC' = "range"
    /\ UNCHANGED <<backgroundFrame, running, panicked, sock, beatVars, stopObj>>

\* Range yields the next connection that is still in the map.  One stored
\* after the Range began need not be visited, and here it never is.
StopVisit ==
    /\ At(stopPC, "range")
    /\ stopObj = NoObject
    /\ \E i \in stopTodo :
          /\ stopTodo' = stopTodo \ {i}
          /\ stopObj' = IF i \in DOMAIN connections THEN connections[i] ELSE NoObject
    /\ UNCHANGED <<backgroundFrame, statusVars, sock, beatVars, stopPC>>

\* conn.Close() inside the Range callback.
StopClose ==
    /\ At(stopPC, "range")
    /\ stopObj # NoObject
    /\ sock' = CloseSocketOf(stopObj)
    /\ stopObj' = NoObject
    /\ UNCHANGED <<backgroundFrame, statusVars, beatVars, stopPC, stopTodo>>

\* The Range is over: s.wg.Wait() begins.
StopRangeEnd ==
    /\ At(stopPC, "range")
    /\ stopObj = NoObject
    /\ stopTodo = {}
    /\ stopPC' = "wait"
    /\ UNCHANGED <<backgroundFrame, statusVars, sock, beatVars, stopTodo, stopObj>>

\* Mutation: the handlers are not counted in the wait group.
WaitGroupLoopsOnly == acceptPC = "done" /\ beatPC = "done"

\* The counter of s.wg: the two loops and every handler not yet done.
WaitGroupZero ==
    /\ acceptPC = "done"
    /\ beatPC = "done"
    /\ \A s \in Sockets : handlerPC[s] \in {"none", "done"}

\* Mutation: Stop does not wait.
StopReturnEarly ==
    /\ At(stopPC, "wait")
    /\ stopPC' = "done"
    /\ UNCHANGED <<backgroundFrame, statusVars, sock, beatVars, stopTodo, stopObj>>

\* s.wg.Wait() returns and so does Stop.
StopReturn ==
    /\ At(stopPC, "wait")
    /\ WaitGroupZero
    /\ stopPC' = "done"
    /\ UNCHANGED <<backgroundFrame, statusVars, sock, beatVars, stopTodo, stopObj>>

-----------------------------------------------------------------------------
\* What the accept loop does by itself, whether or not a client connects.  An
\* Accept on a closed listener is certain to return, and with an error.
AcceptStep ==
    \/ AcceptHead \/ (~listening /\ AcceptError) \/ AcceptCount
    \/ GetIdle \/ GetCreate \/ GetWait \/ GetTimeout
    \/ AcceptStore \/ AcceptSpawn

ClientConnects == \E s \in Sockets : AcceptConn(s) \/ AcceptLimited(s)

HandlerStep(s) ==
    \/ HandlerLoop(s) \/ ReadFrame(s) \/ ReadFail(s)
    \/ HandleRequest(s) \/ (\E u \in Users : HandleLogin(s, u)) \/ HandleLogout(s)
    \/ HandlerClose(s) \/ HandlerDelete(s) \/ HandlerPut(s)

HeartbeatStep == HeartbeatLoad \/ HeartbeatClose \/ HeartbeatExit

StopStep ==
    StopListener \/ StopVisit \/ StopClose \/ StopRangeEnd \/ StopReturn

ServerStep ==
    \/ AcceptStep
    \/ ClientConnects \/ AcceptError
    \/ \E s \in Sockets : HandlerStep(s) \/ HandleSlowly(s)
    \/ HeartbeatScan \/ HeartbeatStep
    \/ StopCall \/ StopStep

\* A dead process, or one whose server has stopped, does nothing more.
Finished == (panicked \/ stopPC = "done") /\ UNCHANGED vars

Next == ServerStep \/ Finished

\* Goroutines that can run do run; a Read ends within its deadline and
\* HandleMessage returns.  No client has to connect, an Accept on an open
\* listener need not fail, the ticker is not needed and nobody has to call Stop.
Fairness ==
    /\ WF_vars(AcceptStep)
    /\ \A s \in Sockets : WF_vars(HandlerStep(s))
    /\ WF_vars(HeartbeatStep)
    /\ WF_vars(StopStep)

Spec == Init /\ [][Next]_vars
FairSpec == Spec /\ Fairness

-----------------------------------------------------------------------------
(* Properties *)

\* Sockets whose handleConnection goroutine has been launched and has not
\* returned, and those among them that have not yet left the map.
Active == {s \in Sockets : handlerPC[s] \notin {"none", "done"}}
Serving == {s \in Sockets : handlerPC[s] \in {"loop", "read", "handle", "close", "delete"}}

\* The accept loop holds a bound object that has no handler yet.
Admitting == acceptPC \in {"store", "spawn"}

\* Every variable keeps its type: the accept loop's, the handlers', the
\* heartbeat's and Stop's program counters, locals and shared structures.
TypeOK ==
    /\ running \in BOOLEAN /\ listening \in BOOLEAN /\ panicked \in BOOLEAN
    /\ sock \in [Sockets -> {"new", "open", "closed"}]
    /\ DOMAIN connections \subseteq Nat
    /\ connections \in [DOMAIN connections -> Objects]
    /\ connCounter \in Nat
    /\ obj \in [Objects -> Connection]
    /\ made \subseteq Objects /\ idle \subseteq Objects /\ created \in Nat
    /\ acceptPC \in {"head", "accept", "count", "get", "wait", "store", "spawn", "done"}
    /\ acceptSock \in Sockets \cup {NoSocket}
    /\ acceptObj \in Objects \cup {NoObject}
    /\ handlerPC \in [Sockets -> {"none", "loop", "read", "handle", "close",
                                  "delete", "put", "done"}]
    /\ own \in [Sockets -> Objects \cup {NoObject}]
    /\ beatPC \in {"idle", "load", "close", "done"}
    /\ expired \subseteq Nat
    /\ beatObj \in Objects \cup {NoObject}
    /\ stopPC \in {"no", "listener", "range", "wait", "done"}
    /\ stopTodo \subseteq Nat
    /\ stopObj \in Objects \cup {NoObject}

\* A Connection object serves one client at a time: no two handlers share
\* one, none that a handler or the accept loop holds is idle in the pool, and
\* each handler's object is still bound to the client it was launched for.
ObjectExclusive ==
    /\ \A s, t \in Active : own[s] = own[t] => s = t
    /\ \A s \in Active : own[s] \notin idle /\ obj[own[s]].sock = s
    /\ Admitting => /\ acceptObj \notin idle
                    /\ \A s \in Active : own[s] # acceptObj

\* The connections map and the goroutines agree: an entry's key is the ID of
\* its object, the object belongs to a handler that will delete that entry or
\* to the accept loop about to launch one, and every handler short of its
\* Delete is in the map, where Stop and the heartbeat can find it.
MapMatchesHandlers ==
    /\ \A i \in DOMAIN connections :
          /\ obj[connections[i]].id = i
          /\ \/ \E s \in Serving : own[s] = connections[i]
             \/ acceptPC = "spawn" /\ acceptObj = connections[i]
    /\ \A s \in Serving :
          /\ obj[own[s]].id \in DOMAIN connections
          /\ connections[obj[own[s]].id] = own[s]

\* The limit the accept loop checks before it takes an object still holds
\* when the connection is stored, and at all times.
ConnectionLimit == ConnectionCount <= MaxConns

\* No client socket is forgotten open: the accept loop or a handler that has
\* yet to run its deferred Close holds it.
NoLeakedSocket ==
    \A s \in Sockets : sock[s] = "open" =>
        acceptSock = s \/ handlerPC[s] \in {"loop", "read", "handle", "close"}

\* When Stop returns, nothing of the server is left: no entry in the map, no
\* open socket, and no goroutine still holding a connection.
StopLeavesNothing ==
    stopPC = "done" =>
        /\ DOMAIN connections = {}
        /\ \A s \in Sockets : sock[s] # "open"
        /\ Active = {} /\ acceptSock = NoSocket

\* Once Stop is called it returns, unless the process dies: no handler stays
\* blocked in a Read that nobody interrupts, also not one admitted while Stop
\* was already walking the map.
StopTerminates == stopPC # "no" ~> (stopPC = "done" \/ panicked)

-----------------------------------------------------------------------------
(* The service the connections map gives the gateway *)

\* The sockets of the objects in the map, those that have left it, and the
\* phase of the server, for the abstract registry.
servedSockets == {obj[connections[i]].sock : i \in DOMAIN connections}
pastSockets == {s \in Sockets : handlerPC[s] \in {"put", "done"}}
serverPhase == IF panicked THEN "failed"
               ELSE IF stopPC = "done" THEN "closed"
               ELSE IF running THEN "open" ELSE "closing"

Registry == INSTANCE ConnectionRegistry WITH
    Clients <- Sockets, Limit <- MaxConns,
    served <- servedSockets, past <- pastSockets, phase <- serverPhase

\* The accept loop, the handlers, the heartbeat and Stop together serve every
\* client at most once, never more than the limit at a time, and close only
\* when nobody is served.
ImplementsRegistry == Registry!Spec

-----------------------------------------------------------------------------
(* What a comment in the source says and the code does not do *)

\* Closing the listener makes Accept return an error and Stop is a graceful
\* shutdown: the process does not die after Stop has closed the listener.
StopIsGraceful == ~listening => ~panicked

=============================================================================
