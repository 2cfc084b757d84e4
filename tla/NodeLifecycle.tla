---------------------------- MODULE NodeLifecycle ----------------------------
(***************************************************************************)
(* The life of one gateway node: main (src/cmd/main.go), Start, Stop and   *)
(* the load loop of the base server (src/internal/server/server.go), the   *)
(* shutdown and update-load commands (src/internal/server/                 *)
(* system_service.go), and its registration in etcd                        *)
(* (src/internal/discovery/etcd.go) with the lease that keeps it alive.    *)
(*                                                                         *)
(* Two mutexes matter: the server's, which Start and Stop hold from their  *)
(* first line to their last, and the registry's, which Register,           *)
(* Unregister and UpdateLoad hold.  Neither can be locked twice by the     *)
(* goroutine that holds it.                                                *)
(*                                                                         *)
(* The etcd cluster is external: it keeps a key as long as the lease it    *)
(* was put with lives, and a lease as long as somebody keeps it alive.     *)
(***************************************************************************)
EXTENDS Naturals, FiniteSets

CONSTANTS
    Shutdowns,   \* shutdown commands, by gRPC or NSQ; each runs Stop once
    Calls,       \* gRPC calls of UpdateLoad
    MaxLeases    \* bound: leases granted over all lives of the node

ASSUME MaxLeasesAssumption == MaxLeases \in Nat \ {0}

Stoppers == Shutdowns \cup {"main"}
Updaters == Calls \cup {"loop", "nsq"}
ASSUME NamesAssumption ==
    /\ {"none", "main", "loop", "nsq"} \cap (Shutdowns \cup Calls) = {}
    /\ Shutdowns \cap Calls = {}

VARIABLES
    proc,       \* the process is "up" or "down"
    mainPC,     \* the main goroutine
    status,     \* bs.status
    mutex,      \* who holds bs.mutex
    cancelled,  \* bs.ctx is cancelled
    grpc,       \* the gRPC server
    tcp,        \* the TCP server
    consumer,   \* the NSQ consumer of system messages
    stopPC,     \* each caller of bs.Stop
    updatePC,   \* each caller of registry.UpdateLoad, the load loop included
    registry,   \* r.mutex's holder, own entry of r.services, r.ctx, r.leaseID
    leases,     \* etcd: live leases
    key,        \* etcd: the lease of the node's key, 0 when there is no key
    granted,    \* etcd: leases granted so far
    lost,       \* history: a lease expired while kept alive, since Register
    late        \* history: the TCP server was started on a node not running

process == <<mainPC, status, mutex, cancelled, grpc, tcp, consumer, stopPC, updatePC, registry>>
etcd == <<leases, key, granted>>
vars == <<proc, process, etcd, lost, late>>

-----------------------------------------------------------------------------
(* A fresh process: components are initialized, a lease is granted, the    *)
(* consumer is subscribed, main is about to call Start.                    *)
Fresh(lease) ==
    [mainPC |-> "start", status |-> "initializing", mutex |-> "none", cancelled |-> FALSE,
     grpc |-> "off", tcp |-> "off", consumer |-> "open",
     stopPC |-> [c \in Stoppers |-> "no"],
     updatePC |-> [u \in Updaters |-> IF u = "loop" THEN "off" ELSE "idle"],
     registry |-> [holder |-> "none", registered |-> FALSE, closed |-> FALSE, lease |-> lease]]

Init ==
    /\ proc = "up"
    /\ mainPC = Fresh(1).mainPC /\ status = Fresh(1).status /\ mutex = Fresh(1).mutex
    /\ cancelled = Fresh(1).cancelled /\ grpc = Fresh(1).grpc /\ tcp = Fresh(1).tcp
    /\ consumer = Fresh(1).consumer /\ stopPC = Fresh(1).stopPC
    /\ updatePC = Fresh(1).updatePC /\ registry = Fresh(1).registry
    /\ leases = {1} /\ key = 0 /\ granted = 1
    /\ lost = FALSE /\ late = FALSE

\* The process ends, and with it all its goroutines and locks.
Die ==
    /\ proc' = "down"
    /\ LET f == Fresh(0) IN
          /\ mainPC' = f.mainPC /\ status' = f.status /\ mutex' = f.mutex
          /\ cancelled' = f.cancelled /\ grpc' = f.grpc /\ tcp' = f.tcp
          /\ consumer' = f.consumer /\ stopPC' = f.stopPC
          /\ updatePC' = f.updatePC /\ registry' = f.registry
    /\ lost' = FALSE /\ late' = FALSE
    /\ UNCHANGED etcd

Crash == proc = "up" /\ Die

\* Mutation: createLease forgets the lease it was granted.
RestartForgetsLease ==
    /\ proc = "down"
    /\ granted < MaxLeases
    /\ proc' = "up"
    /\ granted' = granted + 1
    /\ leases' = leases \cup {granted'}
    /\ UNCHANGED <<process, key, lost, late>>

\* NewXServer in a new process: NewETCDRegistry takes a lease of its own.
Restart ==
    /\ proc = "down"
    /\ granted < MaxLeases
    /\ proc' = "up"
    /\ granted' = granted + 1
    /\ leases' = leases \cup {granted'}
    /\ registry' = [registry EXCEPT !.lease = granted']
    /\ UNCHANGED <<mainPC, status, mutex, cancelled, grpc, tcp, consumer, stopPC, updatePC,
                   key, lost, late>>

-----------------------------------------------------------------------------
(* The main goroutine: Start, StartTCP, the signal, Stop *)

\* bs.Start locks the mutex, finds the status initializing, listens and
\* launches the gRPC server.
StartServe ==
    /\ proc = "up" /\ mainPC = "start"
    /\ mutex = "none" /\ status = "initializing"
    /\ mutex' = "main"
    /\ grpc' = "serving"
    /\ mainPC' = "register"
    /\ UNCHANGED <<proc, status, cancelled, tcp, consumer, stopPC, updatePC, registry,
                   etcd, lost, late>>

\* Mutation: an existing key of an earlier life is kept.
PutIfAbsent == key' = IF key = 0 /\ registry.lease \in leases THEN registry.lease ELSE key

\* client.Put of the key with the registry's lease.
PutKey == key' = registry.lease

\* registry.Register, then the load loop starts and the status is running.
StartRegister ==
    /\ proc = "up" /\ mainPC = "register"
    /\ registry.holder = "none"
    /\ registry.lease \in leases
    /\ PutKey
    /\ registry' = [registry EXCEPT !.registered = TRUE]
    /\ updatePC' = [updatePC EXCEPT !["loop"] = "idle"]
    /\ status' = "running"
    /\ mutex' = "none"
    /\ mainPC' = "tcp"
    /\ lost' = FALSE
    /\ UNCHANGED <<proc, cancelled, grpc, tcp, consumer, stopPC, leases, granted, late>>

\* Listen, Register (a dead lease is refused) or the TCP server's Start fails:
\* main logs a fatal error and the process exits.
StartFails ==
    /\ proc = "up"
    /\ mainPC \in {"start", "register", "tcp"}
    /\ Die

\* GatewayServer.Start goes on after bs.Start: tcpServer.Start, whatever has
\* become of the node meanwhile.
StartTCP ==
    /\ proc = "up" /\ mainPC = "tcp"
    /\ tcp' = "serving"
    /\ late' = (late \/ status # "running")
    /\ mainPC' = "wait"
    /\ UNCHANGED <<proc, status, mutex, cancelled, grpc, consumer, stopPC, updatePC, registry,
                   etcd, lost>>

\* SIGINT or SIGTERM: main calls Stop.
Signal ==
    /\ proc = "up" /\ mainPC = "wait"
    /\ mainPC' = "stop"
    /\ stopPC' = [stopPC EXCEPT !["main"] = "lock"]
    /\ UNCHANGED <<proc, status, mutex, cancelled, grpc, tcp, consumer, updatePC, registry,
                   etcd, lost, late>>

\* main returns.
Exit == proc = "up" /\ mainPC = "stop" /\ stopPC["main"] = "done" /\ Die

-----------------------------------------------------------------------------
(* bs.Stop, called by main or by the goroutine of a shutdown command *)

\* SystemService.Shutdown by gRPC or HandleShutdown by NSQ: a goroutine that
\* calls Stop a second later.  The consumer handles one message at a time.
Shutdown(c) ==
    /\ proc = "up" /\ stopPC[c] = "no"
    /\ grpc = "serving" \/ (consumer = "open" /\ updatePC["nsq"] = "idle")
    /\ stopPC' = [stopPC EXCEPT ![c] = "lock"]
    /\ UNCHANGED <<proc, mainPC, status, mutex, cancelled, grpc, tcp, consumer, updatePC,
                   registry, etcd, lost, late>>

\* A step of c inside Stop, from one place to the next.
Stopping(c, from, to) ==
    /\ proc = "up" /\ stopPC[c] = from
    /\ stopPC' = [stopPC EXCEPT ![c] = to]
    /\ UNCHANGED <<proc, mainPC, lost, late>>

\* Mutation: Stop does not look at the status.
StopLockUnchecked(c) ==
    /\ mutex = "none"
    /\ Stopping(c, "lock", "tcp")
    /\ mutex' = c /\ status' = "stopping" /\ cancelled' = TRUE
    /\ UNCHANGED <<grpc, tcp, consumer, updatePC, registry, etcd>>

\* The mutex is locked.  Only a running server is stopped: status, bs.cancel().
StopLock(c) ==
    /\ mutex = "none"
    /\ IF status = "running"
       THEN /\ Stopping(c, "lock", "tcp")
            /\ mutex' = c /\ status' = "stopping" /\ cancelled' = TRUE
       ELSE /\ Stopping(c, "lock", "done")
            /\ UNCHANGED <<mutex, status, cancelled>>
    /\ UNCHANGED <<grpc, tcp, consumer, updatePC, registry, etcd>>

\* tcpServer.Stop returns; one not serving is left alone.
StopTCP(c) ==
    /\ Stopping(c, "tcp", "drain")
    /\ tcp' = IF tcp = "serving" THEN "stopped" ELSE tcp
    /\ UNCHANGED <<status, mutex, cancelled, grpc, consumer, updatePC, registry, etcd>>

\* tcpServer.Stop makes the accept loop kill the process (see TcpServer).
StopPanics(c) ==
    /\ proc = "up" /\ stopPC[c] = "tcp" /\ tcp = "serving"
    /\ Die

\* GracefulStop: no new calls are served ...
StopDrain(c) ==
    /\ Stopping(c, "drain", "grpc")
    /\ grpc' = "draining"
    /\ UNCHANGED <<status, mutex, cancelled, tcp, consumer, updatePC, registry, etcd>>

\* ... and it returns once the pending ones are answered; Serve has returned.
StopGRPC(c) ==
    /\ Stopping(c, "grpc", "nsq")
    /\ \A u \in Calls : updatePC[u] = "idle"
    /\ grpc' = "off"
    /\ UNCHANGED <<status, mutex, cancelled, tcp, consumer, updatePC, registry, etcd>>

\* nsqManager.Close: consumer.Stop(), and the wait for StopChan begins.
StopConsumer(c) ==
    /\ Stopping(c, "nsq", "drained")
    /\ consumer' = "closing"
    /\ UNCHANGED <<status, mutex, cancelled, grpc, tcp, updatePC, registry, etcd>>

\* StopChan closes when the handler has returned from its last message, and
\* after 30 seconds even if it has not.
StopConsumed(c) ==
    /\ Stopping(c, "drained", "unregister")
    /\ consumer' = "closed"
    /\ UNCHANGED <<status, mutex, cancelled, grpc, tcp, updatePC, registry, etcd>>

\* registry.Unregister: the key is deleted, or the Delete fails and Stop
\* ignores the error.
StopUnregister(c) ==
    /\ Stopping(c, "unregister", "close")
    /\ registry.holder = "none"
    /\ \/ key' = 0 /\ registry' = [registry EXCEPT !.registered = FALSE]
       \/ UNCHANGED <<key, registry>>
    /\ UNCHANGED <<status, mutex, cancelled, grpc, tcp, consumer, updatePC, leases, granted>>

\* Mutation: the keep-alive is not ended.
StopCloseKeeping(c) ==
    /\ Stopping(c, "close", "wait")
    /\ UNCHANGED <<status, mutex, cancelled, grpc, tcp, consumer, updatePC, registry, etcd>>

\* registry.Close: r.cancel() ends the keep-alive; the Revoke that follows uses
\* the cancelled context and fails, so the lease lives on until its TTL.
StopClose(c) ==
    /\ Stopping(c, "close", "wait")
    /\ registry' = [registry EXCEPT !.closed = TRUE]
    /\ UNCHANGED <<status, mutex, cancelled, grpc, tcp, consumer, updatePC, etcd>>

\* Mutation: Stop does not wait for the load loop.
StopReturnEarly(c) ==
    /\ Stopping(c, "wait", "done")
    /\ status' = "stopped" /\ mutex' = "none"
    /\ UNCHANGED <<cancelled, grpc, tcp, consumer, updatePC, registry, etcd>>

\* bs.wg.Wait() returns: Serve and the load loop have ended.
StopReturn(c) ==
    /\ Stopping(c, "wait", "done")
    /\ updatePC["loop"] = "off"
    /\ status' = "stopped" /\ mutex' = "none"
    /\ UNCHANGED <<cancelled, grpc, tcp, consumer, updatePC, registry, etcd>>

-----------------------------------------------------------------------------
(* registry.UpdateLoad *)

otherThanUpdate == <<proc, mainPC, status, mutex, cancelled, grpc, tcp, consumer, stopPC,
                     etcd, lost, late>>

\* calculateLoad counts connections and actors, under locks of their own; the number
\* is left out.
CalculateLoad(u) == updatePC' = [updatePC EXCEPT ![u] = "lock"]

\* The load loop's ticker fires, an update-load message arrives, or a call.
UpdateBegin(u) ==
    /\ proc = "up" /\ updatePC[u] = "idle"
    /\ u \in Calls => grpc = "serving"
    /\ u = "nsq" => consumer = "open"
    /\ CalculateLoad(u)
    /\ UNCHANGED <<otherThanUpdate, registry>>

\* r.mutex is locked.  A node that is not registered is an error; otherwise
\* UpdateLoad calls Register, which waits for r.mutex: u holds it, so no step
\* leads out of "register".
UpdateLock(u) ==
    /\ proc = "up" /\ updatePC[u] = "lock"
    /\ registry.holder = "none"
    /\ IF registry.registered
       THEN /\ registry' = [registry EXCEPT !.holder = u]
            /\ updatePC' = [updatePC EXCEPT ![u] = "register"]
       ELSE /\ updatePC' = [updatePC EXCEPT ![u] = "idle"]
            /\ UNCHANGED registry
    /\ UNCHANGED otherThanUpdate

\* Mutation: the load loop does not listen to bs.ctx.
LoopEndsNever == FALSE /\ UNCHANGED vars

\* The load loop sees bs.ctx cancelled.
LoopEnds ==
    /\ proc = "up" /\ updatePC["loop"] = "idle"
    /\ cancelled
    /\ updatePC' = [updatePC EXCEPT !["loop"] = "off"]
    /\ UNCHANGED <<otherThanUpdate, registry>>

-----------------------------------------------------------------------------
(* The lease *)

KeptAlive(l) == proc = "up" /\ ~registry.closed /\ l = registry.lease

\* etcd drops a lease, and the key put with it.
Expire(l) ==
    /\ l \in leases
    /\ leases' = leases \ {l}
    /\ key' = IF key = l THEN 0 ELSE key
    /\ UNCHANGED <<proc, process, granted, late>>

\* The TTL of a lease nobody keeps alive is over.
LeaseExpires(l) == ~KeptAlive(l) /\ Expire(l) /\ UNCHANGED lost

\* The node is cut off from etcd for longer than the TTL.
LeaseLost(l) == KeptAlive(l) /\ Expire(l) /\ lost' = TRUE

\* keepAliveLoop finds its channel closed: createLease, and nothing else.
LeaseRecreated ==
    /\ proc = "up" /\ ~registry.closed
    /\ registry.lease \notin leases
    /\ granted < MaxLeases
    /\ granted' = granted + 1
    /\ leases' = leases \cup {granted'}
    /\ registry' = [registry EXCEPT !.lease = granted']
    /\ UNCHANGED <<proc, mainPC, status, mutex, cancelled, grpc, tcp, consumer, stopPC,
                   updatePC, key, lost, late>>

-----------------------------------------------------------------------------
MainStep == StartServe \/ StartRegister \/ StartTCP \/ Exit

StopStep(c) ==
    \/ StopLock(c) \/ StopTCP(c) \/ StopDrain(c) \/ StopGRPC(c)
    \/ StopConsumer(c) \/ StopConsumed(c) \/ StopUnregister(c) \/ StopClose(c) \/ StopReturn(c)

Next ==
    \/ MainStep \/ StartFails \/ Signal \/ Crash \/ Restart
    \/ \E c \in Shutdowns : Shutdown(c)
    \/ \E c \in Stoppers : StopStep(c) \/ StopPanics(c)
    \/ \E u \in Updaters : UpdateBegin(u) \/ UpdateLock(u)
    \/ LoopEnds \/ LeaseRecreated
    \/ \E l \in leases : LeaseExpires(l) \/ LeaseLost(l)

\* Goroutines that can run do, and so does etcd's clock.  Nobody has to send a
\* signal or a command, tick, crash, restart or lose a lease.  A select whose
\* cancelled context is always ready is not passed over for ever.
Fairness ==
    /\ WF_vars(MainStep)
    /\ \A c \in Stoppers : WF_vars(StopStep(c))
    /\ \A u \in Updaters : WF_vars(UpdateLock(u))
    /\ SF_vars(LoopEnds)
    /\ \A l \in 1 .. MaxLeases : WF_vars(LeaseExpires(l))

Spec == Init /\ [][Next]_vars
FairSpec == Spec /\ Fairness

-----------------------------------------------------------------------------
(* Properties *)

StopPlaces == {"no", "lock", "tcp", "drain", "grpc", "nsq", "drained", "unregister",
               "close", "wait", "done"}

\* The variables of the process, and of its registry and etcd: a process that is up
\* knows the lease granted to it last, and etcd keeps no key without its lease.
ProcessTypes ==
    /\ proc \in {"up", "down"}
    /\ mainPC \in {"start", "register", "tcp", "wait", "stop"}
    /\ status \in {"initializing", "running", "stopping", "stopped"}
    /\ mutex \in Stoppers \cup {"none"}
    /\ grpc \in {"off", "serving", "draining"}
    /\ tcp \in {"off", "serving", "stopped"}
    /\ consumer \in {"open", "closing", "closed"}
    /\ stopPC \in [Stoppers -> StopPlaces]
    /\ updatePC \in [Updaters -> {"off", "idle", "lock", "register"}]

FlagTypes == cancelled \in BOOLEAN /\ lost \in BOOLEAN /\ late \in BOOLEAN

LeaseTypes ==
    /\ registry \in [holder : Updaters \cup {"none"}, registered : BOOLEAN,
                     closed : BOOLEAN, lease : 0 .. MaxLeases]
    /\ granted \in 1 .. MaxLeases
    /\ leases \subseteq 1 .. granted
    /\ key \in leases \cup {0}
    /\ registry.lease = IF proc = "up" THEN granted ELSE 0

\* The type invariant.
TypeOK == ProcessTypes /\ FlagTypes /\ LeaseTypes

\* Stop's body runs once in a life of the process: its callers (the signal and
\* any number of shutdown commands) never bring the status back.
Order == [s \in {"initializing", "running", "stopping", "stopped"} |->
            CASE s = "initializing" -> 0 [] s = "running" -> 1
              [] s = "stopping" -> 2 [] s = "stopped" -> 3]

StatusAdvances ==
    [][proc = "up" /\ proc' = "up" => Order[status] <= Order[status']]_vars

\* A node that says it is stopped has ended what it started: no call of
\* UpdateLoad and no load loop is left, gRPC is off, the consumer is closed, the
\* lease is not kept alive.  Only a TCP server that GatewayServer.Start started
\* after a shutdown command had begun to stop the node may serve on.
StoppedMeansQuiet ==
    status = "stopped" =>
        /\ \A u \in Calls : updatePC[u] = "idle"
        /\ updatePC["loop"] = "off"
        /\ grpc = "off" /\ consumer = "closed" /\ registry.closed
        /\ tcp = "serving" => late

\* A running node is in etcd with its present lease, whatever an earlier life
\* left there; once it has lost its lease it is not there at all, for
\* keepAliveLoop takes a new lease without putting the key again.
RegisteredWhileRunning ==
    proc = "up" /\ status = "running" => key = IF lost THEN 0 ELSE registry.lease

\* The key of a node that crashed or stopped is gone from etcd some day, or a
\* new life has begun: Unregister may fail, and Close revokes nothing, so this
\* rests on the keep-alive having ended.
KeyEventuallyGone ==
    (proc = "down" \/ status = "stopped")
        ~> (key = 0 \/ (proc = "up" /\ status \in {"initializing", "running"}))

\* A Stop that finds the node running gets to its end, unless the process dies
\* or a goroutine hangs in UpdateLoad (which the violated UpdateReturns shows).
StopCompletes ==
    (status = "running" /\ \E c \in Stoppers : stopPC[c] = "lock")
        ~> (\/ status = "stopped" \/ proc = "down"
            \/ \E u \in Updaters : updatePC[u] = "register")

\* "更新服务注册信息， 即向etcd更新节点的负载" (server.go, the load loop): a call
\* of UpdateLoad updates the registration, hence returns, unless the process
\* dies.
UpdateReturns ==
    \A u \in Updaters : updatePC[u] = "lock" ~> updatePC[u] \in {"idle", "off"}

=============================================================================
