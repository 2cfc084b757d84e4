------------------------- MODULE NodeLifecycleProofs -------------------------
(***************************************************************************)
(* Theorems about NodeLifecycle, for any shutdown commands, any gRPC calls *)
(* of UpdateLoad and any number of leases: what a stopped node has ended,  *)
(* what etcd shows of a running one, and that Stop's body runs once.       *)
(***************************************************************************)
EXTENDS NodeLifecycle, TLAPS

-----------------------------------------------------------------------------
(* The inductive invariant *)

\* Places of Stop's body, and those past its calls in their order.
Inside == {"tcp", "drain", "grpc", "nsq", "drained", "unregister", "close", "wait"}
PastTCP == Inside \ {"tcp"}
PastGRPC == {"nsq", "drained", "unregister", "close", "wait"}
PastNSQ == {"unregister", "close", "wait"}

\* Stop has got to one of these places, or has returned.
Got(places) == status = "stopped" \/ \E c \in Stoppers : stopPC[c] \in places

\* Start ends with the status running, and main calls Stop last of all.
MainOrder ==
    /\ status = "initializing" <=> mainPC \in {"start", "register"}
    /\ mainPC = "register" => mutex = "main"
    /\ stopPC["main"] # "no" => mainPC = "stop"
    /\ proc = "down" => mainPC = "start"
    /\ status \in {"initializing", "running"} => ~registry.closed

\* Whoever is inside Stop's body holds the mutex, and the status says so.
StopHolds ==
    /\ \A c \in Stoppers : stopPC[c] \in Inside => mutex = c /\ status = "stopping"
    /\ proc = "down" => \A c \in Stoppers : stopPC[c] = "no"

\* What Stop's calls have ended stays ended.
StopEnds ==
    /\ Got(PastTCP) => (tcp = "serving" => late)
    /\ Got({"grpc"}) => grpc # "serving"
    /\ Got(PastGRPC) => grpc = "off" /\ \A u \in Calls : updatePC[u] = "idle"
    /\ Got(PastNSQ) => consumer = "closed"
    /\ Got({"wait"}) => registry.closed
    /\ status = "stopped" => updatePC["loop"] = "off"

\* The lease a running node has not lost is alive, and so is that of its key.
LeaseAlive == proc = "up" /\ status = "running" /\ ~lost => registry.lease \in leases

IndInv ==
    /\ TypeOK
    /\ MainOrder /\ StopHolds /\ StopEnds
    /\ LeaseAlive /\ RegisteredWhileRunning

-----------------------------------------------------------------------------
(* The invariant is inductive *)

\* What a process begins with.
LEMMA FreshFields ==
    ASSUME NEW lease
    PROVE  /\ Fresh(lease).mainPC = "start" /\ Fresh(lease).status = "initializing"
           /\ Fresh(lease).mutex = "none" /\ Fresh(lease).cancelled = FALSE
           /\ Fresh(lease).grpc = "off" /\ Fresh(lease).tcp = "off"
           /\ Fresh(lease).consumer = "open"
           /\ Fresh(lease).stopPC = [c \in Stoppers |-> "no"]
           /\ Fresh(lease).updatePC = [u \in Updaters |-> IF u = "loop" THEN "off" ELSE "idle"]
           /\ Fresh(lease).registry =
                 [holder |-> "none", registered |-> FALSE, closed |-> FALSE, lease |-> lease]
BY DEF Fresh

\* A process that has just begun satisfies the invariant.
THEOREM InitEstablishes == Init => IndInv
<1> SUFFICES ASSUME Init PROVE IndInv
  OBVIOUS
<1>1. /\ proc = "up" /\ mainPC = "start" /\ status = "initializing" /\ mutex = "none"
      /\ cancelled = FALSE /\ grpc = "off" /\ tcp = "off" /\ consumer = "open"
      /\ stopPC = [c \in Stoppers |-> "no"]
      /\ updatePC = [u \in Updaters |-> IF u = "loop" THEN "off" ELSE "idle"]
      /\ registry = [holder |-> "none", registered |-> FALSE, closed |-> FALSE, lease |-> 1]
      /\ leases = {1} /\ key = 0 /\ granted = 1 /\ lost = FALSE /\ late = FALSE
  BY FreshFields, Zenon DEF Init
<1>2. ProcessTypes /\ FlagTypes
  BY <1>1 DEF ProcessTypes, FlagTypes, StopPlaces
<1>3. LeaseTypes
  BY <1>1, MaxLeasesAssumption DEF LeaseTypes
<1>4. MainOrder /\ StopHolds /\ StopEnds
  BY <1>1 DEF MainOrder, StopHolds, StopEnds, Got, Inside, PastTCP, PastGRPC, PastNSQ, Stoppers
<1>5. LeaseAlive /\ RegisteredWhileRunning
  BY <1>1 DEF LeaseAlive, RegisteredWhileRunning
<1> QED
  BY <1>2, <1>3, <1>4, <1>5 DEF IndInv, TypeOK

\* The end of the process, whatever ends it, brings everything but etcd back to
\* where a new process begins.
LEMMA DieKeeps == ASSUME IndInv, Die PROVE IndInv'
<1>1. /\ proc' = "down" /\ mainPC' = "start" /\ status' = "initializing" /\ mutex' = "none"
      /\ cancelled' = FALSE /\ grpc' = "off" /\ tcp' = "off" /\ consumer' = "open"
      /\ stopPC' = [c \in Stoppers |-> "no"]
      /\ updatePC' = [u \in Updaters |-> IF u = "loop" THEN "off" ELSE "idle"]
      /\ registry' = [holder |-> "none", registered |-> FALSE, closed |-> FALSE, lease |-> 0]
      /\ UNCHANGED etcd /\ lost' = FALSE /\ late' = FALSE
  BY FreshFields, Zenon DEF Die
<1>2. ProcessTypes' /\ FlagTypes'
  BY <1>1 DEF ProcessTypes, FlagTypes, StopPlaces
<1>3. LeaseTypes'
  BY <1>1, MaxLeasesAssumption DEF IndInv, TypeOK, LeaseTypes, etcd
<1>4. MainOrder' /\ StopHolds' /\ StopEnds'
  BY <1>1 DEF MainOrder, StopHolds, StopEnds, Got, Inside, PastTCP, PastGRPC, PastNSQ, Stoppers
<1>5. LeaseAlive' /\ RegisteredWhileRunning'
  BY <1>1 DEF LeaseAlive, RegisteredWhileRunning
<1> QED
  BY <1>2, <1>3, <1>4, <1>5 DEF IndInv, TypeOK

\* The steps that do not end the process, by who takes them.
MainMoves == StartServe \/ StartRegister \/ StartTCP \/ Signal \/ Restart
UpdateMoves == (\E u \in Updaters : UpdateBegin(u) \/ UpdateLock(u)) \/ LoopEnds
LeaseMoves == LeaseRecreated \/ \E l \in leases : LeaseExpires(l) \/ LeaseLost(l)

\* A step is the process's end, or one of main, of an update, of a lease, of a Stop or a command.
LEMMA StepCases ==
    ASSUME Next
    PROVE  \/ Die \/ MainMoves \/ UpdateMoves \/ LeaseMoves
           \/ \E c \in Shutdowns : Shutdown(c)
           \/ \E c \in Stoppers : StopStep(c)
BY DEF Next, MainStep, StartFails, Exit, Crash, StopPanics, MainMoves, UpdateMoves, LeaseMoves

\* Each step keeps the types.
LEMMA ProcessStep == ASSUME IndInv, Next, ~Die PROVE ProcessTypes' /\ FlagTypes'
<1> USE DEF IndInv, TypeOK, ProcessTypes, FlagTypes, StopPlaces, Updaters, etcd, Stoppers
<1>1. CASE MainMoves
  <2>1. CASE StartServe \/ StartTCP \/ Signal
    BY <2>1 DEF StartServe, StartTCP, Signal
  <2>2. CASE StartRegister
    BY <2>2 DEF StartRegister, PutKey
  <2>3. CASE Restart
    BY <2>3 DEF Restart
  <2> QED
    BY <1>1, <2>1, <2>2, <2>3 DEF MainMoves
<1>2. ASSUME NEW c \in Shutdowns, Shutdown(c) PROVE ProcessTypes' /\ FlagTypes'
  BY <1>2 DEF Shutdown
<1>3. ASSUME NEW c \in Stoppers, StopStep(c) PROVE ProcessTypes' /\ FlagTypes'
  <2>1. CASE StopLock(c)
    BY <2>1 DEF StopLock, Stopping
  <2>2. CASE StopTCP(c)
    BY <2>2 DEF StopTCP, Stopping
  <2>3. CASE StopDrain(c)
    BY <2>3 DEF StopDrain, Stopping
  <2>4. CASE StopGRPC(c)
    BY <2>4 DEF StopGRPC, Stopping
  <2>5. CASE StopConsumer(c)
    BY <2>5 DEF StopConsumer, Stopping
  <2>6. CASE StopConsumed(c)
    BY <2>6 DEF StopConsumed, Stopping
  <2>7. CASE StopUnregister(c)
    BY <2>7 DEF StopUnregister, Stopping
  <2>8. CASE StopClose(c)
    BY <2>8 DEF StopClose, Stopping
  <2>9. CASE StopReturn(c)
    BY <2>9 DEF StopReturn, Stopping
  <2> QED
    BY <1>3, <2>1, <2>2, <2>3, <2>4, <2>5, <2>6, <2>7, <2>8, <2>9 DEF StopStep
<1>4. CASE UpdateMoves
  BY <1>4 DEF UpdateMoves, UpdateBegin, UpdateLock, LoopEnds, CalculateLoad, otherThanUpdate
<1>5. CASE LeaseMoves
  <2>1. CASE LeaseRecreated
    BY <2>1 DEF LeaseRecreated
  <2>2. ASSUME NEW l \in leases, LeaseExpires(l) PROVE ProcessTypes' /\ FlagTypes'
    BY <2>2 DEF LeaseExpires, Expire, KeptAlive, process
  <2>3. ASSUME NEW l \in leases, LeaseLost(l) PROVE ProcessTypes' /\ FlagTypes'
    BY <2>3 DEF LeaseLost, Expire, KeptAlive, process
  <2> QED
    BY <1>5, <2>1, <2>2, <2>3 DEF LeaseMoves
<1> QED
  BY <1>1, <1>2, <1>3, <1>4, <1>5, StepCases

\* Leases, their holders and etcd's key keep their types.
LEMMA LeaseStep == ASSUME IndInv, Next, ~Die PROVE LeaseTypes'
<1> USE MaxLeasesAssumption DEF IndInv, TypeOK, LeaseTypes, etcd
<1>1. CASE MainMoves
  <2>1. CASE StartServe \/ StartTCP \/ Signal
    BY <2>1 DEF StartServe, StartTCP, Signal
  <2>2. CASE StartRegister
    BY <2>2 DEF StartRegister, PutKey
  <2>3. CASE Restart
    BY <2>3 DEF Restart
  <2> QED
    BY <1>1, <2>1, <2>2, <2>3 DEF MainMoves
<1>2. ASSUME NEW c \in Shutdowns, Shutdown(c) PROVE LeaseTypes'
  BY <1>2 DEF Shutdown
<1>3. ASSUME NEW c \in Stoppers, StopStep(c) PROVE LeaseTypes'
  <2>1. CASE StopLock(c) \/ StopTCP(c) \/ StopDrain(c)
    BY <2>1 DEF StopLock, StopTCP, StopDrain, Stopping
  <2>2. CASE StopGRPC(c) \/ StopConsumer(c) \/ StopConsumed(c)
    BY <2>2 DEF StopGRPC, StopConsumer, StopConsumed, Stopping
  <2>3. CASE StopUnregister(c) \/ StopClose(c) \/ StopReturn(c)
    BY <2>3 DEF StopUnregister, StopClose, StopReturn, Stopping
  <2> QED
    BY <1>3, <2>1, <2>2, <2>3 DEF StopStep
<1>4. CASE UpdateMoves
  BY <1>4 DEF UpdateMoves, UpdateBegin, UpdateLock, LoopEnds, CalculateLoad, otherThanUpdate
<1>5. CASE LeaseMoves
  BY <1>5 DEF LeaseMoves, LeaseRecreated, LeaseExpires, LeaseLost, Expire, KeptAlive, process
<1> QED
  BY <1>1, <1>2, <1>3, <1>4, <1>5, StepCases

\* Start, the status and the mutex.
LEMMA MainOrderStep == ASSUME IndInv, Next, ~Die PROVE MainOrder'
<1> USE NamesAssumption
    DEF IndInv, TypeOK, ProcessTypes, LeaseTypes, MainOrder, StopHolds, Inside, Stoppers, Updaters
<1>1. CASE MainMoves
  BY <1>1 DEF MainMoves, StartServe, StartRegister, PutKey, StartTCP, Signal, Restart
<1>2. ASSUME NEW c \in Shutdowns, Shutdown(c) PROVE MainOrder'
  BY <1>2 DEF Shutdown
<1>3. ASSUME NEW c \in Stoppers, StopStep(c) PROVE MainOrder'
  <2>1. CASE StopLock(c) \/ StopTCP(c) \/ StopDrain(c)
    BY <2>1 DEF StopLock, StopTCP, StopDrain, Stopping
  <2>2. CASE StopGRPC(c) \/ StopConsumer(c) \/ StopConsumed(c)
    BY <2>2 DEF StopGRPC, StopConsumer, StopConsumed, Stopping
  <2>3. CASE StopUnregister(c) \/ StopClose(c) \/ StopReturn(c)
    BY <2>3 DEF StopUnregister, StopClose, StopReturn, Stopping
  <2> QED
    BY <1>3, <2>1, <2>2, <2>3 DEF StopStep
<1>4. CASE UpdateMoves
  BY <1>4 DEF UpdateMoves, UpdateBegin, UpdateLock, LoopEnds, CalculateLoad, otherThanUpdate
<1>5. CASE LeaseMoves
  BY <1>5 DEF LeaseMoves, LeaseRecreated, LeaseExpires, LeaseLost, Expire, KeptAlive, process
<1> QED
  BY <1>1, <1>2, <1>3, <1>4, <1>5, StepCases

\* One Stop at a time is inside the body, and it holds the mutex.
LEMMA StopHoldsStep == ASSUME IndInv, Next, ~Die PROVE StopHolds'
<1> USE NamesAssumption
    DEF IndInv, TypeOK, ProcessTypes, MainOrder, StopHolds, Inside, Stoppers, StopPlaces
<1>1. CASE MainMoves
  BY <1>1 DEF MainMoves, StartServe, StartRegister, PutKey, StartTCP, Signal, Restart
<1>2. ASSUME NEW c \in Shutdowns, Shutdown(c) PROVE StopHolds'
  BY <1>2 DEF Shutdown
<1>3. ASSUME NEW c \in Stoppers, StopStep(c) PROVE StopHolds'
  <2>1. CASE StopLock(c) \/ StopTCP(c) \/ StopDrain(c)
    BY <2>1 DEF StopLock, StopTCP, StopDrain, Stopping
  <2>2. CASE StopGRPC(c) \/ StopConsumer(c) \/ StopConsumed(c)
    BY <2>2 DEF StopGRPC, StopConsumer, StopConsumed, Stopping
  <2>3. CASE StopUnregister(c) \/ StopClose(c) \/ StopReturn(c)
    BY <2>3 DEF StopUnregister, StopClose, StopReturn, Stopping
  <2> QED
    BY <1>3, <2>1, <2>2, <2>3 DEF StopStep
<1>4. CASE UpdateMoves
  BY <1>4 DEF UpdateMoves, UpdateBegin, UpdateLock, LoopEnds, CalculateLoad, otherThanUpdate
<1>5. CASE LeaseMoves
  BY <1>5 DEF LeaseMoves, LeaseRecreated, LeaseExpires, LeaseLost, Expire, KeptAlive, process
<1> QED
  BY <1>1, <1>2, <1>3, <1>4, <1>5, StepCases

\* What Stop has ended is not started again.
LEMMA StopEndsStep == ASSUME IndInv, Next, ~Die PROVE StopEnds'
<1> USE NamesAssumption
    DEF IndInv, TypeOK, ProcessTypes, LeaseTypes, MainOrder, StopHolds, StopEnds, Got, Inside,
        PastTCP, PastGRPC, PastNSQ, Stoppers, Updaters, StopPlaces
<1>1. CASE MainMoves
  <2>1. CASE StartServe
    BY <2>1 DEF StartServe
  <2>2. CASE StartRegister
    BY <2>2 DEF StartRegister, PutKey
  <2>3. CASE StartTCP
    BY <2>3 DEF StartTCP
  <2>4. CASE Signal
    BY <2>4 DEF Signal
  <2>5. CASE Restart
    BY <2>5 DEF Restart
  <2> QED
    BY <1>1, <2>1, <2>2, <2>3, <2>4, <2>5 DEF MainMoves
<1>2. ASSUME NEW c \in Shutdowns, Shutdown(c) PROVE StopEnds'
  BY <1>2 DEF Shutdown
<1>3. ASSUME NEW c \in Stoppers, StopStep(c) PROVE StopEnds'
  <2>1. CASE StopLock(c) \/ StopTCP(c) \/ StopDrain(c)
    BY <2>1 DEF StopLock, StopTCP, StopDrain, Stopping
  <2>2. CASE StopGRPC(c) \/ StopConsumer(c) \/ StopConsumed(c)
    BY <2>2 DEF StopGRPC, StopConsumer, StopConsumed, Stopping
  <2>3. CASE StopUnregister(c) \/ StopClose(c) \/ StopReturn(c)
    BY <2>3 DEF StopUnregister, StopClose, StopReturn, Stopping
  <2> QED
    BY <1>3, <2>1, <2>2, <2>3 DEF StopStep
<1>4. CASE UpdateMoves
  BY <1>4 DEF UpdateMoves, UpdateBegin, UpdateLock, LoopEnds, CalculateLoad, otherThanUpdate
<1>5. CASE LeaseMoves
  BY <1>5 DEF LeaseMoves, LeaseRecreated, LeaseExpires, LeaseLost, Expire, KeptAlive, process
<1> QED
  BY <1>1, <1>2, <1>3, <1>4, <1>5, StepCases

\* etcd and the lease of a running node.
LEMMA RegisteredStep == ASSUME IndInv, Next, ~Die PROVE LeaseAlive' /\ RegisteredWhileRunning'
<1> USE MaxLeasesAssumption
    DEF IndInv, TypeOK, LeaseTypes, ProcessTypes, MainOrder, StopHolds, Inside, LeaseAlive,
        RegisteredWhileRunning, etcd
<1>1. CASE MainMoves
  BY <1>1 DEF MainMoves, StartServe, StartRegister, PutKey, StartTCP, Signal, Restart
<1>2. ASSUME NEW c \in Shutdowns, Shutdown(c) PROVE LeaseAlive' /\ RegisteredWhileRunning'
  BY <1>2 DEF Shutdown
<1>3. ASSUME NEW c \in Stoppers, StopStep(c) PROVE LeaseAlive' /\ RegisteredWhileRunning'
  <2>1. CASE StopLock(c) \/ StopTCP(c) \/ StopDrain(c)
    BY <2>1 DEF StopLock, StopTCP, StopDrain, Stopping
  <2>2. CASE StopGRPC(c) \/ StopConsumer(c) \/ StopConsumed(c)
    BY <2>2 DEF StopGRPC, StopConsumer, StopConsumed, Stopping
  <2>3. CASE StopUnregister(c) \/ StopClose(c) \/ StopReturn(c)
    BY <2>3 DEF StopUnregister, StopClose, StopReturn, Stopping
  <2> QED
    BY <1>3, <2>1, <2>2, <2>3 DEF StopStep
<1>4. CASE UpdateMoves
  BY <1>4 DEF UpdateMoves, UpdateBegin, UpdateLock, LoopEnds, CalculateLoad, otherThanUpdate
<1>5. CASE LeaseMoves
  BY <1>5 DEF LeaseMoves, LeaseRecreated, LeaseExpires, LeaseLost, Expire, KeptAlive, process
<1> QED
  BY <1>1, <1>2, <1>3, <1>4, <1>5, StepCases

\* A stutter keeps the invariant.
LEMMA StutterStep == ASSUME IndInv, UNCHANGED vars PROVE IndInv'
BY DEF vars, process, etcd, IndInv, TypeOK, ProcessTypes, FlagTypes, LeaseTypes, MainOrder, StopHolds,
    StopEnds, Got, LeaseAlive, RegisteredWhileRunning

\* Every step of the process, its death and every step of etcd keep the invariant.
THEOREM IndInvInductive == IndInv /\ [Next]_vars => IndInv'
<1> SUFFICES ASSUME IndInv, [Next]_vars PROVE IndInv'
  OBVIOUS
<1>1. CASE Next /\ ~Die
  BY <1>1, ProcessStep, LeaseStep, MainOrderStep, StopHoldsStep, StopEndsStep, RegisteredStep
     DEF IndInv, TypeOK
<1> QED
  BY <1>1, DieKeeps, StutterStep

\* The inductive invariant holds of every behaviour, crashes and restarts included.
THEOREM Invariance == Spec => []IndInv
BY InitEstablishes, IndInvInductive, PTL DEF Spec

-----------------------------------------------------------------------------
(* What follows *)

\* Every variable keeps its type, through crashes and restarts.
THEOREM TypeCorrect == Spec => []TypeOK
<1>1. IndInv => TypeOK
  BY DEF IndInv
<1> QED
  BY <1>1, Invariance, PTL

\* A node that says it is stopped has ended its calls, its load loop, gRPC, the
\* consumer and the keep-alive, however many commands and signals raced to stop it
\* (server.go, Stop).
THEOREM StopIsQuiet == Spec => []StoppedMeansQuiet
<1>1. IndInv => StoppedMeansQuiet
  BY DEF IndInv, StopEnds, Got, StoppedMeansQuiet
<1> QED
  BY <1>1, Invariance, PTL

\* etcd shows a running node under its present lease, and not at all once that
\* has been lost (etcd.go, Register and keepAliveLoop).
THEOREM RegistrationHolds == Spec => []RegisteredWhileRunning
<1>1. IndInv => RegisteredWhileRunning
  BY DEF IndInv
<1> QED
  BY <1>1, Invariance, PTL

\* The status of a life of the process only advances: Stop's body runs once, and
\* nothing starts the node again (server.go, Start and Stop).
THEOREM StatusNeverReturns == Spec => StatusAdvances
<1>1. IndInv /\ [Next]_vars
         => [proc = "up" /\ proc' = "up" => Order[status] <= Order[status']]_vars
  <2> SUFFICES ASSUME IndInv, Next, proc = "up", proc' = "up"
               PROVE  Order[status] <= Order[status']
    OBVIOUS
  <2> USE DEF IndInv, TypeOK, ProcessTypes
  <2>0. /\ Order["initializing"] = 0 /\ Order["running"] = 1
        /\ Order["stopping"] = 2 /\ Order["stopped"] = 3
    BY DEF Order
  <2>1. ~Die
    BY DEF Die
  <2>2. CASE status' = status
    BY <2>0, <2>2
  <2>3. CASE MainMoves
    BY <2>0, <2>3 DEF MainOrder, MainMoves, StartServe, StartRegister, StartTCP, Signal, Restart
  <2>4. ASSUME NEW c \in Stoppers, StopStep(c) PROVE Order[status] <= Order[status']
    BY <2>0, <2>4 DEF StopStep, StopLock, StopTCP, StopDrain, StopGRPC, StopConsumer, StopConsumed,
        StopUnregister, StopClose, StopReturn, Stopping, StopHolds, Inside
  <2>5. CASE UpdateMoves \/ LeaseMoves \/ \E c \in Shutdowns : Shutdown(c)
    BY <2>2, <2>5 DEF UpdateMoves, LeaseMoves, Shutdown, UpdateBegin, UpdateLock, LoopEnds,
        otherThanUpdate, LeaseRecreated, LeaseExpires, LeaseLost, Expire, process
  <2> QED
    BY <2>1, <2>3, <2>4, <2>5, StepCases
<1> QED
  BY <1>1, Invariance, PTL DEF Spec, StatusAdvances

=============================================================================
