-------------------------- MODULE NodeServicesProofs --------------------------
(***************************************************************************)
(* Each service keeps what it promises, for any constants: the inductive   *)
(* invariant of each part, from which the theorems on the composition at   *)
(* the end follow.                                                         *)
(***************************************************************************)
EXTENDS CommandsProofs, FiniteSetTheorems

-----------------------------------------------------------------------------
(* An actor *)

Live(k) == loop[k] \notin {"none", "done"}

\* One goroutine lives at most, and none when nobody runs or stops the actor.  Only
\* the caller that holds the mutex for writing waits for it.
ActorInv ==
    /\ A!ActorTypeOK
    /\ \A j, k \in A!Loops : Live(j) /\ Live(k) => j = k
    /\ ~running /\ writer = NoCaller => \A k \in A!Loops : ~Live(k)
    /\ running => writer = NoCaller
    /\ \A c \in Callers : caller[c] = "join" => writer = c

\* An actor that has not been started satisfies it.
LEMMA ActorInit == A!ActorInit => ActorInv
<1> SUFFICES ASSUME A!ActorInit PROVE ActorInv
  OBVIOUS
<1>1. 0 \in 0 .. MailboxSize /\ 0 \in 0 .. MaxStarts
  BY ActorAssumption
<1>2. A!ActorTypeOK
  BY <1>1 DEF A!ActorInit, A!ActorTypeOK
<1> QED
  BY <1>2, ActorAssumption DEF A!ActorInit, ActorInv, Live

\* The calls of Start, Stop and Tell keep it.
LEMMA CallsKeepActor ==
    ASSUME ActorInv, NEW c \in Callers, A!Call(c) \/ A!CallStep(c)
    PROVE  ActorInv'
<1> USE ActorAssumption DEF ActorInv, A!ActorTypeOK, A!Calls, A!Lockable, A!ReadLockable, Live
<1>1. CASE A!Call(c)
  BY <1>1 DEF A!Call
<1>2. CASE A!Start(c)
  <2>1. CASE running
    BY <1>2, <2>1 DEF A!Start
  <2>2. CASE ~running
    <3>1. PICK l \in A!Loops : loop[l] = "none" /\ loop' = [loop EXCEPT ![l] = "select"]
      BY <1>2, <2>2 DEF A!Start
    <3> QED
      BY <1>2, <2>2, <3>1 DEF A!Start
  <2> QED
    BY <2>1, <2>2
<1>3. CASE A!Stop(c)
  BY <1>3 DEF A!Stop
<1>4. CASE A!StopReturns(c)
  BY <1>4 DEF A!StopReturns
<1>5. CASE A!Tell(c)
  BY <1>5 DEF A!Tell
<1>6. CASE A!TellSends(c)
  BY <1>6 DEF A!TellSends
<1>7. CASE A!TellTimesOut(c)
  BY <1>7 DEF A!TellTimesOut
<1> QED
  BY <1>1, <1>2, <1>3, <1>4, <1>5, <1>6, <1>7 DEF A!CallStep

\* The goroutine of a Start keeps it, also while it tells its own actor.
LEMMA LoopKeepsActor ==
    ASSUME ActorInv, NEW k \in A!Loops, A!LoopStep(k)
    PROVE  ActorInv'
<1> USE ActorAssumption DEF ActorInv, A!ActorTypeOK, A!ReadLockable, A!Runs, Live
<1>1. CASE A!Receive(k)
  BY <1>1 DEF A!Receive
<1>2. CASE A!Received(k)
  BY <1>2 DEF A!Received
<1>3. CASE A!SelfTell(k)
  BY <1>3 DEF A!SelfTell
<1>4. CASE A!SelfTellEnds(k)
  BY <1>4 DEF A!SelfTellEnds
<1>5. CASE A!Done(k)
  BY <1>5 DEF A!Done
<1> QED
  BY <1>1, <1>2, <1>3, <1>4, <1>5 DEF A!LoopStep

\* Every step of the actor keeps it.
LEMMA ActorStep == ActorInv /\ A!ActorNext => ActorInv'
BY CallsKeepActor, LoopKeepsActor DEF A!ActorNext

\* The actor's Cardinality is that of FiniteSets.
LEMMA ActorCardinality == \A T : A!Cardinality(T) = Cardinality(T)
BY DEF Cardinality, A!Cardinality, IsFiniteSet, A!IsFiniteSet

\* No goroutine is two, and a stopped actor has none.
LEMMA ActorIsQuiet == ActorInv => A!QuietAfterStop
<1> SUFFICES ASSUME ActorInv PROVE A!QuietAfterStop
  OBVIOUS
<1> DEFINE live == {k \in A!Loops : loop[k] \notin {"none", "done"}}
<1>1. ~running /\ writer = NoCaller => live = {}
  BY DEF ActorInv, Live
<1>2. Cardinality(live) \in {0, 1}
  <2>1. CASE live = {}
    BY <2>1, FS_EmptySet
  <2>2. CASE live # {}
    <3>1. PICK k \in A!Loops : live = {k}
      BY <2>2 DEF ActorInv, Live
    <3> QED
      BY <3>1, FS_Singleton
  <2> QED
    BY <2>1, <2>2
<1> HIDE DEF live
<1>3. A!Cardinality(live) <= 1
  BY <1>2, ActorCardinality
<1> QED
  BY <1>1, <1>3 DEF live, A!QuietAfterStop

-----------------------------------------------------------------------------
(* The system of actors *)

\* An actor is registered under its own ID, and Shutdown visits registered actors.
SystemInv ==
    /\ \A i \in DOMAIN actors : actors[i] \in Objects /\ IdOf[actors[i]] = i
    /\ visiting \subseteq Y!Registered
    /\ ~busy => visiting = {}
    /\ startedN \in [Objects -> Nat] /\ stoppedN \in [Objects -> Nat]
    /\ Y!LivesEnd

\* Nothing is registered and nothing has been started at first.
LEMMA SystemInit == Y!SystemInit => SystemInv
BY DEF Y!SystemInit, SystemInv, Y!LivesEnd, Y!Registered

\* A spawned actor joins those that are registered.
LEMMA SpawnKeepsSystem == ASSUME SystemInv, NEW o \in Objects, Y!SpawnActor(o) PROVE SystemInv'
<1>1. /\ \A i \in DOMAIN actors : actors'[i] = actors[i]
      /\ DOMAIN actors' = DOMAIN actors \cup {IdOf[o]} /\ actors'[IdOf[o]] = o
  BY DEF Y!SpawnActor
<1>2. Y!Registered' = Y!Registered \cup {o}
  BY <1>1 DEF Y!Registered
<1>3. o \notin Y!Registered
  BY DEF Y!SpawnActor, SystemInv, Y!Registered
<1>4. /\ ~busy /\ busy' = busy /\ visiting' = visiting /\ stoppedN' = stoppedN
      /\ startedN' = [startedN EXCEPT ![o] = @ + 1]
  BY DEF Y!SpawnActor
<1>5. Y!LivesEnd'
  BY <1>2, <1>3, <1>4 DEF SystemInv, Y!LivesEnd
<1> QED
  BY <1>1, <1>2, <1>4, <1>5 DEF SystemInv

\* Shutdown stops each once, and clears the registry when all are stopped.
LEMMA ShutdownKeepsSystem ==
    ASSUME SystemInv,
           Y!Shutdown \/ Y!ShutdownReturns \/ \E o \in Objects : Y!OnStop(o)
    PROVE  SystemInv'
<1>1. CASE Y!Shutdown
  BY <1>1 DEF Y!Shutdown, SystemInv, Y!LivesEnd, Y!Registered
<1>2. CASE Y!ShutdownReturns
  BY <1>2 DEF Y!ShutdownReturns, SystemInv, Y!LivesEnd, Y!Registered
<1>3. ASSUME NEW o \in Objects, Y!OnStop(o) PROVE SystemInv'
  <2>1. Y!Registered' = Y!Registered /\ busy /\ busy' = busy
    BY <1>3 DEF Y!OnStop, SystemInv, Y!Registered
  <2>2. /\ o \in visiting /\ visiting' = visiting \ {o} /\ startedN' = startedN
        /\ stoppedN' = [stoppedN EXCEPT ![o] = @ + 1] /\ actors' = actors
    BY <1>3 DEF Y!OnStop
  <2>3. Y!LivesEnd'
    BY <2>1, <2>2 DEF SystemInv, Y!LivesEnd
  <2> QED
    BY <2>1, <2>2, <2>3 DEF SystemInv
<1> QED
  BY <1>1, <1>2, <1>3

\* Every step of the system keeps it; Tell and OnReceive change the callers only.
LEMMA SystemStep == SystemInv /\ Y!SystemNext => SystemInv'
<1> SUFFICES ASSUME SystemInv, Y!SystemNext PROVE SystemInv'
  OBVIOUS
<1>1. ASSUME NEW t \in Tellers, NEW i, Y!OnReceive(t) \/ Y!Tell(t, i) PROVE SystemInv'
  BY <1>1 DEF Y!OnReceive, Y!Tell, SystemInv, Y!LivesEnd, Y!Registered
<1> QED
  BY <1>1, SpawnKeepsSystem, ShutdownKeepsSystem DEF Y!SystemNext

-----------------------------------------------------------------------------
(* The start of a process *)

Early == {"new", "logger", "redis", "mongo"}
Late == {"etcd", "common", "services", "up"}

\* The producers in use are open, each is listed once and its address has been passed.
ProducersKnown ==
    /\ list \in Seq(1 .. MaxAddresses + 1)
    /\ S!ToSet(list) = opened /\ S!IsInjective(list)
    /\ pc \in Early => list = <<>> /\ at = 1 /\ producer = NoProducer
    /\ config.nsq = "single" => at = 1
    /\ pc = "nsq" => producer = NoProducer /\ \A p \in opened : p < at
    /\ pc \in Late => producer \in opened

\* The logger is made from the configuration before anything else may log.
LoggerKnown ==
    /\ pc \in {"new", "logger"} => log = "none"
    /\ pc \in {"redis", "mongo", "nsq"} \cup Late => log \in {"configured", "stdout"}

StartupInv == S!StartupTypeOK /\ ProducersKnown /\ LoggerKnown

\* A process that has just begun has nothing.
LEMMA StartupInit == S!StartupInit => StartupInv
<1> SUFFICES ASSUME S!StartupInit PROVE StartupInv
  OBVIOUS
<1>1. S!ToSet(list) = {} /\ S!IsInjective(list) /\ list \in Seq(1 .. MaxAddresses + 1)
  BY EmptySeq DEF S!StartupInit, S!ToSet, S!IsInjective
<1>2. 1 \in 1 .. MaxAddresses + 1
  BY StartupAssumption
<1> QED
  BY <1>1, <1>2 DEF S!StartupInit, StartupInv, S!StartupTypeOK, ProducersKnown, LoggerKnown, Early, Late

\* One more producer, of an address that has none yet.
LEMMA InUseKeeps ==
    ASSUME ProducersKnown, NEW p \in 1 .. MaxAddresses + 1, p \notin opened, S!InUse(p)
    PROVE  /\ list' \in Seq(1 .. MaxAddresses + 1)
           /\ S!ToSet(list') = opened' /\ opened' = opened \cup {p} /\ S!IsInjective(list')
<1>1. /\ list' = Append(list, p) /\ opened' = opened \cup {p}
      /\ list \in Seq(1 .. MaxAddresses + 1) /\ S!ToSet(list) = opened /\ S!IsInjective(list)
  BY DEF ProducersKnown, S!InUse
<1>2. /\ list' \in Seq(1 .. MaxAddresses + 1) /\ Len(list') = Len(list) + 1
      /\ \A i \in 1 .. Len(list) : list'[i] = list[i]
      /\ list'[Len(list) + 1] = p
      /\ DOMAIN list = 1 .. Len(list) /\ DOMAIN list' = 1 .. Len(list')
      /\ Len(list) \in Nat
  BY <1>1, AppendProperties, LenProperties
<1>3. \A i \in 1 .. Len(list) : list[i] # p
  BY <1>1, <1>2 DEF S!ToSet
<1>4. DOMAIN list' = DOMAIN list \cup {Len(list) + 1}
  BY <1>2
<1>5. S!ToSet(list') = S!ToSet(list) \cup {p}
  BY <1>2, <1>4 DEF S!ToSet
<1>6. S!IsInjective(list')
  BY <1>1, <1>2, <1>3, <1>4 DEF S!IsInjective
<1> QED
  BY <1>1, <1>2, <1>5, <1>6

\* The steps before and after the producers.
LEMMA OtherStartKeeps ==
    ASSUME StartupInv,
           \/ S!LoadConfig \/ S!InitLogger \/ S!NewRedisManager \/ S!NewMongoManager
           \/ S!NewETCDRegistry \/ S!RegisterCommonServices \/ S!NewServices \/ S!NewGatewayServer
    PROVE  StartupInv'
<1>1. UNCHANGED <<config, opened, at, list, producer>>
  BY DEF S!LoadConfig, S!InitLogger, S!NewRedisManager, S!NewMongoManager, S!NewETCDRegistry,
         S!RegisterCommonServices, S!NewServices, S!NewGatewayServer, S!nsqVars
<1>2. \/ pc \in Early \cup Late /\ pc' = "exited"
      \/ pc \in Early /\ pc' \in Early \cup {"nsq", "panicked"}
      \/ pc \in Late /\ pc' \in Late
  BY DEF S!LoadConfig, S!InitLogger, S!NewRedisManager, S!NewMongoManager, S!NewETCDRegistry,
         S!RegisterCommonServices, S!NewServices, S!NewGatewayServer, S!Step, S!Fatal, Early, Late,
         S!NewLoginServer, S!NewLobbyServer, S!NewCenterServer
<1>3. LoggerKnown' /\ log' \in {"none", "default", "configured", "stdout"}
  BY DEF StartupInv, S!StartupTypeOK, LoggerKnown, S!LoadConfig, S!InitLogger, S!NewRedisManager,
         S!NewMongoManager, S!NewETCDRegistry, S!RegisterCommonServices, S!NewServices,
         S!NewGatewayServer, S!Step, S!Fatal, S!Logs, Late, S!NewLoginServer, S!NewLobbyServer,
         S!NewCenterServer
<1>4. ProducersKnown'
  <2>1. pc \in Early => opened = {}
    BY DEF StartupInv, ProducersKnown, S!ToSet
  <2>2. S!ToSet(list)' = S!ToSet(list) /\ S!IsInjective(list)' = S!IsInjective(list)
    BY <1>1 DEF S!ToSet, S!IsInjective
  <2> QED
    BY <1>1, <1>2, <2>1, <2>2 DEF StartupInv, ProducersKnown, Early, Late
<1>5. S!StartupTypeOK'
  BY <1>1, <1>2, <1>3 DEF StartupInv, S!StartupTypeOK, Early, Late, S!ToSet
<1> QED
  BY <1>3, <1>4, <1>5 DEF StartupInv

\* The producers of a single nsqd or of a cluster.
LEMMA ProducersKeep == ASSUME StartupInv, S!InitNSQ PROVE StartupInv'
<1> DEFINE Addresses == 1 .. MaxAddresses + 1
<1>1. /\ config \in S!Configs /\ at \in Addresses /\ opened \subseteq Addresses
      /\ list \in Seq(Addresses) /\ S!ToSet(list) = opened /\ S!IsInjective(list)
      /\ MaxAddresses \in Nat
  BY StartupAssumption DEF StartupInv, S!StartupTypeOK, ProducersKnown
<1>2. pc = "nsq" /\ producer = NoProducer /\ \A p \in opened : p < at
  BY DEF S!InitNSQ, S!InitSingle, S!Connected, S!Unavailable, S!NoCluster, S!InitCluster, S!Step,
         S!Fatal, StartupInv, ProducersKnown
<1>3. log \in {"configured", "stdout"}
  BY <1>2 DEF StartupInv, LoggerKnown
<1>4. S!InCluster => at \in 1 .. MaxAddresses
  BY <1>1 DEF S!InCluster, S!Configs
<1>5. ASSUME NEW p \in Addresses, p \notin opened, S!InUse(p)
      PROVE  /\ list' \in Seq(Addresses) /\ S!ToSet(list)' = opened' /\ S!IsInjective(list)'
             /\ opened' = opened \cup {p}
  <2>1. ProducersKnown
    BY DEF StartupInv
  <2>2. S!ToSet(list)' = S!ToSet(list') /\ S!IsInjective(list)' = S!IsInjective(list')
    BY DEF S!ToSet, S!IsInjective
  <2> QED
    BY <1>5, <2>1, <2>2, InUseKeeps
<1>6. CASE S!InitSingle
  <2>1. CASE S!InUse(1) /\ pc' = "etcd" /\ producer' = 1 /\ UNCHANGED <<config, log, at>>
    <3>1. at = 1 /\ opened = {} /\ 1 \in Addresses
      BY <1>1, <1>2, <1>6 DEF S!InitSingle, StartupInv, ProducersKnown
    <3> QED
      BY <1>1, <1>3, <1>5, <2>1, <3>1
         DEF StartupInv, S!StartupTypeOK, ProducersKnown, LoggerKnown, Early, Late
  <2>2. CASE pc' = "exited" /\ log' = log /\ UNCHANGED <<config, opened, at, list, producer>>
    BY <1>1, <1>2, <1>3, <2>2
       DEF StartupInv, S!StartupTypeOK, ProducersKnown, LoggerKnown, Early, Late, S!ToSet, S!IsInjective
  <2> QED
    BY <1>3, <1>6, <2>1, <2>2 DEF S!InitSingle, S!Step, S!Fatal, S!Logs, S!nsqVars
<1>7. CASE S!Connected
  <2>1. /\ at \in Addresses /\ at \notin opened /\ at + 1 \in Addresses
    BY <1>1, <1>2, <1>4, <1>7 DEF S!Connected
  <2>2. /\ S!InUse(at) /\ at' = at + 1 /\ pc' = "nsq" /\ config.nsq = "cluster"
        /\ UNCHANGED <<config, log, producer>>
    BY <1>7 DEF S!Connected, S!Step, S!InCluster
  <2>3. /\ list' \in Seq(Addresses) /\ S!ToSet(list)' = opened' /\ S!IsInjective(list)'
        /\ opened' = opened \cup {at}
    BY <1>5, <2>1, <2>2
  <2>4. \A p \in opened' : p < at'
    BY <1>1, <1>2, <2>1, <2>2, <2>3
  <2> QED
    BY <1>1, <1>2, <1>3, <2>1, <2>2, <2>3, <2>4
       DEF StartupInv, S!StartupTypeOK, ProducersKnown, LoggerKnown, Early, Late
<1>8. CASE S!Unavailable
  <2>1. /\ at + 1 \in Addresses /\ at' = at + 1 /\ pc' = "nsq" /\ config.nsq = "cluster"
        /\ UNCHANGED <<config, log, opened, list, producer>>
    BY <1>1, <1>4, <1>8 DEF S!Unavailable, S!Step, S!InCluster
  <2>2. \A p \in opened' : p < at'
    BY <1>1, <1>2, <2>1
  <2>3. S!ToSet(list)' = opened' /\ S!IsInjective(list)'
    BY <1>1, <2>1 DEF S!ToSet, S!IsInjective
  <2> QED
    BY <1>1, <1>2, <1>3, <2>1, <2>2, <2>3
       DEF StartupInv, S!StartupTypeOK, ProducersKnown, LoggerKnown, Early, Late
<1>9. CASE S!NoCluster
  <2>1. /\ pc' = "exited" /\ log' = log /\ list' = <<>> /\ opened' = {}
        /\ UNCHANGED <<config, at, producer>>
    BY <1>1, <1>3, <1>9 DEF S!NoCluster, S!Fatal, S!Step, S!Logs, S!CloseProducers
  <2>2. list' \in Seq(Addresses) /\ S!ToSet(list)' = {} /\ S!IsInjective(list)'
    BY <2>1, EmptySeq DEF S!ToSet, S!IsInjective
  <2>3. config.nsq = "single" => at = 1
    BY DEF StartupInv, ProducersKnown
  <2> QED
    BY <1>1, <1>2, <1>3, <2>1, <2>2, <2>3
       DEF StartupInv, S!StartupTypeOK, ProducersKnown, LoggerKnown, Early, Late
<1>10. CASE S!InitCluster
  <2>1. /\ UNCHANGED <<config, opened, at, list, log>> /\ config.nsq = "cluster"
        /\ \/ pc' = "exited" /\ producer' = producer
           \/ list # <<>> /\ pc' = "etcd" /\ producer' = list[1]
    BY <1>3, <1>10 DEF S!InitCluster, S!Fatal, S!Step, S!Logs
  <2>2. list # <<>> => list[1] \in opened
    <3>1. list # <<>> => 1 \in DOMAIN list
      BY <1>1, EmptySeq, LenProperties
    <3> QED
      BY <1>1, <3>1 DEF S!ToSet
  <2>3. S!ToSet(list)' = opened' /\ S!IsInjective(list)'
    BY <1>1, <2>1 DEF S!ToSet, S!IsInjective
  <2> QED
    BY <1>1, <1>2, <1>3, <2>1, <2>2, <2>3
       DEF StartupInv, S!StartupTypeOK, ProducersKnown, LoggerKnown, Early, Late
<1> QED
  BY <1>6, <1>7, <1>8, <1>9, <1>10 DEF S!InitNSQ

\* Every step of the start keeps it.
LEMMA StartupStep == StartupInv /\ S!StartupNext => StartupInv'
BY OtherStartKeeps, ProducersKeep DEF S!StartupNext

\* A server that is up is sound.
LEMMA StartupIsSound == StartupInv => S!StartupSound
BY DEF StartupInv, ProducersKnown, LoggerKnown, Late, S!StartupSound

-----------------------------------------------------------------------------
(* The alerts *)

Rules == [cooldown : Cooldowns, last : Nat \cup {Never}]
Raised == [rule : Nat, time : Nat]

\* Two alerts of a list are in order, and apart if they are of one rule.
Apart(shown) ==
    \A i, j \in 1 .. Len(shown) :
        i < j => /\ shown[i].time <= shown[j].time
                 /\ shown[i].rule = shown[j].rule =>
                       shown[j].time - shown[i].time >= rules[shown[i].rule].cooldown

AlertTypes ==
    /\ rules \in Seq(Rules) /\ history \in Seq(Raised) /\ recent \in Seq(Raised)
    /\ clock \in 0 .. MaxTicks /\ tick \in BOOLEAN /\ stopped \in BOOLEAN
    /\ Len(recent) <= Limit
    /\ \A i \in 1 .. Len(rules) : rules[i].last \in 0 .. clock \cup {Never}

\* A rule remembers a time no earlier than that of any of its alerts.
RulesRemember ==
    \A h \in 1 .. Len(history) :
        /\ history[h].rule \in 1 .. Len(rules)
        /\ history[h].time \in 0 .. clock
        /\ rules[history[h].rule].last # Never
        /\ history[h].time <= rules[history[h].rule].last

AlertInv ==
    /\ AlertTypes /\ RulesRemember
    /\ \A h \in 1 .. Len(recent) : recent[h].rule \in 1 .. Len(rules)
    /\ Apart(history) /\ Apart(recent)

\* Without rules there is no alert.
LEMMA AlertInit == M!AlertInit => AlertInv
<1> SUFFICES ASSUME M!AlertInit PROVE AlertInv
  OBVIOUS
<1>1. /\ rules = <<>> /\ history = <<>> /\ recent = <<>>
      /\ clock = 0 /\ tick = FALSE /\ stopped = FALSE
  BY DEF M!AlertInit
<1>2. /\ rules \in Seq(Rules) /\ history \in Seq(Raised) /\ recent \in Seq(Raised)
      /\ Len(rules) = 0 /\ Len(history) = 0 /\ Len(recent) = 0
  BY <1>1, EmptySeq
<1>3. AlertTypes
  <2>1. tick \in BOOLEAN /\ stopped \in BOOLEAN
    BY <1>1, Zenon
  <2>2. Len(recent) <= Limit /\ clock \in 0 .. MaxTicks
    BY <1>1, <1>2, AlertAssumption
  <2>3. \A i \in 1 .. Len(rules) : rules[i].last \in 0 .. clock \cup {Never}
    BY <1>2
  <2> QED
    BY <1>2, <2>1, <2>2, <2>3 DEF AlertTypes
<1>4. 1 .. Len(history) = {} /\ 1 .. Len(recent) = {}
  BY <1>2
<1>5. RulesRemember /\ \A h \in 1 .. Len(recent) : recent[h].rule \in 1 .. Len(rules)
  BY <1>4, Zenon DEF RulesRemember
<1>6. Apart(history) /\ Apart(recent)
  BY <1>4, Zenon DEF Apart
<1> QED
  BY <1>3, <1>5, <1>6 DEF AlertInv

\* What a reader may use of a list of rules or alerts.
LEMMA AlertLists ==
    ASSUME AlertTypes
    PROVE  /\ Len(rules) \in Nat /\ Len(history) \in Nat /\ Len(recent) \in Nat
           /\ \A i \in 1 .. Len(rules) : rules[i] \in Rules
           /\ \A i \in 1 .. Len(history) : history[i] \in Raised
           /\ \A i \in 1 .. Len(recent) : recent[i] \in Raised
           /\ clock \in Nat
BY LenProperties, ElementOfSeq, AlertAssumption DEF AlertTypes

\* A new rule leaves the others and their alerts as they are.
LEMMA AddRuleKeeps == ASSUME AlertInv, NEW k \in Cooldowns, M!AddRule(k) PROVE AlertInv'
<1> DEFINE rule == [cooldown |-> k, last |-> Never]
<1>1. /\ rules' = Append(rules, rule) /\ rule \in Rules /\ rule.last = Never
      /\ UNCHANGED <<clock, tick, history, recent, stopped>>
  BY DEF M!AddRule, Rules
<1> HIDE DEF rule
<1>2. AlertTypes /\ Len(rules) \in Nat
  BY AlertLists DEF AlertInv
<1>3. /\ rules' \in Seq(Rules) /\ Len(rules') = Len(rules) + 1
      /\ \A i \in 1 .. Len(rules) : rules'[i] = rules[i]
      /\ rules'[Len(rules) + 1] = rule
  BY <1>1, <1>2, AppendProperties DEF AlertTypes
<1>4. 1 .. Len(rules') = 1 .. Len(rules) \cup {Len(rules) + 1}
  BY <1>2, <1>3
<1>5. AlertTypes'
  BY <1>1, <1>2, <1>3, <1>4 DEF AlertTypes
<1>6. \A i \in 1 .. Len(rules) : i \in 1 .. Len(rules')
  BY <1>4
<1>7. RulesRemember' /\ \A h \in 1 .. Len(recent') : recent'[h].rule \in 1 .. Len(rules')
  BY <1>1, <1>3, <1>6 DEF AlertInv, RulesRemember
<1>8. Apart(history)' /\ Apart(recent)'
  BY <1>1, <1>3 DEF AlertInv, RulesRemember, Apart
<1> QED
  BY <1>5, <1>7, <1>8 DEF AlertInv

\* Time passes, and with it nothing but the clock.
LEMMA ClockKeeps == ASSUME AlertInv, M!Tick \/ M!StopMonitoring PROVE AlertInv'
<1>0. tick' \in BOOLEAN /\ stopped' \in BOOLEAN
  BY Zenon DEF M!Tick, M!StopMonitoring, AlertInv, AlertTypes
<1>1. /\ UNCHANGED <<rules, history, recent>> /\ clock' \in 0 .. MaxTicks
      /\ clock \in Nat /\ clock' \in Nat /\ clock <= clock'
  BY AlertAssumption DEF M!Tick, M!StopMonitoring, AlertInv, AlertTypes
<1>2. AlertTypes'
  BY <1>0, <1>1 DEF AlertInv, AlertTypes
<1>3. RulesRemember'
  BY <1>1 DEF AlertInv, RulesRemember
<1>4. Apart(history)' /\ Apart(recent)'
  BY <1>1 DEF AlertInv, Apart
<1>5. \A h \in 1 .. Len(recent') : recent'[h].rule \in 1 .. Len(rules')
  BY <1>1 DEF AlertInv
<1> QED
  BY <1>2, <1>3, <1>4, <1>5 DEF AlertInv

\* GetRecentAlerts shows the end of the history.
LEMMA RecentKeeps == ASSUME AlertInv, M!GetRecentAlerts PROVE AlertInv'
<1> DEFINE n == Len(history)
           from == n - Limit + 1
<1>1. AlertTypes /\ RulesRemember /\ Apart(history) /\ n \in Nat /\ Limit \in Nat
      /\ UNCHANGED <<clock, tick, rules, history, stopped>>
  BY AlertLists, AlertAssumption DEF AlertInv, M!GetRecentAlerts
<1>2. CASE n <= Limit
  <2>1. recent' = history
    BY <1>2 DEF M!GetRecentAlerts
  <2> QED
    BY <1>1, <1>2, <2>1 DEF AlertInv, AlertTypes, RulesRemember, Apart
<1>3. CASE ~(n <= Limit)
  <2>1. recent' = SubSeq(history, from, n) /\ from \in 1 .. n + 1
    BY <1>1, <1>3 DEF M!GetRecentAlerts
  <2>2. /\ recent' \in Seq(Raised) /\ Len(recent') = Limit
        /\ \A i \in 1 .. Limit : recent'[i] = history[from + i - 1] /\ from + i - 1 \in 1 .. n
    BY <1>1, <1>3, <2>1, SubSeqProperties DEF AlertTypes
  <2>3. AlertTypes' /\ RulesRemember' /\ Apart(history)'
    BY <1>1, <2>2 DEF AlertTypes, RulesRemember, Apart
  <2>4. \A h \in 1 .. Len(recent') : recent'[h].rule \in 1 .. Len(rules')
    BY <1>1, <2>2 DEF RulesRemember
  <2>5. Apart(recent)'
    <3> SUFFICES ASSUME NEW i \in 1 .. Limit, NEW j \in 1 .. Limit, i < j
                 PROVE  /\ recent'[i].time <= recent'[j].time
                        /\ recent'[i].rule = recent'[j].rule =>
                             recent'[j].time - recent'[i].time >= rules[recent'[i].rule].cooldown
      BY <1>1, <2>2 DEF Apart
    <3>1. from + i - 1 < from + j - 1
      BY <1>1
    <3> QED
      BY <1>1, <2>2, <3>1 DEF Apart
  <2> QED
    BY <2>3, <2>4, <2>5 DEF AlertInv
<1> QED
  BY <1>2, <1>3

\* The alerts of a check come after all others, each of a rule that has cooled down.
LEMMA CheckKeeps == ASSUME AlertInv, M!CheckRules PROVE AlertInv'
<1>1. PICK fired \in SUBSET {i \in 1 .. Len(rules) : M!Cool(rules[i])} :
         /\ rules' = M!LastAlert(fired)
         /\ \E raised \in [1 .. M!Cardinality(fired) -> fired] :
               /\ \A i, j \in DOMAIN raised : i < j => raised[i] < raised[j]
               /\ history' = history \o
                     [i \in DOMAIN raised |-> [rule |-> raised[i], time |-> clock]]
  BY DEF M!CheckRules
<1>2. PICK raised \in [1 .. M!Cardinality(fired) -> fired] :
         /\ \A i, j \in DOMAIN raised : i < j => raised[i] < raised[j]
         /\ history' = history \o [i \in DOMAIN raised |-> [rule |-> raised[i], time |-> clock]]
  BY <1>1
<1> DEFINE k == M!Cardinality(fired)
           n == Len(history)
           new == [i \in 1 .. k |-> [rule |-> raised[i], time |-> clock]]
<1>3. UNCHANGED <<clock, recent, stopped>> /\ tick' = FALSE
  BY DEF M!CheckRules
<1>4. /\ AlertTypes /\ RulesRemember /\ Apart(history) /\ Apart(recent)
      /\ n \in Nat /\ Len(rules) \in Nat /\ clock \in Nat
      /\ \A i \in 1 .. Len(rules) : rules[i] \in Rules
      /\ \A i \in 1 .. Len(recent) : recent[i] \in Raised
  BY AlertLists DEF AlertInv
<1>5. k \in Nat
  <2>1. \A T : M!Cardinality(T) = Cardinality(T)
    BY DEF Cardinality, M!Cardinality, IsFiniteSet, M!IsFiniteSet
  <2>2. IsFiniteSet(1 .. Len(rules))
    BY <1>4, FS_Interval
  <2>3. fired \in SUBSET (1 .. Len(rules))
    OBVIOUS
  <2>4. IsFiniteSet(fired)
    BY <2>2, <2>3, FS_Subset, Zenon
  <2> QED
    BY <2>1, <2>4, FS_CardinalityType
<1> HIDE DEF k
<1>6. /\ new \in Seq(Raised) /\ Len(new) = k
      /\ \A i \in 1 .. k : /\ new[i] = [rule |-> raised[i], time |-> clock]
                           /\ raised[i] \in fired /\ raised[i] \in 1 .. Len(rules)
  <2>1. raised \in [1 .. k -> fired]
    BY <1>2 DEF k
  <2>2. \A i \in 1 .. k : raised[i] \in fired /\ raised[i] \in 1 .. Len(rules)
    BY <2>1
  <2>3. \A i \in 1 .. k : [rule |-> raised[i], time |-> clock] \in Raised
    BY <1>4, <2>2 DEF Raised
  <2>4. new \in [1 .. k -> Raised]
    BY <2>3
  <2> QED
    BY <1>5, <2>2, <2>4, IsASeq, LenProperties
<1>7. history' = history \o new
  BY <1>2 DEF k
<1> HIDE DEF new
<1>8. /\ history' \in Seq(Raised) /\ Len(history') = n + k
      /\ \A i \in 1 .. n : history'[i] = history[i]
      /\ \A i \in 1 .. k : history'[n + i] = new[i]
  <2>1. history \in Seq(Raised) /\ new \in Seq(Raised) /\ Len(new) = k
    BY <1>4, <1>6 DEF AlertTypes
  <2>2. /\ history' \in Seq(Raised) /\ Len(history') = n + k
        /\ \A i \in 1 .. n + k : history'[i] = IF i <= n THEN history[i] ELSE new[i - n]
    BY <1>7, <2>1, ConcatProperties
  <2>3. \A i \in 1 .. k : n + i \in 1 .. n + k /\ ~(n + i <= n) /\ n + i - n = i
    BY <1>4, <1>5
  <2>4. \A i \in 1 .. n : i \in 1 .. n + k /\ i <= n
    BY <1>4, <1>5
  <2>5. \A i \in 1 .. k : history'[n + i] = new[i]
    BY <2>2, <2>3
  <2>6. \A i \in 1 .. n : history'[i] = history[i]
    BY <2>2, <2>4
  <2> QED
    BY <2>2, <2>5, <2>6
<1>9. \A h \in 1 .. Len(history') : h \in 1 .. n \/ (h - n \in 1 .. k /\ h = n + (h - n))
  BY <1>4, <1>5, <1>8
<1>10. /\ rules' \in Seq(Rules) /\ Len(rules') = Len(rules)
       /\ \A i \in 1 .. Len(rules) :
             /\ rules'[i].cooldown = rules[i].cooldown
             /\ rules'[i].last = IF i \in fired THEN clock ELSE rules[i].last
  <2>1. rules' = [i \in 1 .. Len(rules) |-> IF i \in fired THEN [rules[i] EXCEPT !.last = clock]
                                                           ELSE rules[i]]
    BY <1>1 DEF M!LastAlert
  <2>2. \A i \in 1 .. Len(rules) : [rules[i] EXCEPT !.last = clock] \in Rules
    BY <1>4 DEF Rules
  <2>3. rules' \in [1 .. Len(rules) -> Rules]
    BY <1>4, <2>1, <2>2
  <2>4. rules' \in Seq(Rules) /\ Len(rules') = Len(rules)
    BY <1>4, <2>3, IsASeq, LenProperties
  <2> QED
    BY <1>4, <2>1, <2>4 DEF Rules
<1>11. AlertTypes'
  <2>1. tick' \in BOOLEAN /\ stopped' \in BOOLEAN
    BY <1>3, <1>4, Zenon DEF AlertTypes
  <2>2. /\ recent \in Seq(Raised) /\ Len(recent) <= Limit /\ clock \in 0 .. MaxTicks
        /\ \A i \in 1 .. Len(rules) : rules[i].last \in 0 .. clock \cup {Never}
    BY <1>4 DEF AlertTypes
  <2>3. \A i \in 1 .. Len(rules') : rules'[i].last \in 0 .. clock \cup {Never}
    BY <1>4, <1>10, <2>2
  <2>4. /\ recent' \in Seq(Raised) /\ Len(recent') <= Limit /\ clock' \in 0 .. MaxTicks
        /\ \A i \in 1 .. Len(rules') : rules'[i].last \in 0 .. clock' \cup {Never}
    BY <1>3, <2>2, <2>3
  <2> QED
    BY <1>8, <1>10, <2>1, <2>4 DEF AlertTypes
<1>12. RulesRemember'
  <2> SUFFICES ASSUME NEW h \in 1 .. Len(history')
               PROVE  /\ history'[h].rule \in 1 .. Len(rules)
                      /\ history'[h].time \in 0 .. clock
                      /\ rules'[history'[h].rule].last # Never
                      /\ history'[h].time <= rules'[history'[h].rule].last
    BY <1>3, <1>10 DEF RulesRemember
  <2>1. CASE h \in 1 .. n
    <3>1. history'[h] = history[h] /\ history[h].time <= clock
      BY <1>4, <1>8, <2>1 DEF RulesRemember
    <3> QED
      BY <1>4, <1>10, <2>1, <3>1, AlertAssumption DEF RulesRemember
  <2>2. CASE h - n \in 1 .. k
    <3>1. history'[h] = new[h - n]
      BY <1>4, <1>8, <1>9, <2>2
    <3> QED
      BY <1>4, <1>6, <1>10, <2>2, <3>1, AlertAssumption
  <2> QED
    BY <1>9, <2>1, <2>2
<1>13. \A h \in 1 .. Len(recent') : recent'[h].rule \in 1 .. Len(rules')
  BY <1>3, <1>10 DEF AlertInv
<1>14. Apart(recent)'
  BY <1>3, <1>10 DEF AlertInv, Apart
<1>15. Apart(history)'
  <2> SUFFICES ASSUME NEW i \in 1 .. Len(history'), NEW j \in 1 .. Len(history'), i < j
               PROVE  /\ history'[i].time <= history'[j].time
                      /\ history'[i].rule = history'[j].rule =>
                            history'[j].time - history'[i].time
                               >= rules'[history'[i].rule].cooldown
    BY DEF Apart
  <2>1. CASE j \in 1 .. n
    <3>1. i \in 1 .. n
      BY <1>4, <2>1
    <3>2. history'[i] = history[i] /\ history'[j] = history[j]
      BY <1>8, <2>1, <3>1
    <3> QED
      BY <1>4, <1>10, <2>1, <3>1, <3>2 DEF Apart, RulesRemember
  <2>2. CASE i \in 1 .. n /\ j - n \in 1 .. k
    <3>1. history'[i] = history[i] /\ history'[j] = new[j - n]
      BY <1>4, <1>8, <1>9, <2>2
    <3>2. /\ history[i].rule \in 1 .. Len(rules) /\ history[i].time \in 0 .. clock
          /\ rules[history[i].rule].last # Never
          /\ history[i].time <= rules[history[i].rule].last
      BY <1>4, <2>2 DEF RulesRemember
    <3>3. history'[j].time = clock /\ history'[j].rule \in fired
      BY <1>6, <2>2, <3>1
    <3>4. ASSUME history'[i].rule = history'[j].rule
          PROVE  clock - rules[history[i].rule].last >= rules[history[i].rule].cooldown
      BY <3>1, <3>2, <3>3, <3>4 DEF M!Cool
    <3>5. rules[history[i].rule].last \in Nat /\ rules[history[i].rule].cooldown \in Nat
      BY <1>4, <3>2, AlertAssumption DEF Rules
    <3> DEFINE q == history[i].rule
               t == history[i].time
    <3>6. /\ t \in Nat /\ t <= rules[q].last /\ t <= clock
          /\ rules'[q].cooldown = rules[q].cooldown
      BY <1>4, <1>10, <3>2
    <3>7. clock - rules[q].last >= rules[q].cooldown => clock - t >= rules[q].cooldown
      <4>1. \A now, early, late, gap \in Nat :
               early <= late /\ now - late >= gap => now - early >= gap
        OBVIOUS
      <4>2. /\ clock \in Nat /\ t \in Nat /\ rules[q].last \in Nat
            /\ rules[q].cooldown \in Nat /\ t <= rules[q].last
        BY <1>4, <3>5, <3>6
      <4> HIDE DEF q, t
      <4> QED
        BY <4>1, <4>2
    <3> QED
      <4>1. history'[i].time = t /\ history'[i].rule = q
        BY <3>1
      <4>2. history'[i].time <= history'[j].time
        BY <3>3, <3>6, <4>1
      <4>3. ASSUME q = history'[j].rule PROVE clock - t >= rules[q].cooldown
        BY <3>4, <3>7, <4>1, <4>3
      <4> QED
        BY <3>3, <3>6, <4>1, <4>2, <4>3
  <2>3. CASE i - n \in 1 .. k /\ j - n \in 1 .. k
    <3>1. history'[i] = new[i - n] /\ history'[j] = new[j - n]
      BY <1>4, <1>8, <1>9, <2>3
    <3>2. raised[i - n] < raised[j - n]
      BY <1>2, <1>4, <2>3 DEF k
    <3>3. raised[i - n] \in 1 .. Len(rules) /\ raised[j - n] \in 1 .. Len(rules)
      BY <1>6, <2>3
    <3> QED
      BY <1>4, <1>6, <2>3, <3>1, <3>2, <3>3
  <2> QED
    BY <1>4, <1>9, <2>1, <2>2, <2>3
<1> QED
  BY <1>11, <1>12, <1>13, <1>14, <1>15 DEF AlertInv

\* Every step of the alerts keeps it.
LEMMA AlertStep == AlertInv /\ M!AlertNext => AlertInv'
BY AddRuleKeeps, ClockKeeps, RecentKeeps, CheckKeeps DEF M!AlertNext

\* Its lists are typed and its alerts are apart.
LEMMA AlertsAreApart == AlertInv => M!AlertTypeOK /\ M!CooldownKept
<1> SUFFICES ASSUME AlertInv PROVE M!AlertTypeOK /\ M!CooldownKept
  OBVIOUS
<1>1. M!AlertTypeOK
  BY AlertLists DEF AlertInv, AlertTypes, RulesRemember, Rules, M!AlertTypeOK
<1>2. M!CooldownKept
  BY DEF AlertInv, Apart, M!CooldownKept
<1> QED
  BY <1>1, <1>2

-----------------------------------------------------------------------------
(* The frames of a connection *)

\* Piece q of frame f: two of the header, the second with the length, two of the body.
Piece(f, q) == [frame |-> f, part |-> q, length |-> IF q = 2 THEN 2 ELSE 0]
Pieces == [frame : Nat, part : 1 .. 4, length : 0 .. 2]

\* Of n frames written k are read, and p pieces of the next; s has the rest, in order.
Rest(s, n, k, p) ==
    /\ Len(s) + 4 * k + p = 4 * n
    /\ \A f \in k + 1 .. n, q \in 1 .. 4 :
          4 * (f - k - 1) + q - p >= 1 => s[4 * (f - k - 1) + q - p] = Piece(f, q)

\* The pieces the reader of a direction has of a frame: it has read the header, or nothing.
Begun(d) ==
    IF (d = "up" /\ server = "body") \/ (d = "down" /\ client.pc = "body") THEN 2 ELSE 0

\* Nothing is read in this direction any more.
Over(d) == server = "closed" /\ (d = "up" \/ stream[d] = <<>>)

Counting(s) == \A i \in 1 .. Len(s) : s[i] = i

Aligned(d) ==
    \/ short[d]
    \/ /\ Counting(taken[d])
       /\ \/ Over(d)
          \/ want[d] = Begun(d) /\ Rest(stream[d], sent[d], Len(taken[d]), Begun(d))

\* What is on its way or taken has been sent.
WasSent(d) ==
    /\ \A i \in 1 .. Len(taken[d]) : taken[d][i] \in 0 .. sent[d]
    /\ \A i \in 1 .. Len(stream[d]) : stream[d][i].frame \in 1 .. sent[d]

FrameTypes ==
    /\ stream \in [F!Directions -> Seq(Pieces)] /\ taken \in [F!Directions -> Seq(Nat)]
    /\ sent \in [F!Directions -> Nat] /\ want \in [F!Directions -> 0 .. 3]
    /\ short \in [F!Directions -> BOOLEAN]

EndTypes ==
    /\ client \in [call : 1 .. F!Logout, pc : {"send", "header", "body", "end"}]
    /\ client.pc \in {"header", "body"} => client.call < F!Logout
    /\ server \in {"header", "body", "handle", "closed"}

FramingInv ==
    FrameTypes /\ EndTypes /\ \A d \in F!Directions : WasSent(d) /\ Aligned(d)

\* The pieces a frame is of.
LEMMA FramePieces ==
    ASSUME NEW f \in Nat
    PROVE  LET h == F!Header(f)
               b == F!Body(f)
           IN
           /\ h \in Seq(Pieces) /\ Len(h) = 2 /\ h[1] = Piece(f, 1) /\ h[2] = Piece(f, 2)
           /\ b \in Seq(Pieces) /\ Len(b) = 2 /\ b[1] = Piece(f, 3) /\ b[2] = Piece(f, 4)
<1> DEFINE h == F!Header(f)
           b == F!Body(f)
<1>1. /\ h \in Seq(Pieces) /\ Len(h) = 2 /\ h[1] = Piece(f, 1) /\ h[2] = Piece(f, 2)
  BY DEF F!Header, F!LengthPiece, F!BodySize, Piece, Pieces
<1>2. /\ b \in Seq(Pieces) /\ Len(b) = 2 /\ b[1] = Piece(f, 3) /\ b[2] = Piece(f, 4)
  <2>1. b = [i \in 1 .. 2 |-> [frame |-> f, part |-> 2 + i, length |-> 0]]
    BY DEF F!Body, F!BodySize
  <2>2. b \in [1 .. 2 -> Pieces]
    BY <2>1 DEF Pieces
  <2>3. b \in Seq(Pieces)
    <3>1. \A m \in Nat : [1 .. m -> Pieces] \subseteq Seq(Pieces)
      BY SeqDef
    <3>2. [1 .. 2 -> Pieces] \subseteq Seq(Pieces)
      BY <3>1
    <3> QED
      BY <2>2, <3>2, Zenon
  <2>4. Len(b) = 2
    BY <2>1, <2>3, LenProperties
  <2> QED
    BY <2>1, <2>3, <2>4 DEF Piece
<1> QED
  BY <1>1, <1>2

\* A frame goes behind the others.
LEMMA FrameSent ==
    ASSUME NEW s \in Seq(Pieces), NEW n \in Nat
    PROVE  LET t == s \o F!Header(n + 1) \o F!Body(n + 1) IN
           /\ t \in Seq(Pieces)
           /\ \A i \in 1 .. Len(t) : (i \in 1 .. Len(s) /\ t[i] = s[i]) \/ t[i].frame = n + 1
           /\ \A k \in Nat, p \in {0, 2} : Rest(s, n, k, p) => Rest(t, n + 1, k, p)
<1> DEFINE h == F!Header(n + 1)
           b == F!Body(n + 1)
           l == Len(s)
           t == s \o h \o b
<1>1. /\ h \in Seq(Pieces) /\ Len(h) = 2 /\ h[1] = Piece(n + 1, 1) /\ h[2] = Piece(n + 1, 2)
  BY FramePieces
<1>2. /\ b \in Seq(Pieces) /\ Len(b) = 2 /\ b[1] = Piece(n + 1, 3) /\ b[2] = Piece(n + 1, 4)
  BY FramePieces
<1>3. l \in Nat
  BY LenProperties
<1> HIDE DEF h, b
<1>4. /\ s \o h \in Seq(Pieces) /\ Len(s \o h) = l + 2
      /\ \A i \in 1 .. l + 2 : (s \o h)[i] = IF i <= l THEN s[i] ELSE h[i - l]
  <2>1. /\ s \o h \in Seq(Pieces) /\ Len(s \o h) = Len(s) + Len(h)
        /\ \A i \in 1 .. Len(s) + Len(h) :
              (s \o h)[i] = IF i <= Len(s) THEN s[i] ELSE h[i - Len(s)]
    BY <1>1, ConcatProperties
  <2> QED
    BY <1>1, <2>1
<1>5. /\ t \in Seq(Pieces) /\ Len(t) = l + 4
      /\ \A i \in 1 .. l + 4 : t[i] = IF i <= l + 2 THEN (s \o h)[i] ELSE b[i - (l + 2)]
  BY <1>1, <1>2, <1>3, <1>4, ConcatProperties
<1>6. /\ \A i \in 1 .. l : t[i] = s[i]
      /\ t[l + 1] = Piece(n + 1, 1) /\ t[l + 2] = Piece(n + 1, 2)
      /\ t[l + 3] = Piece(n + 1, 3) /\ t[l + 4] = Piece(n + 1, 4)
  BY <1>1, <1>2, <1>3, <1>4, <1>5
<1> HIDE DEF t
<1>7. \A q \in 1 .. 4 : t[l + q] = Piece(n + 1, q)
  BY <1>6
<1>8. \A i \in 1 .. Len(t) : (i \in 1 .. l /\ t[i] = s[i]) \/ t[i].frame = n + 1
  <2> SUFFICES ASSUME NEW i \in 1 .. Len(t), i \notin 1 .. l PROVE t[i].frame = n + 1
    BY <1>6
  <2>1. i - l \in 1 .. 4 /\ i = l + (i - l)
    BY <1>3, <1>5
  <2> QED
    BY <1>7, <2>1 DEF Piece
<1>9. ASSUME NEW k \in Nat, NEW p \in {0, 2}, Rest(s, n, k, p) PROVE Rest(t, n + 1, k, p)
  <2>0. l + 4 * k + p = 4 * n
    BY <1>9 DEF Rest
  <2>1. Len(t) + 4 * k + p = 4 * (n + 1) /\ l + 4 * k + p = 4 * n
    <3>1. \A a, c, x, y \in Nat : a + 4 * x + c = 4 * y => a + 4 + 4 * x + c = 4 * (y + 1)
      OBVIOUS
    <3>2. p \in Nat /\ Len(t) = l + 4
      BY <1>5
    <3> QED
      BY <1>3, <2>0, <3>1, <3>2
  <2> SUFFICES ASSUME NEW f \in k + 1 .. n + 1, NEW q \in 1 .. 4,
                      4 * (f - k - 1) + q - p >= 1
               PROVE  t[4 * (f - k - 1) + q - p] = Piece(f, q)
    BY <2>1 DEF Rest
  <2>2. CASE f \in k + 1 .. n
    <3>1. 4 * (f - k - 1) + q - p \in 1 .. l
      BY <1>3, <2>1, <2>2
    <3> QED
      BY <1>6, <1>9, <2>2, <3>1 DEF Rest
  <2>3. CASE f = n + 1
    <3>1. 4 * (f - k - 1) + q - p = l + q
      BY <1>3, <2>1, <2>3
    <3> QED
      BY <1>7, <2>3, <3>1
  <2> QED
    BY <2>2, <2>3
<1> QED
  BY <1>5, <1>8, <1>9 DEF t, h, b

\* A header or a body is read whole from where one begins.
LEMMA HalfRead ==
    ASSUME NEW s \in Seq(Pieces), NEW n \in Nat, NEW k \in Nat, Len(s) >= 2
    PROVE  /\ Rest(s, n, k, 0) =>
                 /\ k < n /\ s[1] = Piece(k + 1, 1) /\ s[2] = Piece(k + 1, 2)
                 /\ Rest(SubSeq(s, 3, Len(s)), n, k, 2)
           /\ Rest(s, n, k, 2) =>
                 /\ k < n /\ s[1] = Piece(k + 1, 3) /\ s[2] = Piece(k + 1, 4)
                 /\ Rest(SubSeq(s, 3, Len(s)), n, k + 1, 0)
<1> DEFINE l == Len(s)
           t == SubSeq(s, 3, l)
<1>1. l \in Nat /\ \A i \in 1 .. l : s[i] \in Pieces
  BY LenProperties, ElementOfSeq
<1>2. Len(t) = l - 2 /\ \A i \in 1 .. l - 2 : t[i] = s[i + 2]
  <2>1. \A i \in 3 .. l : s[i] \in Pieces
    BY <1>1
  <2>2. /\ Len(t) = IF 3 <= l THEN l - 3 + 1 ELSE 0
        /\ \A i \in 1 .. l - 3 + 1 : t[i] = s[3 + i - 1]
    BY <1>1, <2>1, SubSeqProperties
  <2>3. \A i \in 1 .. l - 2 : i \in 1 .. l - 3 + 1 /\ 3 + i - 1 = i + 2
    BY <1>1
  <2>4. Len(t) = l - 2
    <3>1. \A m \in Nat : m >= 2 => (IF 3 <= m THEN m - 3 + 1 ELSE 0) = m - 2
      OBVIOUS
    <3> QED
      BY <1>1, <2>2, <3>1
  <2>5. ASSUME NEW i \in 1 .. l - 2 PROVE t[i] = s[i + 2]
    BY <2>2, <2>3
  <2> QED
    BY <2>4, <2>5
<1> HIDE DEF t
<1>3. ASSUME Rest(s, n, k, 0)
      PROVE  /\ k < n /\ s[1] = Piece(k + 1, 1) /\ s[2] = Piece(k + 1, 2)
             /\ Rest(t, n, k, 2)
  <2>1. l + 4 * k = 4 * n
    BY <1>1, <1>3 DEF Rest
  <2>2. k < n /\ k + 1 \in k + 1 .. n
    BY <1>1, <2>1
  <2>3. \A q \in 1 .. 4 : 4 * (k + 1 - k - 1) + q - 0 = q
    OBVIOUS
  <2>4. \A q \in 1 .. 4 : s[q] = Piece(k + 1, q)
    BY <1>3, <2>2, <2>3 DEF Rest
  <2>5. ASSUME NEW f \in k + 1 .. n, NEW q \in 1 .. 4, 4 * (f - k - 1) + q - 2 >= 1
        PROVE  t[4 * (f - k - 1) + q - 2] = Piece(f, q)
    <3>1. /\ 4 * (f - k - 1) + q - 2 \in 1 .. l - 2
          /\ 4 * (f - k - 1) + q - 2 + 2 = 4 * (f - k - 1) + q - 0
          /\ 4 * (f - k - 1) + q - 0 >= 1
      BY <1>1, <2>1, <2>5
    <3>2. s[4 * (f - k - 1) + q - 0] = Piece(f, q)
      BY <1>3, <3>1 DEF Rest
    <3> QED
      BY <1>2, <3>1, <3>2
  <2>6. Len(t) + 4 * k + 2 = 4 * n
    BY <1>1, <1>2, <2>1
  <2>7. Rest(t, n, k, 2)
    BY <2>5, <2>6 DEF Rest
  <2> QED
    BY <2>2, <2>4, <2>7
<1>4. ASSUME Rest(s, n, k, 2)
      PROVE  /\ k < n /\ s[1] = Piece(k + 1, 3) /\ s[2] = Piece(k + 1, 4)
             /\ Rest(t, n, k + 1, 0)
  <2>1. l + 4 * k + 2 = 4 * n
    BY <1>1, <1>4 DEF Rest
  <2>2. k < n /\ k + 1 \in k + 1 .. n
    BY <1>1, <2>1
  <2>3. 4 * (k + 1 - k - 1) + 3 - 2 = 1 /\ 4 * (k + 1 - k - 1) + 4 - 2 = 2
    OBVIOUS
  <2>4. s[1] = Piece(k + 1, 3) /\ s[2] = Piece(k + 1, 4)
    BY <1>4, <2>2, <2>3 DEF Rest
  <2>5. ASSUME NEW f \in k + 1 + 1 .. n, NEW q \in 1 .. 4, 4 * (f - (k + 1) - 1) + q - 0 >= 1
        PROVE  t[4 * (f - (k + 1) - 1) + q - 0] = Piece(f, q)
    <3>1. /\ 4 * (f - (k + 1) - 1) + q - 0 \in 1 .. l - 2
          /\ 4 * (f - (k + 1) - 1) + q - 0 + 2 = 4 * (f - k - 1) + q - 2
          /\ 4 * (f - k - 1) + q - 2 >= 1 /\ f \in k + 1 .. n
      BY <1>1, <2>1, <2>5
    <3>2. s[4 * (f - k - 1) + q - 2] = Piece(f, q)
      BY <1>4, <3>1 DEF Rest
    <3> QED
      BY <1>2, <3>1, <3>2
  <2>6. Len(t) + 4 * (k + 1) + 0 = 4 * n
    BY <1>1, <1>2, <2>1
  <2>7. Rest(t, n, k + 1, 0)
    BY <2>5, <2>6 DEF Rest
  <2> QED
    BY <2>2, <2>4, <2>7
<1> QED
  BY <1>3, <1>4 DEF t

\* What is left of s after a Read of k pieces.
LEMMA PartRead ==
    ASSUME NEW s \in Seq(Pieces), NEW k \in Nat, k >= 1, k <= Len(s)
    PROVE  LET t == SubSeq(s, k + 1, Len(s)) IN
           /\ t \in Seq(Pieces)
           /\ \A i \in 1 .. Len(t) : i + k \in 1 .. Len(s) /\ t[i] = s[i + k]
<1> DEFINE l == Len(s)
           t == SubSeq(s, k + 1, l)
<1>1. l \in Nat /\ \A i \in 1 .. l : s[i] \in Pieces
  BY LenProperties, ElementOfSeq
<1>2. \A i \in k + 1 .. l : s[i] \in Pieces
  BY <1>1
<1>3. /\ t \in Seq(Pieces) /\ Len(t) = IF k + 1 <= l THEN l - (k + 1) + 1 ELSE 0
      /\ \A i \in 1 .. l - (k + 1) + 1 : t[i] = s[k + 1 + i - 1]
  BY <1>1, <1>2, SubSeqProperties
<1>4. Len(t) = l - k
  <2>1. \A m \in Nat : k <= m => (IF k + 1 <= m THEN m - (k + 1) + 1 ELSE 0) = m - k
    OBVIOUS
  <2> QED
    BY <1>1, <1>3, <2>1
<1>5. ASSUME NEW i \in 1 .. l - k PROVE i + k \in 1 .. l /\ t[i] = s[i + k]
  <2>1. i \in 1 .. l - (k + 1) + 1 /\ k + 1 + i - 1 = i + k /\ i + k \in 1 .. l
    BY <1>1
  <2> QED
    BY <1>3, <2>1
<1> QED
  BY <1>3, <1>4, <1>5

Untouched(d) ==
    /\ stream'[d] = stream[d] /\ sent'[d] = sent[d] /\ taken'[d] = taken[d]
    /\ short'[d] = short[d] /\ want'[d] = want[d]

\* A direction where nothing is sent or read stays as it is.
LEMMA UntouchedKeeps ==
    ASSUME FramingInv, NEW d \in F!Directions, Untouched(d),
           Over(d) => Over(d)', Begun(d)' = Begun(d) \/ Over(d)'
    PROVE  WasSent(d)' /\ Aligned(d)'
<1>1. WasSent(d)'
  BY DEF FramingInv, Untouched, WasSent
<1>2. Aligned(d) /\ Counting(taken[d])' = Counting(taken[d])
  BY DEF FramingInv, Untouched, Counting
<1>3. Rest(stream[d], sent[d], Len(taken[d]), Begun(d))' <=>
         Rest(stream[d], sent[d], Len(taken[d]), Begun(d)')
  BY DEF Untouched, Rest
<1>4. Aligned(d)'
  BY <1>2, <1>3 DEF Untouched, Aligned
<1> QED
  BY <1>1, <1>4

\* A frame is sent.
LEMMA SendKeeps ==
    ASSUME FramingInv, NEW d \in F!Directions, F!SendFrame(d), server # "closed",
           UNCHANGED <<taken, short, want>>, Begun(d)' = Begun(d)
    PROVE  /\ FrameTypes' /\ WasSent(d)' /\ Aligned(d)'
           /\ \A e \in F!Directions \ {d} : Untouched(e)
<1> DEFINE s == stream[d]
           n == sent[d]
           t == s \o F!Header(n + 1) \o F!Body(n + 1)
<1>1. FrameTypes /\ WasSent(d) /\ Aligned(d) /\ s \in Seq(Pieces) /\ n \in Nat
  BY DEF FramingInv, FrameTypes
<1>2. sent' = [sent EXCEPT ![d] = n + 1] /\ sent'[d] = n + 1
  BY <1>1 DEF F!SendFrame, FrameTypes
<1>3. stream' = [stream EXCEPT ![d] = t] /\ stream'[d] = t
  BY <1>1, <1>2 DEF F!SendFrame, FrameTypes
<1>4. /\ t \in Seq(Pieces)
      /\ \A i \in 1 .. Len(t) : (i \in 1 .. Len(s) /\ t[i] = s[i]) \/ t[i].frame = n + 1
      /\ \A k \in Nat, p \in {0, 2} : Rest(s, n, k, p) => Rest(t, n + 1, k, p)
  BY <1>1, FrameSent
<1> HIDE DEF t
<1>5. FrameTypes'
  BY <1>1, <1>2, <1>3, <1>4 DEF FrameTypes
<1>6. WasSent(d)'
  <2>1. \A i \in 1 .. Len(t) : t[i].frame \in 1 .. n + 1
    BY <1>1, <1>4 DEF WasSent
  <2>2. \A i \in 1 .. Len(taken[d]) : taken[d][i] \in 0 .. n + 1
    BY <1>1 DEF WasSent
  <2> QED
    BY <1>2, <1>3, <2>1, <2>2 DEF WasSent
<1>7. Aligned(d)'
  <2>1. CASE short[d]
    BY <2>1, Zenon DEF Aligned
  <2>2. CASE ~short[d]
    <3>1. /\ Counting(taken[d]) /\ want[d] = Begun(d)
          /\ Rest(s, n, Len(taken[d]), Begun(d))
      BY <1>1, <2>2 DEF Aligned, Over
    <3>2. Len(taken[d]) \in Nat /\ Begun(d) \in {0, 2}
      BY <1>1, LenProperties DEF FrameTypes, Begun
    <3>3. Rest(t, n + 1, Len(taken[d]), Begun(d))
      BY <1>4, <3>1, <3>2
    <3>4. Rest(stream[d], sent[d], Len(taken[d]), Begun(d))'
      BY <1>2, <1>3, <3>3 DEF Rest
    <3>5. Counting(taken[d])'
      BY <3>1 DEF Counting
    <3> QED
      BY <3>1, <3>4, <3>5 DEF Aligned
  <2> QED
    BY <2>1, <2>2
<1>8. \A e \in F!Directions \ {d} : Untouched(e)
  BY <1>1, <1>2, <1>3 DEF FrameTypes, Untouched
<1> QED
  BY <1>5, <1>6, <1>7, <1>8

\* A frame is cut: nothing more is said of this direction than what was sent.
LEMMA CutKeeps ==
    ASSUME FramingInv, NEW k \in 1 .. 3, F!CutFrame(k), UNCHANGED <<taken, want>>
    PROVE  /\ FrameTypes' /\ WasSent("down")' /\ Aligned("down")'
           /\ \A e \in F!Directions \ {"down"} : Untouched(e)
<1> DEFINE s == stream["down"]
           n == sent["down"]
           h == F!Header(n + 1)
           b == F!Body(n + 1)
           c == SubSeq(h \o b, 1, k)
           t == s \o c
<1>0. "down" \in F!Directions
  BY DEF F!Directions
<1>1. FrameTypes /\ WasSent("down") /\ s \in Seq(Pieces) /\ n \in Nat
  BY <1>0 DEF FramingInv, FrameTypes
<1>2. sent' = [sent EXCEPT !["down"] = n + 1] /\ sent'["down"] = n + 1
  BY <1>0, <1>1 DEF F!CutFrame, FrameTypes
<1>3. stream' = [stream EXCEPT !["down"] = t] /\ stream'["down"] = t
  BY <1>0, <1>1, <1>2 DEF F!CutFrame, FrameTypes
<1>4. short' = [short EXCEPT !["down"] = TRUE]
  BY DEF F!CutFrame
<1>5. short' \in [F!Directions -> BOOLEAN] /\ short'["down"]
      /\ \A e \in F!Directions \ {"down"} : short'[e] = short[e]
  BY <1>0, <1>1, <1>4, Zenon DEF FrameTypes
<1>6. /\ h \in Seq(Pieces) /\ Len(h) = 2 /\ h[1].frame = n + 1 /\ h[2].frame = n + 1
      /\ b \in Seq(Pieces) /\ Len(b) = 2 /\ b[1].frame = n + 1 /\ b[2].frame = n + 1
  <2>1. n + 1 \in Nat
    BY <1>1
  <2>2. /\ h \in Seq(Pieces) /\ Len(h) = 2 /\ h[1] = Piece(n + 1, 1) /\ h[2] = Piece(n + 1, 2)
        /\ b \in Seq(Pieces) /\ Len(b) = 2 /\ b[1] = Piece(n + 1, 3) /\ b[2] = Piece(n + 1, 4)
    BY <2>1, FramePieces
  <2> HIDE DEF h, b
  <2> QED
    BY <2>2 DEF Piece
<1> HIDE DEF h, b
<1>7. /\ h \o b \in Seq(Pieces) /\ Len(h \o b) = 4
      /\ \A i \in 1 .. 4 : (h \o b)[i].frame = n + 1
  <2>1. /\ h \o b \in Seq(Pieces) /\ Len(h \o b) = Len(h) + Len(b)
        /\ \A i \in 1 .. Len(h) + Len(b) :
              (h \o b)[i] = IF i <= Len(h) THEN h[i] ELSE b[i - Len(h)]
    BY <1>6, ConcatProperties
  <2>2. \A i \in 1 .. 4 : (h \o b)[i] = IF i <= 2 THEN h[i] ELSE b[i - 2]
    BY <1>6, <2>1
  <2>3. \A i \in 1 .. 4 : i \in {1, 2} \/ (~(i <= 2) /\ i - 2 \in {1, 2})
    OBVIOUS
  <2> QED
    BY <1>6, <2>1, <2>2, <2>3
<1>8. /\ c \in Seq(Pieces) /\ Len(c) = k
      /\ \A i \in 1 .. k : c[i].frame = n + 1
  <2> DEFINE w == h \o b
  <2>0. c = SubSeq(w, 1, k) /\ w \in Seq(Pieces) /\ Len(w) = 4 /\ k \in Int
    BY <1>7
  <2> HIDE DEF w, c
  <2>1. \A i \in 1 .. k : w[i] \in Pieces /\ i \in 1 .. 4
    BY <2>0, ElementOfSeq
  <2>2. /\ c \in Seq(Pieces) /\ Len(c) = IF 1 <= k THEN k - 1 + 1 ELSE 0
        /\ \A i \in 1 .. k - 1 + 1 : c[i] = w[1 + i - 1]
    BY <2>0, <2>1, SubSeqProperties
  <2>3. Len(c) = k /\ \A i \in 1 .. k : i \in 1 .. k - 1 + 1 /\ 1 + i - 1 = i
    BY <2>2
  <2>4. \A i \in 1 .. k : w[i].frame = n + 1
    BY <1>7 DEF w
  <2> QED
    BY <2>2, <2>3, <2>4
<1> HIDE DEF c
<1>9. /\ t \in Seq(Pieces) /\ Len(t) = Len(s) + k
      /\ \A i \in 1 .. Len(t) :
            (i \in 1 .. Len(s) /\ t[i] = s[i]) \/ (i - Len(s) \in 1 .. k /\ t[i] = c[i - Len(s)])
  <2>1. Len(s) \in Nat
    BY <1>1, LenProperties
  <2>2. /\ t \in Seq(Pieces) /\ Len(t) = Len(s) + k
        /\ \A i \in 1 .. Len(s) + k : t[i] = IF i <= Len(s) THEN s[i] ELSE c[i - Len(s)]
    BY <1>1, <1>8, ConcatProperties
  <2> QED
    BY <2>1, <2>2
<1> HIDE DEF t
<1>10. FrameTypes'
  <2>1. /\ sent' \in [F!Directions -> Nat] /\ stream' \in [F!Directions -> Seq(Pieces)]
        /\ taken' \in [F!Directions -> Seq(Nat)] /\ want' \in [F!Directions -> 0 .. 3]
    BY <1>0, <1>1, <1>2, <1>3, <1>9 DEF FrameTypes
  <2> QED
    BY <1>5, <2>1 DEF FrameTypes
<1>11. WasSent("down")'
  <2>0. \A i \in 1 .. Len(s) : s[i].frame \in 1 .. n
    BY <1>1 DEF WasSent
  <2>1. ASSUME NEW i \in 1 .. Len(t) PROVE t[i].frame \in 1 .. n + 1
    <3>1. CASE i \in 1 .. Len(s) /\ t[i] = s[i]
      BY <1>1, <2>0, <3>1
    <3>2. CASE i - Len(s) \in 1 .. k /\ t[i] = c[i - Len(s)]
      <4>1. \A j \in 1 .. k : c[j].frame = n + 1
        BY <1>8
      <4>2. t[i].frame = n + 1
        BY <3>2, <4>1
      <4>3. n + 1 \in 1 .. n + 1
        BY <1>1
      <4> QED
        BY <4>2, <4>3
    <3> QED
      BY <1>9, <3>1, <3>2
  <2>2. \A i \in 1 .. Len(taken["down"]) : taken["down"][i] \in 0 .. n + 1
    BY <1>1 DEF WasSent
  <2> QED
    BY <1>2, <1>3, <2>1, <2>2 DEF WasSent
<1>12. Aligned("down")'
  BY <1>5, Zenon DEF Aligned
<1>13. \A e \in F!Directions \ {"down"} : Untouched(e)
  BY <1>1, <1>2, <1>3, <1>5 DEF FrameTypes, Untouched
<1> QED
  BY <1>10, <1>11, <1>12, <1>13

\* A frame is taken: the next of those in order, or the last since they have shifted.
LEMMA TakesOne ==
    ASSUME FramingInv, NEW d \in F!Directions, NEW g \in 0 .. sent[d], F!Takes(d, g)
    PROVE  \E a \in Seq(Nat) :
              /\ taken' = [taken EXCEPT ![d] = a] /\ \A i \in 1 .. Len(a) : a[i] \in 0 .. sent[d]
              /\ ~short'[d] => /\ Len(a) = Len(taken[d]) + 1 /\ a[Len(taken[d]) + 1] = g
                               /\ \A i \in 1 .. Len(taken[d]) : a[i] = taken[d][i]
<1> DEFINE m == Len(taken[d])
<1>1. /\ taken \in [F!Directions -> Seq(Nat)] /\ taken[d] \in Seq(Nat) /\ m \in Nat
      /\ sent[d] \in Nat /\ g \in Nat
      /\ \A i \in 1 .. m : taken[d][i] \in 0 .. sent[d]
  BY LenProperties DEF FramingInv, FrameTypes, WasSent
<1>2. CASE short'[d]
  <2>1. taken' = [taken EXCEPT ![d] = <<g>>]
    BY <1>1, <1>2 DEF F!Takes
  <2>2. <<g>> \in Seq(Nat) /\ Len(<<g>>) = 1 /\ <<g>>[1] = g
    BY <1>1
  <2>3. \A i \in 1 .. Len(<<g>>) : <<g>>[i] \in 0 .. sent[d]
    BY <2>2
  <2> QED
    BY <1>2, <2>1, <2>2, <2>3
<1>3. CASE ~short'[d]
  <2> DEFINE a == Append(taken[d], g)
  <2>1. taken' = [taken EXCEPT ![d] = a]
    BY <1>1, <1>3 DEF F!Takes
  <2>2. /\ a \in Seq(Nat) /\ Len(a) = m + 1 /\ a[m + 1] = g
        /\ \A i \in 1 .. m : a[i] = taken[d][i]
    BY <1>1, AppendProperties
  <2>3. \A i \in 1 .. m + 1 : i \in 1 .. m \/ i = m + 1
    BY <1>1
  <2> HIDE DEF a
  <2>4. \A i \in 1 .. Len(a) : a[i] \in 0 .. sent[d]
    BY <1>1, <2>2, <2>3
  <2> QED
    BY <2>1, <2>2, <2>4
<1> QED
  BY <1>2, <1>3

\* A header is read: whole, if nothing was short before, and a whole one says 2.
LEMMA HeaderKeeps ==
    ASSUME FramingInv, NEW d \in F!Directions, NEW length \in 0 .. F!MaxLength,
           F!ReadHeader(d, length), Begun(d) = 0, ~Over(d), UNCHANGED sent,
           Begun(d)' = IF length = 0 THEN 0 ELSE 2
    PROVE  /\ FrameTypes' /\ WasSent(d)' /\ Aligned(d)'
           /\ \A e \in F!Directions \ {d} : Untouched(e)
<1> DEFINE s == stream[d]
           n == sent[d]
           m == Len(taken[d])
<1>1. FrameTypes /\ WasSent(d) /\ Aligned(d) /\ s \in Seq(Pieces) /\ n \in Nat /\ m \in Nat
  BY LenProperties DEF FramingInv, FrameTypes
<1>2. PICK k \in 1 .. 2 :
         /\ F!Read(d, 2, k)
         /\ IF k = 2 /\ s[1].part = 1 /\ s[2].part = 2
            THEN length = s[2].length ELSE length \in 0 .. F!MaxLength
         /\ want' = [want EXCEPT ![d] = length]
         /\ IF length = 0 THEN F!Takes(d, F!Garbage) ELSE UNCHANGED taken
  BY DEF F!ReadHeader
<1> DEFINE t == SubSeq(s, k + 1, Len(s))
<1>3. /\ k \in Nat /\ k >= 1 /\ k <= Len(s) /\ stream' = [stream EXCEPT ![d] = t]
      /\ short' = [short EXCEPT ![d] = @ \/ k < 2]
  BY <1>2 DEF F!Read
<1>4. /\ t \in Seq(Pieces)
      /\ \A i \in 1 .. Len(t) : i + k \in 1 .. Len(s) /\ t[i] = s[i + k]
  BY <1>1, <1>3, PartRead
<1>5. stream'[d] = t /\ want'[d] = length /\ sent'[d] = n
  BY <1>1, <1>2, <1>3 DEF FrameTypes
<1>6. short'[d] <=> short[d] \/ k < 2
  BY <1>1, <1>3, Zenon DEF FrameTypes
<1>7. /\ taken' \in [F!Directions -> Seq(Nat)]
      /\ length # 0 => taken' = taken
      /\ \A i \in 1 .. Len(taken'[d]) : taken'[d][i] \in 0 .. n
      /\ \A e \in F!Directions \ {d} : taken'[e] = taken[e]
  <2>1. CASE length # 0
    BY <1>1, <1>2, <2>1 DEF FrameTypes, WasSent
  <2>2. CASE length = 0
    <3>1. PICK a \in Seq(Nat) : /\ taken' = [taken EXCEPT ![d] = a]
                                /\ \A i \in 1 .. Len(a) : a[i] \in 0 .. n
      BY <1>1, <1>2, <2>2, TakesOne DEF F!Garbage
    <3> QED
      BY <1>1, <2>2, <3>1 DEF FrameTypes
  <2> QED
    BY <2>1, <2>2
<1> HIDE DEF t
<1>8. FrameTypes'
  <2>1. short' \in [F!Directions -> BOOLEAN]
    BY <1>1, <1>3, Zenon DEF FrameTypes
  <2>2. stream' \in [F!Directions -> Seq(Pieces)] /\ want' \in [F!Directions -> 0 .. 3]
    BY <1>1, <1>2, <1>3, <1>4 DEF FrameTypes, F!MaxLength
  <2> QED
    BY <1>1, <1>7, <2>1, <2>2 DEF FrameTypes
<1>9. WasSent(d)'
  BY <1>1, <1>4, <1>5, <1>7 DEF WasSent
<1>10. Aligned(d)'
  <2>1. CASE short[d] \/ k < 2
    BY <1>6, <2>1, Zenon DEF Aligned
  <2>2. CASE ~short[d] /\ ~(k < 2)
    <3>1. k = 2 /\ Counting(taken[d]) /\ Rest(s, n, m, 0)
      BY <1>1, <2>2 DEF Aligned
    <3>2. /\ s[1] = Piece(m + 1, 1) /\ s[2] = Piece(m + 1, 2)
          /\ Rest(SubSeq(s, 3, Len(s)), n, m, 2)
      BY <1>1, <1>3, <3>1, HalfRead
    <3>3. length = 2
      BY <1>2, <3>1, <3>2 DEF Piece
    <3>4. taken' = taken /\ want'[d] = 2 /\ Begun(d)' = 2
      BY <1>5, <1>7, <3>3
    <3>5. t = SubSeq(s, 3, Len(s))
      BY <3>1 DEF t
    <3>6. Rest(stream[d], sent[d], Len(taken[d]), 2)'
      <4>1. Rest(t, n, m, 2)
        BY <3>2, <3>5
      <4> QED
        BY <1>5, <3>4, <4>1 DEF Rest
    <3>7. Counting(taken[d])'
      BY <3>1, <3>4 DEF Counting
    <3>8. want'[d] = Begun(d)' /\ Rest(stream[d], sent[d], Len(taken[d]), Begun(d))'
      BY <3>4, <3>6
    <3> QED
      BY <3>7, <3>8 DEF Aligned
  <2> QED
    BY <2>1, <2>2
<1>11. \A e \in F!Directions \ {d} : Untouched(e)
  <2>1. \A e \in F!Directions \ {d} : short'[e] = short[e]
    BY <1>1, <1>3, Zenon DEF FrameTypes
  <2> QED
    BY <1>1, <1>2, <1>3, <1>7, <2>1 DEF FrameTypes, Untouched
<1> QED
  BY <1>8, <1>9, <1>10, <1>11

\* A body is read: the body of the next frame, if nothing was short before.
LEMMA BodyKeeps ==
    ASSUME FramingInv, NEW d \in F!Directions, F!ReadBody(d), Begun(d) = 2, ~Over(d),
           UNCHANGED sent, Begun(d)' = 0
    PROVE  /\ FrameTypes' /\ WasSent(d)' /\ Aligned(d)'
           /\ \A e \in F!Directions \ {d} : Untouched(e)
<1> DEFINE s == stream[d]
           n == sent[d]
           m == Len(taken[d])
           w == want[d]
           f == s[1].frame
<1>1. /\ FrameTypes /\ WasSent(d) /\ Aligned(d) /\ s \in Seq(Pieces) /\ n \in Nat /\ m \in Nat
      /\ w \in 0 .. 3
  BY LenProperties DEF FramingInv, FrameTypes
<1>2. PICK k \in 1 .. w :
         /\ F!Read(d, w, k)
         /\ F!Takes(d, IF SubSeq(s, 1, k) = F!Body(f) THEN f ELSE F!Garbage)
         /\ want' = [want EXCEPT ![d] = 0]
  BY DEF F!ReadBody
<1> DEFINE t == SubSeq(s, k + 1, Len(s))
           g == IF SubSeq(s, 1, k) = F!Body(f) THEN f ELSE 0
<1>3. /\ k \in Nat /\ k >= 1 /\ k <= Len(s) /\ stream' = [stream EXCEPT ![d] = t]
      /\ short' = [short EXCEPT ![d] = @ \/ k < w]
      /\ F!Takes(d, g)
  BY <1>1, <1>2 DEF F!Read, F!Garbage
<1>4. /\ t \in Seq(Pieces)
      /\ \A i \in 1 .. Len(t) : i + k \in 1 .. Len(s) /\ t[i] = s[i + k]
  BY <1>1, <1>3, PartRead
<1>5. stream'[d] = t /\ want'[d] = 0 /\ sent'[d] = n
  BY <1>1, <1>2, <1>3 DEF FrameTypes
<1>6. short'[d] <=> short[d] \/ k < w
  BY <1>1, <1>3, Zenon DEF FrameTypes
<1>7. g \in 0 .. n /\ g \in Nat
  <2>1. Len(s) \in Nat
    BY <1>1, LenProperties
  <2>2. 1 \in 1 .. Len(s)
    BY <1>3, <2>1
  <2>3. f \in 1 .. n
    BY <1>1, <2>2 DEF WasSent
  <2> QED
    BY <1>1, <2>3
<1> HIDE DEF t, g
<1>8. PICK a \in Seq(Nat) :
         /\ taken' = [taken EXCEPT ![d] = a] /\ \A i \in 1 .. Len(a) : a[i] \in 0 .. n
         /\ ~short'[d] => /\ Len(a) = m + 1 /\ a[m + 1] = g
                          /\ \A i \in 1 .. m : a[i] = taken[d][i]
  BY <1>1, <1>3, <1>7, TakesOne
<1>9. /\ taken'[d] = a /\ taken' \in [F!Directions -> Seq(Nat)]
      /\ \A i \in 1 .. m + 1 : i \in 1 .. m \/ i = m + 1
  BY <1>1, <1>8 DEF FrameTypes
<1>10. FrameTypes'
  <2>1. short' \in [F!Directions -> BOOLEAN]
    BY <1>1, <1>3, Zenon DEF FrameTypes
  <2>2. stream' \in [F!Directions -> Seq(Pieces)]
    <3>1. stream \in [F!Directions -> Seq(Pieces)] /\ stream' = [stream EXCEPT ![d] = t]
      BY <1>1, <1>3 DEF FrameTypes
    <3> QED
      BY <1>4, <3>1
  <2>3. want' \in [F!Directions -> 0 .. 3]
    BY <1>1, <1>2 DEF FrameTypes
  <2>4. sent' \in [F!Directions -> Nat]
    BY <1>1 DEF FrameTypes
  <2> QED
    BY <1>9, <2>1, <2>2, <2>3, <2>4, Zenon DEF FrameTypes
<1>11. WasSent(d)'
  <2>1. \A i \in 1 .. Len(t) : t[i].frame \in 1 .. n
    BY <1>1, <1>4 DEF WasSent
  <2> QED
    BY <1>5, <1>8, <1>9, <2>1 DEF WasSent
<1>12. Aligned(d)'
  <2>1. CASE short[d] \/ k < w
    BY <1>6, <2>1, Zenon DEF Aligned
  <2>2. CASE ~short[d] /\ ~(k < w)
    <3>0. Len(a) = m + 1 /\ a[m + 1] = g /\ \A i \in 1 .. m : a[i] = taken[d][i]
      BY <1>6, <1>8, <2>2, Zenon
    <3>1. w = 2 /\ k = 2 /\ Counting(taken[d]) /\ Rest(s, n, m, 2)
      BY <1>1, <2>2 DEF Aligned
    <3>2. /\ s[1] = Piece(m + 1, 3) /\ s[2] = Piece(m + 1, 4)
          /\ Rest(SubSeq(s, 3, Len(s)), n, m + 1, 0)
      BY <1>1, <1>3, <3>1, HalfRead
    <3>3. f = m + 1
      BY <3>2 DEF Piece
    <3>4. SubSeq(s, 1, k) = F!Body(f)
      <4>1. F!Body(f) = [i \in 1 .. 2 |-> [frame |-> m + 1, part |-> 2 + i, length |-> 0]]
        BY <3>3 DEF F!Body, F!BodySize
      <4>2. SubSeq(s, 1, 2) = [i \in 1 .. 2 |-> s[i]]
        OBVIOUS
      <4>3. \A i \in 1 .. 2 : s[i] = [frame |-> m + 1, part |-> 2 + i, length |-> 0]
        BY <3>2 DEF Piece
      <4> QED
        BY <3>1, <4>1, <4>2, <4>3
    <3>5. g = m + 1
      BY <3>3, <3>4 DEF g
    <3>6. Counting(a)
      BY <1>9, <3>0, <3>1, <3>5 DEF Counting
    <3>7. t = SubSeq(s, 3, Len(s))
      BY <3>1 DEF t
    <3>8. Rest(stream[d], sent[d], Len(taken[d]), 0)'
      <4>1. Rest(t, n, Len(a), 0)
        BY <3>0, <3>2, <3>7
      <4> QED
        BY <1>5, <1>9, <4>1 DEF Rest
    <3>9. Counting(taken[d])'
      BY <1>9, <3>6 DEF Counting
    <3>10. want'[d] = Begun(d)' /\ Rest(stream[d], sent[d], Len(taken[d]), Begun(d))'
      BY <1>5, <3>8
    <3> QED
      BY <3>9, <3>10 DEF Aligned
  <2> QED
    BY <2>1, <2>2
<1>13. \A e \in F!Directions \ {d} : Untouched(e)
  <2>1. \A e \in F!Directions \ {d} : short'[e] = short[e]
    BY <1>1, <1>3, Zenon DEF FrameTypes
  <2> QED
    BY <1>1, <1>2, <1>3, <1>8, <2>1 DEF FrameTypes, Untouched
<1> QED
  BY <1>10, <1>11, <1>12, <1>13

\* At first nothing is sent.
LEMMA FramingInit == F!FramingInit => FramingInv
<1> SUFFICES ASSUME F!FramingInit PROVE FramingInv
  OBVIOUS
<1> USE DEF F!FramingInit
<1>1. /\ <<>> \in Seq(Pieces) /\ <<>> \in Seq(Nat) /\ Len(<<>>) = 0
  BY EmptySeq
<1>2. FrameTypes
  <2>1. short \in [F!Directions -> BOOLEAN]
    BY Zenon
  <2> QED
    BY <1>1, <2>1 DEF FrameTypes
<1>3. EndTypes
  BY FramingAssumption DEF EndTypes, F!Logout
<1>4. ASSUME NEW d \in F!Directions PROVE WasSent(d) /\ Aligned(d)
  <2>1. stream[d] = <<>> /\ taken[d] = <<>> /\ sent[d] = 0 /\ want[d] = 0
    BY Zenon
  <2>2. Begun(d) = 0
    BY DEF Begun
  <2>3. Rest(stream[d], sent[d], Len(taken[d]), Begun(d))
    BY <1>1, <2>1, <2>2 DEF Rest
  <2>4. WasSent(d) /\ Counting(taken[d])
    BY <1>1, <2>1 DEF WasSent, Counting
  <2> QED
    BY <2>1, <2>2, <2>3, <2>4 DEF Aligned
<1> QED
  BY <1>2, <1>3, <1>4 DEF FramingInv

\* A direction is done with, or its reader is where it was.
Waits(d) == (Over(d) => Over(d)') /\ (Begun(d)' = Begun(d) \/ Over(d)')

\* Something happens in one direction only, or in none.
LEMMA OneMoves ==
    ASSUME FramingInv, NEW d \in F!Directions, FrameTypes', WasSent(d)', Aligned(d)', EndTypes',
           \A e \in F!Directions \ {d} : Untouched(e) /\ Waits(e)
    PROVE  FramingInv'
<1>1. ASSUME NEW e \in F!Directions, e # d PROVE WasSent(e)' /\ Aligned(e)'
  BY <1>1, UntouchedKeeps DEF Waits
<1> QED
  BY <1>1 DEF FramingInv

\* A step that reads and writes nothing keeps the streams aligned.
LEMMA NoneMoves ==
    ASSUME FramingInv, UNCHANGED <<stream, sent, taken, short, want>>, EndTypes',
           \A e \in F!Directions : Waits(e)
    PROVE  FramingInv'
<1>1. ASSUME NEW e \in F!Directions PROVE WasSent(e)' /\ Aligned(e)'
  BY <1>1, UntouchedKeeps DEF Waits, Untouched
<1>2. FrameTypes'
  BY DEF FramingInv, FrameTypes
<1> QED
  BY <1>1, <1>2 DEF FramingInv

\* An answer or a broadcast is written, in part, or not at all.
LEMMA WriteKeeps ==
    ASSUME FramingInv, F!WriteFrame, server # "closed", UNCHANGED <<taken, want>>, EndTypes',
           Begun("down")' = Begun("down"), \A e \in F!Directions : Waits(e)
    PROVE  FramingInv'
<1>0. "down" \in F!Directions
  BY DEF F!Directions
<1>1. CASE F!SendFrame("down") /\ UNCHANGED short
  BY <1>0, <1>1, SendKeeps, OneMoves
<1>2. ASSUME NEW k \in 1 .. 3, F!CutFrame(k) PROVE FramingInv'
  BY <1>0, <1>2, CutKeeps, OneMoves
<1>3. CASE UNCHANGED <<sent, stream, short>>
  BY <1>3, NoneMoves
<1> QED
  BY <1>1, <1>2, <1>3 DEF F!WriteFrame

\* Where a call leads.
LEMMA ReturnsKeeps ==
    ASSUME EndTypes, client.pc \in {"header", "body"} \/ client.call < F!Logout,
           NEW b \in BOOLEAN, F!Returns(b)
    PROVE  client' \in [call : 1 .. F!Logout, pc : {"send", "end"}]
<1>1. client.call < F!Logout /\ client.call \in Nat /\ F!Logout \in Nat
  BY FramingAssumption DEF EndTypes, F!Logout
<1>2. client.call + 1 \in 1 .. F!Logout
  BY <1>1
<1> QED
  BY <1>1, <1>2 DEF F!Returns, EndTypes

\* The calls of the client.
LEMMA ClientKeeps == ASSUME FramingInv, F!ClientStep PROVE FramingInv'
<1> USE DEF F!Directions
<1>1. EndTypes /\ FrameTypes
  BY DEF FramingInv
<1>2. ASSUME F!SendMessage PROVE FramingInv'
  <2>1. /\ client.pc = "send" /\ UNCHANGED <<taken, short, want, server, pushes>>
        /\ client' = [client EXCEPT !.pc = IF client.call = F!Logout THEN "end" ELSE "header"]
        /\ IF server # "closed" THEN F!SendFrame("up") ELSE UNCHANGED <<sent, stream>>
    BY <1>2 DEF F!SendMessage, F!ClientAt
  <2>2. EndTypes' /\ client'.pc # "body"
    BY <1>1, <2>1, FramingAssumption DEF EndTypes, F!Logout
  <2>3. Begun("up")' = Begun("up") /\ Begun("down")' = Begun("down")
    BY <2>1, <2>2 DEF Begun
  <2>4. CASE server # "closed"
    <3>1. /\ FrameTypes' /\ WasSent("up")' /\ Aligned("up")'
          /\ \A e \in F!Directions \ {"up"} : Untouched(e)
      BY <2>1, <2>3, <2>4, SendKeeps
    <3>2. Waits("down")
      BY <2>3, <2>4 DEF Waits, Over
    <3> QED
      BY <2>2, <3>1, <3>2, OneMoves
  <2>5. CASE server = "closed"
    BY <2>1, <2>2, <2>3, <2>5, NoneMoves DEF Waits, Over
  <2> QED
    BY <2>4, <2>5
<1>3. ASSUME F!SendFails PROVE FramingInv'
  <2>1. /\ client.pc = "send" /\ server = "closed"
        /\ UNCHANGED <<stream, sent, taken, short, want, server, pushes>>
    BY <1>3 DEF F!SendFails, F!ClientAt
  <2>2. client' \in [call : 1 .. F!Logout, pc : {"send", "end"}]
    <3>1. CASE client.call = F!Logout
      BY <1>1, <1>3, <3>1 DEF F!SendFails, EndTypes
    <3>2. CASE client.call # F!Logout
      <4>1. F!Returns(FALSE)
        BY <1>3, <3>2 DEF F!SendFails
      <4>2. client.call < F!Logout
        BY <1>1, <3>2, FramingAssumption DEF EndTypes, F!Logout
      <4> QED
        BY <1>1, <4>1, <4>2, ReturnsKeeps
    <3> QED
      BY <3>1, <3>2
  <2>3. EndTypes'
    BY <1>1, <2>1, <2>2 DEF EndTypes
  <2>4. \A e \in F!Directions : Waits(e)
    BY <2>1, <2>2 DEF Waits, Over, Begun
  <2> QED
    BY <2>1, <2>3, <2>4, NoneMoves
<1>4. ASSUME F!ReceiveHeader PROVE FramingInv'
  <2>1. PICK length \in 0 .. F!MaxLength :
           /\ F!ReadHeader("down", length)
           /\ IF length = 0 THEN F!Returns(FALSE) ELSE client' = [client EXCEPT !.pc = "body"]
    BY <1>4 DEF F!ReceiveHeader
  <2>2. client.pc = "header" /\ UNCHANGED <<sent, server, pushes>>
    BY <1>4 DEF F!ReceiveHeader, F!ClientAt
  <2>3. ~Over("down")
    BY <1>1, <2>1, EmptySeq DEF F!ReadHeader, F!Read, Over
  <2>4. length = 0 => client' \in [call : 1 .. F!Logout, pc : {"send", "end"}]
    BY <1>1, <2>1, <2>2, ReturnsKeeps
  <2>5. length # 0 => client'.pc = "body" /\ client' \in [call : 1 .. F!Logout, pc : {"body"}]
                      /\ client'.call = client.call
    BY <1>1, <2>1 DEF EndTypes
  <2>6. EndTypes'
    BY <1>1, <2>2, <2>4, <2>5 DEF EndTypes
  <2>7. Begun("down") = 0 /\ Begun("down")' = IF length = 0 THEN 0 ELSE 2
    BY <2>2, <2>4, <2>5 DEF Begun
  <2>8. /\ FrameTypes' /\ WasSent("down")' /\ Aligned("down")'
        /\ \A e \in F!Directions \ {"down"} : Untouched(e)
    BY <2>1, <2>2, <2>3, <2>7, HeaderKeeps
  <2>9. Waits("up")
    BY <2>2 DEF Waits, Over, Begun
  <2> QED
    BY <2>6, <2>8, <2>9, OneMoves
<1>5. ASSUME F!ReceiveBody PROVE FramingInv'
  <2>1. /\ client.pc = "body" /\ F!ReadBody("down") /\ UNCHANGED <<sent, server, pushes>>
        /\ F!Returns(TRUE) \/ F!Returns(FALSE)
    BY <1>5 DEF F!ReceiveBody, F!ClientAt
  <2>2. ~Over("down")
    <3>1. want["down"] \in 0 .. 3
      BY <1>1 DEF FrameTypes
    <3> QED
      BY <2>1, <3>1, EmptySeq DEF F!ReadBody, F!Read, Over
  <2>3. client' \in [call : 1 .. F!Logout, pc : {"send", "end"}]
    BY <1>1, <2>1, ReturnsKeeps
  <2>4. EndTypes'
    BY <1>1, <2>1, <2>3 DEF EndTypes
  <2>5. Begun("down") = 2 /\ Begun("down")' = 0
    BY <2>1, <2>3 DEF Begun
  <2>6. /\ FrameTypes' /\ WasSent("down")' /\ Aligned("down")'
        /\ \A e \in F!Directions \ {"down"} : Untouched(e)
    BY <2>1, <2>2, <2>5, BodyKeeps
  <2>7. Waits("up")
    BY <2>1 DEF Waits, Over, Begun
  <2> QED
    BY <2>4, <2>6, <2>7, OneMoves
<1>6. ASSUME F!ReceiveFails PROVE FramingInv'
  <2>1. /\ client.pc \in {"header", "body"} /\ server = "closed" /\ F!Returns(FALSE)
        /\ stream' = [stream EXCEPT !["down"] = <<>>]
        /\ UNCHANGED <<sent, taken, short, want, server, pushes>>
    BY <1>6 DEF F!ReceiveFails
  <2>2. client' \in [call : 1 .. F!Logout, pc : {"send", "end"}]
    BY <1>1, <2>1, ReturnsKeeps
  <2>3. EndTypes'
    BY <1>1, <2>1, <2>2 DEF EndTypes
  <2>4. <<>> \in Seq(Pieces) /\ Len(<<>>) = 0
    BY EmptySeq
  <2>5. FrameTypes' /\ stream'["down"] = <<>> /\ stream'["up"] = stream["up"]
    BY <1>1, <2>1, <2>4 DEF FrameTypes
  <2>6. WasSent("down")'
    <3>1. WasSent("down")
      BY DEF FramingInv
    <3> QED
      BY <2>1, <2>4, <2>5, <3>1 DEF WasSent
  <2>7. Aligned("down")'
    <3>1. short["down"] \/ Counting(taken["down"])
      BY DEF FramingInv, Aligned
    <3>2. Over("down")'
      BY <2>1, <2>5 DEF Over
    <3>3. Counting(taken["down"])' <=> Counting(taken["down"])
      BY <2>1 DEF Counting
    <3> QED
      BY <2>1, <3>1, <3>2, <3>3 DEF Aligned
  <2>8. Untouched("up") /\ Waits("up")
    BY <2>1, <2>5 DEF Untouched, Waits, Over, Begun
  <2> QED
    BY <2>3, <2>5, <2>6, <2>7, <2>8, OneMoves
<1> QED
  BY <1>2, <1>3, <1>4, <1>5, <1>6 DEF F!ClientStep

\* The connection's handler, its deadline and the broadcasts.
LEMMA ServerKeeps ==
    ASSUME FramingInv, F!ServerStep \/ F!ReadFails \/ F!Push PROVE FramingInv'
<1> USE DEF F!Directions
<1>1. EndTypes /\ FrameTypes
  BY DEF FramingInv
<1>2. ASSUME F!ServerHeader PROVE FramingInv'
  <2>1. PICK length \in 0 .. F!MaxLength :
           /\ F!ReadHeader("up", length)
           /\ server' = IF length = 0 THEN "closed" ELSE "body"
    BY <1>2 DEF F!ServerHeader
  <2>2. server = "header" /\ UNCHANGED <<sent, client, pushes>>
    BY <1>2 DEF F!ServerHeader
  <2>3. EndTypes'
    BY <1>1, <2>1, <2>2 DEF EndTypes
  <2>4. /\ ~Over("up") /\ Begun("up") = 0
        /\ Begun("up")' = IF length = 0 THEN 0 ELSE 2
    BY <2>1, <2>2 DEF Over, Begun
  <2>5. /\ FrameTypes' /\ WasSent("up")' /\ Aligned("up")'
        /\ \A e \in F!Directions \ {"up"} : Untouched(e)
    BY <2>1, <2>2, <2>4, HeaderKeeps
  <2>6. Waits("down")
    BY <2>2 DEF Waits, Over, Begun
  <2> QED
    BY <2>3, <2>5, <2>6, OneMoves
<1>3. ASSUME F!ServerBody PROVE FramingInv'
  <2>1. /\ server = "body" /\ F!ReadBody("up") /\ server' = "handle"
        /\ UNCHANGED <<sent, client, pushes>>
    BY <1>3 DEF F!ServerBody
  <2>2. EndTypes'
    BY <1>1, <2>1 DEF EndTypes
  <2>3. ~Over("up") /\ Begun("up") = 2 /\ Begun("up")' = 0
    BY <2>1 DEF Over, Begun
  <2>4. /\ FrameTypes' /\ WasSent("up")' /\ Aligned("up")'
        /\ \A e \in F!Directions \ {"up"} : Untouched(e)
    BY <2>1, <2>3, BodyKeeps
  <2>5. Waits("down")
    BY <2>1 DEF Waits, Over, Begun
  <2> QED
    BY <2>2, <2>4, <2>5, OneMoves
<1>4. ASSUME F!HandleMessage PROVE FramingInv'
  <2>1. /\ server = "handle" /\ server' \in {"closed", "header"}
        /\ F!WriteFrame \/ UNCHANGED <<sent, stream, short>>
        /\ UNCHANGED <<taken, want, client, pushes>>
    BY <1>4 DEF F!HandleMessage
  <2>2. EndTypes'
    BY <1>1, <2>1 DEF EndTypes
  <2>3. Begun("down")' = Begun("down") /\ \A e \in F!Directions : Waits(e)
    BY <2>1 DEF Waits, Over, Begun
  <2> QED
    BY <2>1, <2>2, <2>3, WriteKeeps, NoneMoves
<1>5. ASSUME F!ReadFails PROVE FramingInv'
  <2>1. /\ server' = "closed"
        /\ UNCHANGED <<stream, sent, taken, short, want, client, pushes>>
    BY <1>5 DEF F!ReadFails
  <2>2. EndTypes'
    BY <1>1, <2>1 DEF EndTypes
  <2>3. \A e \in F!Directions : Waits(e)
    BY <2>1 DEF Waits, Over, Begun
  <2> QED
    BY <2>1, <2>2, <2>3, NoneMoves
<1>6. ASSUME F!Push PROVE FramingInv'
  <2>1. server # "closed" /\ F!WriteFrame /\ UNCHANGED <<taken, want, client, server>>
    BY <1>6 DEF F!Push
  <2>2. EndTypes'
    BY <1>1, <2>1 DEF EndTypes
  <2>3. Begun("down")' = Begun("down") /\ \A e \in F!Directions : Waits(e)
    BY <2>1 DEF Waits, Over, Begun
  <2> QED
    BY <2>1, <2>2, <2>3, WriteKeeps
<1> QED
  BY <1>2, <1>3, <1>4, <1>5, <1>6 DEF F!ServerStep

\* Every step of a connection keeps it.
LEMMA FramingStep == FramingInv /\ F!FramingNext => FramingInv'
BY ClientKeeps, ServerKeeps DEF F!FramingNext

\* The frames taken are those sent, in order.
LEMMA FramesAreAligned == FramingInv => F!FramingTypeOK /\ F!FramesAligned
<1> SUFFICES ASSUME FramingInv PROVE F!FramingTypeOK /\ F!FramesAligned
  OBVIOUS
<1>1. F!FramingTypeOK
  BY DEF FramingInv, FrameTypes, EndTypes, WasSent, F!FramingTypeOK, F!MaxLength
<1>2. ASSUME NEW d \in F!Directions, ~short[d]
      PROVE  taken[d] = [i \in 1 .. Len(taken[d]) |-> i]
  <2>1. Counting(taken[d]) /\ taken[d] \in Seq(Nat)
    BY <1>2 DEF FramingInv, FrameTypes, Aligned
  <2>2. taken[d] = [i \in 1 .. Len(taken[d]) |-> taken[d][i]]
    BY <2>1
  <2> QED
    BY <2>1, <2>2 DEF Counting
<1> QED
  BY <1>1, <1>2 DEF F!FramesAligned

-----------------------------------------------------------------------------
(* The cache of discovered services *)

Typed(t, found) == t \in D!ServiceTypes /\ \A s \in found : TypeOfService[s] = t

CacheTyped == \A t \in DOMAIN cache : Typed(t, cache[t])

RefreshTyped ==
    /\ refresh.todo \subseteq DOMAIN cache
    /\ refresh \in [pc : {"wait", "read", "write"}, todo : SUBSET D!ServiceTypes,
                    type : D!ServiceTypes \cup {OwnType}, list : SUBSET Services]
    /\ refresh.pc = "write" => Typed(refresh.type, refresh.list)

LookupsTyped ==
    /\ lookup \in [Lookups -> [pc : {"idle", "read", "write"},
                               type : D!ServiceTypes \cup {OwnType}, list : SUBSET Services]]
    /\ \A l \in Lookups :
          /\ lookup[l].pc # "idle" => lookup[l].type \in D!ServiceTypes
          /\ lookup[l].pc = "write" => Typed(lookup[l].type, lookup[l].list)

\* A change of the own type's services comes of a service of that type.
EventsTyped ==
    /\ events > 0 => OwnType \in D!ServiceTypes
    /\ \A k \in callbacks : Typed(OwnType, k.list)

EtcdTyped ==
    /\ registered \subseteq Services
    /\ changes \in 0 .. MaxChanges /\ errors \in 0 .. MaxErrors /\ events \in 0 .. changes

DiscoveryInv ==
    /\ EtcdTyped /\ EventsTyped /\ CacheTyped /\ RefreshTyped /\ LookupsTyped
    /\ closed \in BOOLEAN

\* At first nothing is cached.
LEMMA DiscoveryInit == D!DiscoveryInit => DiscoveryInv
<1> SUFFICES ASSUME D!DiscoveryInit PROVE DiscoveryInv
  OBVIOUS
<1> USE DEF D!DiscoveryInit
<1>1. EtcdTyped
  BY DiscoveryAssumption DEF EtcdTyped
<1>2. DOMAIN cache = {} /\ EventsTyped /\ CacheTyped
  BY DEF EventsTyped, CacheTyped
<1>3. RefreshTyped
  BY DEF RefreshTyped, D!Waiting
<1>4. LookupsTyped
  BY DEF LookupsTyped, D!NoLookup
<1>5. closed \in BOOLEAN
  BY Zenon
<1> QED
  BY <1>1, <1>2, <1>3, <1>4, <1>5 DEF DiscoveryInv

\* A list read from etcd is one of services of the type asked for.
LEMMA ListsTyped ==
    ASSUME DiscoveryInv, NEW t \in D!ServiceTypes
    PROVE  Typed(t, D!OfType(t)) /\ D!OfType(t) \subseteq Services
BY DEF DiscoveryInv, EtcdTyped, Typed, D!OfType

\* A list of its type may be written.
LEMMA WriteTyped ==
    ASSUME DiscoveryInv, NEW t, NEW found, Typed(t, found), D!WriteCache(t, found)
    PROVE  CacheTyped' /\ DOMAIN cache \subseteq DOMAIN cache'
<1>1. cache' = [u \in DOMAIN cache \cup {t} |-> IF u = t THEN found ELSE cache[u]]
  BY DEF D!WriteCache
<1>2. DOMAIN cache' = DOMAIN cache \cup {t}
  BY <1>1
<1>3. \A u \in DOMAIN cache' : cache'[u] = IF u = t THEN found ELSE cache[u]
  BY <1>1
<1>4. \A u \in DOMAIN cache' : Typed(u, cache'[u])
  BY <1>2, <1>3, Zenon DEF DiscoveryInv, CacheTyped
<1> QED
  BY <1>2, <1>4 DEF CacheTyped, Typed

\* Services come and go, the watch tells of it, its callbacks write.
LEMMA WatchKeeps ==
    ASSUME DiscoveryInv,
           \/ \E s \in Services : D!Change(s)
           \/ D!WatchEvent \/ D!Close
           \/ \E k \in callbacks : D!Callback(k)
    PROVE  DiscoveryInv'
<1>1. ASSUME NEW s \in Services, D!Change(s) PROVE DiscoveryInv'
  <2>1. /\ UNCHANGED <<errors, cache, callbacks, refresh, lookup, closed>>
        /\ registered' \subseteq Services /\ changes < MaxChanges /\ changes' = changes + 1
        /\ events' = IF TypeOfService[s] = OwnType THEN events + 1 ELSE events
    BY <1>1 DEF D!Change, DiscoveryInv, EtcdTyped
  <2>2. EtcdTyped'
    BY <2>1, DiscoveryAssumption DEF DiscoveryInv, EtcdTyped
  <2>3. EventsTyped'
    BY <2>1 DEF DiscoveryInv, EventsTyped, Typed, D!ServiceTypes
  <2> QED
    BY <2>1, <2>2, <2>3 DEF DiscoveryInv, CacheTyped, RefreshTyped, LookupsTyped
<1>2. ASSUME D!WatchEvent PROVE DiscoveryInv'
  <2>1. /\ UNCHANGED <<registered, changes, cache, refresh, lookup, closed>>
        /\ events > 0 /\ events' \in 0 .. events - 1 /\ errors' \in 0 .. MaxErrors
    BY <1>2, DiscoveryAssumption
       DEF D!WatchEvent, D!ReadFails, D!ReadSucceeds, DiscoveryInv, EtcdTyped
  <2>2. \A k \in callbacks' : k \in callbacks \/ k.list = D!OfType(OwnType)
    BY <1>2 DEF D!WatchEvent
  <2>3. EtcdTyped'
    BY <2>1 DEF DiscoveryInv, EtcdTyped
  <2>4. OwnType \in D!ServiceTypes
    BY <2>1 DEF DiscoveryInv, EventsTyped
  <2>5. EventsTyped'
    BY <2>2, <2>4, ListsTyped DEF DiscoveryInv, EventsTyped
  <2> QED
    BY <2>1, <2>3, <2>5 DEF DiscoveryInv, CacheTyped, RefreshTyped, LookupsTyped
<1>3. ASSUME D!Close PROVE DiscoveryInv'
  <2>1. closed' \in BOOLEAN
    BY <1>3, Zenon DEF D!Close
  <2> QED
    BY <1>3, <2>1 DEF D!Close, DiscoveryInv, EtcdTyped, EventsTyped, CacheTyped, RefreshTyped,
                      LookupsTyped
<1>4. ASSUME NEW k \in callbacks, D!Callback(k) PROVE DiscoveryInv'
  <2>1. /\ D!WriteCache(OwnType, k.list) /\ callbacks' \subseteq callbacks
        /\ UNCHANGED <<registered, changes, errors, events, refresh, lookup, closed>>
    BY <1>4 DEF D!Callback
  <2>2. CacheTyped' /\ DOMAIN cache \subseteq DOMAIN cache'
    BY <2>1, WriteTyped DEF DiscoveryInv, EventsTyped
  <2>3. EtcdTyped' /\ EventsTyped' /\ closed' \in BOOLEAN
    BY <2>1, Zenon DEF DiscoveryInv, EtcdTyped, EventsTyped
  <2>4. RefreshTyped' /\ LookupsTyped'
    BY <2>1, <2>2 DEF DiscoveryInv, RefreshTyped, LookupsTyped
  <2> QED
    BY <2>2, <2>3, <2>4 DEF DiscoveryInv
<1> QED
  BY <1>1, <1>2, <1>3, <1>4

\* The loop goes through the cached types.
LEMMA RefreshKeeps == ASSUME DiscoveryInv, D!RefreshStep PROVE DiscoveryInv'
<1>1. UNCHANGED <<registered, changes, events, callbacks, lookup, closed>>
  BY DEF D!RefreshStep, D!RefreshBegins, D!RefreshReads, D!RefreshWrites
<1>2. errors' \in 0 .. MaxErrors
  BY DiscoveryAssumption
     DEF D!RefreshStep, D!RefreshBegins, D!RefreshReads, D!RefreshWrites, D!ReadFails,
         D!ReadSucceeds, DiscoveryInv, EtcdTyped
<1>3. EtcdTyped' /\ EventsTyped' /\ LookupsTyped' /\ closed' \in BOOLEAN
  BY <1>1, <1>2 DEF DiscoveryInv, EtcdTyped, EventsTyped, LookupsTyped
<1>4. DOMAIN cache \subseteq D!ServiceTypes
  BY DEF DiscoveryInv, CacheTyped, Typed
<1>5. ASSUME D!RefreshBegins PROVE CacheTyped' /\ RefreshTyped'
  BY <1>4, <1>5 DEF D!RefreshBegins, DiscoveryInv, CacheTyped, RefreshTyped
<1>6. ASSUME D!RefreshReads PROVE CacheTyped' /\ RefreshTyped'
  <2>1. cache' = cache /\ RefreshTyped
    BY <1>6 DEF D!RefreshReads, DiscoveryInv
  <2>2. CASE refresh' = D!Waiting
    BY <2>1, <2>2 DEF DiscoveryInv, CacheTyped, RefreshTyped, D!Waiting
  <2>3. CASE \E t \in refresh.todo : refresh' = [refresh EXCEPT !.todo = @ \ {t}]
    BY <1>6, <2>1, <2>3 DEF DiscoveryInv, CacheTyped, RefreshTyped, D!RefreshReads
  <2>4. ASSUME NEW t \in refresh.todo,
               refresh' = [pc |-> "write", todo |-> refresh.todo \ {t}, type |-> t,
                           list |-> D!OfType(t)]
        PROVE  CacheTyped' /\ RefreshTyped'
    <3>1. t \in D!ServiceTypes
      BY <1>4 DEF DiscoveryInv, RefreshTyped
    <3>2. Typed(t, D!OfType(t)) /\ D!OfType(t) \subseteq Services
      BY <3>1, ListsTyped
    <3>3. RefreshTyped'
      BY <2>1, <2>4, <3>1, <3>2 DEF RefreshTyped
    <3> QED
      BY <2>1, <3>3 DEF DiscoveryInv, CacheTyped
  <2> QED
    BY <1>6, <2>2, <2>3, <2>4 DEF D!RefreshReads
<1>7. ASSUME D!RefreshWrites PROVE CacheTyped' /\ RefreshTyped'
  <2>1. /\ refresh.pc = "write" /\ D!WriteCache(refresh.type, refresh.list)
        /\ refresh' = [refresh EXCEPT !.pc = "read"]
    BY <1>7 DEF D!RefreshWrites
  <2>2. CacheTyped' /\ DOMAIN cache \subseteq DOMAIN cache'
    BY <2>1, WriteTyped DEF DiscoveryInv, RefreshTyped
  <2> QED
    BY <2>1, <2>2 DEF DiscoveryInv, RefreshTyped
<1> QED
  BY <1>3, <1>5, <1>6, <1>7 DEF D!RefreshStep, DiscoveryInv

\* A lookup of what is not cached.
LEMMA LookupKeeps ==
    ASSUME DiscoveryInv, NEW l \in Lookups,
           \/ \E t \in D!ServiceTypes : D!GetService(l, t) \/ D!GetAllServices(l, t)
           \/ D!LookupStep(l)
    PROVE  DiscoveryInv'
<1>1. ASSUME NEW t \in D!ServiceTypes, D!Misses(l, t) PROVE DiscoveryInv'
  <2>1. LookupsTyped'
    BY <1>1 DEF D!Misses, DiscoveryInv, LookupsTyped
  <2> QED
    BY <1>1, <2>1 DEF D!Misses, DiscoveryInv, EtcdTyped, EventsTyped, CacheTyped, RefreshTyped
<1>2. ASSUME D!LookupReads(l) PROVE DiscoveryInv'
  <2>1. UNCHANGED <<registered, changes, cache, events, callbacks, refresh, closed>>
    BY <1>2 DEF D!LookupReads
  <2>2. errors' \in 0 .. MaxErrors
    BY <1>2, DiscoveryAssumption
       DEF D!LookupReads, D!ReadFails, D!ReadSucceeds, DiscoveryInv, EtcdTyped
  <2>3. LookupsTyped'
    <3>1. CASE lookup' = [lookup EXCEPT ![l] = D!NoLookup]
      BY <3>1 DEF DiscoveryInv, LookupsTyped, D!NoLookup
    <3>2. CASE lookup' = [lookup EXCEPT ![l].pc = "write",
                                        ![l].list = D!OfType(lookup[l].type)]
      <4>1. lookup[l].type \in D!ServiceTypes
        BY <1>2 DEF D!LookupReads, DiscoveryInv, LookupsTyped
      <4>2. Typed(lookup[l].type, D!OfType(lookup[l].type))
            /\ D!OfType(lookup[l].type) \subseteq Services
        BY <4>1, ListsTyped
      <4>3. /\ \A k \in Lookups \ {l} : lookup'[k] = lookup[k]
            /\ lookup'[l] = [pc |-> "write", type |-> lookup[l].type,
                             list |-> D!OfType(lookup[l].type)]
        <5>1. lookup \in [Lookups -> [pc : {"idle", "read", "write"},
                                      type : D!ServiceTypes \cup {OwnType},
                                      list : SUBSET Services]]
          BY DEF DiscoveryInv, LookupsTyped
        <5>2. lookup' = [lookup EXCEPT ![l] = [lookup[l] EXCEPT !.pc = "write",
                                                 !.list = D!OfType(lookup[l].type)]]
          BY <3>2, <5>1
        <5> QED
          BY <5>1, <5>2
      <4>4. DOMAIN lookup' = Lookups /\ lookup' = [k \in Lookups |-> lookup'[k]]
        BY <3>2 DEF DiscoveryInv, LookupsTyped
      <4> HIDE <3>2
      <4> QED
        BY <4>1, <4>2, <4>3, <4>4 DEF DiscoveryInv, LookupsTyped
    <3> QED
      BY <1>2, <3>1, <3>2 DEF D!LookupReads
  <2> QED
    BY <2>1, <2>2, <2>3 DEF DiscoveryInv, EtcdTyped, EventsTyped, CacheTyped, RefreshTyped
<1>3. ASSUME D!LookupWrites(l) PROVE DiscoveryInv'
  <2>1. /\ lookup[l].pc = "write" /\ D!WriteCache(lookup[l].type, lookup[l].list)
        /\ lookup' = [lookup EXCEPT ![l] = D!NoLookup]
        /\ UNCHANGED <<registered, changes, errors, events, callbacks, refresh, closed>>
    BY <1>3 DEF D!LookupWrites
  <2>2. CacheTyped' /\ DOMAIN cache \subseteq DOMAIN cache'
    BY <2>1, WriteTyped DEF DiscoveryInv, LookupsTyped
  <2>3. LookupsTyped'
    BY <2>1 DEF DiscoveryInv, LookupsTyped, D!NoLookup
  <2> QED
    BY <2>1, <2>2, <2>3 DEF DiscoveryInv, EtcdTyped, EventsTyped, RefreshTyped
<1> QED
  BY <1>1, <1>2, <1>3 DEF D!GetService, D!GetAllServices, D!LookupStep

\* Every step of the discovery keeps it.
LEMMA DiscoveryStep == DiscoveryInv /\ D!DiscoveryNext => DiscoveryInv'
BY WatchKeeps, RefreshKeeps, LookupKeeps DEF D!DiscoveryNext

\* Its state is typed.
LEMMA DiscoveryTyped == DiscoveryInv => D!DiscoveryTypeOK
<1> SUFFICES ASSUME DiscoveryInv PROVE D!DiscoveryTypeOK
  OBVIOUS
<1>1. /\ registered \subseteq Services /\ changes \in 0 .. MaxChanges
      /\ errors \in 0 .. MaxErrors /\ events \in 0 .. MaxChanges
  BY DiscoveryAssumption DEF DiscoveryInv, EtcdTyped
<1>2. /\ DOMAIN cache \subseteq D!ServiceTypes
      /\ \A t \in DOMAIN cache : \A s \in cache[t] : TypeOfService[s] = t
      /\ \A k \in callbacks : \A s \in k.list : TypeOfService[s] = OwnType
  BY DEF DiscoveryInv, CacheTyped, EventsTyped, Typed
<1>3. /\ refresh.pc \in {"wait", "read", "write"} /\ refresh.todo \subseteq DOMAIN cache
      /\ \A l \in Lookups : lookup[l].pc \in {"idle", "read", "write"}
      /\ closed \in BOOLEAN
  BY DEF DiscoveryInv, RefreshTyped, LookupsTyped
<1> QED
  BY <1>1, <1>2, <1>3 DEF D!DiscoveryTypeOK

-----------------------------------------------------------------------------
(* The services together *)

\* A part that rests keeps its invariant.
LEMMA PartsRest ==
    /\ CommandInv /\ UNCHANGED commandVars => CommandInv'
    /\ DiscoveryInv /\ UNCHANGED discoveryVars => DiscoveryInv'
    /\ ActorInv /\ UNCHANGED actorVars => ActorInv'
    /\ SystemInv /\ UNCHANGED systemVars => SystemInv'
    /\ FramingInv /\ UNCHANGED framingVars => FramingInv'
    /\ StartupInv /\ UNCHANGED startupVars => StartupInv'
    /\ AlertInv /\ UNCHANGED alertVars => AlertInv'
<1>1. CommandInv /\ UNCHANGED commandVars => CommandInv'
  <2> SUFFICES ASSUME CommandInv, UNCHANGED commandVars PROVE CommandInv'
    OBVIOUS
  <2>1. WorldTyped'
    BY DEF CommandInv, WorldTyped, commandVars
  <2> QED
    BY <2>1, NodeMoves DEF commandVars
<1>2. DiscoveryInv /\ UNCHANGED discoveryVars => DiscoveryInv'
  BY DEF DiscoveryInv, EtcdTyped, EventsTyped, CacheTyped, RefreshTyped, LookupsTyped, Typed,
         discoveryVars
<1>3. ActorInv /\ UNCHANGED actorVars => ActorInv'
  BY DEF ActorInv, Live, A!ActorTypeOK, A!Loops, actorVars
<1>4. SystemInv /\ UNCHANGED systemVars => SystemInv'
  BY DEF SystemInv, Y!LivesEnd, Y!Registered, systemVars
<1>5. FramingInv /\ UNCHANGED framingVars => FramingInv'
  BY DEF FramingInv, FrameTypes, EndTypes, WasSent, Aligned, Counting, Over, Begun, Rest,
         framingVars
<1>6. StartupInv /\ UNCHANGED startupVars => StartupInv'
  BY DEF StartupInv, ProducersKnown, LoggerKnown, S!StartupTypeOK, startupVars
<1>7. AlertInv /\ UNCHANGED alertVars => AlertInv'
  BY DEF AlertInv, AlertTypes, RulesRemember, Apart, alertVars
<1> QED
  BY <1>1, <1>2, <1>3, <1>4, <1>5, <1>6, <1>7

\* The services share no state: the invariant is that of each of them.
IndInv ==
    /\ CommandInv /\ DiscoveryInv /\ ActorInv /\ SystemInv
    /\ FramingInv /\ StartupInv /\ AlertInv

\* It holds where they begin.
THEOREM InitEstablishes == Init => IndInv
BY CommandInit, DiscoveryInit, ActorInit, SystemInit, FramingInit, StartupInit, AlertInit
   DEF Init, IndInv

\* Every step is one of one service, and keeps it.
THEOREM NextKeeps == IndInv /\ [Next]_vars => IndInv'
<1> SUFFICES ASSUME IndInv, [Next]_vars PROVE IndInv'
  OBVIOUS
<1>1. CommandInv'
  BY CommandStep, PartsRest DEF IndInv, Next, vars
<1>2. DiscoveryInv'
  BY DiscoveryStep, PartsRest DEF IndInv, Next, vars
<1>3. ActorInv'
  BY ActorStep, PartsRest DEF IndInv, Next, vars
<1>4. SystemInv'
  BY SystemStep, PartsRest DEF IndInv, Next, vars
<1>5. FramingInv'
  BY FramingStep, PartsRest DEF IndInv, Next, vars
<1>6. StartupInv'
  BY StartupStep, PartsRest DEF IndInv, Next, vars
<1>7. AlertInv'
  BY AlertStep, PartsRest DEF IndInv, Next, vars
<1> QED
  BY <1>1, <1>2, <1>3, <1>4, <1>5, <1>6, <1>7 DEF IndInv

\* Every behaviour has it.
THEOREM IndInvariance == Spec => []IndInv
<1> QED
  BY InitEstablishes, NextKeeps, PTL DEF Spec

\* The state of every service is typed: what waits in a channel has not been given up,
\* a cached list is of services there are, an actor's mailbox is within its size.
THEOREM TypeCorrect == Spec => []TypeOK
<1>1. IndInv => TypeOK
  BY CommandsAreKept, DiscoveryTyped, FramesAreAligned, AlertsAreApart
     DEF IndInv, TypeOK, ActorInv, StartupInv
<1> QED
  BY <1>1, IndInvariance, PTL

\* No command the center counts as sent is lost on the way to a node that is meant, across
\* failed publishes, redeliveries, crashes and restarts (center_server.go, nsq_core.go,
\* nsq_msg.go), for any nodes, calls and number of producers.
THEOREM CommandsAccounted == Spec => []CommandAccounted
<1>1. IndInv => CommandAccounted
  BY CommandsAreKept DEF IndInv, CommandAccounted
<1> QED
  BY <1>1, IndInvariance, PTL

\* An actor has at most one goroutine and none once stopped (actor.go), and each of its
\* starts in the system is ended by one stop (actor_system.go).
THEOREM ActorsAreQuiet == Spec => []QuietAfterStop
<1>1. IndInv => QuietAfterStop
  BY ActorIsQuiet DEF IndInv, QuietAfterStop, SystemInv
<1> QED
  BY <1>1, IndInvariance, PTL

\* The reader of a connection takes the frames that were written, in order, unless a Read
\* came short (tcp_server.go), however many calls, heartbeats and pushes there are.
THEOREM FramesStayAligned == Spec => []FramesAligned
<1>1. IndInv => FramesAligned
  BY FramesAreAligned DEF IndInv, FramesAligned
<1> QED
  BY <1>1, IndInvariance, PTL

\* A process that is up publishes to a producer it has opened and logs where its
\* configuration says (server.go, nsq_core.go), for any number of addresses.
THEOREM StartsAreSound == Spec => []StartupSound
<1>1. IndInv => StartupSound
  BY StartupIsSound DEF IndInv, StartupSound
<1> QED
  BY <1>1, IndInvariance, PTL

\* Two alerts of a rule are a cooldown apart (monitoring.go), in the history and in what
\* GetRecentAlerts returned, for any rules, cooldowns and times.
THEOREM CooldownsKept == Spec => []CooldownKept
<1>1. IndInv => CooldownKept
  BY AlertsAreApart DEF IndInv, CooldownKept
<1> QED
  BY <1>1, IndInvariance, PTL

=============================================================================
