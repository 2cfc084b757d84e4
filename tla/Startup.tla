-------------------------------- MODULE Startup --------------------------------
(***************************************************************************)
(* How a process becomes a server: NewServer and NewBaseServer             *)
(* (src/internal/server/server.go), the constructors of the four kinds of  *)
(* server, and the set-up of what they stand on: the global logger, Redis  *)
(* (src/internal/cache/redis.go), MongoDB                                  *)
(* (src/internal/database/mongodb/manager.go), the NSQ producers and       *)
(* consumer (src/internal/mq/nsq_core.go) and etcd                         *)
(* (src/internal/discovery/etcd.go).  Each step connects to something that *)
(* may not be there; NodeLifecycle goes on from the server made here.      *)
(***************************************************************************)
EXTENDS Naturals, Sequences, SequencesExt

CONSTANTS
    MaxAddresses, \* bound: nsqd addresses in the configuration of a cluster
    NoProducer

VARIABLES
    config,   \* what this process was configured to be
    pc,       \* the step it is at, up, exited (logger.Fatal) or panicked
    log,      \* the global logger: none, default, configured, or that on stdout
    opened,   \* nsqd addresses with a producer that has not been stopped
    at,       \* position in the list of addresses
    list,     \* nm.producers, by address
    producer  \* nm.producer

startupVars == <<config, pc, log, opened, at, list, producer>>

NodeTypes == {"login", "gateway", "center", "lobby"}

\* valid: the file can be read, and the number in the node's name has a port there.
Configs ==
    [type : NodeTypes \cup {"other"}, valid : BOOLEAN,
     redis : {"single", "cluster", "sentinel"},
     nsq : {"single", "cluster"}, failover : BOOLEAN, addresses : 0 .. MaxAddresses]

StartupInit ==
    /\ config \in {c \in Configs : c.nsq = "single" => c.addresses = 1}
    /\ pc = "new"
    /\ log = "none"
    /\ opened = {} /\ at = 1 /\ list = <<>> /\ producer = NoProducer

Step(from, to) == pc = from /\ pc' = to

nsqVars == <<opened, at, list, producer>>

\* The first use of the global logger makes it; InitGlobalLogger after that does nothing.
Logs(kind) == log' = IF log = "none" THEN kind ELSE log

Fatal(from) == Step(from, "exited") /\ Logs("default")

-----------------------------------------------------------------------------
\* NewServer and loadConfig, which say nothing before the logger is made.
LoadConfig ==
    /\ IF config.type \in NodeTypes
       THEN \/ config.valid /\ Step("new", "logger") /\ UNCHANGED log
            \/ Fatal("new")
       ELSE Fatal("new")
    /\ UNCHANGED <<config, nsqVars>>

\* logger.InitGlobalLogger.  NewLogger takes level, format and options from the
\* configuration; where its file cannot be opened, it writes to stdout.
InitLogger ==
    /\ Step("logger", "redis") /\ (Logs("configured") \/ Logs("stdout"))
    /\ UNCHANGED <<config, nsqVars>>

\* The clients for a cluster and for sentinels are not made yet: the Ping is called
\* on no client.
NewRedisManager ==
    /\ IF config.redis = "single"
       THEN (Step("redis", "mongo") /\ UNCHANGED log) \/ Fatal("redis")
       ELSE Step("redis", "panicked") /\ UNCHANGED log
    /\ UNCHANGED <<config, nsqVars>>

\* The options of each mode, Connect and Ping.
NewMongoManager ==
    /\ (Step("mongo", "nsq") /\ UNCHANGED log) \/ Fatal("mongo")
    /\ UNCHANGED <<config, nsqVars>>

-----------------------------------------------------------------------------
(* NewNSQManager *)

InUse(p) ==
    /\ opened' = opened \cup {p}
    /\ list' = Append(list, p)

\* Mutation: the list keeps the producers that have been stopped.
CloseProducersOnly ==
    /\ opened' = opened \ ToSet(list)
    /\ UNCHANGED list

\* closeProducers
CloseProducers ==
    /\ opened' = opened \ ToSet(list)
    /\ list' = <<>>

\* initSingleMode: without an answer to the Ping the producer is stopped.
InitSingle ==
    /\ config.nsq = "single"
    /\ \/ Step("nsq", "etcd") /\ InUse(1) /\ producer' = 1 /\ UNCHANGED <<config, log, at>>
       \/ Fatal("nsq") /\ UNCHANGED <<config, nsqVars>>

InCluster == config.nsq = "cluster" /\ at <= config.addresses

\* initClusterMode, for the next address: a producer that answers ...
Connected ==
    /\ InCluster /\ Step("nsq", "nsq")
    /\ InUse(at) /\ at' = at + 1
    /\ UNCHANGED <<config, log, producer>>

\* ... one that does not, which is stopped and passed over with failover ...
Unavailable ==
    /\ InCluster /\ Step("nsq", "nsq") /\ config.failover
    /\ at' = at + 1
    /\ UNCHANGED <<config, log, opened, list, producer>>

\* ... and ends it without, as does an address that is not valid.
NoCluster ==
    /\ InCluster /\ Fatal("nsq")
    /\ CloseProducers
    /\ UNCHANGED <<config, at, producer>>

\* Mutation: a cluster of which no nsqd answers is taken.
EmptyCluster ==
    /\ config.nsq = "cluster" /\ at > config.addresses
    /\ Step("nsq", "etcd") /\ UNCHANGED log
    /\ producer' = IF list = <<>> THEN NoProducer ELSE list[1]
    /\ UNCHANGED <<config, opened, at, list>>

\* At least one must be there, and the first is the main producer.
InitCluster ==
    /\ config.nsq = "cluster" /\ at > config.addresses
    /\ IF list = <<>>
       THEN Fatal("nsq") /\ UNCHANGED producer
       ELSE Step("nsq", "etcd") /\ producer' = list[1] /\ UNCHANGED log
    /\ UNCHANGED <<config, opened, at, list>>

-----------------------------------------------------------------------------
\* TLS files, the client and the lease.
NewETCDRegistry ==
    /\ (Step("etcd", "common") /\ UNCHANGED log) \/ Fatal("etcd")
    /\ UNCHANGED <<config, nsqVars>>

\* A lookupd that cannot be reached, of those a cluster has, is passed over with
\* failover.
SubscribeMayFail == config.nsq = "single" \/ ~config.failover

RegisterCommonServices ==
    /\ \/ Step("common", "services") /\ UNCHANGED log
       \/ SubscribeMayFail /\ Fatal("common")
    /\ UNCHANGED <<config, nsqVars>>

\* The actors of a gateway or login server start without an error.
NewLoginServer == config.type = "login" /\ Step("services", "up")
NewLobbyServer == config.type = "lobby" /\ Step("services", "up")
NewCenterServer == config.type = "center" /\ Step("services", "up")

NewServices ==
    /\ NewLoginServer \/ NewLobbyServer \/ NewCenterServer
    /\ UNCHANGED <<config, log, nsqVars>>

\* A gateway must find a login service in etcd, which it will use from then on.
NewGatewayServer ==
    /\ config.type = "gateway"
    /\ (Step("services", "up") /\ UNCHANGED log) \/ Fatal("services")
    /\ UNCHANGED <<config, nsqVars>>

InitNSQ == InitSingle \/ Connected \/ Unavailable \/ NoCluster \/ InitCluster

StartupNext ==
    \/ LoadConfig \/ InitLogger \/ NewRedisManager \/ NewMongoManager \/ InitNSQ
    \/ NewETCDRegistry \/ RegisterCommonServices \/ NewServices \/ NewGatewayServer

-----------------------------------------------------------------------------
(* Properties *)

StartupTypeOK ==
    /\ config \in Configs
    /\ pc \in {"new", "logger", "redis", "mongo", "nsq", "etcd", "common", "services",
               "up", "exited", "panicked"}
    /\ log \in {"none", "default", "configured", "stdout"}
    /\ opened \subseteq 1 .. MaxAddresses + 1
    /\ at \in 1 .. MaxAddresses + 1
    /\ ToSet(list) \subseteq opened
    /\ producer \in opened \cup {NoProducer}

\* Whichever nsqds answer and whatever is missing, a server that comes up has a
\* producer to publish with, among those its load balancing goes round, each of them
\* once, and keeps no other open; and it logs as configured, if not to its file, for
\* nothing has made the global logger before the configuration was known.
StartupSound ==
    pc = "up" =>
        /\ producer \in ToSet(list) /\ ToSet(list) = opened /\ IsInjective(list)
        /\ log \in {"configured", "stdout"}

=============================================================================
