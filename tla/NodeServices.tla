----------------------------- MODULE NodeServices -----------------------------
(***************************************************************************)
(* The services around the connections, the rooms and the sessions, which  *)
(* share no state with each other: operator commands, the cache of         *)
(* discovered services, an actor, the system of actors, the frames of a    *)
(* connection, the start of a process, the alerts.  Each behaviour is one  *)
(* of one of them, chosen at first by part, while the others rest where    *)
(* they begin.                                                             *)
(***************************************************************************)
EXTENDS Integers, Sequences, FiniteSets

CONSTANTS
    Nodes, TypeOf, Types, TargetLists, Requests, Producers, MaxAttempts, Scripts, Gone,
    MaxRestarts, MaxFails, NoNode, NoCopy,                                  \* Commands
    Services, TypeOfService, OwnType, Lookups, MaxChanges, MaxErrors,       \* Discovery
    Callers, MaxStarts, MailboxSize, NoCaller,                              \* BaseActor
    Objects, IdOf, Tellers, MaxLives, NoObject,                             \* ActorSystem
    Heartbeats, MaxPushes,                                                  \* Framing
    MaxAddresses, NoProducer,                                               \* Startup
    Cooldowns, MaxRules, MaxTicks, Limit, Never                             \* Alerts

\* A key of a dead node is one of a node.
ASSUME CommandsAssumption ==
    /\ Gone \subseteq Nodes /\ TypeOf \in [Nodes -> STRING]
    /\ Types \in Seq(STRING) /\ TargetLists \subseteq Seq(STRING)
    /\ Requests \subseteq Nat /\ Producers \in Nat \ {0} /\ MaxAttempts \in Nat
    /\ MaxRestarts \in Nat /\ MaxFails \in Nat
    /\ NoNode \notin Nodes \cup {"all"} /\ "all" \notin Nodes
    /\ NoCopy \notin [req : Requests, nth : Nat, target : Nodes \cup {"all"},
                      producer : 0 .. Producers - 1]

ASSUME DiscoveryAssumption == MaxChanges \in Nat /\ MaxErrors \in Nat

ASSUME ActorAssumption ==
    MaxStarts \in Nat /\ MailboxSize \in Nat /\ NoCaller \notin Callers

ASSUME FramingAssumption == Heartbeats \in Nat /\ MaxPushes \in Nat

ASSUME StartupAssumption == MaxAddresses \in Nat

\* The zero time of a rule that has raised no alert is no time of the clock.
ASSUME AlertAssumption ==
    /\ Cooldowns \subseteq Nat /\ MaxTicks \in Nat /\ Limit \in Nat
    /\ Never \notin Nat

VARIABLES
    part,
    entries, life, restarts, stopAsked, fails, turn, request, channel, handling,
    counted, unsent, executed, givenUp,
    registered, changes, errors, cache, events, callbacks, refresh, lookup, closed,
    running, cancelled, mailbox, writer, readers, caller, loop, starts,
    stream, sent, taken, short, want, client, server, pushes,
    config, pc, log, opened, at, list, producer,
    actors, visiting, busy, teller, startedN, stoppedN,
    clock, tick, rules, history, recent, stopped

C == INSTANCE Commands
D == INSTANCE Discovery
A == INSTANCE BaseActor
Y == INSTANCE ActorSystem
F == INSTANCE Framing
S == INSTANCE Startup
M == INSTANCE Alerts

commandVars == <<entries, life, restarts, stopAsked, fails, turn, request, channel, handling,
                 counted, unsent, executed, givenUp>>
discoveryVars == <<registered, changes, errors, cache, events, callbacks, refresh, lookup, closed>>
actorVars == <<running, cancelled, mailbox, writer, readers, caller, loop, starts>>
systemVars == <<actors, visiting, busy, teller, startedN, stoppedN>>
framingVars == <<stream, sent, taken, short, want, client, server, pushes>>
startupVars == <<config, pc, log, opened, at, list, producer>>
alertVars == <<clock, tick, rules, history, recent, stopped>>
vars == <<part, commandVars, discoveryVars, actorVars, systemVars, framingVars, startupVars,
          alertVars>>

-----------------------------------------------------------------------------
\* Where a part may begin in several states, the others rest in one of them.
Init ==
    /\ part \in {"commands", "discovery", "actor", "system", "framing", "startup", "alerts"}
    /\ C!CommandInit /\ D!DiscoveryInit /\ A!ActorInit /\ Y!SystemInit
    /\ F!FramingInit /\ S!StartupInit /\ M!AlertInit
    /\ part # "discovery" => registered = {}
    /\ part # "startup" => config = [type |-> "other", valid |-> FALSE, redis |-> "single",
                                     nsq |-> "single", failover |-> FALSE, addresses |-> 1]

Next ==
    \/ /\ part = "commands" /\ C!CommandNext
       /\ UNCHANGED <<part, discoveryVars, actorVars, systemVars,
                      framingVars, startupVars, alertVars>>
    \/ /\ part = "discovery" /\ D!DiscoveryNext
       /\ UNCHANGED <<part, commandVars, actorVars, systemVars,
                      framingVars, startupVars, alertVars>>
    \/ /\ part = "actor" /\ A!ActorNext
       /\ UNCHANGED <<part, commandVars, discoveryVars, systemVars,
                      framingVars, startupVars, alertVars>>
    \/ /\ part = "system" /\ Y!SystemNext
       /\ UNCHANGED <<part, commandVars, discoveryVars, actorVars,
                      framingVars, startupVars, alertVars>>
    \/ /\ part = "framing" /\ F!FramingNext
       /\ UNCHANGED <<part, commandVars, discoveryVars, actorVars,
                      systemVars, startupVars, alertVars>>
    \/ /\ part = "startup" /\ S!StartupNext
       /\ UNCHANGED <<part, commandVars, discoveryVars, actorVars,
                      systemVars, framingVars, alertVars>>
    \/ /\ part = "alerts" /\ M!AlertNext
       /\ UNCHANGED <<part, commandVars, discoveryVars, actorVars,
                      systemVars, framingVars, startupVars>>

\* Nodes: the goroutine that calls Stop a second later, and the consumer.
\* Discovery: the loop, a lookup that has begun, and some callback of those there are.
\* Actor: who can run does.  Framing: both ends read and write, deadlines pass.
Fairness ==
    /\ \A n \in Nodes \ Gone : WF_commandVars(part = "commands" /\ C!StopCalled(n))
    /\ \A n \in Nodes \ Gone : WF_commandVars(part = "commands" /\ C!ConsumerStep(n))
    /\ WF_discoveryVars(part = "discovery" /\ D!RefreshStep)
    /\ \A l \in Lookups : WF_discoveryVars(part = "discovery" /\ D!LookupStep(l))
    /\ WF_discoveryVars(part = "discovery" /\ \E k \in callbacks : D!Callback(k))
    /\ \A who \in Callers : WF_actorVars(part = "actor" /\ A!CallStep(who))
    /\ \A run \in A!Loops : WF_actorVars(part = "actor" /\ A!LoopStep(run))
    /\ WF_framingVars(part = "framing" /\ F!ClientStep)
    /\ WF_framingVars(part = "framing" /\ F!ServerStep)
    /\ WF_framingVars(part = "framing" /\ F!ReadFails)

Spec == Init /\ [][Next]_vars /\ Fairness

-----------------------------------------------------------------------------
(* The properties of the parts *)

\* Each part's variables keep their types.
TypeOK ==
    /\ C!CommandTypeOK /\ D!DiscoveryTypeOK /\ A!ActorTypeOK
    /\ F!FramingTypeOK /\ S!StartupTypeOK /\ M!AlertTypeOK

\* No command counted as sent is lost on the way to a node (center_server.go, nsq_core.go).
CommandAccounted == C!CommandAccounted

\* A shutdown that waits for a running node, with a delivery left, ends this life of it
\* (system_service.go).
ShutdownArrives == C!ShutdownArrives

\* Cached service lists end up as what etcd holds (etcd.go).
CacheCatchesUp == part = "discovery" => D!CacheCatchesUp

\* One goroutine of an actor at most, and none once it is stopped (actor.go); each
\* start of an actor is ended by one stop (actor_system.go).
QuietAfterStop == A!QuietAfterStop /\ Y!LivesEnd

\* Stop returns unless the actor's own OnReceive waits for the mutex (actor.go).
ActorStopReturns == A!ActorStopReturns

\* Frames stay aligned as long as no Read comes short and no Write is cut (tcp_server.go).
FramesAligned == F!FramesAligned

\* Client and server do not wait for each other for ever (tcp_server.go).
ClientEnds == part = "framing" => F!ClientEnds

\* A server that comes up has its producers and its logger (server.go).
StartupSound == S!StartupSound

\* No alert before its rule's cooldown is over (monitoring.go).
CooldownKept == M!CooldownKept

=============================================================================
