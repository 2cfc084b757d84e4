------------------------------ MODULE Commands ------------------------------
(***************************************************************************)
(* Operator commands, from the center server to the nodes.  The handlers   *)
(* of src/internal/server/center_server.go read the registry and publish   *)
(* one message for each node they find, or one for all; the NSQ manager    *)
(* (src/internal/mq/nsq_core.go) tries its producers one after the other;  *)
(* every node has a channel of its own that outlives the node, and the     *)
(* handler of system messages (src/internal/mq/nsq_msg.go) passes what is  *)
(* meant for its node to src/internal/server/system_service.go.            *)
(*                                                                         *)
(* The nsqd daemons and go-nsq's consumer are external.  A publish that    *)
(* fails may have arrived; a message is delivered again when its handler   *)
(* returns an error or the node dies before it is acknowledged, and given  *)
(* up after MaxAttempts deliveries.  Every channel is taken to exist from  *)
(* the start: a consumer looks for the nsqds once a minute, and what is    *)
(* published to an nsqd it has never found is not in its channel.  The     *)
(* queue is the cluster with failover that config.yaml describes.          *)
(***************************************************************************)
EXTENDS Naturals, Sequences, FiniteSets

CONSTANTS
    Nodes,
    TypeOf,      \* the type of each node
    Types,       \* the types the center looks through for a node, in order
    TargetLists, \* bound: the lists of types an operator broadcasts to
    Requests,    \* bound: calls of operators, 1 .. their number, one after the other
    Producers,   \* number of producers, one per nsqd
    MaxAttempts, \* deliveries of a message (5 in go-nsq)
    Scripts,     \* bound: the sequences of calls <<whom, command>> they may make
    Gone,        \* nodes that have died for good, their key in etcd for all the run
    MaxRestarts, \* bound: restarts of nodes, which crash as long as they may restart
    MaxFails,    \* bound: publishes that fail
    NoNode, NoCopy

VARIABLES
    entries,   \* etcd: nodes that are registered
    life,      \* each node: down, starting, running or stopping
    restarts,  \* restarts of nodes so far
    stopAsked, \* nodes where HandleShutdown's goroutine has yet to call Stop
    fails,     \* publishes that failed so far
    turn,      \* nm.currentProducer, modulo the number of producers
    request,   \* each call at the center
    channel,   \* NSQ: copies that wait in each node's channel, with their deliveries
    handling,  \* what the consumer of each node works at
    counted,   \* history: [req, nth, target] counted as sent, the nth of the call
    unsent,    \* history: ... whose publish failed with every producer
    executed,  \* history: [req, nth, target, node] whose handler ran without an error
    givenUp    \* history: ... given up after MaxAttempts deliveries

world == <<entries, life, restarts, stopAsked>>
center == <<turn, fails, request, counted, unsent>>
nodes == <<handling, executed, givenUp>>
commandVars == <<world, center, channel, nodes>>

All == "all"
Copies == [req : Requests, nth : Nat, target : Nodes \cup {All}, producer : 0 .. Producers - 1]
Idle == [pc |-> "idle", copy |-> NoCopy, tries |-> 0]
NoPublish == [target |-> NoNode, at |-> 0, left |-> {}]
NoRequest == [pc |-> "idle", call |-> <<"none", "none">>, todo |-> <<>>,
              one |-> NoNode, found |-> {}, nth |-> 0, publish |-> NoPublish]

CommandInit ==
    /\ turn = 0 /\ fails = 0 /\ restarts = 0
    /\ entries = Gone
    /\ life = [n \in Nodes |-> IF n \in Gone THEN "down" ELSE "starting"]
    /\ stopAsked = {}
    /\ request = [r \in Requests |-> NoRequest]
    /\ channel = [n \in Nodes \ Gone |-> [c \in {} |-> 0]]
    /\ handling = [n \in Nodes \ Gone |-> Idle]
    /\ counted = {} /\ unsent = {} /\ executed = {} /\ givenUp = {}

Command(m) == request[m.req].call[2]
Message(c) == [req |-> c.req, nth |-> c.nth, target |-> c.target]
Handled(n, c) == [req |-> c.req, nth |-> c.nth, target |-> c.target, node |-> n]

-----------------------------------------------------------------------------
(* The nodes and etcd (NodeLifecycle has the details).  A node subscribes  *)
(* to its channel before it registers.                                     *)
Register(n) ==
    /\ life[n] = "starting"
    /\ life' = [life EXCEPT ![n] = "running"]
    /\ entries' = entries \cup {n}
    /\ UNCHANGED <<restarts, stopAsked, center, channel, nodes>>

\* The consumer is gone: what it worked at is delivered again.
Requeued(n) ==
    LET h == handling[n] IN
    channel' = IF h.pc = "idle" THEN channel
               ELSE [channel EXCEPT ![n] = [c \in DOMAIN channel[n] \cup {h.copy} |->
                        IF c = h.copy THEN h.tries ELSE channel[n][c]]]

Crash(n) ==
    /\ life[n] # "down" /\ restarts < MaxRestarts
    /\ life' = [life EXCEPT ![n] = "down"]
    /\ stopAsked' = stopAsked \ {n}
    /\ Requeued(n) /\ handling' = [handling EXCEPT ![n] = Idle]
    /\ UNCHANGED <<entries, restarts, center, executed, givenUp>>

Restart(n) ==
    /\ life[n] = "down" /\ restarts < MaxRestarts
    /\ life' = [life EXCEPT ![n] = "starting"] /\ restarts' = restarts + 1
    /\ UNCHANGED <<entries, stopAsked, center, channel, nodes>>

\* The key of a dead node goes with its lease.
LeaseExpires(n) ==
    /\ life[n] = "down" /\ n \in entries
    /\ entries' = entries \ {n}
    /\ UNCHANGED <<life, restarts, stopAsked, center, channel, nodes>>

\* A second after HandleShutdown: Stop, which only a running server obeys.
StopCalled(n) ==
    /\ n \in stopAsked /\ stopAsked' = stopAsked \ {n}
    /\ life' = IF life[n] = "running" THEN [life EXCEPT ![n] = "stopping"] ELSE life
    /\ UNCHANGED <<entries, restarts, center, channel, nodes>>

\* The consumer is closed, the key deleted, and Stop returns.  It cannot while
\* UpdateLoad holds the registry's mutex.
Stopped(n) ==
    /\ life[n] = "stopping" /\ handling[n].pc # "hung"
    /\ life' = [life EXCEPT ![n] = "down"]
    /\ entries' = entries \ {n}
    /\ stopAsked' = stopAsked \ {n}
    /\ Requeued(n) /\ handling' = [handling EXCEPT ![n] = Idle]
    /\ UNCHANGED <<restarts, center, executed, givenUp>>

-----------------------------------------------------------------------------
(* The center: BroadcastMessage, ShutdownService, RestartService *)

At(r, pc) == request[r].pc = pc
Called(r, call) ==
    /\ At(r, "idle") /\ \A q \in 1 .. r - 1 : At(q, "done")
    /\ \E script \in Scripts :
          r <= Len(script) /\ [q \in 1 .. r |-> IF q = r THEN call ELSE request[q].call]
                                = SubSeq(script, 1, r)
Goes(r, rec) == request' = [request EXCEPT ![r] = rec]

\* publishWithLoadBalancing takes the next producer.
Publishing(target) ==
    [target |-> target, at |-> turn, left |-> (0 .. Producers - 1) \ {turn}]

TakesTurn == turn' = (turn + 1) % Producers

\* No target types: one message for everybody.
BroadcastAll(r, command) ==
    /\ Called(r, <<"all", command>>)
    /\ Goes(r, [NoRequest EXCEPT !.pc = "work", !.call = <<"all", command>>, !.nth = 1,
                                 !.publish = Publishing(All)])
    /\ TakesTurn
    /\ counted' = counted \cup {[req |-> r, nth |-> 1, target |-> All]}
    /\ UNCHANGED <<world, fails, unsent, channel, nodes>>

Asks(r, call, types, one) ==
    /\ Called(r, call)
    /\ Goes(r, [NoRequest EXCEPT !.pc = "work", !.call = call, !.todo = types, !.one = one])
    /\ UNCHANGED <<world, turn, fails, counted, unsent, channel, nodes>>

\* What they find is counted and listed in the reply, nothing is sent.
GetServiceList(r) == Asks(r, <<"list", "none">>, Types, NoNode)
GetClusterStatus(r) == Asks(r, <<"status", "none">>, Types, NoNode)

\* The operator's types, in the operator's order: one that is listed twice is looked
\* through twice, and its nodes get the message twice.
BroadcastMessage(r, command) ==
    \E types \in TargetLists : Asks(r, <<"types", command>>, types, NoNode)

\* By node, searched in every type, or by type.
AsksService(r, command) ==
    \E n \in Nodes :
        \/ Asks(r, <<"node", command>>, Types, n)
        \/ Asks(r, <<"type", command>>, <<TypeOf[n]>>, NoNode)

ShutdownService(r) == AsksService(r, "shutdown")
RestartService(r) == AsksService(r, "restart")

Broadcasts(q) == q.call[1] \in {"all", "types"}
Lists(q) == q.call[1] \in {"list", "status"}
Done(q) == [NoRequest EXCEPT !.pc = "done", !.call = q.call, !.nth = q.nth]

\* registry.GetServices of the next type.  A broadcast has first sent what it found.
\* An error skips the type, and ends a request by type.
GetServices(r) ==
    LET q == request[r]
        found == {n \in entries : TypeOf[n] = Head(q.todo) /\ q.one \in {n, NoNode} /\ ~Lists(q)}
    IN
    /\ At(r, "work") /\ q.publish = NoPublish /\ q.todo # <<>>
    /\ Broadcasts(q) => q.found = {}
    /\ \/ Goes(r, [q EXCEPT !.todo = Tail(@), !.found = @ \cup found])
       \/ Goes(r, IF q.call[1] = "type" THEN Done(q) ELSE [q EXCEPT !.todo = Tail(@)])
    /\ UNCHANGED <<world, turn, fails, counted, unsent, channel, nodes>>

\* SendToNode for a service found, unless its UpdateTime is too old by now: 60
\* seconds for a broadcast, 120 for the others.  It is that of the node's Register,
\* for UpdateLoad never gets to write another, so every entry grows too old.
SendToNode(r) ==
    LET q == request[r] IN
    /\ At(r, "work") /\ q.publish = NoPublish
    /\ Broadcasts(q) \/ q.todo = <<>>
    /\ \E n \in q.found :
          \/ /\ Goes(r, [q EXCEPT !.found = @ \ {n}, !.nth = @ + 1, !.publish = Publishing(n)])
             /\ counted' = counted \cup {[req |-> r, nth |-> q.nth + 1, target |-> n]}
             /\ TakesTurn
          \/ /\ Goes(r, [q EXCEPT !.found = @ \ {n}])
             /\ UNCHANGED <<turn, counted>>
    /\ UNCHANGED <<world, fails, unsent, channel, nodes>>

\* The nsqd of producer p puts a copy into every node's channel.  The channels of
\* nodes that are gone are not followed.
Accept(r, target, p) ==
    LET new == [req |-> r, nth |-> request[r].nth, target |-> target, producer |-> p] IN
    channel' = [n \in DOMAIN channel |-> [c \in DOMAIN channel[n] \cup {new} |->
                                            IF c = new THEN 0 ELSE channel[n][c]]]

\* producer.Publish, and on an error the next producer in the list; the caller
\* ignores the error of the last.
Publish(r) ==
    LET q == request[r]
        p == q.publish
    IN
    /\ At(r, "work") /\ p # NoPublish
    /\ \/ /\ Accept(r, p.target, p.at)
          /\ Goes(r, [q EXCEPT !.publish = NoPublish])
          /\ UNCHANGED <<fails, unsent>>
       \/ /\ fails < MaxFails /\ fails' = fails + 1
          /\ Accept(r, p.target, p.at) \/ UNCHANGED channel
          /\ IF p.left = {}
             THEN /\ Goes(r, [q EXCEPT !.publish = NoPublish])
                  /\ unsent' = unsent \cup {[req |-> r, nth |-> q.nth, target |-> p.target]}
             ELSE /\ \E next \in p.left :
                        /\ \A other \in p.left : next <= other
                        /\ Goes(r, [q EXCEPT !.publish.at = next, !.publish.left = @ \ {next}])
                  /\ UNCHANGED unsent
    /\ UNCHANGED <<world, turn, counted, nodes>>

\* The reply, an error if nothing was found.
Reply(r) ==
    LET q == request[r] IN
    /\ At(r, "work") /\ q.publish = NoPublish /\ q.todo = <<>> /\ q.found = {}
    /\ Goes(r, Done(q))
    /\ UNCHANGED <<world, turn, fails, counted, unsent, channel, nodes>>

-----------------------------------------------------------------------------
(* A node's consumer, one message at a time *)

Deliver(n, c) ==
    /\ life[n] # "down" /\ handling[n].pc = "idle"
    /\ c \in DOMAIN channel[n]
    /\ channel' = [channel EXCEPT ![n] = [d \in DOMAIN @ \ {c} |-> @[d]]]
    /\ IF channel[n][c] < MaxAttempts
       THEN /\ handling' = [handling EXCEPT ![n] = [pc |-> "handle", copy |-> c, tries |-> channel[n][c] + 1]]
            /\ UNCHANGED givenUp
       ELSE /\ givenUp' = givenUp \cup {Handled(n, c)} /\ UNCHANGED handling
    /\ UNCHANGED <<world, center, executed>>

\* RegisterCommonServices
handlers == {"reload_config", "update_load", "shutdown", "hot_update"}

\* Mutation: a message without a target is taken for another node's.
AddressedByName(n, c) == c.target = n

Addressed(n, c) == c.target \in {All, n}

\* What becomes of a message whose command has a handler.  UpdateLoad fails on a node
\* that is not registered and never returns on one that is; the others succeed, and
\* only HandleShutdown does anything.
Outcome(n, command) ==
    IF command # "update_load" THEN "ack"
    ELSE IF life[n] = "starting" THEN "requeue" ELSE "hung"

\* The handler goes on to pc; done: it ran without an error.
Handling(n, pc, done) ==
    /\ handling' = [handling EXCEPT ![n].pc = pc]
    /\ executed' = IF done THEN executed \cup {Handled(n, handling[n].copy)} ELSE executed

\* Mutation: the error of the command's handler is not returned.
HandleMessageSwallows(n) ==
    LET c == handling[n].copy
        command == Command(c)
    IN
    /\ handling[n].pc = "handle"
    /\ IF ~Addressed(n, c) \/ command \notin handlers THEN Handling(n, "ack", FALSE)
       ELSE Handling(n, IF Outcome(n, command) = "requeue" THEN "ack" ELSE Outcome(n, command),
                     Outcome(n, command) = "ack")
    /\ stopAsked' = IF Addressed(n, c) /\ command = "shutdown" THEN stopAsked \cup {n} ELSE stopAsked
    /\ UNCHANGED <<entries, life, restarts, center, channel, givenUp>>

\* SystemMessageHandler.HandleMessage.  A message for another node or without a
\* handler is done with.
HandleMessage(n) ==
    LET c == handling[n].copy
        command == Command(c)
    IN
    /\ handling[n].pc = "handle"
    /\ IF ~Addressed(n, c) \/ command \notin handlers THEN Handling(n, "ack", FALSE)
       ELSE Handling(n, Outcome(n, command), Outcome(n, command) = "ack")
    /\ stopAsked' = IF Addressed(n, c) /\ command = "shutdown" THEN stopAsked \cup {n} ELSE stopAsked
    /\ UNCHANGED <<entries, life, restarts, center, channel, givenUp>>

\* FIN or REQ, as the handler returned.
Respond(n) ==
    /\ handling[n].pc \in {"ack", "requeue"}
    /\ IF handling[n].pc = "ack" THEN UNCHANGED channel ELSE Requeued(n)
    /\ handling' = [handling EXCEPT ![n] = Idle]
    /\ UNCHANGED <<world, center, executed, givenUp>>

-----------------------------------------------------------------------------
CenterStep(r) == GetServices(r) \/ SendToNode(r) \/ Publish(r) \/ Reply(r)

NodeStep(n) == StopCalled(n) \/ Stopped(n)

ConsumerStep(n) ==
    (\E c \in DOMAIN channel[n] : Deliver(n, c)) \/ HandleMessage(n) \/ Respond(n)

CommandNext ==
    \/ \E r \in Requests :
          \/ \E command \in {"shutdown", "update_load"} :
                BroadcastAll(r, command) \/ BroadcastMessage(r, command)
          \/ ShutdownService(r) \/ RestartService(r)
          \/ GetServiceList(r) \/ GetClusterStatus(r) \/ CenterStep(r)
    \/ \E n \in Nodes \ Gone :
          \/ Register(n) \/ Crash(n) \/ Restart(n) \/ LeaseExpires(n)
          \/ NodeStep(n) \/ ConsumerStep(n)

-----------------------------------------------------------------------------
(* Properties *)

\* What is through is neither waiting nor at work; a delivery is counted.
CommandTypeOK ==
    /\ entries \subseteq Nodes
    /\ life \in [Nodes -> {"down", "starting", "running", "stopping"}]
    /\ restarts \in 0 .. MaxRestarts
    /\ stopAsked \subseteq {n \in Nodes : life[n] # "down"}
    /\ turn \in 0 .. Producers - 1 /\ fails \in 0 .. MaxFails
    /\ \A r \in Requests :
          request[r].pc \in {"idle", "work", "done"} /\ request[r].publish.left \subseteq 0 .. Producers - 1
    /\ \A n \in Nodes \ Gone :
          /\ DOMAIN channel[n] \subseteq Copies
          /\ \A c \in DOMAIN channel[n] : channel[n][c] \in 0 .. MaxAttempts
          /\ handling[n].pc \in {"idle", "handle", "ack", "requeue", "hung"}
          /\ handling[n].pc # "idle" =>
                handling[n].copy \in Copies \ DOMAIN channel[n] /\ handling[n].tries \in 1 .. MaxAttempts
          /\ life[n] = "down" => handling[n].pc = "idle"

BeingPublished(m) ==
    request[m.req].publish.target = m.target /\ request[m.req].nth = m.nth

AtNode(n, m) == {c \in DOMAIN channel[n] \cup {handling[n].copy} : c # NoCopy /\ Message(c) = m}

\* A command that the center counts as sent, each time it counts it, and that nodes
\* know, is never lost on the way to a node it is meant for: it is still being
\* published, or no producer would take it, or it waits in the node's channel or is at
\* work there, across crashes and restarts, or it was executed, or given up after
\* MaxAttempts deliveries.
CommandAccounted ==
    \A m \in counted, n \in Nodes \ Gone :
        /\ Command(m) \in handlers
        /\ m.target \in {All, n}
        => \/ BeingPublished(m)
           \/ m \in unsent
           \/ AtNode(n, m) # {}
           \/ Handled(n, m) \in executed \cup givenUp

\* A shutdown that waits in the channel of a running node with a delivery left ends
\* this life of the node, unless its consumer hangs in UpdateLoad: an earlier message
\* whose handler fails is not tried for ever.  One whose MaxAttempts deliveries all
\* ended with the node's death is given up, and the node goes on.
ShutdownArrives ==
    \A n \in Nodes \ Gone :
        (life[n] = "running" /\ \E c \in DOMAIN channel[n] :
             /\ c.target \in {All, n} /\ Command(c) = "shutdown"
             /\ channel[n][c] < MaxAttempts)
        ~> (life[n] # "running" \/ handling[n].pc = "hung")

=============================================================================
