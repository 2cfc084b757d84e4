---------------------------- MODULE CommandsProofs ----------------------------
(***************************************************************************)
(* No operator command is lost on the way from the center to a node        *)
(* (Commands), for any nodes, calls, producers and bounds: the part of     *)
(* the inductive invariant of NodeServices that is about commands.         *)
(***************************************************************************)
EXTENDS NodeServices, TLAPS, SequenceTheorems

Consumers == Nodes \ Gone
Targets == Nodes \cup {C!All}
Turns == 0 .. Producers - 1

Calls == {"all", "types", "node", "type", "list", "status", "none"}
            \X {"shutdown", "update_load", "restart", "none"}

RequestRecords ==
    [pc : {"idle", "work", "done"}, call : Calls, todo : Seq(STRING),
     one : Nodes \cup {NoNode}, found : SUBSET Nodes, nth : Nat,
     publish : [target : Targets \cup {NoNode}, at : Turns, left : SUBSET Turns]]

HandlingRecords ==
    [pc : {"idle", "handle", "ack", "requeue", "hung"}, copy : C!Copies \cup {NoCopy},
     tries : 0 .. MaxAttempts]

-----------------------------------------------------------------------------
(* The invariant *)

WorldTyped ==
    /\ entries \subseteq Nodes
    /\ life \in [Nodes -> {"down", "starting", "running", "stopping"}]
    /\ restarts \in 0 .. MaxRestarts /\ fails \in 0 .. MaxFails /\ turn \in Turns
    /\ stopAsked \subseteq {n \in Nodes : life[n] # "down"}

CenterTyped ==
    /\ request \in [Requests -> RequestRecords]
    /\ counted \subseteq [req : Requests, nth : Nat, target : Targets]

\* The messages that a request counts are numbered, and those to come are not counted.
Numbered(q, r, tally) ==
    \A k \in Nat, t \in Targets : [req |-> r, nth |-> k, target |-> t] \in tally => k <= q.nth

\* A message that is being published is counted, and goes to another producer next.
Publishes(q, r) ==
    \/ q.publish = C!NoPublish
    \/ /\ [req |-> r, nth |-> q.nth, target |-> q.publish.target] \in counted
       /\ q.publish.at \notin q.publish.left

RequestsSound ==
    \A r \in Requests :
        /\ Numbered(request[r], r, counted) /\ Publishes(request[r], r)
        /\ request[r].pc = "idle" =>
              \A k \in Nat, t \in Targets : [req |-> r, nth |-> k, target |-> t] \notin counted

QueuesTyped ==
    /\ DOMAIN channel = Consumers /\ handling \in [Consumers -> HandlingRecords]
    /\ \A n \in Consumers :
          /\ DOMAIN channel[n] \subseteq C!Copies
          /\ \A c \in DOMAIN channel[n] : channel[n][c] \in 0 .. MaxAttempts

\* A copy at work has left the channel, and none is at work at a node that is down.
WorkTyped(n) ==
    /\ handling[n].pc = "idle" => handling[n].copy = NoCopy
    /\ handling[n].pc # "idle" =>
          /\ handling[n].copy \in C!Copies \ DOMAIN channel[n]
          /\ handling[n].tries \in 1 .. MaxAttempts
    /\ life[n] = "down" => handling[n].pc = "idle"

\* The copies that wait or are at work at a node.
CopiesAt(n) == DOMAIN channel[n] \cup ({handling[n].copy} \ {NoCopy})

\* A copy is one of a counted message, and of no producer that has still to be tried.
Known(c) ==
    /\ C!Message(c) \in counted
    /\ C!BeingPublished(c) =>
          c.producer \notin request[c.req].publish.left \cup {request[c.req].publish.at}

\* A message for this node is acknowledged when its handler has run.
AckMeansDone(n) ==
    LET c == handling[n].copy IN
    handling[n].pc = "ack" /\ C!Addressed(n, c) /\ C!Command(c) \in C!handlers =>
        C!Handled(n, c) \in executed

\* What has become of a message for node n.
Reached(m, n) ==
    \/ C!BeingPublished(m)
    \/ m \in unsent
    \/ \E c \in CopiesAt(n) : C!Message(c) = m
    \/ C!Handled(n, m) \in executed \cup givenUp

Meant(m, n) == C!Command(m) \in C!handlers /\ m.target \in {C!All, n}

NodesSound ==
    \A n \in Consumers :
        /\ WorkTyped(n) /\ AckMeansDone(n)
        /\ \A c \in CopiesAt(n) : Known(c)
        /\ \A m \in counted : Meant(m, n) => Reached(m, n)

CommandInv == WorldTyped /\ CenterTyped /\ RequestsSound /\ QueuesTyped /\ NodesSound

-----------------------------------------------------------------------------
(* The start *)

\* What stands for no node and no copy is none.
LEMMA NamesDiffer ==
    /\ NoNode \notin Targets /\ NoCopy \notin C!Copies /\ C!All \in Targets /\ C!All \notin Nodes
    /\ \A n \in Nodes : n \in Targets
    /\ \A c \in C!Copies : /\ c.req \in Requests /\ c.nth \in Nat /\ c.target \in Targets
                           /\ c.producer \in Turns /\ c # NoCopy
BY CommandsAssumption DEF Targets, Turns, C!All, C!Copies

\* Nothing is asked at first.
LEMMA CommandInit == C!CommandInit => CommandInv
<1> SUFFICES ASSUME C!CommandInit PROVE CommandInv
  OBVIOUS
<1> USE DEF C!CommandInit
<1>1. WorldTyped
  BY CommandsAssumption DEF WorldTyped, Turns
<1>2. C!NoRequest \in RequestRecords
  <2>1. <<"none", "none">> \in Calls
    BY DEF Calls
  <2>2. <<>> \in Seq(STRING)
    BY EmptySeq
  <2>3. 0 \in Turns
    BY CommandsAssumption DEF Turns
  <2> QED
    BY <2>1, <2>2, <2>3 DEF C!NoRequest, C!NoPublish, RequestRecords
<1>3. CenterTyped
  BY <1>2 DEF CenterTyped
<1>4. RequestsSound
  BY DEF RequestsSound, Numbered, Publishes, C!NoRequest
<1>5. QueuesTyped
  <2>1. C!Idle \in HandlingRecords
    BY CommandsAssumption DEF C!Idle, HandlingRecords
  <2>2. \A n \in Consumers : DOMAIN channel[n] = {}
    BY DEF Consumers
  <2> QED
    BY <2>1, <2>2 DEF QueuesTyped, Consumers
<1>6. NodesSound
  <2> SUFFICES ASSUME NEW n \in Consumers
               PROVE  /\ WorkTyped(n) /\ AckMeansDone(n)
                      /\ \A c \in CopiesAt(n) : Known(c)
    BY DEF NodesSound
  <2>1. handling[n] = C!Idle /\ DOMAIN channel[n] = {}
    BY DEF Consumers
  <2>2. CopiesAt(n) = {}
    BY <2>1 DEF CopiesAt, C!Idle
  <2> QED
    BY <2>1, <2>2 DEF WorkTyped, AckMeansDone, C!Idle
<1> QED
  BY <1>1, <1>3, <1>4, <1>5, <1>6 DEF CommandInv

-----------------------------------------------------------------------------
(* The center *)

\* A copy at a node is one of a message that is counted, of a request that has begun.
LEMMA CopiesBegun ==
    ASSUME CommandInv, NEW n \in Consumers, NEW c \in CopiesAt(n)
    PROVE  /\ c \in C!Copies /\ c.req \in Requests /\ C!Message(c) \in counted
           /\ request[c.req].pc # "idle"
<1>1. c \in C!Copies
  BY NamesDiffer DEF CommandInv, QueuesTyped, CopiesAt, HandlingRecords
<1>2. /\ c.req \in Requests /\ c.nth \in Nat /\ c.target \in Targets
      /\ C!Message(c) \in counted
  BY <1>1, NamesDiffer DEF CommandInv, NodesSound, Known
<1> QED
  BY <1>1, <1>2 DEF CommandInv, RequestsSound, C!Message

\* A counted message is one of a request that has begun.
LEMMA CountedBegun ==
    ASSUME CommandInv, NEW m \in counted
    PROVE  /\ m.req \in Requests /\ m.nth \in Nat /\ m.target \in Targets
           /\ m = [req |-> m.req, nth |-> m.nth, target |-> m.target]
           /\ request[m.req].pc # "idle"
<1>1. /\ m.req \in Requests /\ m.nth \in Nat /\ m.target \in Targets
      /\ m = [req |-> m.req, nth |-> m.nth, target |-> m.target]
  BY DEF CommandInv, CenterTyped
<1> QED
  BY <1>1 DEF CommandInv, RequestsSound

\* What is being acknowledged is a copy at the node.
LEMMA WorkIsCopy ==
    ASSUME CommandInv, NEW n \in Consumers, handling[n].pc # "idle"
    PROVE  handling[n].copy \in CopiesAt(n) /\ handling[n].copy \in C!Copies
BY NamesDiffer DEF CommandInv, NodesSound, WorkTyped, CopiesAt

\* A request goes on without a message to send before or after.
LEMMA RequestMoves ==
    ASSUME CommandInv, NEW r \in Requests, NEW q \in RequestRecords,
           request' = [request EXCEPT ![r] = q],
           UNCHANGED <<counted, channel, handling, executed, givenUp, life, unsent>>,
           request[r].publish = C!NoPublish, q.publish = C!NoPublish,
           q.call = request[r].call \/ request[r].pc = "idle",
           Numbered(q, r, counted), q.pc # "idle"
    PROVE  CenterTyped' /\ RequestsSound' /\ QueuesTyped' /\ NodesSound'
<1>1. /\ request'[r] = q /\ request' \in [Requests -> RequestRecords]
      /\ \A s \in Requests : s # r => request'[s] = request[s]
  BY DEF CommandInv, CenterTyped
<1>2. CenterTyped' /\ QueuesTyped'
  BY <1>1 DEF CommandInv, CenterTyped, QueuesTyped
<1>3. RequestsSound'
  <2> SUFFICES ASSUME NEW s \in Requests
               PROVE  /\ Numbered(request'[s], s, counted') /\ Publishes(request[s], s)'
                      /\ request'[s].pc = "idle" =>
                            \A k \in Nat, t \in Targets :
                                [req |-> s, nth |-> k, target |-> t] \notin counted'
    BY DEF RequestsSound
  <2>1. CASE s = r
    <3>1. Numbered(request'[r], r, counted')
      BY <1>1 DEF Numbered
    <3> QED
      BY <1>1, <2>1, <3>1 DEF Publishes
  <2>2. CASE s # r
    <3>1. Numbered(request[s], s, counted) /\ Publishes(request[s], s)
      BY DEF CommandInv, RequestsSound
    <3>2. Numbered(request'[s], s, counted')
      BY <1>1, <2>2, <3>1 DEF Numbered
    <3>3. Publishes(request[s], s)'
      BY <1>1, <2>2, <3>1 DEF Publishes
    <3> QED
      BY <1>1, <2>2, <3>2, <3>3 DEF CommandInv, RequestsSound
  <2> QED
    BY <2>1, <2>2
<1>4. NodesSound'
  <2> SUFFICES ASSUME NEW n \in Consumers
               PROVE  /\ WorkTyped(n)' /\ AckMeansDone(n)'
                      /\ \A c \in CopiesAt(n)' : Known(c)'
                      /\ \A m \in counted' : Meant(m, n)' => Reached(m, n)'
    BY DEF NodesSound
  <2>0. /\ WorkTyped(n) /\ AckMeansDone(n) /\ \A c \in CopiesAt(n) : Known(c)
        /\ \A m \in counted : Meant(m, n) => Reached(m, n)
    BY DEF CommandInv, NodesSound
  <2>1. WorkTyped(n)' /\ CopiesAt(n)' = CopiesAt(n)
    BY <2>0 DEF WorkTyped, CopiesAt
  <2>2. AckMeansDone(n)'
    <3> SUFFICES ASSUME handling[n].pc = "ack"
                 PROVE  AckMeansDone(n)'
      BY DEF AckMeansDone
    <3>1. handling[n].copy \in CopiesAt(n)
      BY WorkIsCopy
    <3>2. C!Command(handling[n].copy)' = C!Command(handling[n].copy)
      BY <1>1, <3>1, CopiesBegun DEF C!Command
    <3> QED
      BY <2>0, <3>2 DEF AckMeansDone
  <2>3. ASSUME NEW c \in CopiesAt(n) PROVE Known(c)'
    <3>1. Known(c) /\ c.req \in Requests /\ c.target \in Targets
      BY <2>0, CopiesBegun, NamesDiffer
    <3>2. c.req = r => request'[c.req].publish.target = NoNode
      BY <1>1 DEF C!NoPublish
    <3> QED
      BY <1>1, <3>1, <3>2, NamesDiffer DEF Known, C!BeingPublished
  <2>4. ASSUME NEW m \in counted, Meant(m, n)' PROVE Reached(m, n)'
    <3>1. m.req \in Requests /\ m.target \in Targets /\ request[m.req].pc # "idle"
      BY CountedBegun
    <3>2. C!Command(m)' = C!Command(m)
      BY <1>1, <3>1 DEF C!Command
    <3>3. Reached(m, n)
      BY <2>0, <2>4, <3>2 DEF Meant
    <3>4. C!BeingPublished(m) => m.req # r
      BY <3>1, NamesDiffer DEF C!NoPublish, C!BeingPublished
    <3>5. C!BeingPublished(m) => C!BeingPublished(m)'
      BY <1>1, <3>1, <3>4 DEF C!BeingPublished
    <3> QED
      BY <2>1, <3>3, <3>5 DEF Reached, C!Handled
  <2> QED
    BY <2>1, <2>2, <2>3, <2>4
<1> QED
  BY <1>2, <1>3, <1>4

\* A request counts a message and begins to publish it.
LEMMA PublishBegins ==
    ASSUME CommandInv, NEW r \in Requests, NEW t \in Targets, NEW q \in RequestRecords,
           request' = [request EXCEPT ![r] = q],
           UNCHANGED <<channel, handling, executed, givenUp, life, unsent>>,
           request[r].publish = C!NoPublish,
           [req |-> r, nth |-> q.nth, target |-> t] \notin counted,
           counted' = counted \cup {[req |-> r, nth |-> q.nth, target |-> t]},
           q.publish = C!Publishing(t),
           q.call = request[r].call \/ request[r].pc = "idle",
           Numbered(q, r, counted'), q.pc # "idle"
    PROVE  CenterTyped' /\ RequestsSound' /\ QueuesTyped' /\ NodesSound'
<1> DEFINE new == [req |-> r, nth |-> q.nth, target |-> t]
<1>1. /\ request'[r] = q /\ request' \in [Requests -> RequestRecords]
      /\ \A s \in Requests : s # r => request'[s] = request[s]
  BY DEF CommandInv, CenterTyped
<1>2. q.publish.target = t /\ q.publish.at \notin q.publish.left /\ q.nth \in Nat
  BY DEF C!Publishing, RequestRecords
<1>3. CenterTyped' /\ QueuesTyped'
  BY <1>1, <1>2 DEF CommandInv, CenterTyped, QueuesTyped
<1>4. RequestsSound'
  <2> SUFFICES ASSUME NEW s \in Requests
               PROVE  /\ Numbered(request'[s], s, counted') /\ Publishes(request[s], s)'
                      /\ request'[s].pc = "idle" =>
                            \A k \in Nat, u \in Targets :
                                [req |-> s, nth |-> k, target |-> u] \notin counted'
    BY DEF RequestsSound
  <2>1. CASE s = r
    <3>1. Numbered(request'[r], r, counted')
      BY <1>1 DEF Numbered
    <3> QED
      BY <1>1, <1>2, <2>1, <3>1 DEF Publishes
  <2>2. CASE s # r
    <3>0. \A k, u : [req |-> s, nth |-> k, target |-> u] \in counted'
                       <=> [req |-> s, nth |-> k, target |-> u] \in counted
      BY <2>2
    <3>1. Numbered(request[s], s, counted) /\ Publishes(request[s], s)
      BY DEF CommandInv, RequestsSound
    <3>2. Numbered(request'[s], s, counted')
      BY <1>1, <2>2, <3>0, <3>1 DEF Numbered
    <3>3. Publishes(request[s], s)'
      BY <1>1, <2>2, <3>0, <3>1 DEF Publishes
    <3> QED
      BY <1>1, <2>2, <3>0, <3>2, <3>3 DEF CommandInv, RequestsSound
  <2> QED
    BY <2>1, <2>2
<1>5. NodesSound'
  <2> SUFFICES ASSUME NEW n \in Consumers
               PROVE  /\ WorkTyped(n)' /\ AckMeansDone(n)'
                      /\ \A c \in CopiesAt(n)' : Known(c)'
                      /\ \A m \in counted' : Meant(m, n)' => Reached(m, n)'
    BY DEF NodesSound
  <2>0. /\ WorkTyped(n) /\ AckMeansDone(n) /\ \A c \in CopiesAt(n) : Known(c)
        /\ \A m \in counted : Meant(m, n) => Reached(m, n)
    BY DEF CommandInv, NodesSound
  <2>1. WorkTyped(n)' /\ CopiesAt(n)' = CopiesAt(n)
    BY <2>0 DEF WorkTyped, CopiesAt
  <2>2. AckMeansDone(n)'
    <3> SUFFICES ASSUME handling[n].pc = "ack"
                 PROVE  AckMeansDone(n)'
      BY DEF AckMeansDone
    <3>1. handling[n].copy \in CopiesAt(n)
      BY WorkIsCopy
    <3>2. C!Command(handling[n].copy)' = C!Command(handling[n].copy)
      BY <1>1, <3>1, CopiesBegun DEF C!Command
    <3> QED
      BY <2>0, <3>2 DEF AckMeansDone
  <2>3. ASSUME NEW c \in CopiesAt(n) PROVE Known(c)'
    <3>1. /\ Known(c) /\ c.req \in Requests /\ c.target \in Targets /\ C!Message(c) \in counted
          /\ C!Message(c) \in counted'
      BY <2>0, CopiesBegun, NamesDiffer
    <3>2. ~(c.req = r /\ c.nth = q.nth /\ c.target = t)
      BY <3>1 DEF C!Message
    <3>3. c.req = r => ~C!BeingPublished(c)'
      BY <1>1, <1>2, <3>2 DEF C!BeingPublished
    <3>4. c.req # r => request'[c.req] = request[c.req]
      BY <1>1, <3>1
    <3> QED
      BY <3>1, <3>3, <3>4 DEF Known, C!Message, C!BeingPublished
  <2>4. ASSUME NEW m \in counted', Meant(m, n)' PROVE Reached(m, n)'
    <3>1. CASE m = new
      BY <1>1, <1>2, <3>1 DEF Reached, C!BeingPublished
    <3>2. CASE m \in counted
      <4>1. m.req \in Requests /\ m.target \in Targets /\ request[m.req].pc # "idle"
        BY <3>2, CountedBegun
      <4>2. C!Command(m)' = C!Command(m)
        BY <1>1, <4>1 DEF C!Command
      <4>3. Reached(m, n)
        BY <2>0, <2>4, <3>2, <4>2 DEF Meant
      <4>4. C!BeingPublished(m) => m.req # r
        BY <4>1, NamesDiffer DEF C!NoPublish, C!BeingPublished
      <4>5. C!BeingPublished(m) => C!BeingPublished(m)'
        BY <1>1, <4>1, <4>4 DEF C!BeingPublished
      <4> QED
        BY <2>1, <4>3, <4>5 DEF Reached, C!Handled
    <3> QED
      BY <3>1, <3>2
  <2> QED
    BY <2>1, <2>2, <2>3, <2>4
<1> QED
  BY <1>3, <1>4, <1>5

\* How a request's record begins and ends.
LEMMA DoneRecord ==
    ASSUME NEW x, NEW y, NEW k
    PROVE  [C!NoRequest EXCEPT !.pc = x, !.call = y, !.nth = k] =
              [pc |-> x, call |-> y, todo |-> <<>>, one |-> NoNode, found |-> {}, nth |-> k,
               publish |-> C!NoPublish]
<1>1. C!NoRequest = [pc |-> "idle", call |-> <<"none", "none">>, todo |-> <<>>, one |-> NoNode,
                     found |-> {}, nth |-> 0, publish |-> C!NoPublish]
  BY DEF C!NoRequest
<1>2. ASSUME NEW s, s = [C!NoRequest EXCEPT !.pc = x, !.call = y, !.nth = k]
      PROVE  s = [pc |-> x, call |-> y, todo |-> <<>>, one |-> NoNode, found |-> {}, nth |-> k,
                  publish |-> C!NoPublish]
  BY <1>1, <1>2
<1> QED
  BY <1>2, Zenon

\* A request with a message for everybody.
LEMMA PublishRecord ==
    ASSUME NEW y, NEW z
    PROVE  [C!NoRequest EXCEPT !.pc = "work", !.call = y, !.nth = 1, !.publish = z] =
              [pc |-> "work", call |-> y, todo |-> <<>>, one |-> NoNode, found |-> {}, nth |-> 1,
               publish |-> z]
<1>1. C!NoRequest = [pc |-> "idle", call |-> <<"none", "none">>, todo |-> <<>>, one |-> NoNode,
                     found |-> {}, nth |-> 0, publish |-> C!NoPublish]
  BY DEF C!NoRequest
<1>2. ASSUME NEW s,
             s = [C!NoRequest EXCEPT !.pc = "work", !.call = y, !.nth = 1, !.publish = z]
      PROVE  s = [pc |-> "work", call |-> y, todo |-> <<>>, one |-> NoNode, found |-> {},
                  nth |-> 1, publish |-> z]
  BY <1>1, <1>2
<1> QED
  BY <1>2, Zenon

\* A request that looks for nodes of some types.
LEMMA AskRecord ==
    ASSUME NEW x, NEW y, NEW z, NEW w
    PROVE  [C!NoRequest EXCEPT !.pc = x, !.call = y, !.todo = z, !.one = w] =
              [pc |-> x, call |-> y, todo |-> z, one |-> w, found |-> {}, nth |-> 0,
               publish |-> C!NoPublish]
<1>1. C!NoRequest = [pc |-> "idle", call |-> <<"none", "none">>, todo |-> <<>>, one |-> NoNode,
                     found |-> {}, nth |-> 0, publish |-> C!NoPublish]
  BY DEF C!NoRequest
<1>2. ASSUME NEW s, s = [C!NoRequest EXCEPT !.pc = x, !.call = y, !.todo = z, !.one = w]
      PROVE  s = [pc |-> x, call |-> y, todo |-> z, one |-> w, found |-> {}, nth |-> 0,
                  publish |-> C!NoPublish]
  BY <1>1, <1>2
<1> QED
  BY <1>2, Zenon

\* The center's other records of a request: its next types, nodes and state.
LEMMA RecordsTyped ==
    ASSUME NEW q \in RequestRecords
    PROVE  /\ [q EXCEPT !.publish = C!NoPublish] \in RequestRecords
           /\ C!Done(q) \in RequestRecords /\ C!Done(q).pc = "done"
           /\ C!Done(q).call = q.call /\ C!Done(q).publish = C!NoPublish
           /\ C!Done(q).nth = q.nth
<1>1. <<>> \in Seq(STRING)
  BY EmptySeq
<1>2. C!NoPublish \in [target : Targets \cup {NoNode}, at : Turns, left : SUBSET Turns]
  BY CommandsAssumption DEF C!NoPublish, Turns
<1>3. C!Done(q) = [pc |-> "done", call |-> q.call, todo |-> <<>>, one |-> NoNode,
                   found |-> {}, nth |-> q.nth, publish |-> C!NoPublish]
  BY DoneRecord, Zenon DEF C!Done
<1>4. C!Done(q) \in RequestRecords
  BY <1>1, <1>2, <1>3 DEF RequestRecords
<1>5. [q EXCEPT !.publish = C!NoPublish] \in RequestRecords
  BY <1>2 DEF RequestRecords
<1>6. /\ C!Done(q).pc = "done" /\ C!Done(q).call = q.call /\ C!Done(q).publish = C!NoPublish
      /\ C!Done(q).nth = q.nth
  BY <1>3
<1> QED
  BY <1>4, <1>5, <1>6

\* The next turn is one of the producers' turns.
LEMMA TurnsGoRound == turn \in Turns /\ C!TakesTurn => turn' \in Turns
<1>1. \A a \in Nat, b \in Nat \ {0} : a % b \in 0 .. b - 1
  OBVIOUS
<1> QED
  BY <1>1, CommandsAssumption DEF Turns, C!TakesTurn

\* A message is published by the producer whose turn it is.
LEMMA PublishingTyped ==
    ASSUME turn \in Turns, NEW t \in Targets
    PROVE  C!Publishing(t) \in [target : Targets \cup {NoNode}, at : Turns, left : SUBSET Turns]
BY DEF C!Publishing, Turns

\* A request that has not begun has counted nothing and publishes nothing.
LEMMA IdleQuiet ==
    ASSUME CommandInv, NEW r \in Requests, request[r].pc = "idle"
    PROVE  /\ \A k \in Nat, t \in Targets : [req |-> r, nth |-> k, target |-> t] \notin counted
           /\ request[r].publish = C!NoPublish
<1>1. \A k \in Nat, t \in Targets : [req |-> r, nth |-> k, target |-> t] \notin counted
  BY DEF CommandInv, RequestsSound
<1>2. request[r].publish.target \in Targets \cup {NoNode} /\ request[r].nth \in Nat
  BY DEF CommandInv, CenterTyped, RequestRecords
<1>3. Publishes(request[r], r)
  BY DEF CommandInv, RequestsSound
<1>4. [req |-> r, nth |-> request[r].nth, target |-> NoNode] \notin counted
  BY NamesDiffer DEF CommandInv, CenterTyped
<1> QED
  BY <1>1, <1>2, <1>3, <1>4 DEF Publishes

\* A request of one message for everybody.
LEMMA BroadcastAllKeeps ==
    ASSUME CommandInv, NEW r \in Requests, NEW order \in {"shutdown", "update_load"},
           C!BroadcastAll(r, order)
    PROVE  CommandInv'
<1> DEFINE call == <<"all", order>>
           message == C!Publishing(C!All)
           q == [C!NoRequest EXCEPT !.pc = "work", !.call = call, !.nth = 1, !.publish = message]
<1>1. /\ request[r].pc = "idle" /\ request' = [request EXCEPT ![r] = q] /\ C!TakesTurn
      /\ counted' = counted \cup {[req |-> r, nth |-> 1, target |-> C!All]}
      /\ UNCHANGED <<entries, life, restarts, stopAsked, fails, unsent, channel,
                     handling, executed, givenUp>>
  BY DEF C!BroadcastAll, C!Called, C!At, C!Goes, C!world, C!nodes
<1>2. turn \in Turns /\ turn' \in Turns
  BY <1>1, TurnsGoRound DEF CommandInv, WorldTyped
<1>3. WorldTyped'
  BY <1>1, <1>2 DEF CommandInv, WorldTyped
<1>4. q = [pc |-> "work", call |-> call, todo |-> <<>>, one |-> NoNode, found |-> {}, nth |-> 1,
           publish |-> message]
  <2> HIDE DEF call, message
  <2> QED
    BY PublishRecord, Zenon
<1>5. q \in RequestRecords
  <2>1. <<>> \in Seq(STRING) /\ <<"all", order>> \in Calls
    BY EmptySeq DEF Calls
  <2>2. C!Publishing(C!All) \in [target : Targets \cup {NoNode}, at : Turns, left : SUBSET Turns]
    BY <1>2, PublishingTyped, NamesDiffer
  <2> QED
    BY <1>4, <2>1, <2>2 DEF RequestRecords
<1>6. Numbered(q, r, counted')
  <2>1. q.nth = 1
    BY <1>4
  <2>2. \A k \in Nat, t \in Targets : [req |-> r, nth |-> k, target |-> t] \in counted' => k = 1
    BY <1>1, IdleQuiet
  <2> HIDE DEF q
  <2> QED
    BY <2>1, <2>2 DEF Numbered
<1>7. [req |-> r, nth |-> 1, target |-> C!All] \notin counted /\ request[r].publish = C!NoPublish
  BY <1>1, IdleQuiet, NamesDiffer
<1>8. q.publish = C!Publishing(C!All) /\ q.pc # "idle" /\ q.nth = 1
  BY <1>4
<1> HIDE DEF q
<1>9. CenterTyped' /\ RequestsSound' /\ QueuesTyped' /\ NodesSound'
  BY <1>1, <1>5, <1>6, <1>7, <1>8, NamesDiffer, PublishBegins
<1> QED
  BY <1>3, <1>9 DEF CommandInv

\* A request that looks for nodes.
LEMMA AsksKeeps ==
    ASSUME CommandInv, NEW r \in Requests, NEW call \in Calls, NEW types \in Seq(STRING),
           NEW one \in Nodes \cup {NoNode}, C!Asks(r, call, types, one)
    PROVE  CommandInv'
<1> DEFINE q == [C!NoRequest EXCEPT !.pc = "work", !.call = call, !.todo = types, !.one = one]
<1>1. /\ request[r].pc = "idle" /\ request' = [request EXCEPT ![r] = q]
      /\ UNCHANGED <<entries, life, restarts, stopAsked, turn, fails, counted, unsent, channel,
                     handling, executed, givenUp>>
  BY DEF C!Asks, C!Called, C!At, C!Goes, C!world, C!nodes
<1>2. WorldTyped'
  BY <1>1 DEF CommandInv, WorldTyped
<1>3. q = [pc |-> "work", call |-> call, todo |-> types, one |-> one, found |-> {}, nth |-> 0,
           publish |-> C!NoPublish]
  BY AskRecord, Zenon
<1>4. q \in RequestRecords
  <2>1. C!NoPublish \in [target : Targets \cup {NoNode}, at : Turns, left : SUBSET Turns]
    BY CommandsAssumption DEF C!NoPublish, Turns
  <2> HIDE DEF q
  <2> QED
    BY <1>3, <2>1 DEF RequestRecords
<1>5. Numbered(q, r, counted)
  BY <1>1, IdleQuiet DEF Numbered
<1>6. q.publish = C!NoPublish /\ q.pc # "idle" /\ request[r].publish = C!NoPublish
  BY <1>1, <1>3, IdleQuiet
<1> HIDE DEF q
<1>7. CenterTyped' /\ RequestsSound' /\ QueuesTyped' /\ NodesSound'
  BY <1>1, <1>4, <1>5, <1>6, RequestMoves
<1> QED
  BY <1>2, <1>7 DEF CommandInv

\* The registry answers for a type.
LEMMA GetServicesKeeps ==
    ASSUME CommandInv, NEW r \in Requests, C!GetServices(r) PROVE CommandInv'
<1> DEFINE q == request[r]
           found == {n \in entries : /\ TypeOf[n] = Head(q.todo) /\ q.one \in {n, NoNode}
                                     /\ ~C!Lists(q)}
           more == [q EXCEPT !.todo = Tail(@), !.found = @ \cup found]
           less == [q EXCEPT !.todo = Tail(@)]
<1>1. /\ q.pc = "work" /\ q.publish = C!NoPublish /\ q.todo # <<>>
      /\ \E p \in {more, less, C!Done(q)} : request' = [request EXCEPT ![r] = p]
      /\ UNCHANGED <<entries, life, restarts, stopAsked, turn, fails, counted, unsent, channel,
                     handling, executed, givenUp>>
  BY DEF C!GetServices, C!At, C!Goes, C!world, C!nodes
<1>2. WorldTyped' /\ entries \subseteq Nodes
  BY <1>1 DEF CommandInv, WorldTyped
<1>3. q \in RequestRecords /\ Numbered(q, r, counted)
  BY DEF CommandInv, CenterTyped, RequestsSound
<1>4. found \subseteq Nodes
  BY <1>2
<1> HIDE DEF found
<1>5. /\ more.pc = "work" /\ more.call = q.call /\ more.publish = C!NoPublish
      /\ more.nth = q.nth
      /\ less.pc = "work" /\ less.call = q.call /\ less.publish = C!NoPublish
      /\ less.nth = q.nth
  BY <1>1, <1>3 DEF RequestRecords
<1>6. Tail(q.todo) \in Seq(STRING)
  <2>1. q.todo \in Seq(STRING)
    BY <1>3 DEF RequestRecords
  <2> QED
    BY <1>1, <2>1, HeadTailProperties
<1>7. more \in RequestRecords /\ less \in RequestRecords
  BY <1>3, <1>4, <1>6 DEF RequestRecords
<1>8. /\ C!Done(q) \in RequestRecords /\ C!Done(q).pc = "done" /\ C!Done(q).call = q.call
      /\ C!Done(q).publish = C!NoPublish /\ C!Done(q).nth = q.nth
  BY <1>3, RecordsTyped
<1>9. ASSUME NEW p, p.nth = q.nth PROVE Numbered(p, r, counted)
  BY <1>3, <1>9 DEF Numbered
<1> HIDE DEF more, less
<1>11. CASE request' = [request EXCEPT ![r] = more]
  <2>1. CenterTyped' /\ RequestsSound' /\ QueuesTyped' /\ NodesSound'
    BY <1>1, <1>5, <1>7, <1>9, <1>11, RequestMoves
  <2> QED
    BY <1>2, <2>1 DEF CommandInv
<1>12. CASE request' = [request EXCEPT ![r] = less]
  <2>1. CenterTyped' /\ RequestsSound' /\ QueuesTyped' /\ NodesSound'
    BY <1>1, <1>5, <1>7, <1>9, <1>12, RequestMoves
  <2> QED
    BY <1>2, <2>1 DEF CommandInv
<1>13. CASE request' = [request EXCEPT ![r] = C!Done(q)]
  <2>1. CenterTyped' /\ RequestsSound' /\ QueuesTyped' /\ NodesSound'
    BY <1>1, <1>8, <1>9, <1>13, RequestMoves
  <2> QED
    BY <1>2, <2>1 DEF CommandInv
<1> QED
  BY <1>1, <1>11, <1>12, <1>13

\* The center replies.
LEMMA ReplyKeeps ==
    ASSUME CommandInv, NEW r \in Requests, C!Reply(r) PROVE CommandInv'
<1> DEFINE q == request[r]
<1>1. /\ q.publish = C!NoPublish /\ request' = [request EXCEPT ![r] = C!Done(q)]
      /\ UNCHANGED <<entries, life, restarts, stopAsked, turn, fails, counted, unsent, channel,
                     handling, executed, givenUp>>
  BY DEF C!Reply, C!Goes, C!world, C!nodes
<1>2. WorldTyped'
  BY <1>1 DEF CommandInv, WorldTyped
<1>3. q \in RequestRecords /\ Numbered(q, r, counted)
  BY DEF CommandInv, CenterTyped, RequestsSound
<1>4. /\ C!Done(q) \in RequestRecords /\ C!Done(q).pc = "done" /\ C!Done(q).call = q.call
      /\ C!Done(q).publish = C!NoPublish /\ Numbered(C!Done(q), r, counted)
  BY <1>3, RecordsTyped DEF Numbered
<1>5. CenterTyped' /\ RequestsSound' /\ QueuesTyped' /\ NodesSound'
  BY <1>1, <1>4, RequestMoves
<1> QED
  BY <1>2, <1>5 DEF CommandInv

\* A node that was found gets its message, or is passed over.
LEMMA SendToNodeKeeps ==
    ASSUME CommandInv, NEW r \in Requests, C!SendToNode(r) PROVE CommandInv'
<1> DEFINE q == request[r]
<1>1. q.pc = "work" /\ q.publish = C!NoPublish
  BY DEF C!SendToNode, C!At
<1>2. UNCHANGED <<entries, life, restarts, stopAsked, fails, unsent, channel, handling,
                  executed, givenUp>>
  BY DEF C!SendToNode, C!world, C!nodes
<1>3. q \in RequestRecords /\ Numbered(q, r, counted) /\ q.found \subseteq Nodes
  BY DEF CommandInv, CenterTyped, RequestsSound, RequestRecords
<1>4. PICK n \in q.found :
         \/ /\ request' = [request EXCEPT ![r] = [q EXCEPT !.found = @ \ {n}, !.nth = @ + 1,
                                                          !.publish = C!Publishing(n)]]
            /\ counted' = counted \cup {[req |-> r, nth |-> q.nth + 1, target |-> n]}
            /\ C!TakesTurn
         \/ /\ request' = [request EXCEPT ![r] = [q EXCEPT !.found = @ \ {n}]]
            /\ UNCHANGED <<turn, counted>>
  BY DEF C!SendToNode, C!Goes
<1> DEFINE sends == [q EXCEPT !.found = @ \ {n}, !.nth = @ + 1, !.publish = C!Publishing(n)]
           skips == [q EXCEPT !.found = @ \ {n}]
<1>5. turn \in Turns /\ turn' \in Turns
  BY <1>4, TurnsGoRound DEF CommandInv, WorldTyped
<1>6. WorldTyped'
  BY <1>2, <1>5 DEF CommandInv, WorldTyped
<1>7. /\ n \in Nodes /\ n \in Targets /\ q.nth \in Nat /\ q.nth + 1 \in Nat
      /\ [req |-> r, nth |-> q.nth + 1, target |-> n] \notin counted
  <2>1. n \in Nodes /\ n \in Targets /\ q.nth \in Nat
    BY <1>3, NamesDiffer DEF RequestRecords
  <2>2. \A k \in Nat : k + 1 \in Nat /\ ~(k + 1 <= k)
    OBVIOUS
  <2> QED
    BY <1>3, <2>1, <2>2 DEF Numbered
<1>8. /\ sends.pc = "work" /\ sends.call = q.call /\ sends.publish = C!Publishing(n)
      /\ sends.nth = q.nth + 1
      /\ skips.pc = "work" /\ skips.call = q.call /\ skips.publish = C!NoPublish
      /\ skips.nth = q.nth
  BY <1>1, <1>3 DEF RequestRecords
<1>9. C!Publishing(n) \in [target : Targets \cup {NoNode}, at : Turns, left : SUBSET Turns]
  BY <1>5, <1>7, PublishingTyped
<1>10. sends \in RequestRecords /\ skips \in RequestRecords
  BY <1>3, <1>7, <1>9 DEF RequestRecords
<1> HIDE DEF sends, skips
<1>11. CASE request' = [request EXCEPT ![r] = skips] /\ UNCHANGED <<turn, counted>>
  <2>1. Numbered(skips, r, counted)
    BY <1>3, <1>8 DEF Numbered
  <2>2. CenterTyped' /\ RequestsSound' /\ QueuesTyped' /\ NodesSound'
    BY <1>1, <1>2, <1>8, <1>10, <1>11, <2>1, RequestMoves
  <2> QED
    BY <1>6, <2>2 DEF CommandInv
<1>12. CASE /\ request' = [request EXCEPT ![r] = sends]
            /\ counted' = counted \cup {[req |-> r, nth |-> q.nth + 1, target |-> n]}
  <2>1. \A a, b \in Nat : a <= b => a <= b + 1
    OBVIOUS
  <2>2. \A k \in Nat, t \in Targets :
           [req |-> r, nth |-> k, target |-> t] \in counted' =>
              [req |-> r, nth |-> k, target |-> t] \in counted \/ k = q.nth + 1
    BY <1>12
  <2>3. Numbered(sends, r, counted')
    BY <1>3, <1>7, <1>8, <2>1, <2>2 DEF Numbered
  <2>4. CenterTyped' /\ RequestsSound' /\ QueuesTyped' /\ NodesSound'
    BY <1>1, <1>2, <1>7, <1>8, <1>10, <1>12, <2>3, PublishBegins
  <2> QED
    BY <1>6, <2>4 DEF CommandInv
<1> QED
  BY <1>4, <1>11, <1>12 DEF sends, skips

\* A producer has taken the message into every channel, or into none.
LEMMA AcceptAdds ==
    ASSUME CommandInv, NEW r \in Requests, NEW t \in Targets, NEW p \in Turns,
           NEW new, new = [req |-> r, nth |-> request[r].nth, target |-> t, producer |-> p],
           C!Accept(r, t, p) \/ UNCHANGED channel, UNCHANGED handling
    PROVE  /\ QueuesTyped' /\ new \in C!Copies
           /\ \A n \in Consumers :
                 /\ DOMAIN channel[n] \subseteq DOMAIN channel'[n]
                 /\ DOMAIN channel'[n] \subseteq DOMAIN channel[n] \cup {new}
                 /\ C!Accept(r, t, p) => new \in DOMAIN channel'[n]
<1>1. new \in C!Copies
  <2>1. request[r].nth \in Nat
    BY DEF CommandInv, CenterTyped, RequestRecords
  <2> QED
    BY <2>1 DEF C!Copies, Targets, Turns, C!All
<1>2. QueuesTyped
  BY DEF CommandInv
<1>3. CASE C!Accept(r, t, p)
  <2>1. /\ DOMAIN channel' = DOMAIN channel
        /\ \A n \in DOMAIN channel :
              /\ DOMAIN channel'[n] = DOMAIN channel[n] \cup {new}
              /\ \A c \in DOMAIN channel'[n] :
                    channel'[n][c] = IF c = new THEN 0 ELSE channel[n][c]
    BY <1>3 DEF C!Accept
  <2>2. ASSUME NEW n \in Consumers
        PROVE  /\ DOMAIN channel'[n] = DOMAIN channel[n] \cup {new}
               /\ \A c \in DOMAIN channel'[n] : channel'[n][c] \in 0 .. MaxAttempts
    <3>1. n \in DOMAIN channel
      BY <1>2 DEF QueuesTyped
    <3>2. 0 \in 0 .. MaxAttempts
      BY CommandsAssumption
    <3> QED
      BY <1>2, <2>1, <3>1, <3>2 DEF QueuesTyped
  <2>3. QueuesTyped'
    BY <1>1, <1>2, <2>1, <2>2 DEF QueuesTyped
  <2> QED
    BY <1>1, <2>2, <2>3
<1>4. CASE UNCHANGED channel /\ ~C!Accept(r, t, p)
  BY <1>1, <1>2, <1>4 DEF QueuesTyped
<1> QED
  BY <1>3, <1>4

\* A message moves on: taken by a producer, to the next one, or given up by the last.
LEMMA PublishMoves ==
    ASSUME CommandInv, NEW r \in Requests, NEW q \in RequestRecords, NEW t, NEW p, NEW left,
           request[r].pc # "idle", request[r].publish # C!NoPublish,
           t = request[r].publish.target, p = request[r].publish.at,
           left = request[r].publish.left,
           q.pc = request[r].pc, q.call = request[r].call, q.nth = request[r].nth,
           request' = [request EXCEPT ![r] = q],
           UNCHANGED <<counted, handling, executed, givenUp, life>>, unsent \subseteq unsent',
           C!Accept(r, t, p) \/ UNCHANGED channel,
           \/ /\ q.publish.target = t /\ q.publish.at \in left
              /\ q.publish.left = left \ {q.publish.at}
           \/ /\ q.publish = C!NoPublish
              /\ C!Accept(r, t, p) \/ [req |-> r, nth |-> q.nth, target |-> t] \in unsent'
    PROVE  CenterTyped' /\ RequestsSound' /\ QueuesTyped' /\ NodesSound'
<1> DEFINE new == [req |-> r, nth |-> q.nth, target |-> t, producer |-> p]
           next == q.publish
<1>1. /\ request'[r] = q /\ request' \in [Requests -> RequestRecords]
      /\ \A s \in Requests : s # r => request'[s] = request[s]
  BY DEF CommandInv, CenterTyped
<1>2. CenterTyped'
  BY <1>1 DEF CommandInv, CenterTyped
<1>3. /\ [req |-> r, nth |-> q.nth, target |-> t] \in counted /\ p \notin left
      /\ t \in Targets /\ p \in Turns
  <2>1. Publishes(request[r], r)
    BY DEF CommandInv, RequestsSound
  <2>2. [req |-> r, nth |-> q.nth, target |-> t] \in counted /\ p \notin left
    BY <2>1 DEF Publishes
  <2>3. t \in Targets
    BY <2>2 DEF CommandInv, CenterTyped
  <2>4. p \in Turns
    BY DEF CommandInv, CenterTyped, RequestRecords
  <2> QED
    BY <2>2, <2>3, <2>4
<1>4. /\ next.target = t => next.at \in left /\ next.left = left \ {next.at}
      /\ next.target # t =>
            /\ next = C!NoPublish
            /\ C!Accept(r, t, p) \/ [req |-> r, nth |-> q.nth, target |-> t] \in unsent'
  <2>1. t # NoNode
    BY <1>3, NamesDiffer
  <2> QED
    BY <2>1 DEF C!NoPublish
<1>5. /\ QueuesTyped' /\ new \in C!Copies
      /\ \A n \in Consumers :
            /\ DOMAIN channel[n] \subseteq DOMAIN channel'[n]
            /\ DOMAIN channel'[n] \subseteq DOMAIN channel[n] \cup {new}
            /\ C!Accept(r, t, p) => new \in DOMAIN channel'[n]
  BY <1>3, AcceptAdds
<1>6. RequestsSound'
  <2> SUFFICES ASSUME NEW s \in Requests
               PROVE  /\ Numbered(request'[s], s, counted') /\ Publishes(request[s], s)'
                      /\ request'[s].pc = "idle" =>
                            \A k \in Nat, u \in Targets :
                                [req |-> s, nth |-> k, target |-> u] \notin counted'
    BY DEF RequestsSound
  <2>1. Numbered(request[s], s, counted) /\ Publishes(request[s], s)
    BY DEF CommandInv, RequestsSound
  <2>2. request'[s].pc = request[s].pc /\ request'[s].nth = request[s].nth
    BY <1>1
  <2>3. Numbered(request'[s], s, counted')
    BY <2>1, <2>2 DEF Numbered
  <2>4. Publishes(request[s], s)'
    <3>1. CASE s = r /\ next.target = t
      BY <1>1, <1>3, <1>4, <3>1 DEF Publishes
    <3>2. CASE s = r /\ next.target # t
      BY <1>1, <1>4, <3>2 DEF Publishes
    <3>3. CASE s # r
      BY <1>1, <2>1, <3>3 DEF Publishes
    <3> QED
      BY <3>1, <3>2, <3>3
  <2> QED
    BY <2>2, <2>3, <2>4 DEF CommandInv, RequestsSound
<1>7. NodesSound'
  <2> SUFFICES ASSUME NEW n \in Consumers
               PROVE  /\ WorkTyped(n)' /\ AckMeansDone(n)'
                      /\ \A c \in CopiesAt(n)' : Known(c)'
                      /\ \A m \in counted' : Meant(m, n)' => Reached(m, n)'
    BY DEF NodesSound
  <2>0. /\ WorkTyped(n) /\ AckMeansDone(n) /\ \A c \in CopiesAt(n) : Known(c)
        /\ \A m \in counted : Meant(m, n) => Reached(m, n)
    BY DEF CommandInv, NodesSound
  <2>1. CopiesAt(n) \subseteq CopiesAt(n)' /\ CopiesAt(n)' \subseteq CopiesAt(n) \cup {new}
    BY <1>5 DEF CopiesAt
  <2>2. new \notin CopiesAt(n)
    <3>1. ~Known(new)
      BY DEF Known, C!BeingPublished
    <3> QED
      BY <2>0, <3>1
  <2>3. WorkTyped(n)'
    <3>1. CASE handling[n].pc = "idle"
      BY <2>0, <3>1 DEF WorkTyped
    <3>2. CASE handling[n].pc # "idle"
      <4>1. handling[n].copy # new
        BY <2>2, <3>2, WorkIsCopy
      <4> QED
        BY <1>5, <2>0, <3>2, <4>1 DEF WorkTyped
    <3> QED
      BY <3>1, <3>2
  <2>4. AckMeansDone(n)'
    <3> SUFFICES ASSUME handling[n].pc = "ack"
                 PROVE  AckMeansDone(n)'
      BY DEF AckMeansDone
    <3>1. handling[n].copy \in CopiesAt(n)
      BY WorkIsCopy
    <3>2. C!Command(handling[n].copy)' = C!Command(handling[n].copy)
      BY <1>1, <3>1, CopiesBegun DEF C!Command
    <3> QED
      BY <2>0, <3>2 DEF AckMeansDone
  <2>5. ASSUME NEW c \in CopiesAt(n)' PROVE Known(c)'
    <3>1. CASE c \in CopiesAt(n)
      <4>1. Known(c) /\ c.req \in Requests /\ c.target \in Targets
        BY <2>0, <3>1, CopiesBegun, NamesDiffer
      <4>2. CASE c.req = r /\ next.target = t
        BY <1>1, <1>4, <4>1, <4>2 DEF Known, C!BeingPublished
      <4>3. CASE c.req = r /\ next.target # t
        <5>1. request'[c.req].publish.target # c.target
          BY <1>1, <1>4, <4>1, <4>3, NamesDiffer DEF C!NoPublish
        <5> QED
          BY <4>1, <5>1 DEF Known, C!Message, C!BeingPublished
      <4>4. CASE c.req # r
        BY <1>1, <4>1, <4>4 DEF Known, C!BeingPublished
      <4> QED
        BY <4>2, <4>3, <4>4
    <3>2. CASE c = new
      BY <1>1, <1>3, <1>4, <3>2 DEF Known, C!Message, C!BeingPublished
    <3> QED
      BY <2>1, <3>1, <3>2
  <2>6. ASSUME NEW m \in counted, Meant(m, n)' PROVE Reached(m, n)'
    <3>1. /\ m.req \in Requests /\ m.target \in Targets
          /\ m = [req |-> m.req, nth |-> m.nth, target |-> m.target]
      BY CountedBegun
    <3>2. C!Command(m)' = C!Command(m)
      BY <1>1, <3>1 DEF C!Command
    <3>3. Reached(m, n)
      BY <2>0, <2>6, <3>2 DEF Meant
    <3>4. CASE m.req = r /\ m.nth = q.nth /\ m.target = t
      <4>1. CASE next.target = t
        BY <1>1, <3>4, <4>1 DEF Reached, C!BeingPublished
      <4>2. CASE C!Accept(r, t, p)
        <5>1. new \in CopiesAt(n)' /\ C!Message(new) = m
          BY <1>5, <3>1, <3>4, <4>2 DEF CopiesAt, C!Message
        <5> QED
          BY <5>1 DEF Reached
      <4>3. CASE [req |-> r, nth |-> q.nth, target |-> t] \in unsent'
        BY <3>1, <3>4, <4>3 DEF Reached
      <4> QED
        BY <1>4, <4>1, <4>2, <4>3
    <3>5. CASE ~(m.req = r /\ m.nth = q.nth /\ m.target = t)
      <4>1. C!BeingPublished(m) => C!BeingPublished(m)'
        BY <1>1, <3>1, <3>5 DEF C!BeingPublished
      <4> QED
        BY <2>1, <3>3, <4>1 DEF Reached, C!Handled
    <3> QED
      BY <3>4, <3>5
  <2> QED
    BY <2>3, <2>4, <2>5, <2>6
<1> QED
  BY <1>2, <1>5, <1>6, <1>7

\* A request goes on to the next producer.
TriesNext(s, q) ==
    /\ s \in RequestRecords
    /\ s.pc = q.pc /\ s.call = q.call /\ s.nth = q.nth
    /\ s.publish.target = q.publish.target /\ s.publish.at \in q.publish.left
    /\ s.publish.left = q.publish.left \ {s.publish.at}

\* A producer takes the message, or the next one is tried, or none is left.
LEMMA PublishKeeps ==
    ASSUME CommandInv, NEW r \in Requests, C!Publish(r) PROVE CommandInv'
<1> DEFINE q == request[r]
           p == q.publish
           through == [q EXCEPT !.publish = C!NoPublish]
<1>1. /\ q.pc = "work" /\ p # C!NoPublish
      /\ UNCHANGED <<entries, life, restarts, stopAsked, turn, counted, handling, executed,
                     givenUp>>
  BY DEF C!Publish, C!At, C!world, C!nodes
<1>2. q \in RequestRecords
  BY DEF CommandInv, CenterTyped
<1>3. through \in RequestRecords
  BY <1>2, RecordsTyped
<1>4. /\ through.pc = q.pc /\ through.call = q.call /\ through.nth = q.nth
      /\ through.publish = C!NoPublish
  BY <1>2 DEF RequestRecords
<1>5. ASSUME NEW k \in p.left, NEW s,
             s = [q EXCEPT !.publish.at = k, !.publish.left = @ \ {k}]
      PROVE  TriesNext(s, q)
  <2>1. k \in Turns /\ p.left \ {k} \in SUBSET Turns
    BY <1>2 DEF RequestRecords
  <2> QED
    BY <1>2, <1>5, <2>1 DEF RequestRecords, TriesNext
<1>6. \/ /\ C!Accept(r, p.target, p.at) /\ request' = [request EXCEPT ![r] = through]
         /\ UNCHANGED <<fails, unsent>>
      \/ /\ fails < MaxFails /\ fails' = fails + 1
         /\ C!Accept(r, p.target, p.at) \/ UNCHANGED channel
         /\ request' = [request EXCEPT ![r] = through]
         /\ unsent' = unsent \cup {[req |-> r, nth |-> q.nth, target |-> p.target]}
      \/ /\ fails < MaxFails /\ fails' = fails + 1
         /\ C!Accept(r, p.target, p.at) \/ UNCHANGED channel
         /\ \E s : TriesNext(s, q) /\ request' = [request EXCEPT ![r] = s]
         /\ UNCHANGED unsent
  BY <1>5 DEF C!Publish, C!Goes
<1> HIDE DEF through
<1>7. WorldTyped'
  <2>1. fails' = fails \/ (fails < MaxFails /\ fails' = fails + 1)
    BY <1>6, Zenon
  <2>2. fails' \in 0 .. MaxFails
    BY <2>1, CommandsAssumption DEF CommandInv, WorldTyped
  <2> QED
    BY <1>1, <2>2 DEF CommandInv, WorldTyped
<1>8. CASE /\ C!Accept(r, p.target, p.at) /\ request' = [request EXCEPT ![r] = through]
           /\ UNCHANGED unsent
  <2>1. CenterTyped' /\ RequestsSound' /\ QueuesTyped' /\ NodesSound'
    BY <1>1, <1>3, <1>4, <1>8, PublishMoves
  <2> QED
    BY <1>7, <2>1 DEF CommandInv
<1>9. CASE /\ C!Accept(r, p.target, p.at) \/ UNCHANGED channel
           /\ request' = [request EXCEPT ![r] = through]
           /\ unsent' = unsent \cup {[req |-> r, nth |-> q.nth, target |-> p.target]}
  <2>1. CenterTyped' /\ RequestsSound' /\ QueuesTyped' /\ NodesSound'
    BY <1>1, <1>3, <1>4, <1>9, PublishMoves
  <2> QED
    BY <1>7, <2>1 DEF CommandInv
<1>10. ASSUME C!Accept(r, p.target, p.at) \/ UNCHANGED channel, UNCHANGED unsent,
              NEW s, TriesNext(s, q), request' = [request EXCEPT ![r] = s]
       PROVE  CommandInv'
  <2>0. /\ s \in RequestRecords /\ q.pc # "idle" /\ unsent \subseteq unsent'
        /\ s.pc = q.pc /\ s.call = q.call /\ s.nth = q.nth
        /\ s.publish.target = p.target /\ s.publish.at \in p.left
        /\ s.publish.left = p.left \ {s.publish.at}
    BY <1>1, <1>10 DEF TriesNext
  <2>1. CenterTyped' /\ RequestsSound' /\ QueuesTyped' /\ NodesSound'
    BY <1>1, <1>10, <2>0, PublishMoves, ZenonT(60)
  <2> QED
    BY <1>7, <2>1 DEF CommandInv
<1> QED
  BY <1>6, <1>8, <1>9, <1>10

-----------------------------------------------------------------------------
(* The nodes *)

\* A node comes up, dies or leaves etcd; its consumer is as it was.
LEMMA NodeMoves ==
    ASSUME CommandInv, WorldTyped',
           UNCHANGED <<request, counted, unsent, channel, handling, executed, givenUp>>,
           \A k \in Consumers : life'[k] = "down" => life[k] = "down"
    PROVE  CommandInv'
<1>1. CenterTyped' /\ RequestsSound' /\ QueuesTyped'
  BY DEF CommandInv, CenterTyped, RequestsSound, Numbered, Publishes, QueuesTyped
<1>2. NodesSound'
  <2> SUFFICES ASSUME NEW n \in Consumers
               PROVE  /\ WorkTyped(n)' /\ AckMeansDone(n)'
                      /\ \A c \in CopiesAt(n)' : Known(c)'
                      /\ \A m \in counted' : Meant(m, n)' => Reached(m, n)'
    BY DEF NodesSound
  <2>0. /\ WorkTyped(n) /\ AckMeansDone(n) /\ \A c \in CopiesAt(n) : Known(c)
        /\ \A m \in counted : Meant(m, n) => Reached(m, n)
    BY DEF CommandInv, NodesSound
  <2>1. WorkTyped(n)' /\ AckMeansDone(n)' /\ CopiesAt(n)' = CopiesAt(n)
    BY <2>0 DEF WorkTyped, AckMeansDone, CopiesAt, C!Command
  <2>2. \A c \in CopiesAt(n) : Known(c)'
    BY <2>0 DEF Known, C!BeingPublished
  <2>3. \A m \in counted : Meant(m, n)' => Reached(m, n)'
    BY <2>0, <2>1 DEF Meant, Reached, C!Command, C!BeingPublished, C!Handled
  <2> QED
    BY <2>1, <2>2, <2>3
<1> QED
  BY <1>1, <1>2 DEF CommandInv

\* A consumer goes on to h, with the copies of waits in its channel: what has left is
\* executed, given up or not meant for the node.
LEMMA ConsumerMoves ==
    ASSUME CommandInv, NEW n \in Consumers, NEW h \in HandlingRecords, NEW waits,
           DOMAIN channel' = DOMAIN channel, channel'[n] = waits,
           \A k \in Consumers : k # n => channel'[k] = channel[k] /\ life'[k] = life[k],
           handling' = [handling EXCEPT ![n] = h],
           UNCHANGED <<request, counted, unsent>>,
           life'[n] = "down" => h.pc = "idle",
           executed \subseteq executed', givenUp \subseteq givenUp',
           DOMAIN waits \subseteq C!Copies,
           \A c \in DOMAIN waits : waits[c] \in 0 .. MaxAttempts,
           h.pc = "idle" => h.copy = NoCopy,
           h.pc # "idle" => h.copy \in C!Copies \ DOMAIN waits /\ h.tries \in 1 .. MaxAttempts,
           h.pc = "ack" /\ C!Addressed(n, h.copy) /\ C!Command(h.copy) \in C!handlers =>
               C!Handled(n, h.copy) \in executed',
           DOMAIN waits \cup ({h.copy} \ {NoCopy}) \subseteq CopiesAt(n),
           \A c \in CopiesAt(n) :
               \/ c \in DOMAIN waits \/ c = h.copy
               \/ C!Handled(n, c) \in executed' \cup givenUp'
               \/ ~Meant(C!Message(c), n)
    PROVE  CenterTyped' /\ RequestsSound' /\ QueuesTyped' /\ NodesSound'
<1>1. CenterTyped' /\ RequestsSound'
  BY DEF CommandInv, CenterTyped, RequestsSound, Numbered, Publishes
<1>2. /\ handling'[n] = h /\ handling' \in [Consumers -> HandlingRecords]
      /\ \A k \in Consumers : k # n => handling'[k] = handling[k]
  BY DEF CommandInv, QueuesTyped
<1>3. QueuesTyped'
  BY <1>2 DEF CommandInv, QueuesTyped
<1>4. ASSUME NEW k \in Consumers
      PROVE  /\ WorkTyped(k)' /\ AckMeansDone(k)'
             /\ \A c \in CopiesAt(k)' : Known(c)'
             /\ \A m \in counted' : Meant(m, k)' => Reached(m, k)'
  <2>0. /\ WorkTyped(k) /\ AckMeansDone(k) /\ \A c \in CopiesAt(k) : Known(c)
        /\ \A m \in counted : Meant(m, k) => Reached(m, k)
    BY DEF CommandInv, NodesSound
  <2>1. CASE k # n
    <3>1. /\ channel'[k] = channel[k] /\ handling'[k] = handling[k] /\ life'[k] = life[k]
      BY <1>2, <2>1
    <3>2. WorkTyped(k)' /\ CopiesAt(k)' = CopiesAt(k)
      BY <2>0, <3>1 DEF WorkTyped, CopiesAt
    <3>3. AckMeansDone(k)'
      BY <2>0, <3>1 DEF AckMeansDone, C!Command
    <3>4. \A c \in CopiesAt(k) : Known(c)'
      BY <2>0 DEF Known, C!BeingPublished
    <3>5. \A m \in counted : Meant(m, k)' => Reached(m, k)'
      BY <2>0, <3>2 DEF Meant, Reached, C!Command, C!BeingPublished, C!Handled
    <3> QED
      BY <3>2, <3>3, <3>4, <3>5
  <2>2. CASE k = n
    <3>1. WorkTyped(n)'
      BY <1>2 DEF WorkTyped
    <3>2. AckMeansDone(n)'
      BY <1>2 DEF AckMeansDone, C!Command
    <3>3. CopiesAt(n)' = DOMAIN waits \cup ({h.copy} \ {NoCopy})
      BY <1>2 DEF CopiesAt
    <3>4. \A c \in CopiesAt(n)' : Known(c)'
      BY <2>0, <2>2, <3>3 DEF Known, C!BeingPublished
    <3>5. ASSUME NEW m \in counted, Meant(m, n)' PROVE Reached(m, n)'
      <4>1. Reached(m, n) /\ Meant(m, n)
        BY <2>0, <2>2, <3>5 DEF Meant, C!Command
      <4>2. CASE \E c \in CopiesAt(n) : C!Message(c) = m
        <5>1. PICK c \in CopiesAt(n) : C!Message(c) = m
          BY <4>2
        <5>2. c # NoCopy
          BY NamesDiffer, CopiesBegun
        <5>3. CASE c \in DOMAIN waits \/ c = h.copy
          BY <3>3, <5>1, <5>2, <5>3 DEF Reached
        <5>4. CASE C!Handled(n, c) \in executed' \cup givenUp'
          BY <5>1, <5>4 DEF Reached, C!Handled, C!Message
        <5> QED
          BY <4>1, <5>1, <5>3, <5>4
      <4>3. CASE ~\E c \in CopiesAt(n) : C!Message(c) = m
        BY <4>1, <4>3 DEF Reached, C!BeingPublished, C!Handled
      <4> QED
        BY <4>2, <4>3
    <3> QED
      BY <2>2, <3>1, <3>2, <3>4, <3>5
  <2> QED
    BY <2>1, <2>2
<1>5. NodesSound'
  BY <1>4 DEF NodesSound
<1> QED
  BY <1>1, <1>3, <1>5

\* A node's consumer is gone or has returned its message: the copy is back in the channel.
LEMMA RequeueMoves ==
    ASSUME CommandInv, NEW n \in Consumers, C!Requeued(n),
           handling' = [handling EXCEPT ![n] = C!Idle],
           \A k \in Consumers : k # n => life'[k] = life[k],
           UNCHANGED <<request, counted, unsent, executed, givenUp>>
    PROVE  CenterTyped' /\ RequestsSound' /\ QueuesTyped' /\ NodesSound'
<1> DEFINE h == handling[n]
           waits == IF h.pc = "idle" THEN channel[n]
                    ELSE [c \in DOMAIN channel[n] \cup {h.copy} |->
                             IF c = h.copy THEN h.tries ELSE channel[n][c]]
<1>1. /\ WorldTyped /\ WorkTyped(n) /\ h \in HandlingRecords /\ n \in DOMAIN channel
      /\ DOMAIN channel[n] \subseteq C!Copies
      /\ \A c \in DOMAIN channel[n] : channel[n][c] \in 0 .. MaxAttempts
  BY DEF CommandInv, QueuesTyped, NodesSound
<1>2. C!Idle \in HandlingRecords /\ C!Idle.pc = "idle" /\ C!Idle.copy = NoCopy
  BY CommandsAssumption DEF C!Idle, HandlingRecords
<1>3. CASE h.pc = "idle"
  <2>1. channel' = channel /\ h.copy = NoCopy
    BY <1>1, <1>3 DEF C!Requeued, WorkTyped
  <2>2. CopiesAt(n) = DOMAIN channel[n]
    BY <2>1 DEF CopiesAt
  <2> QED
    BY <1>1, <1>2, <2>1, <2>2, ConsumerMoves
<1>4. CASE h.pc # "idle"
  <2>1. /\ DOMAIN channel' = DOMAIN channel /\ channel'[n] = waits
        /\ \A k \in Consumers : k # n => channel'[k] = channel[k]
    BY <1>1, <1>4 DEF C!Requeued, CommandInv, QueuesTyped
  <2>2. h.copy \in C!Copies /\ h.copy # NoCopy /\ h.tries \in 0 .. MaxAttempts
    BY <1>1, <1>4, NamesDiffer DEF WorkTyped, HandlingRecords
  <2>3. DOMAIN waits = CopiesAt(n) /\ DOMAIN waits \subseteq C!Copies
    BY <1>1, <1>4, <2>2 DEF CopiesAt
  <2>4. \A c \in DOMAIN waits : waits[c] \in 0 .. MaxAttempts
    BY <1>1, <1>4, <2>2
  <2> HIDE DEF waits
  <2> QED
    BY <1>2, <2>1, <2>3, <2>4, ConsumerMoves
<1> QED
  BY <1>3, <1>4

\* A node registers, starts again, is asked to stop a second later, or its lease ends.
LEMMA WorldKeeps ==
    ASSUME CommandInv, NEW n \in Consumers,
           C!Register(n) \/ C!Restart(n) \/ C!LeaseExpires(n) \/ C!StopCalled(n)
    PROVE  CommandInv'
<1>0. n \in Nodes
  BY DEF Consumers
<1>1. /\ UNCHANGED <<request, counted, unsent, channel, handling, executed, givenUp, fails, turn>>
      /\ \A k \in Consumers : life'[k] = "down" => life[k] = "down"
  BY <1>0 DEF C!Register, C!Restart, C!LeaseExpires, C!StopCalled, C!center, C!nodes,
              CommandInv, WorldTyped, Consumers
<1>2. restarts' \in 0 .. MaxRestarts
  BY CommandsAssumption
     DEF C!Register, C!Restart, C!LeaseExpires, C!StopCalled, CommandInv, WorldTyped
<1>3. /\ life' \in [Nodes -> {"down", "starting", "running", "stopping"}]
      /\ entries' \subseteq Nodes
  BY <1>0 DEF C!Register, C!Restart, C!LeaseExpires, C!StopCalled, CommandInv, WorldTyped
<1>4. stopAsked' \subseteq stopAsked /\ \A k \in Nodes : life'[k] = "down" => life[k] = "down"
  BY <1>0 DEF C!Register, C!Restart, C!LeaseExpires, C!StopCalled, CommandInv, WorldTyped
<1>5. WorldTyped'
  BY <1>1, <1>2, <1>3, <1>4 DEF CommandInv, WorldTyped
<1> QED
  BY <1>1, <1>5, NodeMoves

\* A node dies, or has stopped.
LEMMA EndKeeps ==
    ASSUME CommandInv, NEW n \in Consumers, C!Crash(n) \/ C!Stopped(n)
    PROVE  CommandInv'
<1>0. n \in Nodes
  BY DEF Consumers
<1>1. /\ C!Requeued(n) /\ handling' = [handling EXCEPT ![n] = C!Idle]
      /\ life' = [life EXCEPT ![n] = "down"] /\ stopAsked' = stopAsked \ {n}
      /\ entries' \subseteq entries
      /\ UNCHANGED <<restarts, turn, fails, request, counted, unsent, executed, givenUp>>
  BY DEF C!Crash, C!Stopped, C!center
<1>2. WorldTyped'
  BY <1>0, <1>1 DEF CommandInv, WorldTyped
<1>3. CenterTyped' /\ RequestsSound' /\ QueuesTyped' /\ NodesSound'
  <2>1. \A k \in Consumers : k # n => life'[k] = life[k]
    BY <1>1 DEF CommandInv, WorldTyped, Consumers
  <2> QED
    BY <1>1, <2>1, RequeueMoves
<1> QED
  BY <1>2, <1>3 DEF CommandInv

\* The consumer takes a copy from the channel, or gives it up.
LEMMA DeliverKeeps ==
    ASSUME CommandInv, NEW n \in Consumers, NEW c \in DOMAIN channel[n], C!Deliver(n, c)
    PROVE  CommandInv'
<1> DEFINE waits == [d \in DOMAIN channel[n] \ {c} |-> channel[n][d]]
           work == [pc |-> "handle", copy |-> c, tries |-> channel[n][c] + 1]
<1>1. /\ handling[n].pc = "idle" /\ life[n] # "down"
      /\ channel' = [channel EXCEPT ![n] = waits]
      /\ UNCHANGED <<entries, life, restarts, stopAsked, turn, fails, request, counted, unsent,
                     executed>>
  BY DEF C!Deliver, C!world, C!center
<1>2. \/ channel[n][c] < MaxAttempts /\ handling' = [handling EXCEPT ![n] = work]
         /\ UNCHANGED givenUp
      \/ givenUp' = givenUp \cup {C!Handled(n, c)} /\ UNCHANGED handling
  BY DEF C!Deliver
<1>3. WorldTyped'
  BY <1>1 DEF CommandInv, WorldTyped
<1>4. /\ WorkTyped(n) /\ handling \in [Consumers -> HandlingRecords]
      /\ DOMAIN channel = Consumers /\ DOMAIN channel[n] \subseteq C!Copies
      /\ \A d \in DOMAIN channel[n] : channel[n][d] \in 0 .. MaxAttempts
  BY DEF CommandInv, QueuesTyped, NodesSound
<1>5. /\ handling[n].copy = NoCopy /\ CopiesAt(n) = DOMAIN channel[n]
      /\ c \in C!Copies /\ c # NoCopy
  BY <1>1, <1>4, NamesDiffer DEF WorkTyped, CopiesAt
<1>6. /\ DOMAIN channel' = DOMAIN channel /\ channel'[n] = waits
      /\ \A k \in Consumers : k # n => channel'[k] = channel[k]
  BY <1>1, <1>4
<1>7. /\ DOMAIN waits = DOMAIN channel[n] \ {c}
      /\ \A d \in DOMAIN waits : waits[d] \in 0 .. MaxAttempts
  BY <1>4
<1> HIDE DEF waits
<1>8. CASE channel[n][c] < MaxAttempts /\ handling' = [handling EXCEPT ![n] = work]
           /\ UNCHANGED givenUp
  <2>1. channel[n][c] + 1 \in 1 .. MaxAttempts
    <3>1. \A a, b \in Nat : a \in 0 .. b /\ a < b => a + 1 \in 1 .. b
      OBVIOUS
    <3>2. channel[n][c] \in 0 .. MaxAttempts /\ channel[n][c] \in Nat
      BY <1>4
    <3> QED
      BY <1>8, <3>1, <3>2, CommandsAssumption
  <2>2. /\ work \in HandlingRecords /\ work.pc = "handle" /\ work.copy = c
        /\ work.tries \in 1 .. MaxAttempts
    BY <1>5, <2>1 DEF HandlingRecords
  <2> HIDE DEF work
  <2>3. CenterTyped' /\ RequestsSound' /\ QueuesTyped' /\ NodesSound'
    <3>1. \A d \in CopiesAt(n) : d \in DOMAIN waits \/ d = work.copy
      BY <1>5, <1>7, <2>2
    <3>2. DOMAIN waits \cup ({work.copy} \ {NoCopy}) \subseteq CopiesAt(n)
      BY <1>5, <1>7, <2>2
    <3>3. /\ DOMAIN waits \subseteq C!Copies /\ work.copy \in C!Copies \ DOMAIN waits
          /\ work.pc # "idle" /\ work.pc # "ack"
      BY <1>4, <1>5, <1>7, <2>2
    <3> QED
      BY <1>1, <1>6, <1>7, <1>8, <2>2, <3>1, <3>2, <3>3, ConsumerMoves, ZenonT(60)
  <2> QED
    BY <1>3, <2>3 DEF CommandInv
<1>9. CASE givenUp' = givenUp \cup {C!Handled(n, c)} /\ UNCHANGED handling
  <2>1. handling' = [handling EXCEPT ![n] = handling[n]] /\ handling[n] \in HandlingRecords
    BY <1>4, <1>9
  <2>2. CenterTyped' /\ RequestsSound' /\ QueuesTyped' /\ NodesSound'
    <3>1. \A d \in CopiesAt(n) : d \in DOMAIN waits \/ C!Handled(n, d) \in givenUp'
      BY <1>5, <1>7, <1>9
    <3>2. DOMAIN waits \cup ({handling[n].copy} \ {NoCopy}) \subseteq CopiesAt(n)
      BY <1>5, <1>7
    <3>3. DOMAIN waits \subseteq C!Copies
      BY <1>4, <1>7
    <3> QED
      BY <1>1, <1>5, <1>6, <1>7, <1>9, <2>1, <3>1, <3>2, <3>3, ConsumerMoves
  <2> QED
    BY <1>3, <2>2 DEF CommandInv
<1> QED
  BY <1>2, <1>8, <1>9

\* The handler of system messages: what is not for the node or has no handler is done
\* with, and of the others those are that their handler has run for.
LEMMA HandleMessageKeeps ==
    ASSUME CommandInv, NEW n \in Consumers, C!HandleMessage(n) PROVE CommandInv'
<1> DEFINE h == handling[n]
           c == h.copy
           goes == handling'[n].pc
           next == [h EXCEPT !.pc = goes]
<1>0. n \in Nodes
  BY DEF Consumers
<1>1. /\ h.pc = "handle" /\ UNCHANGED <<entries, life, restarts, turn, fails, request, counted,
                                        unsent, channel, givenUp>>
      /\ stopAsked' \subseteq stopAsked \cup {n}
  BY DEF C!HandleMessage, C!center
<1>2. /\ WorldTyped /\ WorkTyped(n) /\ h \in HandlingRecords
      /\ handling \in [Consumers -> HandlingRecords]
      /\ DOMAIN channel = Consumers /\ DOMAIN channel[n] \subseteq C!Copies
      /\ \A d \in DOMAIN channel[n] : channel[n][d] \in 0 .. MaxAttempts
  BY DEF CommandInv, QueuesTyped, NodesSound
<1>3. c \in C!Copies \ DOMAIN channel[n] /\ h.tries \in 1 .. MaxAttempts /\ life[n] # "down"
  BY <1>1, <1>2 DEF WorkTyped
<1>4. WorldTyped'
  BY <1>0, <1>1, <1>2, <1>3 DEF WorldTyped
<1>5. ASSUME NEW to \in {"ack", "requeue", "hung"}, NEW done \in BOOLEAN, C!Handling(n, to, done)
      PROVE  /\ handling' = [handling EXCEPT ![n] = next] /\ goes = to
             /\ executed \subseteq executed' /\ (done => C!Handled(n, c) \in executed')
  BY <1>2, <1>5 DEF C!Handling
<1>6. C!Outcome(n, C!Command(c)) \in {"ack", "requeue", "hung"}
  BY DEF C!Outcome
<1>7. /\ handling' = [handling EXCEPT ![n] = next] /\ goes \in {"ack", "requeue", "hung"}
      /\ executed \subseteq executed'
      /\ goes = "ack" /\ C!Addressed(n, c) /\ C!Command(c) \in C!handlers =>
            C!Handled(n, c) \in executed'
  <2>1. CASE ~C!Addressed(n, c) \/ C!Command(c) \notin C!handlers
    <3>1. C!Handling(n, "ack", FALSE)
      BY <2>1 DEF C!HandleMessage
    <3> QED
      BY <1>5, <2>1, <3>1
  <2>2. CASE C!Addressed(n, c) /\ C!Command(c) \in C!handlers
    <3>1. C!Handling(n, C!Outcome(n, C!Command(c)), C!Outcome(n, C!Command(c)) = "ack")
      BY <2>2 DEF C!HandleMessage
    <3> QED
      BY <1>5, <1>6, <3>1
  <2> QED
    BY <2>1, <2>2
<1>8. /\ next \in HandlingRecords /\ next.pc = goes /\ next.copy = c /\ next.tries = h.tries
  BY <1>2, <1>7 DEF HandlingRecords
<1>9. CopiesAt(n) = DOMAIN channel[n] \cup {c} /\ c # NoCopy
  BY <1>3, NamesDiffer DEF CopiesAt
<1>10. CenterTyped' /\ RequestsSound' /\ QueuesTyped' /\ NodesSound'
  <2> HIDE DEF next
  <2> DEFINE waits == channel[n]
  <2>1. \A d \in CopiesAt(n) : d \in DOMAIN waits \/ d = next.copy
    BY <1>8, <1>9
  <2>2. DOMAIN waits \cup ({next.copy} \ {NoCopy}) \subseteq CopiesAt(n)
    BY <1>8, <1>9
  <2>3. /\ next.pc # "idle" /\ next.copy \in C!Copies \ DOMAIN waits
        /\ next.tries \in 1 .. MaxAttempts
        /\ next.pc = "ack" /\ C!Addressed(n, next.copy) /\ C!Command(next.copy) \in C!handlers =>
              C!Handled(n, next.copy) \in executed'
    BY <1>3, <1>7, <1>8
  <2> QED
    BY <1>1, <1>2, <1>3, <1>7, <1>8, <2>1, <2>2, <2>3, ConsumerMoves
<1> QED
  BY <1>4, <1>10 DEF CommandInv

\* The consumer tells the queue: done, or to deliver the message again.
LEMMA RespondKeeps ==
    ASSUME CommandInv, NEW n \in Consumers, C!Respond(n) PROVE CommandInv'
<1> DEFINE h == handling[n]
           c == h.copy
<1>1. /\ handling' = [handling EXCEPT ![n] = C!Idle]
      /\ UNCHANGED <<entries, life, restarts, stopAsked, turn, fails, request, counted, unsent,
                     executed, givenUp>>
      /\ \/ h.pc = "ack" /\ UNCHANGED channel
         \/ C!Requeued(n)
  BY DEF C!Respond, C!world, C!center
<1>2. WorldTyped'
  BY <1>1 DEF CommandInv, WorldTyped
<1>3. CASE C!Requeued(n)
  <2>1. CenterTyped' /\ RequestsSound' /\ QueuesTyped' /\ NodesSound'
    BY <1>1, <1>3, RequeueMoves
  <2> QED
    BY <1>2, <2>1 DEF CommandInv
<1>4. CASE h.pc = "ack" /\ UNCHANGED channel
  <2> DEFINE waits == channel[n]
  <2>1. /\ WorkTyped(n) /\ AckMeansDone(n) /\ h \in HandlingRecords
        /\ DOMAIN channel = Consumers /\ DOMAIN waits \subseteq C!Copies
        /\ \A d \in DOMAIN waits : waits[d] \in 0 .. MaxAttempts
    BY DEF CommandInv, QueuesTyped, NodesSound
  <2>2. C!Idle \in HandlingRecords /\ C!Idle.pc = "idle" /\ C!Idle.copy = NoCopy
    BY CommandsAssumption DEF C!Idle, HandlingRecords
  <2>3. CopiesAt(n) = DOMAIN waits \cup {c} /\ c # NoCopy
    BY <1>4, <2>1, NamesDiffer DEF CopiesAt, WorkTyped
  <2>4. C!Handled(n, c) \in executed \/ ~Meant(C!Message(c), n)
    BY <1>4, <2>1 DEF AckMeansDone, Meant, C!Message, C!Command, C!Addressed
  <2>5. CenterTyped' /\ RequestsSound' /\ QueuesTyped' /\ NodesSound'
    <3>1. \A d \in CopiesAt(n) :
             \/ d \in DOMAIN waits
             \/ C!Handled(n, d) \in executed'
             \/ ~Meant(C!Message(d), n)
      BY <1>1, <2>3, <2>4
    <3>2. DOMAIN waits \cup ({C!Idle.copy} \ {NoCopy}) \subseteq CopiesAt(n)
      BY <2>2, <2>3
    <3> QED
      BY <1>1, <1>4, <2>1, <2>2, <3>1, <3>2, ConsumerMoves
  <2> QED
    BY <1>2, <2>5 DEF CommandInv
<1> QED
  BY <1>1, <1>3, <1>4

-----------------------------------------------------------------------------
(* The whole part *)

\* The calls of operators other than the one message for everybody.
LEMMA CallsKeep ==
    ASSUME CommandInv, NEW r \in Requests,
           \/ \E command \in {"shutdown", "update_load"} : C!BroadcastMessage(r, command)
           \/ C!ShutdownService(r) \/ C!RestartService(r)
           \/ C!GetServiceList(r) \/ C!GetClusterStatus(r)
    PROVE  CommandInv'
<1>1. ASSUME NEW call \in Calls, NEW one \in Nodes \cup {NoNode},
             NEW types \in TargetLists \cup {Types}, C!Asks(r, call, types, one)
      PROVE  CommandInv'
  BY <1>1, CommandsAssumption, AsksKeeps
<1>2. ASSUME NEW call \in Calls, NEW n \in Nodes, C!Asks(r, call, <<TypeOf[n]>>, NoNode)
      PROVE  CommandInv'
  <2>1. <<TypeOf[n]>> \in Seq(STRING)
    BY CommandsAssumption
  <2> QED
    BY <1>2, <2>1, AsksKeeps
<1>3. \A k \in {"shutdown", "update_load", "restart", "none"} :
         \A how \in {"types", "node", "type", "list", "status"} : <<how, k>> \in Calls
  BY DEF Calls
<1>4. CASE C!GetServiceList(r)
  BY <1>1, <1>3, <1>4 DEF C!GetServiceList
<1>5. CASE C!GetClusterStatus(r)
  BY <1>1, <1>3, <1>5 DEF C!GetClusterStatus
<1>6. ASSUME NEW k \in {"shutdown", "update_load"}, C!BroadcastMessage(r, k) PROVE CommandInv'
  BY <1>1, <1>3, <1>6 DEF C!BroadcastMessage
<1>7. ASSUME NEW k \in {"shutdown", "restart"}, C!AsksService(r, k) PROVE CommandInv'
  <2>1. PICK n \in Nodes : \/ C!Asks(r, <<"node", k>>, Types, n)
                           \/ C!Asks(r, <<"type", k>>, <<TypeOf[n]>>, NoNode)
    BY <1>7 DEF C!AsksService
  <2> QED
    BY <1>1, <1>2, <1>3, <2>1
<1> QED
  BY <1>4, <1>5, <1>6, <1>7 DEF C!ShutdownService, C!RestartService

\* Every step of the part keeps its invariant.
LEMMA CommandStep == CommandInv /\ C!CommandNext => CommandInv'
<1> SUFFICES ASSUME CommandInv, C!CommandNext PROVE CommandInv'
  OBVIOUS
<1>1. ASSUME NEW r \in Requests, NEW k \in {"shutdown", "update_load"}, C!BroadcastAll(r, k)
      PROVE  CommandInv'
  BY <1>1, BroadcastAllKeeps
<1>2. ASSUME NEW r \in Requests,
             \/ \E k \in {"shutdown", "update_load"} : C!BroadcastMessage(r, k)
             \/ C!ShutdownService(r) \/ C!RestartService(r)
             \/ C!GetServiceList(r) \/ C!GetClusterStatus(r)
      PROVE  CommandInv'
  BY <1>2, CallsKeep
<1>3. ASSUME NEW r \in Requests, C!CenterStep(r) PROVE CommandInv'
  BY <1>3, GetServicesKeeps, SendToNodeKeeps, PublishKeeps, ReplyKeeps DEF C!CenterStep
<1>4. ASSUME NEW n \in Consumers,
             \/ C!Register(n) \/ C!Crash(n) \/ C!Restart(n) \/ C!LeaseExpires(n)
             \/ C!NodeStep(n)
      PROVE  CommandInv'
  BY <1>4, WorldKeeps, EndKeeps DEF C!NodeStep
<1>5. ASSUME NEW n \in Consumers, C!ConsumerStep(n) PROVE CommandInv'
  BY <1>5, DeliverKeeps, HandleMessageKeeps, RespondKeeps DEF C!ConsumerStep
<1> QED
  BY <1>1, <1>2, <1>3, <1>4, <1>5 DEF C!CommandNext, Consumers

\* The invariant says of the commands what the properties say.
LEMMA CommandsAreKept == CommandInv => C!CommandTypeOK /\ C!CommandAccounted
<1> SUFFICES ASSUME CommandInv PROVE C!CommandTypeOK /\ C!CommandAccounted
  OBVIOUS
<1>1. C!CommandTypeOK
  <2>1. \A r \in Requests : /\ request[r].pc \in {"idle", "work", "done"}
                            /\ request[r].publish.left \subseteq 0 .. Producers - 1
    BY DEF CommandInv, CenterTyped, RequestRecords, Turns
  <2>2. \A n \in Consumers : handling[n].pc \in {"idle", "handle", "ack", "requeue", "hung"}
    BY DEF CommandInv, QueuesTyped, HandlingRecords
  <2> QED
    BY <2>1, <2>2
       DEF CommandInv, WorldTyped, QueuesTyped, NodesSound, WorkTyped, C!CommandTypeOK,
           Consumers, Turns
<1>2. C!CommandAccounted
  <2> SUFFICES ASSUME NEW m \in counted, NEW n \in Consumers, Meant(m, n)
               PROVE  \/ C!BeingPublished(m)
                      \/ m \in unsent
                      \/ C!AtNode(n, m) # {}
                      \/ C!Handled(n, m) \in executed \cup givenUp
    BY DEF C!CommandAccounted, Meant, Consumers
  <2>1. Reached(m, n)
    BY DEF CommandInv, NodesSound
  <2>2. CASE \E c \in CopiesAt(n) : C!Message(c) = m
    <3>1. C!AtNode(n, m) # {}
      BY <2>2, CopiesBegun, NamesDiffer DEF CopiesAt, C!AtNode
    <3> QED
      BY <3>1
  <2> QED
    BY <2>1, <2>2 DEF Reached
<1> QED
  BY <1>1, <1>2

=============================================================================
