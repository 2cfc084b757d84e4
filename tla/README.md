# Verification of cogame

cogame is a game-server framework in Go. A deployment runs one process per node:
*gateway*, *login*, *lobby*, *center*. Every node builds the same base server
(`internal/server/server.go`: Mongo, Redis, NSQ, an etcd registration, a gRPC server)
and adds its own service. Game clients keep a TCP connection to a gateway; the nodes
find each other in etcd and send each other gRPC calls and NSQ messages.

This directory holds TLA+ models of the parts of that program where goroutines,
failures and shared stores meet, TLC configurations that check them on small
instances, and TLAPS proofs of what should hold on every instance.

## 1. Inventory

| Component | State | Operations | Interacts with |
|---|---|---|---|
| TCP server (`network/tcp_server.go`) | `running`, listener, `connections` (sync.Map), `connCounter`, wait group | accept loop, one handler per client, heartbeat loop, `Stop`, `SendToUser`, `Broadcast` | connection pool, connection objects, gateway handler |
| Connection (`network/tcp_conn.go`) | ID, Conn, UserID, LastActivity, closed | Read, Write, Close, Reset, IsClosed | every goroutine of the TCP server that holds its pointer |
| Object pools (`pool/`) | buffered channel, `created` | Get (idle, new, wait 100 ms), Put | accept loop, handlers |
| Gateway handler (`server/gateway_server.go`) | the connection's UserID; the online key in Redis | login, logout, heartbeat, forward | TCP server, login node (gRPC), Redis |
| Login (`server/login_server.go`, `cache/session.go`, `cache/user.go`) | session and online keys with expiry, users | Login, Logout, ValidateToken, RefreshToken | Mongo, Redis |
| Lobby (`server/lobby_server.go`) | `nextRoomID` | CreateRoom, JoinRoom, LeaveRoom, GetRoomList | room repository |
| Room repository (`database/mongodb/room.go`) | `rooms` collection, unique `room_id` | insert, find, push/pull with counter, set, delete | lobby |
| Node lifecycle (`server/server.go`, `cmd/main.go`) | `status`, mutex, wait group | Start, Stop, load loop | everything below |
| Etcd registry (`discovery/etcd.go`) | lease, `services`, mutex; keys in etcd | Register, Unregister, UpdateLoad, Watch, Close, keep-alive loop | etcd, lifecycle |
| Discovery and load balancers (`discovery/etcd.go`) | cache of service lists, round-robin cursor | GetService, refresh loop, watch callbacks | registry |
| System service and center (`server/system_service.go`, `server/center_server.go`) | load figure | update-load, shutdown, hot-update; center's broadcasts, shutdowns, restarts and lists | NSQ, lifecycle |
| Message queue (`mq/`) | producers, consumers, cursor | Publish with failover, Subscribe, Close | nsqd, system handler |
| Rate limiter (`security/limiter.go`) | a token bucket per key | CheckLimit, cleanup every 5 minutes | gateway |
| Actor runtime (`actor/`) | mailbox, `running`, mutex | Start, Tell, Stop; system's Spawn, Tell, Shutdown | lifecycle (shutdown) |
| Start of a process (`cmd/main.go`, `server/server.go`, the constructors) | the clients, producers and logger made so far | NewServer and the constructors in order; each may fail | Redis, Mongo, nsqd, etcd, logger |
| Client protocol (`examples/login/main.go`, `network/tcp_server.go`) | bytes on their way in two directions | login, heartbeats, logout in length-prefixed frames | gateway handler |
| Monitoring (`monitoring/monitoring.go`) | rules, history | AddRule, CheckRules, getAlerts, metrics | nobody starts it |
| Redis wrapper, logger, Mongo manager, generated code | — | single commands, formatting | — |

What is hard in each part, and what makes it correct:

* **TCP server.** Five kinds of goroutine hold pointers to *recycled* objects. An object
  must serve one client at a time; map, handlers and sockets must agree at every step of
  the accept loop's and the deferred clean-up's sequences; the limit is checked several
  steps before it takes effect; `Stop` must end and leave nothing, also for clients admitted
  while it runs.
* **Lobby.** Calls read a document, decide, and write it back without a lock, a transaction
  or a condition in the update; two calls, or a crash between two writes, interfere. The
  ID counter restarts, the collection does not.
* **Lifecycle and registry.** Two mutexes, a wait group, a lease that can be lost, a `Close`
  that cancels the context it then needs. Stop must return; a live node must be visible.
* **Sessions.** Two keys with expiries, several commands per operation, several connections
  of one user.
* **Discovery cache.** Four writers of one cache entry, each with a list read earlier.
* **Message queue.** At-least-once delivery, failover that republishes, handlers that stop
  the consumer they run on.
* **Limiter.** Deleting a bucket must not give a key tokens it had not earned.
* **Actors.** `Stop` waits for a goroutine that may need the lock `Stop` holds; each start of
  an actor must be ended by one stop.
* **Start.** A dozen things may be missing; a process that comes up anyway must have a
  producer, stop those it does not keep, and log as configured.
* **Framing.** One `Read` is taken for a whole header or body, on both sides, and the gateway
  goes on after a `Write` that its deadline has cut.

`PROJECT.json` lists each hazard at its line with the properties that cover it, or the reason
why none does, which mostly is that the code does go wrong there.

## 2. Plan

| # | Modules | State |
|---|---|---|
| 1 | `TcpServer`, `ConnectionRegistry` (abstract), `TcpPush`, `TcpServerProofs`, `TcpPushProofs` | done |
| 2 | `LobbyRooms`, `LobbyRoomsProofs` | done |
| 3 | `NodeLifecycle`: start, stop and load loop against the two mutexes, the registration and its lease, crashes; `NodeLifecycleProofs` | done |
| 4 | `RateLimiter`, `TokenBucket` (abstract), `RateLimiterProofs` | done |
| 5 | `Sessions`: session and online keys, expiry, re-login, gateway disconnect; `SessionsProofs` | done |
| 6 | `Commands`: the center's calls, NSQ failover and delivery, dispatch, crashes | done |
| 7 | `Discovery`: the service cache and its four writers | done |
| 8 | `BaseActor`, `ActorSystem` | done |
| 9 | `Framing`: one-`Read` framing between client and server | done |
| 10 | `Startup`: from main to a server | done |
| 11 | `Alerts`: rules, cooldown, history | done |
| 12 | `NodeServices`: the modules of 6 to 11 composed; `CommandsProofs`, `NodeServicesProofs` | done |

`NodeServices` composes the modules of 6 to 11, and `MCServices` checks them in one run;
`Sessions` has its own.

Runs stay below 2 million states. Proofs: the inductive invariant of every module whose
safety properties hold, and every refinement of an abstract specification.

## 3. The TCP server

`TcpServer` has one action per step between two synchronization points of a goroutine.
Program counters name the place: `acceptPC` (head, accept, count, get, wait, store, spawn,
done), `handlerPC[s]` per client socket (loop, read, handle, close, delete, put, done),
`beatPC`, `stopPC`. `own[s]` is the `conn` argument of the handler launched for socket `s`;
`obj` holds the fields of each Connection object, so a goroutine that kept a pointer sees
what the accept loop has bound to the object since. `sock[s]` is the server's side of a
client (new, open, closed). `idle`, `made` and `created` are the pool's channel, the
objects the factory ever returned, and its counter. LastActivity is one bit, `stale`:
older than the heartbeat's 60 seconds. A message's content is abstracted to what the
gateway's handler does to the connection: login, logout (`Close`), anything else, and
taking longer than 60 seconds. The address limiter either lets a client in or not.

`TcpPush` adds goroutines that run `SendToUser` or `Broadcast`: they walk the map, keep a
pointer and write later. The history variables `delivered[s]` and `audience[s]` record for whom data was written to
socket `s` and who has logged in there.

`ConnectionRegistry` is the promise: clients are served at most once, at most `Limit` at a
time, and the registry closes only when nobody is served. It may die at any time: `Accept`
fails not only on the listener that `Stop` has closed but also on an open one (no descriptor
left, say), and either way the accept loop uses the nil `conn` before it looks at `err`
(`AcceptError`). The refinement mapping takes the
sockets of the objects in the map as served, the sockets whose handler has deleted its
entry as past, and `running`/`stopPC`/`panicked` as the phase.

| Run | Instance | Shows |
|---|---|---|
| `tcp_safety` | 3 clients, 3 objects, limit 2 | the six safety properties in every interleaving (1.2 million states up to symmetry) |
| `tcp_live` | 2 clients, 2 objects, limit 1, fairness | `StopTerminates`; refinement of `ConnectionRegistry` |
| `tcp_push` | 2 clients, limit 1, a pusher and a user | logins are not inherited by recycled objects; kept pointers never lead to a nil Conn |
| `tcp_stop_graceful` | 2 clients | *violation*: `Stop` while the accept loop is in `Accept` kills the process (nil `conn` used before `err`) |
| `tcp_push_user` | the pusher with two users | *violation*: data sent to a user reaches another client through a recycled object |

Bounds. Three clients with a limit of two exercise the refusal, two clients served at once,
the recycling of an object by a third client while pointers to it are still held, and the
pool's wait and timeout; for liveness two clients suffice, one served and one admitted during
`Stop`. The proofs below cover every other size. Sockets are never
reused, so they also bound `connCounter`. With as many objects as clients the factory never
runs out.

Three more things the model shows, for which there is no property: `Close` never sets the
closed flag (`IsClosed` is constantly false); an object made after the 100 ms wait is not in
`created`; and the heartbeat may close a connection that has become active since the scan.

Fairness. `FairSpec` asks weak fairness of the accept loop, each handler, the heartbeat's
own steps and `Stop`'s: a goroutine that can run eventually does. A handler's Read ends
because the 30 s deadline of the connection ends it (`ReadFail`), an `Accept` on a closed
listener returns with an error, and `HandleMessage` is assumed to return. No fairness is
assumed of clients, of an `Accept` failing on an open listener, of the ticker
(`HeartbeatScan`), of a slow message, nor of anybody calling `Stop`. `StopTerminates` allows for the process dying,
which `tcp_stop_graceful` shows it may during a Stop; that property is stated of a server
that is stopping, so that no other failure of `Accept` counts.

### Proofs (`TcpServerProofs`)

All theorems hold for any sets of sockets, objects and users and any limit of at least one.
They rest on one inductive invariant,

    IndInv == TypeOK, AcceptHolds, NewUnused, MadeObjects, ObjectExclusive,
              MapMatchesHandlers, FreshID, RoomForAdmitted, NoLeakedSocket, StopOrder,
              stop => WaitGroupZero

`ObjectExclusive` is not inductive: an object handed out by the factory must be new to
everybody (`MadeObjects`), a handler must not run before its socket has been accepted
(`NewUnused`), and the accept loop's locals must be what its program counter says
(`AcceptHolds`). `MapMatchesHandlers` needs the next ID to be unused (`FreshID`);
`ConnectionLimit` needs that, once the limit has been checked, only handlers change the map
until the store (`RoomForAdmitted`). `StopOrder` says what has been shut down at each of
Stop's steps; with the wait group it gives `StopLeavesNothing`. From it follow
`TypeCorrect`, `PoolExclusive`, `MapAgrees`, `LimitHolds`, `SocketsHeld`, `StopIsComplete`
and `RegistryRefinement` (every step of the server is a step or a stutter of
`ConnectionRegistry`, the death of the process while it serves included).

### Proofs (`TcpPushProofs`)

The same invariant holds with any number of pushers, since they change neither the map nor
the objects; `PushInv` adds their types and the two properties of `TcpPush` themselves,

    PushInv == IndInv, PushTypes, LoginNotInherited, HeldIsBound

which turn out to be inductive with the server's invariant: an object in use is bound
(`MapIsBound`), and it is given to a new client only after `Reset` and `Put` by the one
handler that owns it (`ObjectExclusive`). `tcp_push_user` stays a violation: what is proved
is that the *login* is not inherited, not that the data reaches whom it was meant for.

## 4. The lobby

`LobbyRooms` has one slot per gRPC call in flight (`Requests`). A slot's record is the
goroutine: `op`, `pc`, the user, the room ID and `doc`, the `room` variable read at the
start or built by `CreateRoom`. `rooms` maps `room_id` to the document; `oid` stands for
`_id`. Every repository call is one atomic step. The checks a call makes after its read
depend on nothing but the copy, so read and checks are one action; `Refused` stands for
every refusal before the first write, among them the wrong password. `StoreFails` lets a
write be reported as failed although it was or was not applied. `Restart` kills the calls
and draws IDs from 1000 again. Passwords are not modelled as values: a document's password
never changes, so a check of the same document is a check of its password. A slot keeps
`doc` only where the code still writes it, and `checked`, the `_id` of the document it read.
Two history variables say where less can be promised: `raced`, the rooms two calls have
worked on at once, and `cut`, those on which a crash or an error broke off a call.

| Run | Instance | Shows |
|---|---|---|
| `lobby_rooms` | 2 users, 2 calls, capacity 2, write errors, 1 restart | rooms are neither overwritten (`RoomKeepsIdentity`) nor resurrected by late writes (`OnlyCreateAddsRooms`); until a restart a call writes to the room it has checked (`ChecksStillApply`); where calls do not race, counter, list and capacity agree (`RoomConsistent`), the owner is a player unless a call was cut short (also `RoomConsistent`); success replies are true with the exceptions below, under races too (`RepliesAreTrue`) |
| `lobby_owner_leave` | 1 call at a time, no failure | *violation*: the owner who left is written back by the whole-document update |

Bounds. `LastRoomID`, `ListBound`, `CountBound` and `MaxRestarts` only stop new calls (or
restarts) from beginning; calls under way finish unhindered. Two concurrent calls produce
every pairwise race; one room ID suffices to be deleted and drawn again. `MaxPlayers` is 2,
the least the code accepts, so that two users fill a room.

The conditions are needed. Without `raced`, TLC shows joins that overfill a room or list a
user twice, a join that succeeds on a deleted room, and counters below the list's length;
without `cut`, a room whose owner is gone because the process died between the removal and
the hand-over; with a restart, a join that was checked against one room and adds the player
to another that got its ID.

`RepliesAreTrue` takes each way a call can succeed. Whatever the other calls do, whoever is
told that the room was created is in it, a player who was removed is no longer in it, and the
room that a lone owner left is gone. A join is true unless the room was deleted meanwhile,
which only a race can do; the code answers success then. A leave that removed nobody, because
the caller was the owner and found nobody to hand over to, is true where calls do not race.
One exception needs no race: the owner who leaves a room with other players is written back
into it, which is the finding of `lobby_owner_leave`; of this reply `RepliesAreTrue` says that
somebody else of the room owns it now.

Most of what one would like to say of a room fails under concurrency; the properties that
hold there are those the unique index, the immutable `_id` and Mongo's per-document
atomicity give. There is no liveness property: a call is a straight line.

### Proofs (`LobbyRoomsProofs`)

For any users, any number of calls in flight, any capacities from 2 to 8 and any bounds. The
inductive invariant is

    IndInv == TypeOK, OpsMatch, NewRooms, CopiesAgree, FreshIDs, SoleCaller,
              CallsKnow, RoomsSound, OwnerIsMember, ChecksStillApply

`RoomConsistent` and `RepliesAreTrue` speak of documents; what makes them inductive is what a
call still knows of the document it read. A copy that is written back whole has the capacity
of the room it overwrites, if it is the same room, and a player to take over
(`CopiesAgree`). Where nobody raced there is one caller at a room at most
(`SoleCaller`), so that what it has read still holds (`CallsKnow`), and every document is
sound (`RoomsSound`, `OwnerIsMember`). `ChecksStillApply` needs that until the first restart
every ID in use has been drawn once (`FreshIDs`). From the invariant follow `TypeCorrect`,
`ChecksApply`, `RoomsConsistent`, and, as properties of steps, `IdentityKept`,
`RoomsAppearByCreate` and `RepliesTrue`.

What removing a player from a list leaves (`Others`) is proved by an induction over the
positions of the list: the set of the numbers for which the claim holds has no least
missing one.

## 5. The life of a node

`NodeLifecycle` is one gateway node and what etcd keeps of it. `mainPC` is the main
goroutine (Start, the TCP server's Start, the wait for a signal, Stop). `stopPC[c]` is a
caller of `bs.Stop`: main, or the goroutine a shutdown command starts; its places are the
calls in Stop's body in their order (TCP server, GracefulStop, NSQ, Unregister, Close,
`wg.Wait`). `updatePC[u]` is a caller of `registry.UpdateLoad`: the load loop, the NSQ
consumer's handler, a gRPC call. `mutex` is the holder of `bs.mutex`; `registry` holds the
registry's own mutex, whether `r.services` lists the node, whether `r.ctx` is cancelled, and
`leaseID`. Of etcd the model has the live leases and the lease the node's key was put with.
A crash, a fatal error in Start, the panic of the TCP server's accept loop (section 3) or
main's return end the
process with its goroutines; a restart is a new process with a new lease while the old key
may still be there. `Start` is two atomic steps, since nobody else reads what it writes
between them but through `bs.mutex`.

Libraries: `GracefulStop` returns when the pending gRPC calls are answered; an NSQ consumer
closes `StopChan` when its handler has returned or after 30 seconds; etcd drops a key with
its lease and refuses a Put with a dead one.

| Run | Instance | Shows |
|---|---|---|
| `node_lifecycle` | a signal, 2 shutdown commands, 1 gRPC call, 3 leases, fairness | Stop's body runs once (`StatusAdvances`) and leaves nothing running (`StoppedMeansQuiet`); etcd shows a running node's present lease, and nothing once the lease was lost (`RegisteredWhileRunning`); the key of a dead or stopped node goes away (`KeyEventuallyGone`); a Stop that finds the node running ends unless a goroutine hangs in `UpdateLoad` (`StopCompletes`) |
| `node_update_load` | as above, 1 lease | *violation*: `UpdateLoad` locks the registry's mutex and calls `Register`, which locks it again |

The hang of `UpdateLoad` bears on the other properties: the first tick of a registered
node's load loop, 30 seconds after Start, hangs the loop, and every later Stop waits for it.
`StopCompletes` therefore says what the rest of the shutdown does when no goroutine hangs.
Three more facts are visible in the model without a property: a shutdown command that
arrives before Start is lost; a node stopped by a command keeps its process, main waiting
for a signal; and one stopped between the base server's Start and the TCP server's ends
"stopped" with its TCP server serving (`late`).

Bounds. Two shutdown commands and the signal are three callers of Stop, enough for one
inside and two waiting. `MaxLeases` bounds restarts and re-creations of a lease together.
Deadlock is not checked: with all leases granted and the process down nothing need happen.

Fairness. Goroutines that can run do: main's steps, each Stop, a caller waiting for a free
registry mutex. A lease nobody keeps alive expires. Only the load loop's end needs strong
fairness: its `select` may find the ticker and the cancelled context both ready, and Go
chooses at random. Nothing asks for signals, commands, ticks, crashes, restarts or network
failures.

### Proofs (`NodeLifecycleProofs`)

For any shutdown commands, any gRPC calls of UpdateLoad and any number of leases:

    IndInv == TypeOK, MainOrder, StopHolds, StopEnds, LeaseAlive, RegisteredWhileRunning

Whoever is inside Stop's body holds `bs.mutex` and has set the status (`StopHolds`), so
there is one at most; what each of its calls has ended stays ended (`StopEnds`), which gives
`StopIsQuiet` when the last has returned. `MainOrder` keeps main's own Stop and its Start
apart. `RegisteredWhileRunning` needs that the lease of a running node is alive as long as
it has not been lost (`LeaseAlive`): a lease re-created by the keep-alive is the one the key
is put with. `StatusNeverReturns` follows step by step.

## 6. The rate limiter

`RateLimiter` has the manager's map from keys to buckets; each operation runs under its
mutex and is one action. `CheckLimit` is `Allow` or `Refuse`, after the bucket has been found
or made; tokens are counted only when a request comes (`Refilled`), as `x/time/rate` does,
and a refusal changes nothing. `Cleanup` drops every bucket whose last *allowed* request is
more than `Expiry` ago. Time and tokens are integers in one unit: a key gains a unit a tick,
a request costs `Cost[k]` ticks' worth and a full bucket holds `Capacity[k]`. With ticks of
0.1 s the gateway's messages (10 a second, burst 50) have cost 1 and capacity 50, connections
(5 a second, burst 5) cost 2 and capacity 10, and the expiry is 36000. `ExpiryAssumption`,
that a bucket fills within the expiry, is all the cleanup needs to be unnoticeable.

`TokenBucket` is the promise: one bucket per key that is never dropped. The refinement
mapping gives each key what a request would find now; `answer` makes sure that the same
requests are allowed and refused.

| Run | Instance | Shows |
|---|---|---|
| `rate_limiter` | 2 keys with different rates, expiry 4, 11 ticks | at most the burst and the rate's share is allowed (`RateBound`); refinement of `TokenBucket` (`ImplementsTokenBucket`) |

Eleven ticks let a bucket be used, expire, be made again and expire once more.

Proofs (`RateLimiterProofs`), for all keys, costs, capacities and times under the
assumptions in the module. The inductive invariant is

    IndInv == TypeOK, LastOrder, SpentAndLeft

`RateBound` alone is not inductive: `SpentAndLeft` adds what is left in each bucket to what
has been spent. `LastOrder` (a bucket's clock is not ahead of `lastRequest`) is what makes a
bucket full when it is dropped (`CleanupTakesNothing`). The lemmas say what each operation
does to what a request finds (`AllowTakes`, `RefuseTakesNothing`, `CleanupTakesNothing`,
`TickAdds`); invariant and refinement both rest on them.

Floating-point rounding of tokens, a clock that goes backwards and `SetLimit`/`SetBurst`
(`limiter.go:75`) are outside the model; the last is reached only if a key is checked with
two rates, which no server does.

## 7. Logins and sessions

`Sessions` puts the login server's four handlers, the gateways' login and logout, and the two
Redis keys they share side by side: `session[token]` and `online[user]`, each with its expiry.
A Redis command is one action and may fail; a handler with two commands is two actions
(`ValidateToken` and `ValidateTokenExtends`, `RefreshToken` and `RefreshTokenIssues`,
`Logout` and `LogoutSetsOffline`), and a login is spread over the gateway's handler
(`HandleLogin`, `LoginBinds`, `LoginAnswered`) and the login server's call (`LoginVerified`,
`LoginSetSession`), which goes on after the gateway's three seconds. A token is the pair of
what the code hashes, the user and the second. `ghosts` is history: the users whose online key
may outlive their connections because a client broke off, a connection went on as another
user, or Redis failed.

| Run | Instance | Shows |
|---|---|---|
| `sessions` | 2 clients on 2 gateways, 3 users (one banned), 2 logins at a time, TTLs and clock of 2 s, 1 failed command | a token opens its own user's session only (`TokenOpensOwnSession`); only a login or a refresh makes a session (`OnlyIssueCreates`); a session ends at its time or at its holder's wish, and a refresh gives a token that works (`HeldTokenWorks`); nobody is online on a gateway without a connection or one of the named reasons (`PresenceHasReason`) |

Two clients with a user in common are enough for a login that overtakes a logout, and a clock
of two seconds for a second login within the second, for expiry during a call, and for a
refresh in the login's own second. The module checks no fairness: everything in it may stop.
What the condition in `PresenceHasReason` leaves open is real: a broken connection leaves its
user online for up to 30 minutes, and a logout takes the online key away from the user's other
connections.

### Proofs (`SessionsProofs`)

For any users, connections, gateways, calls, lifetimes and bounds:

    IndInv == TypeOK, LoginsKnown, HandlersKnown, OneWaits, ClientsKnown,
              SessionsOwn, PresenceHasReason

`TokenOpensOwnSession` needs that whatever carries a token carries its own user's: the
session in Redis (`SessionsOwn`), a login under way (`LoginsKnown`), a client and the call it
makes with it (`ClientsKnown`). `PresenceHasReason` needs that a handler that is about to set
the online key is bound to that user (`HandlersKnown`), and that an answer of the login
server is waited for by one handler (`OneWaits`). The properties of steps follow:
`OnlyIssueMakes` and `TokensWork`.

## 8. Operator commands

`Commands` follows a command from the center's gRPC handler to a node. `request[r]` is a call:
the types it has yet to look up (`GetServices`), what it has found (`SendToNode`), the message
it is publishing and the producers left to try (`Publish`). `channel[n]` is the node's NSQ
channel, which outlives the node; `handling[n]` is what its consumer works at, from `Deliver`
over `HandleMessage` to `Respond`. `life[n]` abstracts NodeLifecycle: down, starting, running,
stopping. A node may crash at any point and start again; what it worked at is delivered again.

A broadcast looks through the list of types the operator sends (`TargetLists`); a type that
is listed twice is looked through twice, and its nodes get the message twice. The sends of a
call are therefore numbered (`nth`): a message is one send, not one pair of call and node.

`CommandAccounted` follows every pair of counted message and node: the message is being
published, in the channel, at work, executed, given up after `MaxAttempts` deliveries, or in
`unsent`, the messages that no producer took, which the center counts as sent all the same.
`ShutdownArrives` says a shutdown that waits in a running node's channel with a delivery left
ends that life of the node. The condition is needed: a shutdown whose deliveries all ended
with the node's death, before its handler had returned, is given up by the queue, and the node
that is then running goes on. `MaxRestarts` is no smaller than `MaxAttempts`, so that this
happens in the run.

Modelled as the code does it, without a property: no handler is registered for `restart`, so
RestartService reports success and nothing happens; a duplicate of a command, from a failover
after a publish that had arrived, is executed twice; a center that asks by type gives up at the
first error, by node it goes on; an `update_load` on a registered node hangs the consumer
(section 5), so that later commands stay in the channel. GetServiceList and GetClusterStatus
only count what they find. Since UpdateLoad never gets to refresh UpdateTime, a node looks
offline to the center a minute or two after its start, and gets no commands then but those
sent to all: `SendToNode` may skip any node found.

Assumed: channels exist from the start (a consumer that has not found an nsqd yet has no
channel there), the queue is a cluster with failover, a lookupd is there, and a handler that
takes longer than NSQ's message timeout is not delivered twice.

## 9. Discovery

`Discovery` is one node's cache and its writers: lookups of a type that is not cached, the
goroutine a watch event starts, and the 30-second refresh. Each reads the list from etcd in one
step and writes the cache in another. `CacheCatchesUp`: once services cease to come and go,
every cached list becomes what etcd holds and stays so, since a refresh after the last stale
write repairs it. Until then an older list may replace a newer one.

## 10. Actors

`BaseActor` is one actor: the read-write mutex with its waiting writers, the mailbox, the
goroutine of each Start. `QuietAfterStop`: no goroutine handles messages after Stop has
returned, and never two at once. `ActorStopReturns`: Stop ends, except when OnReceive waits for
its own actor's mutex in Tell, in which case both wait for ever. A stopped actor that is
started again ends as soon as its goroutine sees the old, cancelled context.

`ActorSystem` is the registry: SpawnActor and Shutdown under its mutex, Tell in the caller's
goroutine. `LivesEnd` (checked with `QuietAfterStop`): each successful OnStart is matched by
one OnStop, or the actor is still registered. Two facts stand out: SpawnActor calls OnStart
but never BaseActor's Start, so the mailbox goroutine of the servers' actors never runs; and
the system's Tell calls OnReceive directly, also on an actor that Shutdown has just stopped.
No server calls either Tell.

## 11. Framing

`Framing` has the example client's runClient, the server's read loop, the gateway's answers
and a broadcast, over two byte streams. A header and a body are two pieces each, and a Read
returns any prefix of what it asked for. The gateway writes under a deadline set before the
request was read; a broadcast may come long after it. So a write (`WriteFrame`) puts the frame
on its way whole, or cut after one to three pieces (`CutFrame`), or not at all, with the
client still there; the error is logged and the loop goes on. The client's own writes have no
deadline. `FramesAligned`: as long as no Read of a direction has come short and no Write has
been cut, every frame that was written reaches its reader whole and in order: one that was
refused outright shifts nothing. After a short Read or a cut Write the code loses the
boundary, and takes what follows for a header; no property claims otherwise.
`ClientEnds`: even then, and when an answer was never written, client and server do not wait
for each other for ever, thanks to the server's 30-second read deadline alone, for the client
has none.

## 12. The start of a process

`Startup` goes from `NewServer` to a server that can be started, for every node type and
every mode of Redis and NSQ: each thing it connects to may be missing, and ends the process
(`logger.Fatal`). The producers of an NSQ cluster are opened one after the other, kept or
stopped. `StartupSound`: whoever comes up has a main producer among those it publishes with,
each of them once and no other one open, and a logger made from its configuration.
Redis in cluster or sentinel mode ends in a panic: the client for these modes is
never made and Ping is called on nil.

## 13. Alerts

`Alerts` is the alert manager with a clock in ticks of 30 seconds; a rule's condition may hold
or not at any check. `CooldownKept`: in the history, and in the part of it getAlerts shows, two
alerts of one rule are at least its cooldown apart and in order.

## 14. The services together

The modules of sections 8 to 13 share no state, so one specification holds them all:
`NodeServices` instantiates each and a variable `part`, fixed at the start, says which of
them moves. Every behaviour is one of a single part, so the states of the run `services`
(`MCServices`) add up instead of multiplying, and each property is checked in its own part.

| Part | Instance | Properties |
|---|---|---|
| commands | one living node, one dead with its key left, 2 producers, 2 deliveries, 2 failed publishes, 2 restarts; an `update_load` followed by a shutdown, shutdowns to all, by one type, and to a list of types with a repetition, a restart, both lists | `CommandAccounted`, `ShutdownArrives` |
| discovery | 2 services of 2 types, 1 lookup, 2 changes, 1 failed read | `CacheCatchesUp` |
| actor | 3 callers, 2 starts, mailbox of 1 | `QuietAfterStop`, `ActorStopReturns` |
| system | 3 objects, two of them with one ID, 1 teller, 2 starts each | `QuietAfterStop` |
| framing | 1 heartbeat between login and logout, 1 broadcast | `FramesAligned`, `ClientEnds` |
| startup | every configuration, up to 3 nsqds | `StartupSound` |
| alerts | 2 rules, cooldowns of 2 and 3 ticks, 5 ticks | `CooldownKept` |

Why these are enough: one node and one dead entry give every fate of a message, its
redelivery and its end; two restarts let the node die in each of a message's two deliveries
and come up once more; a list with a type in it twice sends a node two messages; two failed
publishes exhaust both producers; two changes let a stale
list meet two newer ones; a mailbox of one is full with one message, and three callers are one that
stops, one that tells and one that starts; one broadcast falls between any two answers; five
ticks are a cooldown over and the next one begun.

Fairness is weak everywhere, and asked of goroutines that can run: the one that calls Stop a
second after a shutdown, a node's consumer, the refresh loop, a lookup that has begun, some
pending callback, actors' callers and goroutines, both ends of a connection, and of the read
deadline. Nothing asks for crashes, restarts, registrations, changes, failed commands or
broadcasts, nor for anybody to make a call.

### Proofs (`CommandsProofs`, `NodeServicesProofs`)

For any constants that satisfy the assumptions in `NodeServices`: bounds are numbers, what
stands for nobody is nobody, the types looked through are lists of names, with or without
repetition, the zero time of an alert rule is no time of the clock. The invariant is the conjunction of one for each
part; a step is one of a single part, and the others rest.

    IndInv == CommandInv, DiscoveryInv, ActorInv, SystemInv, FramingInv, StartupInv, AlertInv

* **Commands** (`CommandsProofs`). `CommandInv == WorldTyped, CenterTyped, RequestsSound,
  QueuesTyped, NodesSound`. `CommandAccounted` is not inductive by itself. A message that is
  acknowledged leaves the node for good, so its handler must have run by then
  (`AckMeansDone`). A copy that a failed publish left in a channel must not be the one the
  next producer adds while the consumer works at it: a copy is of no producer that has still
  to be tried (`Known`), and none of those is tried twice (`Publishes`). And a message must
  be counted once only, or a second publish of it would put back a copy that is at work: the
  number of a send is above those of all that its call has counted (`Numbered`).
* **Discovery.** Every list read, waiting to be written, or cached is one of services of its
  type.
* **Actor and actor system.** Only the caller that holds the mutex for writing waits for the
  goroutine, and there is a live goroutine only while the actor runs or somebody is stopping
  it. An actor in the system is registered under its own ID, and Shutdown visits actors that
  are registered.
* **Framing.** The bytes on their way are exactly the frames written and not yet read, less
  the header that has been read (`Rest`, `Begun`), unless a Read came short, a Write was cut,
  or nothing is read in that direction any more.
* **Startup.** The producers in use are those that are open, each listed once with an address
  that has been passed; the logger is made before whatever may log.
* **Alerts.** A rule remembers a time no earlier than that of any of its alerts
  (`RulesRemember`), so the next one is a cooldown later than all of them.

From it follow `TypeCorrect`, `CommandsAccounted`, `ActorsAreQuiet`, `FramesStayAligned`,
`StartsAreSound` and `CooldownsKept`.

## 15. What is only model-checked, what is not modelled

* Liveness (`StopTerminates`, `KeyEventuallyGone`, `StopCompletes`, `ShutdownArrives`,
  `CacheCatchesUp`, `ActorStopReturns`, `ClientEnds`) is checked by TLC and not proved: the
  proof system does not handle liveness under fairness. Every invariant and every property
  of steps that a run checks is also proved. The four violations are TLC's counterexamples.
* Timeouts as durations and message contents are abstracted as said above.
* The Go memory model is idealized: `s.running` and the fields of a Connection are read and
  written atomically although the code does not synchronize them, and so are the registry's
  `leaseID` and `keepAlive`, which the code reads without its mutex.
* GetRoomList and the system service's gRPC statistics read and change nothing. KickUser and SendToUser of
  the gateway's gRPC service, hot updates and reloads do nothing yet. Game and chat messages
  have handlers and no sender; Unsubscribe and DeferredPublish have no caller.
* The load balancers select from a list; of the two, the round-robin one keeps a cursor and is used
  by no server. Of the Redis wrapper the set-up and the session keys are modelled; its lock,
  hashes, lists and publish/subscribe are single commands without a caller. The users
  collection is single-document reads and writes behind the login. The message, buffer and
  actor pools are the generic pool of section 3 with other factories.
* Metrics and HTTP routes of the monitoring, the formatting of the logger, the generated
  protobuf code, the samples and the scripts take no part in any protocol.
