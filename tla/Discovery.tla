------------------------------ MODULE Discovery ------------------------------
(***************************************************************************)
(* The cache of services that every node keeps (ServiceDiscovery in        *)
(* src/internal/discovery/etcd.go), and what writes it: lookups that find  *)
(* nothing cached, a goroutine for each change of the services of the      *)
(* node's own type, and a loop that refreshes every cached type.  All of   *)
(* them read etcd first and write the cache later, without a lock that     *)
(* spans the two, so that an older list may replace a newer one.           *)
(*                                                                         *)
(* Selecting one of the services found is WeightedLoadBalancer's; it keeps *)
(* no state.                                                               *)
(***************************************************************************)
EXTENDS Naturals, FiniteSets

CONSTANTS
    Services,
    TypeOfService,  \* the type of each service
    OwnType,        \* the type of the node whose cache this is
    Lookups,        \* bound: concurrent callers of GetService and GetAllServices
    MaxChanges,     \* bound: services that come and go
    MaxErrors       \* bound: reads of etcd that fail

VARIABLES
    registered,  \* etcd: the services there are
    changes,     \* changes of registered so far
    errors,      \* failed reads so far
    cache,       \* serviceCache: cached types and the services of each
    events,      \* watch events on their way
    callbacks,   \* goroutines about to write the cache: [change, left, list]
    refresh,     \* updateCacheLoop
    lookup,      \* each caller
    closed       \* ServiceDiscovery.Close

discoveryVars == <<registered, changes, errors, cache, events, callbacks, refresh, lookup, closed>>

ServiceTypes == {TypeOfService[s] : s \in Services}
OfType(t) == {s \in registered : TypeOfService[s] = t}

Waiting == [pc |-> "wait", todo |-> {}, type |-> OwnType, list |-> {}]
NoLookup == [pc |-> "idle", type |-> OwnType, list |-> {}]

DiscoveryInit ==
    /\ registered \in SUBSET Services
    /\ changes = 0 /\ errors = 0 /\ events = 0
    /\ cache = [t \in {} |-> {}]
    /\ callbacks = {}
    /\ refresh = Waiting
    /\ lookup = [l \in Lookups |-> NoLookup]
    /\ closed = FALSE

WriteCache(t, list) ==
    cache' = [u \in DOMAIN cache \cup {t} |-> IF u = t THEN list ELSE cache[u]]

\* registry.GetServices returns an error, now and then, and always once it is closed.
ReadFails ==
    \/ closed /\ UNCHANGED errors
    \/ errors < MaxErrors /\ errors' = errors + 1

ReadSucceeds == ~closed /\ UNCHANGED errors

-----------------------------------------------------------------------------
\* A service registers, or is gone from etcd.
Change(s) ==
    /\ changes < MaxChanges /\ changes' = changes + 1
    /\ registered' = IF s \in registered THEN registered \ {s} ELSE registered \cup {s}
    /\ events' = IF TypeOfService[s] = OwnType THEN events + 1 ELSE events
    /\ UNCHANGED <<errors, cache, callbacks, refresh, lookup, closed>>

\* Watch: a response, which may stand for several events; the list as it is now
\* goes to a goroutine of its own.
WatchEvent ==
    /\ events > 0 /\ ~closed
    /\ events' \in 0 .. events - 1
    /\ \/ ReadFails /\ UNCHANGED callbacks
       \/ /\ ReadSucceeds
          /\ callbacks' = callbacks \cup {[change |-> changes, left |-> events', list |-> OfType(OwnType)]}
    /\ UNCHANGED <<registered, changes, cache, refresh, lookup, closed>>

\* The callback of NewServiceDiscovery.
Callback(k) ==
    /\ WriteCache(OwnType, k.list)
    /\ callbacks' = callbacks \ {k}
    /\ UNCHANGED <<registered, changes, errors, events, refresh, lookup, closed>>

-----------------------------------------------------------------------------
\* Mutation: the loop refreshes the node's own type only.
RefreshOwn ==
    /\ refresh.pc = "wait" /\ ~closed
    /\ refresh' = [refresh EXCEPT !.pc = "read", !.todo = DOMAIN cache \cap {OwnType}]
    /\ UNCHANGED <<registered, changes, errors, cache, events, callbacks, lookup, closed>>

\* updateCacheLoop: the ticker, which Close stops, and the types cached now.
RefreshBegins ==
    /\ refresh.pc = "wait" /\ ~closed
    /\ refresh' = [refresh EXCEPT !.pc = "read", !.todo = DOMAIN cache]
    /\ UNCHANGED <<registered, changes, errors, cache, events, callbacks, lookup, closed>>

\* The list of the next type is read, an error passes over it ...
RefreshReads ==
    /\ refresh.pc = "read"
    /\ \/ refresh.todo = {} /\ refresh' = Waiting /\ UNCHANGED errors
       \/ \E t \in refresh.todo :
             \/ ReadFails /\ refresh' = [refresh EXCEPT !.todo = @ \ {t}]
             \/ /\ ReadSucceeds
                /\ refresh' = [pc |-> "write", todo |-> refresh.todo \ {t}, type |-> t, list |-> OfType(t)]
    /\ UNCHANGED <<registered, changes, cache, events, callbacks, lookup, closed>>

\* ... and written.
RefreshWrites ==
    /\ refresh.pc = "write"
    /\ WriteCache(refresh.type, refresh.list)
    /\ refresh' = [refresh EXCEPT !.pc = "read"]
    /\ UNCHANGED <<registered, changes, errors, events, callbacks, lookup, closed>>

-----------------------------------------------------------------------------
Misses(l, t) ==
    /\ lookup[l].pc = "idle"
    /\ lookup' = [lookup EXCEPT ![l] = [pc |-> "read", type |-> t, list |-> {}]]
    /\ UNCHANGED <<registered, changes, errors, cache, events, callbacks, refresh, closed>>

\* GetService: what is cached is answered at once, unless it is nothing.
GetService(l, t) == (t \in DOMAIN cache => cache[t] = {}) /\ Misses(l, t)

\* GetAllServices: a cached type is answered at once, even without services.
GetAllServices(l, t) == t \notin DOMAIN cache /\ Misses(l, t)

\* An error ends the lookup without an answer.
LookupReads(l) ==
    /\ lookup[l].pc = "read"
    /\ \/ ReadFails /\ lookup' = [lookup EXCEPT ![l] = NoLookup]
       \/ /\ ReadSucceeds
          /\ lookup' = [lookup EXCEPT ![l].pc = "write", ![l].list = OfType(lookup[l].type)]
    /\ UNCHANGED <<registered, changes, cache, events, callbacks, refresh, closed>>

LookupWrites(l) ==
    /\ lookup[l].pc = "write"
    /\ WriteCache(lookup[l].type, lookup[l].list)
    /\ lookup' = [lookup EXCEPT ![l] = NoLookup]
    /\ UNCHANGED <<registered, changes, errors, events, callbacks, refresh, closed>>

\* The ticker is stopped, and the registry closed: its watch ends, its reads fail.
Close ==
    /\ ~closed /\ closed' = TRUE
    /\ UNCHANGED <<registered, changes, errors, cache, events, callbacks, refresh, lookup>>

-----------------------------------------------------------------------------
RefreshStep == RefreshBegins \/ RefreshReads \/ RefreshWrites
LookupStep(l) == LookupReads(l) \/ LookupWrites(l)

DiscoveryNext ==
    \/ \E s \in Services : Change(s)
    \/ WatchEvent \/ RefreshStep \/ Close
    \/ \E k \in callbacks : Callback(k)
    \/ \E l \in Lookups :
          \/ \E t \in ServiceTypes : GetService(l, t) \/ GetAllServices(l, t)
          \/ LookupStep(l)

-----------------------------------------------------------------------------
(* Properties *)

DiscoveryTypeOK ==
    /\ registered \subseteq Services
    /\ changes \in 0 .. MaxChanges /\ errors \in 0 .. MaxErrors /\ events \in 0 .. MaxChanges
    /\ DOMAIN cache \subseteq ServiceTypes
    /\ \A t \in DOMAIN cache : \A s \in cache[t] : TypeOfService[s] = t
    /\ \A k \in callbacks : \A s \in k.list : TypeOfService[s] = OwnType
    /\ refresh.pc \in {"wait", "read", "write"} /\ refresh.todo \subseteq DOMAIN cache
    /\ \A l \in Lookups : lookup[l].pc \in {"idle", "read", "write"}
    /\ closed \in BOOLEAN

\* Once services have ceased to come and go, every cached list becomes and stays
\* what etcd holds, whichever late callback, lookup or refresh wrote an older one
\* last; unless the discovery is closed.
CacheCatchesUp ==
    <>[](closed \/ \A t \in DOMAIN cache : cache[t] = OfType(t))

=============================================================================
