------------------------------ MODULE ActorSystem ------------------------------
(***************************************************************************)
(* The registry of actors of a process (src/internal/actor/                *)
(* actor_system.go).  SpawnActor and Shutdown hold its mutex for writing   *)
(* as long as they run; Tell finds the actor under the mutex and calls     *)
(* OnReceive, in the goroutine of its caller, without it.  The actors of   *)
(* the gateway and of the login service spawn one object each, and their   *)
(* handlers do not call the system.                                        *)
(***************************************************************************)
EXTENDS Naturals, FiniteSets

CONSTANTS
    Objects,   \* actor objects that somebody may spawn
    IdOf,      \* the ID of each
    Tellers,   \* goroutines that call Tell
    MaxLives,  \* bound: OnStart calls of an object
    NoObject

VARIABLES
    actors,   \* sys.actors: the object of each ID
    visiting, \* objects that Shutdown has yet to stop; it holds the mutex
    busy,     \* Shutdown runs
    teller,   \* each teller: the object it has found
    startedN, \* history: OnStart calls that succeeded, by object
    stoppedN  \* history: OnStop calls

systemVars == <<actors, visiting, busy, teller, startedN, stoppedN>>

Registered == {actors[i] : i \in DOMAIN actors}

SystemInit ==
    /\ actors = [i \in {} |-> NoObject]
    /\ visiting = {} /\ busy = FALSE
    /\ teller = [t \in Tellers |-> NoObject]
    /\ startedN = [o \in Objects |-> 0] /\ stoppedN = startedN

\* Mutation: an actor replaces the one with its ID.
SpawnReplaces(o) ==
    /\ ~busy /\ startedN[o] < MaxLives
    /\ startedN' = [startedN EXCEPT ![o] = @ + 1]
    /\ actors' = [i \in DOMAIN actors \cup {IdOf[o]} |-> IF i = IdOf[o] THEN o ELSE actors[i]]
    /\ UNCHANGED <<visiting, busy, teller, stoppedN>>

\* An error if the ID is taken, or OnStart fails; neither changes anything.
SpawnActor(o) ==
    /\ ~busy /\ startedN[o] < MaxLives
    /\ IdOf[o] \notin DOMAIN actors
    /\ startedN' = [startedN EXCEPT ![o] = @ + 1]
    /\ actors' = [i \in DOMAIN actors \cup {IdOf[o]} |-> IF i = IdOf[o] THEN o ELSE actors[i]]
    /\ UNCHANGED <<visiting, busy, teller, stoppedN>>

\* GetActor; an unknown ID is an error.
Tell(t, i) ==
    /\ ~busy /\ teller[t] = NoObject
    /\ i \in DOMAIN actors
    /\ teller' = [teller EXCEPT ![t] = actors[i]]
    /\ UNCHANGED <<actors, visiting, busy, startedN, stoppedN>>

\* OnReceive returns.
OnReceive(t) ==
    /\ teller[t] # NoObject
    /\ teller' = [teller EXCEPT ![t] = NoObject]
    /\ UNCHANGED <<actors, visiting, busy, startedN, stoppedN>>

Shutdown ==
    /\ ~busy /\ busy' = TRUE
    /\ visiting' = Registered
    /\ UNCHANGED <<actors, teller, startedN, stoppedN>>

\* OnStop of one, whose error is only logged.
OnStop(o) ==
    /\ o \in visiting /\ visiting' = visiting \ {o}
    /\ stoppedN' = [stoppedN EXCEPT ![o] = @ + 1]
    /\ UNCHANGED <<actors, busy, teller, startedN>>

\* The map is made anew, and actors may be spawned again.
ShutdownReturns ==
    /\ busy /\ visiting = {}
    /\ busy' = FALSE /\ actors' = [i \in {} |-> NoObject]
    /\ UNCHANGED <<visiting, teller, startedN, stoppedN>>

SystemNext ==
    \/ \E o \in Objects : SpawnActor(o) \/ OnStop(o)
    \/ \E t \in Tellers : OnReceive(t) \/ \E i \in {IdOf[o] : o \in Objects} : Tell(t, i)
    \/ Shutdown \/ ShutdownReturns

-----------------------------------------------------------------------------
\* An actor that has been started is registered, or has been stopped, once for each
\* start, whatever is spawned under the same ID before, during and after a
\* Shutdown.  (A message that was on its way may reach it after that.)
LivesEnd ==
    \A o \in Objects :
        startedN[o] - stoppedN[o] =
            IF o \in (IF busy THEN visiting ELSE Registered) THEN 1 ELSE 0

=============================================================================
