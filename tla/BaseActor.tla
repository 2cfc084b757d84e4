------------------------------ MODULE BaseActor ------------------------------
(***************************************************************************)
(* An actor with its mailbox (src/internal/actor/actor.go).  Start, Stop   *)
(* and Tell share a read-write mutex: Start and Stop hold it for writing   *)
(* until they return, Tell holds it for reading while it waits for room in *)
(* the mailbox, for five seconds at most.  As in Go, a writer that waits   *)
(* keeps new readers out.  OnReceive may tell its own actor.               *)
(***************************************************************************)
EXTENDS Naturals, FiniteSets

CONSTANTS
    Callers,     \* goroutines that call Start, Stop and Tell
    MaxStarts,   \* bound: calls of Start
    MailboxSize,
    NoCaller

VARIABLES
    running, cancelled,  \* a.running; a.ctx is cancelled
    mailbox,             \* number of messages in it
    writer, readers,     \* who holds the mutex
    caller,              \* where each caller is
    loop,                \* each goroutine of run, by the number of its Start
    starts               \* calls of Start so far

actorVars == <<running, cancelled, mailbox, writer, readers, caller, loop, starts>>

Loops == 1 .. MaxStarts

ActorInit ==
    /\ running = FALSE /\ cancelled = FALSE
    /\ mailbox = 0
    /\ writer = NoCaller /\ readers = {}
    /\ caller = [c \in Callers |-> "idle"]
    /\ loop = [l \in Loops |-> "none"]
    /\ starts = 0

WriterWaits == \E c \in Callers : caller[c] \in {"start", "stop"}
Lockable == writer = NoCaller /\ readers = {}
ReadLockable == writer = NoCaller /\ ~WriterWaits

Calls(c, from, to) == caller[c] = from /\ caller' = [caller EXCEPT ![c] = to]

\* A call, up to its lock.
Call(c) ==
    /\ \/ starts < MaxStarts /\ starts' = starts + 1 /\ Calls(c, "idle", "start")
       \/ UNCHANGED starts /\ (Calls(c, "idle", "stop") \/ Calls(c, "idle", "tell"))
    /\ UNCHANGED <<running, cancelled, mailbox, writer, readers, loop>>

\* Start: an error on a running actor.  The context of one that was stopped
\* stays cancelled.  OnStart is the actor's own affair.
Start(c) ==
    /\ Lockable
    /\ Calls(c, "start", "idle")
    /\ IF running THEN UNCHANGED <<running, loop>>
       ELSE /\ running' = TRUE
            /\ \E l \in Loops :
                  /\ loop[l] = "none" /\ \A k \in 1 .. l - 1 : loop[k] # "none"
                  /\ loop' = [loop EXCEPT ![l] = "select"]
    /\ UNCHANGED <<cancelled, mailbox, writer, readers, starts>>

\* Stop: nothing on an actor that does not run; otherwise the context is
\* cancelled, and a.wg.Wait() begins, with the mutex held.
Stop(c) ==
    /\ Lockable
    /\ IF running
       THEN Calls(c, "stop", "join") /\ running' = FALSE /\ cancelled' = TRUE /\ writer' = c
       ELSE Calls(c, "stop", "idle") /\ UNCHANGED <<running, cancelled, writer>>
    /\ UNCHANGED <<mailbox, readers, loop, starts>>

\* Mutation: Stop does not wait for the goroutine.
StopReturnsEarly(c) ==
    /\ Calls(c, "join", "idle")
    /\ writer' = NoCaller
    /\ UNCHANGED <<running, cancelled, mailbox, readers, loop, starts>>

\* The goroutine is done; OnStop, and the mutex is released.
StopReturns(c) ==
    /\ \A l \in Loops : loop[l] \in {"none", "done"}
    /\ Calls(c, "join", "idle")
    /\ writer' = NoCaller
    /\ UNCHANGED <<running, cancelled, mailbox, readers, loop, starts>>

\* Tell: an error on an actor that does not run.
Tell(c) ==
    /\ ReadLockable
    /\ IF running THEN Calls(c, "tell", "send") /\ readers' = readers \cup {c}
                  ELSE Calls(c, "tell", "idle") /\ UNCHANGED readers
    /\ UNCHANGED <<running, cancelled, mailbox, writer, loop, starts>>

TellSends(c) ==
    /\ mailbox < MailboxSize /\ mailbox' = mailbox + 1
    /\ Calls(c, "send", "idle") /\ readers' = readers \ {c}
    /\ UNCHANGED <<running, cancelled, writer, loop, starts>>

\* Mutation: Tell waits until there is room.
TellWaits(c) == FALSE /\ caller[c] = "send" /\ UNCHANGED actorVars

\* Five seconds without room in the mailbox.
TellTimesOut(c) ==
    /\ mailbox = MailboxSize
    /\ Calls(c, "send", "idle") /\ readers' = readers \ {c}
    /\ UNCHANGED <<running, cancelled, mailbox, writer, loop, starts>>

-----------------------------------------------------------------------------
(* run *)

Runs(l, from, to) == loop[l] = from /\ loop' = [loop EXCEPT ![l] = to]

Receive(l) ==
    /\ mailbox > 0 /\ mailbox' = mailbox - 1
    /\ Runs(l, "select", "receive")
    /\ UNCHANGED <<running, cancelled, writer, readers, caller, starts>>

\* OnReceive returns, or tells its own actor first.
Received(l) ==
    /\ Runs(l, "receive", "select") \/ Runs(l, "receive", "tell")
    /\ UNCHANGED <<running, cancelled, mailbox, writer, readers, caller, starts>>

\* The handler's own Tell, and its return.
SelfTell(l) ==
    /\ ReadLockable
    /\ IF running THEN Runs(l, "tell", "send") /\ readers' = readers \cup {l}
                  ELSE Runs(l, "tell", "select") /\ UNCHANGED readers
    /\ UNCHANGED <<running, cancelled, mailbox, writer, caller, starts>>

SelfTellEnds(l) ==
    /\ Runs(l, "send", "select") /\ readers' = readers \ {l}
    /\ mailbox' = IF mailbox < MailboxSize THEN mailbox + 1 ELSE mailbox
    /\ UNCHANGED <<running, cancelled, writer, caller, starts>>

Done(l) ==
    /\ cancelled
    /\ Runs(l, "select", "done")
    /\ UNCHANGED <<running, cancelled, mailbox, writer, readers, caller, starts>>

-----------------------------------------------------------------------------
CallStep(c) ==
    Start(c) \/ Stop(c) \/ StopReturns(c) \/ Tell(c) \/ TellSends(c) \/ TellTimesOut(c)

LoopStep(l) == Receive(l) \/ Received(l) \/ SelfTell(l) \/ SelfTellEnds(l) \/ Done(l)

ActorNext ==
    \/ \E c \in Callers : Call(c) \/ CallStep(c)
    \/ \E l \in Loops : LoopStep(l)

-----------------------------------------------------------------------------
(* Properties *)

\* Readers and a writer exclude each other.
ActorTypeOK ==
    /\ running \in BOOLEAN /\ cancelled \in BOOLEAN
    /\ mailbox \in 0 .. MailboxSize
    /\ writer \in Callers \cup {NoCaller} /\ readers \subseteq Callers \cup Loops
    /\ writer # NoCaller => readers = {} /\ caller[writer] = "join"
    /\ caller \in [Callers -> {"idle", "start", "stop", "join", "tell", "send"}]
    /\ loop \in [Loops -> {"none", "select", "receive", "tell", "send", "done"}]
    /\ starts \in 0 .. MaxStarts

\* Once Stop has returned no goroutine of the actor handles messages, until it is
\* started again; and however Start, Stop and Tell are called at the same time,
\* two goroutines never handle the messages of one actor at once.
QuietAfterStop ==
    LET live == {l \in Loops : loop[l] \notin {"none", "done"}} IN
    /\ ~running /\ writer = NoCaller => live = {}
    /\ Cardinality(live) <= 1

\* Stop returns, however full the mailbox is and however many callers wait for
\* room in it, unless OnReceive waits for its own actor's mutex in Tell: then
\* Stop waits for the goroutine that waits for Stop.
ActorStopReturns ==
    \A c \in Callers :
        caller[c] = "stop" ~> (caller[c] = "idle" \/ \E l \in Loops : loop[l] = "tell")

=============================================================================
