------------------------- MODULE ConnectionRegistry -------------------------
(***************************************************************************)
(* What the gateway's TCP server promises about the clients it serves,     *)
(* without goroutines, pooled objects or sockets: a bounded set of clients *)
(* being served, each served at most once, and a shutdown that completes   *)
(* only when nobody is served any more.  TcpServer implements it.          *)
(***************************************************************************)
EXTENDS Naturals, FiniteSets

CONSTANTS Clients, Limit

VARIABLES
    served,  \* clients in the connections map
    past,    \* clients that were served and have left
    phase    \* "open", "closing", "closed", or "failed" (the process died)

Init ==
    /\ served = {}
    /\ past = {}
    /\ phase = "open"

Admit(c) ==
    /\ phase \in {"open", "closing"}
    /\ c \notin served \cup past
    /\ Cardinality(served) < Limit
    /\ served' = served \cup {c}
    /\ UNCHANGED <<past, phase>>

Release(c) ==
    /\ phase \in {"open", "closing"}
    /\ c \in served
    /\ served' = served \ {c}
    /\ past' = past \cup {c}
    /\ UNCHANGED phase

StartClose ==
    /\ phase = "open"
    /\ phase' = "closing"
    /\ UNCHANGED <<served, past>>

FinishClose ==
    /\ phase = "closing"
    /\ served = {}
    /\ phase' = "closed"
    /\ UNCHANGED <<served, past>>

\* The process dies, while it serves as well as while it closes.
Fail ==
    /\ phase \in {"open", "closing"}
    /\ phase' = "failed"
    /\ UNCHANGED <<served, past>>

Next ==
    \/ \E c \in Clients : Admit(c) \/ Release(c)
    \/ StartClose \/ FinishClose \/ Fail

Spec == Init /\ [][Next]_<<served, past, phase>>

=============================================================================
