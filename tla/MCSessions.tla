----------------------------- MODULE MCSessions -----------------------------
(* Two clients on two gateways and three users, one of them banned.  Keys expire *)
(* within the run, and a login may be answered after its session has gone.      *)
EXTENDS Sessions, TLC

CONSTANTS u, v, w, c1, c2, g1, g2, r1, r2

MCUsers == {u, v, w}
MCConns == {c1, c2}
MCCalls == {r1, r2}
MCBanned == {w}
MCGateway == [c \in MCConns |-> IF c = c1 THEN g1 ELSE g2]

\* Users that are not banned are alike, and calls; so are the clients, each with its gateway.
Sides == [x \in {c1, c2, g1, g2} |->
            CASE x = c1 -> c2 [] x = c2 -> c1 [] x = g1 -> g2 [] x = g2 -> g1]
MCSymmetry == Permutations({u, v}) \cup Permutations({r1, r2}) \cup {Sides}

=============================================================================
