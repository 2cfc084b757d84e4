----------------------------- MODULE MCTcpServer -----------------------------
(* TcpServer on small sets of sockets, objects and users. *)
EXTENDS TcpServer, TLC

\* The factory never runs dry: every admission takes at most one new object.
ASSUME EnoughObjects == Cardinality(Objects) >= Cardinality(Sockets)

\* Clients, pooled objects and users are interchangeable (safety run only).
Symmetry == Permutations(Sockets) \cup Permutations(Objects) \cup Permutations(Users)

=============================================================================
