------------------------------ MODULE MCTcpPush ------------------------------
(* TcpPush on small sets: one pusher, two users, two clients. *)
EXTENDS TcpPush, TLC

\* Objects and users are interchangeable.
Symmetry == Permutations(Objects) \cup Permutations(Users) \cup Permutations(Sockets)

=============================================================================
