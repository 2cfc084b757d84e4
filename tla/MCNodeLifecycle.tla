--------------------------- MODULE MCNodeLifecycle ---------------------------
(* A node with one or two shutdown commands and one UpdateLoad call besides its*)
(* own signal, load loop and consumer; at most MaxLeases leases in all lives.  *)
EXTENDS NodeLifecycle
=============================================================================
