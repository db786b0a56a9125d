----------------------------- MODULE MCTcpLink ------------------------------
(* TcpLink on small instances; the .cfg files give the sizes.              *)
EXTENDS TcpLink, TLC

(* Links and application threads are interchangeable.                      *)
Symmetry == Permutations(Links) \cup Permutations(App)
=============================================================================
