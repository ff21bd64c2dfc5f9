---------------------------- MODULE MCTcpServer ----------------------------
(* Finite instances of TcpServer. *)
EXTENDS TcpServer, TLC

Symmetry ==
  Permutations(Workers) \cup Permutations(Contexts) \cup Permutations(Conns)

=============================================================================
