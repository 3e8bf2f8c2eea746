------------------------------- MODULE HubMC -------------------------------
(* TLC instances of Hub: connections are interchangeable.                  *)
EXTENDS Hub, TLC

Symmetry == Permutations(Conns)

=============================================================================
