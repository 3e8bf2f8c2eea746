------------------------------ MODULE GroupsMC ------------------------------
(* A small instance of Groups: the owner and another user.                 *)
EXTENDS Groups, TLC

Symmetry == Permutations(Reqs) \cup Permutations(Users \ {Owner})
=============================================================================
