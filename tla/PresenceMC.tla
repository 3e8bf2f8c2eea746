----------------------------- MODULE PresenceMC -----------------------------
(* Presence with interchangeable instances and goroutines.                 *)
EXTENDS Presence, TLC

Symmetry == Permutations(Instances) \cup Permutations(CallIds)

=============================================================================
