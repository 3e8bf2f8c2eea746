----------------------------- MODULE ReceiptsMC -----------------------------
(* TLC instances of Receipts.  Messages are numbers and carry their number *)
(* as timestamp; requests are interchangeable.                             *)
EXTENDS Receipts, TLC

MessageTS == [m \in Msgs |-> m]

Symmetry == Permutations(Calls)

=============================================================================
