--------------------------- MODULE OfflinePullMC ---------------------------
(* OfflinePull with interchangeable conversations and connections.  Paging *)
(* is checked with more messages than the pulls of two connections.        *)
EXTENDS OfflinePull, TLC

AllReaders == {"history", "v2", "ws"}

TimesOf == [history |-> 3, v2 |-> 3, ws |-> 3]
RowsOf  == [history |-> 5, v2 |-> 5, ws |-> 3]

Symmetry == Permutations(Convs) \cup Permutations(Conns)

=============================================================================
