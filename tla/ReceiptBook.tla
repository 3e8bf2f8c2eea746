---------------------------- MODULE ReceiptBook ----------------------------
(***************************************************************************)
(* What the receipts of a conversation promise to members whose clients    *)
(* wait for answers and acknowledge in order - without calls, rows,        *)
(* cursors or clean-ups.  There is a book of receipts in which nothing is  *)
(* struck out; a client is told only what is in it; the position up to     *)
(* which a member has read moves on, never back; and the status of a       *)
(* message follows the book and the positions, forwards where one member   *)
(* alone decides it.                                                       *)
(***************************************************************************)
EXTENDS Naturals

CONSTANTS Users, Msgs, ServerTS

VARIABLES
    stored,     \* messages that are there
    book,       \* receipts <<user, message, type>>
    told,       \* what each user's client knows to be in the book
    position,   \* time up to which each user has read
    status      \* what the sender is shown of a message

vars == <<stored, book, told, position, status>>

Init ==
    /\ stored = {} /\ book = {}
    /\ told = [u \in Users |-> {}]
    /\ position = [u \in Users |-> 0]
    /\ status = [m \in Msgs |-> "sent"]

Store(m) ==
    /\ stored' = stored \cup {m}
    /\ UNCHANGED <<book, told, position, status>>

Record(u, m, t) ==
    /\ m \in stored
    /\ book' = book \cup {<<u, m, t>>}
    /\ UNCHANGED <<stored, told, position, status>>

Tell(u, R) ==
    /\ \A k \in R : <<u, k[1], k[2]>> \in book
    /\ told' = [told EXCEPT ![u] = @ \cup R]
    /\ UNCHANGED <<stored, book, position, status>>

ReadOn(u, m) ==
    /\ m \in stored /\ position[u] <= ServerTS[m]
    /\ position' = [position EXCEPT ![u] = ServerTS[m]]
    /\ UNCHANGED <<stored, book, told, status>>

Show(u, m, t) ==
    /\ m \in stored
    /\ <<u, m, t>> \in book \/ (t = "read" /\ ServerTS[m] <= position[u])
    /\ Users = {u} /\ status[m] = "read" => t = "read"
    /\ status' = [status EXCEPT ![m] = t]
    /\ UNCHANGED <<stored, book, told, position>>

Next ==
    \/ \E m \in Msgs : Store(m)
    \/ \E u \in Users, m \in Msgs :
          \/ ReadOn(u, m)
          \/ \E t \in {"delivered", "read"} : Record(u, m, t) \/ Show(u, m, t)
    \/ \E u \in Users : \E R \in SUBSET (Msgs \X {"delivered", "read"}) : Tell(u, R)

Spec == Init /\ [][Next]_vars

=============================================================================
