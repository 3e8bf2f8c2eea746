-------------------------- MODULE DeliveryContract --------------------------
(***************************************************************************)
(* What PingMe's message pipeline promises, without producers, consumers,  *)
(* offsets or processes.  Messages wait in a queue, which may hold one     *)
(* more than once.  The handler may write a message's row itself; the      *)
(* queue settles from its head - a message is settled when it has a row or *)
(* was given up - and only what is settled is ever acknowledged to the     *)
(* queue.  A caller is answered once its message cannot vanish any more,   *)
(* and recipients see a message at most once, however often it is queued,  *)
(* and only with its row written from the queue.                           *)
(***************************************************************************)
EXTENDS Naturals, Sequences

CONSTANT Msgs

VARIABLES
    queue,      \* messages accepted, in order, with repetitions
    store,      \* who wrote the row: nobody, the handler, the queue
    buried,     \* messages given up
    acked,      \* length of the acknowledged prefix of the queue
    answered,   \* messages whose sender was told "accepted"
    delivered   \* messages pushed to their recipients, in order

vars == <<queue, store, buried, acked, answered, delivered>>

InQueue(m)   == \E k \in DOMAIN queue : queue[k] = m
Delivered(m) == \E k \in DOMAIN delivered : delivered[k] = m
Settled(m)   == store[m] # "none" \/ m \in buried
SettledTo(k) == \A j \in 1..k : Settled(queue[j])

Init ==
    /\ queue = <<>> /\ acked = 0
    /\ store = [m \in Msgs |-> "none"]
    /\ buried = {} /\ answered = {} /\ delivered = <<>>

Enqueue(m) ==
    /\ queue' = Append(queue, m)
    /\ UNCHANGED <<store, buried, acked, answered, delivered>>

WriteDirect(m) ==
    /\ store[m] = "none" /\ m \notin answered
    /\ store' = [store EXCEPT ![m] = "handler"]
    /\ UNCHANGED <<queue, buried, acked, answered, delivered>>

Settle(k) ==
    /\ SettledTo(k - 1)
    /\ \/ /\ store[queue[k]] = "none"
          /\ store' = [store EXCEPT ![queue[k]] = "queue"]
          /\ UNCHANGED buried
       \/ /\ buried' = buried \cup {queue[k]}
          /\ UNCHANGED store
    /\ UNCHANGED <<queue, acked, answered, delivered>>

Acknowledge(k) ==
    /\ acked < k /\ SettledTo(k)
    /\ acked' = k
    /\ UNCHANGED <<queue, store, buried, answered, delivered>>

Answer(m) ==
    /\ InQueue(m) \/ store[m] # "none"
    /\ answered' = answered \cup {m}
    /\ UNCHANGED <<queue, store, buried, acked, delivered>>

Deliver(m) ==
    /\ store[m] = "queue" /\ ~Delivered(m)
    /\ delivered' = Append(delivered, m)
    /\ UNCHANGED <<queue, store, buried, acked, answered>>

Next ==
    \/ \E m \in Msgs : Enqueue(m) \/ WriteDirect(m) \/ Answer(m) \/ Deliver(m)
    \/ \E k \in DOMAIN queue : Settle(k) \/ Acknowledge(k)

Spec == Init /\ [][Next]_vars

=============================================================================
