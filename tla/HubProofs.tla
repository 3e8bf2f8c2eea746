----------------------------- MODULE HubProofs -----------------------------
(***************************************************************************)
(* Proofs about Hub for every set of connections, users and pushers and    *)
(* every channel capacity: type correctness, that a channel is closed once *)
(* and never under its own goroutine's feet, that the two maps agree, and  *)
(* that the change of user in handleAuth is the one cause of what these    *)
(* except.                                                                 *)
(***************************************************************************)
EXTENDS Hub, TLAPS

(* Where ReadPump of the connection that Run handles can be meanwhile.     *)
HandledInv ==
    /\ \A c \in Conns : run \in {"register", "insert"} /\ conn = {c} =>
          reader[c] \in {"read", "reply", "authok", "authunreg", "unregister"}
    /\ \A c \in Conns : run = "unregister" /\ conn = {c} =>
          \/ reader[c] = "authreg"
          \/ reader[c] \in {"closing", "done"} /\ send[c] = "open"

(* Who can have a closed channel while the hub runs: a connection that has *)
(* left, and one in the middle of re-registration.                         *)
ClosedInv ==
    run # "stopped" => \A c \in Conns : send[c] = "closed" =>
        reader[c] \in {"closing", "done", "authreg", "authok"}

(* A connection that has left is out of the map once Run has handled it.   *)
LeftInv ==
    run # "stopped" => \A c \in connections : reader[c] \in {"closing", "done"} =>
        run = "unregister" /\ conn = {c}

(* While the process is alive the inductive invariant is about where the   *)
(* goroutines are; afterwards only its cause is left to speak of.          *)
IInv == TypeOK /\ ClosedOnce /\ OwnRepliesSafe
               /\ (panic = <<>> => HandledInv /\ ClosedInv /\ LeftInv)

-----------------------------------------------------------------------------
(* The empty hub is well typed.                                            *)
LEMMA TypeInit == Init => TypeOK
  BY HubAssumption DEF Init, TypeOK, Names, RunStates, ReaderStates, Causes

(* A send to a channel, blocking or not, counts within its capacity.       *)
LEMMA PutType ==
  ASSUME TypeOK, NEW c \in Conns, NEW cause \in Causes, PutOrDrop(c, cause)
  PROVE  /\ queued' \in [Conns -> 0..SendCap]
         /\ panic' \in {<<>>} \cup (Causes \X Conns)
<1> USE HubAssumption
<1>1. CASE send[c] = "open" /\ queued[c] < SendCap
  <2>1. queued' = [queued EXCEPT ![c] = @ + 1] /\ panic' = panic
    BY <1>1 DEF PutOrDrop, Put
  <2>2. queued[c] + 1 \in 0..SendCap
    BY <1>1 DEF TypeOK
  <2>3. QED
    BY <2>1, <2>2 DEF TypeOK
<1>2. CASE send[c] = "closed"
  BY <1>2 DEF PutOrDrop, Put, TypeOK
<1>3. CASE send[c] = "open" /\ queued[c] = SendCap
  BY <1>3 DEF PutOrDrop, Put, TypeOK
<1>4. QED
  BY <1>1, <1>2, <1>3 DEF PutOrDrop, Put, TypeOK

(* A step of the hub, or a stuttering one, keeps the types.                *)
LEMMA TypeNext == TypeOK /\ [Next]_vars => TypeOK'
<1> SUFFICES ASSUME TypeOK, [Next]_vars PROVE TypeOK'
  OBVIOUS
<1> USE HubAssumption DEF TypeOK, Names, RunStates, ReaderStates, Causes,
        hubVars, pumpVars, pushVars
<1>1. ASSUME NEW c \in Conns, ReceiveRegister(c) PROVE TypeOK'
  BY <1>1 DEF ReceiveRegister
<1>2. ASSUME NEW c \in Conns, MakeUserMap(c) PROVE TypeOK'
  BY <1>2 DEF MakeUserMap
<1>3. ASSUME NEW c \in Conns, InsertIntoUserMap(c) PROVE TypeOK'
  BY <1>3 DEF InsertIntoUserMap, EntryAdded, RaceAbort, Iterating
<1>4. ASSUME NEW c \in Conns, ReceiveUnregister(c) PROVE TypeOK'
  BY <1>4 DEF ReceiveUnregister
<1>5. ASSUME NEW c \in Conns, RemoveConnection(c) PROVE TypeOK'
  <2>1. pushTodo' \in [Pushers -> SUBSET Conns]
    <3>1. CASE UNCHANGED pushTodo
      BY <3>1
    <3>2. CASE EntryRemoved(uid[c], c)
      <4>1. PICK seen \in SUBSET Iterating(uid[c]) :
               pushTodo' = [q \in Pushers |->
                              IF q \in seen THEN pushTodo[q] \ {c} ELSE pushTodo[q]]
        BY <3>2 DEF EntryRemoved
      <4>2. QED
        BY <4>1
    <3>3. QED
      BY <1>5, <3>1, <3>2 DEF RemoveConnection
  <2>2. keys' \subseteq Names /\ connections' \subseteq Conns /\ index' \subseteq Names \X Conns
    BY <1>5 DEF RemoveConnection
  <2>3. panic' = panic \/ panic' = <<"close", c>> \/ panic' = <<"map", c>>
    BY <1>5 DEF RemoveConnection, RaceAbort
  <2>4. panic' \in {<<>>} \cup (Causes \X Conns)
    BY <2>3
  <2>5. /\ run' = "select" /\ conn' = {}
        /\ send' = send \/ send' = [send EXCEPT ![c] = "closed"]
        /\ UNCHANGED <<uid, queued, socket, reader, writer, pushUser, timedOut>>
    BY <1>5 DEF RemoveConnection
  <2>6. QED
    BY <2>1, <2>2, <2>4, <2>5
<1>6. ASSUME Stop PROVE TypeOK'
  BY <1>6 DEF Stop
<1>7. ASSUME NEW c \in Conns, HandleWebSocket(c) PROVE TypeOK'
  BY <1>7 DEF HandleWebSocket
<1>8. ASSUME NEW c \in Conns, HandleMessage(c) PROVE TypeOK'
  BY <1>8 DEF HandleMessage
<1>9. ASSUME NEW c \in Conns, HandleAuth(c) PROVE TypeOK'
  BY <1>9 DEF HandleAuth
<1>10. ASSUME NEW c \in Conns, Reply(c) PROVE TypeOK'
  <2>1. PutOrDrop(c, "reply")
    BY <1>10 DEF Reply, PutOrDrop
  <2>2. queued' \in [Conns -> 0..SendCap] /\ panic' \in {<<>>} \cup (Causes \X Conns)
    BY <2>1, PutType
  <2>3. \/ reader' = reader
        \/ reader' = [reader EXCEPT ![c] = "read"]
        \/ reader' = [reader EXCEPT ![c] = "reply"]
    BY <1>10 DEF Reply
  <2>4. reader' \in [Conns -> ReaderStates]
    BY <2>3
  <2>5. UNCHANGED <<hubVars, uid, send, socket, writer, pushVars, timedOut>>
    BY <1>10 DEF Reply
  <2>6. QED
    BY <2>2, <2>4, <2>5
<1>11. ASSUME NEW c \in Conns, ReadFails(c) PROVE TypeOK'
  BY <1>11 DEF ReadFails
<1>12. ASSUME NEW c \in Conns, CloseSocket(c) PROVE TypeOK'
  BY <1>12 DEF CloseSocket
<1>13. ASSUME NEW c \in Conns, Write(c) PROVE TypeOK'
  BY <1>13 DEF Write
<1>14. ASSUME NEW c \in Conns, WritePumpEnds(c) PROVE TypeOK'
  BY <1>14 DEF WritePumpEnds
<1>15. ASSUME NEW c \in Conns, Disconnect(c) PROVE TypeOK'
  BY <1>15, PutType DEF Disconnect
<1>16. ASSUME NEW p \in Pushers, SendToUser(p) PROVE TypeOK'
  BY <1>16 DEF SendToUser
<1>17. ASSUME NEW p \in Pushers, SendToConnection(p) PROVE TypeOK'
  <2>1. PICK c \in pushTodo[p] : PutOrDrop(c, "push")
             /\ pushTodo' = [pushTodo EXCEPT ![p] = @ \ {c}]
    BY <1>17 DEF SendToConnection
  <2>2. c \in Conns
    OBVIOUS
  <2>3. pushTodo' \in [Pushers -> SUBSET Conns]
    BY <2>1
  <2>4. QED
    BY <1>17, <2>1, <2>2, <2>3, PutType DEF SendToConnection
<1>18. ASSUME NEW p \in Pushers, SendToUserReturns(p) PROVE TypeOK'
  BY <1>18 DEF SendToUserReturns
<1>19. ASSUME CheckHeartbeat PROVE TypeOK'
  BY <1>19 DEF CheckHeartbeat
<1>20. CASE UNCHANGED vars
  BY <1>20 DEF vars
<1>21. QED
  BY <1>1, <1>2, <1>3, <1>4, <1>5, <1>6, <1>7, <1>8, <1>9, <1>10, <1>11, <1>12, <1>13, <1>14, <1>15, <1>16, <1>17, <1>18, <1>19, <1>20
  DEF Next, Run, ReadPump, WritePump, Push

(* Every reachable state of the hub is well typed; Run holds a connection  *)
(* exactly while it handles one.                                           *)
THEOREM TypeCorrect == Spec => []TypeOK
  BY TypeInit, TypeNext, PTL DEF Spec

-----------------------------------------------------------------------------
(* The conditions on the cause of the end hold while there is none.        *)
LEMMA AliveSafe == panic = <<>> => ClosedOnce /\ OwnRepliesSafe
  BY DEF ClosedOnce, OwnRepliesSafe

(* The ends the two properties admit.                                      *)
AdmittedEnd ==
    \/ panic = <<>>
    \/ \E c \in Conns :
          \/ \E cause \in {"push", "heartbeat", "map"} : panic = <<cause, c>>
          \/ panic = <<"close", c>> /\ Rebinding(c)
          \/ panic = <<"reply", c>> /\ (run = "stopped" \/ Rebinding(c))

(* They are what ClosedOnce and OwnRepliesSafe allow.                      *)
LEMMA AdmittedSafe == AdmittedEnd => ClosedOnce /\ OwnRepliesSafe
<1>1. ASSUME NEW c \in Conns, NEW cause \in {"push", "heartbeat", "map"},
             panic = <<cause, c>>
      PROVE  ClosedOnce /\ OwnRepliesSafe
  BY <1>1 DEF ClosedOnce, OwnRepliesSafe
<1>2. ASSUME NEW c \in Conns, panic = <<"close", c>>, Rebinding(c)
      PROVE  ClosedOnce /\ OwnRepliesSafe
  BY <1>2 DEF ClosedOnce, OwnRepliesSafe
<1>3. ASSUME NEW c \in Conns, panic = <<"reply", c>>, run = "stopped" \/ Rebinding(c)
      PROVE  ClosedOnce /\ OwnRepliesSafe
  BY <1>3 DEF ClosedOnce, OwnRepliesSafe
<1>4. QED
  BY <1>1, <1>2, <1>3, AliveSafe DEF AdmittedEnd

Located == HandledInv /\ ClosedInv /\ LeftInv

(* A step of a living process keeps what is known of its goroutines, or    *)
(* ends it for a reason the properties admit.                              *)
LEMMA StepSafe ==
  ASSUME TypeOK, Located, Next
  PROVE  /\ panic' = <<>> => Located'
         /\ AdmittedEnd'
<1> DEFINE Goal == (panic' = <<>> => Located') /\ AdmittedEnd'
<1>0. panic = <<>> /\ TypeOK'
  BY TypeNext DEF Next
<1> USE <1>0 DEF Located, HandledInv, ClosedInv, LeftInv, hubVars, pumpVars, pushVars
<1>1. ASSUME NEW c \in Conns, ReceiveRegister(c) PROVE Goal
  <2>1. panic' = <<>> /\ Located'
    <3>1. HandledInv'
      <4>1. run' = "register" /\ conn' = {c} /\ reader'[c] \in {"read", "authok"}
        BY <1>1 DEF TypeOK, ReceiveRegister
      <4>2. QED
        BY <4>1
    <3>2. ClosedInv'
      BY <1>1 DEF TypeOK, ReceiveRegister
    <3>3. LeftInv'
      BY <1>1 DEF TypeOK, ReceiveRegister
    <3>4. QED
      BY <3>1, <3>2, <3>3, <1>1 DEF ReceiveRegister
  <2>2. QED
    BY <2>1 DEF AdmittedEnd
<1>2. ASSUME NEW c \in Conns, MakeUserMap(c) PROVE Goal
  <2>1. panic' = <<>> /\ Located'
    BY <1>2 DEF TypeOK, MakeUserMap
  <2>2. QED
    BY <2>1 DEF AdmittedEnd
<1>3. ASSUME NEW c \in Conns, InsertIntoUserMap(c) PROVE Goal
  <2>1. panic' = <<>> => Located'
    BY <1>3 DEF TypeOK, InsertIntoUserMap, RaceAbort
  <2>2. AdmittedEnd'
    BY <1>3 DEF TypeOK, InsertIntoUserMap, RaceAbort, AdmittedEnd, Rebinding
  <2>3. QED
    BY <2>1, <2>2
<1>4. ASSUME NEW c \in Conns, ReceiveUnregister(c) PROVE Goal
  <2>1. panic' = <<>> /\ Located'
    <3>1. HandledInv'
      <4>1. reader[c] = "unregister" => send[c] = "open"
        BY <1>4 DEF TypeOK, ReceiveUnregister
      <4>2. /\ run' = "unregister" /\ conn' = {c}
            /\ \/ reader'[c] = "authreg"
               \/ reader'[c] = "closing" /\ send'[c] = "open"
        <5>1. reader[c] \in {"unregister", "authunreg"}
          BY <1>4 DEF ReceiveUnregister
        <5>2. reader'[c] = IF reader[c] = "unregister" THEN "closing" ELSE "authreg"
          BY <1>4 DEF TypeOK, ReceiveUnregister
        <5>3. run' = "unregister" /\ conn' = {c} /\ send' = send
          BY <1>4 DEF ReceiveUnregister
        <5>4. CASE reader[c] = "unregister"
          BY <4>1, <5>2, <5>3, <5>4
        <5>5. CASE reader[c] = "authunreg"
          <6>1. reader'[c] = "authreg"
            BY <5>2, <5>5
          <6>2. QED
            BY <5>3, <6>1
        <5>6. QED
          BY <5>1, <5>4, <5>5
      <4>3. QED
        BY <4>2
    <3>2. ClosedInv'
      BY <1>4 DEF TypeOK, ReceiveUnregister
    <3>3. LeftInv'
      BY <1>4 DEF TypeOK, ReceiveUnregister
    <3>4. QED
      BY <3>1, <3>2, <3>3, <1>4 DEF ReceiveUnregister
  <2>2. QED
    BY <2>1 DEF AdmittedEnd
<1>5. ASSUME NEW c \in Conns, RemoveConnection(c) PROVE Goal
  <2>1. panic' = <<>> => Located'
    <3>1. panic' = <<>> => HandledInv'
      BY <1>5 DEF TypeOK, RemoveConnection, RaceAbort
    <3>2. panic' = <<>> => ClosedInv'
      BY <1>5 DEF TypeOK, RemoveConnection, RaceAbort
    <3>3. panic' = <<>> => LeftInv'
      <4>1. run = "unregister" /\ conn = {c} /\ reader' = reader
        BY <1>5 DEF RemoveConnection
      <4>2. connections' = connections \ {c}
        BY <1>5 DEF RemoveConnection
      <4>3. \A d \in connections : reader[d] \in {"closing", "done"} => d = c
        BY <4>1
      <4>4. QED
        BY <4>1, <4>2, <4>3
    <3>4. QED
      BY <3>1, <3>2, <3>3
  <2>2. AdmittedEnd'
    BY <1>5 DEF TypeOK, RemoveConnection, RaceAbort, AdmittedEnd, Rebinding
  <2>3. QED
    BY <2>1, <2>2
<1>6. ASSUME Stop PROVE Goal
  <2>1. panic' = <<>> => Located'
    BY <1>6 DEF TypeOK, Stop
  <2>2. AdmittedEnd'
    BY <1>6 DEF TypeOK, Stop, AdmittedEnd, Rebinding
  <2>3. QED
    BY <2>1, <2>2
<1>7. ASSUME NEW c \in Conns, HandleWebSocket(c) PROVE Goal
  <2>1. panic' = <<>> /\ Located'
    BY <1>7 DEF TypeOK, HandleWebSocket
  <2>2. QED
    BY <2>1 DEF AdmittedEnd
<1>8. ASSUME NEW c \in Conns, HandleMessage(c) PROVE Goal
  <2>1. panic' = <<>> /\ Located'
    BY <1>8 DEF TypeOK, HandleMessage
  <2>2. QED
    BY <2>1 DEF AdmittedEnd
<1>9. ASSUME NEW c \in Conns, HandleAuth(c) PROVE Goal
  <2>1. panic' = <<>> /\ Located'
    BY <1>9 DEF TypeOK, HandleAuth
  <2>2. QED
    BY <2>1 DEF AdmittedEnd
<1>10. ASSUME NEW c \in Conns, Reply(c) PROVE Goal
  <2>1. panic' = <<>> => Located'
    <3>0. /\ UNCHANGED <<run, conn, connections, send>>
          /\ reader[c] \in {"reply", "authok"}
          /\ panic' = <<>> => send[c] = "open"
          /\ \/ reader' = reader
             \/ reader' = [reader EXCEPT ![c] = "read"]
             \/ reader' = [reader EXCEPT ![c] = "reply"]
      BY <1>10 DEF Reply, Put
    <3>a. \A d \in Conns : \/ reader'[d] = reader[d]
                           \/ d = c /\ reader'[d] \in {"read", "reply"}
      BY <3>0 DEF TypeOK
    <3>1. panic' = <<>> => HandledInv'
      BY <3>0, <3>a
    <3>2. panic' = <<>> => ClosedInv'
      <4>1. SUFFICES ASSUME panic' = <<>>, run' # "stopped",
                            NEW d \in Conns, send'[d] = "closed"
                     PROVE  reader'[d] \in {"closing", "done", "authreg", "authok"}
        OBVIOUS
      <4>2. d # c /\ reader'[d] = reader[d]
        BY <3>0, <3>a, <4>1
      <4>3. QED
        BY <3>0, <4>1, <4>2
    <3>3. panic' = <<>> => LeftInv'
      BY <1>10 DEF TypeOK, Reply, Put
    <3>4. QED
      BY <3>1, <3>2, <3>3
  <2>2. AdmittedEnd'
    BY <1>10 DEF TypeOK, Reply, Put, AdmittedEnd, Rebinding
  <2>3. QED
    BY <2>1, <2>2
<1>11. ASSUME NEW c \in Conns, ReadFails(c) PROVE Goal
  <2>1. panic' = <<>> /\ Located'
    BY <1>11 DEF TypeOK, ReadFails
  <2>2. QED
    BY <2>1 DEF AdmittedEnd
<1>12. ASSUME NEW c \in Conns, CloseSocket(c) PROVE Goal
  <2>1. panic' = <<>> /\ Located'
    BY <1>12 DEF TypeOK, CloseSocket
  <2>2. QED
    BY <2>1 DEF AdmittedEnd
<1>13. ASSUME NEW c \in Conns, Write(c) PROVE Goal
  <2>1. panic' = <<>> /\ Located'
    BY <1>13 DEF TypeOK, Write
  <2>2. QED
    BY <2>1 DEF AdmittedEnd
<1>14. ASSUME NEW c \in Conns, WritePumpEnds(c) PROVE Goal
  <2>1. panic' = <<>> /\ Located'
    BY <1>14 DEF TypeOK, WritePumpEnds
  <2>2. QED
    BY <2>1 DEF AdmittedEnd
<1>15. ASSUME NEW c \in Conns, Disconnect(c) PROVE Goal
  <2>1. panic' = <<>> => Located'
    BY <1>15 DEF TypeOK, Disconnect, Put, PutOrDrop
  <2>2. AdmittedEnd'
    BY <1>15 DEF TypeOK, Disconnect, Put, PutOrDrop, AdmittedEnd, Rebinding
  <2>3. QED
    BY <2>1, <2>2
<1>16. ASSUME NEW p \in Pushers, SendToUser(p) PROVE Goal
  <2>1. panic' = <<>> /\ Located'
    BY <1>16 DEF TypeOK, SendToUser
  <2>2. QED
    BY <2>1 DEF AdmittedEnd
<1>17. ASSUME NEW p \in Pushers, SendToConnection(p) PROVE Goal
  <2>1. panic' = <<>> => Located'
    BY <1>17 DEF TypeOK, SendToConnection, Put, PutOrDrop
  <2>2. AdmittedEnd'
    BY <1>17 DEF TypeOK, SendToConnection, Put, PutOrDrop, AdmittedEnd, Rebinding
  <2>3. QED
    BY <2>1, <2>2
<1>18. ASSUME NEW p \in Pushers, SendToUserReturns(p) PROVE Goal
  <2>1. panic' = <<>> /\ Located'
    BY <1>18 DEF TypeOK, SendToUserReturns
  <2>2. QED
    BY <2>1 DEF AdmittedEnd
<1>19. ASSUME CheckHeartbeat PROVE Goal
  <2>1. panic' = <<>> /\ Located'
    BY <1>19 DEF TypeOK, CheckHeartbeat
  <2>2. QED
    BY <2>1 DEF AdmittedEnd
<1>20. QED
  BY <1>1, <1>2, <1>3, <1>4, <1>5, <1>6, <1>7, <1>8, <1>9, <1>10, <1>11, <1>12, <1>13, <1>14, <1>15, <1>16, <1>17, <1>18, <1>19
  DEF Next, Run, ReadPump, WritePump, Push

(* The inductive invariant holds at the start and over every step.         *)
LEMMA Inductive == (Init => IInv) /\ (IInv /\ [Next]_vars => IInv')
<1>1. Init => IInv
  <2>1. Init => Located /\ panic = <<>>
    BY DEF Init, Located, HandledInv, ClosedInv, LeftInv
  <2>2. QED
    BY <2>1, TypeInit, AliveSafe DEF IInv, Located
<1>2. ASSUME IInv, Next PROVE IInv'
  <2>1. TypeOK' /\ Located
    BY <1>2, TypeNext DEF IInv, Located, Next
  <2>2. (panic' = <<>> => Located') /\ AdmittedEnd'
    BY <1>2, <2>1, StepSafe DEF IInv
  <2>3. ClosedOnce' /\ OwnRepliesSafe'
    BY <2>2, AdmittedSafe, PTL
  <2>4. QED
    BY <2>1, <2>2, <2>3 DEF IInv, Located
<1>3. ASSUME IInv, UNCHANGED vars PROVE IInv'
  BY <1>3 DEF IInv, vars, hubVars, pumpVars, pushVars, TypeOK, ClosedOnce,
      OwnRepliesSafe, Rebinding, HandledInv, ClosedInv, LeftInv
<1>4. QED
  BY <1>1, <1>2, <1>3

(* Every reachable state of the hub satisfies the inductive invariant.     *)
THEOREM Invariance == Spec => []IInv
  BY Inductive, PTL DEF Spec

(* No Send channel is closed twice, unless handleAuth re-registered it.    *)
THEOREM ClosedOnceHolds == Spec => []ClosedOnce
<1>1. IInv => ClosedOnce
  BY DEF IInv
<1>2. QED
  BY <1>1, Invariance, PTL

(* ReadPump never sends on a closed channel in a running hub, unless       *)
(* handleAuth re-registered the connection.                                *)
THEOREM OwnRepliesSafeHolds == Spec => []OwnRepliesSafe
<1>1. IInv => OwnRepliesSafe
  BY DEF IInv
<1>2. QED
  BY <1>1, Invariance, PTL

-----------------------------------------------------------------------------
(* The connection is in both maps, under its user; it is in neither.       *)
Entered(c) == c \in connections /\ \A u \in Names : <<u, c>> \in index <=> uid[c] = u
Out(c)     == c \notin connections /\ \A u \in Names : <<u, c>> \notin index

(* Run has c in hand.                                                      *)
Handles(c, case) == conn = {c} /\ run = case

(* Between two authentications and their re-registration.                  *)
Settled(c) == \/ reader[c] \in {"read", "reply", "unregister"}
              \/ reader[c] = "authok" /\ send[c] = "open"

(* Where a connection is found in the maps of a running hub.               *)
Placed(c) ==
    /\ reader[c] \in {"none", "register"} => Out(c)
    /\ Settled(c) /\ Handles(c, "register") => Out(c)
    /\ Settled(c) /\ Handles(c, "insert") =>
          /\ c \in connections /\ uid[c] \in keys
          /\ \A u \in Names : <<u, c>> \notin index
    /\ Settled(c) /\ ~Handles(c, "register") /\ ~Handles(c, "insert") => Entered(c)
    /\ reader[c] \in {"closing", "done"} =>
          IF Handles(c, "unregister") THEN Entered(c) ELSE Out(c)
    /\ reader[c] = "authunreg" /\ ~Handles(c, "register") => c \in connections
    /\ reader[c] = "authreg" =>
          IF Handles(c, "unregister") THEN c \in connections ELSE send[c] = "closed"

(* While no user id was replaced, a user has an inner map exactly while    *)
(* there is an entry in it, or one about to be made.                       *)
KeysInv ==
    (\A c \in Conns : ~Rebinding(c)) =>
        keys = {u \in Names : \/ \E c \in Conns : <<u, c>> \in index
                              \/ \E c \in Conns : Handles(c, "insert") /\ u = uid[c]}

Running == panic = <<>> /\ run # "stopped"

MapsInv == Running => KeysInv /\ \A c \in Conns : Placed(c)

(* Nothing that Placed is about changes for a connection.                  *)
Untouched(c) ==
    /\ c \in connections' <=> c \in connections
    /\ \A u \in Names : <<u, c>> \in index' <=> <<u, c>> \in index
    /\ uid'[c] = uid[c] /\ reader'[c] = reader[c] /\ send'[c] = send[c]
    /\ \A case \in {"register", "insert", "unregister"} :
          Handles(c, case)' <=> Handles(c, case)
    /\ Handles(c, "insert") => keys \subseteq keys'

(* Such a connection stays where it is.                                    *)
LEMMA PlacedSame ==
  ASSUME NEW c \in Conns, Placed(c), Untouched(c)
  PROVE  Placed(c)'
  BY DEF Placed, Untouched, Entered, Out, Settled

(* The steps of Run.                                                       *)
LEMMA PlacedRun ==
  ASSUME TypeOK, Located, MapsInv, Running, Running', Run
  PROVE  \A d \in Conns : Placed(d)'
<1> USE DEF hubVars, pumpVars, pushVars
<1>0. /\ \A d \in Conns : Placed(d)
      /\ HandledInv /\ ClosedInv /\ run # "stopped"
      /\ uid \in [Conns -> Names] /\ connections \subseteq Conns
      /\ send \in [Conns -> {"open", "closed"}] /\ reader \in [Conns -> ReaderStates]
      /\ panic' = <<>>
  BY DEF TypeOK, Running, MapsInv, Located
<1>a. \A c, d : c # d => {c} # {d} /\ {} # {d}
  OBVIOUS
<1>1. ASSUME NEW c \in Conns, ReceiveRegister(c), NEW d \in Conns PROVE Placed(d)'
  <2>1. CASE d = c
    BY <2>1, <1>1, <1>0 DEF ReceiveRegister, Placed, Settled, Handles, Out, Entered, ClosedInv
  <2>2. CASE d # c
    BY <2>2, <1>1, <1>0, PlacedSame DEF ReceiveRegister, Untouched, Handles
  <2>3. QED
    BY <2>1, <2>2
<1>2. ASSUME NEW c \in Conns, MakeUserMap(c), NEW d \in Conns PROVE Placed(d)'
  <2>1. CASE d = c
    BY <2>1, <1>2, <1>0 DEF MakeUserMap, Placed, Settled, Handles, Out, Entered, HandledInv
  <2>2. CASE d # c
    <3>1. Untouched(d)
      <4>1. d \in connections' <=> d \in connections
        BY <2>2, <1>2 DEF MakeUserMap
      <4>2. conn = {c} /\ conn' = {c} /\ UNCHANGED <<index, uid, reader, send>>
        BY <1>2 DEF MakeUserMap
      <4>3. conn # {d} /\ conn' # {d}
        BY <2>2, <4>2, <1>a
      <4>4. QED
        BY <4>1, <4>2, <4>3 DEF Untouched, Handles
    <3>2. QED
      BY <3>1, <1>0, PlacedSame
  <2>3. QED
    BY <2>1, <2>2
<1>3. ASSUME NEW c \in Conns, InsertIntoUserMap(c), NEW d \in Conns PROVE Placed(d)'
  <2>0. index' = index \cup {<<uid[c], c>>}
    BY <1>3, <1>0 DEF InsertIntoUserMap, RaceAbort
  <2>1. CASE d = c
    BY <2>0, <2>1, <1>3, <1>0 DEF InsertIntoUserMap, Placed, Settled, Handles, Out, Entered, HandledInv
  <2>2. CASE d # c
    <3>1. Untouched(d)
      <4>1. \A u \in Names : <<u, d>> \in index' <=> <<u, d>> \in index
        BY <2>0, <2>2
      <4>2. conn = {c} /\ conn' = {} /\ UNCHANGED <<connections, uid, reader, send>>
        BY <1>3, <1>0 DEF InsertIntoUserMap, RaceAbort
      <4>3. conn # {d} /\ conn' # {d}
        BY <2>2, <4>2, <1>a
      <4>4. QED
        BY <4>1, <4>2, <4>3 DEF Untouched, Handles
    <3>2. QED
      BY <3>1, <1>0, PlacedSame
  <2>3. QED
    BY <2>1, <2>2
<1>4. ASSUME NEW c \in Conns, ReceiveUnregister(c), NEW d \in Conns PROVE Placed(d)'
  <2>1. CASE d = c
    <3>1. /\ run = "select" /\ conn = {} /\ run' = "unregister" /\ conn' = {c}
          /\ UNCHANGED <<connections, keys, index, uid, send>>
      BY <1>4 DEF ReceiveUnregister, TypeOK
    <3>2. ~Handles(c, "register") /\ ~Handles(c, "insert")
      BY <3>1 DEF Handles
    <3>3. CASE reader[c] = "unregister" /\ reader'[c] = "closing"
      <4>0. Settled(c)
        BY <3>3 DEF Settled
      <4>a. Entered(c)
        BY <3>2, <4>0, <1>0 DEF Placed
      <4>1. Entered(c)'
        BY <3>1, <4>a DEF Entered
      <4>2. QED
        BY <2>1, <3>3, <4>1, <3>1 DEF Placed, Settled, Handles
    <3>4. CASE reader[c] = "authunreg" /\ reader'[c] = "authreg"
      <4>1. c \in connections'
        BY <3>1, <3>2, <3>4, <1>0 DEF Placed
      <4>2. QED
        BY <2>1, <3>4, <4>1, <3>1 DEF Placed, Settled, Handles
    <3>5. QED
      <4>1. reader[c] \in {"unregister", "authunreg"}
            /\ reader'[c] = IF reader[c] = "unregister" THEN "closing" ELSE "authreg"
        BY <1>0, <1>4 DEF ReceiveUnregister
      <4>2. QED
        BY <4>1, <3>3, <3>4
  <2>2. CASE d # c
    BY <2>2, <1>4, <1>0, PlacedSame DEF ReceiveUnregister, Untouched, Handles
  <2>3. QED
    BY <2>1, <2>2
<1>5. ASSUME NEW c \in Conns, RemoveConnection(c), NEW d \in Conns PROVE Placed(d)'
  <2>0. /\ c \in connections =>
              /\ connections' = connections \ {c} /\ index' = index \ {<<uid[c], c>>}
              /\ send' = [send EXCEPT ![c] = "closed"]
        /\ c \notin connections => UNCHANGED <<connections, index, send>>
        /\ run = "unregister" /\ conn = {c} /\ run' = "select" /\ conn' = {}
        /\ UNCHANGED <<uid, reader>>
    BY <1>5, <1>0 DEF RemoveConnection, RaceAbort
  <2>1. CASE d = c
    BY <2>0, <2>1, <1>0 DEF Placed, Settled, Handles, Out, Entered, HandledInv
  <2>2. CASE d # c
    <3>1. Untouched(d)
      <4>1. \A u \in Names : <<u, d>> \in index' <=> <<u, d>> \in index
        BY <2>0, <2>2
      <4>2. d \in connections' <=> d \in connections
        BY <2>0, <2>2
      <4>3. conn # {d} /\ conn' # {d}
        BY <2>0, <2>2, <1>a
      <4>4. send'[d] = send[d] /\ UNCHANGED <<uid, reader>>
        BY <2>0, <2>2, <1>0
      <4>5. QED
        BY <4>1, <4>2, <4>3, <4>4 DEF Untouched, Handles
    <3>2. QED
      BY <3>1, <1>0, PlacedSame
  <2>3. QED
    BY <2>1, <2>2
<1>6. QED
  BY <1>1, <1>2, <1>3, <1>4, <1>5 DEF Run

(* A step in which Run rests and one ReadPump goes on.                     *)
LEMMA PlacedReader ==
  ASSUME TypeOK, Located, MapsInv, Running, Running',
         NEW c \in Conns, HandleWebSocket(c) \/ ReadPump(c)
  PROVE  \A d \in Conns : Placed(d)'
<1> USE DEF hubVars, pumpVars, pushVars, TypeOK, Running, MapsInv, Located
<1>0. UNCHANGED <<run, conn, connections, keys, index, send>> /\ \A d \in Conns : Placed(d)
  BY DEF HandleWebSocket, ReadPump, HandleMessage, HandleAuth, Reply, ReadFails, CloseSocket
<1>1. ASSUME NEW d \in Conns, d # c PROVE Placed(d)'
  <2>1. uid'[d] = uid[d] /\ reader'[d] = reader[d]
    BY <1>1 DEF HandleWebSocket, ReadPump, HandleMessage, HandleAuth, Reply, ReadFails, CloseSocket
  <2>2. QED
    BY <1>0, <1>1, <2>1, PlacedSame DEF Untouched, Handles
<1>2. CASE HandleWebSocket(c)
  <2>1. Placed(c)'
    BY <1>0, <1>2 DEF HandleWebSocket, Placed, Settled, Handles, Out
  <2>2. QED
    BY <1>1, <2>1
<1>3. CASE HandleMessage(c)
  <2>1. Placed(c)'
    BY <1>0, <1>3 DEF HandleMessage, Placed, Settled, Handles, Out, Entered
  <2>2. QED
    BY <1>1, <2>1
<1>4. CASE HandleAuth(c)
  <2>0. send[c] = "open"
    BY <1>4 DEF HandleAuth, ClosedInv
  <2>1. PICK u \in TokenUsers :
           /\ uid' = [uid EXCEPT ![c] = u]
           /\ reader' = [reader EXCEPT ![c] = IF u = uid[c] THEN "authok" ELSE "authunreg"]
    BY <1>4 DEF HandleAuth
  <2>2. Placed(c)'
    <3>1. CASE u = uid[c]
      BY <1>0, <1>4, <2>0, <2>1, <3>1 DEF HandleAuth, Placed, Settled, Handles, Out, Entered
    <3>2. CASE u # uid[c]
      BY <1>0, <1>4, <2>0, <2>1, <3>2 DEF HandleAuth, Placed, Settled, Handles, Out, Entered
    <3>3. QED
      BY <3>1, <3>2
  <2>3. QED
    BY <1>1, <2>2
<1>5. CASE Reply(c)
  <2>1. send[c] = "open" /\ reader[c] \in {"reply", "authok"}
        /\ reader' \in {[reader EXCEPT ![c] = "read"], [reader EXCEPT ![c] = "reply"]}
        /\ uid' = uid
    BY <1>5 DEF Reply, Put
  <2>2. Placed(c)'
    BY <1>0, <2>1 DEF Placed, Settled, Handles, Out, Entered
  <2>3. QED
    BY <1>1, <2>2
<1>6. CASE ReadFails(c)
  <2>1. Placed(c)'
    BY <1>0, <1>6 DEF ReadFails, Placed, Settled, Handles, Out, Entered
  <2>2. QED
    BY <1>1, <2>1
<1>7. CASE CloseSocket(c)
  <2>1. Placed(c)'
    BY <1>0, <1>7 DEF CloseSocket, Placed, Settled, Handles, Out, Entered
  <2>2. QED
    BY <1>1, <2>1
<1>8. QED
  BY <1>2, <1>3, <1>4, <1>5, <1>6, <1>7 DEF ReadPump

(* The steps of other goroutines leave the maps and the readers alone.     *)
LEMMA MapsOthers ==
  ASSUME MapsInv, Running,
         UNCHANGED <<run, conn, connections, keys, index, uid, send, reader>>
  PROVE  MapsInv'
<1>1. \A d \in Conns : Placed(d)'
  BY PlacedSame DEF MapsInv, Untouched, Handles
<1>2. KeysInv'
  BY DEF MapsInv, KeysInv, Rebinding, Handles
<1>3. QED
  BY <1>1, <1>2 DEF MapsInv

(* Once a connection is between two users, it does not get out again.      *)
LEMMA RebindingStays ==
  ASSUME TypeOK, Located, MapsInv, Running, Running', Next,
         NEW c \in Conns, Rebinding(c)
  PROVE  Rebinding(c)'
<1> USE DEF Running
<1>1. reader[c] = "authreg" /\ run = "select" => send[c] = "closed"
  BY DEF MapsInv, Placed, Handles, TypeOK
<1>2. ASSUME NEW d \in Conns, ReceiveRegister(d) PROVE Rebinding(c)'
  BY <1>1, <1>2 DEF ReceiveRegister, Rebinding, TypeOK
<1>3. ASSUME NEW d \in Conns, ReceiveUnregister(d) PROVE Rebinding(c)'
  BY <1>3 DEF ReceiveUnregister, Rebinding, TypeOK
<1>4. ASSUME NEW d \in Conns, RemoveConnection(d) PROVE Rebinding(c)'
  BY <1>4 DEF RemoveConnection, Rebinding, TypeOK
<1>5. ASSUME NEW d \in Conns, HandleWebSocket(d) \/ ReadPump(d) PROVE Rebinding(c)'
  <2>1. send' = send
    BY <1>5 DEF HandleWebSocket, ReadPump, HandleMessage, HandleAuth, Reply, ReadFails, CloseSocket
  <2>2. reader'[c] = reader[c]
    BY <1>5 DEF HandleWebSocket, ReadPump, HandleMessage, HandleAuth, Reply, Put, ReadFails,
                CloseSocket, Rebinding, TypeOK
  <2>3. QED
    BY <2>1, <2>2 DEF Rebinding
<1>6. ASSUME UNCHANGED <<reader, send>> PROVE Rebinding(c)'
  BY <1>6 DEF Rebinding
<1>7. ASSUME NEW d \in Conns, MakeUserMap(d) \/ InsertIntoUserMap(d) \/ WritePump(d) \/ Disconnect(d)
      PROVE  UNCHANGED <<reader, send>>
  BY <1>7 DEF MakeUserMap, InsertIntoUserMap, WritePump, Write, WritePumpEnds, Disconnect, pumpVars
<1>8. ASSUME CheckHeartbeat \/ \E p \in Pushers : Push(p) PROVE UNCHANGED <<reader, send>>
  BY <1>8 DEF CheckHeartbeat, Push, SendToUser, SendToConnection, SendToUserReturns, pumpVars
<1>9. ~Stop
  BY DEF Stop
<1>10. QED
  BY <1>2, <1>3, <1>4, <1>5, <1>6, <1>7, <1>8, <1>9 DEF Next, Run

(* The keys of the user map, over the steps of Run.                        *)
LEMMA KeysRun ==
  ASSUME TypeOK, Located, MapsInv, Running, Running', Run,
         \A c \in Conns : ~Rebinding(c), \A c \in Conns : ~Rebinding(c)'
  PROVE  KeysInv'
<1> USE DEF Running, MapsInv, KeysInv, Handles
<1>1. ASSUME NEW c \in Conns, ReceiveRegister(c) PROVE KeysInv'
  BY <1>1 DEF ReceiveRegister
<1>2. ASSUME NEW c \in Conns, MakeUserMap(c) PROVE KeysInv'
  <2>1. /\ keys' = keys \cup {uid[c]} /\ conn = {c} /\ run = "register" /\ run' = "insert"
        /\ UNCHANGED <<conn, index, uid>> /\ uid[c] \in Names
    BY <1>2 DEF MakeUserMap, pumpVars, TypeOK
  <2>2. keys = {u \in Names : \E d \in Conns : <<u, d>> \in index}
    BY <2>1
  <2>3. {d \in Conns : conn = {d}} = {c}
    BY <2>1
  <2>4. keys' = {u \in Names : (\E d \in Conns : <<u, d>> \in index) \/ u = uid[c]}
    BY <2>1, <2>2
  <2>5. QED
    BY <2>1, <2>3, <2>4
<1>3. ASSUME NEW c \in Conns, InsertIntoUserMap(c) PROVE KeysInv'
  <2>1. /\ uid[c] \in keys /\ index' = index \cup {<<uid[c], c>>}
        /\ run = "insert" /\ conn = {c} /\ run' = "select"
        /\ UNCHANGED <<keys, uid>> /\ uid[c] \in Names
    BY <1>3 DEF InsertIntoUserMap, RaceAbort, pumpVars, TypeOK
  <2>2. \A d \in Conns : conn = {d} <=> d = c
    BY <2>1
  <2>3. keys = {u \in Names : (\E d \in Conns : <<u, d>> \in index) \/ u = uid[c]}
    BY <2>1, <2>2
  <2>4. \A u \in Names : (\E d \in Conns : <<u, d>> \in index')
                          <=> (\E d \in Conns : <<u, d>> \in index) \/ u = uid[c]
    BY <2>1
  <2>5. keys' = {u \in Names : \E d \in Conns : <<u, d>> \in index'}
    BY <2>1, <2>3, <2>4
  <2>6. QED
    BY <2>1, <2>5
<1>4. ASSUME NEW c \in Conns, ReceiveUnregister(c) PROVE KeysInv'
  BY <1>4 DEF ReceiveUnregister
<1>5. ASSUME NEW c \in Conns, RemoveConnection(c) PROVE KeysInv'
  <2>1. CASE c \notin connections
    BY <1>5, <2>1 DEF RemoveConnection
  <2>2. CASE c \in connections
    <3>1. /\ index' = index \ {<<uid[c], c>>}
          /\ keys' = {u \in keys : u = uid[c] => \E d \in Conns : <<u, d>> \in index'}
          /\ run = "unregister" /\ run' = "select"
      BY <1>5, <2>2 DEF RemoveConnection
    <3>2. \A u \in Names, d \in Conns :
             <<u, d>> \in index' <=> <<u, d>> \in index /\ ~(u = uid[c] /\ d = c)
      BY <3>1
    <3>3. keys = {u \in Names : \E d \in Conns : <<u, d>> \in index}
      BY <3>1
    <3>4. \A u \in Names : u # uid[c] =>
             ((\E d \in Conns : <<u, d>> \in index') <=> \E d \in Conns : <<u, d>> \in index)
      BY <3>2
    <3>5. keys' = {u \in Names : \E d \in Conns : <<u, d>> \in index'}
      BY <3>1, <3>2, <3>3, <3>4
    <3>6. QED
      BY <3>1, <3>5
  <2>3. QED
    BY <2>1, <2>2
<1>6. QED
  BY <1>1, <1>2, <1>3, <1>4, <1>5 DEF Run

(* Where the connections are, and what the keys are, is kept by every step *)
(* of a hub that runs on.                                                  *)
LEMMA MapsNext ==
  ASSUME TypeOK, Located, MapsInv, panic = <<>>, Next
  PROVE  MapsInv'
<1> SUFFICES ASSUME Running' PROVE MapsInv'
  BY DEF MapsInv
<1>0. Running
  BY DEF Running, Next, Run, Stop, ReceiveRegister, MakeUserMap, InsertIntoUserMap,
         ReceiveUnregister, RemoveConnection, HandleWebSocket, ReadPump, HandleMessage,
         HandleAuth, Reply, ReadFails, CloseSocket, WritePump, Write, WritePumpEnds,
         Disconnect, Push, SendToUser, SendToConnection, SendToUserReturns, CheckHeartbeat,
         hubVars
<1>1. (\A c \in Conns : ~Rebinding(c)') => \A c \in Conns : ~Rebinding(c)
  BY <1>0, RebindingStays
<1>2. CASE Run
  <2>1. KeysInv'
    <3>1. CASE \A c \in Conns : ~Rebinding(c)'
      BY <1>0, <1>1, <1>2, <3>1, KeysRun
    <3>2. CASE ~\A c \in Conns : ~Rebinding(c)'
      BY <3>2 DEF KeysInv
    <3>3. QED
      BY <3>1, <3>2
  <2>2. QED
    BY <1>0, <1>2, <2>1, PlacedRun DEF MapsInv
<1>3. ASSUME NEW c \in Conns, HandleWebSocket(c) \/ ReadPump(c) PROVE MapsInv'
  <2>1. UNCHANGED <<run, conn, keys, index>>
    BY <1>3 DEF HandleWebSocket, ReadPump, HandleMessage, HandleAuth, Reply, ReadFails,
                CloseSocket, hubVars
  <2>2. KeysInv'
    <3>1. SUFFICES ASSUME \A d \in Conns : ~Rebinding(d)' PROVE KeysInv'
      BY DEF KeysInv
    <3>2. \A d \in Conns : Handles(d, "insert") => uid'[d] = uid[d]
      <4>1. Handles(c, "insert") => reader[c] # "none"
        BY DEF Located, HandledInv, Handles
      <4>2. QED
        BY <1>3, <3>1, <4>1 DEF HandleWebSocket, ReadPump, HandleMessage, HandleAuth, Reply,
           ReadFails, CloseSocket, Rebinding, TypeOK
    <3>3. QED
      BY <1>0, <1>1, <2>1, <3>1, <3>2 DEF MapsInv, KeysInv, Handles
  <2>3. QED
    BY <1>0, <1>3, <2>2, PlacedReader DEF MapsInv
<1>4. ASSUME NEW c \in Conns, WritePump(c) \/ Disconnect(c) PROVE MapsInv'
  <2>1. UNCHANGED <<run, conn, connections, keys, index, uid, send, reader>>
    BY <1>4 DEF WritePump, Write, WritePumpEnds, Disconnect, hubVars
  <2>2. QED
    BY <1>0, <2>1, MapsOthers
<1>5. ASSUME CheckHeartbeat \/ \E p \in Pushers : Push(p) PROVE MapsInv'
  <2>1. UNCHANGED <<run, conn, connections, keys, index, uid, send, reader>>
    BY <1>5 DEF CheckHeartbeat, Push, SendToUser, SendToConnection, SendToUserReturns,
                hubVars, pumpVars
  <2>2. QED
    BY <1>0, <2>1, MapsOthers
<1>6. ~Stop
  BY DEF Stop, Running
<1>7. QED
  BY <1>2, <1>3, <1>4, <1>5, <1>6 DEF Next

(* Between two requests, a connection that is placed is indexed under its  *)
(* user exactly while it is registered.                                    *)
LEMMA MapsAgree == TypeOK /\ MapsInv => IndexesAgree
<1> SUFFICES ASSUME TypeOK, MapsInv, run = "select", panic = <<>>
             PROVE  /\ \A c \in Conns : ~Rebinding(c) =>
                          \A u \in Names : <<u, c>> \in index <=> c \in connections /\ uid[c] = u
                    /\ (\A c \in Conns : ~Rebinding(c)) =>
                          keys = {u \in Names : \E c \in Conns : <<u, c>> \in index}
  BY DEF IndexesAgree
<1>1. KeysInv /\ \A c \in Conns : Placed(c)
  BY DEF MapsInv, Running
<1>2. \A c \in Conns : reader[c] \in ReaderStates /\ send[c] \in {"open", "closed"}
  BY DEF TypeOK
<1>3. ASSUME NEW c \in Conns, ~Rebinding(c) PROVE Entered(c) \/ Out(c)
  <2>1. Placed(c) /\ \A case \in {"register", "insert", "unregister"} : ~Handles(c, case)
    BY <1>1 DEF Handles
  <2>2. CASE reader[c] \in {"none", "register"} \/ reader[c] \in {"closing", "done"}
    BY <2>1, <2>2 DEF Placed
  <2>3. CASE Settled(c)
    BY <2>1, <2>3 DEF Placed
  <2>4. QED
    BY <1>2, <1>3, <2>2, <2>3 DEF Settled, Rebinding, ReaderStates
<1>4. QED
  BY <1>1, <1>3 DEF KeysInv, Handles, Entered, Out

(* UserConns and Connections agree whenever Run is between two requests,   *)
(* for any number of connections, users and pushes.                        *)
THEOREM IndexesAgreeHolds == Spec => []IndexesAgree
<1>1. Init => MapsInv
  BY DEF Init, MapsInv, KeysInv, Placed, Out, Settled, Handles
<1>2. IInv /\ MapsInv /\ [Next]_vars => MapsInv'
  <2>1. ASSUME IInv, MapsInv, Next PROVE MapsInv'
    BY <2>1, MapsNext DEF IInv, Located, Next
  <2>2. ASSUME MapsInv, UNCHANGED vars PROVE MapsInv'
    BY <2>2 DEF vars, hubVars, pumpVars, MapsInv, Running, KeysInv, Rebinding, Placed, Entered,
       Out, Settled, Handles
  <2>3. QED
    BY <2>1, <2>2
<1>3. IInv /\ MapsInv => IndexesAgree
  BY MapsAgree DEF IInv
<1>4. QED
  BY <1>1, <1>2, <1>3, Invariance, PTL DEF Spec

-----------------------------------------------------------------------------
(* No connection presents a token of another user than the one it has.     *)
NoChangeOfUser == \A c \in Conns : reader[c] # "authunreg"

(* Then none is taken out of the hub to be put back, and only connections  *)
(* that have left have a closed channel while the hub runs.                *)
NeverRebound ==
    /\ \A c \in Conns : reader[c] # "authreg"
    /\ run # "stopped" => \A c \in Conns : send[c] = "closed" => reader[c] \in {"closing", "done"}

(* The ends that are left, among them no second close, and a reply to a    *)
(* closed channel only after the shutdown.                                 *)
OrderlyEnd ==
    \/ panic = <<>>
    \/ \E c \in Conns : \/ \E cause \in {"push", "heartbeat", "map"} : panic = <<cause, c>>
                        \/ panic = <<"reply", c>> /\ run = "stopped"

(* The two maps agree on every connection, without exception.              *)
MapsAgreeAlways ==
    run = "select" /\ panic = <<>> =>
        /\ \A c \in Conns, u \in Names : <<u, c>> \in index <=> c \in connections /\ uid[c] = u
        /\ keys = {u \in Names : \E c \in Conns : <<u, c>> \in index}

(* A step of the hub rebinds no connection if none asks for it.            *)
LEMMA ReboundNext ==
  ASSUME TypeOK, Located, NeverRebound, NoChangeOfUser, Next
  PROVE  NeverRebound' /\ OrderlyEnd'
<1> USE DEF Located, HandledInv, ClosedInv, LeftInv, NeverRebound, NoChangeOfUser, OrderlyEnd,
        TypeOK, hubVars, pumpVars, pushVars
<1>0. panic = <<>>
  BY DEF Next
<1>1. ASSUME NEW c \in Conns, ReceiveRegister(c) PROVE NeverRebound' /\ OrderlyEnd'
  BY <1>0, <1>1 DEF ReceiveRegister
<1>2. ASSUME NEW c \in Conns, MakeUserMap(c) PROVE NeverRebound' /\ OrderlyEnd'
  BY <1>0, <1>2 DEF MakeUserMap
<1>3. ASSUME NEW c \in Conns, InsertIntoUserMap(c) PROVE NeverRebound' /\ OrderlyEnd'
  BY <1>0, <1>3 DEF InsertIntoUserMap, RaceAbort
<1>4. ASSUME NEW c \in Conns, ReceiveUnregister(c) PROVE NeverRebound' /\ OrderlyEnd'
  <2>1. reader[c] = "unregister" /\ reader' = [reader EXCEPT ![c] = "closing"]
    BY <1>4 DEF ReceiveUnregister
  <2>2. QED
    BY <1>0, <1>4, <2>1 DEF ReceiveUnregister
<1>5. ASSUME NEW c \in Conns, RemoveConnection(c) PROVE NeverRebound' /\ OrderlyEnd'
  <2>1. reader[c] \in {"closing", "done"} /\ send[c] = "open" /\ reader' = reader
        /\ run = "unregister" /\ run' = "select"
    BY <1>5 DEF RemoveConnection
  <2>2. send' = send \/ send' = [send EXCEPT ![c] = "closed"]
    BY <1>5 DEF RemoveConnection
  <2>3. panic' = <<>> \/ panic' = <<"map", c>>
    BY <1>0, <1>5, <2>1 DEF RemoveConnection, RaceAbort
  <2>4. OrderlyEnd'
    BY <2>3
  <2>5. NeverRebound'
    BY <2>1, <2>2
  <2>6. QED
    BY <2>4, <2>5
<1>6. ASSUME Stop PROVE NeverRebound' /\ OrderlyEnd'
  <2>1. \A c \in connections : send[c] # "closed"
    BY <1>6 DEF Stop
  <2>2. QED
    BY <1>0, <1>6, <2>1 DEF Stop
<1>7. ASSUME NEW c \in Conns, HandleWebSocket(c) PROVE NeverRebound' /\ OrderlyEnd'
  BY <1>0, <1>7 DEF HandleWebSocket
<1>8. ASSUME NEW c \in Conns, HandleMessage(c) \/ HandleAuth(c) \/ ReadFails(c)
      PROVE  NeverRebound' /\ OrderlyEnd'
  <2>1. /\ reader[c] = "read" /\ UNCHANGED <<run, send, panic>>
        /\ \E r \in {"reply", "authok", "authunreg", "unregister"} :
              reader' = [reader EXCEPT ![c] = r]
    BY <1>8 DEF HandleMessage, HandleAuth, ReadFails
  <2>2. QED
    BY <1>0, <2>1
<1>9. ASSUME NEW c \in Conns, Reply(c) PROVE NeverRebound' /\ OrderlyEnd'
  <2>1. /\ reader[c] \in {"reply", "authok"} /\ UNCHANGED <<run, send>>
        /\ \/ send[c] = "closed" /\ panic' = <<"reply", c>> /\ reader' = reader
           \/ /\ send[c] = "open" /\ panic' = <<>>
              /\ \E r \in {"read", "reply"} : reader' = [reader EXCEPT ![c] = r]
    BY <1>0, <1>9 DEF Reply, Put
  <2>2. NeverRebound'
    BY <2>1
  <2>3. OrderlyEnd'
    BY <2>1
  <2>4. QED
    BY <2>2, <2>3
<1>10. ASSUME NEW c \in Conns, CloseSocket(c) PROVE NeverRebound' /\ OrderlyEnd'
  BY <1>0, <1>10 DEF CloseSocket
<1>11. ASSUME NEW c \in Conns, WritePump(c) \/ Disconnect(c) PROVE NeverRebound' /\ OrderlyEnd'
  <2>1. UNCHANGED <<run, send, reader>> /\ (panic' = <<>> \/ panic' = <<"heartbeat", c>>)
    BY <1>0, <1>11 DEF WritePump, Write, WritePumpEnds, Disconnect, PutOrDrop, Put
  <2>2. QED
    BY <2>1
<1>12. ASSUME CheckHeartbeat \/ \E p \in Pushers : SendToUser(p) \/ SendToUserReturns(p)
       PROVE  NeverRebound' /\ OrderlyEnd'
  BY <1>0, <1>12 DEF CheckHeartbeat, SendToUser, SendToUserReturns
<1>13. ASSUME NEW p \in Pushers, SendToConnection(p) PROVE NeverRebound' /\ OrderlyEnd'
  <2>1. PICK c \in pushTodo[p] : PutOrDrop(c, "push")
    BY <1>13 DEF SendToConnection
  <2>2. UNCHANGED <<run, send, reader>> /\ (panic' = <<>> \/ panic' = <<"push", c>>)
    BY <1>0, <1>13, <2>1 DEF SendToConnection, PutOrDrop, Put
  <2>3. QED
    BY <2>2
<1>14. QED
  BY <1>1, <1>2, <1>3, <1>4, <1>5, <1>6, <1>7, <1>8, <1>9, <1>10, <1>11, <1>12, <1>13
  DEF Next, Run, ReadPump, Push

(* While no connection is rebound, nothing is excepted.                    *)
LEMMA NothingExcepted ==
  ASSUME TypeOK, IndexesAgree, NeverRebound, NoChangeOfUser
  PROVE  AuthenticationCompletes /\ MapsAgreeAlways
<1>1. AuthenticationCompletes
  BY DEF AuthenticationCompletes, NeverRebound, TypeOK
<1>2. run = "select" => \A c \in Conns : ~Rebinding(c)
  BY DEF NeverRebound, NoChangeOfUser, Rebinding
<1>3. MapsAgreeAlways
  BY <1>2 DEF MapsAgreeAlways, IndexesAgree
<1>4. QED
  BY <1>1, <1>3

(* The change of user in handleAuth is the only cause of what the other    *)
(* theorems except and of the failure to authenticate: in every run in     *)
(* which each connection keeps the user it was upgraded with, auth_ok      *)
(* finds the channel open, no channel is closed twice, no reply meets a    *)
(* closed channel before the shutdown, and the maps agree on every         *)
(* connection.  The hub's tests run it so; HandleWebSocket upgrades with   *)
(* "", so in the server the first authentication breaks the condition.     *)
THEOREM ChangeOfUserIsTheCause ==
  Spec /\ []NoChangeOfUser => [](AuthenticationCompletes /\ OrderlyEnd /\ MapsAgreeAlways)
<1> DEFINE Inv == NeverRebound /\ OrderlyEnd
<1>1. Init => Inv
  BY DEF Init, NeverRebound, OrderlyEnd
<1>2. IInv /\ NoChangeOfUser /\ Inv /\ [Next]_vars => Inv'
  <2>1. ASSUME IInv, NoChangeOfUser, Inv, Next PROVE Inv'
    BY <2>1, ReboundNext DEF IInv, Located, Next
  <2>2. ASSUME Inv, UNCHANGED vars PROVE Inv'
    BY <2>2 DEF vars, hubVars, pumpVars, NeverRebound, OrderlyEnd
  <2>3. QED
    BY <2>1, <2>2
<1>3. IInv /\ IndexesAgree /\ NoChangeOfUser /\ Inv
         => AuthenticationCompletes /\ OrderlyEnd /\ MapsAgreeAlways
  BY NothingExcepted DEF IInv
<1>4. QED
  BY <1>1, <1>2, <1>3, Invariance, IndexesAgreeHolds, PTL DEF Spec

=============================================================================
