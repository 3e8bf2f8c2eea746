-------------------------------- MODULE Hub --------------------------------
(***************************************************************************)
(* The WebSocket hub of one server process: the Run goroutine that owns    *)
(* the maps of connections, the ReadPump and WritePump goroutines of each  *)
(* connection, SendToUser as called by the Kafka consumer and by group     *)
(* broadcasts, the heartbeat checker, and the shutdown of the hub.  They   *)
(* meet in the Send channel of a connection, which Run closes while the    *)
(* others send: a send on a closed channel, a second close, or a map used  *)
(* from two goroutines ends the whole process (no goroutine recovers).     *)
(* Frames are abstracted to the replies they cause, a channel to its       *)
(* length.  Connection ids are unique.                                     *)
(***************************************************************************)
EXTENDS Naturals, FiniteSets

CONSTANTS
    Conns,         \* connections that may be opened
    Users,         \* user ids
    NoUser,        \* "", the user of an unauthenticated connection
    NewUsers,      \* what NewConnection gets: HandleWebSocket passes "",
                   \* the hub's tests pass user ids
    TokenUsers,    \* users for whom a valid token may be presented
    Pushers,       \* goroutines that call SendToUser
    SendCap        \* capacity of a Send channel (256 in the code)

ASSUME HubAssumption ==
    /\ NoUser \notin Users
    /\ NewUsers \subseteq Users \cup {NoUser}
    /\ TokenUsers \subseteq Users
    /\ SendCap \in Nat \ {0}

VARIABLES
    \* the hub
    run,          \* where Run stands: "select", in a case of it, "stopped"
    conn,         \* the connections Run received, while in a case
    connections,  \* Hub.Connections
    keys,         \* users that have an inner map in Hub.UserConns
    index,        \* the entries <<user, connection>> of those maps
    \* connections
    uid,          \* Connection.UserID
    send,         \* Connection.Send: "open" or "closed"
    queued,       \* messages in it
    socket,       \* "none", "open" or "closed"
    reader,       \* where ReadPump stands
    writer,       \* WritePump: "none", "run" or "done"
    \* other goroutines
    pushUser,     \* user a SendToUser call is for, NoUser when idle
    pushTodo,     \* connections its loop may still reach
    timedOut,     \* connections checkHeartbeatTimeout still has to cut off
    panic         \* what ended the process: <<>> or <<cause, connection>>

hubVars  == <<run, conn, connections, keys, index>>
pumpVars == <<uid, send, queued, socket, reader, writer>>
pushVars == <<pushUser, pushTodo>>
vars     == <<hubVars, pumpVars, pushVars, timedOut, panic>>

Names        == Users \cup {NoUser}
RunStates    == {"select", "register", "insert", "unregister", "stopped"}
ReaderStates == {"none", "register", "read", "reply", "authok", "authunreg",
                 "authreg", "unregister", "closing", "done"}
Causes       == {"reply", "push", "heartbeat", "close", "map"}

Init ==
    /\ run = "select" /\ conn = {} /\ connections = {}
    /\ keys = {} /\ index = {}
    /\ uid = [c \in Conns |-> NoUser]
    /\ send = [c \in Conns |-> "open"]
    /\ queued = [c \in Conns |-> 0]
    /\ socket = [c \in Conns |-> "none"]
    /\ reader = [c \in Conns |-> "none"]
    /\ writer = [c \in Conns |-> "none"]
    /\ pushUser = [p \in Pushers |-> NoUser]
    /\ pushTodo = [p \in Pushers |-> {}]
    /\ timedOut = {}
    /\ panic = <<>>

-----------------------------------------------------------------------------
(* Sending on a channel and writing to a map.                              *)

(* Mutant: a channel made with one slot too many.                          *)
PutOffByOne(c, cause) ==
    \/ /\ send[c] = "open" /\ queued[c] <= SendCap
       /\ queued' = [queued EXCEPT ![c] = @ + 1]
       /\ UNCHANGED panic
    \/ /\ send[c] = "closed"
       /\ panic' = <<cause, c>>
       /\ UNCHANGED queued

(* A blocking send from the connection's own goroutine: it waits while the *)
(* buffer is full, also when nobody will ever empty it.                    *)
Put(c, cause) ==
    \/ /\ send[c] = "open" /\ queued[c] < SendCap
       /\ queued' = [queued EXCEPT ![c] = @ + 1]
       /\ UNCHANGED panic
    \/ /\ send[c] = "closed"
       /\ panic' = <<cause, c>>
       /\ UNCHANGED queued

(* select with a default: a full buffer drops the message.                 *)
PutOrDrop(c, cause) ==
    \/ Put(c, cause)
    \/ send[c] = "open" /\ queued[c] = SendCap /\ UNCHANGED <<queued, panic>>

(* Run writes to the inner map of user u while SendToUser ranges over it   *)
(* without the lock: the loop may or may not notice the change, or the     *)
(* runtime aborts the process.                                             *)
Iterating(u) == {p \in Pushers : pushUser[p] = u /\ u # NoUser}

RaceAbort(u, c) == Iterating(u) # {} /\ panic' = <<"map", c>>

EntryAdded(u, c) ==
    \E seen \in SUBSET Iterating(u) :
        pushTodo' = [p \in Pushers |->
                        IF p \in seen THEN pushTodo[p] \cup {c} ELSE pushTodo[p]]

EntryRemoved(u, c) ==
    \E seen \in SUBSET Iterating(u) :
        pushTodo' = [p \in Pushers |->
                        IF p \in seen THEN pushTodo[p] \ {c} ELSE pushTodo[p]]

-----------------------------------------------------------------------------
(* Run.                                                                    *)

(* A connection is received from the unbuffered Register channel; the      *)
(* sender goes on: HandleWebSocket starts the pumps, handleAuth continues. *)
ReceiveRegister(c) ==
    /\ run = "select" /\ reader[c] \in {"register", "authreg"}
    /\ run' = "register" /\ conn' = {c}
    /\ reader' = [reader EXCEPT ![c] = IF @ = "register" THEN "read" ELSE "authok"]
    /\ writer' = [writer EXCEPT ![c] = IF @ = "none" THEN "run" ELSE @]
    /\ UNCHANGED <<connections, keys, index, uid, send, queued, socket,
                   pushVars, timedOut, panic>>

(* The first half of the Register case: the connection, and the inner map  *)
(* of the user id it has now.                                              *)
MakeUserMap(c) ==
    /\ run = "register" /\ conn = {c}
    /\ connections' = connections \cup {c}
    /\ keys' = keys \cup {uid[c]}
    /\ run' = "insert"
    /\ UNCHANGED <<conn, index, pumpVars, pushVars, timedOut, panic>>

(* The second half reads the user id again; handleAuth may have changed it *)
(* in between, and a write to a map that was not made panics.              *)
InsertIntoUserMap(c) ==
    /\ run = "insert" /\ conn = {c}
    /\ run' = "select" /\ conn' = {}
    /\ \/ /\ uid[c] \notin keys
          /\ panic' = <<"map", c>>
          /\ UNCHANGED <<index, pushTodo>>
       \/ /\ uid[c] \in keys
          /\ index' = index \cup {<<uid[c], c>>}
          /\ \/ EntryAdded(uid[c], c) /\ UNCHANGED panic
             \/ RaceAbort(uid[c], c) /\ UNCHANGED pushTodo
    /\ UNCHANGED <<connections, keys, pumpVars, pushUser, timedOut>>

(* A connection is received from Unregister, whose sender goes on.         *)
ReceiveUnregister(c) ==
    /\ run = "select" /\ reader[c] \in {"unregister", "authunreg"}
    /\ run' = "unregister" /\ conn' = {c}
    /\ reader' = [reader EXCEPT ![c] = IF @ = "unregister" THEN "closing" ELSE "authreg"]
    /\ UNCHANGED <<connections, keys, index, uid, send, queued, socket, writer,
                   pushVars, timedOut, panic>>

(* Mutant: a goodbye is sent to the client before its channel is closed.   *)
RemoveConnectionGoodbye(c) ==
    /\ run = "unregister" /\ conn = {c} /\ queued[c] < SendCap
    /\ run' = "select" /\ conn' = {}
    /\ connections' = connections \ {c}
    /\ index' = index \ {<<uid[c], c>>}
    /\ keys' = {u \in keys : u = uid[c] => \E d \in Conns : <<u, d>> \in index'}
    /\ send' = [send EXCEPT ![c] = "closed"]
    /\ EntryRemoved(uid[c], c)
    /\ UNCHANGED <<uid, queued, socket, reader, writer, pushUser, timedOut, panic>>

(* Mutant: an emptied inner map stays in UserConns.                        *)
RemoveConnectionKeepsMap(c) ==
    /\ run = "unregister" /\ conn = {c}
    /\ run' = "select" /\ conn' = {}
    /\ connections' = connections \ {c}
    /\ index' = index \ {<<uid[c], c>>}
    /\ send' = [send EXCEPT ![c] = "closed"]
    /\ EntryRemoved(uid[c], c)
    /\ UNCHANGED <<keys, uid, queued, socket, reader, writer, pushUser, timedOut, panic>>

(* The Unregister case.  It removes the entry under the user id the        *)
(* connection has now, which handleAuth has already changed.               *)
RemoveConnection(c) ==
    /\ run = "unregister" /\ conn = {c}
    /\ run' = "select" /\ conn' = {}
    /\ \/ /\ c \notin connections
          /\ UNCHANGED <<connections, keys, index, send, pushTodo, panic>>
       \/ /\ c \in connections
          /\ connections' = connections \ {c}
          /\ index' = index \ {<<uid[c], c>>}
          /\ keys' = {u \in keys : u = uid[c] => \E d \in Conns : <<u, d>> \in index'}
          /\ send' = [send EXCEPT ![c] = "closed"]
          /\ \/ send[c] = "closed" /\ panic' = <<"close", c>> /\ UNCHANGED pushTodo
             \/ send[c] = "open" /\ EntryRemoved(uid[c], c) /\ UNCHANGED panic
             \/ RaceAbort(uid[c], c) /\ UNCHANGED pushTodo
    /\ UNCHANGED <<uid, queued, socket, reader, writer, pushUser, timedOut>>

(* Mutant: the ctx.Done case closes everything but does not return.        *)
StopWithoutReturn ==
    /\ run = "select"
    /\ send' = [c \in Conns |-> IF c \in connections THEN "closed" ELSE send[c]]
    /\ socket' = [c \in Conns |-> IF c \in connections THEN "closed" ELSE socket[c]]
    /\ UNCHANGED <<hubVars, uid, queued, reader, writer, pushVars, timedOut, panic>>

(* The ctx.Done case.  The maps keep their entries; a registered           *)
(* connection whose channel is closed already makes the close panic.       *)
Stop ==
    /\ run = "select"
    /\ run' = "stopped"
    /\ send' = [c \in Conns |-> IF c \in connections THEN "closed" ELSE send[c]]
    /\ socket' = [c \in Conns |-> IF c \in connections THEN "closed" ELSE socket[c]]
    /\ IF \E c \in connections : send[c] = "closed"
       THEN \E c \in connections : send[c] = "closed" /\ panic' = <<"close", c>>
       ELSE UNCHANGED panic
    /\ UNCHANGED <<conn, connections, keys, index, uid, queued, reader, writer,
                   pushVars, timedOut>>

-----------------------------------------------------------------------------
(* The goroutines of a connection.                                         *)

(* HandleWebSocket upgrades the request and waits to register.             *)
HandleWebSocket(c) ==
    /\ reader[c] = "none"
    /\ \E u \in NewUsers : uid' = [uid EXCEPT ![c] = u]
    /\ socket' = [socket EXCEPT ![c] = "open"]
    /\ reader' = [reader EXCEPT ![c] = "register"]
    /\ UNCHANGED <<hubVars, send, queued, writer, pushVars, timedOut, panic>>

(* ReadPump takes a frame whose handler answers on the channel, as do      *)
(* handlePing, handleText, the pull, the ACK handlers and the rate limit.  *)
HandleMessage(c) ==
    /\ reader[c] = "read" /\ socket[c] = "open"
    /\ reader' = [reader EXCEPT ![c] = "reply"]
    /\ UNCHANGED <<hubVars, uid, send, queued, socket, writer, pushVars, timedOut, panic>>

(* handleAuth with a valid token: the user id is replaced first, then, if  *)
(* it is another one, the connection is taken out of the hub and put back. *)
HandleAuth(c) ==
    /\ reader[c] = "read" /\ socket[c] = "open"
    /\ \E u \in TokenUsers :
          /\ uid' = [uid EXCEPT ![c] = u]
          /\ reader' = [reader EXCEPT ![c] = IF u = uid[c] THEN "authok" ELSE "authunreg"]
    /\ UNCHANGED <<hubVars, send, queued, socket, writer, pushVars, timedOut, panic>>

(* The answer; after a successful authentication sendOfflineMessages may   *)
(* send another one.                                                       *)
Reply(c) ==
    /\ reader[c] \in {"reply", "authok"}
    /\ Put(c, "reply")
    /\ \/ send[c] = "closed" /\ UNCHANGED reader
       \/ send[c] = "open" /\ reader' = [reader EXCEPT ![c] = "read"]
       \/ send[c] = "open" /\ reader[c] = "authok" /\ reader' = [reader EXCEPT ![c] = "reply"]
    /\ UNCHANGED <<hubVars, uid, send, socket, writer, pushVars, timedOut>>

(* ReadMessage fails: the peer is gone, the pong deadline passed, or the   *)
(* socket was closed.                                                      *)
ReadFails(c) ==
    /\ reader[c] = "read"
    /\ reader' = [reader EXCEPT ![c] = "unregister"]
    /\ UNCHANGED <<hubVars, uid, send, queued, socket, writer, pushVars, timedOut, panic>>

(* The rest of ReadPump's deferred function.                               *)
CloseSocket(c) ==
    /\ reader[c] = "closing"
    /\ reader' = [reader EXCEPT ![c] = "done"]
    /\ socket' = [socket EXCEPT ![c] = "closed"]
    /\ UNCHANGED <<hubVars, uid, send, queued, writer, pushVars, timedOut, panic>>

(* WritePump writes a message to the socket.                               *)
Write(c) ==
    /\ writer[c] = "run" /\ queued[c] > 0 /\ socket[c] = "open"
    /\ queued' = [queued EXCEPT ![c] = @ - 1]
    /\ UNCHANGED <<hubVars, uid, send, socket, reader, writer, pushVars, timedOut, panic>>

(* WritePump returns: a message or a ping could not be written, or the     *)
(* channel is closed and empty.                                            *)
WritePumpEnds(c) ==
    /\ writer[c] = "run"
    /\ \/ queued[c] > 0 /\ queued' = [queued EXCEPT ![c] = @ - 1]
       \/ UNCHANGED queued
    /\ writer' = [writer EXCEPT ![c] = "done"]
    /\ socket' = [socket EXCEPT ![c] = "closed"]
    /\ UNCHANGED <<hubVars, uid, send, reader, pushVars, timedOut, panic>>

-----------------------------------------------------------------------------
(* SendToUser and the heartbeat checker.                                   *)

(* Run writes both maps of a registration under the lock.                  *)
Unlocked == run # "insert"

(* SendToUser looks the user's map up under the lock.                      *)
SendToUser(p) ==
    /\ Unlocked /\ pushUser[p] = NoUser
    /\ \E u \in keys \ {NoUser} :
          /\ pushUser' = [pushUser EXCEPT ![p] = u]
          /\ pushTodo' = [pushTodo EXCEPT ![p] = {c \in Conns : <<u, c>> \in index}]
    /\ UNCHANGED <<hubVars, pumpVars, timedOut, panic>>

(* Mutant: the send has no default case.                                   *)
SendToConnectionBlocking(p) ==
    /\ \E c \in pushTodo[p] :
          /\ Put(c, "push")
          /\ pushTodo' = [pushTodo EXCEPT ![p] = @ \ {c}]
    /\ UNCHANGED <<hubVars, uid, send, socket, reader, writer, pushUser, timedOut>>

(* Its loop sends to the next connection, without the lock.                *)
SendToConnection(p) ==
    /\ \E c \in pushTodo[p] :
          /\ PutOrDrop(c, "push")
          /\ pushTodo' = [pushTodo EXCEPT ![p] = @ \ {c}]
    /\ UNCHANGED <<hubVars, uid, send, socket, reader, writer, pushUser, timedOut>>

SendToUserReturns(p) ==
    /\ pushUser[p] # NoUser /\ pushTodo[p] = {}
    /\ pushUser' = [pushUser EXCEPT ![p] = NoUser]
    /\ UNCHANGED <<hubVars, pumpVars, pushTodo, timedOut, panic>>

(* checkHeartbeatTimeout copies the silent connections under the lock.     *)
CheckHeartbeat ==
    /\ Unlocked /\ timedOut = {}
    /\ timedOut' \in SUBSET connections
    /\ UNCHANGED <<hubVars, pumpVars, pushVars, panic>>

(* Mutant: the checker also closes the channel of the connection.          *)
DisconnectClosing(c) ==
    /\ c \in timedOut
    /\ timedOut' = timedOut \ {c}
    /\ send' = [send EXCEPT ![c] = "closed"]
    /\ socket' = [socket EXCEPT ![c] = "closed"]
    /\ UNCHANGED <<hubVars, uid, queued, reader, writer, pushVars, panic>>

(* Without the lock it then tells each of them and closes its socket.      *)
Disconnect(c) ==
    /\ c \in timedOut
    /\ timedOut' = timedOut \ {c}
    /\ PutOrDrop(c, "heartbeat")
    /\ socket' = [socket EXCEPT ![c] = "closed"]
    /\ UNCHANGED <<hubVars, uid, send, reader, writer, pushVars>>

-----------------------------------------------------------------------------
Run == \E c \in Conns : \/ ReceiveRegister(c) \/ MakeUserMap(c)
                        \/ InsertIntoUserMap(c)
                        \/ ReceiveUnregister(c) \/ RemoveConnection(c)

ReadPump(c)  == HandleMessage(c) \/ HandleAuth(c) \/ Reply(c)
                    \/ ReadFails(c) \/ CloseSocket(c)
WritePump(c) == Write(c) \/ WritePumpEnds(c)
Push(p)      == SendToUser(p) \/ SendToConnection(p) \/ SendToUserReturns(p)

Next ==
    /\ panic = <<>>
    /\ \/ Run \/ Stop
       \/ \E c \in Conns : \/ HandleWebSocket(c) \/ ReadPump(c) \/ WritePump(c)
                           \/ Disconnect(c)
       \/ \E p \in Pushers : Push(p)
       \/ CheckHeartbeat

Spec == Init /\ [][Next]_vars

(* Goroutines that can go on do so.  A read on a closed socket fails, and  *)
(* so does a write or the ping that is due every PingInterval; frames, new *)
(* pushes and the shutdown are never forced.                               *)
Alive(A) == panic = <<>> /\ A

Fairness ==
    /\ WF_vars(Alive(Run))
    /\ \A c \in Conns :
          /\ WF_vars(Alive(Reply(c))) /\ WF_vars(Alive(CloseSocket(c)))
          /\ WF_vars(Alive(socket[c] = "closed" /\ ReadFails(c)))
          /\ WF_vars(Alive(Write(c)))
          /\ WF_vars(Alive((socket[c] = "closed" \/ send[c] = "closed") /\ WritePumpEnds(c)))
          /\ WF_vars(Alive(Disconnect(c)))
    /\ \A p \in Pushers : WF_vars(Alive(SendToConnection(p) \/ SendToUserReturns(p)))

FairSpec == Spec /\ Fairness

-----------------------------------------------------------------------------
(* Every variable stays in its type, and Run holds a connection exactly    *)
(* while it handles one.                                                   *)
TypeOK ==
    /\ run \in RunStates /\ connections \subseteq Conns
    /\ conn \in {{}} \cup {{c} : c \in Conns}
    /\ (conn = {}) <=> (run \in {"select", "stopped"})
    /\ keys \subseteq Names /\ index \subseteq Names \X Conns
    /\ uid \in [Conns -> Names]
    /\ send \in [Conns -> {"open", "closed"}]
    /\ queued \in [Conns -> 0..SendCap]
    /\ socket \in [Conns -> {"none", "open", "closed"}]
    /\ reader \in [Conns -> ReaderStates]
    /\ writer \in [Conns -> {"none", "run", "done"}]
    /\ pushUser \in [Pushers -> Names]
    /\ pushTodo \in [Pushers -> SUBSET Conns]
    /\ timedOut \subseteq Conns
    /\ panic \in {<<>>} \cup (Causes \X Conns)

(* handleAuth is taking c from one user to another.                        *)
Rebinding(c) == \/ reader[c] \in {"authunreg", "authreg"}
                \/ reader[c] = "authok" /\ send[c] = "closed"

(* The two maps of the hub tell the same story whenever Run is between two *)
(* requests: a connection is indexed exactly under the user it belongs to, *)
(* for as long as it is registered, and a user has an inner map exactly    *)
(* while a connection is in it (IsUserOnline and the presence refresh take *)
(* the key for "online").                                                  *)
IndexesAgree ==
    run = "select" /\ panic = <<>> =>
        /\ \A c \in Conns : ~Rebinding(c) =>
              \A u \in Names : <<u, c>> \in index <=> c \in connections /\ uid[c] = u
        /\ (\A c \in Conns : ~Rebinding(c)) =>
              keys = {u \in Names : \E c \in Conns : <<u, c>> \in index}

(* A Send channel is closed once, whether the connection leaves by itself, *)
(* is cut off by the heartbeat checker or meets the shutdown of the hub -  *)
(* except when handleAuth re-registered it.                                *)
ClosedOnce == \A c \in Conns : panic = <<"close", c>> => Rebinding(c)

(* A connection's own goroutine never sends on its closed channel before   *)
(* the hub shuts down: nobody else can have it closed under its feet, as   *)
(* only ReadPump's exit unregisters - except when handleAuth does.         *)
OwnRepliesSafe ==
    \A c \in Conns : panic = <<"reply", c>> => run = "stopped" \/ Rebinding(c)

(* deployment.md: a client can connect and complete its authentication.    *)
(* When handleAuth comes to send auth_ok in a running hub, the channel is  *)
(* open.  The code does not keep this for the first authentication.        *)
AuthenticationCompletes ==
    \A c \in Conns : reader[c] = "authok" /\ run # "stopped" => send[c] = "open"

(* A slow, stuck or dead client never holds up the goroutine that pushes   *)
(* to it - the Kafka consumer, whose partition would stall.                *)
PushReturns ==
    \A p \in Pushers : pushUser[p] # NoUser ~> pushUser[p] = NoUser \/ panic # <<>>

(* Run never waits for a client: whoever comes to register or unregister   *)
(* is received, until the hub shuts down.                                  *)
HubServes ==
    \A c \in Conns : reader[c] \in {"register", "unregister"} ~>
        reader[c] \notin {"register", "unregister"} \/ run = "stopped" \/ panic # <<>>

=============================================================================
