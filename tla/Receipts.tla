------------------------------ MODULE Receipts ------------------------------
(***************************************************************************)
(* Delivered and read receipts of one conversation: MessageService's       *)
(* ProcessACK, MarkAsRead, SyncACKs and CleanupOldACKs with the repository *)
(* functions they call.  None of them uses a transaction, so requests that  *)
(* are served at the same time - REST calls, frames of two connections -   *)
(* interleave between accesses to the database: ProcessACK and MarkAsRead  *)
(* have one action per access, the two reads of a synchronisation and the  *)
(* two deletes of a cleanup are one.  The client keeps what it was told    *)
(* and synchronises from that.                                             *)
(***************************************************************************)
EXTENDS Naturals, Sequences, FiniteSets

CONSTANTS
    Users,        \* members that acknowledge the messages of another one
    Msgs,         \* messages of the conversation
    NoMsg,        \* "" as a message id
    ServerTS,     \* Message.ServerTS of each message
    Calls,        \* requests that may be served at the same time
    InOrder,      \* clients wait for an answer and acknowledge in order
    SyncUsers,    \* users whose client synchronises
    DbMayFail,    \* may an access to the database fail?
    MaxTime,      \* bound of the clock
    MaxCrashes,   \* bound: how often a request ends in the middle
    MaxCleanups   \* bound: how often receipts are cleaned up

ASSUME ReceiptsAssumption ==
    /\ NoMsg \notin Msgs
    /\ ServerTS \in [Msgs -> Nat \ {0}]
    /\ IsFiniteSet(Calls)
    /\ SyncUsers \subseteq Users
    /\ InOrder \in BOOLEAN /\ DbMayFail \in BOOLEAN
    /\ MaxTime \in Nat /\ MaxCrashes \in Nat /\ MaxCleanups \in Nat

VARIABLES
    now,       \* time.Now().UnixMilli()
    \* the database
    stored,    \* messages that have their row
    status,    \* Message.Status
    acks,      \* table message_acks
    nextId,    \* next value of its primary key
    cursors,   \* table user_cursors of this conversation, by primary key
    \* requests
    pc,        \* the access to the database that comes next
    req,       \* the request: operation, user, message, type
    ts,        \* the serverTS it took, or will answer
    row,       \* what its last lookup found: an id of acks, a row of cursors
    seen,      \* was its receipt in the table ever since it began?
    \* clients
    begun,     \* receipts a user's clients asked to record
    known,     \* receipts they were answered for
    last,      \* LastACKTS and LastACKMsgID they will synchronise from
    cleaned,   \* receipts that were cleaned up
    crashes, cleanups

dbVars     == <<stored, status, acks, nextId, cursors>>
callVars   == <<pc, req, ts, row, seen>>
clientVars == <<begun, known, last>>
vars == <<now, dbVars, callVars, clientVars, cleaned, crashes, cleanups>>

Types   == {"delivered", "read"}
Request == [op : {"ack", "mark"}, user : Users, msg : Msgs, type : Types]
NoRequest == [op |-> "none"]
AckRow  == [id : Nat, user : Users, msg : Msgs, type : Types, ts : Nat, created : Nat]
CallStates == {"idle", "check", "lookup", "touch", "create", "status",
               "cursor", "moveCursor", "newCursor", "answer"}

\* Rows of a receipt, and whether there is one.
Rows(u, m, t) == {r \in acks : r.user = u /\ r.msg = m /\ r.type = t}
RowsOf(s)     == Rows(req[s].user, req[s].msg, req[s].type)
Receipts(u)   == {<<r.msg, r.type>> : r \in {q \in acks : q.user = u}}

\* First() orders by primary key.
FirstRow(R)       == CHOOSE r \in R : \A q \in R : r.id <= q.id
CursorRows(u)     == {k \in DOMAIN cursors : cursors[k].user = u}
FirstCursor(u)    == CHOOSE k \in CursorRows(u) : \A l \in CursorRows(u) : k <= l
LastCursor(u)     == CHOOSE k \in CursorRows(u) : \A l \in CursorRows(u) : k >= l

(* GetConversationUnreadCounts: the messages past the user's cursor; of    *)
(* two rows for a conversation the later one wins.                         *)
LastReadTS(u) == IF CursorRows(u) = {} THEN 0 ELSE ServerTS[cursors[LastCursor(u)].msg]
Unread(u)     == {m \in stored : ServerTS[m] > LastReadTS(u)}

Init ==
    /\ now = 1
    /\ stored = {} /\ status = [m \in Msgs |-> "sent"]
    /\ acks = {} /\ nextId = 1 /\ cursors = <<>>
    /\ pc = [s \in Calls |-> "idle"]
    /\ req = [s \in Calls |-> NoRequest]
    /\ ts = [s \in Calls |-> 0] /\ row = [s \in Calls |-> 0]
    /\ seen = [s \in Calls |-> FALSE]
    /\ begun = [u \in Users |-> {}] /\ known = [u \in Users |-> {}]
    /\ last = [u \in Users |-> [ts |-> 0, msg |-> NoMsg]]
    /\ cleaned = {}
    /\ crashes = 0 /\ cleanups = 0

-----------------------------------------------------------------------------
Goto(s, label) == pc' = [pc EXCEPT ![s] = label] /\ UNCHANGED <<req, ts, row, seen>>

GotoFound(s, label, r) ==
    /\ pc' = [pc EXCEPT ![s] = label]
    /\ row' = [row EXCEPT ![s] = r]
    /\ UNCHANGED <<req, ts, seen>>

\* The goroutine is done, and its local variables with it.
End(s) ==
    /\ pc' = [pc EXCEPT ![s] = "idle"]
    /\ req' = [req EXCEPT ![s] = NoRequest]
    /\ ts' = [ts EXCEPT ![s] = 0] /\ row' = [row EXCEPT ![s] = 0]
    /\ seen' = [seen EXCEPT ![s] = FALSE]

(* A consumer stores a message.                                            *)
StoreMessage(m) ==
    /\ stored' = stored \cup {m}
    /\ UNCHANGED <<now, status, acks, nextId, cursors, callVars, clientVars,
                   cleaned, crashes, cleanups>>

Tick ==
    /\ now < MaxTime
    /\ now' = now + 1
    /\ UNCHANGED <<dbVars, callVars, clientVars, cleaned, crashes, cleanups>>

(* A client that waits for its answers and acknowledges messages in the    *)
(* order they have, and a message as delivered before it is read.          *)
Orderly(u, m, t) ==
    /\ \A s \in Calls : pc[s] # "idle" => req[s].user # u
    /\ \A b \in begun[u] : /\ b[2] = t => ServerTS[b[1]] <= ServerTS[m]
                           /\ t = "delivered" => b # <<m, "read">>

(* A request passes the checks that its message exists and its user is a   *)
(* member; a request that does not pass changes nothing.  serverTS is      *)
(* taken before the table of receipts is read.                             *)
Begin(s, r, label) ==
    /\ pc[s] = "idle" /\ r.msg \in stored
    /\ InOrder => Orderly(r.user, r.msg, r.type)
    /\ pc' = [pc EXCEPT ![s] = label]
    /\ req' = [req EXCEPT ![s] = r]
    /\ ts' = [ts EXCEPT ![s] = now]
    /\ seen' = [seen EXCEPT ![s] = Rows(r.user, r.msg, r.type) # {}]
    /\ begun' = IF InOrder THEN [begun EXCEPT ![r.user] = @ \cup {<<r.msg, r.type>>}]
                 ELSE begun
    /\ UNCHANGED <<now, dbVars, row, known, last, cleaned, crashes, cleanups>>

ProcessACK(s) == \E r \in Request : r.op = "ack" /\ Begin(s, r, "check")
MarkAsRead(s) ==
    \E r \in Request : r.op = "mark" /\ r.type = "read" /\ Begin(s, r, "cursor")

(* Mutant: a receipt of the other type counts as a duplicate.              *)
CheckDuplicateAnyType(s) ==
    LET R == {r \in acks : r.user = req[s].user /\ r.msg = req[s].msg}
    IN  /\ pc[s] = "check"
        /\ \/ /\ R # {}
              /\ pc' = [pc EXCEPT ![s] = "answer"]
              /\ ts' = [ts EXCEPT ![s] = FirstRow(R).ts]
              /\ UNCHANGED <<req, row, seen>>
           \/ R = {} /\ Goto(s, "lookup")
        /\ UNCHANGED <<now, dbVars, clientVars, cleaned, crashes, cleanups>>

(* GetACKByMsgIDAndUser: a receipt that is found is answered as a          *)
(* duplicate; not found and a failed read both go on.                      *)
CheckDuplicate(s) ==
    /\ pc[s] = "check"
    /\ \/ /\ RowsOf(s) # {}
          /\ pc' = [pc EXCEPT ![s] = "answer"]
          /\ ts' = [ts EXCEPT ![s] = FirstRow(RowsOf(s)).ts]
          /\ UNCHANGED <<req, row, seen>>
       \/ /\ RowsOf(s) = {} \/ DbMayFail
          /\ Goto(s, "lookup")
    /\ UNCHANGED <<now, dbVars, clientVars, cleaned, crashes, cleanups>>

(* Mutant: CreateOrUpdateACK inserts without looking.                      *)
LookupACKBlind(s) ==
    /\ pc[s] = "lookup"
    /\ Goto(s, "create")
    /\ UNCHANGED <<now, dbVars, clientVars, cleaned, crashes, cleanups>>

(* CreateOrUpdateACK looks again; here a failed read is an error.          *)
LookupACK(s) ==
    /\ pc[s] = "lookup"
    /\ \/ LET first == FirstRow(RowsOf(s))
          IN  /\ RowsOf(s) # {}
              /\ GotoFound(s, IF ts[s] > first.ts THEN "touch" ELSE "status", first.id)
       \/ RowsOf(s) = {} /\ Goto(s, "create")
       \/ DbMayFail /\ End(s)
    /\ UNCHANGED <<now, dbVars, clientVars, cleaned, crashes, cleanups>>

(* Mutant: the time is rounded up.                                         *)
TouchACKRoundedUp(s) ==
    /\ pc[s] = "touch"
    /\ acks' = {IF r.id = row[s] THEN [r EXCEPT !.ts = ts[s] + 1] ELSE r : r \in acks}
    /\ Goto(s, "status")
    /\ UNCHANGED <<now, stored, status, nextId, cursors, clientVars, cleaned, crashes, cleanups>>

(* It renews the time of the row it found, by primary key.  An error may   *)
(* be the loss of the answer, here and below.                              *)
TouchACK(s) ==
    /\ pc[s] = "touch"
    /\ \/ /\ acks' = {IF r.id = row[s] THEN [r EXCEPT !.ts = ts[s]] ELSE r : r \in acks}
          /\ \/ Goto(s, "status")
             \/ DbMayFail /\ End(s)
       \/ DbMayFail /\ End(s) /\ UNCHANGED acks
    /\ UNCHANGED <<now, stored, status, nextId, cursors, clientVars, cleaned, crashes, cleanups>>

NewRow(s) == [id |-> nextId, user |-> req[s].user, msg |-> req[s].msg,
              type |-> req[s].type, ts |-> ts[s], created |-> ts[s]]

(* Or it inserts a row.                                                    *)
CreateACK(s) ==
    /\ pc[s] = "create"
    /\ \/ /\ acks' = acks \cup {NewRow(s)} /\ nextId' = nextId + 1
          /\ \/ Goto(s, "status")
             \/ DbMayFail /\ End(s)
       \/ DbMayFail /\ End(s) /\ UNCHANGED <<acks, nextId>>
    /\ UNCHANGED <<now, stored, status, cursors, clientVars, cleaned, crashes, cleanups>>

(* Mutant: a delivered receipt moves the cursor as well.                   *)
UpdateMessageStatusFallsThrough(s) ==
    /\ pc[s] = "status"
    /\ \/ status' = [status EXCEPT ![req[s].msg] = req[s].type]
       \/ DbMayFail /\ UNCHANGED status
    /\ Goto(s, IF req[s].op = "ack" THEN "cursor" ELSE "answer")
    /\ UNCHANGED <<now, stored, acks, nextId, cursors, clientVars, cleaned, crashes, cleanups>>

(* UpdateMessageStatus, whose error is only logged.  ProcessACK goes on to *)
(* the cursor for a read receipt; MarkAsRead comes from there.             *)
UpdateMessageStatus(s) ==
    /\ pc[s] = "status"
    /\ \/ status' = [status EXCEPT ![req[s].msg] = req[s].type]
       \/ DbMayFail /\ UNCHANGED status
    /\ Goto(s, IF req[s].op = "ack" /\ req[s].type = "read" THEN "cursor" ELSE "answer")
    /\ UNCHANGED <<now, stored, acks, nextId, cursors, clientVars, cleaned, crashes, cleanups>>

CursorDone(s) == Goto(s, IF req[s].op = "ack" THEN "answer" ELSE "status")

(* Mutant: MarkAsRead logs the error of the upsert as well and goes on.    *)
CursorFailedLogged(s) == DbMayFail /\ CursorDone(s)

(* An error of the upsert is logged by ProcessACK, returned by MarkAsRead. *)
CursorFailed(s) ==
    DbMayFail /\ IF req[s].op = "ack" THEN Goto(s, "answer") ELSE End(s)

(* Mutant: UpsertUserCursor is a plain Create.                             *)
LookupCursorBlind(s) ==
    /\ pc[s] = "cursor"
    /\ Goto(s, "newCursor")
    /\ UNCHANGED <<now, dbVars, clientVars, cleaned, crashes, cleanups>>

(* UpsertUserCursor: FirstOrCreate looks for the user's cursor ...         *)
LookupCursor(s) ==
    /\ pc[s] = "cursor"
    /\ \/ /\ CursorRows(req[s].user) # {}
          /\ GotoFound(s, "moveCursor", FirstCursor(req[s].user))
       \/ CursorRows(req[s].user) = {} /\ Goto(s, "newCursor")
       \/ CursorFailed(s)
    /\ UNCHANGED <<now, dbVars, clientVars, cleaned, crashes, cleanups>>

(* ... assigns the new position to the row it found ...                    *)
MoveCursor(s) ==
    /\ pc[s] = "moveCursor"
    /\ \/ /\ cursors' = [cursors EXCEPT ![row[s]].msg = req[s].msg]
          /\ CursorDone(s) \/ CursorFailed(s)
       \/ CursorFailed(s) /\ UNCHANGED cursors
    /\ UNCHANGED <<now, stored, status, acks, nextId, clientVars, cleaned, crashes, cleanups>>

(* ... or inserts one.                                                     *)
CreateCursor(s) ==
    /\ pc[s] = "newCursor"
    /\ \/ /\ cursors' = Append(cursors, [user |-> req[s].user, msg |-> req[s].msg])
          /\ CursorDone(s) \/ CursorFailed(s)
       \/ CursorFailed(s) /\ UNCHANGED cursors
    /\ UNCHANGED <<now, stored, status, acks, nextId, clientVars, cleaned, crashes, cleanups>>

-----------------------------------------------------------------------------
(* Clients.                                                                *)

\* A client learns of receipts, the latest from message m at time t; it
\* notes that one if it is going to synchronise.
Learn(u, R, t, m) ==
    /\ known' = [known EXCEPT ![u] = @ \cup R]
    /\ last' = [last EXCEPT ![u] =
                   IF u \in SyncUsers /\ t >= @.ts THEN [ts |-> t, msg |-> m] ELSE @]

(* The answer arrives or is lost.  Only receipts are synchronised.         *)
Answer(s) ==
    /\ pc[s] = "answer"
    /\ End(s)
    /\ \/ /\ req[s].op = "ack"
          /\ Learn(req[s].user, {<<req[s].msg, req[s].type>>}, ts[s], req[s].msg)
       \/ UNCHANGED <<known, last>>
    /\ UNCHANGED <<now, dbVars, begun, cleaned, crashes, cleanups>>

(* GetACKsByConversation and the filter of SyncACKs.                       *)
MissedACKs(u) ==
    {r \in acks : /\ r.user = u
                  /\ last[u].ts > 0 => r.ts > last[u].ts
                  /\ r.msg # last[u].msg}

(* SyncACKs reads one type after the other; a failed read leaves its type  *)
(* out of the answer.                                                      *)
SyncACKs(u) ==
    \E read \in (IF DbMayFail THEN SUBSET Types ELSE {Types}) :
        LET got == {r \in MissedACKs(u) : r.type \in read}
            R   == {<<r.msg, r.type>> : r \in got}
        IN  /\ IF got = {} THEN UNCHANGED <<known, last>>
               ELSE \E r \in got : /\ \A q \in got : q.ts <= r.ts
                                   /\ Learn(u, R, r.ts, r.msg)
            /\ UNCHANGED <<now, dbVars, callVars, begun, cleaned, crashes, cleanups>>

-----------------------------------------------------------------------------
(* DeleteOldACKs: read receipts, then delivered ones, each created days    *)
(* ago, when no request that still runs had begun; a failed delete leaves  *)
(* its type alone.                                                         *)
CleanupOldACKs ==
    /\ cleanups < MaxCleanups
    /\ cleanups' = cleanups + 1
    /\ \E cutoff \in [Types -> 0..now] :
          /\ \A s \in Calls, t \in Types : pc[s] \notin {"idle", "answer"} => cutoff[t] < ts[s]
          /\ acks' = {r \in acks : r.created > cutoff[r.type]}
          /\ cleaned' = cleaned \cup
                {<<r.user, r.msg, r.type>> : r \in acks \ acks'}
    /\ seen' = [s \in Calls |-> /\ seen[s]
                                /\ \E r \in acks' : /\ r.user = req[s].user
                                                    /\ r.msg = req[s].msg
                                                    /\ r.type = req[s].type]
    /\ UNCHANGED <<now, stored, status, nextId, cursors, pc, req, ts, row,
                   clientVars, crashes>>

(* The process or the connection to the database ends in the middle.       *)
Crash(s) ==
    /\ pc[s] # "idle" /\ crashes < MaxCrashes
    /\ crashes' = crashes + 1
    /\ End(s)
    /\ UNCHANGED <<now, dbVars, clientVars, cleaned, cleanups>>

SaveACK(s) == \/ CheckDuplicate(s) \/ LookupACK(s) \/ TouchACK(s) \/ CreateACK(s)
              \/ UpdateMessageStatus(s)

UpsertUserCursor(s) == LookupCursor(s) \/ MoveCursor(s) \/ CreateCursor(s)

Next ==
    \/ \E m \in Msgs : StoreMessage(m)
    \/ \E s \in Calls : \/ ProcessACK(s) \/ MarkAsRead(s)
                        \/ SaveACK(s) \/ UpsertUserCursor(s)
                        \/ Answer(s) \/ Crash(s)
    \/ \E u \in SyncUsers : SyncACKs(u)
    \/ Tick \/ CleanupOldACKs

Spec == Init /\ [][Next]_vars

-----------------------------------------------------------------------------
(* Every variable stays in its type, and a request works on rows that were *)
(* there when it looked.                                                   *)
TypeOK ==
    /\ now \in Nat /\ stored \subseteq Msgs
    /\ status \in [Msgs -> {"sent"} \cup Types]
    /\ acks \subseteq AckRow /\ nextId \in Nat
    /\ \A r \in acks : r.id < nextId /\ r.ts <= now
    /\ cursors \in Seq([user : Users, msg : Msgs])
    /\ pc \in [Calls -> CallStates]
    /\ req \in [Calls -> Request \cup {NoRequest}]
    /\ ts \in [Calls -> 0..now] /\ row \in [Calls -> Nat]
    /\ seen \in [Calls -> BOOLEAN]
    /\ \A s \in Calls : /\ pc[s] # "idle" => req[s] \in Request
                        /\ pc[s] = "moveCursor" => row[s] \in CursorRows(req[s].user)
    /\ begun \in [Users -> SUBSET (Msgs \X Types)]
    /\ known \in [Users -> SUBSET (Msgs \X Types)]
    /\ last \in [Users -> [ts : Nat, msg : Msgs \cup {NoMsg}]]
    /\ cleaned \subseteq Users \X Msgs \X Types
    /\ crashes \in 0..MaxCrashes /\ cleanups \in 0..MaxCleanups

(* Without a unique index the check-then-create of receipts and cursors    *)
(* can make duplicate rows, but no more than requests overlap: once there  *)
(* is a row, only requests that looked before may still add one, through   *)
(* failed reads, lost answers and cleanups alike.                          *)
DuplicatesBounded ==
    /\ \A u \in Users, m \in Msgs, t \in Types :
          Cardinality(Rows(u, m, t)) <= Cardinality(Calls)
    /\ \A u \in Users : Cardinality(CursorRows(u)) <= Cardinality(Calls)

(* TestACKDuplicate: a client that repeats a receipt the server has, as it *)
(* missed the answer, makes no second row - whatever reads fail.           *)
RetryAddsNothing == \A s \in Calls : seen[s] => pc[s] # "create"

(* A client is told that its receipt was taken only if it is in the table, *)
(* where it stays until it is cleaned up.                                  *)
AnsweredIsStored ==
    \A u \in Users : \A k \in known[u] :
        k \in Receipts(u) \/ <<u, k[1], k[2]>> \in cleaned

(* Comment of CreateOrUpdateACK: it is idempotent.  A message has at most  *)
(* one receipt of a type from a user, and the user one cursor.  The code   *)
(* keeps this for clients that send one request at a time, not otherwise.  *)
OneReceipt ==
    /\ \A u \in Users, m \in Msgs, t \in Types : Cardinality(Rows(u, m, t)) <= 1
    /\ \A u \in Users : Cardinality(CursorRows(u)) <= 1

(* What a user has read stays read: unless a message arrives, no message   *)
(* is counted as unread again.  The code keeps this for orderly clients,   *)
(* over failures, lost answers and repeated requests.                      *)
UnreadNeverGrows ==
    [][stored' = stored => \A u \in Users : Unread(u)' \subseteq Unread(u)]_vars

(* The receipts seen through their book: what was recorded, and how far    *)
(* each user's unread count reaches back.                                  *)
Recorded == {<<r.user, r.msg, r.type>> : r \in acks} \cup cleaned

Book == INSTANCE ReceiptBook WITH
    book <- Recorded, told <- known,
    position <- [u \in Users |-> LastReadTS(u)]

(* For orderly clients every step of a call, a failure, a lost answer, a   *)
(* synchronisation or a clean-up is one that the book allows, or none: in  *)
(* particular a message is shown as read only when the member's receipt or *)
(* position says so, and, to the sender of a private message, never as     *)
(* delivered after that.                                                   *)
ImplementsBook == Book!Spec

=============================================================================
