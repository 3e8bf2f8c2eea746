------------------------------- MODULE Groups -------------------------------
(***************************************************************************)
(* Who is in a conversation.  One group, its member rows, and the requests *)
(* that join, leave, send and read; the broadcast of a sent message to the *)
(* members; and the private conversation of one pair of users, which two   *)
(* first messages may create at the same time.                             *)
(*                                                                         *)
(* A request is a goroutine that makes one database access after another,  *)
(* without a transaction around a check and what follows it.  The rows of  *)
(* conversation_members have no unique index: a user has a number of them. *)
(* conversations has one, on conversation_id.                              *)
(***************************************************************************)
EXTENDS Naturals, FiniteSets

CONSTANTS
    Users,     \* users of the group
    Owner,     \* the one who creates it
    Reqs,      \* requests that are served at once
    Msgs,      \* messages of the group whose broadcast is followed
    NoReq      \* no request

ASSUME GroupsAssumption ==
    Owner \in Users /\ IsFiniteSet(Reqs) /\ NoReq \notin Reqs

VARIABLES
    group,     \* whether the group's conversation is stored
    rows,      \* member rows of each user
    req,       \* what each request does, for whom, and where it stands
    local,     \* users with a connection to this instance
    \* the private conversation of a pair
    private,   \* its row: "none" or "stored"
    pairRows,  \* how often the pair's member rows were stored
    tx,        \* the request whose transaction has inserted the row
    \* broadcasts
    bcast,     \* where the goroutine of a message stands
    sender,    \* of the message
    todo,      \* member rows it has read, by user
    online,    \* entries of onlineMembers, by user
    pushed,    \* pushes to a user: one of the connections took the message
    dropped,   \* users whose connections were all full when it came to them
    \* what the properties remember
    left,      \* users whose last leave was confirmed, with no join under way
    barred,    \* those of them since before the message was sent
    stayed,    \* members and connected since the message was sent
    twice      \* users who had two joins under way at once

tableVars == <<group, rows>>
pairVars  == <<private, pairRows, tx>>
castVars  == <<bcast, sender, todo, online, pushed, dropped>>
noteVars  == <<left, barred, stayed, twice>>
vars == <<tableVars, req, local, pairVars, castVars, noteVars>>

Idle == [op |-> "idle", user |-> Owner, at |-> "end", late |-> FALSE]
None == [u \in Users |-> 0]

Init ==
    /\ group = "none" /\ rows = None
    /\ req = [r \in Reqs |-> Idle]
    /\ local \in SUBSET Users
    /\ private = "none" /\ pairRows = 0 /\ tx = NoReq
    /\ bcast = [m \in Msgs |-> "none"] /\ sender = [m \in Msgs |-> Owner]
    /\ todo = [m \in Msgs |-> None] /\ online = [m \in Msgs |-> None]
    /\ pushed = [m \in Msgs |-> None] /\ dropped = [m \in Msgs |-> {}]
    /\ left = {} /\ barred = [m \in Msgs |-> {}]
    /\ stayed = [m \in Msgs |-> {}] /\ twice = {}

-----------------------------------------------------------------------------
(* The members a group begins with: the owner among them, and each once.   *)
MemberSet(members) ==
    [u \in Users |-> IF u \in members \cup {Owner} THEN 1 ELSE 0]

(* CreateGroup: conversation and members in one transaction.  An error of  *)
(* the Commit is not looked at: the client is told of a group that does    *)
(* not exist.                                                              *)
CreateGroup(members) ==
    /\ group = "none"
    /\ \/ group' = "stored"
          /\ rows' = MemberSet(members)
       \/ group' = "lost" /\ UNCHANGED rows
    /\ UNCHANGED <<req, local, pairVars, castVars, noteVars>>

(* A request for the group comes in, once its id is known.                 *)
Joining(u) == {r \in Reqs : req[r].op = "join" /\ req[r].user = u}

Begin(r, op, u, first) ==
    /\ req[r] = Idle
    /\ req' = [req EXCEPT ![r] =
                  [op |-> op, user |-> u, at |-> first, late |-> u \in left]]

(* A step of it, and its end, with an answer or without.                   *)
At(r, op, step)   == req[r].op = op /\ req[r].at = step
Goto(r, step)     == req' = [req EXCEPT ![r].at = step]
Finish(r)         == req' = [req EXCEPT ![r] = Idle]

(* GetGroupByGroupID is the first access of a join and of a leave.         *)
FindGroup(r, op) ==
    /\ At(r, op, "group")
    /\ IF group = "stored" THEN Goto(r, "check") ELSE Finish(r)
    /\ UNCHANGED <<tableVars, local, pairVars, castVars, noteVars>>

IsMember(u) == rows[u] > 0

-----------------------------------------------------------------------------
(* JoinGroup.                                                              *)

BeginJoin(r, u) ==
    /\ group # "none" /\ req[r] = Idle
    /\ req' = [x \in Reqs |->
                 IF x = r
                 THEN [op |-> "join", user |-> u, at |-> "group", late |-> FALSE]
                 ELSE [req[x] EXCEPT !.late = @ /\ req[x].user # u]]
    /\ left' = left \ {u}
    /\ barred' = [m \in Msgs |-> barred[m] \ {u}]
    /\ twice' = IF Joining(u) # {} THEN twice \cup {u} ELSE twice
    /\ UNCHANGED <<tableVars, local, pairVars, castVars, stayed>>

(* Mutant: an earlier membership is not looked for.                        *)
JoinCheckNone(r) ==
    /\ At(r, "join", "check") /\ Goto(r, "insert")
    /\ UNCHANGED <<tableVars, local, pairVars, castVars, noteVars>>

JoinCheck(r) ==
    /\ At(r, "join", "check")
    /\ IF IsMember(req[r].user) THEN Finish(r) ELSE Goto(r, "insert")
    /\ UNCHANGED <<tableVars, local, pairVars, castVars, noteVars>>

(* A row is inserted, whatever has happened since the check.               *)
AddGroupMember(r) ==
    /\ At(r, "join", "insert")
    /\ rows' = [rows EXCEPT ![req[r].user] = @ + 1]
    /\ Finish(r)
    /\ UNCHANGED <<group, local, pairVars, castVars, noteVars>>

-----------------------------------------------------------------------------
(* LeaveGroup.                                                             *)

BeginLeave(r, u) ==
    /\ group # "none" /\ Begin(r, "leave", u, "group")
    /\ UNCHANGED <<tableVars, local, pairVars, castVars, noteVars>>

(* Mutant: the owner may leave, too.                                       *)
LeaveCheckAnyone(r) ==
    /\ At(r, "leave", "check")
    /\ IF IsMember(req[r].user) THEN Goto(r, "delete") ELSE Finish(r)
    /\ UNCHANGED <<tableVars, local, pairVars, castVars, noteVars>>

(* The owner must not leave, and who leaves must be a member.              *)
LeaveCheck(r) ==
    /\ At(r, "leave", "check")
    /\ IF req[r].user # Owner /\ IsMember(req[r].user)
       THEN Goto(r, "delete") ELSE Finish(r)
    /\ UNCHANGED <<tableVars, local, pairVars, castVars, noteVars>>

Leave(r, n) ==
    LET u == req[r].user
    IN  /\ At(r, "leave", "delete")
        /\ rows' = [rows EXCEPT ![u] = n]
        /\ left' = IF Joining(u) = {} THEN left \cup {u} ELSE left
        /\ stayed' = [m \in Msgs |-> stayed[m] \ {u}]
        /\ Finish(r)
        /\ UNCHANGED <<group, local, pairVars, castVars, barred, twice>>

(* Mutant: one row is deleted.                                             *)
RemoveGroupMemberOnce(r) ==
    LET u == req[r].user
    IN  Leave(r, IF rows[u] > 0 THEN rows[u] - 1 ELSE 0)

(* DELETE of all rows of the user, and the answer.                         *)
RemoveGroupMember(r) == Leave(r, 0)

-----------------------------------------------------------------------------
(* SendGroupMessage, and the requests that read the group.                 *)

BeginSend(r, u) ==
    /\ group # "none" /\ Begin(r, "send", u, "member")
    /\ UNCHANGED <<tableVars, local, pairVars, castVars, noteVars>>

BeginRead(r, u) ==
    /\ group # "none" /\ Begin(r, "read", u, "member")
    /\ UNCHANGED <<tableVars, local, pairVars, castVars, noteVars>>

(* The handler asks whether the user is a member.                          *)
IsGroupMember(r) ==
    /\ req[r].at = "member"
    /\ IF IsMember(req[r].user) THEN Goto(r, "accepted") ELSE Finish(r)
    /\ UNCHANGED <<tableVars, local, pairVars, castVars, noteVars>>

(* GetGroupMembers, GetGroupMembersWithStatus and GetGroupInfo.            *)
ReadGroup(r) ==
    /\ At(r, "read", "accepted") /\ Finish(r)
    /\ UNCHANGED <<tableVars, local, pairVars, castVars, noteVars>>

(* The message is produced or stored (MessagePipeline), and the broadcast  *)
(* begins; its members are not those the handler saw.                      *)
SendGroupMessage(r, m) ==
    /\ At(r, "send", "accepted") /\ bcast[m] = "none"
    /\ bcast' = [bcast EXCEPT ![m] = "list"]
    /\ sender' = [sender EXCEPT ![m] = req[r].user]
    /\ barred' = [barred EXCEPT ![m] = left]
    /\ stayed' = [stayed EXCEPT ![m] =
                     {u \in local : IsMember(u) /\ u # req[r].user}]
    /\ Finish(r)
    /\ UNCHANGED <<tableVars, local, pairVars, todo, online, pushed, dropped, left, twice>>

(* A database access fails, or the client's connection or the process does *)
(* before the next one; a transaction is rolled back.                      *)
RequestFails(r) ==
    /\ req[r] # Idle /\ Finish(r)
    /\ tx' = IF tx = r THEN NoReq ELSE tx
    /\ UNCHANGED <<tableVars, local, private, pairRows, castVars, noteVars>>

-----------------------------------------------------------------------------
(* broadcastGroupMessage.                                                  *)

(* Every row counts, but those of the sender.                              *)
ListMembers(m) ==
    /\ bcast[m] = "list"
    /\ bcast' = [bcast EXCEPT ![m] = "check"]
    /\ todo' = [todo EXCEPT ![m] = [rows EXCEPT ![sender[m]] = 0]]
    /\ UNCHANGED <<tableVars, req, local, pairVars, sender, online, pushed, dropped,
                   noteVars>>

(* Mutant: only Redis is asked.                                            *)
CheckOnlineByRedis(m, u) ==
    /\ bcast[m] = "check" /\ todo[m][u] > 0
    /\ todo' = [todo EXCEPT ![m][u] = @ - 1]
    /\ \/ online' = [online EXCEPT ![m][u] = @ + 1]
       \/ UNCHANGED online
    /\ UNCHANGED <<tableVars, req, local, pairVars, bcast, sender, pushed, dropped,
                   noteVars>>

(* A user with a connection is online; of another one Redis says so or     *)
(* not.                                                                    *)
CheckOnline(m, u) ==
    /\ bcast[m] = "check" /\ todo[m][u] > 0
    /\ todo' = [todo EXCEPT ![m][u] = @ - 1]
    /\ \/ online' = [online EXCEPT ![m][u] = @ + 1]
       \/ u \notin local /\ UNCHANGED online
    /\ UNCHANGED <<tableVars, req, local, pairVars, bcast, sender, pushed, dropped,
                   noteVars>>

AllChecked(m) ==
    /\ bcast[m] = "check" /\ todo[m] = None
    /\ bcast' = [bcast EXCEPT ![m] = "push"]
    /\ UNCHANGED <<tableVars, req, local, pairVars, sender, todo, online, pushed, dropped,
                   noteVars>>

(* The connections of a user are looked up again.  A connection whose      *)
(* channel is full does not take the message, and all of them may be full. *)
PushToMember(m, u) ==
    /\ bcast[m] = "push" /\ online[m][u] > 0
    /\ online' = [online EXCEPT ![m][u] = @ - 1]
    /\ \/ /\ u \in local
          /\ pushed' = [pushed EXCEPT ![m][u] = @ + 1]
          /\ UNCHANGED dropped
       \/ /\ u \in local
          /\ dropped' = [dropped EXCEPT ![m] = @ \cup {u}]
          /\ UNCHANGED pushed
       \/ u \notin local /\ UNCHANGED <<pushed, dropped>>
    /\ UNCHANGED <<tableVars, req, local, pairVars, bcast, sender, todo, noteVars>>

AllPushed(m) ==
    /\ bcast[m] = "push" /\ online[m] = None
    /\ bcast' = [bcast EXCEPT ![m] = "done"]
    /\ UNCHANGED <<tableVars, req, local, pairVars, sender, todo, online, pushed, dropped,
                   noteVars>>

(* The list cannot be read, or the process ends.                           *)
BroadcastFails(m) ==
    /\ bcast[m] \in {"list", "check", "push"}
    /\ bcast' = [bcast EXCEPT ![m] = "failed"]
    /\ todo' = [todo EXCEPT ![m] = None] /\ online' = [online EXCEPT ![m] = None]
    /\ UNCHANGED <<tableVars, req, local, pairVars, sender, pushed, dropped, noteVars>>

(* Register and Unregister of the hub.                                     *)
Connect(u) ==
    /\ local' = local \cup {u}
    /\ UNCHANGED <<tableVars, req, pairVars, castVars, noteVars>>

Disconnect(u) ==
    /\ local' = local \ {u}
    /\ stayed' = [m \in Msgs |-> stayed[m] \ {u}]
    /\ UNCHANGED <<tableVars, req, pairVars, castVars, left, barred, twice>>

-----------------------------------------------------------------------------
(* GetOrCreatePrivateConversation.                                         *)

BeginPrivate(r) ==
    /\ Begin(r, "private", Owner, "find")
    /\ UNCHANGED <<tableVars, local, pairVars, castVars, noteVars>>

FindConversation(r) ==
    /\ At(r, "private", "find")
    /\ IF private = "stored" THEN Finish(r) ELSE Goto(r, "insert")
    /\ UNCHANGED <<tableVars, local, pairVars, castVars, noteVars>>

(* Mutant: the conversation has no unique index.                           *)
InsertConversationAnyway(r) ==
    /\ At(r, "private", "insert") /\ tx = NoReq
    /\ tx' = r /\ Goto(r, "members")
    /\ UNCHANGED <<tableVars, local, private, pairRows, castVars, noteVars>>

(* The unique index: the insert waits for another transaction that has     *)
(* inserted the row, and fails when the row is there.                      *)
InsertConversation(r) ==
    /\ At(r, "private", "insert") /\ tx = NoReq
    /\ IF private = "stored"
       THEN Finish(r) /\ UNCHANGED tx
       ELSE Goto(r, "members") /\ tx' = r
    /\ UNCHANGED <<tableVars, local, private, pairRows, castVars, noteVars>>

(* The two member rows, and the commit, whose error is not looked at.      *)
InsertMembersAndCommit(r) ==
    /\ At(r, "private", "members") /\ Finish(r)
    /\ tx' = NoReq
    /\ \/ private' = "stored" /\ pairRows' = pairRows + 1
       \/ UNCHANGED <<private, pairRows>>
    /\ UNCHANGED <<tableVars, local, castVars, noteVars>>

-----------------------------------------------------------------------------
Next ==
    \/ \E members \in SUBSET Users : CreateGroup(members)
    \/ \E r \in Reqs :
          \/ \E u \in Users : \/ BeginJoin(r, u) \/ BeginLeave(r, u)
                              \/ BeginSend(r, u) \/ BeginRead(r, u)
          \/ \E op \in {"join", "leave"} : FindGroup(r, op)
          \/ JoinCheck(r) \/ AddGroupMember(r)
          \/ LeaveCheck(r) \/ RemoveGroupMember(r)
          \/ IsGroupMember(r) \/ ReadGroup(r)
          \/ \E m \in Msgs : SendGroupMessage(r, m)
          \/ RequestFails(r)
          \/ BeginPrivate(r) \/ FindConversation(r)
          \/ InsertConversation(r) \/ InsertMembersAndCommit(r)
    \/ \E m \in Msgs :
          \/ ListMembers(m) \/ AllChecked(m) \/ AllPushed(m) \/ BroadcastFails(m)
          \/ \E u \in Users : CheckOnline(m, u) \/ PushToMember(m, u)
    \/ \E u \in Users : Connect(u) \/ Disconnect(u)

Spec == Init /\ [][Next]_vars

-----------------------------------------------------------------------------
Steps == {"end", "group", "check", "insert", "delete", "member", "accepted",
          "find", "members"}

(* Every variable stays in its type; a user has no more rows than there    *)
(* are requests to insert them.                                            *)
TypeOK ==
    /\ group \in {"none", "stored", "lost"}
    /\ rows \in [Users -> 0..(Cardinality(Reqs) + 1)]
    /\ req \in [Reqs -> [op : {"idle", "join", "leave", "send", "read", "private"},
                         user : Users, at : Steps, late : BOOLEAN]]
    /\ local \subseteq Users
    /\ private \in {"none", "stored"} /\ pairRows \in Nat /\ tx \in Reqs \cup {NoReq}
    /\ bcast \in [Msgs -> {"none", "list", "check", "push", "done", "failed"}]
    /\ sender \in [Msgs -> Users]
    /\ {todo, online, pushed} \subseteq [Msgs -> [Users -> Nat]]
    /\ left \subseteq Users /\ twice \subseteq Users
    /\ {dropped, barred, stayed} \subseteq [Msgs -> SUBSET Users]

(* The owner is a member of a group for good, once: overlapping requests   *)
(* of the owner to leave or to join again change nothing.                  *)
OwnerStays == group = "stored" => rows[Owner] = 1

(* A user whose joins do not overlap has one member row at most, whatever  *)
(* leaves and failures come between, and is pushed a message of the group  *)
(* at most once to a connection by its broadcast.                          *)
OncePerMember ==
    \A u \in Users \ twice :
        rows[u] <= 1 /\ \A m \in Msgs : pushed[m][u] <= 1

(* A user who has left, and has begun no join since, is out: there is no   *)
(* row left, also when overlapping joins had made several; no request made *)
(* after that is let in; no message sent after that is pushed.             *)
LeavingIsFinal ==
    /\ \A u \in left : rows[u] = 0
    /\ \A r \in Reqs : req[r].late => req[r].at # "accepted"
    /\ \A m \in Msgs : \A u \in barred[m] : pushed[m][u] = 0

(* A broadcast that comes to its end has pushed the message to everyone    *)
(* who was a member and connected all along, whoever joins, leaves,        *)
(* connects and disconnects meanwhile - but those whose connections had no *)
(* room for it at the moment the broadcast came to them.                   *)
BroadcastReaches ==
    \A m \in Msgs : bcast[m] = "done" =>
        \A u \in stayed[m] : pushed[m][u] > 0 \/ u \in dropped[m]

(* A private conversation is stored once and with its two members or not   *)
(* at all, although two requests that do not find it insert it.            *)
PrivateOnce == pairRows = IF private = "stored" THEN 1 ELSE 0

(* The group seen through its roster.                                      *)
Phase == [none |-> "none", list |-> "sent", check |-> "open", push |-> "open",
          done |-> "done", failed |-> "failed"]

Members  == {u \in Users : IsMember(u)}
Phases   == [m \in Msgs |-> Phase[bcast[m]]]
Audience == [m \in Msgs |-> {u \in Users : todo[m][u] > 0 \/ online[m][u] > 0}]
Shown    == [m \in Msgs |-> {u \in Users : pushed[m][u] > 0}]

Roster == INSTANCE Roster WITH
    founded <- group = "stored", members <- Members, connected <- local,
    phase <- Phases, author <- sender, audience <- Audience, shown <- Shown,
    full <- dropped, pair <- pairRows

(* Overlapping joins and leaves with their checks and duplicate rows, and  *)
(* broadcasts that look at one row after the other, are to the members as  *)
(* a roster that changes at once: a broadcast is for the members of one    *)
(* moment, is pushed to none but them, and by its end passes over only     *)
(* those who had no connection, or none with room, when it came to them.   *)
ImplementsRoster == Roster!Spec

=============================================================================
