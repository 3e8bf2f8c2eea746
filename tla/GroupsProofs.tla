---------------------------- MODULE GroupsProofs ----------------------------
(***************************************************************************)
(* Proofs about Groups for every set of users, finite set of requests and  *)
(* set of messages: type correctness, the five safety properties, and the  *)
(* refinement of Roster.                                                   *)
(***************************************************************************)
EXTENDS Groups, TLAPS, FiniteSetTheorems

(* Joins that are past their check.                                        *)
Inserting(u) == {r \in Reqs : At(r, "join", "insert") /\ req[r].user = u}

(* A row is there or about to be, and each request adds one.               *)
BoundInv ==
    \A u \in Users : rows[u] + Cardinality(Inserting(u)) <= Cardinality(Reqs) + 1

(* Nothing happens to a group before it is there.                          *)
FoundInv ==
    /\ group = "none" =>
          /\ \A r \in Reqs : req[r].op \in {"idle", "private"}
          /\ left = {} /\ \A m \in Msgs : bcast[m] = "none"
    /\ \A r \in Reqs : req[r].op \in {"join", "leave"}
                       /\ req[r].at \in {"check", "insert", "delete"}
                       => group = "stored"

(* No request that is past its check would change the owner's row.         *)
OwnerInv ==
    /\ OwnerStays
    /\ \A r \in Reqs : req[r].user = Owner =>
          ~At(r, "join", "insert") /\ ~At(r, "leave", "delete")

(* A user whose joins do not overlap has one at most, and no row when it   *)
(* is past its check.                                                      *)
JoinInv ==
    \A u \in Users \ twice :
        /\ rows[u] <= 1
        /\ \A r, s \in Joining(u) : r = s
        /\ \A r \in Inserting(u) : rows[u] = 0

(* A row that is read is on one of the broadcast's lists, or pushed.       *)
CastInv ==
    \A m \in Msgs :
        /\ bcast[m] \in {"none", "list"} =>
              \A u \in Users : todo[m][u] = 0 /\ online[m][u] = 0 /\ pushed[m][u] = 0
        /\ \A u \in Users \ twice : todo[m][u] + online[m][u] + pushed[m][u] <= 1

(* Who has left is on no list of a message sent later.                     *)
LeftInv ==
    /\ \A u \in left : rows[u] = 0 /\ Joining(u) = {}
    /\ \A r \in Reqs : req[r].late => req[r].user \in left /\ req[r].at # "accepted"
    /\ \A m \in Msgs : \A u \in barred[m] :
          u \in left /\ todo[m][u] = 0 /\ online[m][u] = 0 /\ pushed[m][u] = 0

(* Who has stayed is on one of the lists, until pushed or without room.    *)
ReachInv ==
    \A m \in Msgs : \A u \in stayed[m] :
        /\ u \in local
        /\ bcast[m] = "list"  => rows[u] > 0 /\ u # sender[m]
        /\ bcast[m] = "check" => todo[m][u] + online[m][u] > 0
        /\ bcast[m] = "push"  => /\ todo[m][u] = 0
                                 /\ online[m][u] + pushed[m][u] > 0 \/ u \in dropped[m]
        /\ bcast[m] = "done"  => pushed[m][u] > 0 \/ u \in dropped[m]

(* An open transaction is that of the one request at its members, and its  *)
(* conversation is not there yet.                                          *)
PairInv ==
    /\ PrivateOnce
    /\ \A r \in Reqs : At(r, "private", "members") <=> tx = r
    /\ tx # NoReq => private = "none"

IInv == TypeOK /\ BoundInv /\ FoundInv /\ OwnerInv /\ JoinInv
               /\ CastInv /\ LeftInv /\ ReachInv /\ PairInv

-----------------------------------------------------------------------------
(* The requests are finitely many, and so are those past a check.          *)
LEMMA Finite ==
  /\ Cardinality(Reqs) \in Nat
  /\ \A u : IsFiniteSet(Inserting(u)) /\ Cardinality(Inserting(u)) \in Nat
<1>1. ASSUME NEW u PROVE IsFiniteSet(Inserting(u)) /\ Cardinality(Inserting(u)) \in Nat
  BY GroupsAssumption, FS_Subset, FS_CardinalityType DEF Inserting
<1>2. QED
  BY <1>1, GroupsAssumption, FS_CardinalityType

(* The group before its creation, without requests.                        *)
LEMMA InvInit == Init => IInv
<1> SUFFICES ASSUME Init PROVE IInv
  OBVIOUS
<1> USE GroupsAssumption, Finite DEF Init, None, Idle
<1>1. TypeOK
  <2>1. rows \in [Users -> 0..(Cardinality(Reqs) + 1)]
    BY DEF TypeOK
  <2>2. req \in [Reqs -> [op : {"idle", "join", "leave", "send", "read", "private"},
                          user : Users, at : Steps, late : BOOLEAN]]
    BY DEF Steps
  <2>3. QED
    BY <2>1, <2>2 DEF TypeOK
<1>2. BoundInv
  <2>1. ASSUME NEW u \in Users PROVE rows[u] + Cardinality(Inserting(u)) <= Cardinality(Reqs) + 1
    <3>1. Inserting(u) = {}
      BY DEF Inserting, At
    <3>2. Cardinality(Inserting(u)) = 0 /\ rows[u] = 0
      BY <3>1, FS_EmptySet
    <3>3. QED
      BY <3>2
  <2>2. QED
    BY <2>1 DEF BoundInv
<1>3. FoundInv /\ OwnerInv
  BY DEF FoundInv, OwnerInv, OwnerStays, At
<1>4. JoinInv
  BY DEF JoinInv, Joining, Inserting, At
<1>5. CastInv /\ LeftInv /\ ReachInv
  BY DEF CastInv, LeftInv, ReachInv
<1>6. PairInv
  BY DEF PairInv, PrivateOnce, At
<1>7. QED
  BY <1>1, <1>2, <1>3, <1>4, <1>5, <1>6 DEF IInv

-----------------------------------------------------------------------------
(* The type of a request.                                                  *)
RequestType == [op : {"idle", "join", "leave", "send", "read", "private"},
                user : Users, at : Steps, late : BOOLEAN]

(* A request that begins, goes on or ends is well typed.                   *)
LEMMA RequestSteps ==
  ASSUME TypeOK, NEW r \in Reqs
  PROVE  /\ Finish(r) => req' \in [Reqs -> RequestType]
         /\ \A step \in Steps : Goto(r, step) => req' \in [Reqs -> RequestType]
         /\ \A op \in {"leave", "send", "read", "private"}, u \in Users, first \in Steps :
               Begin(r, op, u, first) => req' \in [Reqs -> RequestType]
<1> USE DEF TypeOK, RequestType
<1>1. Idle \in RequestType
  BY GroupsAssumption DEF Idle, Steps
<1>2. Finish(r) => req' \in [Reqs -> RequestType]
  BY <1>1 DEF Finish
<1>3. ASSUME NEW step \in Steps, Goto(r, step) PROVE req' \in [Reqs -> RequestType]
  <2>1. req \in [Reqs -> RequestType]
    OBVIOUS
  <2>2. [req[r] EXCEPT !.at = step] \in RequestType
    BY <2>1
  <2>3. QED
    BY <1>3, <2>1, <2>2 DEF Goto
<1>4. ASSUME NEW op \in {"leave", "send", "read", "private"}, NEW u \in Users,
             NEW first \in Steps, Begin(r, op, u, first)
      PROVE  req' \in [Reqs -> RequestType]
  <2>1. [op |-> op, user |-> u, at |-> first, late |-> u \in left] \in RequestType
    OBVIOUS
  <2>2. QED
    BY <1>4, <2>1 DEF Begin
<1>5. QED
  BY <1>2, <1>3, <1>4

(* A step keeps the types.  The rows need their bound.                     *)
LEMMA TypeNext == TypeOK /\ BoundInv /\ [Next]_vars => TypeOK'
<1> SUFFICES ASSUME TypeOK, BoundInv, [Next]_vars PROVE TypeOK'
  OBVIOUS
<1> USE GroupsAssumption DEF tableVars, pairVars, castVars, noteVars
<1>1. ASSUME NEW members \in SUBSET Users, CreateGroup(members) PROVE TypeOK'
  <2>1. MemberSet(members) \in [Users -> 0..(Cardinality(Reqs) + 1)]
    BY Finite DEF MemberSet
  <2>2. QED
    BY <1>1, <2>1 DEF CreateGroup, TypeOK
<1>2. ASSUME NEW r \in Reqs, NEW u \in Users, BeginJoin(r, u) PROVE TypeOK'
  <2>0. /\ [op |-> "join", user |-> u, at |-> "group", late |-> FALSE] \in RequestType
        /\ \A x \in Reqs : [req[x] EXCEPT !.late = @ /\ req[x].user # u] \in RequestType
    <3>1. [op |-> "join", user |-> u, at |-> "group", late |-> FALSE] \in RequestType
      BY DEF RequestType, Steps
    <3>2. ASSUME NEW x \in Reqs
          PROVE  [req[x] EXCEPT !.late = @ /\ req[x].user # u] \in RequestType
      <4>1. req[x] \in RequestType
        BY DEF TypeOK, RequestType
      <4>2. (req[x].late /\ req[x].user # u) \in BOOLEAN
        OBVIOUS
      <4>3. QED
        BY <4>1, <4>2, Zenon DEF RequestType
    <3>3. QED
      BY <3>1, <3>2
  <2>1. req' \in [Reqs -> RequestType]
    BY <1>2, <2>0 DEF BeginJoin
  <2>2. barred' \in [Msgs -> SUBSET Users] /\ left' \subseteq Users /\ twice' \subseteq Users
    BY <1>2 DEF BeginJoin, TypeOK
  <2>3. QED
    BY <1>2, <2>1, <2>2 DEF BeginJoin, TypeOK, RequestType
<1>3. ASSUME NEW r \in Reqs, NEW u \in Users, BeginLeave(r, u) PROVE TypeOK'
  <2>1. req' \in [Reqs -> RequestType]
    BY <1>3, RequestSteps DEF BeginLeave, Steps
  <2>2. QED
    BY <1>3, <2>1 DEF BeginLeave, TypeOK, RequestType
<1>4. ASSUME NEW r \in Reqs, NEW u \in Users, BeginSend(r, u) PROVE TypeOK'
  <2>1. req' \in [Reqs -> RequestType]
    BY <1>4, RequestSteps DEF BeginSend, Steps
  <2>2. QED
    BY <1>4, <2>1 DEF BeginSend, TypeOK, RequestType
<1>5. ASSUME NEW r \in Reqs, NEW u \in Users, BeginRead(r, u) PROVE TypeOK'
  <2>1. req' \in [Reqs -> RequestType]
    BY <1>5, RequestSteps DEF BeginRead, Steps
  <2>2. QED
    BY <1>5, <2>1 DEF BeginRead, TypeOK, RequestType
<1>6. ASSUME NEW r \in Reqs, NEW op \in {"join", "leave"}, FindGroup(r, op) PROVE TypeOK'
  <2>1. req' \in [Reqs -> RequestType]
    BY <1>6, RequestSteps DEF FindGroup, Steps
  <2>2. QED
    BY <1>6, <2>1 DEF FindGroup, TypeOK, RequestType
<1>7. ASSUME NEW r \in Reqs, JoinCheck(r) PROVE TypeOK'
  <2>1. req' \in [Reqs -> RequestType]
    BY <1>7, RequestSteps DEF JoinCheck, Steps
  <2>2. QED
    BY <1>7, <2>1 DEF JoinCheck, TypeOK, RequestType
<1>8. ASSUME NEW r \in Reqs, AddGroupMember(r) PROVE TypeOK'
  <2>1. req' \in [Reqs -> RequestType]
    BY <1>8, RequestSteps DEF AddGroupMember
  <2>2. rows[req[r].user] < Cardinality(Reqs) + 1
    <3>1. r \in Inserting(req[r].user) /\ req[r].user \in Users
      BY <1>8 DEF AddGroupMember, Inserting, TypeOK
    <3>2. Cardinality(Inserting(req[r].user)) > 0
      BY <3>1, Finite, FS_EmptySet
    <3>3. QED
      BY <3>1, <3>2, Finite DEF BoundInv, TypeOK
  <2>3. rows' \in [Users -> 0..(Cardinality(Reqs) + 1)]
    BY <1>8, <2>2, Finite DEF AddGroupMember, TypeOK
  <2>4. QED
    BY <1>8, <2>1, <2>3 DEF AddGroupMember, TypeOK, RequestType
<1>9. ASSUME NEW r \in Reqs, LeaveCheck(r) PROVE TypeOK'
  <2>1. req' \in [Reqs -> RequestType]
    BY <1>9, RequestSteps DEF LeaveCheck, Steps
  <2>2. QED
    BY <1>9, <2>1 DEF LeaveCheck, TypeOK, RequestType
<1>10. ASSUME NEW r \in Reqs, RemoveGroupMember(r) PROVE TypeOK'
  <2>1. req' \in [Reqs -> RequestType]
    BY <1>10, RequestSteps DEF RemoveGroupMember, Leave
  <2>2. rows' \in [Users -> 0..(Cardinality(Reqs) + 1)]
    BY <1>10, Finite DEF RemoveGroupMember, Leave, TypeOK
  <2>3. stayed' \in [Msgs -> SUBSET Users] /\ left' \subseteq Users
    BY <1>10 DEF RemoveGroupMember, Leave, TypeOK
  <2>4. QED
    BY <1>10, <2>1, <2>2, <2>3 DEF RemoveGroupMember, Leave, TypeOK, RequestType
<1>11. ASSUME NEW r \in Reqs, IsGroupMember(r) PROVE TypeOK'
  <2>1. req' \in [Reqs -> RequestType]
    BY <1>11, RequestSteps DEF IsGroupMember, Steps
  <2>2. QED
    BY <1>11, <2>1 DEF IsGroupMember, TypeOK, RequestType
<1>12. ASSUME NEW r \in Reqs, ReadGroup(r) PROVE TypeOK'
  <2>1. req' \in [Reqs -> RequestType]
    BY <1>12, RequestSteps DEF ReadGroup, Steps
  <2>2. QED
    BY <1>12, <2>1 DEF ReadGroup, TypeOK, RequestType
<1>13. ASSUME NEW r \in Reqs, NEW m \in Msgs, SendGroupMessage(r, m) PROVE TypeOK'
  <2>1. req' \in [Reqs -> RequestType]
    BY <1>13, RequestSteps DEF SendGroupMessage, Steps
  <2>2. QED
    BY <1>13, <2>1 DEF SendGroupMessage, TypeOK, RequestType
<1>14. ASSUME NEW r \in Reqs, RequestFails(r) PROVE TypeOK'
  <2>1. req' \in [Reqs -> RequestType]
    BY <1>14, RequestSteps DEF RequestFails, Steps
  <2>2. QED
    BY <1>14, <2>1 DEF RequestFails, TypeOK, RequestType
<1>15. ASSUME NEW r \in Reqs, BeginPrivate(r) PROVE TypeOK'
  <2>1. req' \in [Reqs -> RequestType]
    BY <1>15, RequestSteps DEF BeginPrivate, Steps
  <2>2. QED
    BY <1>15, <2>1 DEF BeginPrivate, TypeOK, RequestType
<1>16. ASSUME NEW r \in Reqs, FindConversation(r) PROVE TypeOK'
  <2>1. req' \in [Reqs -> RequestType]
    BY <1>16, RequestSteps DEF FindConversation, Steps
  <2>2. QED
    BY <1>16, <2>1 DEF FindConversation, TypeOK, RequestType
<1>17. ASSUME NEW r \in Reqs, InsertConversation(r) PROVE TypeOK'
  <2>1. req' \in [Reqs -> RequestType]
    BY <1>17, RequestSteps DEF InsertConversation, Steps
  <2>2. QED
    BY <1>17, <2>1 DEF InsertConversation, TypeOK, RequestType
<1>18. ASSUME NEW r \in Reqs, InsertMembersAndCommit(r) PROVE TypeOK'
  <2>1. req' \in [Reqs -> RequestType]
    BY <1>18, RequestSteps DEF InsertMembersAndCommit, Steps
  <2>2. QED
    BY <1>18, <2>1 DEF InsertMembersAndCommit, TypeOK, RequestType
<1>19. ASSUME NEW m \in Msgs, ListMembers(m) PROVE TypeOK'
  <2>1. [rows EXCEPT ![sender[m]] = 0] \in [Users -> Nat]
    BY Finite DEF TypeOK
  <2>2. todo' \in [Msgs -> [Users -> Nat]]
    BY <1>19, <2>1 DEF ListMembers, TypeOK
  <2>3. QED
    BY <1>19, <2>2 DEF ListMembers, TypeOK
<1>20. ASSUME NEW m \in Msgs, AllChecked(m) PROVE TypeOK'
  BY <1>20 DEF AllChecked, TypeOK
<1>21. ASSUME NEW m \in Msgs, AllPushed(m) PROVE TypeOK'
  BY <1>21 DEF AllPushed, TypeOK
<1>22. ASSUME NEW m \in Msgs, BroadcastFails(m) PROVE TypeOK'
  <2>1. todo' \in [Msgs -> [Users -> Nat]] /\ online' \in [Msgs -> [Users -> Nat]]
    BY <1>22 DEF BroadcastFails, TypeOK, None
  <2>2. QED
    BY <1>22, <2>1 DEF BroadcastFails, TypeOK
<1>23. ASSUME NEW m \in Msgs, NEW u \in Users, CheckOnline(m, u) PROVE TypeOK'
  <2>1. todo' \in [Msgs -> [Users -> Nat]]
    BY <1>23 DEF CheckOnline, TypeOK
  <2>2. online' \in [Msgs -> [Users -> Nat]]
    <3>1. [online[m] EXCEPT ![u] = @ + 1] \in [Users -> Nat]
      BY DEF TypeOK
    <3>2. online \in [Msgs -> [Users -> Nat]]
      BY DEF TypeOK
    <3>3. online' = online \/ online' = [online EXCEPT ![m] = [online[m] EXCEPT ![u] = @ + 1]]
      BY <1>23 DEF CheckOnline
    <3>4. QED
      BY <3>1, <3>2, <3>3
  <2>3. QED
    BY <1>23, <2>1, <2>2 DEF CheckOnline, TypeOK
<1>24. ASSUME NEW m \in Msgs, NEW u \in Users, PushToMember(m, u) PROVE TypeOK'
  <2>1. online' \in [Msgs -> [Users -> Nat]]
    BY <1>24 DEF PushToMember, TypeOK
  <2>2. pushed' \in [Msgs -> [Users -> Nat]]
    <3>1. CASE pushed' = pushed
      BY <3>1 DEF TypeOK
    <3>2. CASE pushed' = [pushed EXCEPT ![m][u] = @ + 1]
      BY <3>2 DEF TypeOK
    <3>3. QED
      BY <1>24, <3>1, <3>2 DEF PushToMember
  <2>3. dropped' \in [Msgs -> SUBSET Users]
    <3>1. CASE dropped' = dropped
      BY <3>1 DEF TypeOK
    <3>2. CASE dropped' = [dropped EXCEPT ![m] = @ \cup {u}]
      BY <3>2 DEF TypeOK
    <3>3. QED
      BY <1>24, <3>1, <3>2 DEF PushToMember
  <2>4. QED
    BY <1>24, <2>1, <2>2, <2>3 DEF PushToMember, TypeOK
<1>25. ASSUME NEW u \in Users, Connect(u) PROVE TypeOK'
  BY <1>25 DEF Connect, TypeOK
<1>26. ASSUME NEW u \in Users, Disconnect(u) PROVE TypeOK'
  BY <1>26 DEF Disconnect, TypeOK
<1>27. ASSUME UNCHANGED vars PROVE TypeOK'
  BY <1>27 DEF vars, TypeOK
<1>28. QED
  BY <1>1, <1>2, <1>3, <1>4, <1>5, <1>6, <1>7, <1>8, <1>9, <1>10, <1>11,
     <1>12, <1>13, <1>14, <1>15, <1>16, <1>17, <1>18, <1>19, <1>20, <1>21, <1>22,
     <1>23, <1>24, <1>25, <1>26, <1>27 DEF Next

-----------------------------------------------------------------------------
(* What a request's next step, and its end, leave of the requests.         *)
LEMMA RequestMoves ==
  ASSUME TypeOK, NEW r \in Reqs
  PROVE  /\ \A step : Goto(r, step) =>
               /\ \A x \in Reqs \ {r} : req'[x] = req[x]
               /\ req'[r].at = step /\ req'[r].op = req[r].op
               /\ req'[r].user = req[r].user /\ req'[r].late = req[r].late
         /\ Finish(r) =>
               /\ \A x \in Reqs \ {r} : req'[x] = req[x]
               /\ req'[r] = Idle
<1>1. req \in [Reqs -> RequestType]
  BY DEF TypeOK, RequestType
<1>2. ASSUME NEW step, Goto(r, step)
      PROVE  /\ \A x \in Reqs \ {r} : req'[x] = req[x]
             /\ req'[r].at = step /\ req'[r].op = req[r].op
             /\ req'[r].user = req[r].user /\ req'[r].late = req[r].late
  <2>1. req' = [req EXCEPT ![r] = [req[r] EXCEPT !.at = step]]
    BY <1>2 DEF Goto
  <2>2. req'[r] = [req[r] EXCEPT !.at = step]
    BY <1>1, <2>1
  <2>3. req[r] \in RequestType
    BY <1>1
  <2>4. \A x \in Reqs \ {r} : req'[x] = req[x]
    BY <1>1, <2>1
  <2>5. QED
    BY <2>2, <2>3, <2>4 DEF RequestType
<1>3. ASSUME Finish(r) PROVE (\A x \in Reqs \ {r} : req'[x] = req[x]) /\ req'[r] = Idle
  BY <1>1, <1>3 DEF Finish
<1>4. QED
  BY <1>2, <1>3

(* Fewer rows and fewer joins past their check stay within the bound.      *)
LEMMA BoundFewer ==
  ASSUME TypeOK, BoundInv, TypeOK',
         \A u \in Users : rows'[u] <= rows[u] /\ Inserting(u)' \subseteq Inserting(u)
  PROVE  BoundInv'
<1>1. ASSUME NEW u \in Users
      PROVE  rows'[u] + Cardinality(Inserting(u)') <= Cardinality(Reqs) + 1
  <2>1. Cardinality(Inserting(u)') <= Cardinality(Inserting(u))
    BY Finite, FS_Subset
  <2>2. Cardinality(Inserting(u)') \in Nat
    BY Finite, FS_Subset, FS_CardinalityType
  <2>3. /\ rows[u] \in Nat /\ rows'[u] \in Nat /\ rows'[u] <= rows[u]
        /\ rows[u] + Cardinality(Inserting(u)) <= Cardinality(Reqs) + 1
    BY DEF TypeOK, BoundInv
  <2>4. QED
    BY <2>1, <2>2, <2>3, Finite
<1>2. QED
  BY <1>1 DEF BoundInv

(* Only a join changes the count, when it is checked and when it inserts.  *)
LEMMA BoundNext == TypeOK /\ BoundInv /\ FoundInv /\ [Next]_vars => BoundInv'
<1> SUFFICES ASSUME TypeOK, BoundInv, FoundInv, [Next]_vars PROVE BoundInv'
  OBVIOUS
<1>0. TypeOK' /\ \A u \in Users : rows[u] \in Nat
  BY TypeNext, Finite DEF TypeOK
<1> USE <1>0 DEF tableVars, pairVars, castVars, noteVars
<1>1. ASSUME NEW members \in SUBSET Users, CreateGroup(members) PROVE BoundInv'
  <2>1. ASSUME NEW u \in Users PROVE Inserting(u)' = {}
    BY <1>1 DEF CreateGroup, Inserting, At, FoundInv
  <2>2. ASSUME NEW u \in Users PROVE Inserting(u) = {}
    BY <1>1 DEF CreateGroup, Inserting, At, FoundInv
  <2>3. CASE UNCHANGED rows
    BY <2>1, <2>2, <2>3, BoundFewer DEF TypeOK
  <2>4. CASE rows' = MemberSet(members)
    <3>1. ASSUME NEW u \in Users
          PROVE  rows'[u] \in 0..1 /\ Cardinality(Inserting(u)') = 0
      BY <2>1, <2>4, FS_EmptySet DEF MemberSet
    <3>2. QED
      BY <3>1, Finite DEF BoundInv
  <2>5. QED
    BY <1>1, <2>3, <2>4 DEF CreateGroup
<1>2. ASSUME NEW r \in Reqs, NEW u \in Users, BeginJoin(r, u) PROVE BoundInv'
  <2>1. \A v \in Users : rows'[v] <= rows[v] /\ Inserting(v)' \subseteq Inserting(v)
    BY <1>2 DEF BeginJoin, Inserting, At, TypeOK, Idle
  <2>2. QED
    BY <2>1, BoundFewer
<1>3. ASSUME NEW r \in Reqs, NEW u \in Users, BeginLeave(r, u) PROVE BoundInv'
  <2>1. \A v \in Users : rows'[v] <= rows[v] /\ Inserting(v)' \subseteq Inserting(v)
    BY <1>3 DEF BeginLeave, Begin, Inserting, At, TypeOK, Idle
  <2>2. QED
    BY <2>1, BoundFewer
<1>4. ASSUME NEW r \in Reqs, NEW u \in Users, BeginSend(r, u) PROVE BoundInv'
  <2>1. \A v \in Users : rows'[v] <= rows[v] /\ Inserting(v)' \subseteq Inserting(v)
    BY <1>4 DEF BeginSend, Begin, Inserting, At, TypeOK, Idle
  <2>2. QED
    BY <2>1, BoundFewer
<1>5. ASSUME NEW r \in Reqs, NEW u \in Users, BeginRead(r, u) PROVE BoundInv'
  <2>1. \A v \in Users : rows'[v] <= rows[v] /\ Inserting(v)' \subseteq Inserting(v)
    BY <1>5 DEF BeginRead, Begin, Inserting, At, TypeOK, Idle
  <2>2. QED
    BY <2>1, BoundFewer
<1>6. ASSUME NEW r \in Reqs, NEW op \in {"join", "leave"}, FindGroup(r, op) PROVE BoundInv'
  <2>1. \A v \in Users : rows'[v] <= rows[v] /\ Inserting(v)' \subseteq Inserting(v)
    BY <1>6, RequestMoves DEF FindGroup, At, Inserting, At, Idle
  <2>2. QED
    BY <2>1, BoundFewer
<1>7. ASSUME NEW r \in Reqs, JoinCheck(r) PROVE BoundInv'
  <2>1. CASE IsMember(req[r].user)
    <3>1. \A u \in Users : rows'[u] <= rows[u] /\ Inserting(u)' \subseteq Inserting(u)
      BY <1>7, <2>1, RequestMoves DEF JoinCheck, At, Inserting, Idle
    <3>2. QED
      BY <3>1, BoundFewer
  <2>2. CASE ~IsMember(req[r].user)
    <3>1. rows[req[r].user] = 0 /\ rows' = rows
      BY <1>7, <2>2 DEF JoinCheck, IsMember, TypeOK
    <3>2. ASSUME NEW u \in Users, u # req[r].user PROVE Inserting(u)' \subseteq Inserting(u)
      BY <1>7, <2>2, <3>2, RequestMoves DEF JoinCheck, At, Inserting
    <3>3. ASSUME NEW u \in Users
          PROVE  rows'[u] + Cardinality(Inserting(u)') <= Cardinality(Reqs) + 1
      <4>1. Cardinality(Inserting(u)') \in Nat /\ Cardinality(Inserting(u)') <= Cardinality(Reqs)
        BY GroupsAssumption, FS_Subset, FS_CardinalityType DEF Inserting
      <4>2. CASE u = req[r].user
        BY <3>1, <4>1, <4>2, Finite
      <4>3. CASE u # req[r].user
        <5>1. Cardinality(Inserting(u)') <= Cardinality(Inserting(u))
          BY <3>2, <4>3, Finite, FS_Subset
        <5>2. rows[u] \in Nat /\ rows[u] + Cardinality(Inserting(u)) <= Cardinality(Reqs) + 1
          BY DEF BoundInv, TypeOK
        <5>3. QED
          BY <3>1, <4>1, <5>1, <5>2, Finite
      <4>4. QED
        BY <4>2, <4>3
    <3>4. QED
      BY <3>3 DEF BoundInv
  <2>3. QED
    BY <2>1, <2>2
<1>8. ASSUME NEW r \in Reqs, AddGroupMember(r) PROVE BoundInv'
  <2>1. ASSUME NEW u \in Users
        PROVE  rows'[u] + Cardinality(Inserting(u)') <= Cardinality(Reqs) + 1
    <3>1. CASE u = req[r].user
      <4>1. r \in Inserting(u) /\ Inserting(u)' = Inserting(u) \ {r}
        BY <1>8, <3>1 DEF AddGroupMember, At, Finish, Inserting, Idle, TypeOK
      <4>2. Cardinality(Inserting(u)') = Cardinality(Inserting(u)) - 1
        BY <4>1, Finite, FS_RemoveElement
      <4>3. rows'[u] = rows[u] + 1
        BY <1>8, <3>1 DEF AddGroupMember, TypeOK
      <4>4. QED
        BY <4>2, <4>3, Finite DEF BoundInv, TypeOK
    <3>2. CASE u # req[r].user
      <4>1. rows'[u] = rows[u] /\ Inserting(u)' = Inserting(u)
        BY <1>8, <3>2 DEF AddGroupMember, At, Finish, Inserting, Idle, TypeOK
      <4>2. QED
        BY <4>1 DEF BoundInv
    <3>3. QED
      BY <3>1, <3>2
  <2>2. QED
    BY <2>1 DEF BoundInv
<1>9. ASSUME NEW r \in Reqs, LeaveCheck(r) PROVE BoundInv'
  <2>1. \A v \in Users : rows'[v] <= rows[v] /\ Inserting(v)' \subseteq Inserting(v)
    BY <1>9, RequestMoves DEF LeaveCheck, At, IsMember, Inserting, At, Idle
  <2>2. QED
    BY <2>1, BoundFewer
<1>10. ASSUME NEW r \in Reqs, RemoveGroupMember(r) PROVE BoundInv'
  <2>1. \A v \in Users : rows'[v] <= rows[v] /\ Inserting(v)' \subseteq Inserting(v)
    BY <1>10 DEF RemoveGroupMember, Leave, At, Finish, Inserting, At, TypeOK, Idle
  <2>2. QED
    BY <2>1, BoundFewer
<1>11. ASSUME NEW r \in Reqs, IsGroupMember(r) PROVE BoundInv'
  <2>1. \A v \in Users : rows'[v] <= rows[v] /\ Inserting(v)' \subseteq Inserting(v)
    BY <1>11, RequestMoves DEF IsGroupMember, IsMember, Inserting, At, Idle
  <2>2. QED
    BY <2>1, BoundFewer
<1>12. ASSUME NEW r \in Reqs, ReadGroup(r) PROVE BoundInv'
  <2>1. \A v \in Users : rows'[v] <= rows[v] /\ Inserting(v)' \subseteq Inserting(v)
    BY <1>12 DEF ReadGroup, At, Finish, Inserting, At, TypeOK, Idle
  <2>2. QED
    BY <2>1, BoundFewer
<1>13. ASSUME NEW r \in Reqs, NEW m \in Msgs, SendGroupMessage(r, m) PROVE BoundInv'
  <2>1. \A v \in Users : rows'[v] <= rows[v] /\ Inserting(v)' \subseteq Inserting(v)
    BY <1>13 DEF SendGroupMessage, At, Finish, IsMember, Inserting, At, TypeOK, Idle
  <2>2. QED
    BY <2>1, BoundFewer
<1>14. ASSUME NEW r \in Reqs, RequestFails(r) PROVE BoundInv'
  <2>1. \A v \in Users : rows'[v] <= rows[v] /\ Inserting(v)' \subseteq Inserting(v)
    BY <1>14 DEF RequestFails, Finish, Inserting, At, TypeOK, Idle
  <2>2. QED
    BY <2>1, BoundFewer
<1>15. ASSUME NEW r \in Reqs, BeginPrivate(r) PROVE BoundInv'
  <2>1. \A v \in Users : rows'[v] <= rows[v] /\ Inserting(v)' \subseteq Inserting(v)
    BY <1>15 DEF BeginPrivate, Begin, Inserting, At, TypeOK, Idle
  <2>2. QED
    BY <2>1, BoundFewer
<1>16. ASSUME NEW r \in Reqs, FindConversation(r) PROVE BoundInv'
  <2>1. \A v \in Users : rows'[v] <= rows[v] /\ Inserting(v)' \subseteq Inserting(v)
    BY <1>16, RequestMoves DEF FindConversation, At, Inserting, At, Idle
  <2>2. QED
    BY <2>1, BoundFewer
<1>17. ASSUME NEW r \in Reqs, InsertConversation(r) PROVE BoundInv'
  <2>1. \A v \in Users : rows'[v] <= rows[v] /\ Inserting(v)' \subseteq Inserting(v)
    BY <1>17, RequestMoves DEF InsertConversation, At, Inserting, At, Idle
  <2>2. QED
    BY <2>1, BoundFewer
<1>18. ASSUME NEW r \in Reqs, InsertMembersAndCommit(r) PROVE BoundInv'
  <2>1. \A v \in Users : rows'[v] <= rows[v] /\ Inserting(v)' \subseteq Inserting(v)
    BY <1>18 DEF InsertMembersAndCommit, At, Finish, Inserting, At, TypeOK, Idle
  <2>2. QED
    BY <2>1, BoundFewer
<1>19. ASSUME NEW m \in Msgs, ListMembers(m) PROVE BoundInv'
  <2>1. \A v \in Users : rows'[v] <= rows[v] /\ Inserting(v)' \subseteq Inserting(v)
    BY <1>19 DEF ListMembers, Inserting, At, TypeOK, Idle
  <2>2. QED
    BY <2>1, BoundFewer
<1>20. ASSUME NEW m \in Msgs, AllChecked(m) PROVE BoundInv'
  <2>1. \A v \in Users : rows'[v] <= rows[v] /\ Inserting(v)' \subseteq Inserting(v)
    BY <1>20 DEF AllChecked, Inserting, At, TypeOK, Idle
  <2>2. QED
    BY <2>1, BoundFewer
<1>21. ASSUME NEW m \in Msgs, AllPushed(m) PROVE BoundInv'
  <2>1. \A v \in Users : rows'[v] <= rows[v] /\ Inserting(v)' \subseteq Inserting(v)
    BY <1>21 DEF AllPushed, Inserting, At, TypeOK, Idle
  <2>2. QED
    BY <2>1, BoundFewer
<1>22. ASSUME NEW m \in Msgs, BroadcastFails(m) PROVE BoundInv'
  <2>1. \A v \in Users : rows'[v] <= rows[v] /\ Inserting(v)' \subseteq Inserting(v)
    BY <1>22 DEF BroadcastFails, Inserting, At, TypeOK, Idle
  <2>2. QED
    BY <2>1, BoundFewer
<1>23. ASSUME NEW m \in Msgs, NEW u \in Users, CheckOnline(m, u) PROVE BoundInv'
  <2>1. \A v \in Users : rows'[v] <= rows[v] /\ Inserting(v)' \subseteq Inserting(v)
    BY <1>23 DEF CheckOnline, Inserting, At, TypeOK, Idle
  <2>2. QED
    BY <2>1, BoundFewer
<1>24. ASSUME NEW m \in Msgs, NEW u \in Users, PushToMember(m, u) PROVE BoundInv'
  <2>1. \A v \in Users : rows'[v] <= rows[v] /\ Inserting(v)' \subseteq Inserting(v)
    BY <1>24 DEF PushToMember, Inserting, At, TypeOK, Idle
  <2>2. QED
    BY <2>1, BoundFewer
<1>25. ASSUME NEW u \in Users, Connect(u) PROVE BoundInv'
  <2>1. \A v \in Users : rows'[v] <= rows[v] /\ Inserting(v)' \subseteq Inserting(v)
    BY <1>25 DEF Connect, Inserting, At, TypeOK, Idle
  <2>2. QED
    BY <2>1, BoundFewer
<1>26. ASSUME NEW u \in Users, Disconnect(u) PROVE BoundInv'
  <2>1. \A v \in Users : rows'[v] <= rows[v] /\ Inserting(v)' \subseteq Inserting(v)
    BY <1>26 DEF Disconnect, Inserting, At, TypeOK, Idle
  <2>2. QED
    BY <2>1, BoundFewer
<1>27. ASSUME UNCHANGED vars PROVE BoundInv'
  <2>1. \A v \in Users : rows'[v] <= rows[v] /\ Inserting(v)' \subseteq Inserting(v)
    BY <1>27 DEF vars, Inserting, At
  <2>2. QED
    BY <2>1, BoundFewer
<1>28. QED
  BY <1>1, <1>2, <1>3, <1>4, <1>5, <1>6, <1>7, <1>8, <1>9, <1>10, <1>11,
     <1>12, <1>13, <1>14, <1>15, <1>16, <1>17, <1>18, <1>19, <1>20, <1>21, <1>22,
     <1>23, <1>24, <1>25, <1>26, <1>27 DEF Next

(* Requests for the group come when it is there, and are checked by it.    *)
LEMMA FoundNext == TypeOK /\ FoundInv /\ [Next]_vars => FoundInv'
<1> SUFFICES ASSUME TypeOK, FoundInv, [Next]_vars PROVE FoundInv'
  OBVIOUS
<1>0. \A u \in Users : rows[u] \in Nat
  BY Finite DEF TypeOK
<1> USE <1>0 DEF FoundInv,
        tableVars, pairVars, castVars, noteVars, Idle
<1>1. ASSUME NEW members \in SUBSET Users, CreateGroup(members) PROVE FoundInv'
  BY <1>1 DEF CreateGroup, MemberSet, At, TypeOK
<1>2. ASSUME NEW r \in Reqs, NEW u \in Users, BeginJoin(r, u) PROVE FoundInv'
  BY <1>2 DEF BeginJoin, At, TypeOK
<1>3. ASSUME NEW r \in Reqs, NEW u \in Users, BeginLeave(r, u) PROVE FoundInv'
  BY <1>3 DEF BeginLeave, Begin, At, TypeOK
<1>4. ASSUME NEW r \in Reqs, NEW u \in Users, BeginSend(r, u) PROVE FoundInv'
  BY <1>4 DEF BeginSend, Begin, At, TypeOK
<1>5. ASSUME NEW r \in Reqs, NEW u \in Users, BeginRead(r, u) PROVE FoundInv'
  BY <1>5 DEF BeginRead, Begin, At, TypeOK
<1>6. ASSUME NEW r \in Reqs, NEW op \in {"join", "leave"}, FindGroup(r, op) PROVE FoundInv'
  BY <1>6, RequestMoves DEF FindGroup, At
<1>7. ASSUME NEW r \in Reqs, JoinCheck(r) PROVE FoundInv'
  BY <1>7, RequestMoves DEF JoinCheck, At, IsMember
<1>8. ASSUME NEW r \in Reqs, AddGroupMember(r) PROVE FoundInv'
  BY <1>8 DEF AddGroupMember, At, Finish, TypeOK
<1>9. ASSUME NEW r \in Reqs, LeaveCheck(r) PROVE FoundInv'
  BY <1>9, RequestMoves DEF LeaveCheck, At, IsMember
<1>10. ASSUME NEW r \in Reqs, RemoveGroupMember(r) PROVE FoundInv'
  BY <1>10 DEF RemoveGroupMember, Leave, At, Finish, TypeOK
<1>11. ASSUME NEW r \in Reqs, IsGroupMember(r) PROVE FoundInv'
  BY <1>11, RequestMoves DEF IsGroupMember, IsMember, At
<1>12. ASSUME NEW r \in Reqs, ReadGroup(r) PROVE FoundInv'
  BY <1>12 DEF ReadGroup, At, Finish, TypeOK
<1>13. ASSUME NEW r \in Reqs, NEW m \in Msgs, SendGroupMessage(r, m) PROVE FoundInv'
  BY <1>13 DEF SendGroupMessage, At, Finish, IsMember, TypeOK
<1>14. ASSUME NEW r \in Reqs, RequestFails(r) PROVE FoundInv'
  BY <1>14 DEF RequestFails, Finish, At, TypeOK
<1>15. ASSUME NEW r \in Reqs, BeginPrivate(r) PROVE FoundInv'
  BY <1>15 DEF BeginPrivate, Begin, At, TypeOK
<1>16. ASSUME NEW r \in Reqs, FindConversation(r) PROVE FoundInv'
  BY <1>16, RequestMoves DEF FindConversation, At
<1>17. ASSUME NEW r \in Reqs, InsertConversation(r) PROVE FoundInv'
  BY <1>17, RequestMoves DEF InsertConversation, At
<1>18. ASSUME NEW r \in Reqs, InsertMembersAndCommit(r) PROVE FoundInv'
  BY <1>18 DEF InsertMembersAndCommit, At, Finish, TypeOK
<1>19. ASSUME NEW m \in Msgs, ListMembers(m) PROVE FoundInv'
  BY <1>19 DEF ListMembers, At, TypeOK
<1>20. ASSUME NEW m \in Msgs, AllChecked(m) PROVE FoundInv'
  BY <1>20 DEF AllChecked, At, TypeOK
<1>21. ASSUME NEW m \in Msgs, AllPushed(m) PROVE FoundInv'
  BY <1>21 DEF AllPushed, At, TypeOK
<1>22. ASSUME NEW m \in Msgs, BroadcastFails(m) PROVE FoundInv'
  BY <1>22 DEF BroadcastFails, At, TypeOK
<1>23. ASSUME NEW m \in Msgs, NEW u \in Users, CheckOnline(m, u) PROVE FoundInv'
  BY <1>23 DEF CheckOnline, At, TypeOK
<1>24. ASSUME NEW m \in Msgs, NEW u \in Users, PushToMember(m, u) PROVE FoundInv'
  BY <1>24 DEF PushToMember, At, TypeOK
<1>25. ASSUME NEW u \in Users, Connect(u) PROVE FoundInv'
  BY <1>25 DEF Connect, At, TypeOK
<1>26. ASSUME NEW u \in Users, Disconnect(u) PROVE FoundInv'
  BY <1>26 DEF Disconnect, At, TypeOK
<1>27. ASSUME UNCHANGED vars PROVE FoundInv'
  BY <1>27 DEF vars
<1>28. QED
  BY <1>1, <1>2, <1>3, <1>4, <1>5, <1>6, <1>7, <1>8, <1>9, <1>10, <1>11,
     <1>12, <1>13, <1>14, <1>15, <1>16, <1>17, <1>18, <1>19, <1>20, <1>21, <1>22,
     <1>23, <1>24, <1>25, <1>26, <1>27 DEF Next

(* The owner's row is there before anyone's check, and no leave passes it. *)
LEMMA OwnerNext == TypeOK /\ FoundInv /\ OwnerInv /\ [Next]_vars => OwnerInv'
<1> SUFFICES ASSUME TypeOK, FoundInv, OwnerInv, [Next]_vars PROVE OwnerInv'
  OBVIOUS
<1>0. \A u \in Users : rows[u] \in Nat
  BY Finite DEF TypeOK
<1> USE <1>0, GroupsAssumption DEF FoundInv, OwnerInv, OwnerStays, At,
        tableVars, pairVars, castVars, noteVars, Idle
<1>1. ASSUME NEW members \in SUBSET Users, CreateGroup(members) PROVE OwnerInv'
  BY <1>1 DEF CreateGroup, MemberSet, TypeOK
<1>2. ASSUME NEW r \in Reqs, NEW u \in Users, BeginJoin(r, u) PROVE OwnerInv'
  BY <1>2 DEF BeginJoin, TypeOK
<1>3. ASSUME NEW r \in Reqs, NEW u \in Users, BeginLeave(r, u) PROVE OwnerInv'
  BY <1>3 DEF BeginLeave, Begin, TypeOK
<1>4. ASSUME NEW r \in Reqs, NEW u \in Users, BeginSend(r, u) PROVE OwnerInv'
  BY <1>4 DEF BeginSend, Begin, TypeOK
<1>5. ASSUME NEW r \in Reqs, NEW u \in Users, BeginRead(r, u) PROVE OwnerInv'
  BY <1>5 DEF BeginRead, Begin, TypeOK
<1>6. ASSUME NEW r \in Reqs, NEW op \in {"join", "leave"}, FindGroup(r, op) PROVE OwnerInv'
  BY <1>6, RequestMoves DEF FindGroup, At
<1>7. ASSUME NEW r \in Reqs, JoinCheck(r) PROVE OwnerInv'
  BY <1>7, RequestMoves DEF JoinCheck, At, IsMember
<1>8. ASSUME NEW r \in Reqs, AddGroupMember(r) PROVE OwnerInv'
  BY <1>8 DEF AddGroupMember, At, Finish, TypeOK
<1>9. ASSUME NEW r \in Reqs, LeaveCheck(r) PROVE OwnerInv'
  BY <1>9, RequestMoves DEF LeaveCheck, At, IsMember
<1>10. ASSUME NEW r \in Reqs, RemoveGroupMember(r) PROVE OwnerInv'
  BY <1>10 DEF RemoveGroupMember, Leave, At, Finish, TypeOK
<1>11. ASSUME NEW r \in Reqs, IsGroupMember(r) PROVE OwnerInv'
  BY <1>11, RequestMoves DEF IsGroupMember, IsMember
<1>12. ASSUME NEW r \in Reqs, ReadGroup(r) PROVE OwnerInv'
  BY <1>12 DEF ReadGroup, At, Finish, TypeOK
<1>13. ASSUME NEW r \in Reqs, NEW m \in Msgs, SendGroupMessage(r, m) PROVE OwnerInv'
  BY <1>13 DEF SendGroupMessage, At, Finish, IsMember, TypeOK
<1>14. ASSUME NEW r \in Reqs, RequestFails(r) PROVE OwnerInv'
  BY <1>14 DEF RequestFails, Finish, TypeOK
<1>15. ASSUME NEW r \in Reqs, BeginPrivate(r) PROVE OwnerInv'
  BY <1>15 DEF BeginPrivate, Begin, TypeOK
<1>16. ASSUME NEW r \in Reqs, FindConversation(r) PROVE OwnerInv'
  BY <1>16, RequestMoves DEF FindConversation, At
<1>17. ASSUME NEW r \in Reqs, InsertConversation(r) PROVE OwnerInv'
  BY <1>17, RequestMoves DEF InsertConversation, At
<1>18. ASSUME NEW r \in Reqs, InsertMembersAndCommit(r) PROVE OwnerInv'
  BY <1>18 DEF InsertMembersAndCommit, At, Finish, TypeOK
<1>19. ASSUME NEW m \in Msgs, ListMembers(m) PROVE OwnerInv'
  BY <1>19 DEF ListMembers, TypeOK
<1>20. ASSUME NEW m \in Msgs, AllChecked(m) PROVE OwnerInv'
  BY <1>20 DEF AllChecked, TypeOK
<1>21. ASSUME NEW m \in Msgs, AllPushed(m) PROVE OwnerInv'
  BY <1>21 DEF AllPushed, TypeOK
<1>22. ASSUME NEW m \in Msgs, BroadcastFails(m) PROVE OwnerInv'
  BY <1>22 DEF BroadcastFails, TypeOK
<1>23. ASSUME NEW m \in Msgs, NEW u \in Users, CheckOnline(m, u) PROVE OwnerInv'
  BY <1>23 DEF CheckOnline, TypeOK
<1>24. ASSUME NEW m \in Msgs, NEW u \in Users, PushToMember(m, u) PROVE OwnerInv'
  BY <1>24 DEF PushToMember, TypeOK
<1>25. ASSUME NEW u \in Users, Connect(u) PROVE OwnerInv'
  BY <1>25 DEF Connect, TypeOK
<1>26. ASSUME NEW u \in Users, Disconnect(u) PROVE OwnerInv'
  BY <1>26 DEF Disconnect, TypeOK
<1>27. ASSUME UNCHANGED vars PROVE OwnerInv'
  BY <1>27 DEF vars
<1>28. QED
  BY <1>1, <1>2, <1>3, <1>4, <1>5, <1>6, <1>7, <1>8, <1>9, <1>10, <1>11,
     <1>12, <1>13, <1>14, <1>15, <1>16, <1>17, <1>18, <1>19, <1>20, <1>21, <1>22,
     <1>23, <1>24, <1>25, <1>26, <1>27 DEF Next

(* Of a user without overlapping joins one is past its check at most.      *)
LEMMA JoinNext == TypeOK /\ FoundInv /\ JoinInv /\ [Next]_vars => JoinInv'
<1> SUFFICES ASSUME TypeOK, FoundInv, JoinInv, [Next]_vars PROVE JoinInv'
  OBVIOUS
<1>0. \A u \in Users : rows[u] \in Nat
  BY Finite DEF TypeOK
<1> USE <1>0, GroupsAssumption DEF FoundInv, JoinInv, Joining, Inserting, At,
        tableVars, pairVars, castVars, noteVars, Idle
<1>1. ASSUME NEW members \in SUBSET Users, CreateGroup(members) PROVE JoinInv'
  BY <1>1 DEF CreateGroup, MemberSet, TypeOK
<1>2. ASSUME NEW r \in Reqs, NEW u \in Users, BeginJoin(r, u) PROVE JoinInv'
  BY <1>2 DEF BeginJoin, TypeOK
<1>3. ASSUME NEW r \in Reqs, NEW u \in Users, BeginLeave(r, u) PROVE JoinInv'
  BY <1>3 DEF BeginLeave, Begin, TypeOK
<1>4. ASSUME NEW r \in Reqs, NEW u \in Users, BeginSend(r, u) PROVE JoinInv'
  BY <1>4 DEF BeginSend, Begin, TypeOK
<1>5. ASSUME NEW r \in Reqs, NEW u \in Users, BeginRead(r, u) PROVE JoinInv'
  BY <1>5 DEF BeginRead, Begin, TypeOK
<1>6. ASSUME NEW r \in Reqs, NEW op \in {"join", "leave"}, FindGroup(r, op) PROVE JoinInv'
  BY <1>6, RequestMoves DEF FindGroup, At
<1>7. ASSUME NEW r \in Reqs, JoinCheck(r) PROVE JoinInv'
  BY <1>7, RequestMoves DEF JoinCheck, At, IsMember
<1>8. ASSUME NEW r \in Reqs, AddGroupMember(r) PROVE JoinInv'
  BY <1>8 DEF AddGroupMember, At, Finish, TypeOK
<1>9. ASSUME NEW r \in Reqs, LeaveCheck(r) PROVE JoinInv'
  BY <1>9, RequestMoves DEF LeaveCheck, At, IsMember
<1>10. ASSUME NEW r \in Reqs, RemoveGroupMember(r) PROVE JoinInv'
  BY <1>10 DEF RemoveGroupMember, Leave, At, Finish, TypeOK
<1>11. ASSUME NEW r \in Reqs, IsGroupMember(r) PROVE JoinInv'
  BY <1>11, RequestMoves DEF IsGroupMember, IsMember
<1>12. ASSUME NEW r \in Reqs, ReadGroup(r) PROVE JoinInv'
  BY <1>12 DEF ReadGroup, At, Finish, TypeOK
<1>13. ASSUME NEW r \in Reqs, NEW m \in Msgs, SendGroupMessage(r, m) PROVE JoinInv'
  BY <1>13 DEF SendGroupMessage, At, Finish, IsMember, TypeOK
<1>14. ASSUME NEW r \in Reqs, RequestFails(r) PROVE JoinInv'
  BY <1>14 DEF RequestFails, Finish, TypeOK
<1>15. ASSUME NEW r \in Reqs, BeginPrivate(r) PROVE JoinInv'
  BY <1>15 DEF BeginPrivate, Begin, TypeOK
<1>16. ASSUME NEW r \in Reqs, FindConversation(r) PROVE JoinInv'
  BY <1>16, RequestMoves DEF FindConversation, At
<1>17. ASSUME NEW r \in Reqs, InsertConversation(r) PROVE JoinInv'
  BY <1>17, RequestMoves DEF InsertConversation, At
<1>18. ASSUME NEW r \in Reqs, InsertMembersAndCommit(r) PROVE JoinInv'
  BY <1>18 DEF InsertMembersAndCommit, At, Finish, TypeOK
<1>19. ASSUME NEW m \in Msgs, ListMembers(m) PROVE JoinInv'
  BY <1>19 DEF ListMembers, TypeOK
<1>20. ASSUME NEW m \in Msgs, AllChecked(m) PROVE JoinInv'
  BY <1>20 DEF AllChecked, TypeOK
<1>21. ASSUME NEW m \in Msgs, AllPushed(m) PROVE JoinInv'
  BY <1>21 DEF AllPushed, TypeOK
<1>22. ASSUME NEW m \in Msgs, BroadcastFails(m) PROVE JoinInv'
  BY <1>22 DEF BroadcastFails, TypeOK
<1>23. ASSUME NEW m \in Msgs, NEW u \in Users, CheckOnline(m, u) PROVE JoinInv'
  BY <1>23 DEF CheckOnline, TypeOK
<1>24. ASSUME NEW m \in Msgs, NEW u \in Users, PushToMember(m, u) PROVE JoinInv'
  BY <1>24 DEF PushToMember, TypeOK
<1>25. ASSUME NEW u \in Users, Connect(u) PROVE JoinInv'
  BY <1>25 DEF Connect, TypeOK
<1>26. ASSUME NEW u \in Users, Disconnect(u) PROVE JoinInv'
  BY <1>26 DEF Disconnect, TypeOK
<1>27. ASSUME UNCHANGED vars PROVE JoinInv'
  BY <1>27 DEF vars
<1>28. QED
  BY <1>1, <1>2, <1>3, <1>4, <1>5, <1>6, <1>7, <1>8, <1>9, <1>10, <1>11,
     <1>12, <1>13, <1>14, <1>15, <1>16, <1>17, <1>18, <1>19, <1>20, <1>21, <1>22,
     <1>23, <1>24, <1>25, <1>26, <1>27 DEF Next

(* An entry of a list is moved on or dropped, never doubled.               *)
LEMMA CastNext == TypeOK /\ JoinInv /\ CastInv /\ [Next]_vars => CastInv'
<1> SUFFICES ASSUME TypeOK, JoinInv, CastInv, [Next]_vars PROVE CastInv'
  OBVIOUS
<1>0. \A u \in Users : rows[u] \in Nat
  BY Finite DEF TypeOK
<1> USE <1>0 DEF CastInv,
        tableVars, pairVars, castVars, noteVars, None
<1>1. ASSUME NEW members \in SUBSET Users, CreateGroup(members) PROVE CastInv'
  BY <1>1 DEF CreateGroup, MemberSet, TypeOK
<1>2. ASSUME NEW r \in Reqs, NEW u \in Users, BeginJoin(r, u) PROVE CastInv'
  BY <1>2 DEF BeginJoin, TypeOK
<1>3. ASSUME NEW r \in Reqs, NEW u \in Users, BeginLeave(r, u) PROVE CastInv'
  BY <1>3 DEF BeginLeave, Begin, TypeOK
<1>4. ASSUME NEW r \in Reqs, NEW u \in Users, BeginSend(r, u) PROVE CastInv'
  BY <1>4 DEF BeginSend, Begin, TypeOK
<1>5. ASSUME NEW r \in Reqs, NEW u \in Users, BeginRead(r, u) PROVE CastInv'
  BY <1>5 DEF BeginRead, Begin, TypeOK
<1>6. ASSUME NEW r \in Reqs, NEW op \in {"join", "leave"}, FindGroup(r, op) PROVE CastInv'
  BY <1>6, RequestMoves DEF FindGroup, At
<1>7. ASSUME NEW r \in Reqs, JoinCheck(r) PROVE CastInv'
  BY <1>7, RequestMoves DEF JoinCheck, At, IsMember
<1>8. ASSUME NEW r \in Reqs, AddGroupMember(r) PROVE CastInv'
  BY <1>8 DEF AddGroupMember, At, Finish, TypeOK
<1>9. ASSUME NEW r \in Reqs, LeaveCheck(r) PROVE CastInv'
  BY <1>9, RequestMoves DEF LeaveCheck, At, IsMember
<1>10. ASSUME NEW r \in Reqs, RemoveGroupMember(r) PROVE CastInv'
  BY <1>10 DEF RemoveGroupMember, Leave, At, Finish, TypeOK
<1>11. ASSUME NEW r \in Reqs, IsGroupMember(r) PROVE CastInv'
  BY <1>11, RequestMoves DEF IsGroupMember, IsMember
<1>12. ASSUME NEW r \in Reqs, ReadGroup(r) PROVE CastInv'
  BY <1>12 DEF ReadGroup, At, Finish, TypeOK
<1>13. ASSUME NEW r \in Reqs, NEW m \in Msgs, SendGroupMessage(r, m) PROVE CastInv'
  BY <1>13 DEF SendGroupMessage, At, Finish, IsMember, TypeOK
<1>14. ASSUME NEW r \in Reqs, RequestFails(r) PROVE CastInv'
  BY <1>14 DEF RequestFails, Finish, TypeOK
<1>15. ASSUME NEW r \in Reqs, BeginPrivate(r) PROVE CastInv'
  BY <1>15 DEF BeginPrivate, Begin, TypeOK
<1>16. ASSUME NEW r \in Reqs, FindConversation(r) PROVE CastInv'
  BY <1>16, RequestMoves DEF FindConversation, At
<1>17. ASSUME NEW r \in Reqs, InsertConversation(r) PROVE CastInv'
  BY <1>17, RequestMoves DEF InsertConversation, At
<1>18. ASSUME NEW r \in Reqs, InsertMembersAndCommit(r) PROVE CastInv'
  BY <1>18 DEF InsertMembersAndCommit, At, Finish, TypeOK
<1>19. ASSUME NEW m \in Msgs, ListMembers(m) PROVE CastInv'
  BY <1>19 DEF ListMembers, JoinInv, TypeOK
<1>20. ASSUME NEW m \in Msgs, AllChecked(m) PROVE CastInv'
  BY <1>20 DEF AllChecked, TypeOK
<1>21. ASSUME NEW m \in Msgs, AllPushed(m) PROVE CastInv'
  BY <1>21 DEF AllPushed, TypeOK
<1>22. ASSUME NEW m \in Msgs, BroadcastFails(m) PROVE CastInv'
  BY <1>22 DEF BroadcastFails, TypeOK
<1>23. ASSUME NEW m \in Msgs, NEW u \in Users, CheckOnline(m, u) PROVE CastInv'
  BY <1>23 DEF CheckOnline, TypeOK
<1>24. ASSUME NEW m \in Msgs, NEW u \in Users, PushToMember(m, u) PROVE CastInv'
  BY <1>24 DEF PushToMember, TypeOK
<1>25. ASSUME NEW u \in Users, Connect(u) PROVE CastInv'
  BY <1>25 DEF Connect, TypeOK
<1>26. ASSUME NEW u \in Users, Disconnect(u) PROVE CastInv'
  BY <1>26 DEF Disconnect, TypeOK
<1>27. ASSUME UNCHANGED vars PROVE CastInv'
  BY <1>27 DEF vars
<1>28. QED
  BY <1>1, <1>2, <1>3, <1>4, <1>5, <1>6, <1>7, <1>8, <1>9, <1>10, <1>11,
     <1>12, <1>13, <1>14, <1>15, <1>16, <1>17, <1>18, <1>19, <1>20, <1>21, <1>22,
     <1>23, <1>24, <1>25, <1>26, <1>27 DEF Next

(* Nobody who has left is let in by a request that comes later.            *)
LEMMA LeftNext == TypeOK /\ FoundInv /\ CastInv /\ LeftInv /\ [Next]_vars => LeftInv'
<1> SUFFICES ASSUME TypeOK, FoundInv, CastInv, LeftInv, [Next]_vars PROVE LeftInv'
  OBVIOUS
<1>0. \A u \in Users : rows[u] \in Nat
  BY Finite DEF TypeOK
<1> USE <1>0, GroupsAssumption DEF FoundInv, LeftInv, Joining, At,
        tableVars, pairVars, castVars, noteVars, Idle, None
<1>1. ASSUME NEW members \in SUBSET Users, CreateGroup(members) PROVE LeftInv'
  BY <1>1 DEF CreateGroup, MemberSet, TypeOK
<1>2. ASSUME NEW r \in Reqs, NEW u \in Users, BeginJoin(r, u) PROVE LeftInv'
  BY <1>2 DEF BeginJoin, TypeOK
<1>3. ASSUME NEW r \in Reqs, NEW u \in Users, BeginLeave(r, u) PROVE LeftInv'
  BY <1>3 DEF BeginLeave, Begin, TypeOK
<1>4. ASSUME NEW r \in Reqs, NEW u \in Users, BeginSend(r, u) PROVE LeftInv'
  BY <1>4 DEF BeginSend, Begin, TypeOK
<1>5. ASSUME NEW r \in Reqs, NEW u \in Users, BeginRead(r, u) PROVE LeftInv'
  BY <1>5 DEF BeginRead, Begin, TypeOK
<1>6. ASSUME NEW r \in Reqs, NEW op \in {"join", "leave"}, FindGroup(r, op) PROVE LeftInv'
  BY <1>6, RequestMoves DEF FindGroup, At
<1>7. ASSUME NEW r \in Reqs, JoinCheck(r) PROVE LeftInv'
  BY <1>7, RequestMoves DEF JoinCheck, At, IsMember
<1>8. ASSUME NEW r \in Reqs, AddGroupMember(r) PROVE LeftInv'
  BY <1>8 DEF AddGroupMember, At, Finish, TypeOK
<1>9. ASSUME NEW r \in Reqs, LeaveCheck(r) PROVE LeftInv'
  BY <1>9, RequestMoves DEF LeaveCheck, At, IsMember
<1>10. ASSUME NEW r \in Reqs, RemoveGroupMember(r) PROVE LeftInv'
  BY <1>10 DEF RemoveGroupMember, Leave, At, Finish, TypeOK
<1>11. ASSUME NEW r \in Reqs, IsGroupMember(r) PROVE LeftInv'
  BY <1>11, RequestMoves DEF IsGroupMember, IsMember
<1>12. ASSUME NEW r \in Reqs, ReadGroup(r) PROVE LeftInv'
  BY <1>12 DEF ReadGroup, At, Finish, TypeOK
<1>13. ASSUME NEW r \in Reqs, NEW m \in Msgs, SendGroupMessage(r, m) PROVE LeftInv'
  BY <1>13 DEF SendGroupMessage, At, Finish, IsMember, CastInv, TypeOK
<1>14. ASSUME NEW r \in Reqs, RequestFails(r) PROVE LeftInv'
  BY <1>14 DEF RequestFails, Finish, TypeOK
<1>15. ASSUME NEW r \in Reqs, BeginPrivate(r) PROVE LeftInv'
  BY <1>15 DEF BeginPrivate, Begin, TypeOK
<1>16. ASSUME NEW r \in Reqs, FindConversation(r) PROVE LeftInv'
  BY <1>16, RequestMoves DEF FindConversation, At
<1>17. ASSUME NEW r \in Reqs, InsertConversation(r) PROVE LeftInv'
  BY <1>17, RequestMoves DEF InsertConversation, At
<1>18. ASSUME NEW r \in Reqs, InsertMembersAndCommit(r) PROVE LeftInv'
  BY <1>18 DEF InsertMembersAndCommit, At, Finish, TypeOK
<1>19. ASSUME NEW m \in Msgs, ListMembers(m) PROVE LeftInv'
  BY <1>19 DEF ListMembers, TypeOK
<1>20. ASSUME NEW m \in Msgs, AllChecked(m) PROVE LeftInv'
  BY <1>20 DEF AllChecked, TypeOK
<1>21. ASSUME NEW m \in Msgs, AllPushed(m) PROVE LeftInv'
  BY <1>21 DEF AllPushed, TypeOK
<1>22. ASSUME NEW m \in Msgs, BroadcastFails(m) PROVE LeftInv'
  BY <1>22 DEF BroadcastFails, TypeOK
<1>23. ASSUME NEW m \in Msgs, NEW u \in Users, CheckOnline(m, u) PROVE LeftInv'
  BY <1>23 DEF CheckOnline, TypeOK
<1>24. ASSUME NEW m \in Msgs, NEW u \in Users, PushToMember(m, u) PROVE LeftInv'
  BY <1>24 DEF PushToMember, TypeOK
<1>25. ASSUME NEW u \in Users, Connect(u) PROVE LeftInv'
  BY <1>25 DEF Connect, TypeOK
<1>26. ASSUME NEW u \in Users, Disconnect(u) PROVE LeftInv'
  BY <1>26 DEF Disconnect, TypeOK
<1>27. ASSUME UNCHANGED vars PROVE LeftInv'
  BY <1>27 DEF vars
<1>28. QED
  BY <1>1, <1>2, <1>3, <1>4, <1>5, <1>6, <1>7, <1>8, <1>9, <1>10, <1>11,
     <1>12, <1>13, <1>14, <1>15, <1>16, <1>17, <1>18, <1>19, <1>20, <1>21, <1>22,
     <1>23, <1>24, <1>25, <1>26, <1>27 DEF Next

(* An entry of a member who stays is passed on from list to list.          *)
LEMMA ReachNext == TypeOK /\ FoundInv /\ ReachInv /\ [Next]_vars => ReachInv'
<1> SUFFICES ASSUME TypeOK, FoundInv, ReachInv, [Next]_vars PROVE ReachInv'
  OBVIOUS
<1>0. \A u \in Users : rows[u] \in Nat
  BY Finite DEF TypeOK
<1> USE <1>0 DEF FoundInv, ReachInv,
        tableVars, pairVars, castVars, noteVars, None
<1>1. ASSUME NEW members \in SUBSET Users, CreateGroup(members) PROVE ReachInv'
  BY <1>1 DEF CreateGroup, MemberSet, TypeOK
<1>2. ASSUME NEW r \in Reqs, NEW u \in Users, BeginJoin(r, u) PROVE ReachInv'
  BY <1>2 DEF BeginJoin, TypeOK
<1>3. ASSUME NEW r \in Reqs, NEW u \in Users, BeginLeave(r, u) PROVE ReachInv'
  BY <1>3 DEF BeginLeave, Begin, TypeOK
<1>4. ASSUME NEW r \in Reqs, NEW u \in Users, BeginSend(r, u) PROVE ReachInv'
  BY <1>4 DEF BeginSend, Begin, TypeOK
<1>5. ASSUME NEW r \in Reqs, NEW u \in Users, BeginRead(r, u) PROVE ReachInv'
  BY <1>5 DEF BeginRead, Begin, TypeOK
<1>6. ASSUME NEW r \in Reqs, NEW op \in {"join", "leave"}, FindGroup(r, op) PROVE ReachInv'
  BY <1>6, RequestMoves DEF FindGroup, At
<1>7. ASSUME NEW r \in Reqs, JoinCheck(r) PROVE ReachInv'
  BY <1>7, RequestMoves DEF JoinCheck, At, IsMember
<1>8. ASSUME NEW r \in Reqs, AddGroupMember(r) PROVE ReachInv'
  BY <1>8 DEF AddGroupMember, At, Finish, TypeOK
<1>9. ASSUME NEW r \in Reqs, LeaveCheck(r) PROVE ReachInv'
  BY <1>9, RequestMoves DEF LeaveCheck, At, IsMember
<1>10. ASSUME NEW r \in Reqs, RemoveGroupMember(r) PROVE ReachInv'
  BY <1>10 DEF RemoveGroupMember, Leave, At, Finish, TypeOK
<1>11. ASSUME NEW r \in Reqs, IsGroupMember(r) PROVE ReachInv'
  BY <1>11, RequestMoves DEF IsGroupMember, IsMember
<1>12. ASSUME NEW r \in Reqs, ReadGroup(r) PROVE ReachInv'
  BY <1>12 DEF ReadGroup, At, Finish, TypeOK
<1>13. ASSUME NEW r \in Reqs, NEW m \in Msgs, SendGroupMessage(r, m) PROVE ReachInv'
  BY <1>13 DEF SendGroupMessage, At, Finish, IsMember, TypeOK
<1>14. ASSUME NEW r \in Reqs, RequestFails(r) PROVE ReachInv'
  BY <1>14 DEF RequestFails, Finish, TypeOK
<1>15. ASSUME NEW r \in Reqs, BeginPrivate(r) PROVE ReachInv'
  BY <1>15 DEF BeginPrivate, Begin, TypeOK
<1>16. ASSUME NEW r \in Reqs, FindConversation(r) PROVE ReachInv'
  BY <1>16, RequestMoves DEF FindConversation, At
<1>17. ASSUME NEW r \in Reqs, InsertConversation(r) PROVE ReachInv'
  BY <1>17, RequestMoves DEF InsertConversation, At
<1>18. ASSUME NEW r \in Reqs, InsertMembersAndCommit(r) PROVE ReachInv'
  BY <1>18 DEF InsertMembersAndCommit, At, Finish, TypeOK
<1>19. ASSUME NEW m \in Msgs, ListMembers(m) PROVE ReachInv'
  BY <1>19 DEF ListMembers, TypeOK
<1>20. ASSUME NEW m \in Msgs, AllChecked(m) PROVE ReachInv'
  BY <1>20 DEF AllChecked, TypeOK
<1>21. ASSUME NEW m \in Msgs, AllPushed(m) PROVE ReachInv'
  BY <1>21 DEF AllPushed, TypeOK
<1>22. ASSUME NEW m \in Msgs, BroadcastFails(m) PROVE ReachInv'
  BY <1>22 DEF BroadcastFails, TypeOK
<1>23. ASSUME NEW m \in Msgs, NEW u \in Users, CheckOnline(m, u) PROVE ReachInv'
  BY <1>23 DEF CheckOnline, TypeOK
<1>24. ASSUME NEW m \in Msgs, NEW u \in Users, PushToMember(m, u) PROVE ReachInv'
  BY <1>24 DEF PushToMember, TypeOK
<1>25. ASSUME NEW u \in Users, Connect(u) PROVE ReachInv'
  BY <1>25 DEF Connect, TypeOK
<1>26. ASSUME NEW u \in Users, Disconnect(u) PROVE ReachInv'
  BY <1>26 DEF Disconnect, TypeOK
<1>27. ASSUME UNCHANGED vars PROVE ReachInv'
  BY <1>27 DEF vars
<1>28. QED
  BY <1>1, <1>2, <1>3, <1>4, <1>5, <1>6, <1>7, <1>8, <1>9, <1>10, <1>11,
     <1>12, <1>13, <1>14, <1>15, <1>16, <1>17, <1>18, <1>19, <1>20, <1>21, <1>22,
     <1>23, <1>24, <1>25, <1>26, <1>27 DEF Next

(* One transaction has the row, and nobody else inserts it meanwhile.      *)
LEMMA PairNext == TypeOK /\ PairInv /\ [Next]_vars => PairInv'
<1> SUFFICES ASSUME TypeOK, PairInv, [Next]_vars PROVE PairInv'
  OBVIOUS
<1>0. \A u \in Users : rows[u] \in Nat
  BY Finite DEF TypeOK
<1> USE <1>0, GroupsAssumption DEF PairInv, PrivateOnce, At,
        tableVars, pairVars, castVars, noteVars, Idle
<1>1. ASSUME NEW members \in SUBSET Users, CreateGroup(members) PROVE PairInv'
  BY <1>1 DEF CreateGroup, MemberSet, TypeOK
<1>2. ASSUME NEW r \in Reqs, NEW u \in Users, BeginJoin(r, u) PROVE PairInv'
  BY <1>2 DEF BeginJoin, TypeOK
<1>3. ASSUME NEW r \in Reqs, NEW u \in Users, BeginLeave(r, u) PROVE PairInv'
  BY <1>3 DEF BeginLeave, Begin, TypeOK
<1>4. ASSUME NEW r \in Reqs, NEW u \in Users, BeginSend(r, u) PROVE PairInv'
  BY <1>4 DEF BeginSend, Begin, TypeOK
<1>5. ASSUME NEW r \in Reqs, NEW u \in Users, BeginRead(r, u) PROVE PairInv'
  BY <1>5 DEF BeginRead, Begin, TypeOK
<1>6. ASSUME NEW r \in Reqs, NEW op \in {"join", "leave"}, FindGroup(r, op) PROVE PairInv'
  BY <1>6, RequestMoves DEF FindGroup, At
<1>7. ASSUME NEW r \in Reqs, JoinCheck(r) PROVE PairInv'
  BY <1>7, RequestMoves DEF JoinCheck, At, IsMember
<1>8. ASSUME NEW r \in Reqs, AddGroupMember(r) PROVE PairInv'
  BY <1>8 DEF AddGroupMember, At, Finish, TypeOK
<1>9. ASSUME NEW r \in Reqs, LeaveCheck(r) PROVE PairInv'
  BY <1>9, RequestMoves DEF LeaveCheck, At, IsMember
<1>10. ASSUME NEW r \in Reqs, RemoveGroupMember(r) PROVE PairInv'
  BY <1>10 DEF RemoveGroupMember, Leave, At, Finish, TypeOK
<1>11. ASSUME NEW r \in Reqs, IsGroupMember(r) PROVE PairInv'
  BY <1>11, RequestMoves DEF IsGroupMember, IsMember
<1>12. ASSUME NEW r \in Reqs, ReadGroup(r) PROVE PairInv'
  BY <1>12 DEF ReadGroup, At, Finish, TypeOK
<1>13. ASSUME NEW r \in Reqs, NEW m \in Msgs, SendGroupMessage(r, m) PROVE PairInv'
  BY <1>13 DEF SendGroupMessage, At, Finish, IsMember, TypeOK
<1>14. ASSUME NEW r \in Reqs, RequestFails(r) PROVE PairInv'
  BY <1>14 DEF RequestFails, Finish, TypeOK
<1>15. ASSUME NEW r \in Reqs, BeginPrivate(r) PROVE PairInv'
  BY <1>15 DEF BeginPrivate, Begin, TypeOK
<1>16. ASSUME NEW r \in Reqs, FindConversation(r) PROVE PairInv'
  BY <1>16, RequestMoves DEF FindConversation, At
<1>17. ASSUME NEW r \in Reqs, InsertConversation(r) PROVE PairInv'
  <2>1. \A x \in Reqs : tx # x
    BY <1>17 DEF InsertConversation
  <2>2. CASE private = "stored"
    <3>1. Finish(r) /\ UNCHANGED <<private, pairRows, tx>>
      BY <1>17, <2>2 DEF InsertConversation
    <3>2. \A x \in Reqs : ~(req'[x].op = "private" /\ req'[x].at = "members")
      BY <2>1, <3>1, RequestMoves
    <3>3. QED
      BY <2>1, <3>1, <3>2
  <2>3. CASE private # "stored"
    <3>1. Goto(r, "members") /\ tx' = r /\ UNCHANGED <<private, pairRows>>
      BY <1>17, <2>3 DEF InsertConversation
    <3>2. req'[r].op = "private" /\ req'[r].at = "members"
      BY <1>17, <3>1, RequestMoves DEF InsertConversation
    <3>3. \A x \in Reqs \ {r} : ~(req'[x].op = "private" /\ req'[x].at = "members")
      BY <2>1, <3>1, RequestMoves
    <3>4. private' = "none"
      BY <2>3, <3>1 DEF TypeOK
    <3>5. QED
      BY <2>3, <3>1, <3>2, <3>3, <3>4
  <2>4. QED
    BY <2>2, <2>3
<1>18. ASSUME NEW r \in Reqs, InsertMembersAndCommit(r) PROVE PairInv'
  BY <1>18 DEF InsertMembersAndCommit, At, Finish, TypeOK
<1>19. ASSUME NEW m \in Msgs, ListMembers(m) PROVE PairInv'
  BY <1>19 DEF ListMembers, TypeOK
<1>20. ASSUME NEW m \in Msgs, AllChecked(m) PROVE PairInv'
  BY <1>20 DEF AllChecked, TypeOK
<1>21. ASSUME NEW m \in Msgs, AllPushed(m) PROVE PairInv'
  BY <1>21 DEF AllPushed, TypeOK
<1>22. ASSUME NEW m \in Msgs, BroadcastFails(m) PROVE PairInv'
  BY <1>22 DEF BroadcastFails, TypeOK
<1>23. ASSUME NEW m \in Msgs, NEW u \in Users, CheckOnline(m, u) PROVE PairInv'
  BY <1>23 DEF CheckOnline, TypeOK
<1>24. ASSUME NEW m \in Msgs, NEW u \in Users, PushToMember(m, u) PROVE PairInv'
  BY <1>24 DEF PushToMember, TypeOK
<1>25. ASSUME NEW u \in Users, Connect(u) PROVE PairInv'
  BY <1>25 DEF Connect, TypeOK
<1>26. ASSUME NEW u \in Users, Disconnect(u) PROVE PairInv'
  BY <1>26 DEF Disconnect, TypeOK
<1>27. ASSUME UNCHANGED vars PROVE PairInv'
  BY <1>27 DEF vars
<1>28. QED
  BY <1>1, <1>2, <1>3, <1>4, <1>5, <1>6, <1>7, <1>8, <1>9, <1>10, <1>11,
     <1>12, <1>13, <1>14, <1>15, <1>16, <1>17, <1>18, <1>19, <1>20, <1>21, <1>22,
     <1>23, <1>24, <1>25, <1>26, <1>27 DEF Next

-----------------------------------------------------------------------------
(* The inductive invariant holds in every reachable state.                 *)
THEOREM Invariant == Spec => []IInv
<1>1. IInv /\ [Next]_vars => IInv'
  BY TypeNext, BoundNext, FoundNext, OwnerNext, JoinNext, CastNext, LeftNext,
     ReachNext, PairNext DEF IInv
<1>2. QED
  BY <1>1, InvInit, PTL DEF Spec

(* Every access of the requests and every step of a broadcast keeps the    *)
(* tables and lists in their types; a user has no more member rows than    *)
(* one and those of the requests that can have passed their check.         *)
THEOREM TypeCorrect == Spec => []TypeOK
<1>1. IInv => TypeOK
  BY DEF IInv
<1>2. QED
  BY <1>1, Invariant, PTL

(* JoinGroup and LeaveGroup cannot add or remove a row of the owner.       *)
THEOREM OwnerIsMember == Spec => []OwnerStays
<1>1. IInv => OwnerStays
  BY DEF IInv, OwnerInv
<1>2. QED
  BY <1>1, Invariant, PTL

(* Without overlapping joins the missing unique index does no harm: one    *)
(* row, and one push of a message, for a member.                           *)
THEOREM OneRowOnePush == Spec => []OncePerMember
<1>1. IInv => OncePerMember
  <2>1. ASSUME IInv, NEW u \in Users \ twice, NEW m \in Msgs PROVE pushed[m][u] <= 1
    BY <2>1 DEF IInv, CastInv, TypeOK
  <2>2. QED
    BY <2>1 DEF IInv, JoinInv, OncePerMember
<1>2. QED
  BY <1>1, Invariant, PTL

(* After LeaveGroup has answered, neither a request that begins later nor  *)
(* a broadcast of a message sent later takes the user for a member.        *)
THEOREM LeavingEnds == Spec => []LeavingIsFinal
<1>1. IInv => LeavingIsFinal
  BY DEF IInv, LeftInv, LeavingIsFinal
<1>2. QED
  BY <1>1, Invariant, PTL

(* broadcastGroupMessage pushes to all who are members and connected from  *)
(* the send to its end, but those whose channels are full when it comes to *)
(* them: nobody is passed over for another reason.                         *)
THEOREM StayersReached == Spec => []BroadcastReaches
<1>1. IInv => BroadcastReaches
  BY DEF IInv, ReachInv, BroadcastReaches
<1>2. QED
  BY <1>1, Invariant, PTL

(* GetOrCreatePrivateConversation, called twice at once, stores a          *)
(* conversation and its two members once.                                  *)
THEOREM PairStoredOnce == Spec => []PrivateOnce
<1>1. IInv => PrivateOnce
  BY DEF IInv, PairInv
<1>2. QED
  BY <1>1, Invariant, PTL

-----------------------------------------------------------------------------
(* Groups implements Roster.                                               *)

(* There is nobody to let in before the group is there, and nothing left   *)
(* to ask about when the pushes begin.                                     *)
StageInv ==
    /\ group # "stored" => /\ \A u \in Users : rows[u] = 0
                           /\ \A r \in Reqs : req[r].at # "accepted"
    /\ \A m \in Msgs : bcast[m] = "push" => \A u \in Users : todo[m][u] = 0

(* A step of the requests and the broadcasts keeps that.                   *)
LEMMA StageNext == TypeOK /\ FoundInv /\ StageInv /\ [Next]_vars => StageInv'
<1> SUFFICES ASSUME TypeOK, FoundInv, StageInv, [Next]_vars PROVE StageInv'
  OBVIOUS
<1> USE DEF StageInv, tableVars, pairVars, castVars, noteVars
<1>a. \A m \in Msgs, u \in Users : todo[m][u] \in Nat
  BY DEF TypeOK
<1>1. ASSUME NEW r \in Reqs, Finish(r) PROVE \A x \in Reqs : req'[x].at = "accepted" => req[x].at = "accepted"
  BY <1>1 DEF Finish, Idle, TypeOK
<1>2. ASSUME NEW r \in Reqs, NEW step, step # "accepted", Goto(r, step)
      PROVE  \A x \in Reqs : req'[x].at = "accepted" => req[x].at = "accepted"
  BY <1>2 DEF Goto, TypeOK
<1>3. ASSUME NEW r \in Reqs, NEW op, NEW u, NEW first, first # "accepted", Begin(r, op, u, first)
      PROVE  \A x \in Reqs : req'[x].at = "accepted" => req[x].at = "accepted"
  BY <1>3 DEF Begin, TypeOK
<1>4. ASSUME UNCHANGED <<group, rows, bcast, todo>>,
             \A x \in Reqs : req'[x].at = "accepted" => req[x].at = "accepted"
      PROVE  StageInv'
  BY <1>4
<1>5. ASSUME NEW members \in SUBSET Users, CreateGroup(members) PROVE StageInv'
  BY <1>5 DEF CreateGroup
<1>6. ASSUME NEW r \in Reqs, NEW u \in Users,
             BeginJoin(r, u) \/ BeginLeave(r, u) \/ BeginSend(r, u) \/ BeginRead(r, u)
      PROVE  StageInv'
  <2>1. CASE BeginJoin(r, u)
    <3>1. \A x \in Reqs : req'[x].at = "accepted" => req[x].at = "accepted"
      BY <2>1 DEF BeginJoin, TypeOK
    <3>2. QED
      BY <1>4, <2>1, <3>1 DEF BeginJoin
  <2>2. QED
    BY <1>3, <1>4, <1>6, <2>1 DEF BeginLeave, BeginSend, BeginRead
<1>7. ASSUME NEW r \in Reqs, \E op \in {"join", "leave"} : FindGroup(r, op) PROVE StageInv'
  BY <1>1, <1>2, <1>4, <1>7 DEF FindGroup
<1>8. ASSUME NEW r \in Reqs, JoinCheck(r) PROVE StageInv'
  BY <1>1, <1>2, <1>4, <1>8 DEF JoinCheck
<1>9. ASSUME NEW r \in Reqs, AddGroupMember(r) PROVE StageInv'
  <2>1. group = "stored"
    BY <1>9 DEF AddGroupMember, At, FoundInv
  <2>2. QED
    BY <1>9, <2>1 DEF AddGroupMember
<1>10. ASSUME NEW r \in Reqs, LeaveCheck(r) PROVE StageInv'
  BY <1>1, <1>2, <1>4, <1>10 DEF LeaveCheck
<1>11. ASSUME NEW r \in Reqs, RemoveGroupMember(r) PROVE StageInv'
  <2>1. group = "stored"
    BY <1>11 DEF RemoveGroupMember, Leave, At, FoundInv
  <2>2. QED
    BY <1>11, <2>1 DEF RemoveGroupMember, Leave
<1>12. ASSUME NEW r \in Reqs, IsGroupMember(r) PROVE StageInv'
  <2>1. CASE IsMember(req[r].user)
    <3>1. group = "stored"
      BY <2>1 DEF IsMember, TypeOK
    <3>2. QED
      BY <1>12, <3>1 DEF IsGroupMember
  <2>2. CASE ~IsMember(req[r].user)
    BY <1>1, <1>4, <1>12, <2>2 DEF IsGroupMember
  <2>3. QED
    BY <2>1, <2>2
<1>13. ASSUME NEW r \in Reqs, ReadGroup(r) PROVE StageInv'
  BY <1>1, <1>4, <1>13 DEF ReadGroup
<1>14. ASSUME NEW r \in Reqs, NEW m \in Msgs, SendGroupMessage(r, m) PROVE StageInv'
  BY <1>1, <1>14 DEF SendGroupMessage, TypeOK
<1>15. ASSUME NEW r \in Reqs, RequestFails(r) PROVE StageInv'
  BY <1>1, <1>4, <1>15 DEF RequestFails
<1>16. ASSUME NEW r \in Reqs,
              BeginPrivate(r) \/ FindConversation(r) \/ InsertConversation(r) \/ InsertMembersAndCommit(r)
       PROVE  StageInv'
  BY <1>1, <1>2, <1>3, <1>4, <1>16
     DEF BeginPrivate, FindConversation, InsertConversation, InsertMembersAndCommit
<1>17. ASSUME NEW m \in Msgs, ListMembers(m) \/ AllPushed(m) \/ BroadcastFails(m) PROVE StageInv'
  <2>1. /\ UNCHANGED <<group, rows, req>>
        /\ \A n \in Msgs : bcast'[n] = "push" => bcast[n] = "push" /\ todo'[n] = todo[n]
    BY <1>17 DEF ListMembers, AllPushed, BroadcastFails, TypeOK
  <2>2. QED
    BY <2>1
<1>18. ASSUME NEW m \in Msgs, AllChecked(m) PROVE StageInv'
  BY <1>18 DEF AllChecked, None, TypeOK
<1>19. ASSUME NEW m \in Msgs, NEW u \in Users, CheckOnline(m, u) PROVE StageInv'
  <2>1. UNCHANGED <<group, rows, req, bcast>> /\ bcast[m] = "check"
        /\ \A n \in Msgs : n # m => todo'[n] = todo[n]
    BY <1>19 DEF CheckOnline, TypeOK
  <2>2. QED
    BY <2>1
<1>20. ASSUME NEW m \in Msgs, NEW u \in Users, PushToMember(m, u) PROVE StageInv'
  BY <1>20 DEF PushToMember
<1>21. ASSUME NEW u \in Users, Connect(u) \/ Disconnect(u) PROVE StageInv'
  BY <1>21 DEF Connect, Disconnect
<1>22. CASE UNCHANGED vars
  BY <1>22 DEF vars
<1>23. QED
  BY <1>5, <1>6, <1>7, <1>8, <1>9, <1>10, <1>11, <1>12, <1>13, <1>14, <1>15, <1>16,
     <1>17, <1>18, <1>19, <1>20, <1>21, <1>22 DEF Next

(* The group without requests is the empty roster.                         *)
LEMMA RosterInit == Init => Roster!Init
  BY DEF Init, None, Roster!Init, Members, IsMember, Phases, Phase, Audience, Shown

(* What a step does to the rows of one user, or to the lists and the stage *)
(* of one message, seen through the roster.                                *)
LEMMA RosterViews ==
  ASSUME TypeOK, TypeOK'
  PROVE  /\ rows' = rows => Members' = Members
         /\ bcast' = bcast => Phases' = Phases
         /\ UNCHANGED <<todo, online>> => Audience' = Audience
         /\ pushed' = pushed => Shown' = Shown
         /\ \A m \in Msgs, to \in DOMAIN Phase : bcast' = [bcast EXCEPT ![m] = to]
               => Phases' = [Phases EXCEPT ![m] = Phase[to]]
         /\ \A m \in Msgs : (\A n \in Msgs \ {m} : todo'[n] = todo[n] /\ online'[n] = online[n])
               => Audience' = [Audience EXCEPT ![m] = {u \in Users : todo'[m][u] > 0 \/ online'[m][u] > 0}]
<1> USE DEF TypeOK
<1>1. rows' = rows => Members' = Members
  BY DEF Members, IsMember
<1>2. bcast' = bcast => Phases' = Phases
  BY DEF Phases
<1>3. UNCHANGED <<todo, online>> => Audience' = Audience
  BY DEF Audience
<1>4. pushed' = pushed => Shown' = Shown
  BY DEF Shown
<1>5. ASSUME NEW m \in Msgs, NEW to \in DOMAIN Phase, bcast' = [bcast EXCEPT ![m] = to]
      PROVE  Phases' = [Phases EXCEPT ![m] = Phase[to]]
  BY <1>5 DEF Phases
<1>6. ASSUME NEW m \in Msgs,
             \A n \in Msgs \ {m} : todo'[n] = todo[n] /\ online'[n] = online[n]
      PROVE  Audience' = [Audience EXCEPT ![m] = {u \in Users : todo'[m][u] > 0 \/ online'[m][u] > 0}]
  BY <1>6 DEF Audience
<1>7. QED
  BY <1>1, <1>2, <1>3, <1>4, <1>5, <1>6

(* The step of the roster that a step of a request is.                     *)
LEMMA RosterRequests ==
  ASSUME IInv, StageInv, TypeOK', NEW r \in Reqs,
         \/ \E u \in Users : BeginJoin(r, u) \/ BeginLeave(r, u) \/ BeginSend(r, u) \/ BeginRead(r, u)
         \/ \E op \in {"join", "leave"} : FindGroup(r, op)
         \/ JoinCheck(r) \/ AddGroupMember(r) \/ LeaveCheck(r) \/ RemoveGroupMember(r)
         \/ IsGroupMember(r) \/ ReadGroup(r)
         \/ \E m \in Msgs : SendGroupMessage(r, m)
         \/ RequestFails(r)
         \/ BeginPrivate(r) \/ FindConversation(r)
         \/ InsertConversation(r) \/ InsertMembersAndCommit(r)
  PROVE  [Roster!Next]_Roster!vars
<1> USE DEF tableVars, pairVars, castVars, noteVars,
            Roster!vars, Roster!groupVars, Roster!castVars
<1>a. TypeOK /\ \A u \in Users : rows[u] \in Nat /\ rows'[u] \in Nat
  BY Finite DEF IInv, TypeOK
<1>b. req[r].user \in Users
  BY <1>a DEF TypeOK
<1>1. CASE AddGroupMember(r)
  <2>1. PICK u \in Users : u = req[r].user
    BY <1>b
  <2>2. group = "stored" /\ group' = "stored"
    BY <1>1 DEF AddGroupMember, At, IInv, FoundInv
  <2>3. Members' = Members \cup {u}
    BY <1>a, <1>1, <2>1 DEF AddGroupMember, Members, IsMember, TypeOK
  <2>4. Roster!Join(u)
    BY <1>a, <1>1, <2>2, <2>3, RosterViews DEF AddGroupMember, Roster!Join
  <2>5. QED
    BY <2>4 DEF Roster!Next
<1>2. CASE RemoveGroupMember(r)
  <2>1. PICK u \in Users : u = req[r].user
    BY <1>b
  <2>2. u # Owner
    BY <1>2, <2>1 DEF RemoveGroupMember, Leave, IInv, OwnerInv
  <2>3. Members' = Members \ {u}
    BY <1>a, <1>2, <2>1 DEF RemoveGroupMember, Leave, Members, IsMember, TypeOK
  <2>4. Roster!Leave(u)
    BY <1>a, <1>2, <2>2, <2>3, RosterViews DEF RemoveGroupMember, Leave, Roster!Leave
  <2>5. QED
    BY <2>4 DEF Roster!Next
<1>3. ASSUME NEW m \in Msgs, SendGroupMessage(r, m) PROVE [Roster!Next]_Roster!vars
  <2>1. PICK u \in Users : u = req[r].user
    BY <1>b
  <2>2. group = "stored"
    BY <1>3 DEF SendGroupMessage, At, StageInv
  <2>3. Phases[m] = "none" /\ Phases' = [Phases EXCEPT ![m] = "sent"]
    <3>1. "list" \in DOMAIN Phase /\ Phase["list"] = "sent" /\ Phase["none"] = "none"
      BY DEF Phase
    <3>2. bcast[m] = "none" /\ bcast' = [bcast EXCEPT ![m] = "list"]
      BY <1>3 DEF SendGroupMessage
    <3>3. Phases' = [Phases EXCEPT ![m] = Phase["list"]]
      BY <1>a, <3>1, <3>2, RosterViews
    <3>4. Phases[m] = Phase[bcast[m]]
      BY DEF Phases
    <3>5. QED
      BY <3>1, <3>2, <3>3, <3>4
  <2>4. Roster!Send(m, u)
    BY <1>a, <1>3, <2>1, <2>2, <2>3, RosterViews DEF SendGroupMessage, Roster!Send, Roster!Goto
  <2>5. QED
    BY <2>4 DEF Roster!Next
<1>4. CASE InsertMembersAndCommit(r)
  <2>1. UNCHANGED <<group, Members, local, Phases, sender, Audience, Shown, dropped>>
    BY <1>a, <1>4, RosterViews DEF InsertMembersAndCommit
  <2>2. CASE UNCHANGED pairRows
    BY <2>1, <2>2
  <2>3. CASE private' = "stored" /\ pairRows' = pairRows + 1
    <3>1. tx = r /\ r # NoReq
      BY <1>4, GroupsAssumption DEF InsertMembersAndCommit, IInv, PairInv
    <3>2. pairRows = 0
      BY <3>1 DEF IInv, PairInv, PrivateOnce
    <3>3. Roster!Pair
      BY <2>1, <2>3, <3>2 DEF Roster!Pair
    <3>4. QED
      BY <3>3 DEF Roster!Next
  <2>4. QED
    BY <1>4, <2>2, <2>3 DEF InsertMembersAndCommit
<1>5. ASSUME UNCHANGED <<tableVars, local, pairRows, castVars>> PROVE [Roster!Next]_Roster!vars
  BY <1>a, <1>5, RosterViews
<1>6. QED
  BY <1>1, <1>2, <1>3, <1>4, <1>5
     DEF BeginJoin, BeginLeave, BeginSend, BeginRead, FindGroup, JoinCheck, LeaveCheck,
         IsGroupMember, ReadGroup, RequestFails, BeginPrivate, FindConversation,
         InsertConversation

(* The step of the roster that a step of a broadcast is.                   *)
LEMMA RosterBroadcasts ==
  ASSUME IInv, StageInv, TypeOK', NEW m \in Msgs,
         \/ ListMembers(m) \/ AllChecked(m) \/ AllPushed(m) \/ BroadcastFails(m)
         \/ \E u \in Users : CheckOnline(m, u) \/ PushToMember(m, u)
  PROVE  [Roster!Next]_Roster!vars
<1> USE DEF tableVars, pairVars, castVars, noteVars,
            Roster!vars, Roster!groupVars, Roster!castVars
<1> DEFINE Left == {u \in Users : todo'[m][u] > 0 \/ online'[m][u] > 0}
<1>a. /\ TypeOK /\ CastInv
      /\ \A u \in Users : /\ rows[u] \in Nat /\ todo[m][u] \in Nat /\ online[m][u] \in Nat
                          /\ todo'[m][u] \in Nat /\ online'[m][u] \in Nat /\ pushed[m][u] \in Nat
  BY Finite DEF IInv, TypeOK
<1>b. /\ \A to \in DOMAIN Phase : bcast' = [bcast EXCEPT ![m] = to]
            => Phases' = [Phases EXCEPT ![m] = Phase[to]]
      /\ (\A n \in Msgs \ {m} : todo'[n] = todo[n] /\ online'[n] = online[n])
            => Audience' = [Audience EXCEPT ![m] = Left]
      /\ UNCHANGED <<todo, online>> => Audience' = Audience
      /\ bcast' = bcast => Phases' = Phases
      /\ rows' = rows => Members' = Members
      /\ pushed' = pushed => Shown' = Shown
  BY <1>a, RosterViews
<1>c. /\ DOMAIN Phase = {"none", "list", "check", "push", "done", "failed"}
      /\ Phase["list"] = "sent" /\ Phase["check"] = "open" /\ Phase["push"] = "open"
      /\ Phase["done"] = "done" /\ Phase["failed"] = "failed"
  BY DEF Phase
<1>d. /\ Phases[m] = Phase[bcast[m]]
      /\ Audience[m] = {u \in Users : todo[m][u] > 0 \/ online[m][u] > 0}
      /\ Shown[m] = {u \in Users : pushed[m][u] > 0}
      /\ DOMAIN Phases = Msgs /\ DOMAIN Audience = Msgs /\ DOMAIN Shown = Msgs
  BY DEF Phases, Audience, Shown
<1>1. CASE ListMembers(m)
  <2>1. \A n \in Msgs \ {m} : todo'[n] = todo[n] /\ online'[n] = online[n]
    BY <1>1 DEF ListMembers
  <2>2. Left = Members \ {sender[m]}
    <3>1. \A u \in Users : /\ todo'[m][u] = IF u = sender[m] THEN 0 ELSE rows[u]
                          /\ online'[m][u] = 0
      BY <1>a, <1>1 DEF ListMembers, CastInv, TypeOK
    <3>2. QED
      BY <3>1 DEF Members, IsMember
  <2>3. Roster!Address(m)
    BY <1>1, <1>b, <1>c, <1>d, <2>1, <2>2 DEF ListMembers, Roster!Address, Roster!Goto
  <2>4. QED
    BY <2>3 DEF Roster!Next
<1>2. CASE AllChecked(m)
  <2>1. Phases' = Phases
    BY <1>2, <1>b, <1>c, <1>d DEF AllChecked, Phases
  <2>2. QED
    BY <1>2, <1>b, <2>1 DEF AllChecked
<1>3. CASE AllPushed(m)
  <2>1. Audience[m] = {}
    BY <1>3, <1>d DEF AllPushed, StageInv, None
  <2>2. Roster!End(m)
    BY <1>3, <1>b, <1>c, <1>d, <2>1 DEF AllPushed, Roster!End, Roster!Goto
  <2>3. QED
    BY <2>2 DEF Roster!Next
<1>4. CASE BroadcastFails(m)
  <2>1. \A n \in Msgs \ {m} : todo'[n] = todo[n] /\ online'[n] = online[n]
    BY <1>4 DEF BroadcastFails
  <2>2. Left = {}
    BY <1>a, <1>4 DEF BroadcastFails, None, TypeOK
  <2>3. Roster!Fail(m)
    BY <1>4, <1>b, <1>c, <1>d, <2>1, <2>2 DEF BroadcastFails, Roster!Fail, Roster!Goto
  <2>4. QED
    BY <2>3 DEF Roster!Next
<1>5. ASSUME NEW u \in Users, CheckOnline(m, u) PROVE [Roster!Next]_Roster!vars
  <2>1. \A n \in Msgs \ {m} : todo'[n] = todo[n] /\ online'[n] = online[n]
    <3>1. todo' = [todo EXCEPT ![m][u] = @ - 1]
          /\ (online' = [online EXCEPT ![m][u] = @ + 1] \/ online' = online)
      BY <1>5 DEF CheckOnline
    <3>2. \A n \in Msgs \ {m} : todo'[n] = todo[n]
      BY <3>1
    <3>3. CASE online' = [online EXCEPT ![m][u] = @ + 1]
      BY <3>2, <3>3
    <3>4. QED
      BY <3>1, <3>2, <3>3
  <2>2. /\ u \in Audience[m]
        /\ \A v \in Users \ {u} : todo'[m][v] = todo[m][v] /\ online'[m][v] = online[m][v]
        /\ online'[m][u] = online[m][u] + 1 \/ (u \notin local /\ online'[m][u] = online[m][u])
    BY <1>a, <1>5, <1>d DEF CheckOnline, TypeOK
  <2>3. Left \in {Audience[m], Audience[m] \ {u}} /\ (u \in local => Left = Audience[m])
    BY <1>a, <1>d, <2>2
  <2>4. CASE Left = Audience[m]
    <3>1. Audience' = Audience
      <4>1. Audience' = [Audience EXCEPT ![m] = Audience[m]]
        BY <1>b, <2>1, <2>4
      <4>2. QED
        BY <4>1 DEF Audience
    <3>2. QED
      BY <1>5, <1>b, <3>1 DEF CheckOnline
  <2>5. CASE Left = Audience[m] \ {u} /\ u \notin local
    <3>1. Roster!Miss(m, u)
      BY <1>5, <1>b, <2>1, <2>2, <2>5 DEF CheckOnline, Roster!Miss
    <3>2. QED
      BY <3>1 DEF Roster!Next
  <2>6. QED
    BY <2>3, <2>4, <2>5
<1>6. ASSUME NEW u \in Users, PushToMember(m, u) PROVE [Roster!Next]_Roster!vars
  <2>1. \A n \in Msgs \ {m} : todo'[n] = todo[n] /\ online'[n] = online[n]
    BY <1>6 DEF PushToMember
  <2>2. /\ u \in Audience[m]
        /\ \A v \in Users \ {u} : todo'[m][v] = todo[m][v] /\ online'[m][v] = online[m][v]
    BY <1>a, <1>6, <1>d DEF PushToMember, TypeOK
  <2>3. Left \in {Audience[m], Audience[m] \ {u}}
    BY <1>a, <1>d, <2>2
  <2>4. Audience' \in {Audience, [Audience EXCEPT ![m] = @ \ {u}]}
    <3>1. Audience' = [Audience EXCEPT ![m] = Left]
      BY <1>b, <2>1
    <3>2. CASE Left = Audience[m]
      BY <3>1, <3>2 DEF Audience
    <3>3. CASE Left = Audience[m] \ {u}
      BY <3>1, <3>3
    <3>4. QED
      BY <2>3, <3>2, <3>3
  <2>5. CASE u \in local /\ UNCHANGED dropped /\ pushed' = [pushed EXCEPT ![m][u] = @ + 1]
    <3>1. Shown' = [Shown EXCEPT ![m] = @ \cup {u}]
      <4>1. \A n \in Msgs, v \in Users :
               pushed'[n][v] = IF n = m /\ v = u THEN pushed[n][v] + 1 ELSE pushed[n][v]
        BY <1>a, <2>5 DEF TypeOK
      <4>2. \A n \in Msgs : Shown'[n] = IF n = m THEN Shown[m] \cup {u} ELSE Shown[n]
        BY <1>a, <4>1 DEF Shown
      <4>3. Shown' = [n \in Msgs |-> Shown'[n]] /\ Shown = [n \in Msgs |-> Shown[n]]
        BY DEF Shown
      <4>4. QED
        BY <4>2, <4>3
    <3>2. Roster!Show(m, u)
      BY <1>6, <1>b, <2>2, <2>4, <2>5, <3>1 DEF PushToMember, Roster!Show, Roster!Serve
    <3>3. QED
      BY <3>2 DEF Roster!Next
  <2>6. CASE u \in local /\ dropped' = [dropped EXCEPT ![m] = @ \cup {u}] /\ UNCHANGED pushed
    <3>1. Roster!Overflow(m, u)
      BY <1>6, <1>b, <2>2, <2>4, <2>6 DEF PushToMember, Roster!Overflow, Roster!Serve
    <3>2. QED
      BY <3>1 DEF Roster!Next
  <2>7. CASE u \notin local
    <3>1. UNCHANGED <<group, Members, local, Phases, sender, Shown, dropped, pairRows>>
      BY <1>6, <1>b, <2>7 DEF PushToMember
    <3>2. CASE Audience' = Audience
      BY <3>1, <3>2
    <3>3. CASE Audience' = [Audience EXCEPT ![m] = @ \ {u}]
      <4>1. Roster!Miss(m, u)
        BY <2>2, <2>7, <3>1, <3>3 DEF Roster!Miss
      <4>2. QED
        BY <4>1 DEF Roster!Next
    <3>4. QED
      BY <2>4, <3>2, <3>3
  <2>8. QED
    BY <1>6, <2>5, <2>6, <2>7 DEF PushToMember
<1>7. QED
  BY <1>1, <1>2, <1>3, <1>4, <1>5, <1>6

(* The step of the roster that any step of the group is.                   *)
LEMMA RosterNext ==
  ASSUME IInv, StageInv, IInv', [Next]_vars
  PROVE  [Roster!Next]_Roster!vars
<1> USE DEF tableVars, pairVars, castVars, noteVars,
            Roster!vars, Roster!groupVars, Roster!castVars
<1>a. TypeOK /\ TypeOK' /\ \A u \in Users : rows'[u] \in Nat
  BY Finite DEF IInv, TypeOK
<1>1. ASSUME NEW members \in SUBSET Users, CreateGroup(members) PROVE [Roster!Next]_Roster!vars
  <2>1. UNCHANGED <<local, pairRows, Phases, sender, Audience, Shown, dropped>>
    BY <1>a, <1>1, RosterViews DEF CreateGroup
  <2>2. CASE group' = "stored" /\ rows' = MemberSet(members)
    <3>1. Members' = members \cup {Owner}
      BY <2>2, GroupsAssumption DEF Members, IsMember, MemberSet
    <3>2. Roster!Found(members)
      BY <1>1, <2>1, <2>2, <3>1 DEF CreateGroup, Roster!Found
    <3>3. QED
      BY <3>2 DEF Roster!Next
  <2>3. CASE group' = "lost" /\ UNCHANGED rows
    BY <1>a, <1>1, <2>1, <2>3, RosterViews DEF CreateGroup
  <2>4. QED
    BY <1>1, <2>2, <2>3 DEF CreateGroup
<1>2. ASSUME NEW u \in Users, Connect(u) PROVE [Roster!Next]_Roster!vars
  <2>1. Roster!Connect(u)
    BY <1>a, <1>2, RosterViews DEF Connect, Roster!Connect
  <2>2. QED
    BY <2>1 DEF Roster!Next
<1>3. ASSUME NEW u \in Users, Disconnect(u) PROVE [Roster!Next]_Roster!vars
  <2>1. Roster!Disconnect(u)
    BY <1>a, <1>3, RosterViews DEF Disconnect, Roster!Disconnect
  <2>2. QED
    BY <2>1 DEF Roster!Next
<1>4. CASE UNCHANGED vars
  BY <1>a, <1>4, RosterViews DEF vars
<1>5. QED
  BY <1>a, <1>1, <1>2, <1>3, <1>4, RosterRequests, RosterBroadcasts DEF Next

(* To its members a group is a roster: the rows, checks and duplicates of  *)
(* overlapping requests and the row-by-row broadcasts keep its promises,   *)
(* for any number of users, requests and messages.                         *)
THEOREM ImplementsRosterHolds == Spec => ImplementsRoster
<1>1. Init => StageInv
  BY DEF Init, StageInv, None, Idle
<1>2. IInv /\ StageInv /\ [Next]_vars => StageInv'
  BY StageNext DEF IInv
<1>3. IInv /\ StageInv /\ IInv' /\ [Next]_vars => [Roster!Next]_Roster!vars
  BY RosterNext
<1>4. QED
  BY <1>1, <1>2, <1>3, RosterInit, Invariant, PTL DEF Spec, ImplementsRoster, Roster!Spec

=============================================================================
