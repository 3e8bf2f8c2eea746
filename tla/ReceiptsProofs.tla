--------------------------- MODULE ReceiptsProofs ---------------------------
(***************************************************************************)
(* Proofs about Receipts for every set of users, messages and overlapping  *)
(* requests: types, that a repeated receipt adds no row, that a client is  *)
(* answered only for a receipt that was stored, how many duplicates can be *)
(* made; and for orderly clients that there are none, that the unread      *)
(* messages never grow, and the refinement of ReceiptBook.                 *)
(***************************************************************************)
EXTENDS Receipts, FiniteSetTheorems, WellFoundedInduction, TLAPS

(* A receipt was stored: it is in the table, or was cleaned up.            *)
Taken(u, m, t) == <<m, t>> \in Receipts(u) \/ <<u, m, t>> \in cleaned

(* Only ProcessACK works on the table of receipts.                         *)
SavingInv ==
    \A s \in Calls : pc[s] \in {"check", "lookup", "touch", "create"} => req[s].op = "ack"

(* A request whose receipt was there from the start finds it, unless it is *)
(* cleaned up.                                                             *)
SeenInv ==
    \A s \in Calls : seen[s] => pc[s] \notin {"idle", "create"} /\ RowsOf(s) # {}

(* From the renewal or the insert on, ProcessACK's receipt was stored.     *)
TakenInv ==
    \A s \in Calls :
        /\ pc[s] \notin {"idle", "check", "lookup", "create"}
        /\ req[s].op = "ack"
        => Taken(req[s].user, req[s].msg, req[s].type)

(* The requests that found no receipt, or no cursor, and will insert one.  *)
Creating(u, m, t) ==
    {s \in Calls : /\ pc[s] = "create"
                   /\ req[s].user = u /\ req[s].msg = m /\ req[s].type = t}
CreatingCursor(u) == {s \in Calls : pc[s] = "newCursor" /\ req[s].user = u}

(* They count together with the rows that are there: a request comes to    *)
(* insert only when there is no row, and one request that inserts less     *)
(* makes one row more.                                                     *)
ReceiptBound ==
    \A u \in Users, m \in Msgs, t \in Types :
        /\ IsFiniteSet(Rows(u, m, t))
        /\ Cardinality(Rows(u, m, t)) + Cardinality(Creating(u, m, t)) <= Cardinality(Calls)
CursorBound ==
    \A u \in Users :
        Cardinality(CursorRows(u)) + Cardinality(CreatingCursor(u)) <= Cardinality(Calls)

ReceiptInv == SavingInv /\ SeenInv /\ TakenInv /\ AnsweredIsStored

IInv == TypeOK /\ ReceiptInv /\ ReceiptBound /\ CursorBound

-----------------------------------------------------------------------------
(* A set of naturals that is not empty has a least element.                *)
LEMMA LeastNatural ==
  ASSUME NEW T, T \subseteq Nat, T # {}
  PROVE  \E n \in T : \A k \in T : n <= k
<1>1. PICK n \in T : \A k \in T : ~ (<<k, n>> \in OpToRel(<, Nat))
  BY NatLessThanWellFounded, WFMin
<1>2. ASSUME NEW k \in T PROVE n <= k
  <2>1. ~ (k < n)
    BY <1>1 DEF OpToRel
  <2>2. QED
    BY <2>1
<1>3. QED
  BY <1>2

(* First() on the table of receipts returns a row that was asked for.      *)
LEMMA FirstRowExists ==
  ASSUME NEW R, R # {}, \A r \in R : r.id \in Nat
  PROVE  FirstRow(R) \in R
<1>1. PICK n \in {r.id : r \in R} : \A k \in {r.id : r \in R} : n <= k
  BY LeastNatural
<1>2. PICK r \in R : r.id = n
  OBVIOUS
<1>3. \A q \in R : r.id <= q.id
  BY <1>1, <1>2
<1>4. QED
  BY <1>3 DEF FirstRow

(* First() on the table of cursors returns a row of the user.              *)
LEMMA FirstCursorExists ==
  ASSUME NEW u, CursorRows(u) # {}, DOMAIN cursors \subseteq Nat
  PROVE  FirstCursor(u) \in CursorRows(u)
<1>1. CursorRows(u) \subseteq Nat
  BY DEF CursorRows
<1>2. PICK n \in CursorRows(u) : \A k \in CursorRows(u) : n <= k
  BY <1>1, LeastNatural
<1>3. QED
  BY <1>2 DEF FirstCursor

-----------------------------------------------------------------------------
(* The tables are empty and no request runs at first.                      *)
LEMMA TypeInit == Init => TypeOK
<1> SUFFICES ASSUME Init PROVE TypeOK
  OBVIOUS
<1>1. cursors \in Seq([user : Users, msg : Msgs])
  BY DEF Init
<1>2. QED
  BY <1>1, ReceiptsAssumption
     DEF Init, TypeOK, CallStates, NoRequest, AckRow, Types

(* Every row of the table belongs to AckRow, whatever set it is picked     *)
(* from.                                                                   *)
LEMMA RowsOfTyped ==
  ASSUME TypeOK, NEW s \in Calls, RowsOf(s) # {}
  PROVE  /\ FirstRow(RowsOf(s)) \in RowsOf(s)
         /\ FirstRow(RowsOf(s)) \in acks
         /\ FirstRow(RowsOf(s)).id \in Nat
         /\ FirstRow(RowsOf(s)).ts \in 0..now
<1>1. RowsOf(s) \subseteq acks
  BY DEF RowsOf, Rows
<1>2. \A r \in acks : r.id \in Nat /\ r.ts \in 0..now
  BY DEF TypeOK, AckRow
<1>3. FirstRow(RowsOf(s)) \in RowsOf(s)
  BY <1>1, <1>2, FirstRowExists
<1>4. QED
  BY <1>1, <1>2, <1>3

(* The types of the part of the state that belongs to the requests.        *)
CallsTyped ==
    /\ pc \in [Calls -> CallStates]
    /\ req \in [Calls -> Request \cup {NoRequest}]
    /\ ts \in [Calls -> 0..now] /\ row \in [Calls -> Nat]
    /\ seen \in [Calls -> BOOLEAN]
    /\ \A s \in Calls : /\ pc[s] # "idle" => req[s] \in Request
                        /\ pc[s] = "moveCursor" => row[s] \in CursorRows(req[s].user)

(* A request that goes on, without a new cursor, keeps them.               *)
LEMMA GotoTyped ==
  ASSUME CallsTyped, NEW s \in Calls, NEW label \in CallStates \ {"moveCursor"},
         pc[s] # "idle", Goto(s, label), now' = now,
         \A u : CursorRows(u) \subseteq CursorRows(u)'
  PROVE  CallsTyped'
  BY DEF CallsTyped, Goto

(* So does a request that ends.                                            *)
LEMMA EndTyped ==
  ASSUME CallsTyped, now \in Nat, NEW s \in Calls, End(s), now' = now,
         \A u : CursorRows(u) \subseteq CursorRows(u)'
  PROVE  CallsTyped'
  BY DEF CallsTyped, End, CallStates

(* The other part: the tables, the clock and the clients.                  *)
DataTyped ==
    /\ now \in Nat /\ stored \subseteq Msgs
    /\ status \in [Msgs -> {"sent"} \cup Types]
    /\ acks \subseteq AckRow /\ nextId \in Nat
    /\ \A r \in acks : r.id < nextId /\ r.ts <= now
    /\ cursors \in Seq([user : Users, msg : Msgs])
    /\ begun \in [Users -> SUBSET (Msgs \X Types)]
    /\ known \in [Users -> SUBSET (Msgs \X Types)]
    /\ last \in [Users -> [ts : Nat, msg : Msgs \cup {NoMsg}]]
    /\ cleaned \subseteq Users \X Msgs \X Types
    /\ crashes \in 0..MaxCrashes /\ cleanups \in 0..MaxCleanups

(* The two parts of the type invariant are all of it.                      *)
LEMMA TypeParts == TypeOK <=> DataTyped /\ CallsTyped
  BY DEF TypeOK, DataTyped, CallsTyped

(* A step, or a stuttering one, keeps the types.                           *)
LEMMA TypeNext == TypeOK /\ [Next]_vars => TypeOK'
<1> SUFFICES ASSUME DataTyped, CallsTyped, [Next]_vars
             PROVE  DataTyped' /\ CallsTyped'
  BY DEF TypeOK, DataTyped, CallsTyped
<1> USE ReceiptsAssumption DEF dbVars, callVars, clientVars
<1>a. now \in Nat
  BY DEF DataTyped
<1>b. cursors' = cursors => \A u : CursorRows(u)' = CursorRows(u)
  BY DEF CursorRows
<1>c. \A s \in Calls : pc[s] # "idle" => /\ req[s].user \in Users /\ req[s].msg \in Msgs
                                         /\ req[s].type \in Types
  BY DEF CallsTyped, Request
<1>1. ASSUME NEW m \in Msgs, StoreMessage(m) PROVE DataTyped' /\ CallsTyped'
  BY <1>1, <1>b DEF DataTyped, CallsTyped, StoreMessage
<1>2. ASSUME NEW s \in Calls, NEW r \in Request, NEW label \in {"check", "cursor"},
             Begin(s, r, label)
      PROVE  DataTyped' /\ CallsTyped'
  <2>1. <<r.msg, r.type>> \in Msgs \X Types /\ r.user \in Users
    BY DEF Request
  <2>2. begun' \in [Users -> SUBSET (Msgs \X Types)]
    BY <1>2, <2>1 DEF Begin, DataTyped
  <2>3. DataTyped'
    BY <1>2, <2>2 DEF Begin, DataTyped
  <2>4. CallsTyped'
    BY <1>2, <1>a, <1>b DEF Begin, CallsTyped, CallStates
  <2>5. QED
    BY <2>3, <2>4
<1>3. ASSUME NEW s \in Calls, ProcessACK(s) \/ MarkAsRead(s) PROVE DataTyped' /\ CallsTyped'
  BY <1>2, <1>3 DEF ProcessACK, MarkAsRead
<1>4. ASSUME NEW s \in Calls, CheckDuplicate(s) PROVE DataTyped' /\ CallsTyped'
  <2>0. pc[s] = "check" /\ now' = now /\ \A u : CursorRows(u) \subseteq CursorRows(u)'
    BY <1>4, <1>b DEF CheckDuplicate
  <2>1. DataTyped'
    BY <1>4 DEF CheckDuplicate, DataTyped
  <2>2. CASE Goto(s, "lookup")
    BY <2>0, <2>1, <2>2, GotoTyped DEF CallStates
  <2>3. CASE RowsOf(s) # {} /\ ~ Goto(s, "lookup")
    <3>1. FirstRow(RowsOf(s)).ts \in 0..now
      BY <2>3, RowsOfTyped, TypeParts
    <3>2. QED
      BY <1>4, <2>0, <2>1, <2>3, <3>1 DEF CheckDuplicate, CallsTyped, CallStates
  <2>4. QED
    BY <1>4, <2>1, <2>2, <2>3 DEF CheckDuplicate
<1>5. ASSUME NEW s \in Calls, LookupACK(s) PROVE DataTyped' /\ CallsTyped'
  <2>0. pc[s] = "lookup" /\ now' = now /\ \A u : CursorRows(u) \subseteq CursorRows(u)'
    BY <1>5, <1>b DEF LookupACK
  <2>1. DataTyped'
    BY <1>5 DEF LookupACK, DataTyped
  <2>2. CASE Goto(s, "create")
    BY <2>0, <2>1, <2>2, GotoTyped DEF CallStates
  <2>3. CASE End(s)
    BY <1>a, <2>0, <2>1, <2>3, EndTyped
  <2>4. ASSUME RowsOf(s) # {}, NEW label \in {"touch", "status"},
               GotoFound(s, label, FirstRow(RowsOf(s)).id)
        PROVE  CallsTyped'
    <3>1. FirstRow(RowsOf(s)).id \in Nat
      BY <2>4, RowsOfTyped, TypeParts
    <3>2. QED
      BY <1>5, <1>b, <2>4, <3>1 DEF LookupACK, GotoFound, CallsTyped, CallStates
  <2>5. QED
    BY <1>5, <2>1, <2>2, <2>3, <2>4 DEF LookupACK
<1>6. ASSUME NEW s \in Calls, TouchACK(s) PROVE DataTyped' /\ CallsTyped'
  <2>0. pc[s] = "touch" /\ now' = now /\ \A u : CursorRows(u) \subseteq CursorRows(u)'
    BY <1>6, <1>b DEF TouchACK
  <2>1. ts[s] \in Nat /\ ts[s] <= now
    BY <1>a DEF CallsTyped
  <2>2. ASSUME NEW r \in acks
        PROVE  /\ [r EXCEPT !.ts = ts[s]] \in AckRow
               /\ [r EXCEPT !.ts = ts[s]].id < nextId
               /\ [r EXCEPT !.ts = ts[s]].ts <= now
    <3>1. r \in AckRow /\ r.id < nextId
      BY DEF DataTyped
    <3>2. QED
      BY <2>1, <3>1 DEF AckRow
  <2>3. acks' \subseteq AckRow /\ \A r \in acks' : r.id < nextId /\ r.ts <= now
    <3>1. CASE UNCHANGED acks
      BY <3>1 DEF DataTyped
    <3>2. CASE acks' = {IF r.id = row[s] THEN [r EXCEPT !.ts = ts[s]] ELSE r : r \in acks}
      <4>1. ASSUME NEW q \in acks' PROVE q \in AckRow /\ q.id < nextId /\ q.ts <= now
        <5>1. PICK r \in acks : q = IF r.id = row[s] THEN [r EXCEPT !.ts = ts[s]] ELSE r
          BY <3>2
        <5>2. CASE r.id = row[s]
          BY <2>2, <5>1, <5>2
        <5>3. CASE r.id # row[s]
          BY <5>1, <5>3 DEF DataTyped
        <5>4. QED
          BY <5>2, <5>3
      <4>2. QED
        BY <4>1
    <3>3. QED
      BY <1>6, <3>1, <3>2 DEF TouchACK
  <2>4. DataTyped'
    BY <1>6, <2>3 DEF TouchACK, DataTyped
  <2>5. CASE Goto(s, "status")
    BY <2>0, <2>4, <2>5, GotoTyped DEF CallStates
  <2>6. CASE End(s)
    BY <1>a, <2>0, <2>4, <2>6, EndTyped
  <2>7. QED
    BY <1>6, <2>4, <2>5, <2>6 DEF TouchACK
<1>7. ASSUME NEW s \in Calls, CreateACK(s) PROVE DataTyped' /\ CallsTyped'
  <2>0. pc[s] = "create" /\ now' = now /\ \A u : CursorRows(u) \subseteq CursorRows(u)'
    BY <1>7, <1>b DEF CreateACK
  <2>1. pc[s] = "create" /\ ts[s] \in Nat /\ ts[s] <= now
    BY <1>7, <1>a DEF CreateACK, CallsTyped
  <2>2. nextId \in Nat
    BY DEF DataTyped
  <2>3. NewRow(s) \in AckRow /\ NewRow(s).id = nextId /\ NewRow(s).ts = ts[s]
    BY <1>c, <2>1, <2>2 DEF NewRow, AckRow
  <2>4. /\ acks' \subseteq AckRow /\ nextId' \in Nat
        /\ \A r \in acks' : r.id < nextId' /\ r.ts <= now
    <3>1. CASE acks' = acks \cup {NewRow(s)} /\ nextId' = nextId + 1
      <4>1. \A r \in acks : r \in AckRow /\ r.id \in Nat /\ r.id < nextId /\ r.ts <= now
        BY DEF DataTyped, AckRow
      <4>2. QED
        BY <2>1, <2>2, <2>3, <3>1, <4>1
    <3>2. CASE UNCHANGED <<acks, nextId>>
      BY <3>2 DEF DataTyped
    <3>3. QED
      BY <1>7, <3>1, <3>2 DEF CreateACK
  <2>5. DataTyped'
    BY <1>7, <2>4 DEF CreateACK, DataTyped
  <2>6. CASE Goto(s, "status")
    BY <2>0, <2>5, <2>6, GotoTyped DEF CallStates
  <2>7. CASE End(s)
    BY <1>a, <2>0, <2>5, <2>7, EndTyped
  <2>8. QED
    BY <1>7, <2>5, <2>6, <2>7 DEF CreateACK
<1>8. ASSUME NEW s \in Calls, UpdateMessageStatus(s) PROVE DataTyped' /\ CallsTyped'
  <2>1. DataTyped'
    BY <1>8, <1>c DEF UpdateMessageStatus, DataTyped
  <2>2. PICK label \in {"cursor", "answer"} : Goto(s, label)
    BY <1>8 DEF UpdateMessageStatus
  <2>3. QED
    BY <1>8, <1>b, <2>1, <2>2, GotoTyped DEF UpdateMessageStatus, CallStates
<1>9. ASSUME NEW s \in Calls, pc[s] # "idle", CursorFailed(s) \/ CursorDone(s), now' = now,
             \A u : CursorRows(u) \subseteq CursorRows(u)'
      PROVE  CallsTyped'
  <2>1. End(s) \/ \E label \in {"answer", "status"} : Goto(s, label)
    BY <1>9 DEF CursorFailed, CursorDone
  <2>2. QED
    BY <1>9, <1>a, <2>1, GotoTyped, EndTyped DEF CallStates
<1>10. ASSUME NEW s \in Calls, LookupCursor(s) PROVE DataTyped' /\ CallsTyped'
  <2>0. pc[s] = "cursor" /\ now' = now /\ \A u : CursorRows(u) \subseteq CursorRows(u)'
    BY <1>10, <1>b DEF LookupCursor
  <2>1. DataTyped'
    BY <1>10 DEF LookupCursor, DataTyped
  <2>2. ASSUME CursorRows(req[s].user) # {},
               GotoFound(s, "moveCursor", FirstCursor(req[s].user))
        PROVE  CallsTyped'
    <3>1. DOMAIN cursors \subseteq Nat
      BY DEF DataTyped
    <3>2. FirstCursor(req[s].user) \in CursorRows(req[s].user)
      BY <2>2, <3>1, FirstCursorExists
    <3>3. FirstCursor(req[s].user) \in Nat
      BY <3>1, <3>2 DEF CursorRows
    <3>4. QED
      BY <1>10, <1>b, <2>2, <3>2, <3>3
         DEF LookupCursor, GotoFound, CallsTyped, CallStates
  <2>3. CASE Goto(s, "newCursor")
    BY <2>0, <2>1, <2>3, GotoTyped DEF CallStates
  <2>4. CASE CursorFailed(s)
    BY <2>0, <1>9, <2>1, <2>4
  <2>5. QED
    BY <1>10, <2>1, <2>2, <2>3, <2>4 DEF LookupCursor
<1>11. ASSUME NEW s \in Calls, MoveCursor(s) PROVE DataTyped' /\ CallsTyped'
  <2>1. pc[s] = "moveCursor" /\ row[s] \in DOMAIN cursors
    BY <1>11 DEF MoveCursor, CallsTyped, CursorRows
  <2>2. /\ cursors' \in Seq([user : Users, msg : Msgs])
        /\ DOMAIN cursors' = DOMAIN cursors
        /\ \A k \in DOMAIN cursors : cursors'[k].user = cursors[k].user
    <3>1. CASE cursors' = [cursors EXCEPT ![row[s]].msg = req[s].msg]
      <4> DEFINE C == [user : Users, msg : Msgs]
      <4>0. cursors \in Seq(C)
        BY DEF DataTyped
      <4> HIDE DEF C
      <4>1. cursors \in Seq(C) /\ cursors[row[s]] \in C
        BY <2>1, <4>0
      <4>2. [cursors[row[s]] EXCEPT !.msg = req[s].msg] \in C
        BY <1>c, <2>1, <4>1 DEF C
      <4>3. [cursors[row[s]] EXCEPT !.msg = req[s].msg].user = cursors[row[s]].user
        BY <4>1 DEF C
      <4>4. cursors' = [cursors EXCEPT ![row[s]] = [cursors[row[s]] EXCEPT !.msg = req[s].msg]]
        BY <3>1
      <4>5. cursors' \in Seq(C)
        BY <2>1, <4>1, <4>2, <4>4
      <4>6. QED
        BY <4>1, <4>3, <4>4, <4>5 DEF C
    <3>2. CASE UNCHANGED cursors
      BY <3>2 DEF DataTyped
    <3>3. QED
      BY <1>11, <3>1, <3>2 DEF MoveCursor
  <2>3. \A u : CursorRows(u)' = CursorRows(u)
    BY <2>2 DEF CursorRows
  <2>4. DataTyped'
    BY <1>11, <2>2 DEF MoveCursor, DataTyped
  <2>5. QED
    BY <1>11, <1>9, <2>3, <2>4 DEF MoveCursor
<1>12. ASSUME NEW s \in Calls, CreateCursor(s) PROVE DataTyped' /\ CallsTyped'
  <2>1. pc[s] = "newCursor"
    BY <1>12 DEF CreateCursor
  <2>2. /\ cursors' \in Seq([user : Users, msg : Msgs])
        /\ DOMAIN cursors \subseteq DOMAIN cursors'
        /\ \A k \in DOMAIN cursors : cursors'[k] = cursors[k]
    <3>1. CASE cursors' = Append(cursors, [user |-> req[s].user, msg |-> req[s].msg])
      BY <1>c, <2>1, <3>1 DEF DataTyped
    <3>2. CASE UNCHANGED cursors
      BY <3>2 DEF DataTyped
    <3>3. QED
      BY <1>12, <3>1, <3>2 DEF CreateCursor
  <2>3. \A u : CursorRows(u) \subseteq CursorRows(u)'
    BY <2>2 DEF CursorRows
  <2>4. DataTyped'
    BY <1>12, <2>2 DEF CreateCursor, DataTyped
  <2>5. QED
    BY <1>12, <1>9, <2>1, <2>3, <2>4 DEF CreateCursor
<1>13. ASSUME NEW s \in Calls, Answer(s) PROVE DataTyped' /\ CallsTyped'
  <2>1. /\ known' \in [Users -> SUBSET (Msgs \X Types)]
        /\ last' \in [Users -> [ts : Nat, msg : Msgs \cup {NoMsg}]]
    <3>1. CASE UNCHANGED <<known, last>>
      BY <3>1 DEF DataTyped
    <3>2. CASE Learn(req[s].user, {<<req[s].msg, req[s].type>>}, ts[s], req[s].msg)
      <4>1. pc[s] = "answer" /\ ts[s] \in Nat
        BY <1>13, <1>a DEF Answer, CallsTyped
      <4>2. {<<req[s].msg, req[s].type>>} \subseteq Msgs \X Types
        BY <1>c, <4>1
      <4>3. [ts |-> ts[s], msg |-> req[s].msg] \in [ts : Nat, msg : Msgs \cup {NoMsg}]
        BY <1>c, <4>1
      <4>4. QED
        BY <3>2, <4>2, <4>3 DEF Learn, DataTyped
    <3>3. QED
      BY <1>13, <3>1, <3>2 DEF Answer
  <2>2. DataTyped'
    BY <1>13, <2>1 DEF Answer, DataTyped
  <2>3. QED
    BY <1>13, <1>a, <1>b, <2>2, EndTyped DEF Answer
<1>14. ASSUME NEW s \in Calls, Crash(s) PROVE DataTyped' /\ CallsTyped'
  <2>1. DataTyped'
    BY <1>14 DEF Crash, DataTyped
  <2>2. QED
    BY <1>14, <1>a, <1>b, <2>1, EndTyped DEF Crash
<1>15. ASSUME NEW u \in SyncUsers, SyncACKs(u) PROVE DataTyped' /\ CallsTyped'
  <2>1. PICK read \in SUBSET Types :
           LET got == {r \in MissedACKs(u) : r.type \in read}
               R   == {<<r.msg, r.type>> : r \in got}
           IN  /\ IF got = {} THEN UNCHANGED <<known, last>>
                  ELSE \E r \in got : /\ \A q \in got : q.ts <= r.ts
                                      /\ Learn(u, R, r.ts, r.msg)
               /\ UNCHANGED <<now, dbVars, callVars, begun, cleaned, crashes, cleanups>>
    BY <1>15 DEF SyncACKs
  <2> DEFINE got == {r \in MissedACKs(u) : r.type \in read}
             R   == {<<r.msg, r.type>> : r \in got}
  <2>2. \A r \in acks : r.msg \in Msgs /\ r.type \in Types /\ r.ts \in Nat
    BY DEF DataTyped, AckRow
  <2>3. got \subseteq acks /\ R \subseteq Msgs \X Types
    BY <2>2 DEF MissedACKs
  <2> HIDE DEF got, R
  <2>4. /\ known' \in [Users -> SUBSET (Msgs \X Types)]
        /\ last' \in [Users -> [ts : Nat, msg : Msgs \cup {NoMsg}]]
    <3>1. CASE UNCHANGED <<known, last>>
      BY <3>1 DEF DataTyped
    <3>2. ASSUME NEW r \in got, Learn(u, R, r.ts, r.msg)
          PROVE  /\ known' \in [Users -> SUBSET (Msgs \X Types)]
                 /\ last' \in [Users -> [ts : Nat, msg : Msgs \cup {NoMsg}]]
      <4>1. [ts |-> r.ts, msg |-> r.msg] \in [ts : Nat, msg : Msgs \cup {NoMsg}]
        BY <2>2, <2>3
      <4>2. QED
        BY <2>3, <3>2, <4>1 DEF Learn, DataTyped
    <3>3. QED
      BY <2>1, <3>1, <3>2 DEF got, R
  <2>5. DataTyped'
    BY <2>1, <2>4 DEF DataTyped
  <2>6. QED
    BY <2>1, <1>b, <2>5 DEF CallsTyped
<1>16. ASSUME Tick PROVE DataTyped' /\ CallsTyped'
  <2>1. now' = now + 1
    BY <1>16 DEF Tick
  <2>2. 0..now \subseteq 0..now'
    BY <1>a, <2>1
  <2>3. CallsTyped'
    BY <1>16, <1>b, <2>2 DEF Tick, CallsTyped
  <2>4. \A r \in acks : r.ts \in Nat /\ r.ts <= now
    BY DEF DataTyped, AckRow
  <2>5. \A r \in acks : r.ts <= now'
    BY <1>a, <2>1, <2>4
  <2>6. now' \in Nat
    BY <1>a, <2>1
  <2>7. DataTyped'
    BY <1>16, <2>5, <2>6 DEF Tick, DataTyped
  <2>8. QED
    BY <2>3, <2>7
<1>17. ASSUME CleanupOldACKs PROVE DataTyped' /\ CallsTyped'
  <2>1. /\ acks' \subseteq acks
        /\ cleaned' = cleaned \cup {<<r.user, r.msg, r.type>> : r \in acks \ acks'}
    BY <1>17 DEF CleanupOldACKs
  <2>2. \A r \in acks : r.user \in Users /\ r.msg \in Msgs /\ r.type \in Types
    BY DEF DataTyped, AckRow
  <2>3. cleaned' \subseteq Users \X Msgs \X Types
    BY <2>1, <2>2 DEF DataTyped
  <2>4. cleanups' \in 0..MaxCleanups
    BY <1>17 DEF CleanupOldACKs, DataTyped
  <2>5. DataTyped'
    BY <1>17, <2>1, <2>3, <2>4 DEF CleanupOldACKs, DataTyped
  <2>6. seen' \in [Calls -> BOOLEAN]
    BY <1>17 DEF CleanupOldACKs
  <2>7. CallsTyped'
    BY <1>17, <1>b, <2>6 DEF CleanupOldACKs, CallsTyped
  <2>8. QED
    BY <2>5, <2>7
<1>18. CASE UNCHANGED vars
  BY <1>18, <1>b DEF vars, DataTyped, CallsTyped
<1>19. QED
  BY <1>1, <1>3, <1>4, <1>5, <1>6, <1>7, <1>8, <1>10, <1>11, <1>12, <1>13, <1>14,
     <1>15, <1>16, <1>17, <1>18 DEF Next, SaveACK, UpsertUserCursor

(* Every variable of the receipts stays in its type.                       *)
THEOREM TypeCorrect == Spec => []TypeOK
  BY TypeInit, TypeNext, PTL DEF Spec

-----------------------------------------------------------------------------
(* A receipt is one of a user's receipts when it has a row.                *)
LEMMA RowsAndReceipts ==
  ASSUME NEW u, NEW m, NEW t
  PROVE  Rows(u, m, t) # {} <=> <<m, t>> \in Receipts(u)
  BY DEF Rows, Receipts

\* What TouchACK makes of a row.
Touched(s, r) == IF r.id = row[s] THEN [r EXCEPT !.ts = ts[s]] ELSE r

(* A renewal maps the rows of each receipt to the rows of that receipt.    *)
LEMMA TouchedRows ==
  ASSUME acks \subseteq AckRow, NEW s, acks' = {Touched(s, r) : r \in acks},
         NEW u, NEW m, NEW t
  PROVE  Rows(u, m, t)' = {Touched(s, r) : r \in Rows(u, m, t)}
<1>1. ASSUME NEW r \in acks
      PROVE  /\ Touched(s, r).user = r.user
             /\ Touched(s, r).msg = r.msg
             /\ Touched(s, r).type = r.type
  BY DEF Touched, AckRow
<1>2. QED
  BY <1>1 DEF Rows

(* What a step can do to the table of receipts.                            *)
LEMMA TableStep ==
  ASSUME [Next]_vars
  PROVE  \/ acks' = acks /\ cleaned' = cleaned
         \/ \E s \in Calls : /\ TouchACK(s) /\ cleaned' = cleaned
                             /\ acks' = {Touched(s, r) : r \in acks}
         \/ \E s \in Calls : /\ CreateACK(s) /\ cleaned' = cleaned
                             /\ acks' = acks \cup {NewRow(s)}
         \/ CleanupOldACKs
  BY DEF Next, vars, dbVars, SaveACK, UpsertUserCursor, StoreMessage, ProcessACK, MarkAsRead,
         Begin, CheckDuplicate, LookupACK, TouchACK, CreateACK, UpdateMessageStatus,
         LookupCursor, MoveCursor, CreateCursor, Answer, Crash, SyncACKs, Tick, Touched

(* A receipt that has a row keeps one, but for the cleanup.                *)
LEMMA RowsStay ==
  ASSUME TypeOK, [Next]_vars, NEW u, NEW m, NEW t, Rows(u, m, t) # {}
  PROVE  Rows(u, m, t)' # {} \/ CleanupOldACKs
<1>1. CASE acks' = acks
  BY <1>1 DEF Rows
<1>2. ASSUME NEW s \in Calls, acks' = {Touched(s, r) : r \in acks}
      PROVE  Rows(u, m, t)' # {}
  <2>1. acks \subseteq AckRow
    BY DEF TypeOK
  <2>2. Rows(u, m, t)' = {Touched(s, r) : r \in Rows(u, m, t)}
    BY <1>2, <2>1, TouchedRows
  <2>3. QED
    BY <2>2
<1>3. ASSUME NEW s \in Calls, acks' = acks \cup {NewRow(s)}
      PROVE  Rows(u, m, t)' # {}
  BY <1>3 DEF Rows
<1>4. QED
  BY <1>1, <1>2, <1>3, TableStep

(* A receipt that was stored stays so.                                     *)
LEMMA TakenStays ==
  ASSUME TypeOK, [Next]_vars, NEW u, NEW m, NEW t, Taken(u, m, t)
  PROVE  Taken(u, m, t)'
<1>1. CASE <<u, m, t>> \in cleaned
  <2>1. cleaned \subseteq cleaned'
    BY TableStep DEF CleanupOldACKs
  <2>2. QED
    BY <1>1, <2>1 DEF Taken
<1>2. CASE Rows(u, m, t) # {} /\ ~ CleanupOldACKs
  <2>1. Rows(u, m, t)' # {}
    BY <1>2, RowsStay
  <2>2. QED
    BY <2>1, RowsAndReceipts DEF Taken, Rows, Receipts
<1>3. CASE Rows(u, m, t) # {} /\ CleanupOldACKs
  <2>1. PICK r \in acks : r.user = u /\ r.msg = m /\ r.type = t
    BY <1>3 DEF Rows
  <2>2. CASE r \in acks'
    BY <2>1, <2>2 DEF Taken, Receipts
  <2>3. CASE r \notin acks'
    BY <1>3, <2>1, <2>3 DEF CleanupOldACKs, Taken
  <2>4. QED
    BY <2>2, <2>3
<1>4. QED
  BY <1>1, <1>2, <1>3, RowsAndReceipts DEF Taken

-----------------------------------------------------------------------------
(* Nothing runs and nothing was answered at first.                         *)
LEMMA ReceiptInit == Init => ReceiptInv
  BY DEF Init, ReceiptInv, SavingInv, SeenInv, TakenInv, AnsweredIsStored, NoRequest

(* What clients were told stays true.                                      *)
LEMMA AnsweredStays ==
  ASSUME TypeOK, ReceiptInv, [Next]_vars, known' = known
  PROVE  AnsweredIsStored'
<1>1. \A u \in Users : \A k \in known[u] : k = <<k[1], k[2]>>
  BY DEF TypeOK
<1>2. ASSUME NEW u \in Users, NEW k \in known[u] PROVE Taken(u, k[1], k[2])'
  <2>1. Taken(u, k[1], k[2])
    BY <1>1 DEF ReceiptInv, AnsweredIsStored, Taken
  <2>2. QED
    BY <2>1, TakenStays
<1>3. QED
  BY <1>1, <1>2 DEF AnsweredIsStored, Taken

(* A request that goes on from a position keeps the invariant, if it comes *)
(* to "create" only without a receipt and past it only with one.           *)
LEMMA CallKeeps ==
  ASSUME TypeOK, ReceiptInv, [Next]_vars, NEW s \in Calls,
         pc[s] # "idle", pc' = [pc EXCEPT ![s] = pc'[s]], pc'[s] # "idle",
         req' = req, seen' = seen, known' = known, ~ CleanupOldACKs,
         pc'[s] \in {"check", "lookup", "touch", "create"} => req[s].op = "ack",
         pc'[s] = "create" => ~ seen[s],
         pc'[s] \notin {"check", "lookup", "create"} /\ req[s].op = "ack" =>
            Taken(req[s].user, req[s].msg, req[s].type)'
  PROVE  ReceiptInv'
<1>1. \A c \in Calls : c # s => pc'[c] = pc[c]
  BY DEF TypeOK
<1>2. SavingInv'
  BY <1>1 DEF ReceiptInv, SavingInv
<1>3. SeenInv'
  <2>1. ASSUME NEW c \in Calls, seen[c] PROVE RowsOf(c)' # {}
    <3>1. RowsOf(c) # {}
      BY <2>1 DEF ReceiptInv, SeenInv
    <3>2. Rows(req[c].user, req[c].msg, req[c].type)' # {}
      BY <3>1, RowsStay DEF RowsOf
    <3>3. QED
      BY <3>2 DEF RowsOf, Rows
  <2>2. QED
    BY <1>1, <2>1 DEF ReceiptInv, SeenInv
<1>4. TakenInv'
  <2>1. ASSUME NEW c \in Calls, c # s, pc[c] \notin {"idle", "check", "lookup", "create"},
               req[c].op = "ack"
        PROVE  Taken(req[c].user, req[c].msg, req[c].type)'
    <3>1. Taken(req[c].user, req[c].msg, req[c].type)
      BY <2>1 DEF ReceiptInv, TakenInv
    <3>2. QED
      BY <3>1, TakenStays DEF Taken, Receipts
  <2>2. QED
    BY <1>1, <2>1 DEF TakenInv, Taken, Receipts
<1>5. AnsweredIsStored'
  BY AnsweredStays
<1>6. QED
  BY <1>2, <1>3, <1>4, <1>5 DEF ReceiptInv

(* So does a request that ends.                                            *)
LEMMA EndKeeps ==
  ASSUME TypeOK, ReceiptInv, [Next]_vars, NEW s \in Calls, End(s), ~ CleanupOldACKs
  PROVE  SavingInv' /\ SeenInv' /\ TakenInv'
<1>1. /\ pc'[s] = "idle" /\ ~ seen'[s]
      /\ \A c \in Calls : c # s => pc'[c] = pc[c] /\ seen'[c] = seen[c] /\ req'[c] = req[c]
  BY DEF End, TypeOK
<1>a. \A u, m, t : Taken(u, m, t) => Taken(u, m, t)'
  BY TakenStays
<1>b. \A u, m, t : Rows(u, m, t) # {} => Rows(u, m, t)' # {}
  BY RowsStay
<1>2. SavingInv'
  BY <1>1 DEF ReceiptInv, SavingInv
<1>3. SeenInv'
  <2>1. ASSUME NEW c \in Calls, c # s, seen[c] PROVE RowsOf(c)' # {}
    <3>1. RowsOf(c) # {}
      BY <2>1 DEF ReceiptInv, SeenInv
    <3>2. req'[c] = req[c]
      BY <1>1, <2>1
    <3>3. QED
      BY <1>b, <3>1, <3>2 DEF RowsOf, Rows
  <2>2. QED
    BY <1>1, <2>1 DEF ReceiptInv, SeenInv
<1>4. TakenInv'
  <2>1. ASSUME NEW c \in Calls, c # s, pc[c] \notin {"idle", "check", "lookup", "create"},
               req[c].op = "ack"
        PROVE  Taken(req[c].user, req[c].msg, req[c].type)'
    <3>1. Taken(req[c].user, req[c].msg, req[c].type)
      BY <2>1 DEF ReceiptInv, TakenInv
    <3>2. req'[c] = req[c]
      BY <1>1, <2>1
    <3>3. QED
      BY <1>a, <3>1, <3>2 DEF Taken, Receipts
  <2>2. QED
    BY <1>1, <2>1 DEF TakenInv, Taken, Receipts
<1>5. QED
  BY <1>2, <1>3, <1>4

(* A step that leaves the requests alone keeps it.                         *)
LEMMA OtherKeeps ==
  ASSUME TypeOK, ReceiptInv, [Next]_vars, UNCHANGED <<pc, req>>,
         \/ seen' = seen /\ ~ CleanupOldACKs
         \/ CleanupOldACKs
  PROVE  SavingInv' /\ SeenInv' /\ TakenInv'
<1>1. SavingInv'
  BY DEF ReceiptInv, SavingInv
<1>2. TakenInv'
  <2>1. ASSUME NEW c \in Calls, pc[c] \notin {"idle", "check", "lookup", "create"},
               req[c].op = "ack"
        PROVE  Taken(req[c].user, req[c].msg, req[c].type)'
    <3>1. Taken(req[c].user, req[c].msg, req[c].type)
      BY <2>1 DEF ReceiptInv, TakenInv
    <3>2. QED
      BY <3>1, TakenStays DEF Taken, Receipts
  <2>2. QED
    BY <2>1 DEF TakenInv, Taken, Receipts
<1>3. CASE CleanupOldACKs
  <2>1. ASSUME NEW c \in Calls, seen'[c]
        PROVE  seen[c] /\ RowsOf(c)' # {}
    BY <1>3, <2>1 DEF CleanupOldACKs, RowsOf, Rows
  <2>2. SeenInv'
    BY <2>1 DEF ReceiptInv, SeenInv
  <2>3. QED
    BY <1>1, <1>2, <2>2
<1>4. CASE seen' = seen /\ ~ CleanupOldACKs
  <2>1. ASSUME NEW c \in Calls, seen[c] PROVE RowsOf(c)' # {}
    <3>1. RowsOf(c) # {}
      BY <2>1 DEF ReceiptInv, SeenInv
    <3>2. Rows(req[c].user, req[c].msg, req[c].type)' # {}
      BY <1>4, <3>1, RowsStay DEF RowsOf
    <3>3. QED
      BY <3>2 DEF RowsOf, Rows
  <2>2. SeenInv'
    BY <1>4, <2>1 DEF ReceiptInv, SeenInv
  <2>3. QED
    BY <1>1, <1>2, <2>2
<1>5. QED
  BY <1>3, <1>4

(* Every step, and a stuttering one, keeps the receipts' invariant.        *)
LEMMA ReceiptNext == TypeOK /\ ReceiptInv /\ [Next]_vars => ReceiptInv'
<1> SUFFICES ASSUME TypeOK, ReceiptInv, [Next]_vars PROVE ReceiptInv'
  OBVIOUS
<1>1. CASE CleanupOldACKs
  <2>1. UNCHANGED <<pc, req, known>>
    BY <1>1 DEF CleanupOldACKs, clientVars
  <2>2. QED
    BY <1>1, <2>1, OtherKeeps, AnsweredStays DEF ReceiptInv
<1> SUFFICES ASSUME ~ CleanupOldACKs PROVE ReceiptInv'
  BY <1>1
<1> USE DEF dbVars, callVars, clientVars
<1>2. ASSUME UNCHANGED <<pc, req, seen, known>> PROVE ReceiptInv'
  BY <1>2, OtherKeeps, AnsweredStays DEF ReceiptInv
<1>3. ASSUME NEW s \in Calls, End(s), known' = known PROVE ReceiptInv'
  BY <1>3, EndKeeps, AnsweredStays DEF ReceiptInv
<1>4. ASSUME NEW s \in Calls, ProcessACK(s) \/ MarkAsRead(s) PROVE ReceiptInv'
  <2>1. PICK r \in Request, label \in {"check", "cursor"} :
           /\ Begin(s, r, label)
           /\ label = "check" => r.op = "ack"
           /\ label = "cursor" => r.op = "mark"
    BY <1>4 DEF ProcessACK, MarkAsRead
  <2>2. /\ pc'[s] = label /\ req'[s] = r
        /\ seen'[s] = (Rows(r.user, r.msg, r.type) # {})
        /\ \A c \in Calls : c # s => pc'[c] = pc[c] /\ req'[c] = req[c] /\ seen'[c] = seen[c]
        /\ acks' = acks /\ cleaned' = cleaned /\ known' = known
    BY <2>1 DEF Begin, TypeOK
  <2>3. SavingInv'
    BY <2>1, <2>2 DEF ReceiptInv, SavingInv
  <2>4. SeenInv'
    <3>1. ASSUME NEW c \in Calls, c # s, seen[c]
          PROVE  pc'[c] \notin {"idle", "create"} /\ RowsOf(c)' # {}
      <4>1. pc[c] \notin {"idle", "create"} /\ RowsOf(c) # {}
        BY <3>1 DEF ReceiptInv, SeenInv
      <4>2. req'[c] = req[c] /\ pc'[c] = pc[c]
        BY <2>2, <3>1
      <4>3. QED
        BY <2>2, <4>1, <4>2 DEF RowsOf, Rows
    <3>2. seen'[s] => RowsOf(s)' # {}
      BY <2>2 DEF RowsOf, Rows
    <3>3. QED
      BY <2>2, <3>1, <3>2 DEF SeenInv
  <2>5. TakenInv'
    <3>1. ASSUME NEW c \in Calls, c # s, pc[c] \notin {"idle", "check", "lookup", "create"},
                 req[c].op = "ack"
          PROVE  Taken(req[c].user, req[c].msg, req[c].type)'
      <4>1. Taken(req[c].user, req[c].msg, req[c].type)
        BY <3>1 DEF ReceiptInv, TakenInv
      <4>2. req'[c] = req[c]
        BY <2>2, <3>1
      <4>3. QED
        BY <2>2, <4>1, <4>2 DEF Taken, Receipts
    <3>2. QED
      BY <2>1, <2>2, <3>1 DEF TakenInv, Taken, Receipts
  <2>6. QED
    BY <2>2, <2>3, <2>4, <2>5, AnsweredStays DEF ReceiptInv
<1>5. ASSUME NEW s \in Calls, CheckDuplicate(s) PROVE ReceiptInv'
  <2>1. pc[s] = "check" /\ req[s].op = "ack" /\ acks' = acks /\ cleaned' = cleaned
    BY <1>5 DEF CheckDuplicate, ReceiptInv, SavingInv
  <2>2. CASE Goto(s, "lookup")
    <3>1. pc'[s] = "lookup"
      BY <2>2 DEF Goto, TypeOK
    <3>2. QED
      BY <1>5, <2>1, <2>2, <3>1, CallKeeps DEF CheckDuplicate, Goto
  <2>3. CASE RowsOf(s) # {} /\ pc' = [pc EXCEPT ![s] = "answer"]
    <3>1. pc'[s] = "answer"
      BY <2>3 DEF TypeOK
    <3>2. Taken(req[s].user, req[s].msg, req[s].type)
      BY <2>3, RowsAndReceipts DEF RowsOf, Taken
    <3>3. Taken(req[s].user, req[s].msg, req[s].type)'
      BY <1>5, <2>1, <3>2 DEF CheckDuplicate, Goto, Taken, Receipts
    <3>4. QED
      BY <1>5, <2>1, <2>3, <3>1, <3>3, CallKeeps DEF CheckDuplicate, Goto
  <2>4. QED
    BY <1>5, <2>2, <2>3 DEF CheckDuplicate
<1>6. ASSUME NEW s \in Calls, LookupACK(s) PROVE ReceiptInv'
  <2>1. pc[s] = "lookup" /\ req[s].op = "ack" /\ acks' = acks /\ cleaned' = cleaned
    BY <1>6 DEF LookupACK, ReceiptInv, SavingInv
  <2>2. CASE RowsOf(s) = {} /\ Goto(s, "create")
    <3>1. pc'[s] = "create" /\ ~ seen[s]
      BY <2>2 DEF Goto, TypeOK, ReceiptInv, SeenInv
    <3>2. QED
      BY <1>6, <2>1, <2>2, <3>1, CallKeeps DEF LookupACK, Goto
  <2>3. ASSUME RowsOf(s) # {}, NEW label \in {"touch", "status"},
               NEW r, GotoFound(s, label, r)
        PROVE  ReceiptInv'
    <3>1. pc'[s] = label
      BY <2>3 DEF GotoFound, TypeOK
    <3>2. Taken(req[s].user, req[s].msg, req[s].type)
      BY <2>3, RowsAndReceipts DEF RowsOf, Taken
    <3>3. Taken(req[s].user, req[s].msg, req[s].type)'
      BY <2>1, <2>3, <3>2 DEF GotoFound, Taken, Receipts
    <3>4. QED
      BY <1>6, <2>1, <2>3, <3>1, <3>3, CallKeeps DEF LookupACK, GotoFound
  <2>4. CASE End(s)
    BY <1>3, <1>6, <2>4 DEF LookupACK
  <2>5. QED
    BY <1>6, <2>2, <2>3, <2>4 DEF LookupACK
<1>7. ASSUME NEW s \in Calls, NEW label \in {"status", "cursor", "moveCursor", "newCursor", "answer"},
             pc[s] \in {"touch", "status", "cursor", "moveCursor", "newCursor"},
             pc' = [pc EXCEPT ![s] = label], UNCHANGED <<req, seen, known>>
      PROVE  ReceiptInv'
  <2>1. pc'[s] = label
    BY <1>7 DEF TypeOK
  <2>2. req[s].op = "ack" => Taken(req[s].user, req[s].msg, req[s].type)'
    <3>1. req[s].op = "ack" => Taken(req[s].user, req[s].msg, req[s].type)
      BY <1>7 DEF ReceiptInv, TakenInv
    <3>2. QED
      BY <1>7, <3>1, TakenStays DEF Taken, Receipts
  <2>3. QED
    BY <1>7, <2>1, <2>2, CallKeeps
<1>8. ASSUME NEW s \in Calls, TouchACK(s) PROVE ReceiptInv'
  BY <1>3, <1>7, <1>8 DEF TouchACK, Goto
<1>9. ASSUME NEW s \in Calls, CreateACK(s) PROVE ReceiptInv'
  <2>1. pc[s] = "create" /\ cleaned' = cleaned
    BY <1>9 DEF CreateACK
  <2>2. CASE acks' = acks \cup {NewRow(s)} /\ Goto(s, "status")
    <3>1. pc'[s] = "status"
      BY <2>2 DEF Goto, TypeOK
    <3>2. Taken(req[s].user, req[s].msg, req[s].type)'
      <4>1. NewRow(s) \in acks' /\ req' = req
        BY <2>2 DEF Goto
      <4>2. /\ NewRow(s).user = req[s].user
            /\ NewRow(s).msg = req[s].msg /\ NewRow(s).type = req[s].type
        BY DEF NewRow
      <4>3. <<req[s].msg, req[s].type>> \in Receipts(req[s].user)'
        BY <4>1, <4>2 DEF Receipts
      <4>4. QED
        BY <4>1, <4>3 DEF Taken, Receipts
    <3>3. QED
      BY <1>9, <2>1, <2>2, <3>1, <3>2, CallKeeps DEF CreateACK, Goto
  <2>3. CASE End(s)
    BY <1>3, <1>9, <2>3 DEF CreateACK
  <2>4. QED
    BY <1>9, <2>2, <2>3 DEF CreateACK
<1>10. ASSUME NEW s \in Calls,
              UpdateMessageStatus(s) \/ LookupCursor(s) \/ MoveCursor(s) \/ CreateCursor(s)
       PROVE  ReceiptInv'
  <2>1. /\ pc[s] \in {"status", "cursor", "moveCursor", "newCursor"} /\ known' = known
        /\ \/ End(s)
           \/ \E label \in {"status", "cursor", "answer", "newCursor"} : Goto(s, label)
           \/ GotoFound(s, "moveCursor", FirstCursor(req[s].user))
    BY <1>10 DEF UpdateMessageStatus, LookupCursor, MoveCursor, CreateCursor,
                 CursorDone, CursorFailed
  <2>2. QED
    BY <1>3, <1>7, <2>1 DEF Goto, GotoFound
<1>11. ASSUME NEW s \in Calls, Answer(s) PROVE ReceiptInv'
  <2>1. CASE known' = known
    BY <1>3, <1>11, <2>1 DEF Answer
  <2>2. CASE /\ req[s].op = "ack"
             /\ Learn(req[s].user, {<<req[s].msg, req[s].type>>}, ts[s], req[s].msg)
    <3>1. pc[s] = "answer" /\ acks' = acks /\ cleaned' = cleaned
      BY <1>11 DEF Answer
    <3>2. Taken(req[s].user, req[s].msg, req[s].type)
      BY <2>2, <3>1 DEF ReceiptInv, TakenInv
    <3>3. ASSUME NEW u \in Users, NEW k \in known'[u]
          PROVE  k \in Receipts(u) \/ <<u, k[1], k[2]>> \in cleaned
      <4>1. k \in known[u] \/ (u = req[s].user /\ k = <<req[s].msg, req[s].type>>)
        BY <2>2, <3>3 DEF Learn, TypeOK
      <4>2. QED
        BY <3>2, <4>1 DEF Taken, ReceiptInv, AnsweredIsStored
    <3>4. AnsweredIsStored'
      BY <3>1, <3>3 DEF AnsweredIsStored, Receipts
    <3>5. QED
      BY <1>11, <3>4, EndKeeps DEF Answer, ReceiptInv
  <2>3. QED
    BY <1>11, <2>1, <2>2 DEF Answer
<1>12. ASSUME NEW s \in Calls, Crash(s) PROVE ReceiptInv'
  BY <1>3, <1>12 DEF Crash
<1>13. ASSUME NEW u \in SyncUsers, SyncACKs(u) PROVE ReceiptInv'
  <2>1. UNCHANGED <<pc, req, seen>> /\ acks' = acks /\ cleaned' = cleaned
    BY <1>13 DEF SyncACKs
  <2>2. \A v \in Users : known'[v] \subseteq known[v] \cup (IF v = u THEN Receipts(u) ELSE {})
    <3>1. CASE known' = known
      BY <3>1
    <3>2. ASSUME NEW R, NEW t, NEW m, Learn(u, R, t, m), R \subseteq Receipts(u)
          PROVE  \A v \in Users :
                    known'[v] \subseteq known[v] \cup (IF v = u THEN Receipts(u) ELSE {})
      BY <3>2 DEF Learn, TypeOK
    <3>3. known' = known \/ \E R, t, m : Learn(u, R, t, m) /\ R \subseteq Receipts(u)
      <4>1. PICK read :
               LET got == {r \in MissedACKs(u) : r.type \in read}
                   R   == {<<r.msg, r.type>> : r \in got}
               IN  \/ UNCHANGED <<known, last>>
                   \/ \E r \in got : Learn(u, R, r.ts, r.msg)
        BY <1>13 DEF SyncACKs
      <4> DEFINE got == {r \in MissedACKs(u) : r.type \in read}
                 R   == {<<r.msg, r.type>> : r \in got}
      <4>2. R \subseteq Receipts(u)
        BY DEF MissedACKs, Receipts
      <4> HIDE DEF R
      <4>3. known' = known \/ \E r \in got : Learn(u, R, r.ts, r.msg)
        BY <4>1 DEF R
      <4>4. QED
        BY <4>2, <4>3
    <3>4. QED
      BY <3>1, <3>2, <3>3
  <2>3. AnsweredIsStored'
    BY <2>1, <2>2 DEF ReceiptInv, AnsweredIsStored, Receipts
  <2>4. QED
    BY <2>1, <2>3, OtherKeeps DEF ReceiptInv
<1>14. QED
  <2>1. CASE \/ \E m \in Msgs : StoreMessage(m)
             \/ Tick
             \/ UNCHANGED vars
    BY <1>2, <2>1 DEF StoreMessage, Tick, vars
  <2>2. QED
    BY <1>4, <1>5, <1>6, <1>8, <1>9, <1>10, <1>11, <1>12, <1>13, <2>1
       DEF Next, SaveACK, UpsertUserCursor

-----------------------------------------------------------------------------
(* Rows and waiting requests of a kind: X of the first, Y of the second.   *)
(* Fewer rows and no other waiting requests are within the bound.          *)
LEMMA FewerKept ==
  ASSUME NEW X, IsFiniteSet(X), NEW Y \in SUBSET Calls,
         Cardinality(X) + Cardinality(Y) <= Cardinality(Calls),
         NEW XX, IsFiniteSet(XX), Cardinality(XX) <= Cardinality(X), NEW YY \in SUBSET Y
  PROVE  Cardinality(XX) + Cardinality(YY) <= Cardinality(Calls)
<1>1. IsFiniteSet(Calls) /\ IsFiniteSet(Y)
  BY ReceiptsAssumption, FS_Subset
<1>2. IsFiniteSet(YY) /\ Cardinality(YY) <= Cardinality(Y)
  BY <1>1, FS_Subset
<1>3. /\ Cardinality(X) \in Nat /\ Cardinality(Y) \in Nat /\ Cardinality(Calls) \in Nat
      /\ Cardinality(XX) \in Nat /\ Cardinality(YY) \in Nat
  BY <1>1, <1>2, FS_CardinalityType
<1>4. QED
  BY <1>2, <1>3

(* With no row, any number of requests may wait.                           *)
LEMMA EmptyKept ==
  ASSUME NEW YY \in SUBSET Calls
  PROVE  Cardinality({}) + Cardinality(YY) <= Cardinality(Calls)
<1>1. IsFiniteSet(Calls)
  BY ReceiptsAssumption
<1>2. IsFiniteSet(YY) /\ Cardinality(YY) <= Cardinality(Calls)
  BY <1>1, FS_Subset
<1>3. Cardinality({}) = 0 /\ Cardinality(YY) \in Nat /\ Cardinality(Calls) \in Nat
  BY <1>1, <1>2, FS_CardinalityType, FS_EmptySet
<1>4. QED
  BY <1>2, <1>3

(* A waiting request that becomes a row keeps the sum.                     *)
LEMMA InsertKept ==
  ASSUME NEW X, IsFiniteSet(X), NEW Y \in SUBSET Calls,
         Cardinality(X) + Cardinality(Y) <= Cardinality(Calls),
         NEW e, NEW s \in Y, NEW YY \in SUBSET (Y \ {s})
  PROVE  /\ IsFiniteSet(X \cup {e})
         /\ Cardinality(X \cup {e}) + Cardinality(YY) <= Cardinality(Calls)
<1>1. IsFiniteSet(Calls) /\ IsFiniteSet(Y)
  BY ReceiptsAssumption, FS_Subset
<1>2. IsFiniteSet(Y \ {s}) /\ Cardinality(Y \ {s}) = Cardinality(Y) - 1
  BY <1>1, FS_RemoveElement
<1>3. IsFiniteSet(YY) /\ Cardinality(YY) <= Cardinality(Y \ {s})
  BY <1>2, FS_Subset
<1>4. /\ IsFiniteSet(X \cup {e})
      /\ Cardinality(X \cup {e}) = Cardinality(X) \/ Cardinality(X \cup {e}) = Cardinality(X) + 1
  BY FS_AddElement
<1>5. /\ Cardinality(X) \in Nat /\ Cardinality(Y) \in Nat /\ Cardinality(Calls) \in Nat
      /\ Cardinality(X \cup {e}) \in Nat /\ Cardinality(YY) \in Nat
  BY <1>1, <1>3, <1>4, FS_CardinalityType
<1>6. QED
  BY <1>2, <1>3, <1>4, <1>5

(* A step moves at most one request, and to an insert only one that found  *)
(* nothing.                                                                *)
LEMMA CallStep ==
  ASSUME TypeOK, [Next]_vars
  PROVE  \/ UNCHANGED <<pc, req>>
         \/ \E s \in Calls :
               /\ \A c \in Calls : c # s => pc'[c] = pc[c] /\ req'[c] = req[c]
               /\ \/ pc'[s] \notin {"create", "newCursor"}
                  \/ /\ pc'[s] = "create" /\ RowsOf(s) = {}
                     /\ req' = req /\ UNCHANGED dbVars
                  \/ /\ pc'[s] = "newCursor" /\ CursorRows(req[s].user) = {}
                     /\ req' = req /\ UNCHANGED dbVars
<1> DEFINE Moves(s) ==
               /\ \A c \in Calls : c # s => pc'[c] = pc[c] /\ req'[c] = req[c]
               /\ \/ pc'[s] \notin {"create", "newCursor"}
                  \/ /\ pc'[s] = "create" /\ RowsOf(s) = {}
                     /\ req' = req /\ UNCHANGED dbVars
                  \/ /\ pc'[s] = "newCursor" /\ CursorRows(req[s].user) = {}
                     /\ req' = req /\ UNCHANGED dbVars
<1>1. ASSUME NEW s \in Calls, NEW label \in CallStates \ {"create", "newCursor"},
             pc' = [pc EXCEPT ![s] = label],
             \A c \in Calls : c # s => req'[c] = req[c]
      PROVE  Moves(s)
  BY <1>1 DEF TypeOK
<1>2. ASSUME NEW s \in Calls, NEW label \in CallStates \ {"create", "newCursor"},
             Goto(s, label) \/ \E r : GotoFound(s, label, r)
      PROVE  Moves(s)
  BY <1>1, <1>2 DEF Goto, GotoFound
<1>3. ASSUME NEW s \in Calls, End(s) PROVE Moves(s)
  <2>1. \A c \in Calls : c # s => req'[c] = req[c]
    BY <1>3 DEF End, TypeOK
  <2>2. pc' = [pc EXCEPT ![s] = "idle"]
    BY <1>3 DEF End
  <2>3. QED
    BY <1>1, <2>1, <2>2 DEF CallStates
<1>4. ASSUME NEW s \in Calls, ProcessACK(s) \/ MarkAsRead(s) PROVE Moves(s)
  <2>1. PICK r \in Request, label \in {"check", "cursor"} : Begin(s, r, label)
    BY <1>4 DEF ProcessACK, MarkAsRead
  <2>2. \A c \in Calls : c # s => req'[c] = req[c]
    BY <2>1 DEF Begin, TypeOK
  <2>3. pc' = [pc EXCEPT ![s] = label]
    BY <2>1 DEF Begin
  <2>4. QED
    BY <1>1, <2>2, <2>3 DEF CallStates
<1>5. ASSUME NEW s \in Calls, LookupACK(s) PROVE Moves(s)
  <2>1. CASE RowsOf(s) = {} /\ Goto(s, "create")
    BY <1>5, <2>1 DEF LookupACK, Goto, TypeOK
  <2>2. QED
    BY <1>2, <1>3, <1>5, <2>1 DEF LookupACK, CallStates
<1>6. ASSUME NEW s \in Calls, LookupCursor(s) PROVE Moves(s)
  <2>1. CASE CursorRows(req[s].user) = {} /\ Goto(s, "newCursor")
    BY <1>6, <2>1 DEF LookupCursor, Goto, TypeOK
  <2>2. QED
    BY <1>2, <1>3, <1>6, <2>1 DEF LookupCursor, CursorFailed, CallStates
<1>7. ASSUME NEW s \in Calls,
             \/ CheckDuplicate(s) \/ TouchACK(s) \/ CreateACK(s) \/ UpdateMessageStatus(s)
             \/ MoveCursor(s) \/ CreateCursor(s) \/ Answer(s) \/ Crash(s)
      PROVE  Moves(s)
  <2>1. CASE CheckDuplicate(s)
    BY <1>1, <1>2, <2>1 DEF CheckDuplicate, CallStates
  <2>2. CASE TouchACK(s) \/ CreateACK(s) \/ UpdateMessageStatus(s)
    BY <1>2, <1>3, <2>2 DEF TouchACK, CreateACK, UpdateMessageStatus, CallStates
  <2>3. CASE MoveCursor(s) \/ CreateCursor(s) \/ Answer(s) \/ Crash(s)
    BY <1>2, <1>3, <2>3
       DEF MoveCursor, CreateCursor, CursorDone, CursorFailed, Answer, Crash, CallStates
  <2>4. QED
    BY <1>7, <2>1, <2>2, <2>3
<1>8. ASSUME \/ \E m \in Msgs : StoreMessage(m)
             \/ \E u \in SyncUsers : SyncACKs(u)
             \/ Tick \/ CleanupOldACKs \/ UNCHANGED vars
      PROVE  UNCHANGED <<pc, req>>
  BY <1>8 DEF StoreMessage, SyncACKs, Tick, CleanupOldACKs, vars, callVars
<1> HIDE DEF Moves
<1>9. (\E s \in Calls : Moves(s)) \/ UNCHANGED <<pc, req>>
  BY <1>4, <1>5, <1>6, <1>7, <1>8 DEF Next, SaveACK, UpsertUserCursor
<1>10. QED
  BY <1>9 DEF Moves

(* The rows and the waiting requests of every receipt stay in the bound.   *)
LEMMA ReceiptBoundNext == TypeOK /\ ReceiptBound /\ [Next]_vars => ReceiptBound'
<1> SUFFICES ASSUME TypeOK, ReceiptBound, [Next]_vars,
                    NEW u \in Users, NEW m \in Msgs, NEW t \in Types
             PROVE  /\ IsFiniteSet(Rows(u, m, t)')
                    /\ Cardinality(Rows(u, m, t)') + Cardinality(Creating(u, m, t)')
                          <= Cardinality(Calls)
  BY DEF ReceiptBound
<1> DEFINE X == Rows(u, m, t)
           Y == Creating(u, m, t)
           XX == Rows(u, m, t)'
           YY == Creating(u, m, t)'
<1>1. IsFiniteSet(X) /\ Cardinality(X) + Cardinality(Y) <= Cardinality(Calls)
  BY DEF ReceiptBound
<1>2. Y \in SUBSET Calls /\ YY \in SUBSET Calls
  BY DEF Creating
<1>3. YY \subseteq Y \/ (X = {} /\ XX = {})
  <2>1. CASE UNCHANGED <<pc, req>>
    BY <2>1 DEF Creating
  <2>2. ASSUME NEW s \in Calls,
               \A c \in Calls : c # s => pc'[c] = pc[c] /\ req'[c] = req[c],
               pc'[s] # "create"
        PROVE  YY \subseteq Y
    BY <2>2 DEF Creating
  <2>3. ASSUME NEW s \in Calls,
               \A c \in Calls : c # s => pc'[c] = pc[c] /\ req'[c] = req[c],
               RowsOf(s) = {}, req' = req, UNCHANGED dbVars
        PROVE  YY \subseteq Y \/ (X = {} /\ XX = {})
    <3>1. CASE req[s].user = u /\ req[s].msg = m /\ req[s].type = t
      BY <2>3, <3>1 DEF RowsOf, Rows, dbVars
    <3>2. CASE ~ (req[s].user = u /\ req[s].msg = m /\ req[s].type = t)
      BY <2>3, <3>2 DEF Creating
    <3>3. QED
      BY <3>1, <3>2
  <2>4. QED
    BY <2>1, <2>2, <2>3, CallStep
<1>4. CASE X = {} /\ XX = {}
  BY <1>2, <1>4, EmptyKept, FS_EmptySet
<1>5. CASE YY \subseteq Y /\ XX \subseteq X
  <2>1. IsFiniteSet(XX) /\ Cardinality(XX) <= Cardinality(X)
    BY <1>1, <1>5, FS_Subset
  <2>2. QED
    BY <1>1, <1>2, <1>5, <2>1, FewerKept
<1>6. ASSUME YY \subseteq Y, NEW s, acks' = {Touched(s, r) : r \in acks}
      PROVE  IsFiniteSet(XX) /\ Cardinality(XX) + Cardinality(YY) <= Cardinality(Calls)
  <2> DEFINE f == [r \in X |-> Touched(s, r)]
  <2>1. acks \subseteq AckRow
    BY DEF TypeOK
  <2>2. XX = {Touched(s, r) : r \in X}
    BY <1>6, <2>1, TouchedRows
  <2>3. f \in Surjection(X, XX)
    BY <2>2 DEF Surjection
  <2>4. IsFiniteSet(XX) /\ Cardinality(XX) <= Cardinality(X)
    BY <1>1, <2>3, FS_Surjection
  <2>5. QED
    BY <1>1, <1>2, <1>6, <2>4, FewerKept
<1>7. ASSUME NEW s \in Calls, CreateACK(s), acks' = acks \cup {NewRow(s)}, YY \subseteq Y
      PROVE  IsFiniteSet(XX) /\ Cardinality(XX) + Cardinality(YY) <= Cardinality(Calls)
  <2>1. pc[s] = "create" /\ pc'[s] # "create"
    BY <1>7 DEF CreateACK, Goto, End, TypeOK
  <2>2. /\ NewRow(s).user = req[s].user
        /\ NewRow(s).msg = req[s].msg /\ NewRow(s).type = req[s].type
    BY DEF NewRow
  <2>3. CASE req[s].user = u /\ req[s].msg = m /\ req[s].type = t
    <3>1. XX = X \cup {NewRow(s)}
      BY <1>7, <2>2, <2>3 DEF Rows
    <3>2. s \in Y /\ YY \in SUBSET (Y \ {s})
      BY <1>7, <2>1, <2>3 DEF Creating
    <3> HIDE DEF X, Y, XX, YY
    <3>3. /\ IsFiniteSet(X \cup {NewRow(s)})
          /\ Cardinality(X \cup {NewRow(s)}) + Cardinality(YY) <= Cardinality(Calls)
      BY <1>1, <1>2, <3>2, InsertKept
    <3>4. QED
      BY <3>1, <3>3
  <2>4. CASE ~ (req[s].user = u /\ req[s].msg = m /\ req[s].type = t)
    <3>1. XX = X
      BY <1>7, <2>2, <2>4 DEF Rows
    <3>2. QED
      BY <1>5, <1>7, <3>1
  <2>5. QED
    BY <2>3, <2>4
<1>8. acks' \subseteq acks => XX \subseteq X
  BY DEF Rows
<1>9. QED
  <2>1. CASE YY \subseteq Y
    <3>1. CleanupOldACKs => acks' \subseteq acks
      BY DEF CleanupOldACKs
    <3>2. QED
      BY <1>5, <1>6, <1>7, <1>8, <2>1, <3>1, TableStep
  <2>2. QED
    BY <1>3, <1>4, <2>1

(* What a step can do to the table of cursors.                             *)
LEMMA CursorStep ==
  ASSUME TypeOK, [Next]_vars
  PROVE  \/ \A v : CursorRows(v)' = CursorRows(v)
         \/ \E s \in Calls : /\ pc[s] = "newCursor" /\ pc'[s] # "newCursor"
                             /\ \A v : CursorRows(v)' =
                                    CursorRows(v) \cup (IF v = req[s].user THEN {Len(cursors) + 1}
                                                                           ELSE {})
<1>1. CASE cursors' = cursors
  BY <1>1 DEF CursorRows
<1>2. ASSUME NEW s \in Calls, MoveCursor(s), cursors' # cursors
      PROVE  \A v : CursorRows(v)' = CursorRows(v)
  <2>1. cursors' = [cursors EXCEPT ![row[s]].msg = req[s].msg]
    BY <1>2 DEF MoveCursor
  <2> DEFINE C == [user : Users, msg : Msgs]
  <2>0. cursors \in Seq(C)
    BY DEF TypeOK
  <2> HIDE DEF C
  <2>a. \A k \in DOMAIN cursors : cursors[k] \in C
    BY <2>0
  <2>2. \A k \in DOMAIN cursors : cursors[k] \in [user : Users, msg : Msgs]
    BY <2>a DEF C
  <2>3. DOMAIN cursors' = DOMAIN cursors /\ \A k \in DOMAIN cursors : cursors'[k].user = cursors[k].user
    BY <2>1, <2>2
  <2>4. QED
    BY <2>3 DEF CursorRows
<1>3. ASSUME NEW s \in Calls, CreateCursor(s), cursors' # cursors
      PROVE  /\ pc[s] = "newCursor" /\ pc'[s] # "newCursor"
             /\ \A v : CursorRows(v)' =
                    CursorRows(v) \cup (IF v = req[s].user THEN {Len(cursors) + 1} ELSE {})
  <2>1. pc[s] = "newCursor"
    BY <1>3 DEF CreateCursor
  <2>2. pc'[s] # "newCursor"
    BY <1>3 DEF CreateCursor, CursorDone, CursorFailed, Goto, End, TypeOK
  <2> DEFINE new == [user |-> req[s].user, msg |-> req[s].msg]
  <2>3. cursors' = Append(cursors, new) /\ cursors \in Seq([user : Users, msg : Msgs])
    BY <1>3 DEF CreateCursor, TypeOK
  <2>4. req[s] \in Request
    BY <2>1 DEF TypeOK
  <2>5. new \in [user : Users, msg : Msgs] /\ new.user = req[s].user
    BY <2>4 DEF Request
  <2> HIDE DEF new
  <2>6. /\ DOMAIN cursors' = DOMAIN cursors \cup {Len(cursors) + 1}
        /\ \A k \in DOMAIN cursors : cursors'[k] = cursors[k]
        /\ cursors'[Len(cursors) + 1] = new /\ Len(cursors) + 1 \notin DOMAIN cursors
    BY <2>3, <2>5
  <2>7. QED
    BY <2>1, <2>2, <2>5, <2>6 DEF CursorRows
<1>4. \/ cursors' = cursors
      \/ \E s \in Calls : MoveCursor(s) \/ CreateCursor(s)
  BY DEF Next, vars, dbVars, SaveACK, UpsertUserCursor, StoreMessage, ProcessACK, MarkAsRead,
         Begin, CheckDuplicate, LookupACK, TouchACK, CreateACK, UpdateMessageStatus,
         LookupCursor, Answer, Crash, SyncACKs, Tick, CleanupOldACKs
<1>5. QED
  BY <1>1, <1>2, <1>3, <1>4

(* And so do a user's cursors.                                             *)
LEMMA CursorBoundNext == TypeOK /\ CursorBound /\ [Next]_vars => CursorBound'
<1> SUFFICES ASSUME TypeOK, CursorBound, [Next]_vars, NEW u \in Users
             PROVE  Cardinality(CursorRows(u)') + Cardinality(CreatingCursor(u)')
                       <= Cardinality(Calls)
  BY DEF CursorBound
<1> DEFINE X == CursorRows(u)
           Y == CreatingCursor(u)
           XX == CursorRows(u)'
           YY == CreatingCursor(u)'
<1>1. Cardinality(X) + Cardinality(Y) <= Cardinality(Calls)
  BY DEF CursorBound
<1>2. Y \in SUBSET Calls /\ YY \in SUBSET Calls
  BY DEF CreatingCursor
<1>3. IsFiniteSet(X)
  <2>0. cursors \in Seq([user : Users, msg : Msgs])
    BY DEF TypeOK
  <2>1. Len(cursors) \in Nat /\ DOMAIN cursors = 1..Len(cursors)
    BY <2>0
  <2>2. IsFiniteSet(1..Len(cursors))
    BY <2>1, FS_Interval
  <2>3. X \in SUBSET (1..Len(cursors))
    BY <2>1 DEF CursorRows
  <2>4. QED
    BY <2>2, <2>3, FS_Subset
<1>4. YY \subseteq Y \/ (X = {} /\ XX = {})
  <2>1. CASE UNCHANGED <<pc, req>>
    BY <2>1 DEF CreatingCursor
  <2>2. ASSUME NEW s \in Calls,
               \A c \in Calls : c # s => pc'[c] = pc[c] /\ req'[c] = req[c],
               pc'[s] # "newCursor"
        PROVE  YY \subseteq Y
    BY <2>2 DEF CreatingCursor
  <2>3. ASSUME NEW s \in Calls,
               \A c \in Calls : c # s => pc'[c] = pc[c] /\ req'[c] = req[c],
               CursorRows(req[s].user) = {}, req' = req, UNCHANGED dbVars
        PROVE  YY \subseteq Y \/ (X = {} /\ XX = {})
    <3>1. CASE req[s].user = u
      BY <2>3, <3>1 DEF CursorRows, dbVars
    <3>2. CASE req[s].user # u
      BY <2>3, <3>2 DEF CreatingCursor
    <3>3. QED
      BY <3>1, <3>2
  <2>4. QED
    BY <2>1, <2>2, <2>3, CallStep
<1>5. CASE X = {} /\ XX = {}
  BY <1>2, <1>5, EmptyKept
<1>6. CASE YY \subseteq Y /\ XX = X
  <2>1. X = XX /\ YY \in SUBSET Y
    BY <1>6
  <2>2. Cardinality(XX) <= Cardinality(X)
    BY <1>3, <2>1, FS_Subset
  <2>3. QED
    BY <1>1, <1>2, <1>3, <2>1, <2>2, FewerKept
<1>7. ASSUME YY \subseteq Y, NEW s \in Calls, pc[s] = "newCursor", pc'[s] # "newCursor",
             req[s].user = u, XX = X \cup {Len(cursors) + 1}
      PROVE  Cardinality(XX) + Cardinality(YY) <= Cardinality(Calls)
  <2>1. s \in Y /\ YY \in SUBSET (Y \ {s})
    BY <1>7 DEF CreatingCursor
  <2>2. QED
    BY <1>1, <1>2, <1>3, <1>7, <2>1, InsertKept
<1>8. QED
  BY <1>4, <1>5, <1>6, <1>7, CursorStep

(* No rows and no requests at first.                                       *)
LEMMA BoundInit == Init => ReceiptBound /\ CursorBound
<1> SUFFICES ASSUME Init PROVE ReceiptBound /\ CursorBound
  OBVIOUS
<1>1. \A u \in Users, m \in Msgs, t \in Types : Rows(u, m, t) = {} /\ Creating(u, m, t) = {}
  BY DEF Init, Rows, Creating
<1>2. \A u \in Users : CursorRows(u) = {} /\ CreatingCursor(u) = {}
  BY DEF Init, CursorRows, CreatingCursor
<1>3. Cardinality({}) + Cardinality({}) <= Cardinality(Calls)
  BY EmptyKept
<1>4. QED
  BY <1>1, <1>2, <1>3, FS_EmptySet DEF ReceiptBound, CursorBound

-----------------------------------------------------------------------------
(* The inductive invariant: types, which receipts a request relies on, and *)
(* rows counted together with the requests that will insert one.           *)
THEOREM Invariance == Spec => []IInv
<1>1. Init => IInv
  BY TypeInit, ReceiptInit, BoundInit DEF IInv
<1>2. IInv /\ [Next]_vars => IInv'
  BY TypeNext, ReceiptNext, ReceiptBoundNext, CursorBoundNext DEF IInv
<1>3. QED
  BY <1>1, <1>2, PTL DEF Spec

(* A repeated receipt that the server has kept is not inserted again.      *)
THEOREM RetryAddsNothingHolds == Spec => []RetryAddsNothing
<1>1. IInv => RetryAddsNothing
  BY DEF IInv, ReceiptInv, SeenInv, RetryAddsNothing
<1>2. QED
  BY <1>1, Invariance, PTL

(* A client is answered only for a receipt that was stored.                *)
THEOREM AnsweredIsStoredHolds == Spec => []AnsweredIsStored
<1>1. IInv => AnsweredIsStored
  BY DEF IInv, ReceiptInv
<1>2. QED
  BY <1>1, Invariance, PTL

(* A receipt never has more rows, nor a user more cursors, than requests   *)
(* can overlap.                                                            *)
THEOREM DuplicatesBoundedHolds == Spec => []DuplicatesBounded
<1>1. IsFiniteSet(Calls)
  BY ReceiptsAssumption
<1>2. ASSUME NEW X, IsFiniteSet(X), NEW Y \in SUBSET Calls,
             Cardinality(X) + Cardinality(Y) <= Cardinality(Calls)
      PROVE  Cardinality(X) <= Cardinality(Calls)
  <2>1. IsFiniteSet(Y)
    BY <1>1, FS_Subset
  <2>2. Cardinality(X) \in Nat /\ Cardinality(Y) \in Nat /\ Cardinality(Calls) \in Nat
    BY <1>1, <1>2, <2>1, FS_CardinalityType
  <2>3. QED
    BY <1>2, <2>2
<1>3. IInv => DuplicatesBounded
  <2> SUFFICES ASSUME IInv PROVE DuplicatesBounded
    OBVIOUS
  <2>1. ASSUME NEW u \in Users, NEW m \in Msgs, NEW t \in Types
        PROVE  Cardinality(Rows(u, m, t)) <= Cardinality(Calls)
    <3>1. /\ IsFiniteSet(Rows(u, m, t)) /\ Creating(u, m, t) \in SUBSET Calls
          /\ Cardinality(Rows(u, m, t)) + Cardinality(Creating(u, m, t)) <= Cardinality(Calls)
      BY DEF IInv, ReceiptBound, Creating
    <3>2. QED
      BY <1>2, <3>1
  <2>2. ASSUME NEW u \in Users PROVE Cardinality(CursorRows(u)) <= Cardinality(Calls)
    <3>1. /\ CreatingCursor(u) \in SUBSET Calls
          /\ Cardinality(CursorRows(u)) + Cardinality(CreatingCursor(u)) <= Cardinality(Calls)
      BY DEF IInv, CursorBound, CreatingCursor
    <3>2. IsFiniteSet(CursorRows(u))
      <4>0. cursors \in Seq([user : Users, msg : Msgs])
        BY DEF IInv, TypeOK
      <4>1. Len(cursors) \in Nat /\ DOMAIN cursors = 1..Len(cursors)
        BY <4>0
      <4>2. IsFiniteSet(1..Len(cursors))
        BY <4>1, FS_Interval
      <4>3. CursorRows(u) \in SUBSET (1..Len(cursors))
        BY <4>1 DEF CursorRows
      <4>4. QED
        BY <4>2, <4>3, FS_Subset
    <3>3. QED
      BY <1>2, <3>1, <3>2
  <2>3. QED
    BY <2>1, <2>2 DEF DuplicatesBounded
<1>4. QED
  BY <1>3, Invariance, PTL

-----------------------------------------------------------------------------
(* What orderly clients add: the requests of a user come one after the     *)
(* other, and one that works on the cursor is about the latest message the *)
(* user's clients reported as read.                                        *)
Upserting == {"cursor", "moveCursor", "newCursor"}

AloneInv ==
    \A s, r \in Calls :
        pc[s] # "idle" /\ pc[r] # "idle" /\ req[s].user = req[r].user => s = r

LatestInv ==
    \A s \in Calls : pc[s] # "idle" =>
        /\ pc[s] \in Upserting => req[s].type = "read"
        /\ req[s].type = "read" =>
              /\ <<req[s].msg, "read">> \in begun[req[s].user]
              /\ \A b \in begun[req[s].user] :
                    b[2] = "read" => ServerTS[b[1]] <= ServerTS[req[s].msg]

(* So no two requests insert a cursor, and it is at a message that was     *)
(* reported as read.                                                       *)
OneCursorInv ==
    /\ \A k, l \in DOMAIN cursors : cursors[k].user = cursors[l].user => k = l
    /\ \A s \in Calls : pc[s] = "newCursor" => CursorRows(req[s].user) = {}
    /\ \A k \in DOMAIN cursors : <<cursors[k].msg, "read">> \in begun[cursors[k].user]

OrderInv == AloneInv /\ LatestInv /\ OneCursorInv

LEMMA OrderInit == Init => OrderInv
  BY DEF Init, OrderInv, AloneInv, LatestInv, OneCursorInv, CursorRows

(* How a request goes on, in a step in which none begins.                  *)
GoesOn(s) ==
    pc'[s] # "idle" =>
        /\ pc[s] # "idle" /\ req'[s] = req[s]
        /\ pc'[s] \in Upserting => pc[s] \in Upserting \/ req[s].type = "read"
        /\ pc'[s] = "newCursor" => pc[s] = "newCursor" \/ CursorRows(req[s].user) = {}

(* A step begins a request, or lets every one go on.                       *)
LEMMA CallsGoOn ==
  ASSUME TypeOK, [Next]_vars
  PROVE  \/ \E s \in Calls, r \in Request, label \in {"check", "cursor"} :
               /\ Begin(s, r, label)
               /\ label = "cursor" \/ r.op = "mark" => r.type = "read"
         \/ begun' = begun /\ \A s \in Calls : GoesOn(s)
<1> USE DEF dbVars, callVars, clientVars
<1>1. pc \in [Calls -> CallStates] /\ req \in [Calls -> Request \cup {NoRequest}]
  BY DEF TypeOK
<1>2. ASSUME NEW s \in Calls, pc[s] # "idle", NEW label,
             label \in Upserting => pc[s] \in Upserting \/ req[s].type = "read",
             label = "newCursor" => CursorRows(req[s].user) = {},
             pc' = [pc EXCEPT ![s] = label], req' = req
      PROVE  \A r \in Calls : GoesOn(r)
  BY <1>1, <1>2 DEF GoesOn
<1>3. ASSUME NEW s \in Calls, End(s) PROVE \A r \in Calls : GoesOn(r)
  BY <1>1, <1>3 DEF End, GoesOn
<1>4. ASSUME UNCHANGED <<pc, req>> PROVE \A r \in Calls : GoesOn(r)
  BY <1>4 DEF GoesOn
<1>5. ASSUME NEW s \in Calls, ProcessACK(s) \/ MarkAsRead(s)
      PROVE  \E r \in Request, label \in {"check", "cursor"} :
                /\ Begin(s, r, label)
                /\ label = "cursor" \/ r.op = "mark" => r.type = "read"
  <2>1. CASE ProcessACK(s)
    <3>1. PICK r \in Request : r.op = "ack" /\ Begin(s, r, "check")
      BY <2>1 DEF ProcessACK
    <3>2. QED
      BY <3>1
  <2>2. CASE MarkAsRead(s)
    <3>1. PICK r \in Request : r.type = "read" /\ Begin(s, r, "cursor")
      BY <2>2 DEF MarkAsRead
    <3>2. QED
      BY <3>1
  <2>3. QED
    BY <1>5, <2>1, <2>2
<1>6. ASSUME NEW s \in Calls, SaveACK(s) PROVE \A r \in Calls : GoesOn(r)
  <2>1. CASE CheckDuplicate(s)
    <3>1. PICK label \in {"answer", "lookup"} : pc' = [pc EXCEPT ![s] = label] /\ req' = req
      BY <2>1 DEF CheckDuplicate, Goto
    <3>2. QED
      BY <1>2, <2>1, <3>1 DEF CheckDuplicate, Upserting
  <2>2. CASE LookupACK(s)
    <3>1. \/ End(s)
          \/ \E label \in {"touch", "status", "create"} :
                pc' = [pc EXCEPT ![s] = label] /\ req' = req
      BY <2>2 DEF LookupACK, Goto, GotoFound
    <3>2. QED
      BY <1>2, <1>3, <2>2, <3>1 DEF LookupACK, Upserting
  <2>3. CASE TouchACK(s)
    BY <1>2, <1>3, <2>3 DEF TouchACK, Goto, Upserting
  <2>4. CASE CreateACK(s)
    BY <1>2, <1>3, <2>4 DEF CreateACK, Goto, Upserting
  <2>5. CASE UpdateMessageStatus(s)
    <3>1. PICK label \in {"cursor", "answer"} :
             /\ pc' = [pc EXCEPT ![s] = label] /\ req' = req
             /\ label = "cursor" => req[s].type = "read"
      BY <2>5 DEF UpdateMessageStatus, Goto
    <3>2. QED
      BY <1>2, <2>5, <3>1 DEF UpdateMessageStatus, Upserting
  <2>6. QED
    BY <1>6, <2>1, <2>2, <2>3, <2>4, <2>5 DEF SaveACK
<1>7. ASSUME NEW s \in Calls, UpsertUserCursor(s) PROVE \A r \in Calls : GoesOn(r)
  <2>1. pc[s] \in Upserting
    BY <1>7 DEF UpsertUserCursor, LookupCursor, MoveCursor, CreateCursor, Upserting
  <2>2. \/ End(s)
        \/ \E label \in {"answer", "status", "moveCursor"} :
              pc' = [pc EXCEPT ![s] = label] /\ req' = req
        \/ CursorRows(req[s].user) = {} /\ pc' = [pc EXCEPT ![s] = "newCursor"] /\ req' = req
    BY <1>7 DEF UpsertUserCursor, LookupCursor, MoveCursor, CreateCursor,
                CursorDone, CursorFailed, Goto, GotoFound
  <2>3. QED
    BY <1>2, <1>3, <2>1, <2>2 DEF Upserting
<1>8. CASE \E s \in Calls : ProcessACK(s) \/ MarkAsRead(s)
  BY <1>5, <1>8
<1>9. CASE \E s \in Calls : SaveACK(s)
  <2>1. begun' = begun
    BY <1>9 DEF SaveACK, CheckDuplicate, LookupACK, TouchACK, CreateACK, UpdateMessageStatus
  <2>2. QED
    BY <1>6, <1>9, <2>1
<1>10. CASE \E s \in Calls : UpsertUserCursor(s)
  <2>1. begun' = begun
    BY <1>10 DEF UpsertUserCursor, LookupCursor, MoveCursor, CreateCursor
  <2>2. QED
    BY <1>7, <1>10, <2>1
<1>11. CASE \E s \in Calls : Answer(s) \/ Crash(s)
  BY <1>3, <1>11 DEF Answer, Crash
<1>12. CASE \/ \E m \in Msgs : StoreMessage(m)
            \/ \E u \in SyncUsers : SyncACKs(u)
            \/ Tick \/ CleanupOldACKs \/ UNCHANGED vars
  <2>1. begun' = begun /\ UNCHANGED <<pc, req>>
    BY <1>12 DEF StoreMessage, SyncACKs, Tick, CleanupOldACKs, vars
  <2>2. QED
    BY <1>4, <2>1
<1>13. QED
  BY <1>8, <1>9, <1>10, <1>11, <1>12 DEF Next

(* A step moves one cursor, inserts one, or touches none.                  *)
Moves(s) ==
    /\ pc[s] = "moveCursor"
    /\ cursors' = [cursors EXCEPT ![row[s]].msg = req[s].msg]
Inserts(s) ==
    /\ pc[s] = "newCursor" /\ pc'[s] # "newCursor"
    /\ cursors' = Append(cursors, [user |-> req[s].user, msg |-> req[s].msg])

LEMMA CursorsGoOn ==
  ASSUME TypeOK, [Next]_vars
  PROVE  cursors' = cursors \/ \E s \in Calls : Moves(s) \/ Inserts(s)
<1> USE DEF dbVars, callVars, clientVars
<1>0. pc \in [Calls -> CallStates]
  BY DEF TypeOK
<1>1. ASSUME NEW s \in Calls, MoveCursor(s) PROVE cursors' = cursors \/ Moves(s)
  BY <1>1 DEF MoveCursor, Moves
<1>2. ASSUME NEW s \in Calls, CreateCursor(s) PROVE cursors' = cursors \/ Inserts(s)
  <2>1. pc'[s] # "newCursor"
    BY <1>0, <1>2 DEF CreateCursor, CursorDone, CursorFailed, Goto, End
  <2>2. QED
    BY <1>2, <2>1 DEF CreateCursor, Inserts
<1>3. CASE \E s \in Calls : UpsertUserCursor(s)
  <2>1. PICK s \in Calls : LookupCursor(s) \/ MoveCursor(s) \/ CreateCursor(s)
    BY <1>3 DEF UpsertUserCursor
  <2>2. CASE LookupCursor(s)
    BY <2>2 DEF LookupCursor
  <2>3. QED
    BY <1>1, <1>2, <2>1, <2>2
<1>4. CASE \E s \in Calls : ProcessACK(s) \/ MarkAsRead(s) \/ Answer(s) \/ Crash(s)
  BY <1>4 DEF ProcessACK, MarkAsRead, Begin, Answer, Crash
<1>5. CASE \E s \in Calls : SaveACK(s)
  BY <1>5 DEF SaveACK, CheckDuplicate, LookupACK, TouchACK, CreateACK, UpdateMessageStatus
<1>6. CASE \/ \E m \in Msgs : StoreMessage(m)
           \/ \E u \in SyncUsers : SyncACKs(u)
           \/ Tick \/ CleanupOldACKs \/ UNCHANGED vars
  BY <1>6 DEF StoreMessage, SyncACKs, Tick, CleanupOldACKs, vars
<1>7. QED
  BY <1>3, <1>4, <1>5, <1>6 DEF Next

(* The table of cursors holds users and messages.                          *)
LEMMA CursorTyped ==
  ASSUME TypeOK
  PROVE  /\ DOMAIN cursors \subseteq Nat
         /\ \A k \in DOMAIN cursors : cursors[k].user \in Users /\ cursors[k].msg \in Msgs
<1> DEFINE C == [user : Users, msg : Msgs]
<1>1. cursors \in Seq(C)
  BY DEF TypeOK
<1>2. \A c \in C : c.user \in Users /\ c.msg \in Msgs
  OBVIOUS
<1> HIDE DEF C
<1>3. DOMAIN cursors \subseteq Nat /\ \A k \in DOMAIN cursors : cursors[k] \in C
  BY <1>1
<1>4. QED
  BY <1>2, <1>3

(* Either way one row, the only one of its user, is set to the message of  *)
(* the request.                                                            *)
Puts(s, k) ==
    /\ DOMAIN cursors' = DOMAIN cursors \cup {k}
    /\ cursors'[k] = [user |-> req[s].user, msg |-> req[s].msg]
    /\ \A l \in DOMAIN cursors \ {k} : cursors'[l] = cursors[l]
    /\ CursorRows(req[s].user) \subseteq {k}
    /\ k \in DOMAIN cursors => cursors[k].user = req[s].user

LEMMA CursorPut ==
  ASSUME TypeOK, OneCursorInv, NEW s \in Calls, Moves(s) \/ Inserts(s)
  PROVE  \E k \in Nat : Puts(s, k)
<1> DEFINE C == [user : Users, msg : Msgs]
<1>1. cursors \in Seq(C) /\ req[s].user \in Users /\ req[s].msg \in Msgs
  BY DEF TypeOK, Request, Moves, Inserts
<1>2. CASE Moves(s)
  <2>1. row[s] \in DOMAIN cursors /\ cursors[row[s]].user = req[s].user /\ row[s] \in Nat
    BY <1>2 DEF Moves, TypeOK, CursorRows
  <2>2. cursors[row[s]] \in C
    <3>1. cursors \in Seq(C) /\ row[s] \in DOMAIN cursors
      BY <1>1, <2>1
    <3> HIDE DEF C
    <3>2. QED
      BY <3>1
  <2>3. cursors' = [cursors EXCEPT ![row[s]] = [cursors[row[s]] EXCEPT !.msg = req[s].msg]]
    BY <1>2 DEF Moves
  <2>4. [cursors[row[s]] EXCEPT !.msg = req[s].msg] =
           [user |-> req[s].user, msg |-> req[s].msg]
    BY <1>1, <2>1, <2>2
  <2>5. CursorRows(req[s].user) \subseteq {row[s]}
    BY <2>1 DEF OneCursorInv, CursorRows
  <2>6. DOMAIN cursors' = DOMAIN cursors
    BY <2>3
  <2>7. Puts(s, row[s])
    BY <1>1, <2>1, <2>3, <2>4, <2>5, <2>6 DEF Puts
  <2>8. QED
    BY <2>1, <2>7
<1>3. CASE Inserts(s)
  <2> DEFINE n == Len(cursors) + 1
             new == [user |-> req[s].user, msg |-> req[s].msg]
  <2>1. new \in C /\ cursors' = Append(cursors, new)
    BY <1>1, <1>3 DEF Inserts
  <2>2. CursorRows(req[s].user) = {}
    BY <1>3 DEF Inserts, OneCursorInv
  <2> HIDE DEF new, C
  <2>3. /\ DOMAIN cursors' = DOMAIN cursors \cup {n} /\ n \notin DOMAIN cursors
        /\ cursors'[n] = new /\ n \in Nat
        /\ \A l \in DOMAIN cursors : cursors'[l] = cursors[l]
    BY <1>1, <2>1
  <2>4. Puts(s, n)
    BY <2>2, <2>3 DEF Puts, new
  <2>5. QED
    BY <2>3, <2>4
<1>4. QED
  BY <1>2, <1>3

(* A request that begins is the only one of its user, and about the latest *)
(* message.                                                                *)
LEMMA OrderBegin ==
  ASSUME InOrder = TRUE, TypeOK, OrderInv, NEW s \in Calls, NEW r \in Request,
         NEW label \in {"check", "cursor"}, Begin(s, r, label),
         label = "cursor" => r.type = "read"
  PROVE  OrderInv'
<1>1. /\ r.user \in Users /\ r.msg \in Msgs
      /\ pc' = [pc EXCEPT ![s] = label] /\ req' = [req EXCEPT ![s] = r]
      /\ begun' = [begun EXCEPT ![r.user] = @ \cup {<<r.msg, r.type>>}]
      /\ Orderly(r.user, r.msg, r.type) /\ cursors' = cursors
  BY DEF Begin, Request, dbVars
<1>2. /\ pc \in [Calls -> CallStates] /\ req \in [Calls -> Request \cup {NoRequest}]
      /\ begun \in [Users -> SUBSET (Msgs \X Types)]
      /\ \A x \in Calls : pc[x] # "idle" => req[x].user \in Users
  BY DEF TypeOK, Request
<1>3. /\ pc'[s] = label /\ req'[s] = r
      /\ begun'[r.user] = begun[r.user] \cup {<<r.msg, r.type>>}
      /\ \A x \in Calls \ {s} : pc'[x] = pc[x] /\ req'[x] = req[x]
      /\ \A u \in Users \ {r.user} : begun'[u] = begun[u]
  BY <1>1, <1>2
<1>4. \A x \in Calls : pc[x] # "idle" => req[x].user # r.user
  BY <1>1 DEF Orderly
<1>5. AloneInv'
  BY <1>3, <1>4 DEF OrderInv, AloneInv
<1>6. LatestInv'
  <2>1. ASSUME NEW b \in begun'[r.user], b[2] = "read", r.type = "read"
        PROVE  ServerTS[b[1]] <= ServerTS[r.msg]
    <3>1. CASE b \in begun[r.user]
      BY <1>1, <2>1, <3>1 DEF Orderly
    <3>2. CASE b = <<r.msg, r.type>>
      BY <1>1, <3>2, ReceiptsAssumption
    <3>3. QED
      BY <1>3, <3>1, <3>2
  <2>2. ASSUME NEW x \in Calls \ {s}, pc[x] # "idle"
        PROVE  begun'[req[x].user] = begun[req[x].user]
    BY <1>2, <1>3, <1>4, <2>2
  <2>3. label \in Upserting => r.type = "read"
    BY DEF Upserting
  <2>4. ASSUME NEW x \in Calls, pc'[x] # "idle"
        PROVE  /\ pc'[x] \in Upserting => req'[x].type = "read"
               /\ req'[x].type = "read" =>
                     /\ <<req'[x].msg, "read">> \in begun'[req'[x].user]
                     /\ \A b \in begun'[req'[x].user] :
                           b[2] = "read" => ServerTS[b[1]] <= ServerTS[req'[x].msg]
    <3>1. CASE x = s
      <4>1. req'[x] = r /\ pc'[x] = label
        BY <1>3, <3>1
      <4>2. r.type = "read" => <<r.msg, "read">> \in begun'[r.user]
        BY <1>3
      <4>3. QED
        BY <2>1, <2>3, <4>1, <4>2
    <3>2. CASE x # s
      BY <1>3, <2>2, <2>4, <3>2 DEF OrderInv, LatestInv
    <3>3. QED
      BY <3>1, <3>2
  <2>5. QED
    BY <2>4 DEF LatestInv, Upserting
<1>7. OneCursorInv'
  <2>1. ASSUME NEW x \in Calls, pc'[x] = "newCursor" PROVE CursorRows(req[x].user) = {} /\ req'[x] = req[x]
    BY <1>3, <2>1 DEF OrderInv, OneCursorInv
  <2>2. ASSUME NEW k \in DOMAIN cursors
        PROVE  <<cursors[k].msg, "read">> \in begun'[cursors[k].user]
    <3>1. cursors[k].user \in Users
      BY CursorTyped
    <3>2. QED
      BY <1>3, <3>1 DEF OrderInv, OneCursorInv
  <2>3. QED
    BY <1>1, <2>1, <2>2 DEF OrderInv, OneCursorInv, CursorRows
<1>8. QED
  BY <1>5, <1>6, <1>7 DEF OrderInv

(* The requests that go on stay alone and in order, and the cursors with   *)
(* them.                                                                   *)
LEMMA OrderNext ==
  ASSUME InOrder = TRUE, TypeOK, OrderInv, [Next]_vars
  PROVE  OrderInv'
<1>1. CASE \E s \in Calls, r \in Request, label \in {"check", "cursor"} :
              Begin(s, r, label) /\ (label = "cursor" => r.type = "read")
  BY <1>1, OrderBegin
<1>2. CASE begun' = begun /\ \A s \in Calls : GoesOn(s)
  <2>1. AloneInv'
    BY <1>2 DEF OrderInv, AloneInv, GoesOn
  <2>2. LatestInv'
    BY <1>2 DEF OrderInv, LatestInv, GoesOn
  <2>3. \A x \in Calls : pc'[x] = "newCursor" =>
           /\ pc[x] # "idle" /\ req'[x] = req[x] /\ CursorRows(req[x].user) = {}
    BY <1>2 DEF OrderInv, OneCursorInv, GoesOn
  <2>4. ASSUME cursors' = cursors PROVE OneCursorInv'
    <3>1. ASSUME NEW x \in Calls, pc'[x] = "newCursor"
          PROVE  \A l \in DOMAIN cursors' : cursors'[l].user # req'[x].user
      BY <2>3, <2>4, <3>1 DEF CursorRows
    <3>2. /\ \A k, l \in DOMAIN cursors' : cursors'[k].user = cursors'[l].user => k = l
          /\ \A k \in DOMAIN cursors' :
                <<cursors'[k].msg, "read">> \in begun'[cursors'[k].user]
      BY <1>2, <2>4 DEF OrderInv, OneCursorInv
    <3>3. QED
      BY <3>1, <3>2 DEF OneCursorInv, CursorRows
  <2>5. ASSUME NEW s \in Calls, Moves(s) \/ Inserts(s) PROVE OneCursorInv'
    <3>1. PICK k \in Nat : Puts(s, k)
      BY <2>5, CursorPut DEF OrderInv
    <3>2. /\ pc[s] # "idle" /\ pc'[s] # "newCursor"
          /\ <<req[s].msg, "read">> \in begun[req[s].user]
      <4>1. pc[s] \in {"moveCursor", "newCursor"}
        BY <2>5 DEF Moves, Inserts
      <4>2. <<req[s].msg, "read">> \in begun[req[s].user]
        BY <4>1 DEF OrderInv, LatestInv, Upserting
      <4>3. ~ (pc'[s] = "newCursor")
        <5>1. CASE Moves(s)
          <6>1. CursorRows(req[s].user) # {}
            BY <5>1 DEF Moves, TypeOK
          <6>2. QED
            BY <2>3, <6>1
        <5>2. QED
          BY <2>5, <5>1 DEF Inserts
      <4>4. QED
        BY <4>1, <4>2, <4>3
    <3>3. \A i, j \in DOMAIN cursors' : cursors'[i].user = cursors'[j].user => i = j
      BY <3>1 DEF Puts, OrderInv, OneCursorInv, CursorRows
    <3>4. ASSUME NEW x \in Calls, pc'[x] = "newCursor"
          PROVE  \A l \in DOMAIN cursors' : cursors'[l].user # req'[x].user
      <4>1. x # s /\ req[x].user # req[s].user
        BY <2>3, <3>2, <3>4 DEF OrderInv, AloneInv
      <4>2. QED
        BY <2>3, <3>1, <3>4, <4>1 DEF Puts, CursorRows
    <3>5. \A l \in DOMAIN cursors' : <<cursors'[l].msg, "read">> \in begun'[cursors'[l].user]
      BY <1>2, <3>1, <3>2 DEF Puts, OrderInv, OneCursorInv
    <3>6. QED
      BY <3>3, <3>4, <3>5 DEF OneCursorInv, CursorRows
  <2>6. QED
    BY <2>1, <2>2, <2>4, <2>5, CursorsGoOn DEF OrderInv
<1>3. QED
  BY <1>1, <1>2, CallsGoOn

(* The latest row of a user who has one is that one.                       *)
LEMMA LastOfOne ==
  ASSUME NEW n \in Nat
  PROVE  (CHOOSE k \in {n} : \A l \in {n} : k >= l) = n
  OBVIOUS

(* A request that moves or inserts a cursor moves what is read on.         *)
LEMMA ReadMovesOn ==
  ASSUME TypeOK, OrderInv, NEW s \in Calls, NEW k \in Nat, Puts(s, k),
         pc[s] \in Upserting, NEW u \in Users
  PROVE  /\ LastReadTS(u) \in Nat /\ LastReadTS(u)' \in Nat /\ LastReadTS(u) <= LastReadTS(u)'
         /\ LastReadTS(u)' = IF u = req[s].user THEN ServerTS[req[s].msg] ELSE LastReadTS(u)
<1>1. /\ \A m \in Msgs : ServerTS[m] \in Nat
      /\ DOMAIN cursors \subseteq Nat
      /\ \A l \in DOMAIN cursors : cursors[l].msg \in Msgs
      /\ req[s].msg \in Msgs
  <2>1. req[s] \in Request
    BY DEF TypeOK, Upserting
  <2>2. QED
    BY <2>1, CursorTyped, ReceiptsAssumption DEF Request
<1>2. CASE u = req[s].user
  <2>1. CursorRows(u)' = {k}
    BY <1>2 DEF Puts, CursorRows
  <2>2. LastCursor(u)' = k
    BY <2>1, LastOfOne DEF LastCursor
  <2>3. LastReadTS(u)' = ServerTS[req[s].msg]
    BY <2>1, <2>2 DEF LastReadTS, Puts
  <2>4. CASE CursorRows(u) = {}
    BY <1>1, <1>2, <2>3, <2>4 DEF LastReadTS
  <2>5. CASE CursorRows(u) = {k}
    <3>1. LastCursor(u) = k
      BY <2>5, LastOfOne DEF LastCursor
    <3>2. LastReadTS(u) = ServerTS[cursors[k].msg] /\ k \in DOMAIN cursors /\ cursors[k].user = u
      BY <2>5, <3>1 DEF LastReadTS, CursorRows
    <3>3. <<cursors[k].msg, "read">> \in begun[u]
      BY <3>2 DEF OrderInv, OneCursorInv
    <3>4. /\ pc[s] # "idle" /\ req[s].type = "read"
      BY DEF OrderInv, LatestInv, Upserting
    <3>5. \A b \in begun[u] : b[2] = "read" => ServerTS[b[1]] <= ServerTS[req[s].msg]
      BY <1>2, <3>4 DEF OrderInv, LatestInv
    <3>6. ServerTS[cursors[k].msg] <= ServerTS[req[s].msg]
      BY <3>3, <3>5
    <3>7. QED
      BY <1>1, <1>2, <2>3, <3>2, <3>6
  <2>6. QED
    BY <1>2, <2>4, <2>5 DEF Puts
<1>3. CASE u # req[s].user
  <2>1. CursorRows(u)' = CursorRows(u)
    BY <1>3 DEF Puts, CursorRows
  <2>2. CASE CursorRows(u) = {}
    BY <1>3, <2>1, <2>2 DEF LastReadTS
  <2>3. CASE CursorRows(u) # {}
    <3>1. PICK l \in CursorRows(u) : TRUE
      BY <2>3
    <3>2. CursorRows(u) = {l} /\ l \in DOMAIN cursors /\ l \in Nat /\ l # k
      BY <1>1, <1>3, <3>1 DEF CursorRows, OrderInv, OneCursorInv, Puts
    <3>3. LastCursor(u) = l /\ LastCursor(u)' = l
      BY <2>1, <3>2, LastOfOne DEF LastCursor
    <3>4. cursors'[l] = cursors[l]
      BY <3>2 DEF Puts
    <3>5. LastReadTS(u) = ServerTS[cursors[l].msg] /\ LastReadTS(u)' = ServerTS[cursors[l].msg]
      BY <2>1, <2>3, <3>3, <3>4 DEF LastReadTS
    <3>6. QED
      BY <1>1, <1>3, <3>2, <3>5
  <2>4. QED
    BY <2>2, <2>3
<1>4. QED
  BY <1>2, <1>3

(* What a user has read stays read if the user's clients wait for answers  *)
(* and acknowledge in order, whatever fails and is repeated.               *)
THEOREM UnreadNeverGrowsHolds ==
  ASSUME InOrder = TRUE
  PROVE  Spec => UnreadNeverGrows
<1>1. Init => TypeOK /\ OrderInv
  BY TypeInit, OrderInit
<1>2. TypeOK /\ OrderInv /\ [Next]_vars => TypeOK' /\ OrderInv'
  BY TypeNext, OrderNext
<1>3. ASSUME TypeOK, OrderInv, [Next]_vars
      PROVE  [stored' = stored => \A u \in Users : Unread(u)' \subseteq Unread(u)]_vars
  <2> SUFFICES ASSUME stored' = stored, NEW u \in Users
               PROVE  Unread(u)' \subseteq Unread(u)
    OBVIOUS
  <2>1. CASE cursors' = cursors
    BY <2>1 DEF Unread, LastReadTS, LastCursor, CursorRows
  <2>2. ASSUME NEW s \in Calls, Moves(s) \/ Inserts(s) PROVE Unread(u)' \subseteq Unread(u)
    <3>1. PICK k \in Nat : Puts(s, k)
      BY <1>3, <2>2, CursorPut DEF OrderInv
    <3>2. pc[s] \in Upserting
      BY <2>2 DEF Moves, Inserts, Upserting
    <3>3. LastReadTS(u) \in Nat /\ LastReadTS(u)' \in Nat /\ LastReadTS(u) <= LastReadTS(u)'
      BY <1>3, <3>1, <3>2, ReadMovesOn
    <3>4. \A m \in stored : ServerTS[m] \in Nat
      BY <1>3, ReceiptsAssumption DEF TypeOK
    <3>5. QED
      BY <3>3, <3>4 DEF Unread
  <2>3. QED
    BY <1>3, <2>1, <2>2, CursorsGoOn
<1>4. QED
  BY <1>1, <1>2, <1>3, PTL DEF Spec, UnreadNeverGrows

-----------------------------------------------------------------------------
(* Rows of one receipt are one row, and a request that will insert one     *)
(* found none.                                                             *)
OneRowInv ==
    /\ \A p, q \in acks : p.user = q.user /\ p.msg = q.msg /\ p.type = q.type => p = q
    /\ \A s \in Calls : pc[s] = "create" => RowsOf(s) = {}

(* A request that comes to insert has just looked and found nothing.       *)
LEMMA LooksFirst ==
  ASSUME TypeOK, [Next]_vars, NEW s \in Calls, pc'[s] = "create"
  PROVE  /\ req'[s] = req[s]
         /\ pc[s] = "create" \/ (RowsOf(s) = {} /\ acks' = acks)
<1>1. \A c \in Calls : pc[c] \in CallStates
  BY DEF TypeOK
<1>2. CASE UNCHANGED <<pc, req>>
  BY <1>2
<1>3. CASE \E c \in Calls :
               /\ \A d \in Calls : d # c => pc'[d] = pc[d] /\ req'[d] = req[d]
               /\ pc'[c] # "create"
  BY <1>3
<1>4. CASE \E c \in Calls :
               /\ \A d \in Calls : d # c => pc'[d] = pc[d] /\ req'[d] = req[d]
               /\ RowsOf(c) = {} /\ req' = req /\ UNCHANGED dbVars
  BY <1>4 DEF dbVars
<1>5. QED
  BY <1>2, <1>3, <1>4, CallStep

(* No step makes a second row: a row is inserted only by a request that    *)
(* found none, and no other one inserts a row for the same user.           *)
LEMMA OneRowNext ==
  ASSUME TypeOK, AloneInv, OneRowInv, [Next]_vars
  PROVE  OneRowInv'
<1>1. ASSUME NEW s \in Calls, pc'[s] = "create"
      PROVE  /\ req'[s] = req[s] /\ RowsOf(s) = {}
             /\ pc[s] = "create" \/ acks' = acks
  BY <1>1, LooksFirst DEF OneRowInv
<1>2. CASE acks' = acks
  BY <1>1, <1>2 DEF OneRowInv, RowsOf, Rows
<1>3. ASSUME NEW s \in Calls, acks' = {Touched(s, r) : r \in acks}
      PROVE  OneRowInv'
  <2>1. acks \subseteq AckRow
    BY DEF TypeOK
  <2>2. \A r \in acks : /\ Touched(s, r).user = r.user
                        /\ Touched(s, r).msg = r.msg
                        /\ Touched(s, r).type = r.type
    BY <2>1 DEF Touched, AckRow
  <2>3. ASSUME NEW x \in Calls, pc'[x] = "create" PROVE RowsOf(x)' = {}
    BY <1>1, <1>3, <2>1, <2>3, TouchedRows DEF RowsOf
  <2>4. QED
    BY <1>3, <2>2, <2>3 DEF OneRowInv
<1>4. ASSUME NEW s \in Calls, CreateACK(s), acks' = acks \cup {NewRow(s)}
      PROVE  OneRowInv'
  <2>1. pc[s] = "create" /\ pc'[s] # "create"
    BY <1>4 DEF CreateACK, Goto, End, TypeOK
  <2>2. /\ NewRow(s).user = req[s].user /\ NewRow(s).msg = req[s].msg
        /\ NewRow(s).type = req[s].type
    BY DEF NewRow
  <2>3. ASSUME NEW r \in acks, r.user = req[s].user, r.msg = req[s].msg, r.type = req[s].type
        PROVE  FALSE
    BY <2>1, <2>3 DEF OneRowInv, RowsOf, Rows
  <2>4. ASSUME NEW x \in Calls, pc'[x] = "create" PROVE RowsOf(x)' = {}
    <3>1. CASE acks' = acks
      BY <1>1, <2>4, <3>1 DEF RowsOf, Rows
    <3>2. CASE pc[x] = "create"
      <4>1. req[x].user # req[s].user
        BY <2>1, <2>4, <3>2 DEF AloneInv
      <4>2. QED
        BY <1>1, <1>4, <2>2, <2>4, <4>1 DEF RowsOf, Rows
    <3>3. QED
      BY <1>1, <2>4, <3>1, <3>2
  <2>5. QED
    BY <1>4, <2>2, <2>3, <2>4 DEF OneRowInv
<1>5. CASE CleanupOldACKs
  <2>1. acks' \subseteq acks
    BY <1>5 DEF CleanupOldACKs
  <2>2. QED
    BY <1>1, <2>1 DEF OneRowInv, RowsOf, Rows
<1>6. QED
  BY <1>2, <1>3, <1>4, <1>5, TableStep

(* CreateOrUpdateACK and UpsertUserCursor are idempotent for clients that  *)
(* wait for an answer, however many of them the service serves at a time.  *)
THEOREM OneReceiptHolds ==
  ASSUME InOrder = TRUE
  PROVE  Spec => []OneReceipt
<1>1. Init => TypeOK /\ OrderInv /\ OneRowInv
  BY TypeInit, OrderInit DEF Init, OneRowInv
<1>2. TypeOK /\ OrderInv /\ OneRowInv /\ [Next]_vars => (TypeOK /\ OrderInv /\ OneRowInv)'
  BY TypeNext, OrderNext, OneRowNext DEF OrderInv
<1>3. ASSUME NEW R, \A p, q \in R : p = q PROVE Cardinality(R) <= 1
  <2>1. CASE R = {}
    BY <2>1, FS_EmptySet
  <2>2. CASE R # {}
    <3>1. PICK p \in R : R = {p}
      BY <1>3, <2>2
    <3>2. QED
      BY <3>1, FS_Singleton
  <2>3. QED
    BY <2>1, <2>2
<1>4. TypeOK /\ OrderInv /\ OneRowInv => OneReceipt
  <2> SUFFICES ASSUME OrderInv, OneRowInv PROVE OneReceipt
    OBVIOUS
  <2>1. \A u, m, t : \A p, q \in Rows(u, m, t) : p = q
    BY DEF OneRowInv, Rows
  <2>2. \A u : \A p, q \in CursorRows(u) : p = q
    BY DEF OrderInv, OneCursorInv, CursorRows
  <2>3. QED
    BY <1>3, <2>1, <2>2 DEF OneReceipt
<1>5. QED
  BY <1>1, <1>2, <1>4, PTL DEF Spec

-----------------------------------------------------------------------------
(* What the book rests on: a request is about a message that is stored, a  *)
(* client does not report as delivered what it reported as read, MarkAsRead*)
(* has moved the cursor before it sets the status, and a message is shown  *)
(* as read only if a client reported it.                                   *)
CallBook(s) ==
    pc[s] # "idle" =>
        /\ req[s].msg \in stored
        /\ req[s].op = "mark" => req[s].type = "read"
        /\ req[s].type = "delivered" => <<req[s].msg, "read">> \notin begun[req[s].user]
        /\ pc[s] = "status" /\ req[s].op = "mark" =>
              ServerTS[req[s].msg] <= LastReadTS(req[s].user)

ShownInv == \A m \in Msgs : status[m] = "read" => \E u \in Users : <<m, "read">> \in begun[u]

BookInv == (\A s \in Calls : CallBook(s)) /\ ShownInv

OrderlyInv == IInv /\ OrderInv /\ OneRowInv /\ BookInv

(* A step that moves no cursor moves no position.                          *)
LEMMA PositionStays ==
  ASSUME cursors' = cursors, NEW u
  PROVE  LastReadTS(u)' = LastReadTS(u)
  BY DEF LastReadTS, LastCursor, CursorRows

(* A request comes to set the status from the table of receipts, or, for   *)
(* MarkAsRead, from the cursor it has moved.                               *)
LEMMA StatusReached ==
  ASSUME TypeOK, SavingInv, [Next]_vars, NEW s \in Calls, pc'[s] = "status"
  PROVE  /\ req'[s] = req[s] /\ pc[s] # "idle"
         /\ \/ pc[s] = "status" \/ req[s].op = "ack"
            \/ Moves(s) \/ Inserts(s)
<1>1. pc \in [Calls -> CallStates] /\ req \in [Calls -> Request \cup {NoRequest}]
  BY DEF TypeOK
<1> DEFINE Goal == /\ req'[s] = req[s] /\ pc[s] # "idle"
                   /\ \/ pc[s] = "status" \/ req[s].op = "ack"
                      \/ Moves(s) \/ Inserts(s)
<1>2. ASSUME NEW x \in Calls, NEW label, label # "status", pc' = [pc EXCEPT ![x] = label],
             \A c \in Calls : c # x => req'[c] = req[c]
      PROVE  Goal
  BY <1>1, <1>2
<1>3. ASSUME NEW x \in Calls, NEW label, label # "status",
             Goto(x, label) \/ \E r : GotoFound(x, label, r)
      PROVE  Goal
  BY <1>2, <1>3 DEF Goto, GotoFound
<1>4. ASSUME NEW x \in Calls, End(x) PROVE Goal
  <2>1. \A c \in Calls : c # x => req'[c] = req[c]
    BY <1>1, <1>4 DEF End
  <2>2. pc' = [pc EXCEPT ![x] = "idle"]
    BY <1>4 DEF End
  <2>3. QED
    BY <1>2, <2>1, <2>2
<1>5. ASSUME NEW x \in Calls, req[x].op = "ack", pc[x] # "idle",
             Goto(x, "status") \/ \E r : GotoFound(x, "status", r)
      PROVE  Goal
  <2>1. pc' = [pc EXCEPT ![x] = "status"] /\ req' = req
    BY <1>5 DEF Goto, GotoFound
  <2>2. QED
    BY <1>1, <1>5, <2>1
<1>6. ASSUME NEW x \in Calls, ProcessACK(x) \/ MarkAsRead(x) PROVE Goal
  <2>1. PICK r \in Request, label \in {"check", "cursor"} : Begin(x, r, label)
    BY <1>6 DEF ProcessACK, MarkAsRead
  <2>2. /\ \A c \in Calls : c # x => req'[c] = req[c]
        /\ pc' = [pc EXCEPT ![x] = label]
    BY <1>1, <2>1 DEF Begin
  <2>3. QED
    BY <1>2, <2>2
<1>7. ASSUME NEW x \in Calls, SaveACK(x) PROVE Goal
  <2>1. CASE CheckDuplicate(x)
    BY <1>2, <1>3, <2>1 DEF CheckDuplicate
  <2>2. CASE LookupACK(x)
    <3>1. req[x].op = "ack" /\ pc[x] # "idle"
      BY <2>2 DEF LookupACK, SavingInv
    <3>2. \/ End(x) \/ Goto(x, "create")
          \/ \E r : GotoFound(x, "touch", r)
          \/ \E r : GotoFound(x, "status", r)
      BY <2>2 DEF LookupACK
    <3>3. QED
      BY <1>3, <1>4, <1>5, <3>1, <3>2
  <2>3. CASE TouchACK(x) \/ CreateACK(x)
    <3>1. req[x].op = "ack" /\ pc[x] # "idle"
      BY <2>3 DEF TouchACK, CreateACK, SavingInv
    <3>2. End(x) \/ Goto(x, "status")
      BY <2>3 DEF TouchACK, CreateACK
    <3>3. QED
      BY <1>4, <1>5, <3>1, <3>2
  <2>4. CASE UpdateMessageStatus(x)
    BY <1>3, <2>4 DEF UpdateMessageStatus
  <2>5. QED
    BY <1>7, <2>1, <2>2, <2>3, <2>4 DEF SaveACK
<1>8. ASSUME NEW x \in Calls, UpsertUserCursor(x) PROVE Goal
  <2>1. CASE CursorFailed(x)
    BY <1>3, <1>4, <2>1 DEF CursorFailed
  <2>2. CASE CursorDone(x) /\ req[x].op = "ack"
    BY <1>3, <2>2 DEF CursorDone
  <2>3. CASE CursorDone(x) /\ req[x].op # "ack"
    <3>1. pc' = [pc EXCEPT ![x] = "status"] /\ req' = req
      BY <2>3 DEF CursorDone, Goto
    <3>2. CASE LookupCursor(x)
      BY <1>3, <1>4, <3>2 DEF LookupCursor, CursorFailed
    <3>3. CASE MoveCursor(x)
      <4>1. ~ CursorFailed(x)
        BY <1>1, <2>3, <3>1 DEF CursorFailed, End
      <4>2. Moves(x)
        BY <3>3, <4>1 DEF MoveCursor, Moves
      <4>3. QED
        BY <1>1, <3>1, <4>2 DEF Moves
    <3>4. CASE CreateCursor(x)
      <4>1. ~ CursorFailed(x)
        BY <1>1, <2>3, <3>1 DEF CursorFailed, End
      <4>2. Inserts(x)
        BY <1>1, <3>1, <3>4, <4>1 DEF CreateCursor, Inserts
      <4>3. QED
        BY <1>1, <3>1, <4>2 DEF Inserts
    <3>5. QED
      BY <1>8, <3>2, <3>3, <3>4 DEF UpsertUserCursor
  <2>4. CASE LookupCursor(x)
    BY <1>3, <2>1, <2>4 DEF LookupCursor
  <2>5. QED
    BY <1>8, <2>1, <2>2, <2>3, <2>4 DEF UpsertUserCursor, MoveCursor, CreateCursor
<1>9. ASSUME NEW x \in Calls, Answer(x) \/ Crash(x) PROVE Goal
  BY <1>4, <1>9 DEF Answer, Crash
<1>10. ASSUME \/ \E m \in Msgs : StoreMessage(m)
              \/ \E u \in SyncUsers : SyncACKs(u)
              \/ Tick \/ CleanupOldACKs \/ UNCHANGED vars
       PROVE  Goal
  BY <1>10 DEF StoreMessage, SyncACKs, Tick, CleanupOldACKs, vars, callVars
<1>11. QED
  BY <1>6, <1>7, <1>8, <1>9, <1>10 DEF Next

(* A request that begins is about a stored message, in the client's order. *)
LEMMA BookBegin ==
  ASSUME InOrder = TRUE, TypeOK, OrderInv, BookInv, NEW s \in Calls, NEW r \in Request,
         NEW label \in {"check", "cursor"}, Begin(s, r, label),
         r.op = "mark" => r.type = "read"
  PROVE  BookInv'
<1>1. /\ r.user \in Users /\ r.msg \in stored /\ r.type \in Types
      /\ pc' = [pc EXCEPT ![s] = label] /\ req' = [req EXCEPT ![s] = r]
      /\ begun' = [begun EXCEPT ![r.user] = @ \cup {<<r.msg, r.type>>}]
      /\ Orderly(r.user, r.msg, r.type)
      /\ cursors' = cursors /\ stored' = stored /\ status' = status
  BY DEF Begin, Request, dbVars
<1>2. /\ pc \in [Calls -> CallStates] /\ req \in [Calls -> Request \cup {NoRequest}]
      /\ begun \in [Users -> SUBSET (Msgs \X Types)]
      /\ \A x \in Calls : pc[x] # "idle" => req[x].user \in Users
  BY DEF TypeOK, Request
<1>3. /\ pc'[s] = label /\ req'[s] = r
      /\ begun'[r.user] = begun[r.user] \cup {<<r.msg, r.type>>}
      /\ \A x \in Calls \ {s} : pc'[x] = pc[x] /\ req'[x] = req[x]
      /\ \A u \in Users \ {r.user} : begun'[u] = begun[u]
  BY <1>1, <1>2
<1>4. ASSUME NEW x \in Calls PROVE CallBook(x)'
  <2>1. CASE x = s
    <3>1. r.type = "delivered" => <<r.msg, "read">> \notin begun'[r.user]
      BY <1>1, <1>3 DEF Orderly
    <3>2. QED
      BY <1>1, <1>3, <2>1, <3>1 DEF CallBook
  <2>2. CASE x # s /\ pc[x] # "idle"
    <3>1. req[x].user # r.user
      BY <1>1, <2>2 DEF Orderly
    <3>2. begun'[req[x].user] = begun[req[x].user]
      BY <1>2, <1>3, <2>2, <3>1
    <3>3. \A u : LastReadTS(u)' = LastReadTS(u)
      BY <1>1, PositionStays
    <3>4. QED
      BY <1>1, <1>3, <2>2, <3>2, <3>3 DEF CallBook, BookInv
  <2>3. CASE x # s /\ pc[x] = "idle"
    BY <1>3, <2>3 DEF CallBook
  <2>4. QED
    BY <2>1, <2>2, <2>3
<1>5. ShownInv'
  <2>1. \A u \in Users : begun[u] \subseteq begun'[u]
    BY <1>1, <1>3
  <2>2. QED
    BY <1>1, <2>1 DEF BookInv, ShownInv
<1>6. QED
  BY <1>4, <1>5 DEF BookInv

(* A position only moves on.                                               *)
LEMMA PositionMovesOn ==
  ASSUME TypeOK, OrderInv, [Next]_vars, NEW u \in Users
  PROVE  LastReadTS(u) \in Nat /\ LastReadTS(u)' \in Nat /\ LastReadTS(u) <= LastReadTS(u)'
<1>1. LastReadTS(u) \in Nat
  <2>1. CASE CursorRows(u) = {}
    BY <2>1 DEF LastReadTS
  <2>2. CASE CursorRows(u) # {}
    <3>1. PICK l \in CursorRows(u) : TRUE
      BY <2>2
    <3>2. CursorRows(u) = {l} /\ l \in DOMAIN cursors /\ l \in Nat
      BY <3>1, CursorTyped DEF CursorRows, OrderInv, OneCursorInv
    <3>3. LastReadTS(u) = ServerTS[cursors[l].msg]
      BY <2>2, <3>2, LastOfOne DEF LastReadTS, LastCursor
    <3>4. QED
      BY <3>2, <3>3, CursorTyped, ReceiptsAssumption
  <2>3. QED
    BY <2>1, <2>2
<1>2. CASE cursors' = cursors
  BY <1>1, <1>2, PositionStays
<1>3. ASSUME NEW s \in Calls, Moves(s) \/ Inserts(s)
      PROVE  LastReadTS(u)' \in Nat /\ LastReadTS(u) <= LastReadTS(u)'
  <2>1. PICK k \in Nat : Puts(s, k)
    BY <1>3, CursorPut DEF OrderInv
  <2>2. pc[s] \in Upserting
    BY <1>3 DEF Moves, Inserts, Upserting
  <2>3. QED
    BY <2>1, <2>2, ReadMovesOn
<1>4. QED
  BY <1>1, <1>2, <1>3, CursorsGoOn

(* What a step does to the messages: it stores one, or sets the status of  *)
(* one to the type of the request, or touches none.                        *)
LEMMA MessageStep ==
  ASSUME [Next]_vars
  PROVE  /\ stored \subseteq stored'
         /\ \/ status' = status
            \/ \E s \in Calls : /\ pc[s] = "status"
                                /\ status' = [status EXCEPT ![req[s].msg] = req[s].type]
  BY DEF Next, vars, dbVars, SaveACK, UpsertUserCursor, StoreMessage, ProcessACK, MarkAsRead,
         Begin, CheckDuplicate, LookupACK, TouchACK, CreateACK, UpdateMessageStatus,
         LookupCursor, MoveCursor, CreateCursor, Answer, Crash, SyncACKs, Tick, CleanupOldACKs

(* Every other step keeps what the book rests on.                          *)
LEMMA BookGoesOn ==
  ASSUME TypeOK, SavingInv, OrderInv, BookInv, [Next]_vars,
         begun' = begun, \A s \in Calls : GoesOn(s)
  PROVE  BookInv'
<1>1. ASSUME NEW x \in Calls, pc'[x] # "idle" PROVE CallBook(x)'
  <2>1. pc[x] # "idle" /\ req'[x] = req[x] /\ req[x] \in Request
    BY <1>1 DEF GoesOn, TypeOK
  <2>2. req[x].user \in Users /\ req[x].msg \in Msgs
    BY <2>1 DEF Request
  <2>3. stored \subseteq stored'
    BY MessageStep
  <2>4. ASSUME NEW u \in Users, req[x].user = u, pc'[x] = "status", req[x].op = "mark"
        PROVE  ServerTS[req[x].msg] <= LastReadTS(u)'
    <3>1. CASE pc[x] = "status"
      <4>1. ServerTS[req[x].msg] <= LastReadTS(u) /\ ServerTS[req[x].msg] \in Nat
        BY <2>1, <2>2, <2>4, <3>1, ReceiptsAssumption DEF BookInv, CallBook
      <4>2. LastReadTS(u) \in Nat /\ LastReadTS(u)' \in Nat /\ LastReadTS(u) <= LastReadTS(u)'
        BY PositionMovesOn
      <4>3. QED
        BY <4>1, <4>2
    <3>2. CASE Moves(x) \/ Inserts(x)
      <4>1. PICK k \in Nat : Puts(x, k)
        BY <3>2, CursorPut DEF OrderInv
      <4>2. pc[x] \in Upserting
        BY <3>2 DEF Moves, Inserts, Upserting
      <4>3. LastReadTS(u)' = ServerTS[req[x].msg] /\ LastReadTS(u)' \in Nat
        BY <2>4, <4>1, <4>2, ReadMovesOn
      <4>4. QED
        BY <4>3
    <3>3. QED
      BY <2>4, <3>1, <3>2, StatusReached
  <2>5. PICK u \in Users : req[x].user = u
    BY <2>2
  <2>6. pc'[x] = "status" /\ req'[x].op = "mark" => ServerTS[req'[x].msg] <= LastReadTS(u)'
    BY <2>1, <2>4, <2>5
  <2>7. QED
    BY <2>1, <2>3, <2>5, <2>6 DEF CallBook, BookInv
<1>2. ShownInv'
  <2>1. ASSUME NEW s \in Calls, pc[s] = "status",
               status' = [status EXCEPT ![req[s].msg] = req[s].type],
               NEW m \in Msgs, status'[m] = "read"
        PROVE  \E u \in Users : <<m, "read">> \in begun[u]
    <3>1. req[s].user \in Users /\ req[s].msg \in Msgs
      BY <2>1 DEF TypeOK, Request
    <3>2. CASE m = req[s].msg
      <4>1. req[s].type = "read"
        BY <2>1, <3>1, <3>2 DEF TypeOK
      <4>2. <<req[s].msg, "read">> \in begun[req[s].user]
        BY <2>1, <4>1 DEF OrderInv, LatestInv
      <4>3. QED
        BY <3>1, <3>2, <4>2
    <3>3. CASE m # req[s].msg
      BY <2>1, <3>3 DEF TypeOK, BookInv, ShownInv
    <3>4. QED
      BY <3>2, <3>3
  <2>2. QED
    BY <2>1, MessageStep DEF BookInv, ShownInv
<1>3. ASSUME NEW x \in Calls, pc'[x] = "idle" PROVE CallBook(x)'
  BY <1>3 DEF CallBook
<1>4. QED
  BY <1>1, <1>2, <1>3 DEF BookInv

(* What holds for orderly clients in every state.                          *)
LEMMA OrderlyInvariance ==
  ASSUME InOrder = TRUE
  PROVE  Spec => []OrderlyInv
<1>1. Init => OrderInv /\ OneRowInv /\ BookInv
  BY OrderInit DEF Init, OneRowInv, BookInv, CallBook, ShownInv
<1>2. IInv /\ OrderInv /\ OneRowInv /\ BookInv /\ [Next]_vars =>
         OrderInv' /\ OneRowInv' /\ BookInv'
  <2> SUFFICES ASSUME IInv, OrderInv, OneRowInv, BookInv, [Next]_vars
               PROVE  OrderInv' /\ OneRowInv' /\ BookInv'
    OBVIOUS
  <2>1. TypeOK /\ SavingInv
    BY DEF IInv, ReceiptInv
  <2>2. OrderInv' /\ OneRowInv'
    BY <2>1, OrderNext, OneRowNext DEF OrderInv
  <2>3. BookInv'
    BY <2>1, BookBegin, BookGoesOn, CallsGoOn
  <2>4. QED
    BY <2>2, <2>3
<1>3. QED
  BY <1>1, <1>2, Invariance, PTL DEF Spec, OrderlyInv

(* Renewing rows and cleaning them up changes nothing in the book.         *)
LEMMA BookKept ==
  ASSUME TypeOK, \/ \E s \in Calls : cleaned' = cleaned /\ acks' = {Touched(s, r) : r \in acks}
                 \/ CleanupOldACKs
  PROVE  Recorded' = Recorded
<1>1. ASSUME NEW s \in Calls, cleaned' = cleaned, acks' = {Touched(s, r) : r \in acks}
      PROVE  Recorded' = Recorded
  <2>1. \A r \in acks : /\ Touched(s, r).user = r.user
                        /\ Touched(s, r).msg = r.msg
                        /\ Touched(s, r).type = r.type
    BY DEF Touched, AckRow, TypeOK
  <2>2. QED
    BY <1>1, <2>1 DEF Recorded
<1>2. CASE CleanupOldACKs
  <2>1. /\ acks' \subseteq acks
        /\ cleaned' = cleaned \cup {<<r.user, r.msg, r.type>> : r \in acks \ acks'}
    BY <1>2 DEF CleanupOldACKs
  <2>2. QED
    BY <2>1 DEF Recorded
<1>3. QED
  BY <1>1, <1>2

(* A receipt that was taken is in the book.                                *)
LEMMA TakenIsRecorded ==
  ASSUME NEW u, NEW m, NEW t
  PROVE  Taken(u, m, t) <=> <<u, m, t>> \in Recorded
<1>1. <<m, t>> \in Receipts(u) <=> \E r \in acks : r.user = u /\ r.msg = m /\ r.type = t
  BY DEF Receipts
<1>2. QED
  BY <1>1 DEF Taken, Recorded

(* Every step of the calls is a step of the book, or none.                 *)
LEMMA BookStep ==
  ASSUME OrderlyInv, [Next]_vars
  PROVE  [Book!Next]_Book!vars
<1>a. TypeOK /\ SavingInv /\ TakenInv /\ AnsweredIsStored /\ OrderInv /\ BookInv
  BY DEF OrderlyInv, IInv, ReceiptInv
<1>b. ASSUME cursors' = cursors
      PROVE  [u \in Users |-> LastReadTS(u)]' = [u \in Users |-> LastReadTS(u)]
  BY <1>b, PositionStays
<1>c. ASSUME acks' = acks, cleaned' = cleaned PROVE Recorded' = Recorded
  BY <1>c DEF Recorded
<1>d. ASSUME NEW s \in Calls, pc[s] # "idle"
      PROVE  /\ req[s].user \in Users /\ req[s].msg \in Msgs /\ req[s].msg \in stored
             /\ req[s].type \in Types
  BY <1>a, <1>d DEF TypeOK, Request, BookInv, CallBook
<1>1. ASSUME NEW m \in Msgs, StoreMessage(m) PROVE Book!Next
  <2>1. Book!Store(m)
    BY <1>1, <1>b, <1>c DEF StoreMessage, clientVars, Book!Store
  <2>2. QED
    BY <2>1 DEF Book!Next
<1>2. ASSUME UNCHANGED <<stored, status, acks, cleaned, known, cursors>>
      PROVE  UNCHANGED Book!vars
  BY <1>2, <1>b, <1>c DEF Book!vars
<1>3. ASSUME NEW s \in Calls,
             \/ ProcessACK(s) \/ MarkAsRead(s) \/ CheckDuplicate(s) \/ LookupACK(s)
             \/ LookupCursor(s) \/ Crash(s)
      PROVE  UNCHANGED Book!vars
  BY <1>2, <1>3 DEF ProcessACK, MarkAsRead, Begin, CheckDuplicate, LookupACK, LookupCursor, Crash,
                    dbVars, clientVars
<1>4. CASE Tick \/ UNCHANGED vars
  BY <1>2, <1>4 DEF Tick, vars, dbVars, clientVars
<1>5. ASSUME NEW s \in Calls, TouchACK(s) PROVE UNCHANGED Book!vars
  <2>1. /\ cleaned' = cleaned /\ UNCHANGED <<stored, status, known, cursors>>
        /\ acks' = acks \/ acks' = {Touched(s, r) : r \in acks}
    BY <1>5 DEF TouchACK, Touched, clientVars
  <2>2. Recorded' = Recorded
    BY <1>a, <1>c, <2>1, BookKept
  <2>3. QED
    BY <1>b, <2>1, <2>2 DEF Book!vars
<1>6. CASE CleanupOldACKs
  <2>1. Recorded' = Recorded
    BY <1>a, <1>6, BookKept
  <2>2. QED
    BY <1>b, <1>6, <2>1 DEF CleanupOldACKs, clientVars, Book!vars
<1>7. ASSUME NEW s \in Calls, CreateACK(s) PROVE [Book!Next]_Book!vars
  <2>1. CASE acks' = acks
    BY <1>2, <1>7, <2>1 DEF CreateACK, clientVars
  <2>2. CASE acks' = acks \cup {NewRow(s)}
    <3>1. Recorded' = Recorded \cup {<<req[s].user, req[s].msg, req[s].type>>}
      <4>1. /\ NewRow(s).user = req[s].user /\ NewRow(s).msg = req[s].msg
            /\ NewRow(s).type = req[s].type
        BY DEF NewRow
      <4>2. cleaned' = cleaned
        BY <1>7 DEF CreateACK
      <4>3. QED
        BY <2>2, <4>1, <4>2 DEF Recorded
    <3>2. Book!Record(req[s].user, req[s].msg, req[s].type)
      BY <1>b, <1>d, <1>7, <3>1 DEF CreateACK, clientVars, Book!Record
    <3>3. QED
      BY <1>d, <1>7, <3>2 DEF CreateACK, Types, Book!Next
  <2>3. QED
    BY <1>7, <2>1, <2>2 DEF CreateACK
<1>8. ASSUME NEW s \in Calls, UpdateMessageStatus(s) PROVE [Book!Next]_Book!vars
  <2>1. CASE status' = status
    BY <1>2, <1>8, <2>1 DEF UpdateMessageStatus, clientVars
  <2>2. CASE status' = [status EXCEPT ![req[s].msg] = req[s].type]
    <3> DEFINE u == req[s].user
               m == req[s].msg
               t == req[s].type
    <3>0. pc[s] = "status"
      BY <1>8 DEF UpdateMessageStatus
    <3>1. <<u, m, t>> \in Recorded \/ (t = "read" /\ ServerTS[m] <= LastReadTS(u))
      <4>1. CASE req[s].op = "ack"
        <5>1. Taken(req[s].user, req[s].msg, req[s].type)
          BY <1>a, <3>0, <4>1 DEF TakenInv
        <5>2. QED
          BY <5>1, TakenIsRecorded
      <4>2. CASE req[s].op = "mark"
        BY <1>a, <3>0, <4>2 DEF BookInv, CallBook
      <4>3. QED
        BY <1>a, <3>0, <4>1, <4>2 DEF TypeOK, Request
    <3>2. Users = {u} /\ status[m] = "read" => t = "read"
      <4> SUFFICES ASSUME Users = {u}, status[m] = "read", t = "delivered" PROVE FALSE
        BY <1>d, <3>0 DEF Types
      <4>1. <<m, "read">> \in begun[u]
        BY <1>a, <1>d, <3>0 DEF BookInv, ShownInv
      <4>2. QED
        BY <1>a, <3>0, <4>1 DEF BookInv, CallBook
    <3>3. Book!Show(u, m, t)
      BY <1>b, <1>c, <1>d, <1>8, <2>2, <3>0, <3>1, <3>2
         DEF UpdateMessageStatus, clientVars, Book!Show
    <3>4. QED
      BY <1>d, <3>0, <3>3 DEF Types, Book!Next
  <2>3. QED
    BY <1>8, <2>1, <2>2 DEF UpdateMessageStatus
<1>9. ASSUME NEW s \in Calls, MoveCursor(s) \/ CreateCursor(s) PROVE [Book!Next]_Book!vars
  <2>1. UNCHANGED <<stored, status, acks, cleaned, known>>
    BY <1>9 DEF MoveCursor, CreateCursor, clientVars
  <2>2. CASE cursors' = cursors
    BY <1>2, <2>1, <2>2
  <2>3. ASSUME NEW x \in Calls, Moves(x) \/ Inserts(x) PROVE Book!Next
    <3>1. PICK k \in Nat : Puts(x, k)
      BY <1>a, <2>3, CursorPut DEF OrderInv
    <3>2. pc[x] \in Upserting
      BY <2>3 DEF Moves, Inserts, Upserting
    <3>3. PICK w \in Users, m \in Msgs : w = req[x].user /\ m = req[x].msg /\ m \in stored
      BY <1>d, <3>2 DEF Upserting
    <3>4. \A u \in Users :
             /\ LastReadTS(u) \in Nat /\ LastReadTS(u)' \in Nat /\ LastReadTS(u) <= LastReadTS(u)'
             /\ LastReadTS(u)' = IF u = w THEN ServerTS[m] ELSE LastReadTS(u)
      BY <1>a, <3>1, <3>2, <3>3, ReadMovesOn
    <3>5. [u \in Users |-> LastReadTS(u)]' =
             [[u \in Users |-> LastReadTS(u)] EXCEPT ![w] = ServerTS[m]]
      BY <3>4
    <3>6. LastReadTS(w) <= ServerTS[m]
      BY <3>4
    <3>7. Book!ReadOn(w, m)
      BY <1>c, <2>1, <3>3, <3>5, <3>6 DEF Book!ReadOn
    <3>8. QED
      BY <3>7 DEF Book!Next
  <2>4. QED
    BY <1>a, <2>2, <2>3, CursorsGoOn
<1>10. ASSUME NEW u \in Users, NEW R \in SUBSET (Msgs \X Types),
              \A k \in R : <<u, k[1], k[2]>> \in Recorded,
              known' = [known EXCEPT ![u] = @ \cup R],
              UNCHANGED <<stored, status, acks, cleaned, cursors>>
       PROVE  Book!Next
  <2>1. Book!Tell(u, R)
    BY <1>b, <1>c, <1>10 DEF Book!Tell
  <2>2. QED
    BY <2>1 DEF Types, Book!Next
<1>11. ASSUME NEW s \in Calls, Answer(s) PROVE [Book!Next]_Book!vars
  <2>1. UNCHANGED <<stored, status, acks, cleaned, cursors>> /\ pc[s] = "answer"
    BY <1>11 DEF Answer, dbVars
  <2>2. CASE UNCHANGED known
    BY <1>2, <2>1, <2>2
  <2>3. CASE /\ req[s].op = "ack"
             /\ Learn(req[s].user, {<<req[s].msg, req[s].type>>}, ts[s], req[s].msg)
    <3>1. <<req[s].user, req[s].msg, req[s].type>> \in Recorded
      BY <1>a, <2>1, <2>3, TakenIsRecorded DEF TakenInv
    <3>2. PICK u \in Users, m \in Msgs, t \in Types :
             req[s].user = u /\ req[s].msg = m /\ req[s].type = t
      BY <1>d, <2>1
    <3>3. <<u, m, t>> \in Recorded /\ known' = [known EXCEPT ![u] = @ \cup {<<m, t>>}]
      BY <2>3, <3>1, <3>2 DEF Learn
    <3>4. {<<m, t>>} \in SUBSET (Msgs \X Types) /\ \A k \in {<<m, t>>} : k[1] = m /\ k[2] = t
      OBVIOUS
    <3>5. QED
      BY <1>10, <2>1, <3>3, <3>4
  <2>4. QED
    BY <1>11, <2>2, <2>3 DEF Answer
<1>12. ASSUME NEW u \in SyncUsers, SyncACKs(u) PROVE [Book!Next]_Book!vars
  <2>1. UNCHANGED <<stored, status, acks, cleaned, cursors>> /\ u \in Users
    BY <1>12, ReceiptsAssumption DEF SyncACKs, dbVars
  <2>2. \E got \in SUBSET MissedACKs(u) :
           \/ UNCHANGED known
           \/ known' = [known EXCEPT ![u] = @ \cup {<<r.msg, r.type>> : r \in got}]
    <3>1. PICK read \in SUBSET Types :
             LET got == {r \in MissedACKs(u) : r.type \in read}
                 R   == {<<r.msg, r.type>> : r \in got}
             IN  \/ UNCHANGED known
                 \/ known' = [known EXCEPT ![u] = @ \cup R]
      BY <1>12 DEF SyncACKs, Learn
    <3>2. QED
      BY <3>1
  <2>3. PICK got \in SUBSET MissedACKs(u) :
           \/ UNCHANGED known
           \/ known' = [known EXCEPT ![u] = @ \cup {<<r.msg, r.type>> : r \in got}]
    BY <2>2
  <2> DEFINE R == {<<r.msg, r.type>> : r \in got}
  <2>4. \A r \in got : r \in acks /\ r.user = u /\ r.msg \in Msgs /\ r.type \in Types
    BY <1>a DEF MissedACKs, TypeOK, AckRow
  <2>5. R \in SUBSET (Msgs \X Types) /\ \A k \in R : <<u, k[1], k[2]>> \in Recorded
    BY <2>4 DEF Recorded
  <2> HIDE DEF R
  <2>6. CASE UNCHANGED known
    BY <1>2, <2>1, <2>6
  <2>7. CASE known' = [known EXCEPT ![u] = @ \cup R]
    BY <1>10, <2>1, <2>5, <2>7
  <2>8. QED
    BY <2>3, <2>6, <2>7 DEF R
<1>13. QED
  BY <1>1, <1>3, <1>4, <1>5, <1>6, <1>7, <1>8, <1>9, <1>11, <1>12
     DEF Next, SaveACK, UpsertUserCursor

(* For clients that wait for answers and acknowledge in order, the calls   *)
(* with their accesses, failures, lost answers, crashes and clean-ups keep *)
(* the promises of the book.                                               *)
THEOREM ImplementsBookHolds ==
  ASSUME InOrder = TRUE
  PROVE  Spec => ImplementsBook
<1>1. Init => Book!Init
  BY DEF Init, Book!Init, Recorded, LastReadTS, CursorRows
<1>2. OrderlyInv /\ [Next]_vars => [Book!Next]_Book!vars
  BY BookStep
<1>3. QED
  BY <1>1, <1>2, OrderlyInvariance, PTL DEF Spec, ImplementsBook, Book!Spec

=============================================================================
